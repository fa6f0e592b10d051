------------------------------ MODULE MCTaskEvents ------------------------------
(* Small instances of TaskEvents for TLC.  Concurrent calls are interchangeable, but *)
(* the runs check liveness, so no symmetry is declared.                              *)
EXTENDS TaskEvents
=============================================================================
