------------------------------ MODULE MCTaskTurns ------------------------------
(* Small instances of TaskTurns for TLC.  Task events are not declared symmetric:   *)
(* the runs check liveness, and two of them make a small model.                     *)
EXTENDS TaskTurns
=============================================================================
