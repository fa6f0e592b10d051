---------------------------- MODULE MCRuntimeService ----------------------------
(* Small instances of RuntimeService for TLC. *)
EXTENDS RuntimeService

CONSTANT s1  \* a session id
=============================================================================
