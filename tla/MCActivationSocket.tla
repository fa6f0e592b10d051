--------------------------- MODULE MCActivationSocket ---------------------------
(* Small instances of ActivationSocket for TLC. *)
EXTENDS ActivationSocket

CONSTANTS p1, p2  \* processes
=============================================================================
