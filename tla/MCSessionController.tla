-------------------------- MODULE MCSessionController --------------------------
(* Small instances of SessionController for TLC. *)
EXTENDS SessionController, TLC

\* Session ids are interchangeable.
SessionSymmetry == Permutations(Sessions)
=============================================================================
