------------------------------ MODULE MCVoicePage ------------------------------
(* Small instances of VoicePage for TLC: a page started twice, and a response with a *)
(* call followed by another one.                                                     *)
EXTENDS VoicePage
=============================================================================
