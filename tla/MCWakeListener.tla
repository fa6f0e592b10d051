----------------------------- MODULE MCWakeListener -----------------------------
(* Small instances of WakeListener for TLC: a ring with one spare slot, which the   *)
(* callback can lap while the worker copies a window.  Resampler, which feeds the   *)
(* ring, is checked beside it: rates are in thirds of the model's, 9 for 48 kHz.    *)
EXTENDS WakeListener, Resampler

\* Resampling loses and invents nothing at the edge of a buffer (BuffersJoin of
\* Resampler, which speaks of constants only: it is evaluated where a listener starts).
RecordingIsWhole == main = "start" => BuffersJoin
=============================================================================
