------------------------------- MODULE Resampler -------------------------------
(***************************************************************************)
(* How the wake listener brings captured frames to the model's rate:       *)
(* on_process and mix_and_resample_downmix of                              *)
(* native/okay-hermes-realtime-wake-listener.c, as operators.              *)
(*                                                                         *)
(* A frame is its number; mixing its channels changes nothing here.  A     *)
(* buffer is a sequence of frames.  The accumulator lives as long as the   *)
(* negotiated format.                                                      *)
(***************************************************************************)
EXTENDS Naturals, SequencesExt

CONSTANTS
  ModelRate,  \* MODEL_RATE
  Rates,      \* negotiated rates
  MaxFrames,  \* frames of a capture (bound)
  MaxBuffers  \* buffers it comes in (bound)

ASSUME RatesAssumption ==
  /\ ModelRate \in Nat \ {0} /\ Rates \subseteq Nat \ {0}
  /\ MaxFrames \in Nat /\ MaxBuffers \in Nat

\* on_stream_param_changed: what a newly negotiated format starts from.
NewFormat == [accumulator |-> 0, ring |-> <<>>]

\* A slip: > for >=.
TakeFrameLate(rate, s, frame) ==
  LET due == s.accumulator + ModelRate
      copies == IF due > rate THEN (due - 1) \div rate ELSE 0
  IN  [accumulator |-> due - copies * rate, ring |-> s.ring \o [i \in 1 .. copies |-> frame]]

\* One frame: written as often as the accumulator holds the negotiated rate.  on_process
\* repeats the loop of mix_and_resample_downmix, which the self test calls.
TakeFrame(rate, s, frame) ==
  LET due == s.accumulator + ModelRate
  IN  [accumulator |-> due % rate, ring |-> s.ring \o [i \in 1 .. due \div rate |-> frame]]

OnProcess(rate, s, frames) ==
  FoldLeft(LAMBDA t, frame : TakeFrame(rate, t, frame), s, frames)

Captured(rate, buffers) ==
  FoldLeft(LAMBDA t, frames : OnProcess(rate, t, frames), NewFormat, buffers)
-----------------------------------------------------------------------------
\* The reference: sample j stands for the time j / ModelRate, and is the frame that ends
\* at or first after it; n frames last n / rate.
FrameAt(rate, j) == (j * rate + ModelRate - 1) \div ModelRate
Sampled(rate, n) == [j \in 1 .. (n * ModelRate) \div rate |-> FrameAt(rate, j)]

\* How m buffers cut a capture: ends[i] is the last frame of buffer i, which may be empty.
Cuts(m) ==
  {ends \in [0 .. m -> 0 .. MaxFrames] :
     ends[0] = 0 /\ \A i \in 1 .. m : ends[i - 1] <= ends[i]}
Buffers(m, ends) ==
  [i \in 1 .. m |-> [k \in 1 .. ends[i] - ends[i - 1] |-> ends[i - 1] + k]]

\* on_process carries the accumulator from buffer to buffer: the recording does not depend
\* on how PipeWire cuts it into buffers, keeps the pace of the source at every rate, above
\* and below the model's, and neither drops nor repeats a sample at the edge of a buffer.
BuffersJoin ==
  \A rate \in Rates, m \in 0 .. MaxBuffers : \A ends \in Cuts(m) :
    Captured(rate, Buffers(m, ends)).ring = Sampled(rate, ends[m])
=============================================================================
