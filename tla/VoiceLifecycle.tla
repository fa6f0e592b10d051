----------------------------- MODULE VoiceLifecycle -----------------------------
(***************************************************************************)
(* What the runtime promises about voice sessions, without saying how: at   *)
(* most one session at a time, one verdict per session, a session ends only *)
(* after its verdict is decided, and whoever is told how a session ended is *)
(* told its verdict and only once it has ended.  SessionController          *)
(* implements it.                                                           *)
(***************************************************************************)
CONSTANTS Sessions, NoSession, Verdicts, Answer(_)

VARIABLES
  current,     \* the session that owns the microphone, or NoSession
  stage,       \* how far each session has come
  verdict,     \* how a session ends, once that is decided
  pageTold,    \* what the voice page was told
  clientTold   \* what the activation handler was told

vars == <<current, stage, verdict, pageTold, clientTold>>

Init ==
  /\ current = NoSession
  /\ stage = [s \in Sessions |-> "unused"]
  /\ verdict = [s \in Sessions |-> "none"]
  /\ pageTold = [s \in Sessions |-> "none"]
  /\ clientTold = [s \in Sessions |-> "none"]

Open(s) ==
  /\ current = NoSession
  /\ stage[s] = "unused"
  /\ current' = s
  /\ stage' = [stage EXCEPT ![s] = "running"]
  /\ UNCHANGED <<verdict, pageTold, clientTold>>

\* A session that cannot be opened ends at once; its client may be told so.
OpenFails(s, told) ==
  /\ current = NoSession
  /\ stage[s] = "unused"
  /\ stage' = [stage EXCEPT ![s] = "ended"]
  /\ verdict' = [verdict EXCEPT ![s] = "failed"]
  /\ clientTold' = [clientTold EXCEPT ![s] = IF told THEN Answer("failed") ELSE @]
  /\ UNCHANGED <<current, pageTold>>

Decide(s, v) ==
  /\ current = s
  /\ stage[s] = "running"
  /\ stage' = [stage EXCEPT ![s] = "ending"]
  /\ verdict' = [verdict EXCEPT ![s] = v]
  /\ UNCHANGED <<current, pageTold, clientTold>>

End(s) ==
  /\ current = s
  /\ stage[s] = "ending"
  /\ stage' = [stage EXCEPT ![s] = "ended"]
  /\ current' = NoSession
  /\ UNCHANGED <<verdict, pageTold, clientTold>>

TellPage(s) ==
  /\ stage[s] = "ended"
  /\ pageTold[s] = "none"
  /\ pageTold' = [pageTold EXCEPT ![s] = verdict[s]]
  /\ UNCHANGED <<current, stage, verdict, clientTold>>

TellClient(s) ==
  /\ stage[s] = "ended"
  /\ clientTold[s] = "none"
  /\ clientTold' = [clientTold EXCEPT ![s] = Answer(verdict[s])]
  /\ UNCHANGED <<current, stage, verdict, pageTold>>

Next ==
  \E s \in Sessions :
    \/ Open(s)
    \/ \E told \in BOOLEAN : OpenFails(s, told)
    \/ \E v \in Verdicts : Decide(s, v)
    \/ End(s)
    \/ TellPage(s)
    \/ TellClient(s)

Spec == Init /\ [][Next]_vars
=============================================================================
