------------------------ MODULE SessionController_proofs ------------------------
(***************************************************************************)
(* What SessionController guarantees for every set of sessions, every queue *)
(* capacity and every choice of page reasons, origins and faults.           *)
(***************************************************************************)
EXTENDS SessionController, SequenceTheorems, TLAPS

(* The queue operations keep a queue a bounded queue of frames. *)

Frames == {"task_event", "stop"}

LEMMA InitType == Init => TypeOK
<1> SUFFICES ASSUME Init PROVE TypeOK
  OBVIOUS
<1>1. <<>> \in Seq(Frames) /\ Len(<<>>) = 0
  OBVIOUS
<1> QED
  BY <1>1, CapacityAssumption
     DEF Init, TypeOK, Phases, NoRequest, Steps, FailureNames, Outcomes, Reasons, Frames

\* RequestBrowserStop makes room for its frame, whatever the queue held.
LEMMA StopFits ==
  ASSUME NEW q \in Seq(Frames), Len(q) <= QueueCapacity
  PROVE  LET p == Append(IF Len(q) < QueueCapacity THEN q ELSE Tail(q), "stop")
         IN p \in Seq(Frames) /\ Len(p) <= QueueCapacity
<1> DEFINE r == IF Len(q) < QueueCapacity THEN q ELSE Tail(q)
<1>1. r \in Seq(Frames) /\ Len(r) < QueueCapacity
  <2>1. CASE Len(q) < QueueCapacity
    BY <2>1
  <2>2. CASE ~(Len(q) < QueueCapacity)
    <3>1. q # <<>>
      BY <2>2, CapacityAssumption
    <3>2. Tail(q) \in Seq(Frames) /\ Len(Tail(q)) = Len(q) - 1
      BY <3>1, HeadTailProperties
    <3> QED
      BY <2>2, <3>2, CapacityAssumption
  <2> QED
    BY <2>1, <2>2
<1>2. "stop" \in Frames
  BY DEF Frames
<1>3. Append(r, "stop") \in Seq(Frames) /\ Len(Append(r, "stop")) = Len(r) + 1
  BY <1>1, <1>2, AppendProperties
<1> HIDE DEF r
<1>4. Len(Append(r, "stop")) <= QueueCapacity
  BY <1>1, <1>3, CapacityAssumption
<1> QED
  BY <1>3, <1>4 DEF r

(* Every action keeps the types. *)

LEMMA TypeStep == TypeOK /\ [Next]_vars => TypeOK'
<1> SUFFICES ASSUME TypeOK, [Next]_vars PROVE TypeOK'
  OBVIOUS
<1> USE DEF TypeOK, Phases, Outcomes, Reasons, Steps, FailureNames, NoRequest, Request,
            lifecycleVars, teardownVars, browserVars, channelVars, clientVars, tokenVars
<1>1. ASSUME UNCHANGED vars PROVE TypeOK'
  BY <1>1 DEF vars
<1>2. ASSUME NEW s \in Sessions, NEW origin \in Origins,
             Activate(s, origin) \/ ActivateLaunchFails(s, origin)
      PROVE  TypeOK'
  <2>1. CASE Activate(s, origin)
    BY <2>1 DEF Activate, Status, Terminal
  <2>2. CASE ActivateLaunchFails(s, origin)
    BY <2>2 DEF ActivateLaunchFails, Status, Terminal
  <2> QED
    BY <1>2, <2>1, <2>2
<1>3. ASSUME NEW s \in Sessions, ClientStep(s) PROVE TypeOK'
  <2>1. CASE WaitForTerminalResult(s)
    BY <2>1 DEF WaitForTerminalResult, ReplyFor
  <2>2. CASE AnswerClient(s)
    <3>1. ReplyFor(result[s]) \in {"completed", "cancelled", "failed", "none"}
      BY DEF ReplyFor
    <3> QED
      BY <2>2, <3>1 DEF AnswerClient
  <2> QED
    BY <1>3, <2>1, <2>2 DEF ClientStep
<1>4. ASSUME NEW s \in Sessions, TokenExpires(s) PROVE TypeOK'
  BY <1>4 DEF TokenExpires
<1>5. ASSUME NEW s \in Sessions, PublishTaskEvent(s) PROVE TypeOK'
  <2> DEFINE p == Append(outbound[s], "task_event")
  <2>1. p \in Seq(Frames) /\ Len(p) <= QueueCapacity
    BY <1>5, AppendProperties, CapacityAssumption DEF PublishTaskEvent, Frames
  <2>2. outbound' = [outbound EXCEPT ![s] = p]
    BY <1>5 DEF PublishTaskEvent
  <2> HIDE DEF p
  <2> QED
    BY <1>5, <2>1, <2>2 DEF PublishTaskEvent, Frames
<1>6. ASSUME NEW s \in Sessions, NEW r \in [outcome : Outcomes, reason : Reasons],
             BeginTeardown(s, r)
      PROVE  /\ active' = active /\ lastClosed' = lastClosed /\ failures' = failures
             /\ phase' \in [Sessions -> Phases] /\ notified' \in Phases
             /\ stopReason' \in [Sessions -> Reasons \cup {"none"}]
             /\ req' \in [Sessions -> [outcome : Outcomes \cup {"none"},
                                      reason : Reasons \cup {"none"}]]
             /\ step' \in [Sessions -> Steps]
  BY <1>6 DEF BeginTeardown, Status, Terminal
<1>7. ASSUME NEW s \in Sessions, StartupExpires(s) PROVE TypeOK'
  BY <1>6, <1>7 DEF StartupExpires
<1>8. ASSUME NEW s \in Sessions, CloseActiveSession(s) PROVE TypeOK'
  BY <1>6, <1>8 DEF CloseActiveSession
<1>9. ASSUME NEW s \in Sessions, ControlStep(s) PROVE TypeOK'
  <2>1. CASE ConsumeActivationToken(s)
    BY <2>1 DEF ConsumeActivationToken
  <2>2. CASE PageReady(s)
    BY <2>2 DEF PageReady, Status, Terminal
  <2>9. CASE PageStarted(s)
    BY <2>9 DEF PageStarted, Status, Terminal
  <2>3. ASSUME NEW r \in PageReasons, PageStop(s, r) PROVE TypeOK'
    <3>1. r \in Reasons /\ OutcomeForStopReason(r) \in Outcomes
      BY ReasonsAssumption DEF OutcomeForStopReason
    <3> QED
      BY <1>6, <2>3, <3>1 DEF PageStop
  <2>4. CASE TeardownComplete(s)
    <3> DEFINE r == IF stopReason[s] = "none" THEN "button" ELSE stopReason[s]
    <3>1. r \in Reasons /\ OutcomeForStopReason(r) \in Outcomes
      BY DEF OutcomeForStopReason
    <3> QED
      BY <1>6, <2>4, <3>1 DEF TeardownComplete
  <2>5. CASE ReportClosed(s)
    BY <2>5 DEF ReportClosed
  <2>10. CASE LateTeardownComplete(s)
    BY <2>10 DEF LateTeardownComplete
  <2>6. ASSUME NEW m \in ControlMessages, RejectControlMessage(s, m) PROVE TypeOK'
    BY <2>6 DEF RejectControlMessage
  <2>7. CASE DeliverOutbound(s)
    <3>1. Tail(outbound[s]) \in Seq(Frames) /\ Len(Tail(outbound[s])) <= QueueCapacity
      BY <2>7, HeadTailProperties, CapacityAssumption DEF DeliverOutbound, Frames
    <3> QED
      BY <2>7, <3>1 DEF DeliverOutbound, Frames
  <2>8. CASE Disconnect(s)
    BY <2>8 DEF Disconnect
  <2> QED
    BY <1>9, <2>1, <2>2, <2>3, <2>4, <2>5, <2>6, <2>7, <2>8, <2>9, <2>10 DEF ControlStep
<1>10. ASSUME NEW s \in Sessions, TeardownStep(s) PROVE TypeOK'
  <2>1. CASE RequestBrowserStop(s)
    <3> DEFINE q == outbound[s]
               p == Append(IF Len(q) < QueueCapacity THEN q ELSE Tail(q), "stop")
    <3>1. p \in Seq(Frames) /\ Len(p) <= QueueCapacity
      BY StopFits DEF Frames
    <3>2. outbound' = [outbound EXCEPT ![s] = p]
      BY <2>1 DEF RequestBrowserStop
    <3> HIDE DEF p
    <3>3. /\ outbound' \in [Sessions -> Seq({"task_event", "stop"})]
          /\ \A t \in Sessions : Len(outbound'[t]) <= QueueCapacity
      BY <3>1, <3>2 DEF Frames
    <3> QED
      BY <2>1, <3>3 DEF RequestBrowserStop
  <2>2. CASE BrowserAcknowledged(s)
    BY <2>2 DEF BrowserAcknowledged, StepTo
  <2>3. CASE AcknowledgementTimesOut(s)
    BY <2>3 DEF AcknowledgementTimesOut, StepTo
  <2>4. CASE CloseBrowser(s)
    BY <2>4 DEF CloseBrowser, StepTo
  <2>6. CASE CloseBrowserEnds(s)
    BY <2>6 DEF CloseBrowserEnds, StepTo
  <2>7. ASSUME NEW failed \in BOOLEAN, ReleaseProfileLock(s, failed) PROVE TypeOK'
    BY <2>7 DEF ReleaseProfileLock, StepTo
  <2>8. ASSUME NEW failed \in BOOLEAN, PersistTrace(s, failed) PROVE TypeOK'
    BY <2>8 DEF PersistTrace, StepTo
  <2>5. CASE Finalize(s)
    <3>1. <<>> \in Seq({"task_event", "stop"}) /\ Len(<<>>) <= QueueCapacity
      BY CapacityAssumption
    <3> QED
      BY <2>5, <3>1 DEF Finalize, Status, Terminal
  <2> QED
    BY <1>10, <2>1, <2>2, <2>3, <2>4, <2>5, <2>6, <2>7, <2>8 DEF TeardownStep
<1>11. ASSUME NEW s \in Sessions, CancelTeardown(s) PROVE TypeOK'
  BY <1>11 DEF CancelTeardown, TaskCancelled, StepTo
<1>12. ASSUME NEW s \in Sessions, CloserSucceeds(s) PROVE TypeOK'
  BY <1>12 DEF CloserSucceeds
<1>13. ASSUME NEW s \in Sessions, CloserRaises(s) PROVE TypeOK'
  BY <1>13 DEF CloserRaises
<1>14. ASSUME NEW s \in Sessions, BrowserExits(s) PROVE TypeOK'
  BY <1>14 DEF BrowserExits
<1> QED
  BY <1>1, <1>2, <1>3, <1>4, <1>5, <1>7, <1>8, <1>9, <1>10, <1>11, <1>12,
     <1>13, <1>14 DEF Next, SessionStep

\* Every reachable state of the controller has its type: no queue outgrows its bound
\* and every phase, step and outcome is one the code defines.
THEOREM TypeCorrect == Spec => []TypeOK
  BY InitType, TypeStep, PTL DEF Spec
-----------------------------------------------------------------------------
(* The inductive invariant.  None of the properties is inductive alone: that a  *)
(* result agrees with its request, say, needs to know that a session which has  *)
(* not begun its teardown has neither.  So the invariant says, stage by stage,  *)
(* what a session has and what it does not have yet.                            *)

Undecided(s) ==
  /\ future[s] = "pending"
  /\ result[s] = "none"
  /\ closedSent[s] = "none"
  /\ reply[s] \in {"none", "opened", "waiting"}

\* An id that has not been used has nothing.
Unused(s) ==
  phase[s] = "idle" =>
    /\ step[s] = "none" /\ req[s] = NoRequest /\ stopReason[s] = "none"
    /\ future[s] = "none" /\ result[s] = "none"
    /\ closedSent[s] = "none" /\ reply[s] = "none"
    /\ relay[s] = "none" /\ outbound[s] = <<>> /\ token[s] = "none"
    /\ closer[s] = "none" /\ browser[s] = "none" /\ deadline[s] = "off"

\* A session nobody asked to stop has its browser's handle and no teardown.
Conversing(s) ==
  phase[s] \in Starting \cup {"live"} =>
    /\ step[s] = "none" /\ req[s] = NoRequest /\ stopReason[s] = "none"
    /\ Undecided(s)
    /\ handle[s] /\ closer[s] = "none"
    /\ relay[s] \notin {"leaving", "awaiting"}
    /\ phase[s] = "live" => deadline[s] = "off"

\* A stopping session has exactly one request, and the coordinator runs it.
Ending(s) ==
  phase[s] = "stopping" =>
    /\ step[s] \notin {"none", "done"}
    /\ req[s].reason \in Reasons
    /\ req[s].outcome = OutcomeForStopReason(req[s].reason)
    /\ stopReason[s] = req[s].reason
    /\ Undecided(s)

\* An ended session was resolved with the outcome of its request; one without a
\* request is a failed launch.
Ended(s) ==
  phase[s] \in Terminal =>
    /\ \/ /\ step[s] = "none" /\ req[s] = NoRequest /\ stopReason[s] = "none"
          /\ result[s] = "failed" /\ relay[s] = "none"
          /\ browser[s] = "none" /\ closer[s] = "none"
       \/ /\ step[s] = "done"
          /\ req[s].reason \in Reasons
          /\ req[s].outcome = OutcomeForStopReason(req[s].reason)
          /\ stopReason[s] = req[s].reason
          /\ result[s] = req[s].outcome
    /\ future[s] = "resolved"
    /\ closedSent[s] \in {"none", result[s]}
    /\ reply[s] \in {"none", "opened", "waiting", ReplyFor(result[s])}
    /\ outbound[s] = <<>> /\ deadline[s] = "off"

\* Exactly the current session is between its activation and its finalization.
Ownership(s) ==
  /\ (active = s) <=> (phase[s] \in Starting \cup {"live", "stopping"})
  /\ token[s] = "fresh" => active = s /\ relay[s] = "none"

\* Where the browser's handle went: kept until close_browser, then with the worker
\* thread, and accounted for once that step is over.
BrowserCustody(s) ==
  /\ step[s] \in {"start", "ack", "close"} => handle[s] /\ closer[s] = "none"
  /\ step[s] = "closing" => closer[s] # "none"
  /\ closer[s] = "returned" => browser[s] = "exited"
  /\ step[s] \in {"release", "persist", "finalize", "done"} /\ browser[s] = "running" =>
       "close_browser" \in failures[s] \/ "teardown_cancelled" \in failures[s]

\* The stop frame is the last one, and there is none before request_browser_stop.
StopFrame(s) ==
  \A i \in 1 .. Len(outbound[s]) :
    outbound[s][i] = "stop" =>
      i = Len(outbound[s]) /\ phase[s] = "stopping" /\ step[s] # "start"

SessionInv(s) ==
  /\ Unused(s)
  /\ Conversing(s)
  /\ Ending(s)
  /\ Ended(s)
  /\ Ownership(s)
  /\ BrowserCustody(s)

IInv ==
  /\ TypeOK
  /\ StatusPublished
  /\ \A s \in Sessions : SessionInv(s) /\ StopFrame(s)

LEMMA InitInv == Init => IInv
<1> SUFFICES ASSUME Init PROVE IInv
  OBVIOUS
<1>1. TypeOK
  BY InitType
<1>2. StatusPublished
  BY DEF Init, StatusPublished, Status
<1>3. ASSUME NEW s \in Sessions PROVE SessionInv(s) /\ StopFrame(s)
  BY SessionsAssumption
     DEF Init, SessionInv, Unused, Conversing, Ending, Ended, Ownership, BrowserCustody,
         StopFrame, Starting, Terminal
<1> QED
  BY <1>1, <1>2, <1>3 DEF IInv

(* A step of one session leaves the others as they are; that is enough for *)
(* what the invariant says of them.                                        *)

SameAt(t) ==
  /\ (active' = t) <=> (active = t)
  /\ phase'[t] = phase[t] /\ stopReason'[t] = stopReason[t]
  /\ req'[t] = req[t] /\ step'[t] = step[t]
  /\ ack'[t] = ack[t] /\ failures'[t] = failures[t]
  /\ deadline'[t] = deadline[t] /\ handle'[t] = handle[t]
  /\ browser'[t] = browser[t] /\ closer'[t] = closer[t]
  /\ outbound'[t] = outbound[t] /\ relay'[t] = relay[t]
  /\ closedSent'[t] = closedSent[t] /\ future'[t] = future[t]
  /\ result'[t] = result[t] /\ reply'[t] = reply[t]
  /\ token'[t] = token[t]

Others(s) == \A t \in Sessions \ {s} : SameAt(t)

LEMMA Frame ==
  ASSUME NEW t \in Sessions, SessionInv(t), SameAt(t)
  PROVE  SessionInv(t)'
BY DEF SameAt, SessionInv, Unused, Conversing, Ending, Ended, Ownership, BrowserCustody,
       Undecided, Starting, Terminal, NoRequest

\* What each action is shown to do.
Moved(s) == SessionInv(s)' /\ Others(s)

\* Activation, its client and the launch token.
LEMMA ActivationMoves ==
  ASSUME NEW s \in Sessions, TypeOK, SessionInv(s)
  PROVE  /\ \A o \in Origins : Activate(s, o) => Moved(s)
         /\ \A o \in Origins : ActivateLaunchFails(s, o) => Moved(s)
         /\ ClientStep(s) => Moved(s)
         /\ TokenExpires(s) => Moved(s)
<1> USE SessionsAssumption
        DEF Moved, Others, SameAt, SessionInv, Unused, Conversing, Ending, Ended, Undecided,
            Ownership, BrowserCustody, Starting, Terminal, NoRequest, Request, TypeOK,
            lifecycleVars, teardownVars, browserVars, channelVars, clientVars, tokenVars
<1>1. ASSUME NEW o \in Origins, Activate(s, o) PROVE Moved(s)
  BY <1>1 DEF Activate
<1>2. ASSUME NEW o \in Origins, ActivateLaunchFails(s, o) PROVE Moved(s)
  BY <1>2 DEF ActivateLaunchFails, ReplyFor
<1>3. ASSUME WaitForTerminalResult(s) PROVE Moved(s)
  <2>1. CASE phase[s] \in Terminal
    <3>1. result[s] # "none"
      BY <2>1 DEF OutcomeForStopReason
    <3>2. reply' = [reply EXCEPT ![s] = ReplyFor(result[s])]
      BY <1>3, <2>1, <3>1 DEF WaitForTerminalResult
    <3> QED
      BY <1>3, <2>1, <3>2 DEF WaitForTerminalResult
  <2>2. CASE phase[s] \notin Terminal
    BY <1>3, <2>2 DEF WaitForTerminalResult, Phases
  <2> QED
    BY <2>1, <2>2
<1>4. ASSUME AnswerClient(s) PROVE Moved(s)
  BY <1>4 DEF AnswerClient
<1>5. ASSUME TokenExpires(s) PROVE Moved(s)
  BY <1>5 DEF TokenExpires
<1> QED
  BY <1>1, <1>2, <1>3, <1>4, <1>5 DEF ClientStep

\* The ways a teardown begins.
LEMMA TeardownBegins ==
  ASSUME NEW s \in Sessions, TypeOK, SessionInv(s)
  PROVE  /\ StartupExpires(s) => Moved(s)
         /\ CloseActiveSession(s) => Moved(s)
         /\ \A r \in PageReasons : PageStop(s, r) => Moved(s)
         /\ TeardownComplete(s) => Moved(s)
<1> USE SessionsAssumption
        DEF Moved, Others, BeginTeardown, PageFrames, Reasons, SameAt, SessionInv, Unused, Conversing, Ending, Ended, Undecided,
            Ownership, BrowserCustody, Starting, Terminal, NoRequest, Request, TypeOK,
            lifecycleVars, teardownVars, browserVars, channelVars, clientVars, tokenVars
<1>1. ASSUME StartupExpires(s) PROVE Moved(s)
  BY <1>1 DEF StartupExpires, OutcomeForStopReason
<1>2. ASSUME CloseActiveSession(s) PROVE Moved(s)
  BY <1>2 DEF CloseActiveSession, OutcomeForStopReason
<1>3. ASSUME NEW r \in PageReasons, PageStop(s, r) PROVE Moved(s)
  BY <1>3, ReasonsAssumption DEF PageStop
<1>4. ASSUME TeardownComplete(s) PROVE Moved(s)
  BY <1>4 DEF TeardownComplete
<1> QED
  BY <1>1, <1>2, <1>3, <1>4

\* The control socket's other steps and the task events.
LEMMA ControlMoves ==
  ASSUME NEW s \in Sessions, TypeOK, SessionInv(s)
  PROVE  /\ ConsumeActivationToken(s) \/ PageReady(s) \/ PageStarted(s) => Moved(s)
         /\ ReportClosed(s) \/ LateTeardownComplete(s) \/ Disconnect(s) => Moved(s)
         /\ \A m \in ControlMessages : RejectControlMessage(s, m) => Moved(s)
         /\ DeliverOutbound(s) \/ PublishTaskEvent(s) => Moved(s)
<1> USE SessionsAssumption
        DEF Moved, Others, PageFrames, SameAt, SessionInv, Unused, Conversing, Ending, Ended, Undecided,
            Ownership, BrowserCustody, Starting, Terminal, NoRequest, Request, TypeOK,
            lifecycleVars, teardownVars, browserVars, channelVars, clientVars, tokenVars
<1>1. ASSUME ConsumeActivationToken(s) PROVE Moved(s)
  BY <1>1 DEF ConsumeActivationToken
<1>2. ASSUME PageReady(s) PROVE Moved(s)
  BY <1>2 DEF PageReady
<1>3. ASSUME PageStarted(s) PROVE Moved(s)
  BY <1>3 DEF PageStarted
<1>4. ASSUME ReportClosed(s) PROVE Moved(s)
  BY <1>4 DEF ReportClosed
<1>5. ASSUME LateTeardownComplete(s) PROVE Moved(s)
  <2>1. phase[s] \in Terminal
    BY <1>5 DEF LateTeardownComplete, Phases
  <2>2. result[s] # "none"
    BY <2>1 DEF OutcomeForStopReason
  <2> QED
    BY <1>5, <2>1, <2>2 DEF LateTeardownComplete
<1>6. ASSUME Disconnect(s) PROVE Moved(s)
  BY <1>6 DEF Disconnect
<1>7. ASSUME NEW m \in ControlMessages, RejectControlMessage(s, m) PROVE Moved(s)
  BY <1>7 DEF RejectControlMessage
<1>8. ASSUME DeliverOutbound(s) PROVE Moved(s)
  BY <1>8 DEF DeliverOutbound
<1>9. ASSUME PublishTaskEvent(s) PROVE Moved(s)
  BY <1>9 DEF PublishTaskEvent, IsActive
<1> QED
  BY <1>1, <1>2, <1>3, <1>4, <1>5, <1>6, <1>7, <1>8, <1>9

\* The coordinator's steps.
LEMMA TeardownMoves ==
  ASSUME NEW s \in Sessions, TypeOK, SessionInv(s)
  PROVE  TeardownStep(s) \/ CancelTeardown(s) => Moved(s)
<1> USE SessionsAssumption
        DEF Moved, Others, StepTo, SameAt, SessionInv, Unused, Conversing, Ending, Ended, Undecided,
            Ownership, BrowserCustody, Starting, Terminal, NoRequest, Request, TypeOK,
            lifecycleVars, teardownVars, browserVars, channelVars, clientVars, tokenVars
<1>1. ASSUME RequestBrowserStop(s) PROVE Moved(s)
  BY <1>1 DEF RequestBrowserStop
<1>2. ASSUME BrowserAcknowledged(s) PROVE Moved(s)
  BY <1>2 DEF BrowserAcknowledged
<1>3. ASSUME AcknowledgementTimesOut(s) PROVE Moved(s)
  BY <1>3 DEF AcknowledgementTimesOut
<1>4. ASSUME CloseBrowser(s) PROVE Moved(s)
  BY <1>4 DEF CloseBrowser
<1>5. ASSUME CloseBrowserEnds(s) PROVE Moved(s)
  <2>1. CASE closer[s] = "returned"
    BY <1>5, <2>1 DEF CloseBrowserEnds
  <2>2. CASE closer[s] # "returned"
    <3>1. "close_browser" \in failures'[s]
      BY <1>5, <2>2 DEF CloseBrowserEnds
    <3> QED
      BY <1>5, <2>2, <3>1 DEF CloseBrowserEnds
  <2> QED
    BY <2>1, <2>2
<1>6. ASSUME NEW f \in BOOLEAN, ReleaseProfileLock(s, f) PROVE Moved(s)
  BY <1>6 DEF ReleaseProfileLock
<1>7. ASSUME NEW f \in BOOLEAN, PersistTrace(s, f) PROVE Moved(s)
  BY <1>7 DEF PersistTrace
<1>8. ASSUME Finalize(s) PROVE Moved(s)
  BY <1>8 DEF Finalize
<1>9. ASSUME CancelTeardown(s) PROVE Moved(s)
  <2>1. "teardown_cancelled" \in failures'[s]
    BY <1>9 DEF CancelTeardown, TaskCancelled
  <2> QED
    BY <1>9, <2>1 DEF CancelTeardown, TaskCancelled
<1> QED
  BY <1>1, <1>2, <1>3, <1>4, <1>5, <1>6, <1>7, <1>8, <1>9 DEF TeardownStep

\* The browser and the thread that closes it.
LEMMA BrowserMoves ==
  ASSUME NEW s \in Sessions, TypeOK, SessionInv(s)
  PROVE  CloserSucceeds(s) \/ CloserRaises(s) \/ BrowserExits(s) => Moved(s)
<1> USE SessionsAssumption
        DEF Moved, Others, SameAt, SessionInv, Unused, Conversing, Ending, Ended, Undecided,
            Ownership, BrowserCustody, Starting, Terminal, NoRequest, Request, TypeOK,
            lifecycleVars, teardownVars, browserVars, channelVars, clientVars, tokenVars
<1>1. ASSUME CloserSucceeds(s) PROVE Moved(s)
  BY <1>1 DEF CloserSucceeds
<1>2. ASSUME CloserRaises(s) PROVE Moved(s)
  BY <1>2 DEF CloserRaises
<1>3. ASSUME BrowserExits(s) PROVE Moved(s)
  BY <1>3 DEF BrowserExits
<1> QED
  BY <1>1, <1>2, <1>3

LEMMA SessionMoves ==
  ASSUME NEW s \in Sessions, TypeOK, SessionInv(s), SessionStep(s)
  PROVE  Moved(s)
BY ActivationMoves, TeardownBegins, ControlMoves, TeardownMoves, BrowserMoves
   DEF SessionStep, ControlStep

(* No handler leaves without notifying the status it produced. *)

LEMMA StatusMoves ==
  ASSUME NEW s \in Sessions, TypeOK, StatusPublished, SessionInv(s), SessionStep(s)
  PROVE  StatusPublished'
<1> USE DEF StatusPublished, lifecycleVars
<1>1. ASSUME UNCHANGED lifecycleVars PROVE StatusPublished'
  BY <1>1 DEF Status
<1>2. ASSUME NEW r, BeginTeardown(s, r) PROVE StatusPublished'
  BY <1>2 DEF BeginTeardown, Status, TypeOK
<1>3. ASSUME notified' = Status(active', phase') PROVE StatusPublished'
  BY <1>3
<1>4. ASSUME NEW o \in Origins, Activate(s, o) PROVE StatusPublished'
  BY <1>3, <1>4 DEF Activate
<1>5. ASSUME NEW o \in Origins, ActivateLaunchFails(s, o) PROVE StatusPublished'
  BY <1>5, SessionsAssumption DEF ActivateLaunchFails, Status
<1>6. CASE ClientStep(s)
  BY <1>1, <1>6 DEF ClientStep, WaitForTerminalResult, AnswerClient
<1>7. CASE TokenExpires(s) \/ PublishTaskEvent(s) \/ CancelTeardown(s)
  BY <1>1, <1>7 DEF TokenExpires, PublishTaskEvent, CancelTeardown, TaskCancelled
<1>8. CASE StartupExpires(s) \/ CloseActiveSession(s)
  BY <1>1, <1>2, <1>8 DEF StartupExpires, CloseActiveSession
<1>9. CASE ControlStep(s)
  BY <1>1, <1>2, <1>3, <1>9
     DEF ControlStep, ConsumeActivationToken, PageReady, PageStarted, PageStop,
         TeardownComplete, ReportClosed, LateTeardownComplete, RejectControlMessage,
         DeliverOutbound, Disconnect
<1>10. CASE TeardownStep(s)
  BY <1>1, <1>3, <1>10
     DEF TeardownStep, RequestBrowserStop, BrowserAcknowledged, AcknowledgementTimesOut,
         CloseBrowser, CloseBrowserEnds, ReleaseProfileLock, PersistTrace, Finalize
<1>11. CASE CloserSucceeds(s) \/ CloserRaises(s) \/ BrowserExits(s)
  BY <1>1, <1>11 DEF CloserSucceeds, CloserRaises, BrowserExits
<1> QED
  BY <1>4, <1>5, <1>6, <1>7, <1>8, <1>9, <1>10, <1>11 DEF SessionStep

(* The page's queue. *)

\* An action that leaves the queue alone keeps StopFrame if it neither ends the
\* stopping phase nor puts the coordinator back to its start.
LEMMA StopFrameFrame ==
  ASSUME NEW t \in Sessions, StopFrame(t), outbound'[t] = outbound[t],
         phase[t] = "stopping" /\ step[t] # "start" =>
           phase'[t] = "stopping" /\ step'[t] # "start"
  PROVE  StopFrame(t)'
BY DEF StopFrame

LEMMA StopFrameMoves ==
  ASSUME NEW s \in Sessions, TypeOK, SessionInv(s), StopFrame(s), SessionStep(s)
  PROVE  StopFrame(s)'
<1> USE DEF TypeOK, lifecycleVars, teardownVars, browserVars, channelVars, clientVars,
            tokenVars
<1>1. ASSUME outbound'[s] = <<>> PROVE StopFrame(s)'
  BY <1>1 DEF StopFrame
<1>2. ASSUME NEW r, BeginTeardown(s, r), outbound' = outbound PROVE StopFrame(s)'
  <2>1. step[s] = "none" => phase[s] # "stopping"
    BY DEF SessionInv, Ending
  <2> QED
    BY <1>2, <2>1, StopFrameFrame DEF BeginTeardown
<1>3. ASSUME phase' = phase, step' = step, outbound' = outbound PROVE StopFrame(s)'
  BY <1>3, StopFrameFrame
<1>4. ASSUME NEW o \in Origins, Activate(s, o) \/ ActivateLaunchFails(s, o)
      PROVE  StopFrame(s)'
  BY <1>1, <1>4 DEF Activate, ActivateLaunchFails, SessionInv, Unused
<1>5. CASE ClientStep(s) \/ TokenExpires(s)
  BY <1>3, <1>5 DEF ClientStep, WaitForTerminalResult, AnswerClient, TokenExpires
<1>6. CASE StartupExpires(s) \/ CloseActiveSession(s)
  BY <1>2, <1>3, <1>6 DEF StartupExpires, CloseActiveSession
<1>7. CASE PublishTaskEvent(s)
  <2> DEFINE q == outbound[s]
  <2>1. q \in Seq({"task_event", "stop"}) /\ outbound'[s] = Append(q, "task_event")
    BY <1>7 DEF PublishTaskEvent
  <2>2. phase[s] # "stopping"
    BY <1>7 DEF PublishTaskEvent, IsActive, Starting
  <2>3. \A i \in 1 .. Len(q) : q[i] # "stop"
    BY <2>2 DEF StopFrame
  <2>4. \A i \in 1 .. Len(Append(q, "task_event")) : Append(q, "task_event")[i] # "stop"
    BY <2>1, <2>3
  <2> QED
    BY <2>1, <2>4 DEF StopFrame
<1>8. CASE DeliverOutbound(s)
  <2> DEFINE q == outbound[s]
  <2>1. q \in Seq({"task_event", "stop"}) /\ q # <<>> /\ outbound'[s] = Tail(q)
    BY <1>8 DEF DeliverOutbound
  <2>2. Len(Tail(q)) = Len(q) - 1 /\ \A i \in 1 .. Len(Tail(q)) : Tail(q)[i] = q[i + 1]
    BY <2>1
  <2>3. phase' = phase /\ step' = step
    BY <1>8 DEF DeliverOutbound
  <2> QED
    BY <2>1, <2>2, <2>3 DEF StopFrame
<1>9. CASE ConsumeActivationToken(s) \/ ReportClosed(s) \/ LateTeardownComplete(s)
        \/ Disconnect(s) \/ \E m \in ControlMessages : RejectControlMessage(s, m)
  BY <1>3, <1>9 DEF ConsumeActivationToken, ReportClosed, LateTeardownComplete,
                    Disconnect, RejectControlMessage
<1>10. CASE PageReady(s) \/ PageStarted(s)
  <2>1. phase[s] # "stopping" /\ outbound' = outbound /\ step' = step
    BY <1>10 DEF PageReady, PageStarted, Starting
  <2> QED
    BY <2>1, StopFrameFrame
<1>11. CASE (\E r \in PageReasons : PageStop(s, r)) \/ TeardownComplete(s)
  BY <1>2, <1>11 DEF PageStop, TeardownComplete
<1>12. CASE RequestBrowserStop(s)
  <2> DEFINE q == outbound[s]
             p == IF Len(q) < QueueCapacity THEN q ELSE Tail(q)
  <2>1. p \in Seq(Frames) /\ \A i \in 1 .. Len(p) : p[i] # "stop"
    <3>1. \A i \in 1 .. Len(q) : q[i] # "stop"
      BY <1>12 DEF RequestBrowserStop, StopFrame
    <3>2. CASE Len(q) < QueueCapacity
      BY <3>1, <3>2 DEF Frames
    <3>3. CASE ~(Len(q) < QueueCapacity)
      BY <3>1, <3>3, CapacityAssumption, HeadTailProperties DEF Frames
    <3> QED
      BY <3>2, <3>3
  <2>2. outbound'[s] = Append(p, "stop")
    BY <1>12 DEF RequestBrowserStop
  <2>3. phase'[s] = "stopping" /\ step'[s] = "ack"
    BY <1>12 DEF RequestBrowserStop, SessionInv, Unused, Conversing, Ended, Phases,
                 Starting, Terminal
  <2> HIDE DEF p
  <2>4. Len(Append(p, "stop")) = Len(p) + 1
        /\ \A i \in 1 .. Len(Append(p, "stop")) : Append(p, "stop")[i] = "stop" =>
              i = Len(Append(p, "stop"))
    BY <2>1
  <2> QED
    BY <2>2, <2>3, <2>4 DEF StopFrame
<1>13. CASE Finalize(s)
  BY <1>1, <1>13 DEF Finalize
<1>14. ASSUME outbound' = outbound, phase' = phase, step'[s] # "start" PROVE StopFrame(s)'
  BY <1>14, StopFrameFrame
<1>15. CASE BrowserAcknowledged(s) \/ AcknowledgementTimesOut(s)
  BY <1>14, <1>15 DEF BrowserAcknowledged, AcknowledgementTimesOut, StepTo
<1>16. CASE CloseBrowser(s) \/ CloseBrowserEnds(s) \/ CancelTeardown(s)
  BY <1>14, <1>16 DEF CloseBrowser, CloseBrowserEnds, CancelTeardown, TaskCancelled, StepTo
<1>17. CASE \E f \in BOOLEAN : ReleaseProfileLock(s, f) \/ PersistTrace(s, f)
  BY <1>14, <1>17 DEF ReleaseProfileLock, PersistTrace, StepTo
<1>18. CASE CloserSucceeds(s) \/ CloserRaises(s) \/ BrowserExits(s)
  BY <1>3, <1>18 DEF CloserSucceeds, CloserRaises, BrowserExits
<1> QED
  BY <1>4, <1>5, <1>6, <1>7, <1>8, <1>9, <1>10, <1>11, <1>12, <1>13, <1>15, <1>16,
     <1>17, <1>18 DEF SessionStep, ControlStep, TeardownStep

LEMMA InvStep == IInv /\ [Next]_vars => IInv'
<1> SUFFICES ASSUME IInv, [Next]_vars PROVE IInv'
  OBVIOUS
<1>1. TypeOK'
  BY TypeStep DEF IInv
<1>2. CASE UNCHANGED vars
  BY <1>1, <1>2 DEF IInv, vars, lifecycleVars, teardownVars, browserVars, channelVars,
     clientVars, tokenVars, StatusPublished, Status, SessionInv, Unused, Conversing, Ending,
     Ended, Undecided, Ownership, BrowserCustody, StopFrame
<1>3. ASSUME NEW s \in Sessions, SessionStep(s) PROVE IInv'
  <2>1. SessionInv(s)' /\ Others(s)
    BY <1>3, SessionMoves DEF IInv, Moved
  <2>2. ASSUME NEW t \in Sessions, t # s PROVE SessionInv(t)' /\ StopFrame(t)'
    <3>1. SameAt(t)
      BY <2>1, <2>2 DEF Others
    <3>2. SessionInv(t)'
      BY <3>1, Frame DEF IInv
    <3>3. StopFrame(t)'
      BY <3>1, StopFrameFrame DEF IInv, SameAt
    <3> QED
      BY <3>2, <3>3
  <2>3. StatusPublished'
    BY <1>3, StatusMoves DEF IInv
  <2>4. StopFrame(s)'
    BY <1>3, StopFrameMoves DEF IInv
  <2> QED
    BY <1>1, <2>1, <2>2, <2>3, <2>4 DEF IInv
<1> QED
  BY <1>2, <1>3 DEF Next

\* The invariant holds: every session has exactly what its stage allows.
THEOREM Inductive == Spec => []IInv
  BY InitInv, InvStep, PTL DEF Spec
-----------------------------------------------------------------------------
(* What follows from the invariant. *)

LEMMA DecidedOutcome ==
  ASSUME IInv, NEW s \in Sessions
  PROVE  /\ result[s] # "none" <=> phase[s] \in Terminal
         /\ phase[s] \in Terminal => result[s] \in Outcomes
         /\ reply[s] \in {"completed", "cancelled", "failed"} =>
              phase[s] \in Terminal /\ reply[s] = ReplyFor(result[s])
         /\ closedSent[s] # "none" => phase[s] \in Terminal /\ closedSent[s] = result[s]
         /\ req[s] # NoRequest <=> step[s] # "none"
<1> USE DEF IInv, SessionInv, Unused, Conversing, Ending, Ended, Undecided, TypeOK, Phases,
            Starting, Terminal
<1>5. req[s].reason \in Reasons => req[s] # NoRequest
  BY DEF NoRequest, Reasons
<1>1. CASE phase[s] = "idle"
  BY <1>1
<1>2. CASE phase[s] \in Starting \cup {"live"}
  BY <1>2
<1>3. CASE phase[s] = "stopping"
  BY <1>3, <1>5
<1>4. CASE phase[s] \in Terminal
  <2>1. result[s] \in Outcomes
    BY <1>4 DEF OutcomeForStopReason, Outcomes, Reasons
  <2>2. result[s] # "none"
    BY <2>1 DEF Outcomes
  <2>3. req[s] # NoRequest <=> step[s] # "none"
    BY <1>4, <1>5
  <2> QED
    BY <1>4, <2>1, <2>2, <2>3
<1> QED
  BY <1>1, <1>2, <1>3, <1>4

LEMMA InvOneOutcome == IInv => OneOutcome
<1> SUFFICES ASSUME IInv, NEW s \in Sessions
             PROVE  /\ req[s] # NoRequest =>
                         /\ stopReason[s] = req[s].reason
                         /\ req[s].outcome = OutcomeForStopReason(req[s].reason)
                         /\ result[s] \in {"none", req[s].outcome}
                    /\ closedSent[s] # "none" => closedSent[s] = result[s]
                    /\ reply[s] \in {"completed", "cancelled", "failed"} =>
                         reply[s] = ReplyFor(result[s])
  BY DEF OneOutcome
<1>1. ASSUME req[s] # NoRequest
      PROVE  /\ stopReason[s] = req[s].reason
             /\ req[s].outcome = OutcomeForStopReason(req[s].reason)
             /\ result[s] \in {"none", req[s].outcome}
  BY <1>1 DEF IInv, SessionInv, Unused, Conversing, Ending, Ended, Undecided, TypeOK,
              Phases, Starting, Terminal
<1> QED
  BY <1>1, DecidedOutcome

LEMMA InvClients == IInv => NoForgottenClient
<1> SUFFICES ASSUME IInv, NEW s \in Sessions, reply[s] \in {"opened", "waiting"},
                    result[s] = "none"
             PROVE  active = s /\ future[s] = "pending"
  BY DEF NoForgottenClient
<1>1. phase[s] \in Starting \cup {"live", "stopping"}
  BY DecidedOutcome DEF IInv, SessionInv, Unused, TypeOK, Phases, Starting, Terminal
<1> QED
  BY <1>1 DEF IInv, SessionInv, Conversing, Ending, Undecided, Ownership

LEMMA InvBrowser == IInv => EndedSessionHasNoBrowser
<1> SUFFICES ASSUME IInv, NEW s \in Sessions, phase[s] \in Terminal, browser[s] = "running"
             PROVE  failures[s] \cap {"close_browser", "teardown_cancelled"} # {}
  BY DEF EndedSessionHasNoBrowser
<1>1. step[s] = "done"
  BY DEF IInv, SessionInv, Ended
<1>2. "close_browser" \in failures[s] \/ "teardown_cancelled" \in failures[s]
  BY <1>1 DEF IInv, SessionInv, BrowserCustody
<1> QED
  BY <1>2

LEMMA InvOther ==
  IInv => TokenOnlyForActive /\ StatusPublished /\ StopFrameIsLast /\ LiveHasNoDeadline
<1> SUFFICES ASSUME IInv
             PROVE  TokenOnlyForActive /\ StopFrameIsLast /\ LiveHasNoDeadline
  BY DEF IInv
<1>1. TokenOnlyForActive
  BY DEF IInv, TokenOnlyForActive, Validate, SessionInv, Ownership
<1>2. StopFrameIsLast
  BY DEF IInv, StopFrameIsLast, StopFrame, TypeOK
<1>3. LiveHasNoDeadline
  BY DEF IInv, LiveHasNoDeadline, SessionInv, Conversing
<1> QED
  BY <1>1, <1>2, <1>3

\* Whatever stops, timeouts, acknowledgements and shutdowns race, everyone who is told
\* how a session ended is told the outcome of the request that ended it.
THEOREM SafeOneOutcome == Spec => []OneOutcome
  BY Inductive, InvOneOutcome, PTL

\* No activation handler waits for a session that can no longer answer it.
THEOREM SafeClients == Spec => []NoForgottenClient
  BY Inductive, InvClients, PTL

\* A session ends with its browser running only if closing it failed or timed out, or
\* the shutdown cancelled the teardown.
THEOREM SafeBrowser == Spec => []EndedSessionHasNoBrowser
  BY Inductive, InvBrowser, PTL

\* A valid launch token belongs to the active session, which has no socket yet.
THEOREM SafeToken == Spec => []TokenOnlyForActive
  BY Inductive, InvOther, PTL

\* The published status is the controller's status after every handler.
THEOREM SafeStatus == Spec => []StatusPublished
  BY Inductive, InvOther, PTL

\* The stop frame ends the page's bounded queue.
THEOREM SafeStopFrame == Spec => []StopFrameIsLast
  BY Inductive, InvOther, PTL

\* A conversation that has begun has no startup deadline.
THEOREM SafeDeadline == Spec => []LiveHasNoDeadline
  BY Inductive, InvOther, PTL
-----------------------------------------------------------------------------
(* Decisions are final. *)

Final(s) ==
  /\ req[s] # NoRequest => req'[s] = req[s]
  /\ result[s] # "none" => result'[s] = result[s]
  /\ reply[s] \in {"completed", "cancelled", "failed"} => reply'[s] = reply[s]
  /\ phase[s] \in Terminal => phase'[s] = phase[s] /\ active' # s

LEMMA FinalMoves ==
  ASSUME NEW s \in Sessions, TypeOK, SessionInv(s), SessionStep(s)
  PROVE  Final(s)
<1> USE DEF TypeOK, Final, lifecycleVars, teardownVars, browserVars, channelVars,
            clientVars, tokenVars
<1>1. phase[s] \in Terminal => active # s
  BY DEF SessionInv, Ownership, Terminal, Starting
<1>2. ASSUME phase[s] = "idle" PROVE Final(s)
  BY <1>2 DEF SessionInv, Unused, Terminal
<1>3. ASSUME active' = active, phase' = phase, req' = req, result' = result,
             reply[s] \in {"completed", "cancelled", "failed"} => reply'[s] = reply[s]
      PROVE  Final(s)
  BY <1>1, <1>3
<1>4. ASSUME NEW r, BeginTeardown(s, r), active = s, result' = result, reply' = reply
      PROVE  Final(s)
  BY <1>1, <1>4 DEF BeginTeardown
<1>5. ASSUME NEW o \in Origins, Activate(s, o) \/ ActivateLaunchFails(s, o) PROVE Final(s)
  BY <1>2, <1>5 DEF Activate, ActivateLaunchFails
<1>6. CASE ClientStep(s) \/ TokenExpires(s) \/ PublishTaskEvent(s) \/ CancelTeardown(s)
  BY <1>3, <1>6 DEF ClientStep, WaitForTerminalResult, AnswerClient, TokenExpires,
                    PublishTaskEvent, CancelTeardown, TaskCancelled, StepTo
<1>7. CASE StartupExpires(s) \/ CloseActiveSession(s)
  BY <1>3, <1>4, <1>7 DEF StartupExpires, CloseActiveSession
<1>8. CASE (\E r \in PageReasons : PageStop(s, r)) \/ TeardownComplete(s)
  BY <1>4, <1>8 DEF PageStop, TeardownComplete
<1>9. CASE PageReady(s) \/ PageStarted(s)
  BY <1>1, <1>9 DEF PageReady, PageStarted
<1>10. CASE ConsumeActivationToken(s) \/ ReportClosed(s) \/ LateTeardownComplete(s)
         \/ DeliverOutbound(s) \/ Disconnect(s)
         \/ \E m \in ControlMessages : RejectControlMessage(s, m)
  BY <1>3, <1>10 DEF ConsumeActivationToken, ReportClosed, LateTeardownComplete,
                     DeliverOutbound, Disconnect, RejectControlMessage
<1>11. CASE Finalize(s)
  BY <1>1, <1>11 DEF Finalize
<1>12. CASE RequestBrowserStop(s) \/ BrowserAcknowledged(s) \/ AcknowledgementTimesOut(s)
         \/ CloseBrowser(s) \/ CloseBrowserEnds(s)
         \/ \E f \in BOOLEAN : ReleaseProfileLock(s, f) \/ PersistTrace(s, f)
  BY <1>3, <1>12 DEF RequestBrowserStop, BrowserAcknowledged, AcknowledgementTimesOut,
                     CloseBrowser, CloseBrowserEnds, ReleaseProfileLock, PersistTrace, StepTo
<1>13. CASE CloserSucceeds(s) \/ CloserRaises(s) \/ BrowserExits(s)
  BY <1>3, <1>13 DEF CloserSucceeds, CloserRaises, BrowserExits
<1> QED
  BY <1>5, <1>6, <1>7, <1>8, <1>9, <1>10, <1>11, <1>12, <1>13
     DEF SessionStep, ControlStep, TeardownStep

LEMMA DecidedStep == IInv /\ [Next]_vars => [\A s \in Sessions : Final(s)]_vars
<1> SUFFICES ASSUME IInv, NEW s \in Sessions, SessionStep(s), NEW t \in Sessions
             PROVE  Final(t)
  BY DEF Next
<1>1. CASE t = s
  BY <1>1, FinalMoves DEF IInv
<1>2. CASE t # s
  <2>1. SameAt(t)
    BY <1>2, SessionMoves DEF IInv, Moved, Others
  <2>2. phase[t] \in Terminal => active # t
    BY DEF IInv, SessionInv, Ownership, Terminal, Starting
  <2> QED
    BY <2>1, <2>2 DEF SameAt, Final
<1> QED
  BY <1>1, <1>2

\* The owner of a teardown, a terminal result and a delivered answer never change, and
\* an ended session never becomes active again.
THEOREM DecidedForGood == Spec => DecisionsAreFinal
<1> DEFINE A == \A s \in Sessions : Final(s)
<1>1. IInv /\ [Next]_vars => [A]_vars
  BY DecidedStep
<1>2. [A]_vars <=> [\A s \in Sessions :
       /\ req[s] # NoRequest => req'[s] = req[s]
       /\ result[s] # "none" => result'[s] = result[s]
       /\ reply[s] \in {"completed", "cancelled", "failed"} => reply'[s] = reply[s]
       /\ phase[s] \in Terminal => phase'[s] = phase[s] /\ active' # s]_vars
  BY DEF Final
<1> QED
  BY <1>1, <1>2, Inductive, PTL DEF Spec, DecisionsAreFinal
-----------------------------------------------------------------------------
(* SessionController implements VoiceLifecycle: each of its steps is a step of the   *)
(* abstract specification or leaves what that one shows unchanged.                   *)

LEMMA LifecycleInit == Init => Lifecycle!Init
BY DEF Init, Lifecycle!Init, Stage, Verdict, Told

LEMMA OthersShown ==
  ASSUME NEW s \in Sessions, Others(s), NEW t \in Sessions \ {s}
  PROVE  /\ Stage(t)' = Stage(t) /\ Verdict(t)' = Verdict(t)
         /\ closedSent'[t] = closedSent[t] /\ Told(t)' = Told(t)
BY DEF Others, SameAt, Stage, Verdict, Told

LEMMA Stutters ==
  ASSUME NEW s \in Sessions, Others(s), active' = active, TypeOK, TypeOK',
         Stage(s)' = Stage(s), Verdict(s)' = Verdict(s), Told(s)' = Told(s),
         closedSent'[s] = closedSent[s]
  PROVE  UNCHANGED Lifecycle!vars
<1>1. \A t \in Sessions : Stage(t)' = Stage(t) /\ Verdict(t)' = Verdict(t)
                          /\ closedSent'[t] = closedSent[t] /\ Told(t)' = Told(t)
  BY OthersShown
<1>2. closedSent' = closedSent
  BY <1>1 DEF TypeOK
<1> QED
  BY <1>1, <1>2 DEF Lifecycle!vars

LEMMA ActivateOpens ==
  ASSUME NEW s \in Sessions, NEW o \in Origins, TypeOK, SessionInv(s), Others(s),
         Activate(s, o)
  PROVE  Lifecycle!Open(s)
<1>1. /\ Stage(s) = "unused" /\ Stage(s)' = "running"
      /\ Verdict(s)' = Verdict(s) /\ Told(s)' = Told(s)
  BY DEF Activate, TypeOK, SessionInv, Unused, Stage, Verdict, Told, Terminal, NoRequest,
         teardownVars
<1>2. active = NoSession /\ active' = s /\ closedSent' = closedSent
  BY DEF Activate, channelVars
<1> QED
  BY <1>1, <1>2, OthersShown DEF Lifecycle!Open

LEMMA LaunchFailureOpensNothing ==
  ASSUME NEW s \in Sessions, NEW o \in Origins, TypeOK, SessionInv(s), Others(s),
         ActivateLaunchFails(s, o)
  PROVE  Lifecycle!OpenFails(s, o = "socket")
<1>1. /\ Stage(s) = "unused" /\ Stage(s)' = "ended" /\ Verdict(s)' = "failed"
      /\ Told(s)' = IF o = "socket" THEN ReplyFor("failed") ELSE Told(s)
  BY DEF ActivateLaunchFails, TypeOK, SessionInv, Unused, Stage, Verdict, Told, Terminal,
         NoRequest, ReplyFor, teardownVars
<1>2. active = NoSession /\ active' = active /\ closedSent' = closedSent
  BY DEF ActivateLaunchFails, channelVars
<1> QED
  BY <1>1, <1>2, OthersShown DEF Lifecycle!OpenFails

\* The first caller decides; the others find the session ending.
LEMMA TeardownDecides ==
  ASSUME NEW s \in Sessions, NEW r, TypeOK, TypeOK', SessionInv(s), SessionInv(s)',
         Others(s), active = s, BeginTeardown(s, r), closedSent' = closedSent, reply' = reply
  PROVE  \/ UNCHANGED Lifecycle!vars
         \/ \E v \in Outcomes : Lifecycle!Decide(s, v)
<1>1. active' = active /\ phase'[s] = "stopping" /\ Told(s)' = Told(s)
  BY DEF BeginTeardown, Told, TypeOK
<1>2. Stage(s)' = "ending" /\ phase[s] \in Starting \cup {"live", "stopping"}
  BY <1>1 DEF Stage, SessionInv, Ownership
<1>3. CASE phase[s] = "stopping"
  <2>1. req'[s] = req[s] /\ req[s] # NoRequest
    BY <1>3 DEF BeginTeardown, TypeOK, SessionInv, Ending, NoRequest, Reasons
  <2>2. Stage(s)' = Stage(s) /\ Verdict(s)' = Verdict(s)
    BY <1>2, <1>3, <2>1 DEF Stage, Verdict
  <2> QED
    BY <1>1, <2>2, Stutters
<1>4. CASE phase[s] # "stopping"
  <2>1. Stage(s) = "running"
    BY <1>2, <1>4 DEF Stage, Starting, Terminal
  <2>2. req'[s].reason \in Reasons /\ req'[s].outcome = OutcomeForStopReason(req'[s].reason)
    BY <1>1 DEF SessionInv, Ending
  <2>3. Verdict(s)' = req'[s].outcome /\ req'[s].outcome \in Outcomes
    BY <2>2 DEF Verdict, NoRequest, Reasons, OutcomeForStopReason, Outcomes
  <2>4. Lifecycle!Decide(s, req'[s].outcome)
    BY <1>1, <1>2, <2>1, <2>3, OthersShown DEF Lifecycle!Decide
  <2> QED
    BY <2>3, <2>4
<1> QED
  BY <1>3, <1>4

LEMMA FinalizeEnds ==
  ASSUME NEW s \in Sessions, TypeOK, SessionInv(s), Others(s), Finalize(s)
  PROVE  Lifecycle!End(s)
<1>1. phase[s] = "stopping"
  BY DEF Finalize, SessionInv, Ownership, Conversing, Starting
<1>2. req[s] # NoRequest /\ req' = req
  BY <1>1 DEF Finalize, SessionInv, Ending, NoRequest, Reasons
<1>3. /\ Stage(s) = "ending" /\ Stage(s)' = "ended"
      /\ Verdict(s)' = Verdict(s) /\ Told(s)' = Told(s)
  BY <1>1, <1>2 DEF Finalize, TypeOK, Stage, Verdict, Told, Terminal
<1>4. active = s /\ active' = NoSession /\ closedSent' = closedSent
  BY DEF Finalize
<1> QED
  BY <1>3, <1>4, OthersShown DEF Lifecycle!End

\* An answer to the activation handler or a session_closed frame follows the end.
LEMMA ClientIsTold ==
  ASSUME NEW s \in Sessions, IInv, TypeOK', SessionInv(s)', Others(s), ClientStep(s)
  PROVE  UNCHANGED Lifecycle!vars \/ Lifecycle!TellClient(s)
<1>1. /\ UNCHANGED <<active, phase, req, result, closedSent>>
      /\ reply[s] \in {"opened", "waiting"}
  BY DEF ClientStep, WaitForTerminalResult, AnswerClient, lifecycleVars, teardownVars,
         channelVars
<1>2. Stage(s)' = Stage(s) /\ Verdict(s)' = Verdict(s) /\ Told(s) = "none"
  BY <1>1 DEF Stage, Verdict, Told
<1>3. CASE reply'[s] \in {"opened", "waiting"}
  <2>1. Told(s)' = Told(s)
    BY <1>2, <1>3 DEF Told
  <2> QED
    BY <1>1, <1>2, <2>1, Stutters DEF IInv
<1>4. CASE reply'[s] \notin {"opened", "waiting"}
  <2>1. phase[s] \in Terminal
    <3>1. phase[s] # "idle"
      BY <1>1 DEF IInv, SessionInv, Unused
    <3>2. CASE phase[s] \in Starting \cup {"live", "stopping"}
      <4>1. Undecided(s) /\ phase'[s] = phase[s]
        BY <1>1, <3>2 DEF IInv, SessionInv, Conversing, Ending
      <4>2. Undecided(s)'
        BY <1>1, <3>2 DEF SessionInv, Conversing, Ending, Starting
      <4>3. reply'[s] = "none"
        BY <1>4, <4>2 DEF Undecided
      <4>4. reply'[s] # "none"
        BY <4>1, <1>1 DEF ClientStep, WaitForTerminalResult, AnswerClient, Undecided, IInv,
           TypeOK
      <4> QED
        BY <4>3, <4>4
    <3> QED
      BY <3>1, <3>2 DEF IInv, TypeOK, Phases, Starting, Terminal
  <2>2. result[s] \in Outcomes /\ result[s] # "none" /\ future[s] = "resolved"
    BY <2>1, DecidedOutcome DEF IInv, SessionInv, Ended
  <2>3. Verdict(s) = result[s]
    BY <2>1 DEF Verdict, IInv, SessionInv, Ended
  <2>4. reply'[s] = ReplyFor(result[s])
    BY <1>4, <2>2 DEF ClientStep, WaitForTerminalResult, AnswerClient, IInv, TypeOK
  <2>5. Told(s)' = ReplyFor(Verdict(s)) /\ Stage(s) = "ended"
    BY <1>4, <2>1, <2>3, <2>4 DEF Told, Stage, Terminal
  <2> QED
    BY <1>1, <1>2, <2>5, OthersShown DEF Lifecycle!TellClient
<1> QED
  BY <1>3, <1>4

LEMMA PageIsTold ==
  ASSUME NEW s \in Sessions, IInv, TypeOK', SessionInv(s)', Others(s),
         ReportClosed(s) \/ LateTeardownComplete(s)
  PROVE  UNCHANGED Lifecycle!vars \/ Lifecycle!TellPage(s)
<1>1. UNCHANGED <<active, phase, req, result, reply>>
  BY DEF ReportClosed, LateTeardownComplete, lifecycleVars, teardownVars, clientVars
<1>2. Stage(s)' = Stage(s) /\ Verdict(s)' = Verdict(s) /\ Told(s)' = Told(s)
  BY <1>1 DEF Stage, Verdict, Told
<1>3. CASE closedSent'[s] = closedSent[s]
  BY <1>1, <1>2, <1>3, Stutters DEF IInv
<1>4. CASE closedSent'[s] # closedSent[s]
  <2>1. phase[s] \in Terminal
    <3>1. phase[s] # "idle"
      BY <1>1, <1>4 DEF IInv, SessionInv, Unused
    <3>2. phase[s] \notin Starting \cup {"live", "stopping"}
      BY <1>1, <1>4 DEF IInv, SessionInv, Conversing, Ending, Undecided, Starting
    <3> QED
      BY <3>1, <3>2 DEF IInv, TypeOK, Phases, Starting, Terminal
  <2>2. closedSent[s] = "none" /\ closedSent'[s] = result[s]
    <3>1. result[s] # "none" /\ closedSent[s] \in {"none", result[s]}
      BY <2>1, DecidedOutcome DEF IInv, SessionInv, Ended
    <3>2. CASE ReportClosed(s)
      <4>1. closedSent'[s] = req[s].outcome /\ step[s] = "done"
        BY <1>4, <3>2 DEF ReportClosed, IInv, TypeOK
      <4>2. req[s].outcome = result[s]
        BY <2>1, <4>1 DEF IInv, SessionInv, Ended
      <4> QED
        BY <1>4, <3>1, <4>1, <4>2
    <3>3. CASE LateTeardownComplete(s)
      BY <1>4, <3>1, <3>3 DEF LateTeardownComplete, IInv, TypeOK
    <3> QED
      BY <3>2, <3>3
  <2>3. Verdict(s) = result[s] /\ Stage(s) = "ended"
    BY <2>1 DEF Verdict, Stage, IInv, SessionInv, Ended, Terminal
  <2>4. closedSent' = [closedSent EXCEPT ![s] = Verdict(s)]
    BY <2>2, <2>3, OthersShown DEF IInv, TypeOK
  <2> QED
    BY <1>1, <1>2, <2>2, <2>3, <2>4, OthersShown DEF Lifecycle!TellPage
<1> QED
  BY <1>3, <1>4

\* Every other step shows nothing: the phase moves at most within a stage.
LEMMA OtherStepsStutter ==
  ASSUME NEW s \in Sessions, TypeOK, TypeOK', Others(s),
         UNCHANGED <<active, req, result, reply, closedSent>>,
         \/ phase' = phase
         \/ phase[s] \in Starting \cup {"live"} /\ phase'[s] \in Starting \cup {"live"}
  PROVE  UNCHANGED Lifecycle!vars
<1>1. Stage(s)' = Stage(s)
  BY DEF Stage, Starting, Terminal
<1>2. Verdict(s)' = Verdict(s) /\ Told(s)' = Told(s)
  BY DEF Verdict, Told
<1> QED
  BY <1>1, <1>2, Stutters

LEMMA LifecycleStep == IInv /\ IInv' /\ [Next]_vars => [Lifecycle!Next]_(Lifecycle!vars)
<1> SUFFICES ASSUME IInv, IInv', [Next]_vars PROVE [Lifecycle!Next]_(Lifecycle!vars)
  OBVIOUS
<1> USE DEF lifecycleVars, teardownVars, browserVars, channelVars, clientVars, tokenVars
<1>1. CASE UNCHANGED vars
  BY <1>1 DEF vars, Lifecycle!vars, Stage, Verdict, Told
<1>2. ASSUME NEW s \in Sessions, SessionStep(s) PROVE [Lifecycle!Next]_(Lifecycle!vars)
  <2>1. TypeOK /\ TypeOK' /\ SessionInv(s) /\ SessionInv(s)' /\ Others(s)
    BY <1>2, SessionMoves DEF IInv, Moved
  <2>2. ASSUME NEW o \in Origins, Activate(s, o) PROVE Lifecycle!Next
    BY <2>1, <2>2, ActivateOpens DEF Lifecycle!Next
  <2>3. ASSUME NEW o \in Origins, ActivateLaunchFails(s, o) PROVE Lifecycle!Next
    BY <2>1, <2>3, LaunchFailureOpensNothing DEF Lifecycle!Next
  <2>4. CASE ClientStep(s)
    BY <2>1, <2>4, ClientIsTold DEF Lifecycle!Next
  <2>5. ASSUME NEW r, BeginTeardown(s, r), active = s, closedSent' = closedSent,
               reply' = reply
        PROVE  [Lifecycle!Next]_(Lifecycle!vars)
    BY <2>1, <2>5, TeardownDecides DEF Lifecycle!Next
  <2>6. ASSUME UNCHANGED <<active, req, result, reply, closedSent>>, phase' = phase
        PROVE  UNCHANGED Lifecycle!vars
    BY <2>1, <2>6, OtherStepsStutter
  <2>7. CASE StartupExpires(s) \/ CloseActiveSession(s)
    BY <2>5, <2>6, <2>7 DEF StartupExpires, CloseActiveSession
  <2>8. CASE (\E r \in PageReasons : PageStop(s, r)) \/ TeardownComplete(s)
    BY <2>5, <2>8 DEF PageStop, TeardownComplete
  <2>9. CASE PageReady(s) \/ PageStarted(s)
    <3>1. UNCHANGED <<active, req, result, reply, closedSent>>
      BY <2>9 DEF PageReady, PageStarted
    <3>2. phase[s] \in Starting \cup {"live"} /\ phase'[s] \in Starting \cup {"live"}
      BY <2>1, <2>9 DEF PageReady, PageStarted, Starting, TypeOK
    <3> QED
      BY <2>1, <3>1, <3>2, OtherStepsStutter
  <2>10. CASE ReportClosed(s) \/ LateTeardownComplete(s)
    BY <2>1, <2>10, PageIsTold DEF Lifecycle!Next
  <2>11. CASE TokenExpires(s) \/ PublishTaskEvent(s) \/ CancelTeardown(s)
    BY <2>6, <2>11 DEF TokenExpires, PublishTaskEvent, CancelTeardown, TaskCancelled, StepTo
  <2>12. CASE ConsumeActivationToken(s) \/ DeliverOutbound(s) \/ Disconnect(s)
           \/ \E m \in ControlMessages : RejectControlMessage(s, m)
    BY <2>6, <2>12 DEF ConsumeActivationToken, DeliverOutbound, Disconnect,
                       RejectControlMessage
  <2>13. CASE Finalize(s)
    BY <2>1, <2>13, FinalizeEnds DEF Lifecycle!Next
  <2>14. CASE RequestBrowserStop(s) \/ BrowserAcknowledged(s)
           \/ AcknowledgementTimesOut(s) \/ CloseBrowser(s) \/ CloseBrowserEnds(s)
           \/ \E f \in BOOLEAN : ReleaseProfileLock(s, f) \/ PersistTrace(s, f)
    BY <2>6, <2>14 DEF RequestBrowserStop, BrowserAcknowledged, AcknowledgementTimesOut,
       CloseBrowser, CloseBrowserEnds, ReleaseProfileLock, PersistTrace, StepTo
  <2>15. CASE CloserSucceeds(s) \/ CloserRaises(s) \/ BrowserExits(s)
    BY <2>6, <2>15 DEF CloserSucceeds, CloserRaises, BrowserExits
  <2> QED
    BY <1>2, <2>2, <2>3, <2>4, <2>7, <2>8, <2>9, <2>10, <2>11, <2>12, <2>13, <2>14, <2>15
       DEF SessionStep, ControlStep, TeardownStep
<1> QED
  BY <1>1, <1>2 DEF Next

\* The controller implements VoiceLifecycle: one session at a time, one verdict each,
\* told only after the end.
THEOREM LifecycleImplemented == Spec => ImplementsLifecycle
<1>1. Init => Lifecycle!Init
  BY LifecycleInit
<1>2. IInv /\ IInv' /\ [Next]_vars => [Lifecycle!Next]_(Lifecycle!vars)
  BY LifecycleStep
<1> QED
  BY <1>1, <1>2, Inductive, PTL DEF Spec, ImplementsLifecycle, Lifecycle!Spec
=============================================================================
