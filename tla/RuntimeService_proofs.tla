-------------------------- MODULE RuntimeService_proofs --------------------------
(***************************************************************************)
(* What one run of the controller process guarantees, for every set of     *)
(* sessions and of faults: the invariant of SessionController holds inside  *)
(* the process too, and with it what the shutdown and the health marker     *)
(* promise.                                                                *)
(***************************************************************************)
EXTENDS RuntimeService, SessionController_proofs

HttpStates == {"off", "starting", "up", "exiting", "draining", "ended"}
ServiceStates == {"new", "starting", "ready", "exited", "over"} \cup ShuttingDown
Markers == {"none", "ready", "starting", "conversation-active", "error"}

ServiceTypes ==
  /\ service \in ServiceStates
  /\ http \in HttpStates
  /\ marker \in Markers
  /\ late \subseteq Sessions

\* No session: never used, or ended with its teardown.
AtRest(s) == step[s] \in {"none", "done"} /\ phase[s] \in {"idle"} \cup Terminal

Closed == service \in {"events", "draining", "unlisten", "handlers", "exited", "over"}

\* What the shutdown waited for has ended: all but the session it is closing, and the
\* sessions that began behind its back.
Waited ==
  /\ Closed => \A s \in Sessions \ late : AtRest(s)
  /\ service = "closing" =>
       /\ shutdownOf \in Sessions
       /\ \A s \in Sessions \ late : s # shutdownOf => AtRest(s)

Before ==
  service \in {"new", "starting", "ready"} =>
    late = {} /\ \A s \in Sessions : "teardown_cancelled" \notin failures[s]

\* A teardown is cancelled when the deadline has passed, or at the exit.
CancelledLate ==
  \A s \in Sessions \ late : "teardown_cancelled" \in failures[s] => spent

HttpToldLate ==
  http \in {"exiting", "draining"} =>
    service \in {"draining", "unlisten", "handlers", "exited", "over"}

AtExit == service \in {"exited", "over"} => (spent \/ Answered) /\ (marker = "none" \/ late # {})

MarkerCurrent == service = "ready" => marker = MarkerFor(notified)

ServiceInv ==
  /\ ServiceTypes
  /\ Waited
  /\ Before
  /\ CancelledLate
  /\ HttpToldLate
  /\ AtExit
  /\ MarkerCurrent

Process == IInv /\ ServiceInv

(* The controller's part of a step. *)

LEMMA InitProcess == ServiceInit => Process
<1> SUFFICES ASSUME ServiceInit PROVE Process
  OBVIOUS
<1>1. IInv
  BY InitInv DEF ServiceInit
<1>2. ServiceTypes
  BY DEF ServiceInit, ServiceTypes, ServiceStates, HttpStates, Markers
<1>3. \A s \in Sessions : "teardown_cancelled" \notin failures[s]
  BY DEF ServiceInit, Init
<1>4. Waited /\ Before /\ CancelledLate /\ HttpToldLate /\ AtExit /\ MarkerCurrent
  BY <1>3 DEF ServiceInit, Waited, Before, CancelledLate, HttpToldLate, AtExit,
              MarkerCurrent, Closed
<1> QED
  BY <1>1, <1>2, <1>4 DEF Process, ServiceInv

\* The steps of a session that neither begin one nor are the service's.
LoopStep(s) ==
  \/ ClientStep(s) \/ TokenExpires(s) \/ ControlStep(s) \/ PublishTaskEvent(s)
  \/ StartupExpires(s) \/ TeardownStep(s)
  \/ CloserSucceeds(s) \/ CloserRaises(s) \/ BrowserExits(s)

LEMMA LoopKeeps ==
  ASSUME NEW s \in Sessions, TypeOK, SessionInv(s), LoopStep(s)
  PROVE  /\ shutdownOf' = shutdownOf
         /\ \A t \in Sessions :
              "teardown_cancelled" \in failures'[t] => "teardown_cancelled" \in failures[t]
         /\ phase[s] = "idle" => phase'[s] = "idle"
<1> DEFINE Kept == /\ shutdownOf' = shutdownOf
                   /\ \A t \in Sessions :
                        "teardown_cancelled" \in failures'[t] =>
                          "teardown_cancelled" \in failures[t]
                   /\ phase[s] = "idle" => phase'[s] = "idle"
<1> USE DEF lifecycleVars, teardownVars
<1>1. ASSUME shutdownOf' = shutdownOf, failures' = failures, phase' = phase PROVE Kept
  BY <1>1
<1>2. ASSUME shutdownOf' = shutdownOf, failures' = failures, phase[s] # "idle" PROVE Kept
  BY <1>2
<1>3. phase[s] = "idle" => step[s] = "none" /\ relay[s] = "none" /\ active # s
  BY DEF SessionInv, Unused, Ownership, Starting
<1>4. CASE ClientStep(s) \/ TokenExpires(s) \/ PublishTaskEvent(s)
  BY <1>1, <1>4 DEF ClientStep, WaitForTerminalResult, AnswerClient, TokenExpires,
                    PublishTaskEvent
<1>5. CASE StartupExpires(s)
  BY <1>1, <1>2, <1>3, <1>5 DEF StartupExpires, BeginTeardown
<1>6. CASE PageReady(s) \/ PageStarted(s) \/ TeardownComplete(s)
        \/ \E r \in PageReasons : PageStop(s, r)
  BY <1>2, <1>3, <1>6 DEF PageReady, PageStarted, TeardownComplete, PageStop, BeginTeardown
<1>7. CASE ConsumeActivationToken(s) \/ ReportClosed(s) \/ LateTeardownComplete(s)
        \/ DeliverOutbound(s) \/ Disconnect(s)
        \/ \E m \in ControlMessages : RejectControlMessage(s, m)
  BY <1>1, <1>7 DEF ConsumeActivationToken, ReportClosed, LateTeardownComplete,
                    DeliverOutbound, Disconnect, RejectControlMessage
<1>8. CASE RequestBrowserStop(s)
  BY <1>1, <1>8 DEF RequestBrowserStop
<1>9. ASSUME NEW n, NEW f, "teardown_cancelled" \notin f, StepTo(s, n, f), phase' = phase
      PROVE  Kept
  BY <1>9 DEF StepTo, TypeOK
<1>10. CASE BrowserAcknowledged(s) \/ AcknowledgementTimesOut(s) \/ CloseBrowser(s)
         \/ CloseBrowserEnds(s)
         \/ \E failed \in BOOLEAN : ReleaseProfileLock(s, failed) \/ PersistTrace(s, failed)
  BY <1>9, <1>10 DEF BrowserAcknowledged, AcknowledgementTimesOut, CloseBrowser,
                     CloseBrowserEnds, ReleaseProfileLock, PersistTrace
<1>11. CASE Finalize(s)
  BY <1>2, <1>3, <1>11 DEF Finalize
<1>12. CASE CloserSucceeds(s) \/ CloserRaises(s) \/ BrowserExits(s)
  BY <1>1, <1>12 DEF CloserSucceeds, CloserRaises, BrowserExits
<1> QED
  BY <1>4, <1>5, <1>6, <1>7, <1>8, <1>10, <1>11, <1>12
     DEF LoopStep, ControlStep, TeardownStep

\* The exit cancels tasks the controller knows nothing of; its invariant survives.
LEMMA CancelledKeeps ==
  ASSUME IInv, NEW s \in Sessions, TaskCancelled(s)
  PROVE  IInv' /\ \A t \in Sessions \ {s} : SameAt(t)
<1> USE DEF lifecycleVars, browserVars, channelVars, clientVars, tokenVars
<1>1. TypeOK'
  BY DEF IInv, TypeOK, TaskCancelled, StepTo, Phases, Outcomes, Reasons, Steps, FailureNames
<1>2. StatusPublished'
  BY DEF IInv, StatusPublished, Status, TaskCancelled
<1>3. \A t \in Sessions \ {s} : SameAt(t)
  BY DEF IInv, TypeOK, TaskCancelled, StepTo, SameAt
<1>4. step[s] # "start" /\ step'[s] = "finalize" /\ "teardown_cancelled" \in failures'[s]
  BY DEF IInv, TypeOK, TaskCancelled, StepTo
<1>5. phase[s] = "stopping"
  <2>1. step[s] \notin {"none", "done"}
    BY DEF TaskCancelled
  <2>2. phase[s] \in Phases
    BY DEF IInv, TypeOK
  <2> QED
    BY <2>1, <2>2 DEF IInv, SessionInv, Unused, Conversing, Ended, Phases, Starting, Terminal
<1>6. SessionInv(s)'
  BY <1>4, <1>5 DEF IInv, TaskCancelled, StepTo, SessionInv, Unused, Conversing, Ending,
     Ended, Undecided, Ownership, BrowserCustody, Starting, Terminal
<1>7. ASSUME NEW t \in Sessions PROVE SessionInv(t)' /\ StopFrame(t)'
  <2>1. SessionInv(t)'
    BY <1>3, <1>6, Frame DEF IInv
  <2>2. step[t] # "start" => step'[t] # "start"
    BY <1>3, <1>4 DEF SameAt
  <2>3. StopFrame(t)'
    BY <2>2, StopFrameFrame DEF IInv, TaskCancelled
  <2> QED
    BY <2>1, <2>3
<1> QED
  BY <1>1, <1>2, <1>3, <1>7 DEF IInv

LEMMA Unmoved == IInv /\ UNCHANGED vars => IInv'
  BY InvStep

\* A step of one session, seen from the controller.
LEMMA SessionIsStep ==
  ASSUME NEW s \in Sessions, Session(s)
  PROVE  SessionStep(s)
BY DEF Session, ActivateSession, ActivationFails, ClosedByServer, SessionStep, ControlStep

\* Every step of the process is one of the controller, or leaves it alone.
LEMMA ControllerKept == Process /\ [ServiceNext]_allVars => IInv'
<1> SUFFICES ASSUME Process, [ServiceNext]_allVars PROVE IInv'
  OBVIOUS
<1>1. ASSUME NEW s \in Sessions, SessionStep(s) PROVE IInv'
  BY <1>1, InvStep DEF Next, Process
<1>2. CASE UNCHANGED vars
  BY <1>2, Unmoved DEF Process
<1>3. ASSUME BeginShutdown PROVE IInv'
  <2>1. CASE active = NoSession
    BY <1>2, <1>3, <2>1 DEF BeginShutdown
  <2>2. CASE active # NoSession
    <3>1. active \in Sessions
      BY <2>2 DEF Process, IInv, TypeOK
    <3> QED
      BY <1>1, <1>3, <2>2, <3>1 DEF BeginShutdown, SessionStep
  <2> QED
    BY <2>1, <2>2
<1>4. CASE Startup \/ ShutdownRequested
  BY <1>2, <1>3, <1>4 DEF Startup, SocketStarts, SocketRefused, StartupSucceeds,
                          StartupFails, ShutdownRequested
<1>5. CASE CloseTimesOut
  <2>1. shutdownOf \in Sessions
    BY <1>5 DEF CloseTimesOut, Process, ServiceInv, Waited
  <2> QED
    BY <1>1, <1>5, <2>1 DEF CloseTimesOut, SessionStep
<1>6. CASE DeadlinePasses \/ Http \/ SessionClosed \/ StopHttp \/ HttpTaskDone
        \/ StopListening \/ RunEnds \/ LoopCloses
  BY <1>2, <1>6 DEF DeadlinePasses, Http, HttpStarts, HttpFails, HttpDrains, HttpEnds,
                    SessionClosed, StopHttp, HttpTaskDone, StopListening, RunEnds, LoopCloses
<1>7. ASSUME NEW s \in Sessions, CancelAtExit(s) PROVE IInv'
  BY <1>7, CancelledKeeps DEF CancelAtExit, Process
<1>8. ASSUME NEW s \in Sessions, FinalizeAtExit(s) PROVE IInv'
  BY <1>1, <1>8 DEF FinalizeAtExit, SessionStep, TeardownStep
<1>9. ASSUME NEW s \in Sessions, Session(s) PROVE IInv'
  BY <1>1, <1>9, SessionIsStep
<1>10. CASE UNCHANGED allVars
  BY <1>2, <1>10 DEF allVars
<1> QED
  BY <1>4, <1>5, <1>6, <1>7, <1>8, <1>9, <1>10 DEF ServiceNext, Shutdown
-----------------------------------------------------------------------------
(* The service's part. *)

\* A session at rest stays there until somebody activates.
LEMMA RestKept ==
  ASSUME IInv, IInv', NEW s \in Sessions, LoopStep(s), NEW t \in Sessions, AtRest(t)
  PROVE  AtRest(t)'
<1>1. SessionStep(s)
  BY DEF LoopStep, SessionStep
<1>2. phase'[t] \in {"idle"} \cup Terminal
  <2>1. CASE t = s
    BY <1>1, <2>1, LoopKeeps, FinalMoves DEF IInv, Final, AtRest
  <2>2. CASE t # s
    BY <1>1, <2>2, SessionMoves DEF IInv, Moved, Others, SameAt, AtRest
  <2> QED
    BY <2>1, <2>2
<1>3. step'[t] \in {"none", "done"}
  BY <1>2 DEF IInv, SessionInv, Unused, Ended
<1> QED
  BY <1>2, <1>3 DEF AtRest

LEMMA MarkerType == \A x : MarkerFor(x) \in Markers \ {"none"}
  BY DEF MarkerFor, Markers

\* The first step of the shutdown, from wherever the service was.
LEMMA ShutdownBegins ==
  ASSUME Process, service \in {"new", "starting", "ready"}, BeginShutdown,
         UNCHANGED <<http, listening, late>>
  PROVE  ServiceInv'
<1> USE DEF Process, ServiceInv
<1>1. late = {} /\ \A s \in Sessions : "teardown_cancelled" \notin failures[s]
  BY DEF Before
<1>2. \A s \in Sessions : active # s => AtRest(s)
  BY DEF IInv, SessionInv, Ownership, Unused, Ended, TypeOK, Phases, AtRest, Terminal, Starting
<1>3. \A s \in Sessions : s # active => AtRest(s)'
  <2>1. CASE active = NoSession
    BY <1>2, <2>1 DEF BeginShutdown, vars, lifecycleVars, teardownVars, AtRest
  <2>2. CASE active # NoSession
    BY <1>2, <2>2 DEF BeginShutdown, CloseActiveSession, BeginTeardown, AtRest, IInv, TypeOK
  <2> QED
    BY <2>1, <2>2
<1>4. failures' = failures
  BY DEF BeginShutdown, CloseActiveSession, BeginTeardown, vars, teardownVars
<1>5. \/ active = NoSession /\ service' = "events" /\ marker' = marker
      \/ /\ active \in Sessions /\ shutdownOf' = active /\ service' = "closing"
         /\ marker' = MarkerFor(notified')
  BY DEF BeginShutdown, CloseActiveSession, IInv, TypeOK
<1>6. ServiceTypes'
  BY <1>5, MarkerType DEF ServiceTypes, ServiceStates, ShuttingDown
<1>7. Waited'
  BY <1>3, <1>5, SessionsAssumption DEF Waited, Closed
<1>8. CancelledLate'
  BY <1>1, <1>4 DEF CancelledLate
<1>9. Before' /\ HttpToldLate' /\ AtExit' /\ MarkerCurrent'
  BY <1>5 DEF Before, HttpToldLate, AtExit, MarkerCurrent
<1> QED
  BY <1>6, <1>7, <1>8, <1>9

\* A session's step, whatever phase the service is in.
LEMMA SessionKeeps ==
  ASSUME Process, IInv', NEW s \in Sessions, Session(s)
  PROVE  ServiceInv'
<1> USE DEF Process, ServiceInv
<1>1. /\ UNCHANGED <<service, http, spent>>
      /\ service \notin {"exited", "over"}
  BY DEF Session, Running, ShuttingDown
<1>2. /\ shutdownOf' = shutdownOf
      /\ late \subseteq late' /\ late' \subseteq late \cup {s}
      /\ late # late' => service \in ShuttingDown
      /\ \A t \in Sessions :
           "teardown_cancelled" \in failures'[t] => "teardown_cancelled" \in failures[t]
      /\ \A t \in Sessions \ late' :
           service \in ShuttingDown /\ AtRest(t) => AtRest(t)'
      /\ marker' \in Markers
      /\ service = "ready" => marker' = MarkerFor(notified')
  <2> DEFINE Goal ==
        /\ shutdownOf' = shutdownOf
        /\ late \subseteq late' /\ late' \subseteq late \cup {s}
        /\ late # late' => service \in ShuttingDown
        /\ \A t \in Sessions :
             "teardown_cancelled" \in failures'[t] => "teardown_cancelled" \in failures[t]
        /\ \A t \in Sessions \ late' :
             service \in ShuttingDown /\ AtRest(t) => AtRest(t)'
        /\ marker' \in Markers
        /\ service = "ready" => marker' = MarkerFor(notified')
  <2>1. Publish => marker' \in Markers /\ (service = "ready" => marker' = MarkerFor(notified'))
    BY MarkerType DEF Publish, ServiceTypes, MarkerCurrent
  <2>2. ASSUME NEW o \in Origins, ActivateSession(s, o), Publish PROVE Goal
    <3>1. \A t \in Sessions \ {s} : SameAt(t)
      BY <2>2, ActivationMoves DEF ActivateSession, IInv, Moved, Others
    <3>2. \A t \in Sessions \ {s} : AtRest(t) => AtRest(t)'
      BY <3>1 DEF SameAt, AtRest
    <3>3. shutdownOf' = shutdownOf /\ failures' = failures
      BY <2>2 DEF ActivateSession, Activate, teardownVars
    <3>4. late' = IF service \in ShuttingDown THEN late \cup {s} ELSE late
      BY <2>2 DEF ActivateSession
    <3> QED
      BY <2>1, <2>2, <3>2, <3>3, <3>4
  <2>3. ASSUME NEW o \in Origins, ActivationFails(s, o), late' = late PROVE Goal
    <3>1. \A t \in Sessions \ {s} : SameAt(t)
      BY <2>3, ActivationMoves DEF ActivationFails, IInv, Moved, Others
    <3>2. AtRest(s)'
      BY <2>3 DEF ActivationFails, ActivateLaunchFails, AtRest, IInv, TypeOK, Terminal,
                  SessionInv, Unused, teardownVars
    <3>3. \A t \in Sessions : AtRest(t) => AtRest(t)'
      BY <3>1, <3>2 DEF SameAt, AtRest
    <3>4. shutdownOf' = shutdownOf /\ failures' = failures
      BY <2>3 DEF ActivationFails, ActivateLaunchFails, teardownVars
    <3>5. marker' = "ready" /\ notified' = "idle"
      BY <2>3, SessionsAssumption DEF ActivationFails, ActivateLaunchFails, Status
    <3> QED
      BY <2>3, <3>3, <3>4, <3>5 DEF MarkerFor, Markers
  <2>4. ASSUME LoopStep(s), Publish, late' = late PROVE Goal
    <3>1. \A t \in Sessions : AtRest(t) => AtRest(t)'
      BY <2>4, RestKept
    <3>2. /\ shutdownOf' = shutdownOf
          /\ \A t \in Sessions :
               "teardown_cancelled" \in failures'[t] => "teardown_cancelled" \in failures[t]
      BY <2>4, LoopKeeps DEF IInv
    <3> QED
      BY <2>1, <2>4, <3>1, <3>2
  <2>5. \/ \E o \in Origins : ActivateSession(s, o) /\ Publish
        \/ \E o \in Origins : ActivationFails(s, o) /\ late' = late
        \/ LoopStep(s) /\ Publish /\ late' = late
    BY DEF Session, ClosedByServer, LoopStep, ControlStep
  <2> QED
    BY <2>2, <2>3, <2>4, <2>5
<1>3. ServiceTypes'
  BY <1>1, <1>2 DEF ServiceTypes
<1>4. Waited'
  BY <1>1, <1>2 DEF Waited, Closed, ShuttingDown
<1>5. Before'
  BY <1>1, <1>2 DEF Before, ShuttingDown
<1>6. CancelledLate'
  BY <1>1, <1>2 DEF CancelledLate
<1>7. HttpToldLate' /\ MarkerCurrent'
  BY <1>1, <1>2 DEF HttpToldLate, MarkerCurrent
<1>8. AtExit'
  BY <1>1 DEF AtExit
<1> QED
  BY <1>3, <1>4, <1>5, <1>6, <1>7, <1>8

\* The steps that leave the controller alone.
LEMMA ServiceAlone ==
  ASSUME Process, UNCHANGED vars,
         \/ SocketStarts \/ StartupSucceeds \/ DeadlinePasses \/ Http
         \/ SessionClosed \/ StopHttp \/ HttpTaskDone \/ StopListening
         \/ RunEnds \/ LoopCloses
  PROVE  ServiceInv'
<1> USE DEF Process, ServiceInv
<1>1. UNCHANGED <<step, phase, failures, shutdownOf, reply, notified>>
  BY DEF vars, lifecycleVars, teardownVars, clientVars
<1>2. late' = late /\ (spent => spent')
  BY DEF SocketStarts, StartupSucceeds, DeadlinePasses, Http, HttpStarts, HttpFails,
         HttpDrains, HttpEnds, SessionClosed, StopHttp, HttpTaskDone, StopListening,
         RunEnds, LoopCloses
<1>3. CancelledLate'
  BY <1>1, <1>2 DEF CancelledLate
<1>4. CASE SocketStarts \/ DeadlinePasses \/ Http
  <2> USE <1>4 DEF SocketStarts, DeadlinePasses, Http, HttpStarts, HttpFails, HttpDrains,
                   HttpEnds
  <2>1. ServiceTypes'
    BY DEF ServiceTypes, ServiceStates, HttpStates
  <2>2. Waited'
    BY <1>1 DEF Waited, Closed, AtRest
  <2>3. Before' /\ HttpToldLate' /\ MarkerCurrent'
    BY <1>1 DEF Before, HttpToldLate, MarkerCurrent, ShuttingDown
  <2>4. AtExit'
    BY <1>1 DEF AtExit, Answered, ShuttingDown
  <2> QED
    BY <1>3, <2>1, <2>2, <2>3, <2>4
<1>5. CASE StartupSucceeds
  <2>1. marker' = MarkerFor(notified')
    BY <1>1, <1>5 DEF StartupSucceeds, IInv, StatusPublished
  <2>2. ServiceTypes'
    BY <1>5, <2>1, MarkerType DEF StartupSucceeds, ServiceTypes, ServiceStates
  <2>3. Waited' /\ Before' /\ HttpToldLate' /\ MarkerCurrent' /\ AtExit'
    BY <1>1, <1>5, <2>1 DEF StartupSucceeds, Waited, Closed, Before, HttpToldLate,
       MarkerCurrent, AtExit
  <2> QED
    BY <1>3, <2>2, <2>3
<1>6. CASE SessionClosed
  <2>1. \A s \in Sessions \ late : AtRest(s)'
    <3>1. shutdownOf \in Sessions /\ step[shutdownOf] = "done"
      BY <1>6 DEF SessionClosed, Waited
    <3>2. phase[shutdownOf] \in Phases /\ SessionInv(shutdownOf)
      BY <3>1 DEF IInv, TypeOK
    <3>3. phase[shutdownOf] \in Terminal
      BY <3>1, <3>2 DEF SessionInv, Unused, Conversing, Ending, Phases, Starting, Terminal
    <3> QED
      BY <1>1, <1>6, <3>1, <3>3 DEF SessionClosed, Waited, AtRest
  <2>2. Waited'
    BY <1>6, <1>2, <2>1 DEF SessionClosed, Waited
  <2>3. ServiceTypes' /\ Before' /\ HttpToldLate' /\ MarkerCurrent' /\ AtExit'
    BY <1>6 DEF SessionClosed, ServiceTypes, ServiceStates, ShuttingDown, Before,
                HttpToldLate, MarkerCurrent, AtExit
  <2> QED
    BY <1>3, <2>2, <2>3
<1>7. CASE StopHttp \/ HttpTaskDone \/ StopListening
  <2> USE <1>7 DEF StopHttp, HttpTaskDone, StopListening
  <2>1. ServiceTypes'
    BY DEF ServiceTypes, ServiceStates, ShuttingDown, HttpStates
  <2>2. Waited'
    BY <1>1 DEF Waited, Closed, AtRest
  <2>3. Before' /\ HttpToldLate' /\ MarkerCurrent' /\ AtExit'
    BY DEF Before, HttpToldLate, MarkerCurrent, AtExit
  <2> QED
    BY <1>3, <2>1, <2>2, <2>3
<1>8. CASE RunEnds \/ LoopCloses
  <2> USE <1>8 DEF RunEnds, LoopCloses
  <2>1. ServiceTypes'
    BY DEF ServiceTypes, ServiceStates, Markers
  <2>2. Waited'
    BY <1>1 DEF Waited, Closed, AtRest
  <2>3. Before' /\ HttpToldLate' /\ MarkerCurrent'
    BY DEF Before, HttpToldLate, MarkerCurrent
  <2>4. AtExit'
    BY <1>1 DEF AtExit, Answered
  <2> QED
    BY <1>3, <2>1, <2>2, <2>3, <2>4
<1> QED
  BY <1>4, <1>5, <1>6, <1>7, <1>8

\* The steps that cancel or finalize a teardown from outside.
LEMMA OutsideKeeps ==
  ASSUME Process, IInv',
         CloseTimesOut \/ \E s \in Sessions : CancelAtExit(s) \/ FinalizeAtExit(s)
  PROVE  ServiceInv'
<1> USE DEF Process, ServiceInv
<1>1. CASE CloseTimesOut
  <2>1. shutdownOf \in Sessions /\ TaskCancelled(shutdownOf) /\ spent
    BY <1>1 DEF CloseTimesOut, CancelTeardown, Waited
  <2>2. \A t \in Sessions \ {shutdownOf} : AtRest(t) => AtRest(t)'
    BY <2>1, CancelledKeeps DEF SameAt, AtRest
  <2>3. UNCHANGED serviceVars /\ shutdownOf' = shutdownOf
    BY <1>1, <2>1 DEF CloseTimesOut, TaskCancelled, StepTo
  <2>4. Waited'
    BY <1>1, <2>2, <2>3 DEF CloseTimesOut, Waited, Closed, serviceVars
  <2>5. CancelledLate'
    BY <2>1, <2>3 DEF CancelledLate, serviceVars
  <2>6. ServiceTypes' /\ Before' /\ HttpToldLate' /\ MarkerCurrent' /\ AtExit'
    BY <1>1, <2>3 DEF CloseTimesOut, ServiceTypes, Before, HttpToldLate, MarkerCurrent,
       AtExit, serviceVars
  <2> QED
    BY <2>4, <2>5, <2>6
<1>2. ASSUME NEW s \in Sessions, CancelAtExit(s) PROVE ServiceInv'
  <2>1. TaskCancelled(s) /\ UNCHANGED serviceVars /\ service = "exited"
    BY <1>2 DEF CancelAtExit
  <2>2. s \in late
    BY <2>1 DEF TaskCancelled, Waited, Closed, AtRest
  <2>3. \A t \in Sessions \ {s} : SameAt(t)
    BY <2>1, CancelledKeeps
  <2>4. reply' = reply
    BY <2>1 DEF TaskCancelled, clientVars
  <2>5. Waited' /\ CancelledLate'
    BY <2>1, <2>2, <2>3 DEF Waited, Closed, CancelledLate, SameAt, AtRest, serviceVars
  <2>6. AtExit'
    BY <2>1, <2>4 DEF AtExit, Answered, serviceVars
  <2>7. ServiceTypes' /\ Before' /\ HttpToldLate' /\ MarkerCurrent'
    BY <2>1 DEF ServiceTypes, Before, HttpToldLate, MarkerCurrent, serviceVars
  <2> QED
    BY <2>5, <2>6, <2>7
<1>3. ASSUME NEW s \in Sessions, FinalizeAtExit(s) PROVE ServiceInv'
  <2>1. /\ Finalize(s) /\ service = "exited" /\ marker' = MarkerFor(notified')
        /\ UNCHANGED <<service, http, listening, spent, late>>
    BY <1>3 DEF FinalizeAtExit
  <2>2. s \in late
    BY <2>1 DEF Finalize, Waited, Closed, AtRest
  <2>3. \A t \in Sessions \ {s} : SameAt(t)
    BY <2>1, TeardownMoves DEF TeardownStep, IInv, Moved, Others
  <2>4. reply' = reply /\ failures' = failures
    BY <2>1 DEF Finalize
  <2>5. Waited'
    BY <2>1, <2>2, <2>3 DEF Waited, Closed, SameAt, AtRest
  <2>6. CancelledLate'
    BY <2>1, <2>4 DEF CancelledLate
  <2>7. AtExit'
    BY <2>1, <2>2, <2>4 DEF AtExit, Answered
  <2>8. ServiceTypes'
    BY <2>1, MarkerType DEF ServiceTypes
  <2>9. Before' /\ HttpToldLate' /\ MarkerCurrent'
    BY <2>1 DEF Before, HttpToldLate, MarkerCurrent
  <2> QED
    BY <2>5, <2>6, <2>7, <2>8, <2>9
<1> QED
  BY <1>1, <1>2, <1>3

LEMMA ProcessStep == Process /\ [ServiceNext]_allVars => Process'
<1> SUFFICES ASSUME Process, [ServiceNext]_allVars PROVE Process'
  OBVIOUS
<1>1. IInv'
  BY ControllerKept
<1> SUFFICES ServiceInv'
  BY <1>1 DEF Process
<1>2. CASE SocketRefused \/ StartupFails \/ ShutdownRequested
  BY <1>2, ShutdownBegins DEF SocketRefused, StartupFails, ShutdownRequested
<1>3. CASE \/ SocketStarts \/ StartupSucceeds \/ DeadlinePasses \/ Http
           \/ SessionClosed \/ StopHttp \/ HttpTaskDone \/ StopListening
           \/ RunEnds \/ LoopCloses
  <2>1. UNCHANGED vars
    BY <1>3 DEF SocketStarts, StartupSucceeds, DeadlinePasses, Http, HttpStarts, HttpFails,
         HttpDrains, HttpEnds, SessionClosed, StopHttp, HttpTaskDone, StopListening,
         RunEnds, LoopCloses
  <2> QED
    BY <1>3, <2>1, ServiceAlone
<1>4. CASE CloseTimesOut \/ \E s \in Sessions : CancelAtExit(s) \/ FinalizeAtExit(s)
  BY <1>1, <1>4, OutsideKeeps
<1>5. ASSUME NEW s \in Sessions, Session(s) PROVE ServiceInv'
  BY <1>1, <1>5, SessionKeeps
<1>6. CASE UNCHANGED allVars
  BY <1>6 DEF allVars, serviceVars, vars, lifecycleVars, teardownVars, clientVars, Process,
     ServiceInv, ServiceTypes, Waited, Closed, AtRest, Before, CancelledLate, HttpToldLate,
     AtExit, Answered, MarkerCurrent
<1> QED
  BY <1>2, <1>3, <1>4, <1>5, <1>6 DEF ServiceNext, Startup, Shutdown

\* What the controller guarantees by itself it guarantees inside the process, where the
\* exit cancels its tasks; and the shutdown has waited for what it could know of.
THEOREM ProcessInductive == ServiceSpec => []Process
  BY InitProcess, ProcessStep, PTL DEF ServiceSpec
-----------------------------------------------------------------------------
(* What follows. *)

LEMMA InvPage == Process => PageHeardOut
  BY DEF Process, ServiceInv, HttpToldLate, Waited, Closed, AtRest, PageHeardOut

LEMMA InvMarker == Process => MarkerTellsTruth
  BY DEF Process, ServiceInv, MarkerCurrent, AtExit, IInv, StatusPublished, MarkerTellsTruth

LEMMA InvExit == Process => ExitIsClean
<1> SUFFICES ASSUME Process, service = "over", NEW s \in Sessions
             PROVE  /\ reply[s] \in {"opened", "waiting"} => spent
                    /\ s \notin late /\ phase[s] # "idle" =>
                         /\ phase[s] \in Terminal /\ future[s] = "resolved"
                         /\ browser[s] = "running" =>
                              \/ "close_browser" \in failures[s]
                              \/ "teardown_cancelled" \in failures[s] /\ spent
  BY DEF ExitIsClean
<1>1. reply[s] \in {"opened", "waiting"} => spent
  BY DEF Process, ServiceInv, AtExit, Answered
<1>2. ASSUME s \notin late, phase[s] # "idle"
      PROVE  /\ phase[s] \in Terminal /\ future[s] = "resolved"
             /\ browser[s] = "running" =>
                  \/ "close_browser" \in failures[s]
                  \/ "teardown_cancelled" \in failures[s] /\ spent
  <2>1. phase[s] \in Terminal
    BY <1>2 DEF Process, ServiceInv, Waited, Closed, AtRest
  <2>2. future[s] = "resolved"
    BY <2>1 DEF Process, IInv, SessionInv, Ended
  <2>3. browser[s] = "running" =>
          "close_browser" \in failures[s] \/ "teardown_cancelled" \in failures[s]
    BY <2>1, InvBrowser DEF Process, EndedSessionHasNoBrowser
  <2>4. "teardown_cancelled" \in failures[s] => spent
    BY <1>2 DEF Process, ServiceInv, CancelledLate
  <2> QED
    BY <2>1, <2>2, <2>3, <2>4
<1> QED
  BY <1>1, <1>2

\* HTTP stays up until the session the shutdown closes has heard its page out.
THEOREM SafePage == ServiceSpec => []PageHeardOut
  BY ProcessInductive, InvPage, PTL

\* The health marker is the controller's status while the service is ready, and a marker
\* that outlives the process was written for a session that began behind the shutdown.
THEOREM SafeMarker == ServiceSpec => []MarkerTellsTruth
  BY ProcessInductive, InvMarker, PTL

\* Whatever was cancelled, every session the shutdown could know of has ended with its
\* client answered and its browser closed, or the deadline or a failure says why not.
THEOREM SafeExit == ServiceSpec => []ExitIsClean
  BY ProcessInductive, InvExit, PTL
-----------------------------------------------------------------------------
(* The process keeps the promises of VoiceLifecycle, cancellations included.           *)

\* A step of the process is one of the controller or the cancellation of one of its tasks.
LEMMA ControllerMoves ==
  ASSUME Process, [ServiceNext]_allVars
  PROVE  [Next]_vars \/ \E s \in Sessions : TaskCancelled(s)
<1>1. ASSUME NEW s \in Sessions, SessionStep(s) PROVE Next
  BY <1>1 DEF Next
<1>2. CASE BeginShutdown
  <2>1. UNCHANGED vars \/ (active \in Sessions /\ CloseActiveSession(active))
    BY <1>2 DEF BeginShutdown, Process, IInv, TypeOK
  <2> QED
    BY <1>1, <2>1 DEF SessionStep
<1>3. CASE Startup \/ ShutdownRequested
  BY <1>2, <1>3 DEF Startup, SocketStarts, SocketRefused, StartupSucceeds, StartupFails,
                    ShutdownRequested
<1>4. CASE CloseTimesOut
  BY <1>4 DEF CloseTimesOut, CancelTeardown, Process, ServiceInv, Waited
<1>5. CASE DeadlinePasses \/ Http \/ SessionClosed \/ StopHttp \/ HttpTaskDone
        \/ StopListening \/ RunEnds \/ LoopCloses
  BY <1>5 DEF DeadlinePasses, Http, HttpStarts, HttpFails, HttpDrains, HttpEnds,
              SessionClosed, StopHttp, HttpTaskDone, StopListening, RunEnds, LoopCloses
<1>6. ASSUME NEW s \in Sessions, CancelAtExit(s) \/ FinalizeAtExit(s) \/ Session(s)
      PROVE  Next \/ TaskCancelled(s)
  <2>1. CASE CancelAtExit(s)
    BY <2>1 DEF CancelAtExit
  <2>2. CASE FinalizeAtExit(s)
    BY <1>1, <2>2 DEF FinalizeAtExit, SessionStep, TeardownStep
  <2>3. CASE Session(s)
    BY <1>1, <2>3, SessionIsStep
  <2> QED
    BY <1>6, <2>1, <2>2, <2>3
<1>7. CASE UNCHANGED allVars
  BY <1>7 DEF allVars
<1> QED
  BY <1>3, <1>4, <1>5, <1>6, <1>7 DEF ServiceNext, Shutdown

\* Cancelling a task changes nothing that was decided and nothing that is shown.
LEMMA CancelledShowsNothing ==
  ASSUME IInv, NEW s \in Sessions, TaskCancelled(s)
  PROVE  UNCHANGED <<active, phase, req, result, reply, closedSent>> /\ Others(s)
BY CancelledKeeps DEF Others, TaskCancelled, StepTo, lifecycleVars, channelVars, clientVars

\* What the run promises about every session it promises inside the process too: one at
\* a time, one verdict each, told after the end, however the exit cuts a teardown short.
THEOREM ProcessLifecycle == ServiceSpec => ImplementsLifecycle
<1>1. ServiceInit => Lifecycle!Init
  BY LifecycleInit DEF ServiceInit
<1>2. Process /\ Process' /\ [ServiceNext]_allVars => [Lifecycle!Next]_(Lifecycle!vars)
  <2> SUFFICES ASSUME Process, Process', [ServiceNext]_allVars
               PROVE  [Lifecycle!Next]_(Lifecycle!vars)
    OBVIOUS
  <2>1. CASE [Next]_vars
    BY <2>1, LifecycleStep DEF Process
  <2>2. ASSUME NEW s \in Sessions, TaskCancelled(s) PROVE UNCHANGED Lifecycle!vars
    BY <2>2, CancelledShowsNothing, OtherStepsStutter DEF Process, IInv
  <2> QED
    BY <2>1, <2>2, ControllerMoves
<1> QED
  BY <1>1, <1>2, ProcessInductive, PTL DEF ServiceSpec, ImplementsLifecycle, Lifecycle!Spec

\* A verdict, a reason and an answer stand, even when the exit cancels the teardown that
\* was carrying them out.
THEOREM ProcessDecisions == ServiceSpec => DecisionsAreFinal
<1> DEFINE A == \A s \in Sessions : Final(s)
<1>1. Process /\ [ServiceNext]_allVars => [A]_vars
  <2> SUFFICES ASSUME Process, [ServiceNext]_allVars PROVE [A]_vars
    OBVIOUS
  <2>1. CASE [Next]_vars
    BY <2>1, DecidedStep DEF Process
  <2>2. ASSUME NEW s \in Sessions, TaskCancelled(s) PROVE A
    <3>1. UNCHANGED <<active, phase, req, result, reply>>
      BY <2>2, CancelledShowsNothing DEF Process
    <3>2. \A t \in Sessions : phase[t] \in Terminal => active # t
      BY DEF Process, IInv, SessionInv, Ownership, Terminal, Starting
    <3> QED
      BY <3>1, <3>2 DEF Final
  <2> QED
    BY <2>1, <2>2, ControllerMoves
<1>2. [A]_vars <=> [\A s \in Sessions :
       /\ req[s] # NoRequest => req'[s] = req[s]
       /\ result[s] # "none" => result'[s] = result[s]
       /\ reply[s] \in {"completed", "cancelled", "failed"} => reply'[s] = reply[s]
       /\ phase[s] \in Terminal => phase'[s] = phase[s] /\ active' # s]_vars
  BY DEF Final
<1> QED
  BY <1>1, <1>2, ProcessInductive, PTL DEF ServiceSpec, DecisionsAreFinal
=============================================================================
