----------------------------- MODULE RuntimeService -----------------------------
(***************************************************************************)
(* One run of the controller process: service.py around the controller of  *)
(* SessionController, with activation_socket.py's server and the HTTP      *)
(* server (uvicorn) that carries the control websocket.                    *)
(*                                                                         *)
(* Activations come from the moment the activation socket listens, which   *)
(* is before HTTP does, to the moment it is closed, which is after the     *)
(* shutdown looked for a session to close.  The shutdown phases share one  *)
(* deadline; when it has passed each phase is cancelled as it comes.       *)
(***************************************************************************)
EXTENDS SessionController

VARIABLES
  service,    \* where run() is suspended
  http,       \* the HTTP server; "exiting": should_exit set, still serving
  listening,  \* the activation socket accepts connections
  spent,      \* the shared shutdown deadline has passed
  marker,     \* the controller-health file, "none" when there is none
  late        \* history: sessions activated after the shutdown looked for one

serviceVars == <<service, http, listening, spent, marker, late>>
allVars == <<vars, serviceVars>>
-----------------------------------------------------------------------------
ShuttingDown == {"closing", "events", "draining", "unlisten", "handlers"}
Serving == http \in {"up", "exiting"}

\* _publish_controller_status
MarkerFor(status) ==
  CASE status = "idle" -> "ready"
    [] status \in {"launching", "connecting", "stopping"} -> "starting"
    [] status = "live" -> "conversation-active"
    [] OTHER -> "error"

\* A run that was killed left its marker behind.
ServiceInit ==
  /\ Init
  /\ service = "new" /\ http = "off" /\ listening = FALSE /\ spent = FALSE
  /\ marker \in {"none", "ready"}
  /\ late = {}
-----------------------------------------------------------------------------
(* _shutdown, up to the first await: close_active_session finds a session, or none. *)

\* A slip: close_active_session is started and not awaited.
CloseUnawaited ==
  /\ spent' = FALSE
  /\ IF active = NoSession THEN UNCHANGED <<vars, marker>>
     ELSE CloseActiveSession(active) /\ marker' = MarkerFor(notified')
  /\ service' = "events"

BeginShutdown ==
  /\ spent' = FALSE
  /\ IF active = NoSession
     THEN service' = "events" /\ UNCHANGED <<vars, marker>>
     ELSE /\ CloseActiveSession(active)
          /\ service' = "closing"
          /\ marker' = MarkerFor(notified')

\* _startup.  The path is refused when it is no socket or another controller answers.
SocketStarts ==
  /\ service = "new"
  /\ service' = "starting" /\ listening' = TRUE /\ http' = "starting"
  /\ UNCHANGED <<vars, spent, marker, late>>

SocketRefused ==
  /\ service = "new"
  /\ BeginShutdown
  /\ UNCHANGED <<http, listening, late>>

\* uvicorn listens, or its task ends: the port is taken, or it was told to exit.
HttpStarts ==
  /\ http = "starting"
  /\ http' = "up"
  /\ UNCHANGED <<vars, service, listening, spent, marker, late>>

HttpFails ==
  /\ http = "starting"
  /\ http' = "ended"
  /\ UNCHANGED <<vars, service, listening, spent, marker, late>>

\* A slip: the first marker takes the controller for idle.
StartupPublishesIdle ==
  /\ service = "starting" /\ http = "up"
  /\ service' = "ready"
  /\ marker' = "ready"
  /\ UNCHANGED <<vars, http, listening, spent, late>>

\* _await_http_ready sees the started event, some polls later.
StartupSucceeds ==
  /\ service = "starting" /\ http = "up"
  /\ service' = "ready"
  /\ marker' = MarkerFor(Status(active, phase))
  /\ UNCHANGED <<vars, http, listening, spent, late>>

\* The HTTP task ended, or was not ready within the startup timeout.
StartupFails ==
  /\ service = "starting" /\ http \in {"starting", "ended"}
  /\ BeginShutdown
  /\ UNCHANGED <<http, listening, late>>

\* SIGINT or SIGTERM.
ShutdownRequested ==
  /\ service = "ready"
  /\ BeginShutdown
  /\ UNCHANGED <<http, listening, late>>
-----------------------------------------------------------------------------
(* The phases of _shutdown.                                                  *)

DeadlinePasses ==
  /\ service \in ShuttingDown /\ ~spent
  /\ spent' = TRUE
  /\ UNCHANGED <<vars, service, http, listening, marker, late>>

\* wait_for cancels the unshielded teardown and waits for its finalization.
CloseTimesOut ==
  /\ service = "closing" /\ spent
  /\ CancelTeardown(shutdownOf)
  /\ UNCHANGED serviceVars

SessionClosed ==
  /\ service = "closing" /\ step[shutdownOf] = "done"
  /\ service' = "events"
  /\ UNCHANGED <<vars, http, listening, spent, marker, late>>

\* shutdown_task_events returned or timed out; the HTTP server is told to exit.
StopHttp ==
  /\ service = "events"
  /\ http' = CASE http = "up" -> "exiting" [] http = "starting" -> "ended" [] OTHER -> http
  /\ service' = IF http = "off" THEN "unlisten" ELSE "draining"
  /\ UNCHANGED <<vars, listening, spent, marker, late>>

\* uvicorn closes every connection, and waits for the handlers that run.
HttpDrains ==
  /\ service = "draining" /\ http = "exiting"
  /\ http' = "draining"
  /\ UNCHANGED <<vars, service, listening, spent, marker, late>>

HttpEnds ==
  /\ http = "draining"
  /\ \A s \in Sessions : relay[s] \in {"none", "closed"}
  /\ http' = "ended"
  /\ UNCHANGED <<vars, service, listening, spent, marker, late>>

\* The HTTP task is done, or it is cancelled and leaves its sockets as they are.
HttpTaskDone ==
  /\ service = "draining"
  /\ http = "ended" \/ spent
  /\ service' = "unlisten"
  /\ UNCHANGED <<vars, http, listening, spent, marker, late>>

\* ActivationSocket.stop: close, then wait for the handlers of open connections.
StopListening ==
  /\ service = "unlisten"
  /\ listening' = FALSE
  /\ service' = "handlers"
  /\ UNCHANGED <<vars, http, spent, marker, late>>

Answered == \A s \in Sessions : reply[s] \notin {"opened", "waiting"}

\* A slip: stop does not wait for the handlers.
LeaveHandlers ==
  /\ service = "handlers"
  /\ service' = "exited"
  /\ marker' = "none"
  /\ UNCHANGED <<vars, http, listening, spent, late>>

\* A slip: stop waits for the handlers however long they take.
WaitForHandlers ==
  /\ service = "handlers"
  /\ Answered
  /\ service' = "exited"
  /\ marker' = "none"
  /\ UNCHANGED <<vars, http, listening, spent, late>>

\* The handlers ended or the deadline passed; the marker is unlinked, run() is over.
RunEnds ==
  /\ service = "handlers"
  /\ Answered \/ spent
  /\ service' = "exited"
  /\ marker' = "none"
  /\ UNCHANGED <<vars, http, listening, spent, late>>

\* asyncio.run cancels what is left: a teardown that was under way is finalized, ...
CancelAtExit(s) ==
  /\ service = "exited"
  /\ TaskCancelled(s)
  /\ UNCHANGED serviceVars

FinalizeAtExit(s) ==
  /\ service = "exited"
  /\ "teardown_cancelled" \in failures[s]
  /\ Finalize(s)
  /\ marker' = MarkerFor(notified')
  /\ UNCHANGED <<service, http, listening, spent, late>>

\* ... unless its task, or the finalization's, was created and had not run yet.
LoopCloses ==
  /\ service = "exited"
  /\ \A s \in Sessions :
       \/ step[s] \in {"none", "start", "done"}
       \/ step[s] = "finalize" /\ "teardown_cancelled" \notin failures[s]
  /\ service' = "over"
  /\ UNCHANGED <<vars, http, listening, spent, marker, late>>
-----------------------------------------------------------------------------
(* The controller's steps while the event loop runs.                         *)

Running == service \in {"starting", "ready"} \cup ShuttingDown

\* The handler of a connection accepted before close may still be reading.
Reachable(origin) ==
  IF origin = "socket" THEN listening \/ service = "handlers" ELSE Serving

\* The observer writes the marker when the status differs from the last notified one.
Publish == marker' = IF notified' # notified THEN MarkerFor(notified') ELSE marker

ActivateSession(s, origin) ==
  /\ Reachable(origin)
  /\ Activate(s, origin)
  /\ late' = IF service \in ShuttingDown THEN late \cup {s} ELSE late

ActivationFails(s, origin) ==
  /\ Reachable(origin)
  /\ ActivateLaunchFails(s, origin)
  /\ marker' = "ready"    \* "starting" first, then "ready"

ClosedByServer(s) == ~Serving /\ (Disconnect(s) \/ ReportClosed(s))

Session(s) ==
  /\ Running
  /\ UNCHANGED <<service, http, listening, spent>>
  /\ \/ \E origin \in Origins : ActivateSession(s, origin) /\ Publish
     \/ \E origin \in Origins : ActivationFails(s, origin) /\ UNCHANGED late
     \/ /\ \/ ClientStep(s)
           \/ TokenExpires(s)
           \/ Serving /\ ControlStep(s)
           \/ ClosedByServer(s)
           \/ PublishTaskEvent(s)
           \/ StartupExpires(s)
           \/ TeardownStep(s)
           \/ CloserSucceeds(s)
           \/ CloserRaises(s)
           \/ BrowserExits(s)
        /\ Publish
        /\ UNCHANGED late

Startup == SocketStarts \/ SocketRefused \/ StartupSucceeds \/ StartupFails

Shutdown ==
  \/ CloseTimesOut \/ SessionClosed \/ StopHttp \/ HttpTaskDone
  \/ StopListening \/ RunEnds \/ LoopCloses
  \/ \E s \in Sessions : CancelAtExit(s) \/ FinalizeAtExit(s)

Http == HttpStarts \/ HttpFails \/ HttpDrains \/ HttpEnds

ServiceNext ==
  \/ Startup \/ ShutdownRequested \/ Shutdown \/ DeadlinePasses \/ Http
  \/ \E s \in Sessions : Session(s)

ServiceSpec == ServiceInit /\ [][ServiceNext]_allVars

\* The event loop runs what is runnable and its timers fire.  Nobody owes a signal.
FairService ==
  /\ ServiceSpec
  /\ WF_allVars(Startup) /\ WF_allVars(Shutdown) /\ WF_allVars(DeadlinePasses)
  /\ \A s \in Sessions : WF_allVars(Session(s) /\ TeardownStep(s))
-----------------------------------------------------------------------------
\* HTTP stays up until the page of the session being closed was heard out: the server
\* is told to exit only when no teardown that the shutdown waited for is under way.
PageHeardOut ==
  http \in {"exiting", "draining"} =>
    \A s \in Sessions \ late : step[s] \in {"none", "done"}

\* The health marker is what the controller is doing, from readiness to the signal, even
\* when a session began before HTTP was up; a marker left behind is a late session's work.
MarkerTellsTruth ==
  /\ service = "ready" => marker = MarkerFor(Status(active, phase))
  /\ service = "over" /\ marker # "none" => late # {}

\* The exit is clean: every session the shutdown could know of has ended with its client
\* answered and its browser closed; only the deadline or a failed step explains otherwise.
ExitIsClean ==
  service = "over" =>
    \A s \in Sessions :
      /\ reply[s] \in {"opened", "waiting"} => spent
      /\ s \notin late /\ phase[s] # "idle" =>
           /\ phase[s] \in Terminal /\ future[s] = "resolved"
           /\ browser[s] = "running" =>
                \/ "close_browser" \in failures[s]
                \/ "teardown_cancelled" \in failures[s] /\ spent

\* A process that was told to stop, or whose start failed, exits.
ServiceStops == service \in ShuttingDown ~> service = "over"
=============================================================================
