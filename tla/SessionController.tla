--------------------------- MODULE SessionController ---------------------------
(***************************************************************************)
(* The voice-session controller: runtime/controller.py with the state      *)
(* machine (session_state.py), the startup deadline (session_startup.py),  *)
(* the teardown coordinator (teardown.py), the launch tokens (tokens.py),  *)
(* the control-socket relay of gateway.py and the terminal wait of         *)
(* activation_socket.py.                                                   *)
(*                                                                         *)
(* Atomicity.  Everything runs on one asyncio loop and no body guarded by  *)
(* the controller's lock awaits anything, so the lock is never contended   *)
(* and each such body is one step.  A step ends where the code really      *)
(* suspends: the acknowledgement wait, the worker threads that close the   *)
(* browser, release the profile lock and write the trace, and the shielded *)
(* finalization task.                                                      *)
(***************************************************************************)
EXTENDS Naturals, Sequences, FiniteSets

CONSTANTS
  Sessions,       \* local session ids; secrets.token_urlsafe never repeats one
  NoSession,      \* Python's None
  QueueCapacity,  \* maxsize of a session's outbound queue (64 in the code)
  PageReasons,    \* reasons the page may send in a stop frame
  Origins,        \* "socket": the activation socket, which waits for the terminal
                  \* result; "http": POST /internal/open, which does not
  Faults          \* teardown steps the environment may make fail or time out

ASSUME SessionsAssumption == NoSession \notin Sessions
ASSUME CapacityAssumption == QueueCapacity \in Nat \ {0}
ASSUME ReasonsAssumption ==
  PageReasons \subseteq
    {"button", "model_request", "transport_failure", "native_cancel", "timeout"}
ASSUME OriginsAssumption == Origins \subseteq {"socket", "http"}
ASSUME FaultsAssumption ==
  Faults \subseteq {"close_browser", "release_profile_lock", "persist_trace"}

VARIABLES
  active,      \* _active_session
  phase,       \* SessionState.phase of each session; "idle" = id not used yet
  notified,    \* _last_notified_status, what the health marker shows
  lastClosed,  \* _last_closed_session_id
  stopReason,  \* _WakeSession.stop_reason
  req,         \* the TeardownRequest the coordinator's task was created with
  step,        \* where that task is suspended
  ack,         \* the coordinator's _browser_acknowledged event
  failures,    \* steps recorded as TeardownStepFailure
  shutdownOf,  \* session whose unshielded teardown the service awaits
  deadline,    \* BrowserStartupDeadline: sleeping or not
  handle,      \* _WakeSession.browser_handle is not None
  browser,     \* the dedicated browser's process group
  closer,      \* the worker thread running BrowserHandle.close
  outbound,    \* _outbound_messages: frames for the page
  relay,       \* the /control websocket: which frame of the page comes next
  closedSent,  \* outcome carried by a session_closed frame
  future,      \* _terminal_futures
  result,      \* _terminal_results
  reply,       \* what the activation-socket client of the session was told
  token,       \* the session's launch token
  latest       \* session of the newest token (the store's generation)

lifecycleVars == <<active, phase, notified, lastClosed>>
teardownVars  == <<stopReason, req, step, ack, failures, shutdownOf>>
browserVars   == <<handle, browser, closer>>
channelVars   == <<outbound, relay, closedSent>>
clientVars    == <<future, result, reply>>
tokenVars     == <<token, latest>>
vars == <<lifecycleVars, teardownVars, deadline, browserVars, channelVars,
          clientVars, tokenVars>>
-----------------------------------------------------------------------------
Phases == {"idle", "launching", "connecting", "live", "stopping", "closed", "failed"}
Starting == {"launching", "connecting"}
Terminal == {"closed", "failed"}
Outcomes == {"completed", "failed", "cancelled", "timed_out"}
Reasons  == {"button", "model_request", "transport_failure", "native_cancel", "timeout"}
Steps == {"none", "start", "ack", "close", "closing", "release", "persist",
          "finalize", "done"}
FailureNames == {"browser_ack", "close_browser", "release_profile_lock",
                 "persist_trace", "teardown_cancelled"}
ControlMessages == {"page_ready", "page_started", "timing", "stop", "teardown_complete"}

NoRequest == [outcome |-> "none", reason |-> "none"]
Request(o, r) == [outcome |-> o, reason |-> r]

\* The frames the page in voice.js may send next: page_ready when the socket opens,
\* and after its own stop frame only teardown_complete.
PageFrames(r) ==
  CASE r = "opened"  -> {"page_ready"}
    [] r = "serving" -> ControlMessages \ {"page_ready"}
    [] r = "leaving" -> {"teardown_complete"}
    [] OTHER         -> {}

\* VoiceSessionController.session_is_active
IsActive(s) == active = s /\ phase[s] \in Starting \cup {"live"}

\* VoiceSessionController.status, for given values of its two inputs
Status(a, p) ==
  IF a = NoSession \/ p[a] \in Terminal \cup {"idle"} THEN "idle" ELSE p[a]

\* VoiceSessionController._outcome_for_stop_reason
OutcomeForStopReason(r) ==
  CASE r = "transport_failure" -> "failed"
    [] r = "timeout"           -> "timed_out"
    [] r = "native_cancel"     -> "cancelled"
    [] OTHER                   -> "completed"

\* The activation socket's answer for a terminal outcome: a timeout is a failure.
ReplyFor(o) == IF o = "timed_out" THEN "failed" ELSE o

\* LaunchTokenStore.validate: only the newest token, unconsumed and unexpired.
Validate(s) == latest = s /\ token[s] = "fresh"

Init ==
  /\ active = NoSession
  /\ phase = [s \in Sessions |-> "idle"]
  /\ notified = "idle"
  /\ lastClosed = NoSession
  /\ stopReason = [s \in Sessions |-> "none"]
  /\ req = [s \in Sessions |-> NoRequest]
  /\ step = [s \in Sessions |-> "none"]
  /\ ack = [s \in Sessions |-> FALSE]
  /\ failures = [s \in Sessions |-> {}]
  /\ shutdownOf = NoSession
  /\ deadline = [s \in Sessions |-> "off"]
  /\ handle = [s \in Sessions |-> FALSE]
  /\ browser = [s \in Sessions |-> "none"]
  /\ closer = [s \in Sessions |-> "none"]
  /\ outbound = [s \in Sessions |-> <<>>]
  /\ relay = [s \in Sessions |-> "none"]
  /\ closedSent = [s \in Sessions |-> "none"]
  /\ future = [s \in Sessions |-> "none"]
  /\ result = [s \in Sessions |-> "none"]
  /\ reply = [s \in Sessions |-> "none"]
  /\ token = [s \in Sessions |-> "none"]
  /\ latest = NoSession
-----------------------------------------------------------------------------
(* Activation.  A second activation while a session is active is answered   *)
(* "busy" and changes nothing, so only the other branch is an action.       *)

\* A slip: activate without its busy check.
ActivateUnguarded(s, origin) ==
  /\ phase[s] = "idle"
  /\ token' = [token EXCEPT ![s] = "fresh"]
  /\ latest' = s
  /\ phase' = [phase EXCEPT ![s] = "launching"]
  /\ active' = s
  /\ notified' = Status(active', phase')
  /\ future' = [future EXCEPT ![s] = "pending"]
  /\ lastClosed' = NoSession
  /\ handle' = [handle EXCEPT ![s] = TRUE]
  /\ browser' = [browser EXCEPT ![s] = "running"]
  /\ deadline' = [deadline EXCEPT ![s] = "armed"]
  /\ reply' = [reply EXCEPT ![s] = IF origin = "socket" THEN "opened" ELSE "none"]
  /\ UNCHANGED <<teardownVars, closer, channelVars, result>>

Activate(s, origin) ==
  /\ active = NoSession
  /\ phase[s] = "idle"
  /\ token' = [token EXCEPT ![s] = "fresh"]
  /\ latest' = s
  /\ phase' = [phase EXCEPT ![s] = "launching"]
  /\ active' = s
  /\ notified' = Status(active', phase')
  /\ future' = [future EXCEPT ![s] = "pending"]
  /\ lastClosed' = NoSession
  /\ handle' = [handle EXCEPT ![s] = TRUE]
  /\ browser' = [browser EXCEPT ![s] = "running"]
  /\ deadline' = [deadline EXCEPT ![s] = "armed"]
  /\ reply' = [reply EXCEPT ![s] = IF origin = "socket" THEN "opened" ELSE "none"]
  /\ UNCHANGED <<teardownVars, closer, channelVars, result>>

\* The launcher raised: the session fails, resolved, inside activate itself.
ActivateLaunchFails(s, origin) ==
  /\ active = NoSession
  /\ phase[s] = "idle"
  /\ token' = [token EXCEPT ![s] = "consumed"]
  /\ latest' = s
  /\ phase' = [phase EXCEPT ![s] = "failed"]
  /\ notified' = Status(active, phase')
  /\ future' = [future EXCEPT ![s] = "resolved"]
  /\ result' = [result EXCEPT ![s] = "failed"]
  /\ lastClosed' = NoSession
  /\ reply' = [reply EXCEPT ![s] = IF origin = "socket" THEN "failed" ELSE "none"]
  /\ UNCHANGED <<active, teardownVars, deadline, browserVars, channelVars>>

\* wait_for_terminal_result, scheduled by the activation socket as a task.
WaitForTerminalResult(s) ==
  /\ reply[s] = "opened"
  /\ reply' = [reply EXCEPT ![s] =
       CASE result[s] # "none"    -> ReplyFor(result[s])
         [] future[s] = "pending" -> "waiting"
         [] OTHER                 -> "failed"]
  /\ UNCHANGED <<lifecycleVars, teardownVars, deadline, browserVars, channelVars,
                 future, result, tokenVars>>

\* The future's result wakes the waiting activation-socket client.
AnswerClient(s) ==
  /\ reply[s] = "waiting"
  /\ future[s] = "resolved"
  /\ reply' = [reply EXCEPT ![s] = ReplyFor(result[s])]
  /\ UNCHANGED <<lifecycleVars, teardownVars, deadline, browserVars, channelVars,
                 future, result, tokenVars>>
-----------------------------------------------------------------------------
(* Launch tokens and the control websocket.                                 *)

TokenExpires(s) ==
  /\ token[s] = "fresh"
  /\ token' = [token EXCEPT ![s] = "expired"]
  /\ UNCHANGED <<lifecycleVars, teardownVars, deadline, browserVars, channelVars,
                 clientVars, latest>>

\* GET /control with the session's token: consume it, then relay if the session
\* is the active one.  An invalid token closes the socket and changes nothing.
\* The token is in the URL of the browser launched for the session.
ConsumeActivationToken(s) ==
  /\ browser[s] = "running"
  /\ Validate(s)
  /\ token' = [token EXCEPT ![s] = "consumed"]
  /\ relay' = [relay EXCEPT ![s] = IF active = s THEN "opened" ELSE @]
  /\ UNCHANGED <<lifecycleVars, teardownVars, deadline, browserVars, outbound,
                 closedSent, clientVars, latest>>

\* WebSocketDisconnect: the relay returns and tells the controller nothing.
Disconnect(s) ==
  /\ relay[s] \in {"opened", "serving", "leaving"}
  /\ relay' = [relay EXCEPT ![s] = "closed"]
  /\ UNCHANGED <<lifecycleVars, teardownVars, deadline, browserVars, outbound,
                 closedSent, clientVars, tokenVars>>

\* A slip: task events published to any current session, ending or not.
PublishWhileStopping(s) ==
  /\ active = s
  /\ Len(outbound[s]) < QueueCapacity
  /\ outbound' = [outbound EXCEPT ![s] = Append(@, "task_event")]
  /\ UNCHANGED <<lifecycleVars, teardownVars, deadline, browserVars, relay,
                 closedSent, clientVars, tokenVars>>

\* publish_task_event; a full queue or an ending session refuses the event.
PublishTaskEvent(s) ==
  /\ IsActive(s)
  /\ Len(outbound[s]) < QueueCapacity
  /\ outbound' = [outbound EXCEPT ![s] = Append(@, "task_event")]
  /\ UNCHANGED <<lifecycleVars, teardownVars, deadline, browserVars, relay,
                 closedSent, clientVars, tokenVars>>

\* The relay takes the next frame for the page.
DeliverOutbound(s) ==
  /\ relay[s] \in {"opened", "serving", "leaving"}
  /\ active = s
  /\ outbound[s] # <<>>
  /\ outbound' = [outbound EXCEPT ![s] = Tail(@)]
  /\ UNCHANGED <<lifecycleVars, teardownVars, deadline, browserVars, relay,
                 closedSent, clientVars, tokenVars>>
-----------------------------------------------------------------------------
(* Beginning a teardown: _begin_teardown_locked.  The first caller's reason *)
(* and request stay; start() creates the coordinator's task once.           *)

\* A slip: every caller records its own stop reason.
LastReasonWins(s, r) ==
  /\ phase' = [phase EXCEPT ![s] = "stopping"]
  /\ notified' = IF phase[s] = "stopping" THEN notified ELSE Status(active, phase')
  /\ stopReason' = [stopReason EXCEPT ![s] = r.reason]
  /\ req' = [req EXCEPT ![s] = IF @ = NoRequest THEN r ELSE @]
  /\ step' = [step EXCEPT ![s] = IF @ = "none" THEN "start" ELSE @]
  /\ UNCHANGED <<active, lastClosed, failures>>

\* A slip: start() without its check restarts the coordinator with a new request.
TeardownRestarts(s, r) ==
  /\ phase' = [phase EXCEPT ![s] = "stopping"]
  /\ notified' = IF phase[s] = "stopping" THEN notified ELSE Status(active, phase')
  /\ stopReason' = [stopReason EXCEPT ![s] = IF @ = "none" THEN r.reason ELSE @]
  /\ req' = [req EXCEPT ![s] = r]
  /\ step' = [step EXCEPT ![s] = "start"]
  /\ UNCHANGED <<active, lastClosed, failures>>

BeginTeardown(s, r) ==
  /\ phase' = [phase EXCEPT ![s] = "stopping"]
  /\ notified' = IF phase[s] = "stopping" THEN notified ELSE Status(active, phase')
  /\ stopReason' = [stopReason EXCEPT ![s] = IF @ = "none" THEN r.reason ELSE @]
  /\ req' = [req EXCEPT ![s] = IF @ = NoRequest THEN r ELSE @]
  /\ step' = [step EXCEPT ![s] = IF @ = "none" THEN "start" ELSE @]
  /\ UNCHANGED <<active, lastClosed, failures>>

\* A slip: the deadline only looks for sessions whose page never connected.
ExpiresOnlyLaunching(s) ==
  /\ deadline[s] = "armed"
  /\ deadline' = [deadline EXCEPT ![s] = "off"]
  /\ IF active = s /\ phase[s] = "launching"
     THEN BeginTeardown(s, Request("timed_out", "timeout"))
     ELSE UNCHANGED <<lifecycleVars, stopReason, req, step, failures>>
  /\ UNCHANGED <<ack, shutdownOf, browserVars, channelVars, clientVars, tokenVars>>

\* BrowserStartupDeadline._run and _expire_browser_startup
StartupExpires(s) ==
  /\ deadline[s] = "armed"
  /\ deadline' = [deadline EXCEPT ![s] = "off"]
  /\ IF active = s /\ phase[s] \in Starting
     THEN BeginTeardown(s, Request("timed_out", "timeout"))
     ELSE UNCHANGED <<lifecycleVars, stopReason, req, step, failures>>
  /\ UNCHANGED <<ack, shutdownOf, browserVars, channelVars, clientVars, tokenVars>>

\* RuntimeService._shutdown -> close_active_session: awaited without a shield,
\* once per process.
CloseActiveSession(s) ==
  /\ shutdownOf = NoSession
  /\ active = s
  /\ shutdownOf' = s
  /\ BeginTeardown(s, Request("cancelled", "native_cancel"))
  /\ UNCHANGED <<ack, deadline, browserVars, channelVars, clientVars, tokenVars>>
-----------------------------------------------------------------------------
(* process_control_message, one action per message the relay receives.      *)

PageReady(s) ==
  /\ "page_ready" \in PageFrames(relay[s])
  /\ active = s
  /\ phase[s] \in Starting
  /\ phase' = [phase EXCEPT ![s] = "connecting"]
  /\ notified' = Status(active, phase')
  /\ relay' = [relay EXCEPT ![s] = "serving"]
  /\ UNCHANGED <<active, lastClosed, teardownVars, deadline, browserVars, outbound,
                 closedSent, clientVars, tokenVars>>

PageStarted(s) ==
  /\ "page_started" \in PageFrames(relay[s])
  /\ active = s
  /\ phase[s] \in Starting \cup {"live"}
  /\ phase' = [phase EXCEPT ![s] = "live"]
  /\ deadline' = [deadline EXCEPT ![s] = "off"]
  /\ notified' = Status(active, phase')
  /\ UNCHANGED <<active, lastClosed, teardownVars, browserVars, channelVars,
                 clientVars, tokenVars>>

PageStop(s, r) ==
  /\ "stop" \in PageFrames(relay[s])
  /\ active = s
  /\ BeginTeardown(s, Request(OutcomeForStopReason(r), r))
  /\ relay' = [relay EXCEPT ![s] = "leaving"]
  /\ UNCHANGED <<ack, shutdownOf, deadline, browserVars, outbound, closedSent,
                 clientVars, tokenVars>>

\* A slip: teardown_complete only acknowledges, as if a teardown always ran already.
CompleteOnlyAcknowledges(s) ==
  /\ "teardown_complete" \in PageFrames(relay[s])
  /\ active = s
  /\ ack' = [ack EXCEPT ![s] = TRUE]
  /\ relay' = [relay EXCEPT ![s] = "awaiting"]
  /\ UNCHANGED <<lifecycleVars, stopReason, req, step, failures, shutdownOf, deadline,
                 browserVars, outbound, closedSent, clientVars, tokenVars>>

\* The relay stays inside process_control_message until the teardown ends.
TeardownComplete(s) ==
  /\ "teardown_complete" \in PageFrames(relay[s])
  /\ active = s
  /\ LET r == IF stopReason[s] = "none" THEN "button" ELSE stopReason[s]
     IN  BeginTeardown(s, Request(OutcomeForStopReason(r), r))
  /\ ack' = [ack EXCEPT ![s] = TRUE]
  /\ relay' = [relay EXCEPT ![s] = "awaiting"]
  /\ UNCHANGED <<shutdownOf, deadline, browserVars, outbound, closedSent, clientVars,
                 tokenVars>>

\* The teardown the relay awaited is over; a cancelled one ends the relay without
\* a session_closed frame.
ReportClosed(s) ==
  /\ relay[s] = "awaiting"
  /\ step[s] = "done"
  /\ relay' = [relay EXCEPT ![s] = "closed"]
  /\ closedSent' = [closedSent EXCEPT ![s] =
       IF "teardown_cancelled" \in failures[s] THEN @ ELSE req[s].outcome]
  /\ UNCHANGED <<lifecycleVars, teardownVars, deadline, browserVars, outbound,
                 clientVars, tokenVars>>

\* teardown_complete for the session that closed last.
LateTeardownComplete(s) ==
  /\ "teardown_complete" \in PageFrames(relay[s])
  /\ active = NoSession
  /\ lastClosed = s
  /\ closedSent' = [closedSent EXCEPT ![s] =
       IF result[s] # "none" THEN result[s] ELSE "completed"]
  /\ relay' = [relay EXCEPT ![s] = "closed"]
  /\ UNCHANGED <<lifecycleVars, teardownVars, deadline, browserVars, outbound,
                 clientVars, tokenVars>>

\* Messages process_control_message raises on: an illegal phase transition, a
\* timing record older than the controller's own teardown_requested record
\* (SessionTrace.record), and any message of a session that is not the active one.
Rejects(s, m) ==
  \/ /\ active = s
     /\ \/ m = "page_ready" /\ phase[s] \in {"live", "stopping"}
        \/ m = "page_started" /\ phase[s] = "stopping"
        \/ m = "timing" /\ stopReason[s] # "none"
  \/ /\ active # s
     /\ ~(m = "teardown_complete" /\ active = NoSession /\ lastClosed = s)

\* The relay closes the socket with code 4403 and returns.
RejectControlMessage(s, m) ==
  /\ m \in PageFrames(relay[s])
  /\ Rejects(s, m)
  /\ relay' = [relay EXCEPT ![s] = "closed"]
  /\ UNCHANGED <<lifecycleVars, teardownVars, deadline, browserVars, outbound,
                 closedSent, clientVars, tokenVars>>
-----------------------------------------------------------------------------
(* TeardownCoordinator._run                                                 *)

\* mark_stopping finds the session stopping, marked and owned; with
\* request_browser_stop it runs before the task first suspends.
RequestBrowserStop(s) ==
  /\ step[s] = "start"
  /\ future[s] = "pending"    \* the queue exists exactly as long as the future
  /\ LET q == outbound[s]
     IN outbound' = [outbound EXCEPT ![s] =
          Append(IF Len(q) < QueueCapacity THEN q ELSE Tail(q), "stop")]
  /\ step' = [step EXCEPT ![s] = "ack"]
  /\ UNCHANGED <<lifecycleVars, stopReason, req, ack, failures, shutdownOf, deadline,
                 browserVars, relay, closedSent, clientVars, tokenVars>>

\* _run_step: record the failure, if any, and go on.
StepTo(s, next, failed) ==
  /\ step' = [step EXCEPT ![s] = next]
  /\ failures' = [failures EXCEPT ![s] = @ \cup failed]
  /\ UNCHANGED <<stopReason, req, ack, shutdownOf>>

BrowserAcknowledged(s) ==
  /\ step[s] = "ack"
  /\ ack[s]
  /\ StepTo(s, "close", {})
  /\ UNCHANGED <<lifecycleVars, deadline, browserVars, channelVars, clientVars, tokenVars>>

AcknowledgementTimesOut(s) ==
  /\ step[s] = "ack"
  /\ ~ack[s]
  /\ StepTo(s, "close", {"browser_ack"})
  /\ UNCHANGED <<lifecycleVars, deadline, browserVars, channelVars, clientVars, tokenVars>>

\* A slip: close_browser drops the handle it should have closed.
DropHandle(s) ==
  /\ step[s] = "close"
  /\ handle' = [handle EXCEPT ![s] = FALSE]
  /\ StepTo(s, "release", {})
  /\ UNCHANGED <<lifecycleVars, deadline, browser, closer, channelVars, clientVars,
                 tokenVars>>

\* close_browser: take the handle, then close it in a worker thread.
CloseBrowser(s) ==
  /\ step[s] = "close"
  /\ handle' = [handle EXCEPT ![s] = FALSE]
  /\ closer' = [closer EXCEPT ![s] = IF handle[s] THEN "running" ELSE @]
  /\ StepTo(s, IF handle[s] THEN "closing" ELSE "release", {})
  /\ UNCHANGED <<lifecycleVars, deadline, browser, channelVars, clientVars, tokenVars>>

\* DedicatedBrowserHandle.close returns once the process group is gone, ...
CloserSucceeds(s) ==
  /\ closer[s] = "running"
  /\ closer' = [closer EXCEPT ![s] = "returned"]
  /\ browser' = [browser EXCEPT ![s] = "exited"]
  /\ UNCHANGED <<lifecycleVars, teardownVars, deadline, handle, channelVars, clientVars,
                 tokenVars>>

\* ... and raises BrowserLaunchError when it survived SIGKILL past the deadline.
CloserRaises(s) ==
  /\ closer[s] = "running"
  /\ "close_browser" \in Faults
  /\ closer' = [closer EXCEPT ![s] = "raised"]
  /\ UNCHANGED <<lifecycleVars, teardownVars, deadline, handle, browser, channelVars,
                 clientVars, tokenVars>>

\* The step ends with the thread, or times out and leaves the thread running.
CloseBrowserEnds(s) ==
  /\ step[s] = "closing"
  /\ closer[s] = "running" => "close_browser" \in Faults
  /\ StepTo(s, "release", IF closer[s] = "returned" THEN {} ELSE {"close_browser"})
  /\ UNCHANGED <<lifecycleVars, deadline, browserVars, channelVars, clientVars, tokenVars>>

ReleaseProfileLock(s, failed) ==
  /\ step[s] = "release"
  /\ failed => "release_profile_lock" \in Faults
  /\ StepTo(s, "persist", IF failed THEN {"release_profile_lock"} ELSE {})
  /\ UNCHANGED <<lifecycleVars, deadline, browserVars, channelVars, clientVars, tokenVars>>

PersistTrace(s, failed) ==
  /\ step[s] = "persist"
  /\ failed => "persist_trace" \in Faults
  /\ StepTo(s, "finalize", IF failed THEN {"persist_trace"} ELSE {})
  /\ UNCHANGED <<lifecycleVars, deadline, browserVars, channelVars, clientVars, tokenVars>>

\* _run catches the cancellation of its task where that is suspended: the remaining
\* steps are skipped, only finalize runs.
TaskCancelled(s) ==
  /\ step[s] \in {"ack", "close", "closing", "release", "persist"}
  /\ StepTo(s, "finalize", {"teardown_cancelled"})
  /\ UNCHANGED <<lifecycleVars, deadline, browserVars, channelVars, clientVars, tokenVars>>

\* The service's wait_for expires; nothing shields the task it awaits.
CancelTeardown(s) == shutdownOf = s /\ TaskCancelled(s)

\* A slip: finalize without _resolve_terminal_result.
FinalizeWithoutResult(s) ==
  /\ step[s] = "finalize"
  /\ active = s
  /\ step' = [step EXCEPT ![s] = "done"]
  /\ phase' = [phase EXCEPT ![s] = IF req[s].outcome = "failed" THEN "failed" ELSE "closed"]
  /\ active' = NoSession
  /\ notified' = Status(active', phase')
  /\ lastClosed' = s
  /\ outbound' = [outbound EXCEPT ![s] = <<>>]
  /\ deadline' = [deadline EXCEPT ![s] = "off"]
  /\ token' = [token EXCEPT ![s] = "consumed"]
  /\ UNCHANGED <<stopReason, req, ack, failures, shutdownOf, browserVars, relay,
                 closedSent, clientVars, latest>>

\* A slip: the result is stored and nobody is woken.
FinalizeLeavesFuture(s) ==
  /\ step[s] = "finalize"
  /\ active = s
  /\ step' = [step EXCEPT ![s] = "done"]
  /\ phase' = [phase EXCEPT ![s] = IF req[s].outcome = "failed" THEN "failed" ELSE "closed"]
  /\ active' = NoSession
  /\ notified' = Status(active', phase')
  /\ lastClosed' = s
  /\ outbound' = [outbound EXCEPT ![s] = <<>>]
  /\ deadline' = [deadline EXCEPT ![s] = "off"]
  /\ result' = [result EXCEPT ![s] = IF @ = "none" THEN req[s].outcome ELSE @]
  /\ token' = [token EXCEPT ![s] = "consumed"]
  /\ UNCHANGED <<stopReason, req, ack, failures, shutdownOf, browserVars, relay,
                 closedSent, future, reply, latest>>

\* A slip: finalize leaves the session's launch token valid.
FinalizeKeepsToken(s) ==
  /\ step[s] = "finalize"
  /\ active = s
  /\ step' = [step EXCEPT ![s] = "done"]
  /\ phase' = [phase EXCEPT ![s] = IF req[s].outcome = "failed" THEN "failed" ELSE "closed"]
  /\ active' = NoSession
  /\ notified' = Status(active', phase')
  /\ lastClosed' = s
  /\ outbound' = [outbound EXCEPT ![s] = <<>>]
  /\ deadline' = [deadline EXCEPT ![s] = "off"]
  /\ result' = [result EXCEPT ![s] = IF @ = "none" THEN req[s].outcome ELSE @]
  /\ future' = [future EXCEPT ![s] = "resolved"]
  /\ UNCHANGED <<stopReason, req, ack, failures, shutdownOf, browserVars, relay,
                 closedSent, reply, tokenVars>>

\* finalize with _resolve_terminal_result
Finalize(s) ==
  /\ step[s] = "finalize"
  /\ active = s
  /\ step' = [step EXCEPT ![s] = "done"]
  /\ phase' = [phase EXCEPT ![s] = IF req[s].outcome = "failed" THEN "failed" ELSE "closed"]
  /\ active' = NoSession
  /\ notified' = Status(active', phase')
  /\ lastClosed' = s
  /\ outbound' = [outbound EXCEPT ![s] = <<>>]
  /\ deadline' = [deadline EXCEPT ![s] = "off"]
  /\ result' = [result EXCEPT ![s] = IF @ = "none" THEN req[s].outcome ELSE @]
  /\ future' = [future EXCEPT ![s] = "resolved"]
  /\ token' = [token EXCEPT ![s] = "consumed"]
  /\ UNCHANGED <<stopReason, req, ack, failures, shutdownOf, browserVars, relay,
                 closedSent, reply, latest>>

\* The user closes the window, the page calls window.close, or the browser crashes.
BrowserExits(s) ==
  /\ browser[s] = "running"
  /\ browser' = [browser EXCEPT ![s] = "exited"]
  /\ UNCHANGED <<lifecycleVars, teardownVars, deadline, handle, closer, channelVars,
                 clientVars, tokenVars>>
-----------------------------------------------------------------------------
TeardownStep(s) ==
  \/ RequestBrowserStop(s)
  \/ BrowserAcknowledged(s)
  \/ AcknowledgementTimesOut(s)
  \/ CloseBrowser(s)
  \/ CloseBrowserEnds(s)
  \/ \E failed \in BOOLEAN : ReleaseProfileLock(s, failed) \/ PersistTrace(s, failed)
  \/ Finalize(s)

ClientStep(s) == WaitForTerminalResult(s) \/ AnswerClient(s)

ControlStep(s) ==
  \/ ConsumeActivationToken(s)
  \/ PageReady(s)
  \/ PageStarted(s)
  \/ \E r \in PageReasons : PageStop(s, r)
  \/ TeardownComplete(s)
  \/ ReportClosed(s)
  \/ LateTeardownComplete(s)
  \/ \E m \in ControlMessages : RejectControlMessage(s, m)
  \/ DeliverOutbound(s)
  \/ Disconnect(s)

SessionStep(s) ==
  \/ \E origin \in Origins :
       Activate(s, origin) \/ ActivateLaunchFails(s, origin)
  \/ ClientStep(s)
  \/ TokenExpires(s)
  \/ ControlStep(s)
  \/ PublishTaskEvent(s)
  \/ StartupExpires(s)
  \/ CloseActiveSession(s)
  \/ TeardownStep(s)
  \/ CancelTeardown(s)
  \/ CloserSucceeds(s)
  \/ CloserRaises(s)
  \/ BrowserExits(s)

Next == \E s \in Sessions : SessionStep(s)

Spec == Init /\ [][Next]_vars

\* What the event loop guarantees: a runnable task runs, a timer fires, a relay
\* that waits for a finished teardown resumes, and the socket of a browser that is
\* gone is reported closed.  Nothing is assumed of users, pages or the provider.
Fairness ==
  \A s \in Sessions :
    /\ WF_vars(TeardownStep(s))
    /\ WF_vars(StartupExpires(s))
    /\ WF_vars(ClientStep(s))
    /\ WF_vars(ReportClosed(s))
    /\ WF_vars(browser[s] = "exited" /\ Disconnect(s))

FairSpec == Spec /\ Fairness
-----------------------------------------------------------------------------
\* Every variable keeps its type, and no outbound queue outgrows its maxsize.
TypeOK ==
  /\ active \in Sessions \cup {NoSession}
  /\ phase \in [Sessions -> Phases]
  /\ notified \in Phases
  /\ lastClosed \in Sessions \cup {NoSession}
  /\ stopReason \in [Sessions -> Reasons \cup {"none"}]
  /\ req \in [Sessions -> [outcome : Outcomes \cup {"none"}, reason : Reasons \cup {"none"}]]
  /\ step \in [Sessions -> Steps]
  /\ ack \in [Sessions -> BOOLEAN]
  /\ failures \in [Sessions -> SUBSET FailureNames]
  /\ shutdownOf \in Sessions \cup {NoSession}
  /\ deadline \in [Sessions -> {"off", "armed"}]
  /\ handle \in [Sessions -> BOOLEAN]
  /\ browser \in [Sessions -> {"none", "running", "exited"}]
  /\ closer \in [Sessions -> {"none", "running", "returned", "raised"}]
  /\ outbound \in [Sessions -> Seq({"task_event", "stop"})]
  /\ \A s \in Sessions : Len(outbound[s]) <= QueueCapacity
  /\ relay \in [Sessions -> {"none", "opened", "serving", "leaving", "awaiting", "closed"}]
  /\ closedSent \in [Sessions -> Outcomes \cup {"none"}]
  /\ future \in [Sessions -> {"none", "pending", "resolved"}]
  /\ result \in [Sessions -> Outcomes \cup {"none"}]
  /\ reply \in [Sessions -> {"none", "opened", "waiting", "completed", "cancelled", "failed"}]
  /\ token \in [Sessions -> {"none", "fresh", "consumed", "expired"}]
  /\ latest \in Sessions \cup {NoSession}

\* One outcome everywhere.  However many stops, timeouts, acknowledgements and
\* shutdowns race, the reason kept on the session, the request the coordinator
\* runs, the terminal result, the session_closed frame the page gets and the
\* answer the activation handler gets all tell the same story.
OneOutcome ==
  \A s \in Sessions :
    /\ req[s] # NoRequest =>
         /\ stopReason[s] = req[s].reason
         /\ req[s].outcome = OutcomeForStopReason(req[s].reason)
         /\ result[s] \in {"none", req[s].outcome}
    /\ closedSent[s] # "none" => closedSent[s] = result[s]
    /\ reply[s] \in {"completed", "cancelled", "failed"} => reply[s] = ReplyFor(result[s])

\* No activation handler waits for a session that can no longer answer it: while
\* a client waits on an unresolved future its session is the active one and the
\* future is still registered.
NoForgottenClient ==
  \A s \in Sessions :
    reply[s] \in {"opened", "waiting"} /\ result[s] = "none" =>
      active = s /\ future[s] = "pending"

\* The wake listener is re-armed only after the browser let go of the microphone:
\* a session ends with its browser running only if closing it failed or timed out,
\* or the service shutdown cancelled the teardown.
EndedSessionHasNoBrowser ==
  \A s \in Sessions :
    phase[s] \in Terminal /\ browser[s] = "running" =>
      failures[s] \cap {"close_browser", "teardown_cancelled"} # {}

\* A launch token opens at most one control socket, and none once its session has
\* ended: a token still valid belongs to the active session, which has no socket.
TokenOnlyForActive ==
  \A s \in Sessions : Validate(s) => active = s /\ relay[s] = "none"

\* The published status (the health marker the tray reads) never lags behind the
\* controller: no handler leaves without notifying the status it produced.
StatusPublished == notified = Status(active, phase)

\* Nothing follows the stop frame in the page's queue, and the queue keeps its bound
\* even when the stop frame displaces a task event.
StopFrameIsLast ==
  \A s \in Sessions :
    /\ Len(outbound[s]) <= QueueCapacity
    /\ \A i \in 1 .. Len(outbound[s]) :
         outbound[s][i] = "stop" => i = Len(outbound[s]) /\ phase[s] = "stopping"

\* The startup deadline cannot end a conversation that has begun.
LiveHasNoDeadline ==
  \A s \in Sessions : phase[s] = "live" => deadline[s] = "off"

\* What has been decided stays decided: the owner of the teardown, the terminal
\* result and a delivered answer never change, and an ended session never revives.
DecisionsAreFinal ==
  [][\A s \in Sessions :
       /\ req[s] # NoRequest => req'[s] = req[s]
       /\ result[s] # "none" => result'[s] = result[s]
       /\ reply[s] \in {"completed", "cancelled", "failed"} => reply'[s] = reply[s]
       /\ phase[s] \in Terminal => phase'[s] = phase[s] /\ active' # s]_vars

\* The controller keeps the promises of VoiceLifecycle: a session runs until its
\* teardown request is fixed, which is also its verdict, ends when finalize releases
\* it, and the session_closed frame and the activation handler's answer follow.
Stage(s) ==
  IF phase[s] = "idle" THEN "unused"
  ELSE IF phase[s] = "stopping" THEN "ending"
  ELSE IF phase[s] \in Terminal THEN "ended" ELSE "running"

Verdict(s) == IF req[s] = NoRequest THEN result[s] ELSE req[s].outcome

Told(s) == IF reply[s] \in {"opened", "waiting"} THEN "none" ELSE reply[s]

Lifecycle ==
  INSTANCE VoiceLifecycle WITH
    Verdicts   <- Outcomes,
    Answer     <- ReplyFor,
    current    <- active,
    stage      <- [s \in Sessions |-> Stage(s)],
    verdict    <- [s \in Sessions |-> Verdict(s)],
    pageTold   <- closedSent,
    clientTold <- [s \in Sessions |-> Told(s)]

\* The detailed specification implements the abstract one.
ImplementsLifecycle == Lifecycle!Spec

\* A session that is starting or stopping does not stay so: it goes live or ends
\* within the startup deadline, and once stopping it ends even if the page, the
\* browser or the disk never answers.
SessionsMoveOn ==
  \A s \in Sessions :
    (phase[s] \in Starting \cup {"stopping"}) ~> (phase[s] \in Terminal \cup {"live"})

\* The activation handler is answered once its session's teardown has begun.
ClientAnswered ==
  \A s \in Sessions :
    (reply[s] \in {"opened", "waiting"} /\ req[s] # NoRequest) ~>
      (reply[s] \in {"completed", "cancelled", "failed"})

\* A page whose teardown_complete was accepted is told the session closed, unless the
\* service shutdown cancelled the teardown.
PageToldClosed ==
  \A s \in Sessions :
    (relay[s] = "awaiting") ~>
      (relay[s] = "closed" /\ (closedSent[s] # "none" \/ "teardown_cancelled" \in failures[s]))

\* "This slice does not permit an unbounded orphaned browser session": a session
\* whose browser is gone ends.
NoOrphanedSession ==
  \A s \in Sessions : (active = s /\ browser[s] = "exited") ~> (active # s)
=============================================================================
