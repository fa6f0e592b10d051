# A verification development for okay-hermes-realtime

TLA+ specifications of the voice runtime in this repository, the TLC runs that check
them and the TLAPS proofs of their safety. Paths below are relative to the repository
root.

## 1. Inventory

| Part | Source | State it keeps | Operations |
|---|---|---|---|
| Voice-session controller | `src/realtime_action_spike/runtime/controller.py`, `session_state.py`, `session_startup.py` | the active session, phase, stop reason, startup deadline, outbound queue, terminal futures and results, last closed session, published status | activate, consume a launch token, page messages, publish a task event, wait for a terminal result, close the active session |
| Teardown coordinator | `runtime/teardown.py` | one task per session, the acknowledgement event, recorded failures | start, run, acknowledge, cancellation |
| Launch tokens | `runtime/tokens.py` | records, generation | issue, validate, consume, invalidate |
| Control relay | `gateway.py` (`/control`) | one receive and one outbound task per websocket | relay a frame, reject, report the close, disconnect |
| Activation socket | `runtime/activation_socket.py`, `activation_handler.py` | the path's inode and who listens on it, one connection per wake | prepare the path, start, stop, activate, wait, answer |
| Runtime service | `service.py` | lifecycle, HTTP server, health marker, shutdown deadline | start, publish readiness, shut down in phases |
| Browser | `runtime/browser/` | process group, profile lock | launch, close with escalation |
| Gateway | `gateway.py` (`/session`, `/execute`) | newest attempt, session, scope, results by call id | create a call, execute a capability |
| Task-event coordinator | `runtime/task_events.py` | tracked tasks with cursor and unsent messages, pending blocks, watchers, a lock | register, poll, flush, resolve a permission, shutdown |
| Voice page | `frontend/voice.js`, `frontend/task-turn-scheduler.js` | peer, channel, scheduler flags, farewell latch, stop latches | provider events, control frames, tool calls, start, stop |
| Wake listener | `native/okay-hermes-realtime-wake-listener.c` | resampler, ring buffer, model handles, detector state, handler process, stop flags | capture callback, detect, run the handler, rearm |
| Tray | `native/realtime-tray/main.cpp`, `tray_state.h` | cached unit states, command in flight, subscription, icon and menu | watch units, markers and audio, start and stop the units, open the page |
| Capabilities, protocol, scripts | `capabilities.py`, `protocol.py`, `scripts/` | last handoff, none | execute, parse |

The wake listener runs a handler that opens the activation socket. The controller
launches a browser with a one-time token; the page opens `/control` with it, posts its
SDP offer to `/session`, talks to the Realtime provider directly and sends function calls
to `/execute`. A handed-off task is watched on its Kanban board; its events go through
the controller's queue to the page, which decides when the model may speak about them;
the user's decision on a block comes back through `/execute`. When the session ends, by
whichever of the page, the deadline, the controller or the service asks first, the
coordinator stops the page, closes the browser and resolves the result the activation
socket waits for, which re-arms the listener. Listener and controller are two systemd
units; each leaves a marker file, from which, and from the units and the default
microphone, the tray computes the one state it shows.

What is hard here: four parties can end a session at once; every step of the teardown can
fail, time out or be cancelled; frames and provider events cross each other, so both the
controller and the page act on an old picture; the board changes between a check and the
command that relies on it; the ring is shared without a lock; processes crash and leave
sockets and markers behind, which others read; and whoever waits must be answered.
`PROJECT.json` lists the hazards at their lines with the properties that cover them.

## 2. Modules

| Module | Models |
|---|---|
| `VoiceLifecycle` | what the runtime promises about sessions: one at a time, one verdict, told after the end |
| `SessionController` | the controller, coordinator, tokens, relay and the activation client |
| `RuntimeService` | one run of the controller process: `SessionController` inside `service.py` |
| `ActivationSocket` | the socket's path and the processes that start, stop and crash over it |
| `TaskTurns` | `TaskTurnScheduler` with the page's event handlers, and the provider |
| `TaskEvents` | `TaskEventCoordinator`, the permission client, and the board |
| `WakeListener` | the native listener: main thread, audio callback, ring, worker, model, signals |
| `Resampler` | how `on_process` brings frames to the model's rate, as operators |
| `VoicePage` | one page with `/session` and `/execute`: connection, function calls, farewell, stop |
| `Tray` | the tray's slots, systemd on the other end of the bus, the markers |
| `MC...` | the TLC instances of the module they name |
| `SessionController_proofs` | the controller's inductive invariant and safety theorems, and that it implements `VoiceLifecycle` |
| `RuntimeService_proofs` | that invariant and that refinement inside the process, and the service's safety |
| `ActivationSocket_proofs`, `TaskTurns_proofs`, `TaskEvents_proofs`, `VoicePage_proofs`, `Tray_proofs` | the inductive invariant and the safety theorems of the module they name |
| `WakeListener_proofs` | the same for the listener, and `Resampler` for captures of any length |

**SessionController.** The controller and its tasks run on one asyncio loop, and no body
guarded by the controller's lock awaits, so each such body is one action. A step ends
where the code suspends: `step[s]` is the place at which the coordinator's task is
suspended (`start` = created and not yet run, `ack`, `close`, `closing` = the worker
thread runs, `release`, `persist`, `finalize`, `done`). `mark_stopping` and
`request_browser_stop` run before the first suspension and are one action. `relay[s]`
says which frame the page can still send: `voice.js` sends `page_ready` when its socket
opens, a stop frame at most once, and afterwards only `teardown_complete`. `handle`,
`browser` and `closer` are the browser handle, the process group and the thread that
closes it, so a close that times out leaves a thread that ends much later, possibly
during the next session. `reply[s]` is what the activation client was told. Time is
abstracted to the possibility of a timer firing.

**RuntimeService** extends `SessionController` and takes its actions as they are, each
under the condition that the process can still run it: an activation needs the socket
that carries it, a control frame needs the HTTP server. `service` is where `run` is
suspended: `starting` between the two servers, then the phases of `_shutdown`, then
`exited`, in which `asyncio.run` cancels the tasks that are left. The shutdown deadline
that the phases share is `spent` or not. uvicorn has a lifecycle of its own (`http`),
since it can fail to start, serves on after `should_exit`, and waits for its websockets.
`marker` is the controller-health file. `late` remembers the sessions that were activated
when the shutdown had already looked for one.

**ActivationSocket.** The same `service.py` seen from outside, between processes: each
system call on the path is a step, because the other process can act in between. An
inode is the process and the start that bound it. `met` and `raced` remember whether a
start was alone, and whether another process was between a look at the path and what it
does to the path. uvicorn is one step here, and session traffic none.

**TaskTurns.** `sched` is the record of the scheduler's fields; `Settle` is what every
handler ends with, `maybeCreateResponse`. `wire` is the provider's event stream, in order
and arbitrarily late; `asked` are the requests on their way. The provider is external: it
speaks as `config.py` configures it (no automatic response, a user's voice interrupts),
it may refuse a request, end a response as completed, failed or with function calls, and
report the end and the commit of a turn in either order (`UserStops` sends the first,
`TurnEnds` the second, `ending` is the one that is owed); the next turn may begin between an
end and its commit. `uncommitted` and `crossed` remember what the page heard: turns without
a commit, and a commit that came after the next turn had begun.

**TaskEvents.** One tracked task. `watcher` is the place at which the watcher's task is
suspended, `upto` the batch it read, `cursor` the coordinator's cursor (also the position
in the batch, as in the code). `call[c]` is a running `resolve_permission`; a call holds
the coordinator's lock exactly while it is not idle. Calls that are refused change
nothing and calls that wait for the lock are calls that come later, so neither is an
action. The board is external and may move between any two steps; an unblock by the
`hermes` command names the task only, which `Unblock` states by recording both the block
the decision was for and the block that was lifted.

**WakeListener.** The listener's threads share atomics and no lock, so a step is one access
to what another thread reads: storing a sample, publishing the index and publishing the
total are three steps, and the worker copies its window slot by slot. `main` and `worker`
are the places at which the two threads stand; the audio callback is `writing`; SIGTERM
may come at any moment and more than once. `main = "crashed"` is what a signal may make of
a loop that was destroyed, whose pointer the handler still uses. `model` are the handles
`data.model` holds and `live` those the runtime still holds: the worker acquires them one
after the other, releases what it got when a call fails, and main releases the rest. A
sample is its number, a score a hit or a miss, time the ticks since the last sample was
seen. Every write of the status file may fail by itself and in silence (`WriteStatus`), as
may the unlink at the end; a marker of a killed listener may be there at the start.
`unsaid` remembers that a status which is written once was refused. `stored` and `head` say what the ring's contents mean; `stop`, `heard` and `faults`
remember who asked first and what failed. `on_process` gives `ring_write` one sample at a
time, after resampling; `Resampler` says which, as functions from frames to samples with
the accumulator carried from buffer to buffer, and is checked beside it.

**VoicePage.** A step ends where page or gateway await. `call[i]` is where the page's
`i`-th `startConversation` stands: `mic` (getUserMedia), `offer`, `posted`, `reading` and
`upstream` (its `/session` request before the check of the session, in the await of its
body, and counted, which are `SessionRequested` and `SessionAttempted`), `replied`,
`applied`. A permission's `/execute` is `running` until the checks after its awaits let the
command start, and `commanded` from then on (`PermissionCommanded`, `PermissionAnswered`).
`current` is what the page's module variables `peerConnection` (with its channel),
`localStream` and `executionScope` point at; `peer` and `mics` are the things themselves,
so a stream nobody points at is still live. `gw` and `results` are the variables of
`create_app`, with the attempt of the next session's page in `gw.next`. A response of the provider makes at most one call, and two of its events
name it. The controller appears as `owner`, the session it has active; `SessionController`
says when that changes.

**Tray.** One Qt event loop that never waits, so a slot is a step. The files and the
microphone are read whenever the state is computed; units are known by a cache that two
calls per unit fill, and `calls` and `mail` are the two directions of the bus, in order.
`RefreshState` ends every slot that calls `refreshState` and returns at once while a
command is in flight, as the code does. systemd is external: it answers in order, refuses
a second `Subscribe`, and sends a signal for a unit only to a subscriber. `missed` marks a
unit the tray has no way to know about.

The definitions whose comment begins with "A slip" are not used by any specification:
each is one definition with one plausible mistake, and shows that a property notices it.

## 3. Runs

| Run | Instance | Shows |
|---|---|---|
| `session_one` | 1 session, queue 2, all page reasons, all faults, both ways of activating | one outcome for everybody, no client forgotten, custody of the browser, the stop frame last; a session that starts or stops moves on, client and page are told |
| `session_two` | 2 sessions (symmetric), queue 1, one reason, the browser fault | nothing of an ended session reaches the next one; decisions are final; `VoiceLifecycle` is implemented |
| `runtime_service` | 1 session, queue 1, one reason, both ways of activating, the browser fault; a marker left behind or none | the page is heard out before HTTP goes, the marker is true, the exit is clean, a process told to stop ends |
| `activation_socket` | 2 processes, 3 starts each | a ready controller keeps its path; what a crash left behind stops nobody |
| `task_turns` | 2 task events, 3 turns, 1 outstanding tool call, refusals and failing sends | never two responses, no announcement lost or repeated, no response inside a turn but after a commit that crossed it, the flags never block each other |
| `task_events` | 4 board events, 2 concurrent calls, failing polls | decisions used once, the question asked can be answered, events in order and delivered, the watcher ends |
| `wake_listener` | ring of 3, window of 2, two consecutive hits, 4 samples, a timeout of 1 tick, every call and every write may fail, a marker left behind or none; resampling of up to 7 frames at 6 rates, cut into up to 4 buffers in every way, empty ones too | the window scored is the recording; exit status, teardown order with the model's handles, archive; a stalled capture is noticed unless the write that says so fails, a stop is obeyed; resampling loses and invents nothing at the edge of a buffer |
| `voice_page` | 2 starts, 2 responses, the first may call a function | calls carried out once, for the live session only, after the awaits of a permission too; the newest conversation keeps its tools; a promised end comes |
| `tray` | 2 units, 2 capture texts, 1 controller text, refused subscriptions and commands, the units change while the bus is empty | the unit cache is wrong only while news is on its way or the tray was never told; the icon follows what the tray knows; green is earned; the menu comes back |
| `no_orphaned_session`, `completion_reaches_voice`, `stop_releases_microphone` | as small as the case needs | three places where the code does not do what a document says; see `findings` |

**Bounds.** `QueueCapacity` stands for 64: with 1 and 2 the queue is full when the stop
frame comes, with and without a task event behind it. One session suffices for races
within a session; two are needed, and enough, for what one leaves to its successor, since
all state but `active`, `notified`, `lastClosed` and `latest` is per session and a third
session meets its predecessor only. Three turns let a turn begin while the events of the one
before are still on the wire, its commit too, and leave one behind; two task events let one arrive while another is announced.
Four board events are a block, its end, another block and the end of that one, the
shortest history in which a decision can hit the wrong block twice. Session identifiers
are symmetric in `session_two`, which checks no liveness.

A ring with one slot to spare and four samples lets the callback wrap, lap the reader and
stay behind it, and two windows can be scored. Rates are in thirds of the model's 16 kHz
(9 stands for 48 kHz, 7 and 2 for rates that divide nothing), and seven frames carry the
accumulator past its first repetition at each of them; four buffers put two of them inside
a capture. Two starts are a conversation and
the one that overtakes it, at the page and at the gateway; a third could only meet the
second. Two responses are the one that calls `voice_end_session` and the farewell.

In `runtime_service` the one session is the one the shutdown closes in some behaviours and
the one it misses in others; that both exist at once is left to the theorems. (Two
sessions are past 9 million states with more than a third of them waiting; none that was
reached violates the invariant.) Three starts of a process are one that crashes, one that
is refused or stopped, and one that finds what they left; three processes with two starts
each, 13.2 million states, hold as well and are too many for a run. `MaxMessages` lets a
unit change or the retry fire only while the bus holds fewer messages; the tray's own
calls are not bounded by it. The tray's invariant was also checked with 2.

**Deadlock** is checked in `tray`, where something can always change. Elsewhere session
identifiers, user turns, board events, samples and starts run out, a process ends, and a
session that waits for its page may wait for ever (`no_orphaned_session`).

**Fairness.** *SessionController*: the event loop runs runnable tasks and fires timers
(weak fairness of the coordinator's steps, the startup deadline, the client's tasks and the
relay's report of the close), and a socket whose browser is gone is reported as
disconnected. Nothing is assumed of users, pages or worker threads: `CloseBrowserEnds` is
fair because `wait_for` bounds it. *RuntimeService*: startup, shutdown phases, the shared
deadline and the coordinator's steps; nobody owes a signal, a page or a client.
*ActivationSocket* checks no liveness. *TaskTurns*: events in flight are handled, requests
reach the provider, responses, turns and tool calls end, the second event of a turn's end is
sent; the user need not speak.
*TaskEvents*: the watcher and calls proceed (each wait has a timeout), and a flush that
could be taken whole infinitely often is (strong fairness): a page that is connected drains
its queue. `EventsReachVoice` and `WatcherEnds` need it only while the session lives.
*WakeListener*: the kernel schedules main, the worker and an audio callback that has begun,
time passes, and the handler returns, because the activation client ends with its session or
with the service; no sample, stream error or signal is owed. *VoicePage*: the page's
fallback timer fires, and nothing else is assumed. *Tray*: systemd answers, the event loop
handles what has arrived, timers fire; no click, no change and no answer of the controller
is owed.

**What the properties leave open.** `StopIsObeyed` speaks of a stop that finds the loop
running: a signal between `sigaction` and the store to `running` is overwritten, and one
before `pw_main_loop_run` depends on the library. `StallIsNoticed` excuses exactly what
breaks it: the one write of `unhealthy` that failed (`unsaid`), a worker that could not
start, and a listener that is ending; section 4 says what they come to. `NeverBeforeCommit`
excuses a commit that crossed the next turn (`crossed`). `ExecutesForLiveSession` speaks of
the start of an execution: a permission command that has started runs on when its session
ends. `ExecutedOnce` excuses conversations that
came to life after they were stopped (`revived`): the next start forgets the calls that are
under way, so the page may send one of them twice. `ToolsStayAvailable` speaks of a live
conversation that made the page's latest attempt; if the two requests reach the gateway in
the other order, the live one holds a superseded scope. `EndSessionCloses` excuses the
revived conversation too, for which `stopConversation` does nothing. `ExitIsClean` and
`MarkerTellsTruth` excuse `late` sessions, `ReadyIsReachable` starts that `raced`, and
`CacheIsExplained` units the tray `missed`; the next section says what happens to them.

## 4. Observations

Places where the code and a statement about it part, met while modelling, beyond the three
that have a run.

*Turns.* A task event that waits when a turn is committed need not be in the next response:
the `response.done` of a cancelled response that arrives after the commit clears the turn's
request (`frontend/task-turn-scheduler.js:87`), while `README.md:68` says events are "spoken on the
next safe model turn". `SpokenOnNextTurn` of `TaskTurns` says it, and TLC refutes it.
`tests/web/task-turn-scheduler.test.mjs:126` says that function-call continuations keep
task events for the tool result, but a user turn committed while the call is outstanding
starts a response that carries them (`task-turn-scheduler.js:84`). The scheduler does not
tell turns apart: when a turn begins between the end and the commit of the one before, that
commit is taken for the new turn's, and the new turn's end asks for a response before its
own commit (`task-turn-scheduler.js:63`, `:67`).

*Attempts.* `/session` asks whether the session is active before it awaits the body and
counts the attempt after it (`gateway.py:447`, `:454`, `:460`). A page whose session ended
in between still makes the newest attempt: the attempt of the next session's page that is
under way is answered 409, or the scope it was given is replaced, and its tools are stale
until it connects again. Nothing runs for the wrong session (`ExecutesForLiveSession`).

*Decisions.* Between the check that a block is current and the command that lifts it the
board may move, and the command names the task only (`task_events.py:394`): the answer to
one block resumes another. `README.md:70`: "Blanket approval and stale block responses are
rejected." `StaleAnswerRejected` of `TaskEvents`; TLC refutes it.

*Farewell.* The end of the audio of the response that called `voice_end_session` may be
taken for the end of the farewell, because the page does not know the farewell's id yet
(`frontend/voice.js:728`); `tests/test_ui_contract.py:609` wants the page to "wait for
output_audio_buffer.stopped matching the farewell response id". `FarewellHeardOut` of
`VoicePage`; TLC refutes it.

*Teardown.* `service.py:214` wants the socket kept alive until the page acknowledges, but a
timing frame the page sent before it saw the stop is older than the controller's own
record, and the relay closes the socket on it (`timing.py:244`, `gateway.py:141`).

*Shutdown.* The activation socket is closed after the session was. A session activated in
between (`late`) is not closed by anybody: its teardown is cancelled at the exit if it had
begun, and otherwise its browser stays. Its end writes the health marker again after the
service unlinked it, although `tests/test_service.py:194` expects none. An activation
whose launch fails before HTTP is up writes "ready", before both servers are
(`docs/plans/2026-07-21-webrtc-wakeword-replacement-stage-1.md:443`: "publish readiness
only after both HTTP and the Unix socket are available").

*Two controllers.* A second controller that is refused by `_probe_socket` runs its own
`_shutdown` all the same and unlinks the marker of the healthy one. Starts that overlap
in time can remove or replace the socket of a healthy controller: `asyncio` unlinks
whatever socket is at the path when it binds, and `_cleanup_socket_file` compares and
unlinks in two steps (line 441 of the same plan: stale files are removed "only after
verifying they are sockets and no healthy controller is listening"). The probe takes every
`OSError`, a timeout included, for a dead controller.

*Tray.* After a refused `Subscribe` the retry subscribes again but does not ask for the
units' states, and a second `Subscribe` that systemd refuses as a duplicate keeps the timer
going; until a signal comes the cache is what it was (`README.md:107`: "its icon tracks
controller health, capture health, and unit state"). Markers of two killed processes show
ON although both units are down, since units that agree pass for a runtime in the
foreground. The state Starting offers neither Turn ON nor Turn OFF.

*Listener.* The status `unhealthy` is written once, and `wrote_unhealthy` is set whatever
came of it (line 833): if that write fails, the marker stays `healthy` for the whole stall.
A listener whose worker cannot start when a killed one has left its marker does the same
until it exits, and so does one that exits and cannot unlink the file. `on_process` divides by the channel count before it replaces a count of zero. A
format change runs on the loop's thread and resets the accumulator the real-time callback
may be using. `run_model` does not release the status of a `CreateTensorWithDataAsOrtValue`
that failed. A write to a handler that died relies on the ignored SIGPIPE of its unit.

## 5. Proofs

Each proof module establishes an invariant `IInv` that is inductive (`Init => IInv`, `IInv`
and a step give `IInv'`) and derives the safety properties of the runs from it, for all
values of the constants that satisfy the assumptions named in the module it extends. Each
`IInv` was checked by TLC on the runs' instances before it was proved. The step proof has
one lemma or step for each action.

`SessionController_proofs`: any set of sessions, queue capacity and set of faults.

    IInv == TypeOK /\ StatusPublished /\ \A s \in Sessions : SessionInv(s) /\ StopFrame(s)

`SessionInv` describes a session by its phase: an unused identifier has nothing; a
conversing session is the active one, has no request and a pending future, and owns its
browser; an ending one has the request whose outcome is that of its reason and is still
active with its future pending; an ended one has its result, a resolved future and a spent
token, and left its browser running only with a recorded failure. The clauses are needed
together: that the client's future is still pending when `Finalize` resolves it follows
from the session being active, which follows from the phase of the coordinator, which
follows from who may begin a teardown. Each group of actions is shown to change one
session only (`Frame`) and to move that one from one description to another.
`DecidedForGood` is the action property `DecisionsAreFinal` from the same invariant, and
`LifecycleImplemented` maps every step to a step of `VoiceLifecycle` or a stutter: a
launched activation opens a session, the begin of a teardown decides it, `Finalize` ends
it, an answer or a close tells of it.

`RuntimeService_proofs` shows first that this invariant survives in the process, whose
exit cancels tasks the controller knows nothing of (`CancelledKeeps`); then `ServiceInv`:
once a phase of the shutdown has begun, every session it could know of is at rest, or is
the one it is closing (`Waited`); no teardown was cancelled before the shutdown and none
after it without the deadline (`Before`, `CancelledLate`); HTTP is told to exit only then
(`HttpToldLate`); the clients are answered (`AtExit`). `SafePage`, `SafeMarker` and
`SafeExit` follow. `ProcessLifecycle` and `ProcessDecisions` carry the refinement of
`VoiceLifecycle` and `DecisionsAreFinal` over to the process: a step of the service is a
step of the controller, touches no session, or is the exit, whose cancellations end no
session and answer nobody, so that `VoiceLifecycle` stutters (`CancelledShowsNothing`).

`ActivationSocket_proofs`: any set of processes and any number of starts. What a process
listens on is its own socket (`Custody`); once a start that did not race has listened,
nobody stands at a step that touches the path or mistakes the socket for their own
(`Undisturbed`); a process that met no other finds path and port as the dead left them
(`Alone`); and the port belongs to a controller that is ready (`PortInUse`).

`TaskTurns_proofs`: any set of task events and any bounds. On the wire a response begins
before it ends, and there is one at most (`OneOnWire`); the scheduler is busy for as long
as a request, a response or news of one exists (`BusyWithIt`); idle, it has announced all
it took (`IdleHasNothing`); it knows of a turn the page heard begin and not committed, unless
a commit crossed it (`TurnKnown`), and a channel that is not open carries nothing (`Quiet`).

`TaskEvents_proofs`: any callers and history. A blocked task's last event is its block
(`BlockedIsLast`); what the page has precedes what waits, and that what the watcher has not
handled (`InOrder`); the block that stands is pending once the watcher is done with it
(`Remembered`); the lock lets one call in (`OneCall`); a block that was answered is over,
and nobody is about to answer it again (`UsedUp`).

`WakeListener_proofs`: any ring and window the assumptions allow, any number of samples.
The ring holds the last `Capacity` samples, each in its slot (`Ring`); the copy in progress
is the recording before the index that was read, unless the callback has lapped it
(`Scan`); enough hits in a row are an activation at once (`Detecting`); `data.model` names
what the runtime holds, all of it while the worker scores (`Holding`); `Archived` is what
stands in the archive between two of its calls, and `Control` what the threads may count on
of each other and how `running`, `failed` and the exit status remember who stopped first.

`Tray_proofs`: any markers, faults and bound. At most one unit call is on its way, and then
a command is in flight (`OneUnitCall`); for each unit the truth is on its way with nothing
behind it that hides it, or known with nothing on its way that disturbs it (`Informed`);
`IconIsCurrent` is inductive with them.

What it records is proved for every rate and for captures of any length in any buffers
(`ResamplingJoins`, of which the run's `RecordingIsWhole` is an instance). After `n` frames
the accumulator is `n * ModelRate` modulo the rate and the ring is `Sampled(rate, n)`
(`After`); one frame leads from `After(rate, n)` to `After(rate, n + 1)`, which is the
arithmetic (`AfterFrame`). The folds over a buffer and over the buffers are unrolled by
induction over a set of numbers (`SetInduction`, from the fact that `<` is well founded on
the naturals), and so is the existence of the recursive function a fold stands for.

`VoicePage_proofs`: any number of starts, responses and calls.

    IInv == /\ TypeOK
            /\ Counted /\ Scoped /\ Newest                       \* the gateway
            /\ Pointed /\ Untouched /\ Connected                 \* the page
            /\ InOrder /\ AskedTwice /\ RanOnce /\ Orderly       \* function calls

The attempts of the page are numbered without gaps (`Counted`, by the cardinality of those
who asked, which is also why the counter keeps its range), every scope the page has seen is
such a number and not the next page's (`Scoped`), and the gateway's is the newest it handed out (`Newest`). A
conversation that is live was answered and holds the scope of its answer (`Connected`); what
the page's variables point at exists and was started (`Pointed`, `Untouched`). From these
follow `SafeTools` and `SafeExecutes`: between two attempts the numbers decide, and the scope
of the next session is none of this page's, though an attempt of this page may follow it. The events of a response name it in order
(`InOrder`), so the first event asks the gateway, and the second asks again only when nothing
will name the call a third time (`AskedTwice`); a request runs once (`RanOnce`); and unless a
start that was stopped came to life, the page has one conversation and remembers its calls
for as long as an event may name them (`Orderly`), so the second request is never made:
`SafeExecuted`. The same clause gives `StopReleases`, the statement the run
`stop_releases_microphone` refutes, for every page that no such start revived: the race of
`getUserMedia` with a stop is the only way to a microphone that stays on.

Every invariant, action property and refinement that a passing run checks is proved. Only
model-checked are the liveness properties, which are out of the prover's reach, as is
`ENABLED`: `SessionsMoveOn`, `ClientAnswered`, `PageToldClosed`, `ServiceStops`,
`RequestServed`, `EventsReachVoice`, `WatcherEnds`, `StallIsNoticed`, `StopIsObeyed`,
`EndSessionCloses` and `MenuComesBack`; and the three counterexamples.

## 6. Not modelled

`src/native/include` holds vendored headers of the ONNX Runtime: 11 546 of the 13 644
lines of C, and no code of this program. The listener's calls appear as handles acquired
and released.

The observer that publishes the status is taken to succeed; interruption traces,
sanitizing of messages, wording and redaction are data no property speaks of. Validation
of activation requests, execution arguments and command lines is pure. Of the listener,
option parsing, the self test and the network's arithmetic are left out; a negotiated
channel count of zero is taken not to happen. Of the tray, drawing and texts. Of the page,
rendering and diagnostics, the mode without a controller and the return from the
back-forward cache; of the gateway, a `call_id` reused with other arguments; its limit of
512 calls is a refusal that may meet any call. The turn taking of a page (`TaskTurns`) and
its connection (`VoicePage`) are separate modules that agree on the channel: `TaskTurns`
opens and closes it at will, which covers every way `VoicePage` does. `RuntimeService` and
`ActivationSocket` both model the start and the end of `service.py`, one with its sessions
and one with its competitors.

## 7. Plan

1. `BrowserLaunch`: profile lock, spawn and escalation of `runtime/browser/`, which
   `SessionController` takes as one success or failure.
2. A status observer that raises, in `SessionController` and `RuntimeService`.
3. What holds of the statements of section 4 when the race each of them names does not
   happen, as theorems beside `StopReleases`: `StaleAnswerRejected` and `FarewellHeardOut`.
4. Pure parts as operators: trace and interruption reducers, validation in
   `capabilities.py` and `protocol.py`.
5. The page without a controller and restored pages in `VoicePage`; a reused `call_id`.
