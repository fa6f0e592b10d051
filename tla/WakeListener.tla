------------------------------ MODULE WakeListener ------------------------------
(***************************************************************************)
(* The native wake listener, native/okay-hermes-realtime-wake-listener.c:  *)
(* the main thread and its PipeWire loop, the audio callback that fills    *)
(* the ring of samples, the worker that scores windows of it and runs the  *)
(* activation handler, and the SIGTERM handler that may interrupt anything. *)
(*                                                                         *)
(* The threads share atomics and no lock, so a step is one access to what  *)
(* another thread reads.  Audio is its sample number, a score is a hit or  *)
(* a miss, and time is the ticks since the last captured sample was seen.  *)
(***************************************************************************)
EXTENDS Naturals, Sequences

CONSTANTS
  Capacity,            \* slots of the ring: RING_SECONDS of samples
  Window,              \* samples the model wants: MODEL_SAMPLES
  ConsecutiveWindows,  \* options.consecutive_windows
  HealthTimeout,       \* CAPTURE_HEALTH_TIMEOUT_SECONDS, in ticks
  MaxSamples           \* samples captured in a behaviour (bound)

ASSUME RingAssumption ==
  /\ Window \in Nat \ {0} /\ Capacity \in Nat \ {0}
  /\ Window <= Capacity
ASSUME DetectorAssumption ==
  ConsecutiveWindows \in Nat \ {0} /\ HealthTimeout \in Nat \ {0} /\ MaxSamples \in Nat

VARIABLES
  handler,      \* whether a handler command is configured
  main,         \* where main() stands
  exit,         \* main's status
  loop, quit,   \* the PipeWire loop, and whether it was told to quit
  running, failed,                       \* listener_data
  stream,                                \* the capture stream
  samples, write_index, total_written,   \* the ring
  stored, writing,                       \* samples stored so far; the callback inside ring_write
  worker,                                \* where listener_worker stands
  head, window,                          \* sample at the write index when it was read; the copy
  consecutive_hits, last_health_total, wrote_unhealthy,
  age, due,                              \* ticks since last_capture_sample_at; inference interval over
  model, live,                           \* handles in data.model; handles the runtime still holds
  statusFile,                            \* the capture status file
  unsaid,                                \* history: a status that is written once was refused
  archive,                               \* files of the last archived activation
  stop, heard, faults                    \* history: the first stop, whether the loop ran then, failures

configVars == <<handler>>
mainVars == <<main, exit, loop>>
ringVars == <<samples, write_index, total_written, stored, writing>>
scanVars == <<head, window>>
detectVars == <<consecutive_hits, last_health_total, wrote_unhealthy>>
timeVars == <<age, due>>
historyVars == <<stop, heard, faults>>
flagVars == <<quit, running, failed, historyVars>>
statusVars == <<statusFile, unsaid>>
fileVars == <<statusVars, archive>>
modelVars == <<model, live>>
workerVars == <<worker, modelVars, scanVars, detectVars>>
vars == <<configVars, mainVars, flagVars, stream, ringVars, workerVars, timeVars, fileVars>>
-----------------------------------------------------------------------------
Setup == {"start", "armed", "marked", "loop", "stream", "connected", "spawned"}
Cleanup == {"cleanup_stream", "cleanup_ring", "cleanup_loop", "cleanup"}
Ended == {"exited", "crashed"}
MainSteps == Setup \cup {"looping", "left", "joining"} \cup Cleanup \cup Ended
Scanning == {"snapshot", "index", "copy", "score"}
Archiving == {"wav", "publish_wav", "json", "publish_json"}
WorkerSteps == {"none", "init", "top", "deliver", "handler", "sleep", "ending", "done"}
                 \cup Scanning \cup Archiving
\* What wake_model_init acquires, and how far it may have come when a call fails.
Acquiring == <<"env", "session_options", "session", "input_name", "output_name", "memory_info">>
Handles == {Acquiring[i] : i \in 1 .. 6}
Acquired == {{Acquiring[i] : i \in 1 .. n} : n \in 0 .. 5}

Statuses == {"none", "starting", "healthy", "unhealthy", "handler_failed", "stopped"}

TypeOK ==
  /\ handler \in BOOLEAN
  /\ main \in MainSteps /\ exit \in {0, 1}
  /\ loop \in {"null", "idle", "running", "destroyed"} /\ quit \in BOOLEAN
  /\ running \in BOOLEAN /\ failed \in BOOLEAN
  /\ stream \in {"off", "connected", "streaming", "failed", "destroyed"}
  /\ samples \in [0 .. Capacity - 1 -> 0 .. MaxSamples]
  /\ write_index \in 0 .. Capacity - 1 /\ total_written \in 0 .. MaxSamples
  /\ stored \in 0 .. MaxSamples /\ writing \in {"no", "stored", "indexed"}
  /\ worker \in WorkerSteps
  /\ head \in 0 .. MaxSamples
  /\ Len(window) <= Window /\ \A i \in 1 .. Len(window) : window[i] \in 0 .. MaxSamples
  /\ consecutive_hits \in 0 .. ConsecutiveWindows
  /\ last_health_total \in 0 .. MaxSamples /\ wrote_unhealthy \in BOOLEAN
  /\ age \in 0 .. HealthTimeout /\ due \in BOOLEAN
  /\ model \subseteq Handles /\ live \subseteq Handles
  /\ statusFile \in Statuses /\ unsaid \in BOOLEAN
  /\ archive \subseteq {"wav.tmp", "wav", "json.tmp", "json"}
  /\ stop \in {"none", "signal", "stream", "worker"} /\ heard \in BOOLEAN
  /\ faults \subseteq {"setup", "stream", "worker"}

Init ==
  /\ handler \in BOOLEAN
  /\ main = "start" /\ exit = 0
  /\ loop = "null" /\ quit = FALSE
  /\ running = FALSE /\ failed = FALSE
  /\ stream = "off"
  /\ samples = [s \in 0 .. Capacity - 1 |-> 0]
  /\ write_index = 0 /\ total_written = 0 /\ stored = 0 /\ writing = "no"
  /\ worker = "none" /\ head = 0 /\ window = <<>>
  /\ consecutive_hits = 0 /\ last_health_total = 0 /\ wrote_unhealthy = FALSE
  /\ age = 0 /\ due = TRUE
  /\ model = {} /\ live = {}
  /\ statusFile \in {"none", "healthy"} /\ unsaid = FALSE   \* a killed listener leaves its own
  /\ archive = {}
  /\ stop = "none" /\ heard = FALSE /\ faults = {}
-----------------------------------------------------------------------------
\* pw_main_loop_quit.  A loop that runs will leave; whether one that does not run yet
\* remembers the request is the library's affair.  data.loop keeps pointing at a loop
\* that was destroyed: anything may come of that (see RequestStop).
QuitLoop ==
  quit' \in CASE loop = "running" -> {TRUE}
              [] loop = "idle"    -> {quit, TRUE}
              [] OTHER            -> {quit}

\* A stop that reaches a listener marked as running, for the properties.  A stream lost
\* after a first stop leaves the loop to that one.
FirstStop(cause) ==
  /\ stop' = IF stop = "none" THEN cause ELSE stop
  /\ heard' = (heard \/ (loop = "running" /\ (cause = "stream" => stop = "none")))

\* write_capture_status: a temporary file, and a rename.  Each call may fail, this time or
\* the next, and nobody is told.  A sample brings "healthy" again; nothing brings these.
Once == {"unhealthy", "stopped"}

WriteStatus(s) ==
  \/ statusFile' = s /\ unsaid' = FALSE
  \/ statusFile' = statusFile /\ unsaid' = (s \in Once \/ (unsaid /\ s # "healthy"))

\* A slip: the signal clears `running` and leaves the loop alone.
StopWithoutQuit ==
  /\ main \notin Ended \cup {"start"}
  /\ running' = FALSE
  /\ IF main = "armed" THEN UNCHANGED <<stop, heard>> ELSE FirstStop("signal")
  /\ UNCHANGED <<configVars, mainVars, quit, failed, faults, stream, ringVars, workerVars,
                 timeVars, fileVars>>

\* The signal handler runs on whatever thread the kernel picks, from sigaction to exit,
\* and more than once.  Before main marks the listener as running its store is lost.
RequestStop ==
  /\ main \notin Ended \cup {"start"}
  /\ running' = FALSE
  /\ QuitLoop
  /\ main' \in IF loop = "destroyed" THEN {main, "crashed"} ELSE {main}
  /\ IF main = "armed" THEN UNCHANGED <<stop, heard>> ELSE FirstStop("signal")
  /\ UNCHANGED <<configVars, exit, loop, failed, faults, stream, ringVars, workerVars,
                 timeVars, fileVars>>
-----------------------------------------------------------------------------
\* main up to pw_main_loop_run: each call may fail and leaves by the label that undoes
\* what was done.
SetupFails(at, label) ==
  /\ main = at
  /\ main' = label /\ exit' = 1
  /\ faults' = faults \cup {"setup"}
  /\ UNCHANGED <<configVars, loop, quit, running, failed, stop, heard, stream, ringVars,
                 workerVars, timeVars, fileVars>>

InstallSignalHandlers ==
  /\ main = "start" /\ main' = "armed"
  /\ UNCHANGED <<configVars, exit, loop, flagVars, stream, ringVars, workerVars, timeVars, fileVars>>

MarkRunning ==
  /\ main = "armed" /\ main' = "marked"
  /\ running' = TRUE
  /\ UNCHANGED <<configVars, exit, loop, quit, failed, historyVars, stream, ringVars,
                 workerVars, timeVars, fileVars>>

CreateLoop ==
  /\ main = "marked" /\ main' = "loop"
  /\ loop' = "idle"
  /\ UNCHANGED <<configVars, exit, flagVars, stream, ringVars, workerVars, timeVars, fileVars>>

CreateStream ==
  /\ main = "loop" /\ main' = "stream"
  /\ UNCHANGED <<configVars, exit, loop, flagVars, stream, ringVars, workerVars, timeVars, fileVars>>

ConnectStream ==
  /\ main = "stream" /\ main' = "connected"
  /\ stream' = "connected"
  /\ UNCHANGED <<configVars, exit, loop, flagVars, ringVars, workerVars, timeVars, fileVars>>

StartWorker ==
  /\ main = "connected" /\ main' = "spawned"
  /\ worker' = "init"
  /\ UNCHANGED <<configVars, exit, loop, flagVars, stream, ringVars, modelVars, scanVars,
                 detectVars, timeVars, fileVars>>

RunLoop ==
  /\ main = "spawned" /\ main' = "looping"
  /\ loop' = "running"
  /\ UNCHANGED <<configVars, exit, flagVars, stream, ringVars, workerVars, timeVars, fileVars>>

MainFails ==
  \/ SetupFails("start", "cleanup")
  \/ SetupFails("marked", "cleanup")
  \/ SetupFails("loop", "cleanup_loop")
  \/ SetupFails("loop", "cleanup_ring")
  \/ SetupFails("stream", "cleanup_stream")
  \/ SetupFails("connected", "cleanup_stream")
-----------------------------------------------------------------------------
\* main after pw_main_loop_run.
LeaveLoop ==
  /\ main = "looping" /\ quit
  /\ main' = "left" /\ loop' = "idle"
  /\ UNCHANGED <<configVars, exit, flagVars, stream, ringVars, workerVars, timeVars, fileVars>>

ClearRunning ==
  /\ main = "left" /\ main' = "joining"
  /\ running' = FALSE
  /\ UNCHANGED <<configVars, exit, loop, quit, failed, historyVars, stream, ringVars,
                 workerVars, timeVars, fileVars>>

\* A slip: main does not wait for the worker.
NoJoin ==
  /\ main = "joining"
  /\ main' = "cleanup_stream"
  /\ exit' = IF failed THEN 1 ELSE exit
  /\ UNCHANGED <<configVars, loop, flagVars, stream, ringVars, workerVars, timeVars, fileVars>>

JoinWorker ==
  /\ main = "joining" /\ worker = "done"
  /\ main' = "cleanup_stream"
  /\ exit' = IF failed THEN 1 ELSE exit
  /\ UNCHANGED <<configVars, loop, flagVars, stream, ringVars, workerVars, timeVars, fileVars>>

\* A slip: a plain store instead of the compare-and-swap.
StreamLostAlways == running' = FALSE /\ failed' = TRUE /\ QuitLoop

\* on_state_changed with ERROR or UNCONNECTED: compare-and-swap of `running`.
StreamLost ==
  IF running
  THEN /\ running' = FALSE /\ failed' = TRUE
       /\ QuitLoop
  ELSE UNCHANGED <<running, failed, quit>>

\* pw_stream_destroy, which waits for the audio callback and reports UNCONNECTED.
DestroyStream ==
  /\ main = "cleanup_stream" /\ writing = "no"
  /\ main' = "cleanup_ring" /\ stream' = "destroyed"
  /\ StreamLost
  /\ UNCHANGED <<configVars, exit, loop, historyVars, ringVars, workerVars, timeVars, fileVars>>

DestroyRing ==
  /\ main = "cleanup_ring" /\ main' = "cleanup_loop"
  /\ UNCHANGED <<configVars, exit, loop, flagVars, stream, ringVars, workerVars, timeVars, fileVars>>

DestroyLoop ==
  /\ main = "cleanup_loop" /\ main' = "cleanup"
  /\ loop' = "destroyed"
  /\ UNCHANGED <<configVars, exit, flagVars, stream, ringVars, workerVars, timeVars, fileVars>>

\* wake_model_destroy: releases what the pointers name and clears them.
ReleaseModel ==
  /\ live' = live \ model
  /\ model' = {}

\* clear_capture_status, whose unlink may fail, and what main releases last; the model of
\* a worker that failed.
Exit ==
  /\ main = "cleanup" /\ main' = "exited"
  /\ statusFile' \in {"none", statusFile}
  /\ ReleaseModel
  /\ UNCHANGED <<configVars, exit, loop, flagVars, stream, ringVars, worker, scanVars, detectVars,
                 timeVars, unsaid, archive>>
-----------------------------------------------------------------------------
\* The stream's callbacks.  PipeWire calls state and parameter changes from the loop,
\* and on_process from its own realtime thread.
StreamFails ==
  /\ main = "looping" /\ stream \in {"connected", "streaming"}
  /\ stream' = "failed"
  /\ StreamLost
  /\ FirstStop("stream")
  /\ faults' = IF stop = "none" THEN faults \cup {"stream"} ELSE faults
  /\ UNCHANGED <<configVars, mainVars, ringVars, workerVars, timeVars, fileVars>>

\* on_stream_param_changed; until a format is known on_process discards what it gets.
NegotiateFormat ==
  /\ main = "looping" /\ stream = "connected"
  /\ stream' = "streaming"
  /\ UNCHANGED <<configVars, mainVars, flagVars, ringVars, workerVars, timeVars, fileVars>>

\* on_process hands ring_write one sample at a time: the sample, the index, the total.
StoreSample ==
  /\ stream = "streaming" /\ writing = "no" /\ stored < MaxSamples
  /\ samples' = [samples EXCEPT ![write_index] = stored + 1]
  /\ stored' = stored + 1 /\ writing' = "stored"
  /\ UNCHANGED <<configVars, mainVars, flagVars, stream, write_index, total_written,
                 workerVars, timeVars, fileVars>>

PublishIndex ==
  /\ writing = "stored"
  /\ write_index' = (write_index + 1) % Capacity
  /\ writing' = "indexed"
  /\ UNCHANGED <<configVars, mainVars, flagVars, stream, samples, total_written, stored,
                 workerVars, timeVars, fileVars>>

PublishTotal ==
  /\ writing = "indexed"
  /\ total_written' = total_written + 1
  /\ writing' = "no"
  /\ UNCHANGED <<configVars, mainVars, flagVars, stream, samples, write_index, stored,
                 workerVars, timeVars, fileVars>>
-----------------------------------------------------------------------------
\* Only the worker in its loop looks at the time.
Tick ==
  /\ worker \notin {"none", "init", "done"}
  /\ age < HealthTimeout \/ ~due
  /\ age' = IF age < HealthTimeout THEN age + 1 ELSE age
  /\ due' = TRUE
  /\ UNCHANGED <<configVars, mainVars, flagVars, stream, ringVars, workerVars, fileVars>>

\* listener_worker up to its loop: no memory, or a call of wake_model_init fails, and
\* what the calls before it acquired is left to main.
WorkerFails ==
  /\ worker = "init" /\ worker' = "done"
  /\ model' \in Acquired /\ live' = model'
  /\ failed' = TRUE /\ running' = FALSE
  /\ QuitLoop
  /\ FirstStop("worker")
  /\ faults' = faults \cup {"worker"}
  /\ UNCHANGED <<configVars, mainVars, stream, ringVars, scanVars, detectVars, timeVars, fileVars>>

WorkerStarts ==
  /\ worker = "init" /\ worker' = "top"
  /\ model' = Handles /\ live' = Handles
  /\ WriteStatus("starting")
  /\ age' = 0
  /\ UNCHANGED <<configVars, mainVars, flagVars, stream, ringVars, scanVars, detectVars,
                 due, archive>>

\* A slip: wrote_unhealthy survives the next sample.
UnhealthyOnce ==
  IF total_written # last_health_total
  THEN /\ WriteStatus("healthy")
       /\ last_health_total' = total_written
       /\ age' = 0
       /\ UNCHANGED wrote_unhealthy
  ELSE IF ~wrote_unhealthy /\ age = HealthTimeout
  THEN /\ WriteStatus("unhealthy")
       /\ wrote_unhealthy' = TRUE
       /\ UNCHANGED <<last_health_total, age>>
  ELSE UNCHANGED <<statusVars, last_health_total, wrote_unhealthy, age>>

\* The top of the loop: capture health, and whether a window is to be scored.  `now` is
\* read here, and counts as the time of the sample and of the inference.
ReportHealth ==
  IF total_written # last_health_total
  THEN /\ WriteStatus("healthy")
       /\ last_health_total' = total_written
       /\ wrote_unhealthy' = FALSE
       /\ age' = 0
  ELSE IF ~wrote_unhealthy /\ age = HealthTimeout
  THEN /\ WriteStatus("unhealthy")
       /\ wrote_unhealthy' = TRUE
       /\ UNCHANGED <<last_health_total, age>>
  ELSE UNCHANGED <<statusVars, last_health_total, wrote_unhealthy, age>>

WorkerIterates ==
  /\ worker = "top" /\ running
  /\ ReportHealth
  /\ IF total_written >= Window /\ due
     THEN worker' = "snapshot" /\ due' = FALSE
     ELSE worker' = "sleep" /\ UNCHANGED due
  /\ UNCHANGED <<configVars, mainVars, flagVars, stream, ringVars, modelVars, scanVars,
                 consecutive_hits, archive>>

WorkerWakes ==
  /\ worker = "sleep" /\ worker' = "top"
  /\ UNCHANGED <<configVars, mainVars, flagVars, stream, ringVars, modelVars, scanVars,
                 detectVars, timeVars, fileVars>>

WorkerLeaves ==
  \/ /\ worker = "top" /\ ~running /\ worker' = "ending"
     /\ UNCHANGED <<configVars, mainVars, flagVars, stream, ringVars, modelVars, scanVars,
                    detectVars, timeVars, fileVars>>
  \/ /\ worker = "ending" /\ worker' = "done"
     /\ ReleaseModel
     /\ WriteStatus("stopped")
     /\ UNCHANGED <<configVars, mainVars, flagVars, stream, ringVars, scanVars, detectVars,
                    timeVars, archive>>
-----------------------------------------------------------------------------
\* ring_snapshot_latest: the total, the index, then slot after slot while the callback
\* goes on writing.
ReadTotal ==
  /\ worker = "snapshot"
  /\ worker' = IF total_written < Window THEN "sleep" ELSE "index"
  /\ UNCHANGED <<configVars, mainVars, flagVars, stream, ringVars, modelVars, scanVars,
                 detectVars, timeVars, fileVars>>

ReadIndex ==
  /\ worker = "index" /\ worker' = "copy"
  /\ head' = IF writing = "stored" THEN stored - 1 ELSE stored
  /\ window' = <<>>
  /\ UNCHANGED <<configVars, mainVars, flagVars, stream, ringVars, modelVars, detectVars,
                 timeVars, fileVars>>

\* A slip: the window starts one slot late.
SlotOffByOne(i) == ((head % Capacity) + Capacity - Window + i) % Capacity

\* The slot of the i-th sample of the window; the index read stood at head % Capacity.
Slot(i) == ((head % Capacity) + Capacity - Window + i - 1) % Capacity

CopySample ==
  /\ worker = "copy"
  /\ window' = Append(window, samples[Slot(Len(window) + 1)])
  /\ worker' = IF Len(window') = Window THEN "score" ELSE "copy"
  /\ UNCHANGED <<configVars, mainVars, flagVars, stream, ringVars, modelVars, head, detectVars,
                 timeVars, fileVars>>

\* run_model may fail; the count is then kept.
Score(scored, hit) ==
  LET hits == CASE ~scored -> consecutive_hits
                [] scored /\ hit -> consecutive_hits + 1
                [] OTHER -> 0
  IN  /\ worker = "score"
      /\ consecutive_hits' = hits
      /\ worker' = IF scored /\ hits >= ConsecutiveWindows THEN "wav" ELSE "sleep"
      /\ head' = 0 /\ window' = <<>>
      /\ UNCHANGED <<configVars, mainVars, flagVars, stream, ringVars, modelVars,
                     last_health_total, wrote_unhealthy, timeVars, fileVars>>
-----------------------------------------------------------------------------
\* archive_activation: the clip under a temporary name, renamed, then the same for the
\* metadata.  Every call may fail; a failure is logged and the activation goes on.
ArchiveStep(at, next, now) ==
  /\ worker = at /\ worker' = next
  /\ archive' = now
  /\ UNCHANGED <<configVars, mainVars, flagVars, stream, ringVars, modelVars, scanVars,
                 detectVars, timeVars, statusVars>>

Archive ==
  \/ ArchiveStep("wav", "publish_wav", {"wav.tmp"})
  \/ ArchiveStep("publish_wav", "json", {"wav"})
  \/ ArchiveStep("json", "publish_json", {"wav", "json.tmp"})
  \/ ArchiveStep("publish_json", "deliver", {"wav", "json"})

\* No directory is configured, or write_activation_wav fails.
ArchiveClipFails == \E at \in {"wav", "publish_wav"} : ArchiveStep(at, "deliver", {})

\* A slip: the clip stays when its metadata could not be written.
ClipLeftBehind ==
  \E at \in {"json", "publish_json"} : ArchiveStep(at, "deliver", archive \ {"json.tmp"})

\* metadata_failure
ArchiveMetadataFails ==
  \E at \in {"json", "publish_json"} : ArchiveStep(at, "deliver", archive \ {"json.tmp", "wav"})
-----------------------------------------------------------------------------
\* The activation is over: printed, or the handler has returned.
Delivered(worked) ==
  /\ IF worked THEN UNCHANGED statusVars ELSE WriteStatus("handler_failed")
  /\ consecutive_hits' = 0
  /\ worker' = "sleep"
  /\ UNCHANGED <<configVars, mainVars, flagVars, stream, ringVars, modelVars, scanVars,
                 last_health_total, wrote_unhealthy, timeVars, archive>>

\* write_activation, without a handler.
PrintActivation(worked) == worker = "deliver" /\ ~handler /\ Delivered(worked)

\* run_handler: no pipe or no child, or the worker waits for the child.
HandlerFails == worker = "deliver" /\ handler /\ Delivered(FALSE)

StartHandler ==
  /\ worker = "deliver" /\ handler
  /\ worker' = "handler"
  /\ UNCHANGED <<configVars, mainVars, flagVars, stream, ringVars, modelVars, scanVars,
                 detectVars, timeVars, fileVars>>

HandlerReturns(worked) == worker = "handler" /\ Delivered(worked)
-----------------------------------------------------------------------------
MainStep ==
  \/ InstallSignalHandlers \/ MarkRunning \/ CreateLoop \/ CreateStream
  \/ ConnectStream \/ StartWorker \/ RunLoop \/ MainFails
  \/ LeaveLoop \/ ClearRunning \/ JoinWorker
  \/ DestroyStream \/ DestroyRing \/ DestroyLoop \/ Exit

StreamStep == StreamFails \/ NegotiateFormat \/ StoreSample
RingStep == PublishIndex \/ PublishTotal

WorkerStep ==
  \/ WorkerFails \/ WorkerStarts \/ WorkerIterates \/ WorkerWakes \/ WorkerLeaves
  \/ ReadTotal \/ ReadIndex \/ CopySample
  \/ \E scored, hit \in BOOLEAN : Score(scored, hit)
  \/ Archive \/ ArchiveClipFails \/ ArchiveMetadataFails
  \/ \E worked \in BOOLEAN : PrintActivation(worked) \/ HandlerReturns(worked)
  \/ HandlerFails \/ StartHandler

\* A process that crashed does nothing more.
Next ==
  /\ main # "crashed"
  /\ RequestStop \/ MainStep \/ StreamStep \/ RingStep \/ WorkerStep \/ Tick

Spec == Init /\ [][Next]_vars

\* Threads are scheduled, time passes, and the handler returns: the activation client
\* ends with the session, or with the service that is stopped.
Alive == main # "crashed"
FairSpec ==
  /\ Spec
  /\ WF_vars(Alive /\ MainStep) /\ WF_vars(Alive /\ RingStep)
  /\ WF_vars(Alive /\ WorkerStep) /\ WF_vars(Alive /\ Tick)
-----------------------------------------------------------------------------
\* ring_snapshot_latest needs no lock: the window scored is the latest recording, gap
\* free and in order, unless the callback wrote more than the ring's spare samples
\* during the copy; and it never holds a slot that was not written.
WindowIsRecording ==
  worker = "score" =>
    \A i \in 1 .. Window :
      /\ window[i] > 0
      /\ window[i] = head - Window + i \/ stored - head > Capacity - Window

\* The service is restarted on a failure and not after a stop: the exit status is 1
\* exactly when the set-up, the worker, or the stream of a listener nobody had asked to
\* stop failed, however signal, stream error and worker race for `running`.
ExitTellsFailure ==
  main = "exited" => (exit = 1 <=> faults # {})

\* What the worker and the callback use outlives them, so that nobody writes the status
\* file after main removed it.  The model, which either thread may release, is released
\* once: a handle given back is forgotten, none is taken from under a worker that scores,
\* and none is left at the end.
TornDownInOrder ==
  /\ main \in Cleanup \cup Ended => worker \in {"none", "done"}
  /\ main \in (Cleanup \cup Ended) \ {"cleanup_stream"} => writing = "no"
  /\ model \subseteq live /\ (worker = "score" => live = Handles)
  /\ main = "exited" => live = {}

\* Metadata never names a clip that is not there, and an archive that failed leaves
\* nothing under a final name.
NoHalfArchive ==
  /\ "json" \in archive => "wav" \in archive
  /\ worker \in {"deliver", "handler"} => archive \in {{}, {"wav", "json"}}

\* The marker the tray reads does not stay healthy when capture stalls, whatever the
\* detector and the handler do meanwhile, and although any write of it may fail: unless
\* the one write that says so was refused, the worker could not start, or the listener is
\* no more.
StallIsNoticed ==
  \A n \in 0 .. MaxSamples :
    (statusFile = "healthy" /\ stored = n) ~>
      (\/ statusFile # "healthy" \/ stored # n
       \/ unsaid \/ "worker" \in faults \/ main \in Ended)

\* A stop, or a first failure, that finds the loop running ends the process, also when
\* the worker is in the handler or half way through an inference.  (One that comes
\* before the loop runs may be lost with pw_main_loop_quit.)
StopIsObeyed == heard ~> main \in Ended
=============================================================================
