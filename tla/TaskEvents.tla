------------------------------- MODULE TaskEvents -------------------------------
(***************************************************************************)
(* The relay of Kanban task events to the voice session and of the user's  *)
(* decisions back to the board: TaskEventCoordinator, the board reader and  *)
(* the permission client of runtime/task_events.py, for one handed-off     *)
(* task.                                                                   *)
(*                                                                         *)
(* A step ends where the code awaits: a worker thread (the board's SQLite   *)
(* file, notify-send, the hermes command) or the coordinator's lock.  The  *)
(* board belongs to the workers and to whoever runs hermes: it is external *)
(* and moves between any two steps.                                        *)
(***************************************************************************)
EXTENDS Naturals, Sequences, FiniteSets

CONSTANTS
  MaxEvents,   \* length of the task's event log (bound)
  Callers,     \* concurrent resolve_permission calls
  PollFaults   \* whether handling an event may raise: a locked database, or an
               \* empty summary, on which _event_detail raises IndexError

ASSUME EventsAssumption == MaxEvents \in Nat \ {0}
ASSUME PollFaultsAssumption == PollFaults \in BOOLEAN

VARIABLES
  log,           \* the task's rows of task_events; the index is the event id
  status,        \* the status column of the task's row
  session,       \* session_is_active of the originating session
  watcher,       \* where the watcher's task stands
  upto,          \* last event of the batch read_events returned
  cursor,        \* _TrackedTask.cursor
  terminalSeen,  \* _TrackedTask.terminal_seen
  pendingVoice,  \* _TrackedTask.pending_voice, as event ids
  pendingBlock,  \* _pending_blocks of the task; 0 = none
  call,          \* where each resolve_permission call stands, and its block_event_id
  published,     \* events queued for the page, in order
  answers,       \* what the hermes command did: the block a decision was given for
                 \* and the block it unblocked
  lost           \* events whose handling raised

boardVars == <<log, status>>
trackVars == <<upto, cursor, terminalSeen, pendingVoice>>
historyVars == <<published, answers, lost>>
vars == <<boardVars, session, watcher, trackVars, pendingBlock, call, historyVars>>
-----------------------------------------------------------------------------
Asking  == "blocked"      \* a block that requires the user's input
Waiting == "dependency"   \* a block on another task
Blocks  == {Asking, Waiting}
Voiced  == Blocks \cup {"completed", "gave_up"}

\* The last block or unblock of the task; 0 when there is none.
LatestMove ==
  LET moves == {i \in 1 .. Len(log) : log[i] \in Blocks \cup {"unblocked"}}
  IN  IF moves = {} THEN 0 ELSE CHOOSE i \in moves : \A j \in moves : j <= i

\* KanbanTaskEventSource.is_current_block
IsCurrentBlock(b) ==
  status = "blocked" /\ b = LatestMove /\ b # 0 /\ log[b] \in Blocks

Tracked == watcher \notin {"new", "ended"}

NoCall == [at |-> "idle", block |-> 0]

\* A slip: no lock around resolve_permission.
NeverLocked == TRUE

\* The coordinator's lock: resolve_permission holds it across its awaits.
LockFree == \A c \in Callers : call[c] = NoCall

Init ==
  /\ log = <<>>
  /\ status = "running"
  /\ session = TRUE
  /\ watcher = "new"
  /\ upto = 0
  /\ cursor = 0
  /\ terminalSeen = FALSE
  /\ pendingVoice = <<>>
  /\ pendingBlock = 0
  /\ call = [c \in Callers |-> NoCall]
  /\ published = <<>>
  /\ answers = <<>>
  /\ lost = {}
-----------------------------------------------------------------------------
(* The board.                                                               *)

BoardMoves(from, event, to) ==
  /\ Len(log) < MaxEvents
  /\ status = from
  /\ log' = Append(log, event)
  /\ status' = to

\* The worker blocks, crashes, gives up or completes; somebody else unblocks.
BoardChanges ==
  /\ \/ \E block \in Blocks : BoardMoves("running", block, "blocked")
     \/ BoardMoves("running", "completed", "done")
     \/ \E event \in {"crashed", "gave_up"} : BoardMoves("running", event, "running")
     \/ BoardMoves("blocked", "unblocked", "running")
  /\ UNCHANGED <<session, watcher, trackVars, pendingBlock, call, historyVars>>

SessionEnds ==
  /\ session
  /\ session' = FALSE
  /\ UNCHANGED <<boardVars, watcher, trackVars, pendingBlock, call, historyVars>>
-----------------------------------------------------------------------------
(* The watcher: _watch_task, poll_once, _handle_event and _flush_voice.     *)

\* register_handoff and register_task
RegisterTask ==
  /\ watcher = "new"
  /\ session
  /\ watcher' = "asleep"
  /\ UNCHANGED <<boardVars, session, trackVars, pendingBlock, call, historyVars>>

\* poll_once reads the events past the cursor.
ReadEvents ==
  /\ watcher = "asleep"
  /\ upto' = Len(log)
  /\ watcher' = "reading"
  /\ UNCHANGED <<boardVars, session, cursor, terminalSeen, pendingVoice, pendingBlock, call,
                 historyVars>>

\* The cursor moves before the event is handled.  An unblock is no TaskEventKind.
TakeEvent ==
  /\ watcher = "reading"
  /\ cursor < upto
  /\ cursor' = cursor + 1
  /\ watcher' = CASE log[cursor'] \in Blocks -> "checking"
                  [] log[cursor'] = "unblocked" -> "reading"
                  [] OTHER -> "notifying"
  /\ UNCHANGED <<boardVars, session, upto, terminalSeen, pendingVoice, pendingBlock, call,
                 historyVars>>

CheckBlock ==
  /\ watcher = "checking"
  /\ watcher' = IF IsCurrentBlock(cursor) THEN "notifying" ELSE "reading"
  /\ UNCHANGED <<boardVars, session, trackVars, pendingBlock, call, historyVars>>

\* The desktop notification is out: queue the event for the voice, and remember the
\* block that asks the user, at once or when resolve_permission gives the lock back.
HandleEvent ==
  /\ watcher = "notifying"
  /\ LET kind == log[cursor]
     IN  /\ pendingVoice' = IF kind \in Voiced THEN Append(pendingVoice, cursor)
                            ELSE pendingVoice
         /\ terminalSeen' = (terminalSeen \/ kind = "completed")
         /\ watcher' = IF kind = Asking /\ ~LockFree THEN "registering" ELSE "reading"
         /\ pendingBlock' = IF kind = Asking /\ LockFree THEN cursor ELSE pendingBlock
  /\ UNCHANGED <<boardVars, session, upto, cursor, call, historyVars>>

RegisterBlock ==
  /\ watcher = "registering"
  /\ LockFree
  /\ pendingBlock' = cursor
  /\ watcher' = "reading"
  /\ UNCHANGED <<boardVars, session, trackVars, call, historyVars>>

\* The handling raises; _watch_task logs it and polls again later.
PollFails ==
  /\ PollFaults
  /\ watcher \in {"checking", "notifying"}
  /\ watcher' = "asleep"
  /\ lost' = lost \cup {cursor}
  /\ UNCHANGED <<boardVars, session, trackVars, pendingBlock, call, published, answers>>

\* A slip: a message leaves the list even if the controller refused it.
FlushDropsRefused(n) ==
  /\ watcher = "reading"
  /\ cursor = upto
  /\ n \in 0 .. Len(pendingVoice)
  /\ published' = IF session THEN published \o SubSeq(pendingVoice, 1, n) ELSE published
  /\ pendingVoice' = <<>>
  /\ watcher' = IF terminalSeen THEN "ended" ELSE "asleep"
  /\ UNCHANGED <<boardVars, session, upto, cursor, terminalSeen, pendingBlock, call, answers,
                 lost>>

\* A slip: a refused message makes the next poll publish the whole list again.
FlushRepeats(n) ==
  /\ watcher = "reading"
  /\ cursor = upto
  /\ n \in 0 .. Len(pendingVoice)
  /\ published' = IF session THEN published \o SubSeq(pendingVoice, 1, n) ELSE published
  /\ pendingVoice' = IF session /\ n < Len(pendingVoice) THEN pendingVoice ELSE <<>>
  /\ watcher' = IF terminalSeen /\ pendingVoice' = <<>> THEN "ended" ELSE "asleep"
  /\ UNCHANGED <<boardVars, session, upto, cursor, terminalSeen, pendingBlock, call, answers,
                 lost>>

\* A slip: the messages of an ended session are kept.
FlushKeepsEnded(n) ==
  /\ watcher = "reading"
  /\ cursor = upto
  /\ n \in 0 .. Len(pendingVoice)
  /\ published' = IF session THEN published \o SubSeq(pendingVoice, 1, n) ELSE published
  /\ pendingVoice' = IF session THEN SubSeq(pendingVoice, n + 1, Len(pendingVoice))
                     ELSE pendingVoice
  /\ watcher' = IF terminalSeen /\ pendingVoice' = <<>> THEN "ended" ELSE "asleep"
  /\ UNCHANGED <<boardVars, session, upto, cursor, terminalSeen, pendingBlock, call, answers,
                 lost>>

\* _flush_voice at the end of a poll: the controller takes the first n messages and
\* refuses the next one; an ended session's messages are dropped.  A task that is
\* completed and told is not tracked any more.
FlushVoice(n) ==
  /\ watcher = "reading"
  /\ cursor = upto
  /\ n \in 0 .. Len(pendingVoice)
  /\ published' = IF session THEN published \o SubSeq(pendingVoice, 1, n) ELSE published
  /\ pendingVoice' = IF session THEN SubSeq(pendingVoice, n + 1, Len(pendingVoice)) ELSE <<>>
  /\ watcher' = IF terminalSeen /\ pendingVoice' = <<>> THEN "ended" ELSE "asleep"
  /\ UNCHANGED <<boardVars, session, upto, cursor, terminalSeen, pendingBlock, call, answers,
                 lost>>

\* shutdown: the watcher is cancelled wherever it is suspended.
Shutdown ==
  /\ watcher # "new"
  /\ watcher' = "ended"
  /\ pendingBlock' = 0
  /\ UNCHANGED <<boardVars, session, trackVars, call, historyVars>>
-----------------------------------------------------------------------------
(* resolve_permission.  A call that is refused at once changes nothing, and *)
(* one that waits for the lock is one that comes later.                     *)

\* A slip: the answer to another block discards the block that is pending.
StaleAnswerForgets(c, b) ==
  /\ LockFree
  /\ call[c] = NoCall
  /\ Tracked
  /\ session
  /\ IF pendingBlock = b
     THEN call' = [call EXCEPT ![c] = [at |-> "checking", block |-> b]] /\ UNCHANGED pendingBlock
     ELSE pendingBlock' = 0 /\ UNCHANGED call
  /\ UNCHANGED <<boardVars, session, watcher, trackVars, historyVars>>

ResolvePermission(c, b) ==
  /\ LockFree
  /\ call[c] = NoCall
  /\ Tracked
  /\ session
  /\ pendingBlock = b
  /\ call' = [call EXCEPT ![c] = [at |-> "checking", block |-> b]]
  /\ UNCHANGED <<boardVars, session, watcher, trackVars, pendingBlock, historyVars>>

\* The call raises, and forgets its block when the block is no longer current.
CallEnds(c, forgets) ==
  /\ call' = [call EXCEPT ![c] = NoCall]
  /\ pendingBlock' = IF forgets /\ pendingBlock = call[c].block THEN 0 ELSE pendingBlock

CheckStillBlocked(c) ==
  /\ call[c].at = "checking"
  /\ IF IsCurrentBlock(call[c].block) /\ session
     THEN call' = [call EXCEPT ![c].at = "unblocking"] /\ UNCHANGED pendingBlock
     ELSE CallEnds(c, ~IsCurrentBlock(call[c].block))
  /\ UNCHANGED <<boardVars, session, watcher, trackVars, historyVars>>

\* hermes kanban unblock knows the task and not the block.  It may fail, or be killed
\* by its timeout before or after it changed the board; only a success is reported.
Unblock(c, works, reported) ==
  /\ call[c].at = "unblocking"
  /\ works => status = "blocked" /\ Len(log) < MaxEvents
  /\ reported => works
  /\ IF works
     THEN /\ log' = Append(log, "unblocked")
          /\ status' = "running"
          /\ answers' = Append(answers, [given |-> call[c].block, to |-> LatestMove])
     ELSE UNCHANGED <<boardVars, answers>>
  /\ call' = [call EXCEPT ![c].at = IF reported THEN "resolved" ELSE "failed"]
  /\ UNCHANGED <<session, watcher, trackVars, pendingBlock, published, lost>>

\* The worker thread returned, or raised, after the dispatch.
CallReturns(c) ==
  /\ call[c].at \in {"resolved", "failed"}
  /\ CallEnds(c, call[c].at = "resolved")
  /\ UNCHANGED <<boardVars, session, watcher, trackVars, historyVars>>
-----------------------------------------------------------------------------
WatcherStep ==
  \/ ReadEvents
  \/ TakeEvent
  \/ CheckBlock
  \/ HandleEvent
  \/ RegisterBlock
  \/ \E n \in 0 .. MaxEvents : FlushVoice(n)

CallStep(c) ==
  \/ CheckStillBlocked(c)
  \/ \E works, reported \in BOOLEAN : Unblock(c, works, reported)
  \/ CallReturns(c)

Next ==
  \/ BoardChanges
  \/ SessionEnds
  \/ RegisterTask
  \/ WatcherStep
  \/ PollFails
  \/ Shutdown
  \/ \E c \in Callers :
       \/ \E b \in 1 .. Len(log) : ResolvePermission(c, b)
       \/ CallStep(c)

Spec == Init /\ [][Next]_vars

\* The event loop runs what is runnable, threads return (every wait has a timeout), and
\* a page that is served again and again drains its queue: the controller does not
\* refuse every flush for ever.
Fairness ==
  /\ WF_vars(WatcherStep)
  /\ SF_vars(FlushVoice(Len(pendingVoice)))
  /\ \A c \in Callers : WF_vars(CallStep(c))

FairSpec == Spec /\ Fairness
-----------------------------------------------------------------------------
CallSteps == {"idle", "checking", "unblocking", "resolved", "failed"}

\* Every variable keeps its type; the watcher is never ahead of the board.
TypeOK ==
  /\ log \in Seq(Voiced \cup {"crashed", "unblocked"})
  /\ status \in {"running", "blocked", "done"}
  /\ session \in BOOLEAN /\ terminalSeen \in BOOLEAN
  /\ watcher \in {"new", "asleep", "reading", "checking", "notifying", "registering", "ended"}
  /\ upto \in 0 .. Len(log) /\ cursor \in 0 .. upto
  /\ pendingVoice \in Seq(Nat) /\ published \in Seq(Nat) /\ pendingBlock \in Nat
  /\ call \in [Callers -> [at : CallSteps, block : Nat]]
  /\ answers \in Seq([given : Nat, to : Nat]) /\ lost \subseteq Nat

\* An approval or denial is good for one unblock: whatever concurrent, repeated or timed
\* out calls carry it, the same block event's answer resumes the task at most once.
AnswerUsedOnce ==
  \A i, j \in 1 .. Len(answers) : answers[i].given = answers[j].given => i = j

\* While the block the user was asked about stands and the session lives, the answer to
\* it is accepted: no stale answer, no failed attempt and no event handled meanwhile
\* makes the coordinator forget it.
AnswerableWhileAsked ==
  \A i \in 1 .. Len(published) :
    LET b == published[i]
    IN  log[b] = Asking /\ IsCurrentBlock(b) /\ session /\ Tracked => pendingBlock = b

\* The page gets every event at most once and in the board's order, however often the
\* controller refuses one or a poll fails half way.
PublishedInOrder ==
  \A i, j \in 1 .. Len(published) : i < j => published[i] < published[j]

Told(i) == \E k \in 1 .. Len(published) : published[k] = i

\* An event for the voice reaches the page of a session that stays, unless handling it
\* raised or its block was over before it could be told.
EventsReachVoice ==
  \A i \in 1 .. MaxEvents :
    (Tracked /\ i <= Len(log) /\ log[i] \in Voiced) ~>
      (Told(i) \/ ~session \/ watcher = "ended" \/ i \in lost
         \/ (i <= Len(log) /\ log[i] \in Blocks /\ ~IsCurrentBlock(i)))

\* No watcher outlives its task: once the completion is handled, the events that wait
\* are delivered, or dropped with the session, and the task is let go.
WatcherEnds == (Tracked /\ terminalSeen) ~> ~Tracked

\* "Blanket approval and stale block responses are rejected": a decision resumes the
\* block it was given for and no other.
StaleAnswerRejected ==
  \A i \in 1 .. Len(answers) : answers[i].given = answers[i].to

\* "Completion and human-input blocks are queued into the originating live voice
\* session": a completion is told to a session that stays.
CompletionReachesVoice ==
  \A i \in 1 .. MaxEvents :
    (Tracked /\ i <= Len(log) /\ log[i] = "completed") ~>
      (Told(i) \/ ~session \/ watcher = "ended")
=============================================================================
