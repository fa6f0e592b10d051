------------------------------- MODULE TaskTurns -------------------------------
(***************************************************************************)
(* Turn taking in the voice page: TaskTurnScheduler                        *)
(* (frontend/task-turn-scheduler.js) as handleRealtimeEvent of voice.js    *)
(* drives it, against the Realtime provider.                               *)
(*                                                                         *)
(* The page's handlers run one at a time, each up to its first await, and  *)
(* provider events reach it in the order they were sent, so the page acts  *)
(* on an old picture of the conversation.  The provider is external:       *)
(* server voice detection with create_response off and interrupt_response  *)
(* on, as config.py asks for it.                                           *)
(***************************************************************************)
EXTENDS Naturals, Sequences, FiniteSets

CONSTANTS
  TaskEvents,      \* task events the controller may deliver, by key
  MaxTurns,        \* how often the user speaks (bound)
  MaxTools,        \* responses whose function calls may be outstanding (bound)
  ProviderErrors,  \* whether the provider may refuse a response.create
  SendFailures     \* whether dc.send may throw on an open channel

ASSUME TurnsAssumption == MaxTurns \in Nat /\ MaxTools \in Nat
ASSUME FaultsAssumption == ProviderErrors \in BOOLEAN /\ SendFailures \in BOOLEAN

VARIABLES
  sched,      \* the scheduler's fields
  channel,    \* isReady: "new", "open" or "closed"
  tools,      \* response.done handlers awaiting their function calls
  wire,       \* provider events on their way to the page
  asked,      \* response.create messages on their way to the provider
  speaking,   \* the provider hears the user
  response,   \* the provider's response: "none", "active" or "interrupted"
  ending,     \* which event of the turn that ended last is still to be sent, or "none"
  turns,      \* turns the user has begun
  uncommitted,  \* turns the page heard begin and did not hear committed
  crossed,    \* the last commit it heard was of a turn before the last one
  received,   \* task events received
  spoken,     \* task events whose announcement was completed
  faulted,    \* the provider refused a response.create or dc.send threw
  owed        \* task events that waited when the page saw a turn committed

providerVars == <<speaking, response, ending, turns>>
turnVars == <<uncommitted, crossed>>
historyVars == <<turnVars, received, spoken>>
vars == <<sched, channel, tools, wire, asked, providerVars, historyVars, owed, faulted>>
-----------------------------------------------------------------------------
\* TaskTurnScheduler.reset
Fresh ==
  [userSpeaking |-> FALSE, awaitingCommit |-> FALSE, audioCommitted |-> FALSE,
   responding |-> FALSE, createPending |-> FALSE, requested |-> FALSE,
   pending |-> {}, inFlight |-> {}]

\* A provider event; status and calls are those of response.done.
Event(kind, status, calls) == [kind |-> kind, status |-> status, calls |-> calls]
Plain(kind) == Event(kind, "none", FALSE)

Init ==
  /\ sched = Fresh
  /\ channel = "new"
  /\ tools = 0
  /\ wire = <<>>
  /\ asked = 0
  /\ speaking = FALSE
  /\ response = "none"
  /\ ending = "none"
  /\ turns = 0
  /\ uncommitted = 0 /\ crossed = FALSE
  /\ received = {}
  /\ spoken = {}
  /\ owed = {}
  /\ faulted = FALSE
-----------------------------------------------------------------------------
\* A slip: a turn whose commit is still missing does not hold the response back.
MayCreateUncommitted(c) ==
  c.requested /\ ~c.userSpeaking /\ ~c.responding /\ ~c.createPending

\* A slip: a response that was asked for is forgotten until response.created.
MayCreateTwice(c) ==
  c.requested /\ ~c.userSpeaking /\ ~c.awaitingCommit /\ ~c.responding

\* The guard of maybeCreateResponse, isReady aside.
MayCreate(c) ==
  /\ c.requested
  /\ ~c.userSpeaking
  /\ ~c.awaitingCommit
  /\ ~c.responding
  /\ ~c.createPending

\* What a handler leaves: its own updates c, then maybeCreateResponse.  The events
\* that wait go out with the request, or wait on when sendEvent throws.
Settle(c, ready, o) ==
  IF ready /\ MayCreate(c)
  THEN \/ /\ sched' = [c EXCEPT !.inFlight = c.pending, !.pending = {},
                                !.requested = FALSE, !.createPending = TRUE]
          /\ asked' = asked + 1
          /\ owed' = o \ c.pending
          /\ UNCHANGED faulted
       \/ /\ SendFailures
          /\ sched' = [c EXCEPT !.inFlight = {}]
          /\ owed' = o
          /\ faulted' = TRUE
          /\ UNCHANGED asked
  ELSE sched' = c /\ owed' = o /\ UNCHANGED <<asked, faulted>>

Ready == channel = "open"

\* The data channel opens: onChannelReady.  The provider may confirm the session, or
\* may never do so.
ChannelOpens ==
  /\ channel = "new"
  /\ channel' = "open"
  /\ wire' \in {<<>>, <<Plain("session_updated")>>}
  /\ Settle(sched, TRUE, owed)
  /\ UNCHANGED <<tools, providerVars, historyVars>>

\* stopConversation closes the channel and resets the scheduler; messages of the
\* closed channel are ignored, waiting announcements are dropped.
StopConversation ==
  /\ channel # "closed"
  /\ channel' = "closed"
  /\ sched' = Fresh
  /\ wire' = <<>>
  /\ asked' = 0
  /\ uncommitted' = 0 /\ crossed' = FALSE
  /\ received' = {}
  /\ spoken' = {}
  /\ owed' = {}
  /\ UNCHANGED <<tools, providerVars, faulted>>

\* A task_event frame on the control socket: onTaskEvent.
OnTaskEvent(e) ==
  /\ channel # "closed"
  /\ e \notin received
  /\ received' = received \cup {e}
  /\ Settle([sched EXCEPT !.pending = @ \cup {e}, !.requested = TRUE], Ready, owed)
  /\ UNCHANGED <<channel, tools, wire, providerVars, turnVars, spoken>>
-----------------------------------------------------------------------------
(* handleRealtimeEvent, one action per event the scheduler is told of.      *)

Receives(kind) ==
  /\ channel = "open"
  /\ wire # <<>>
  /\ Head(wire).kind = kind
  /\ wire' = Tail(wire)

\* session.updated: onChannelReady again.
OnSessionUpdated ==
  /\ Receives("session_updated")
  /\ Settle(sched, TRUE, owed)
  /\ UNCHANGED <<channel, tools, providerVars, historyVars>>

OnSpeechStarted ==
  /\ Receives("speech_started")
  /\ sched' = [sched EXCEPT !.userSpeaking = TRUE, !.awaitingCommit = FALSE,
                            !.audioCommitted = FALSE]
  /\ uncommitted' = uncommitted + 1 /\ crossed' = FALSE
  /\ UNCHANGED <<channel, tools, asked, providerVars, received, spoken, owed, faulted>>

\* A slip: every turn's commit is awaited, even one that came before speech_stopped.
OnSpeechStoppedAwaits ==
  /\ Receives("speech_stopped")
  /\ Settle([sched EXCEPT !.userSpeaking = FALSE, !.awaitingCommit = TRUE], TRUE, owed)
  /\ UNCHANGED <<channel, tools, providerVars, historyVars>>

OnSpeechStopped ==
  /\ Receives("speech_stopped")
  /\ Settle([sched EXCEPT !.userSpeaking = FALSE,
                          !.awaitingCommit = ~sched.audioCommitted], TRUE, owed)
  /\ UNCHANGED <<channel, tools, providerVars, historyVars>>

OnAudioCommitted ==
  /\ Receives("committed")
  /\ Settle([sched EXCEPT !.audioCommitted = TRUE, !.awaitingCommit = FALSE,
                          !.requested = TRUE], TRUE, owed \cup sched.pending)
  /\ uncommitted' = IF uncommitted > 0 THEN uncommitted - 1 ELSE 0
  /\ crossed' = (uncommitted' > 0)
  /\ UNCHANGED <<channel, tools, providerVars, received, spoken>>

OnResponseCreated ==
  /\ Receives("response_created")
  /\ sched' = [sched EXCEPT !.createPending = FALSE, !.responding = TRUE]
  /\ UNCHANGED <<channel, tools, asked, providerVars, historyVars, owed, faulted>>

\* A slip: an announcement that was cut off counts as made.
DoneForgets(c, status, calls) ==
  [c EXCEPT !.createPending = FALSE, !.responding = FALSE, !.inFlight = {},
            !.requested = IF status # "completed" THEN FALSE ELSE @]

\* The updates of onResponseDone: an announcement that was not completed, or that a
\* function call interrupted, waits again; only a completed response keeps the wish
\* for another one alive.
DoneUpdates(c, status, calls) ==
  LET again == calls \/ status # "completed"
  IN  [c EXCEPT !.createPending = FALSE, !.responding = FALSE, !.inFlight = {},
                !.pending = IF again THEN @ \cup c.inFlight ELSE @,
                !.requested = CASE calls /\ c.inFlight # {} -> TRUE
                                [] status # "completed" -> FALSE
                                [] OTHER -> @]

\* response.done; with function calls the handler goes on when they are answered.
OnResponseDone ==
  /\ Receives("response_done")
  /\ LET m == Head(wire)
         c == DoneUpdates(sched, m.status, m.calls)
     IN  /\ spoken' = IF m.calls \/ m.status # "completed"
                      THEN spoken ELSE spoken \cup sched.inFlight
         /\ tools' = IF m.calls THEN tools + 1 ELSE tools
         /\ IF m.calls THEN sched' = c /\ UNCHANGED <<asked, owed, faulted>>
            ELSE Settle(c, TRUE, owed)
  /\ UNCHANGED <<channel, providerVars, turnVars, received>>

\* error: shown to the user and recorded; the scheduler is not told.
OnError ==
  /\ Receives("error")
  /\ UNCHANGED <<sched, channel, tools, asked, providerVars, historyVars, owed, faulted>>

\* All function calls of one response.done are answered: requestResponse.
ToolsAnswered ==
  /\ tools > 0
  /\ tools' = tools - 1
  /\ Settle([sched EXCEPT !.requested = TRUE], Ready, owed)
  /\ UNCHANGED <<channel, wire, providerVars, historyVars>>
-----------------------------------------------------------------------------
(* The provider.                                                            *)

Sends(events) == wire' = wire \o events

\* The user's voice interrupts an active response, whose response.done follows.  A turn
\* may begin before the commit of the one before it is sent, but not before its end is.
UserSpeaks ==
  /\ channel = "open"
  /\ ~speaking /\ ending # "speech_stopped"
  /\ turns < MaxTurns
  /\ turns' = turns + 1
  /\ speaking' = TRUE
  /\ response' = IF response = "active" THEN "interrupted" ELSE response
  /\ Sends(<<Plain("speech_started")>>)
  /\ UNCHANGED <<sched, channel, tools, asked, ending, historyVars, owed, faulted>>

\* The order of the two events at the end of a turn is not fixed; this is the first.
UserStops ==
  /\ channel = "open"
  /\ speaking /\ ending = "none"
  /\ speaking' = FALSE
  /\ \/ Sends(<<Plain("speech_stopped")>>) /\ ending' = "committed"
     \/ Sends(<<Plain("committed")>>) /\ ending' = "speech_stopped"
  /\ UNCHANGED <<sched, channel, tools, asked, response, turns, historyVars, owed, faulted>>

\* The second event of a turn's end, with whatever came between.
TurnEnds ==
  /\ channel = "open"
  /\ ending # "none"
  /\ Sends(<<Plain(ending)>>)
  /\ ending' = "none"
  /\ UNCHANGED <<sched, channel, tools, asked, speaking, response, turns, historyVars, owed,
                 faulted>>

\* A response.create arrives; one that finds a response in progress is an error.
TakesRequest ==
  /\ channel = "open"
  /\ asked > 0
  /\ asked' = asked - 1
  /\ \/ /\ response = "none"
        /\ response' = "active"
        /\ Sends(<<Plain("response_created")>>)
        /\ UNCHANGED faulted
     \/ /\ response # "none" \/ ProviderErrors
        /\ UNCHANGED response
        /\ Sends(<<Plain("error")>>)
        /\ faulted' = TRUE
  /\ UNCHANGED <<sched, channel, tools, speaking, ending, turns, historyVars, owed>>

EndsResponse ==
  /\ channel = "open"
  /\ response # "none"
  /\ response' = "none"
  /\ \/ /\ response = "active"
        /\ \/ Sends(<<Event("response_done", "completed", FALSE)>>)
           \/ Sends(<<Event("response_done", "failed", FALSE)>>)
           \/ tools < MaxTools /\ Sends(<<Event("response_done", "completed", TRUE)>>)
     \/ response = "interrupted" /\ Sends(<<Event("response_done", "cancelled", FALSE)>>)
  /\ UNCHANGED <<sched, channel, tools, asked, speaking, ending, turns, historyVars, owed, faulted>>
-----------------------------------------------------------------------------
PageStep ==
  \/ OnSessionUpdated
  \/ OnSpeechStarted
  \/ OnSpeechStopped
  \/ OnAudioCommitted
  \/ OnResponseCreated
  \/ OnResponseDone
  \/ OnError

Next ==
  \/ ChannelOpens
  \/ StopConversation
  \/ \E e \in TaskEvents : OnTaskEvent(e)
  \/ PageStep
  \/ ToolsAnswered
  \/ UserSpeaks
  \/ UserStops
  \/ TurnEnds
  \/ TakesRequest
  \/ EndsResponse

Spec == Init /\ [][Next]_vars

\* Messages are delivered, /execute answers, a turn and a response come to an end.
\* The user need not speak, and the channel need not open or close.
Fairness ==
  /\ WF_vars(PageStep)
  /\ WF_vars(ToolsAnswered)
  /\ WF_vars(UserStops)
  /\ WF_vars(TurnEnds)
  /\ WF_vars(TakesRequest)
  /\ WF_vars(EndsResponse)

FairSpec == Spec /\ Fairness
-----------------------------------------------------------------------------
Scheds ==
  [userSpeaking : BOOLEAN, awaitingCommit : BOOLEAN, audioCommitted : BOOLEAN,
   responding : BOOLEAN, createPending : BOOLEAN, requested : BOOLEAN,
   pending : SUBSET TaskEvents, inFlight : SUBSET TaskEvents]
Kinds ==
  {"session_updated", "speech_started", "speech_stopped", "committed", "response_created",
   "response_done", "error"}

\* Every variable keeps its type.
TypeOK ==
  /\ sched \in Scheds
  /\ channel \in {"new", "open", "closed"} /\ tools \in Nat
  /\ wire \in Seq([kind : Kinds, status : {"none", "completed", "failed", "cancelled"},
                    calls : BOOLEAN])
  /\ asked \in Nat
  /\ speaking \in BOOLEAN /\ response \in {"none", "active", "interrupted"} /\ turns \in Nat
  /\ ending \in {"none", "speech_stopped", "committed"}
  /\ uncommitted \in Nat /\ crossed \in BOOLEAN /\ faulted \in BOOLEAN
  /\ received \subseteq TaskEvents /\ spoken \subseteq TaskEvents /\ owed \subseteq TaskEvents

\* At most one response.create is under way or answered at a time, although the page
\* hears of a response only after the provider began or ended it.
OneResponseAtATime == asked + (IF response = "none" THEN 0 ELSE 1) <= 1

\* No announcement is lost or made twice: every received task event waits, is part of
\* the response under way or was spoken, and it is in one of these places only.
EventsAccounted ==
  /\ received = sched.pending \cup sched.inFlight \cup spoken
  /\ sched.pending \cap sched.inFlight = {}
  /\ (sched.pending \cup sched.inFlight) \cap spoken = {}

\* "User or assistant speech is never interrupted": the page asks for no response while
\* a turn it heard begin is not committed, in whichever order the provider reports the end
\* and the commit of a turn.  (A commit that arrives after the next turn has begun counts
\* as that turn's: its end is then answered before its own commit.)
NeverBeforeCommit == [][asked' > asked => uncommitted' = 0 \/ crossed']_vars

\* A wanted response is asked for, or given up by a response that did not complete:
\* unless the provider refused a request or a send failed, the scheduler's flags never
\* block each other for good.
RequestServed ==
  (sched.requested /\ channel = "open") ~>
    (~sched.requested \/ channel = "closed" \/ faulted)

\* "Spoken on the next safe model turn": a task event that waits when the user's turn
\* is committed is part of a response asked for after that turn.
SpokenOnNextTurn ==
  \A e \in TaskEvents : (e \in owed) ~> (e \notin owed)
=============================================================================
