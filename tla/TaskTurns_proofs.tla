----------------------------- MODULE TaskTurns_proofs -----------------------------
(***************************************************************************)
(* Turn taking keeps one response at a time, accounts for every task event *)
(* and never cuts into a turn: for any task events, any number of turns    *)
(* and tool calls, and arbitrarily late provider events.                   *)
(***************************************************************************)
EXTENDS TaskTurns, SequenceTheorems, TLAPS

Messages == [kind : Kinds, status : {"none", "completed", "failed", "cancelled"}, calls : BOOLEAN]

\* The scheduler believes in a response, asked for or begun.
Busy(c) == c.createPending \/ c.responding

Marks(m) == m.kind \in {"response_created", "response_done"}

\* On the wire a response begins before it ends, and there is one at most.
OneOnWire ==
  \A i, j \in 1 .. Len(wire) :
    i < j /\ Marks(wire[i]) /\ Marks(wire[j]) =>
      wire[i].kind = "response_created" /\ wire[j].kind = "response_done"

\* The scheduler is busy for as long as a request, a response or news of one exists, and
\* a response that the provider has not ended has no end on the wire.
BusyWithIt ==
  /\ asked > 0 => Busy(sched) /\ \A i \in 1 .. Len(wire) : ~Marks(wire[i])
  /\ response # "none" => Busy(sched) /\ \A i \in 1 .. Len(wire) : wire[i].kind # "response_done"
  /\ \A i \in 1 .. Len(wire) : Marks(wire[i]) => Busy(sched)

\* An idle scheduler has announced everything it took.
IdleHasNothing == sched.inFlight # {} => Busy(sched)

\* A turn whose commit is missing, and the page has not taken another's for it.
Open == uncommitted > 0 /\ ~crossed

USE DEF turnVars, Open

\* The scheduler knows of the turn the page heard begin.
TurnKnown ==
  Open => ~sched.audioCommitted /\ (sched.userSpeaking \/ sched.awaitingCommit)

\* A channel that is not open carries nothing.
Quiet ==
  /\ channel # "open" => wire = <<>> /\ asked = 0
  /\ channel = "new" => response = "none" /\ ~Busy(sched)

IInv ==
  /\ TypeOK /\ OneResponseAtATime /\ EventsAccounted
  /\ channel = "open" => OneOnWire /\ BusyWithIt
  /\ Quiet /\ IdleHasNothing /\ TurnKnown
-----------------------------------------------------------------------------
\* What Settle leaves of the scheduler c: the events it takes stay accounted for, only
\* pending and inFlight, the wish and createPending change, and it asks only when it may.
LEMMA SettleFacts ==
  ASSUME NEW c \in Scheds, NEW ready, NEW o \in SUBSET TaskEvents, TypeOK,
         c.inFlight # {} => Busy(c), Settle(c, ready, o)
  PROVE  /\ sched' \in Scheds /\ owed' \in SUBSET TaskEvents /\ faulted' \in BOOLEAN
         /\ sched'.userSpeaking = c.userSpeaking /\ sched'.awaitingCommit = c.awaitingCommit
         /\ sched'.audioCommitted = c.audioCommitted /\ sched'.responding = c.responding
         /\ sched'.pending \cup sched'.inFlight = c.pending \cup c.inFlight
         /\ sched'.pending \cap sched'.inFlight \subseteq c.pending \cap c.inFlight
         /\ sched'.inFlight # {} => Busy(sched')
         /\ \/ asked' = asked /\ sched'.createPending = c.createPending
            \/ /\ asked' = asked + 1 /\ sched'.createPending /\ ready
               /\ ~c.userSpeaking /\ ~c.awaitingCommit /\ ~Busy(c)
<1>1. CASE ready /\ MayCreate(c) /\ asked' = asked + 1
  <2>1. sched' = [c EXCEPT !.inFlight = c.pending, !.pending = {},
                           !.requested = FALSE, !.createPending = TRUE]
        /\ owed' = o \ c.pending /\ faulted' = faulted
    BY <1>1 DEF Settle, TypeOK
  <2>2. c.inFlight = {}
    BY <1>1 DEF MayCreate, Busy
  <2> QED BY <1>1, <2>1, <2>2 DEF Scheds, Busy, MayCreate, TypeOK
<1>2. CASE ready /\ MayCreate(c) /\ asked' # asked + 1
  <2>1. sched' = [c EXCEPT !.inFlight = {}] /\ owed' = o /\ faulted' = TRUE /\ asked' = asked
    BY <1>2 DEF Settle
  <2>2. c.inFlight = {}
    BY <1>2 DEF MayCreate, Busy
  <2> QED BY <1>2, <2>1, <2>2 DEF Scheds, Busy, MayCreate
<1>3. CASE ~(ready /\ MayCreate(c))
  BY <1>3 DEF Settle, Busy, TypeOK
<1> QED BY <1>1, <1>2, <1>3
-----------------------------------------------------------------------------
\* Taking the first message of the wire.
LEMMA TailFacts ==
  ASSUME NEW w \in Seq(Messages), w # <<>>
  PROVE  /\ Tail(w) \in Seq(Messages) /\ Head(w) = w[1] /\ Head(w) \in Messages
         /\ Len(w) \in Nat /\ Len(w) > 0 /\ Len(Tail(w)) = Len(w) - 1
         /\ \A i \in 1 .. Len(Tail(w)) : i + 1 \in 1 .. Len(w) /\ Tail(w)[i] = w[i + 1]
BY HeadTailProperties

\* What a handler that takes the first message leaves on the wire.
LEMMA TakenFacts ==
  ASSUME IInv, NEW kind \in Kinds, Receives(kind)
  PROVE  /\ channel = "open" /\ wire' \in Seq(Messages) /\ OneOnWire'
         /\ Head(wire) \in Messages /\ Head(wire).kind = kind
         /\ \A i \in 1 .. Len(wire') : wire'[i].kind = "response_done" =>
              (response = "none" /\ asked = 0)
         /\ \A i \in 1 .. Len(wire') : Marks(wire'[i]) => Busy(sched) /\ asked = 0
         /\ kind = "response_done" =>
              /\ \A i \in 1 .. Len(wire') : ~Marks(wire'[i])
              /\ response = "none" /\ asked = 0
<1> USE DEF IInv, TypeOK, Receives, Messages
<1>1. wire \in Seq(Messages) /\ wire # <<>> /\ wire' = Tail(wire) /\ wire[1].kind = kind
      /\ channel = "open"
  BY HeadTailProperties
<1>2. /\ wire' \in Seq(Messages) /\ Len(wire) \in Nat /\ Len(wire) > 0
      /\ Len(wire') = Len(wire) - 1
      /\ \A i \in 1 .. Len(wire') : i + 1 \in 1 .. Len(wire) /\ wire'[i] = wire[i + 1]
      /\ Head(wire) = wire[1] /\ Head(wire) \in Messages
  BY <1>1, TailFacts DEF Messages
<1>3. OneOnWire /\ BusyWithIt
  BY <1>1
<1>4. OneOnWire'
  BY <1>2, <1>3 DEF OneOnWire
<1>5. \A i \in 1 .. Len(wire') : wire'[i].kind = "response_done" => response = "none" /\ asked = 0
  BY <1>2, <1>3 DEF BusyWithIt, Marks
<1>6. \A i \in 1 .. Len(wire') : Marks(wire'[i]) => Busy(sched) /\ asked = 0
  BY <1>2, <1>3 DEF BusyWithIt
<1>7. ASSUME kind = "response_done"
      PROVE  (\A i \in 1 .. Len(wire') : ~Marks(wire'[i])) /\ response = "none" /\ asked = 0
  <2>1. 1 \in 1 .. Len(wire) /\ Marks(wire[1]) /\ wire[1].kind = "response_done"
    BY <1>1, <1>2, <1>7 DEF Marks
  <2>2. ASSUME NEW i \in 1 .. Len(wire'), Marks(wire'[i]) PROVE FALSE
    BY <1>2, <1>3, <2>1, <2>2 DEF OneOnWire
  <2> QED BY <1>3, <2>1, <2>2 DEF BusyWithIt
<1> QED BY <1>1, <1>2, <1>4, <1>5, <1>6, <1>7

\* A handler that updates the scheduler to c and settles, on an open channel.
LEMMA SettledHolds ==
  ASSUME IInv, NEW c \in Scheds, NEW o \in SUBSET TaskEvents, Settle(c, TRUE, o),
         channel = "open", UNCHANGED <<channel, providerVars>>,
         wire' \in Seq(Messages), OneOnWire',
         c.inFlight # {} => Busy(c),
         asked > 0 \/ response # "none" => Busy(c),
         \A i \in 1 .. Len(wire') : Marks(wire'[i]) => Busy(c) /\ asked = 0,
         \A i \in 1 .. Len(wire') : wire'[i].kind = "response_done" => response = "none",
         tools' \in Nat, uncommitted' \in Nat, crossed' \in BOOLEAN,
         received' \subseteq TaskEvents, spoken' \subseteq TaskEvents,
         received' = c.pending \cup c.inFlight \cup spoken',
         c.pending \cap c.inFlight = {}, (c.pending \cup c.inFlight) \cap spoken' = {},
         Open' => ~c.audioCommitted /\ (c.userSpeaking \/ c.awaitingCommit)
  PROVE  IInv'
<1> DEFINE Facts ==
         /\ sched' \in Scheds /\ owed' \in SUBSET TaskEvents /\ faulted' \in BOOLEAN
         /\ sched'.userSpeaking = c.userSpeaking /\ sched'.awaitingCommit = c.awaitingCommit
         /\ sched'.audioCommitted = c.audioCommitted /\ sched'.responding = c.responding
         /\ sched'.pending \cup sched'.inFlight = c.pending \cup c.inFlight
         /\ sched'.pending \cap sched'.inFlight \subseteq c.pending \cap c.inFlight
         /\ sched'.inFlight # {} => Busy(sched')
         /\ \/ asked' = asked /\ sched'.createPending = c.createPending
            \/ /\ asked' = asked + 1 /\ sched'.createPending
               /\ ~c.userSpeaking /\ ~c.awaitingCommit /\ ~Busy(c)
<1>1. Facts
  BY SettleFacts DEF IInv
<1>2. Busy(c) => Busy(sched')
  BY <1>1 DEF Busy
<1>3. TypeOK'
  BY <1>1 DEF IInv, TypeOK, providerVars, Messages
<1>4. OneResponseAtATime' /\ BusyWithIt'
  <2>1. CASE asked' = asked /\ sched'.createPending = c.createPending
    BY <1>2, <2>1 DEF IInv, OneResponseAtATime, BusyWithIt, providerVars
  <2>2. CASE asked' = asked + 1 /\ sched'.createPending /\ ~Busy(c)
    <3>1. asked = 0 /\ response = "none" /\ \A i \in 1 .. Len(wire') : ~Marks(wire'[i])
      BY <2>2 DEF IInv, TypeOK
    <3>2. Busy(sched')
      BY <2>2 DEF Busy
    <3> QED BY <2>2, <3>1, <3>2 DEF OneResponseAtATime, BusyWithIt, providerVars
  <2> QED BY <1>1, <2>1, <2>2
<1>5. EventsAccounted'
  BY <1>1 DEF EventsAccounted
<1>6. Quiet' /\ IdleHasNothing' /\ TurnKnown'
  BY <1>1 DEF Quiet, IdleHasNothing, TurnKnown
<1> QED BY <1>3, <1>4, <1>5, <1>6 DEF IInv
-----------------------------------------------------------------------------
(* The page.                                                                *)

\* onChannelReady, of a channel on which nothing was said yet.
LEMMA ChannelOpensKeeps == ASSUME IInv, ChannelOpens PROVE IInv'
<1> USE DEF ChannelOpens
<1>1. /\ channel = "new" /\ channel' = "open" /\ Settle(sched, TRUE, owed)
      /\ wire' \in {<<>>, <<Plain("session_updated")>>}
      /\ UNCHANGED <<tools, speaking, response, ending, turns, turnVars, received, spoken>>
  BY DEF providerVars, historyVars
<1>2. sched \in Scheds /\ owed \in SUBSET TaskEvents /\ TypeOK /\ asked = 0 /\ response = "none"
      /\ ~Busy(sched) /\ (sched.inFlight # {} => Busy(sched))
  BY <1>1 DEF IInv, TypeOK, Quiet, IdleHasNothing
<1>3. wire' \in Seq(Messages) /\ \A i \in 1 .. Len(wire') : ~Marks(wire'[i])
  <2>1. Plain("session_updated") \in Messages /\ ~Marks(Plain("session_updated"))
    BY DEF Plain, Event, Messages, Kinds, Marks
  <2>2. CASE wire' = <<>>
    BY <2>2
  <2>3. CASE wire' = <<Plain("session_updated")>>
    BY <2>1, <2>3
  <2> QED BY <1>1, <2>2, <2>3
<1> DEFINE Facts ==
         /\ sched' \in Scheds /\ owed' \in SUBSET TaskEvents /\ faulted' \in BOOLEAN
         /\ sched'.userSpeaking = sched.userSpeaking /\ sched'.awaitingCommit = sched.awaitingCommit
         /\ sched'.audioCommitted = sched.audioCommitted /\ sched'.responding = sched.responding
         /\ sched'.pending \cup sched'.inFlight = sched.pending \cup sched.inFlight
         /\ sched'.pending \cap sched'.inFlight \subseteq sched.pending \cap sched.inFlight
         /\ sched'.inFlight # {} => Busy(sched')
         /\ \/ asked' = asked /\ sched'.createPending = sched.createPending
            \/ asked' = asked + 1 /\ sched'.createPending
<1>4. Facts
  BY <1>1, <1>2, SettleFacts
<1>5. TypeOK'
  BY <1>1, <1>2, <1>3, <1>4 DEF TypeOK, Messages
<1>6. OneResponseAtATime' /\ OneOnWire' /\ BusyWithIt'
  BY <1>1, <1>2, <1>3, <1>4 DEF OneResponseAtATime, OneOnWire, BusyWithIt, Busy
<1>7. EventsAccounted'
  BY <1>1, <1>4 DEF IInv, EventsAccounted
<1>8. Quiet' /\ IdleHasNothing' /\ TurnKnown'
  BY <1>1, <1>4 DEF IInv, Quiet, IdleHasNothing, TurnKnown
<1> QED BY <1>5, <1>6, <1>7, <1>8 DEF IInv

\* reset: nothing is left on a closed channel.
LEMMA StopConversationKeeps == ASSUME IInv, StopConversation PROVE IInv'
<1>1. Fresh \in Scheds /\ Fresh.inFlight = {} /\ Fresh.pending = {}
  BY DEF Fresh, Scheds
<1>2. wire' = <<>> /\ wire' \in Seq(Messages)
  BY DEF StopConversation
<1>3. TypeOK'
  BY <1>1, <1>2 DEF IInv, StopConversation, TypeOK, Messages, providerVars
<1>4. OneResponseAtATime'
  BY DEF IInv, StopConversation, TypeOK, OneResponseAtATime, providerVars
<1>5. EventsAccounted' /\ IdleHasNothing'
  BY <1>1 DEF StopConversation, EventsAccounted, IdleHasNothing
<1>6. Quiet' /\ TurnKnown' /\ channel' = "closed"
  BY DEF StopConversation, Quiet, TurnKnown
<1> QED BY <1>3, <1>4, <1>5, <1>6 DEF IInv

\* A handler that runs on a channel that is not open settles without asking.
LEMMA UnsettledHolds ==
  ASSUME IInv, NEW c \in Scheds, sched' = c, channel # "open",
         Busy(c) <=> Busy(sched), c.inFlight # {} => Busy(c),
         UNCHANGED <<channel, wire, asked, providerVars, turnVars, spoken, owed, faulted>>,
         tools' \in Nat, received' \subseteq TaskEvents,
         received' = c.pending \cup c.inFlight \cup spoken,
         c.pending \cap c.inFlight = {}, (c.pending \cup c.inFlight) \cap spoken = {},
         Open => ~c.audioCommitted /\ (c.userSpeaking \/ c.awaitingCommit)
  PROVE  IInv'
BY DEF IInv, TypeOK, OneResponseAtATime, EventsAccounted, Quiet, IdleHasNothing, TurnKnown,
  providerVars, Busy

\* The scheduler c is the one that wishes for a response, with the events e as well.
Wishes(c, e) == c = [sched EXCEPT !.pending = @ \cup e, !.requested = TRUE]

\* Asking for a response in a scheduler that keeps its belief.
LEMMA AskedHolds ==
  ASSUME IInv, NEW e \in SUBSET TaskEvents, NEW c,
         Wishes(c, e),
         Settle(c, Ready, owed), e \cap received = {}, received' = received \cup e,
         tools' \in Nat, UNCHANGED <<channel, wire, providerVars, turnVars, spoken>>
  PROVE  IInv'
<1>1. /\ c \in Scheds /\ (Busy(c) <=> Busy(sched))
      /\ c.inFlight = sched.inFlight /\ c.pending = sched.pending \cup e
      /\ c.audioCommitted = sched.audioCommitted
      /\ c.userSpeaking = sched.userSpeaking /\ c.awaitingCommit = sched.awaitingCommit
  BY DEF Wishes, IInv, TypeOK, Scheds, Busy
<1>2. /\ c.inFlight # {} => Busy(c)
      /\ received' = c.pending \cup c.inFlight \cup spoken'
      /\ c.pending \cap c.inFlight = {} /\ (c.pending \cup c.inFlight) \cap spoken' = {}
      /\ Open' => ~c.audioCommitted /\ (c.userSpeaking \/ c.awaitingCommit)
      /\ received' \subseteq TaskEvents /\ spoken' \subseteq TaskEvents /\ uncommitted' \in Nat /\ crossed' \in BOOLEAN
      /\ owed \in SUBSET TaskEvents
  BY <1>1 DEF IInv, TypeOK, IdleHasNothing, EventsAccounted, TurnKnown
<1>3. CASE channel = "open"
  <2>1. /\ wire' \in Seq(Messages) /\ OneOnWire'
        /\ asked > 0 \/ response # "none" => Busy(c)
        /\ \A i \in 1 .. Len(wire') : Marks(wire'[i]) => Busy(c) /\ asked = 0
        /\ \A i \in 1 .. Len(wire') : wire'[i].kind = "response_done" => response = "none"
    BY <1>1, <1>3 DEF IInv, TypeOK, Messages, OneOnWire, BusyWithIt
  <2>2. Settle(c, TRUE, owed)
    BY <1>3 DEF Ready
  <2>3. UNCHANGED <<channel, providerVars>>
    OBVIOUS
  <2> QED BY <1>1, <1>2, <1>3, <2>1, <2>2, <2>3, SettledHolds
<1>4. CASE channel # "open"
  <2>1. sched' = c /\ UNCHANGED <<channel, wire, asked, providerVars, turnVars, spoken, owed, faulted>>
    BY <1>4 DEF Ready, Settle
  <2>2. /\ received' = c.pending \cup c.inFlight \cup spoken
        /\ (c.pending \cup c.inFlight) \cap spoken = {}
        /\ Open => ~c.audioCommitted /\ (c.userSpeaking \/ c.awaitingCommit)
    BY <1>2
  <2> QED BY <1>1, <1>2, <1>4, <2>1, <2>2, UnsettledHolds
<1> QED BY <1>3, <1>4

LEMMA OnTaskEventKeeps == ASSUME IInv, NEW e \in TaskEvents, OnTaskEvent(e) PROVE IInv'
<1> DEFINE c == [sched EXCEPT !.pending = @ \cup {e}, !.requested = TRUE]
<1>1. /\ {e} \in SUBSET TaskEvents /\ Settle(c, Ready, owed)
      /\ {e} \cap received = {} /\ received' = received \cup {e}
      /\ tools' \in Nat /\ UNCHANGED <<channel, wire, providerVars, turnVars, spoken>>
  BY DEF OnTaskEvent, IInv, TypeOK
<1>2. Wishes(c, {e})
  BY DEF Wishes
<1> HIDE DEF c
<1> QED BY <1>1, <1>2, AskedHolds

LEMMA ToolsAnsweredKeeps == ASSUME IInv, ToolsAnswered PROVE IInv'
<1> DEFINE c == [sched EXCEPT !.pending = @ \cup {}, !.requested = TRUE]
<1>1. c = [sched EXCEPT !.requested = TRUE]
  BY DEF IInv, TypeOK, Scheds
<1>2. /\ {} \in SUBSET TaskEvents /\ Settle(c, Ready, owed)
      /\ {} \cap received = {} /\ received' = received \cup {}
      /\ tools' \in Nat /\ UNCHANGED <<channel, wire, providerVars, turnVars, spoken>>
  BY <1>1 DEF ToolsAnswered, IInv, TypeOK, historyVars
<1>3. Wishes(c, {})
  BY DEF Wishes
<1> HIDE DEF c
<1> QED BY <1>2, <1>3, AskedHolds
-----------------------------------------------------------------------------
(* handleRealtimeEvent.                                                     *)

\* A handler that only takes the message, or changes flags no response depends on.
LEMMA TakenHolds ==
  ASSUME IInv, NEW kind \in Kinds \ {"response_done"}, Receives(kind), sched' \in Scheds,
         Busy(sched) => Busy(sched'),
         sched'.pending = sched.pending, sched'.inFlight = sched.inFlight,
         uncommitted' \in Nat, crossed' \in BOOLEAN,
         Open' => ~sched'.audioCommitted /\ (sched'.userSpeaking \/ sched'.awaitingCommit),
         UNCHANGED <<channel, tools, asked, providerVars, received, spoken, owed, faulted>>
  PROVE  IInv'
<1>1. /\ channel = "open" /\ wire' \in Seq(Messages) /\ OneOnWire'
      /\ \A i \in 1 .. Len(wire') : wire'[i].kind = "response_done" => response = "none" /\ asked = 0
      /\ \A i \in 1 .. Len(wire') : Marks(wire'[i]) => Busy(sched) /\ asked = 0
  BY TakenFacts
<1>2. TypeOK'
  BY <1>1 DEF IInv, TypeOK, Messages, providerVars
<1>3. BusyWithIt'
  <2>1. asked > 0 => Busy(sched') /\ \A i \in 1 .. Len(wire') : ~Marks(wire'[i])
    BY <1>1 DEF IInv, TypeOK, BusyWithIt, providerVars
  <2>2. response # "none" =>
          Busy(sched') /\ \A i \in 1 .. Len(wire') : wire'[i].kind # "response_done"
    BY <1>1 DEF IInv, BusyWithIt, providerVars
  <2> QED BY <1>1, <2>1, <2>2 DEF BusyWithIt, providerVars
<1>4. OneResponseAtATime' /\ EventsAccounted'
  BY DEF IInv, OneResponseAtATime, EventsAccounted, providerVars
<1>5. Quiet' /\ IdleHasNothing' /\ TurnKnown'
  BY <1>1 DEF IInv, Quiet, IdleHasNothing, TurnKnown, providerVars
<1> QED BY <1>1, <1>2, <1>3, <1>4, <1>5 DEF IInv

LEMMA OnSpeechStartedKeeps == ASSUME IInv, OnSpeechStarted PROVE IInv'
<1>1. /\ sched' \in Scheds /\ (Busy(sched) => Busy(sched'))
      /\ sched'.pending = sched.pending /\ sched'.inFlight = sched.inFlight
      /\ ~sched'.audioCommitted /\ sched'.userSpeaking
  BY DEF OnSpeechStarted, IInv, TypeOK, Scheds, Busy
<1>2. /\ "speech_started" \in Kinds \ {"response_done"} /\ Receives("speech_started")
      /\ UNCHANGED <<channel, tools, asked, providerVars, received, spoken, owed, faulted>>
  BY DEF OnSpeechStarted, Kinds, providerVars
<1>3. uncommitted' = uncommitted + 1 /\ crossed' = FALSE /\ uncommitted \in Nat
  BY DEF OnSpeechStarted, IInv, TypeOK
<1>4. uncommitted' \in Nat
  BY <1>3
<1>5. crossed' \in BOOLEAN
  BY <1>3, Zenon
<1> QED BY <1>1, <1>2, <1>4, <1>5, TakenHolds

LEMMA OnResponseCreatedKeeps == ASSUME IInv, OnResponseCreated PROVE IInv'
<1>1. /\ sched' \in Scheds /\ Busy(sched')
      /\ sched'.pending = sched.pending /\ sched'.inFlight = sched.inFlight
      /\ sched'.audioCommitted = sched.audioCommitted /\ sched'.userSpeaking = sched.userSpeaking
      /\ sched'.awaitingCommit = sched.awaitingCommit
  BY DEF OnResponseCreated, IInv, TypeOK, Scheds, Busy
<1>2. /\ "response_created" \in Kinds \ {"response_done"} /\ Receives("response_created")
      /\ UNCHANGED <<channel, tools, asked, providerVars, received, spoken, owed, faulted>>
      /\ UNCHANGED turnVars
  BY DEF OnResponseCreated, Kinds, providerVars, historyVars
<1>3. uncommitted' \in Nat /\ crossed' \in BOOLEAN
      /\ (Open' => ~sched'.audioCommitted /\ (sched'.userSpeaking \/ sched'.awaitingCommit))
  BY <1>1, <1>2 DEF IInv, TypeOK, TurnKnown
<1> QED BY <1>1, <1>2, <1>3, TakenHolds

LEMMA OnErrorKeeps == ASSUME IInv, OnError PROVE IInv'
<1>1. /\ "error" \in Kinds \ {"response_done"} /\ Receives("error")
      /\ UNCHANGED <<channel, tools, asked, providerVars, received, spoken, owed, faulted>>
      /\ UNCHANGED turnVars /\ sched' = sched
  BY DEF OnError, Kinds, providerVars, historyVars
<1>2. /\ uncommitted' \in Nat /\ crossed' \in BOOLEAN /\ sched' \in Scheds /\ (Busy(sched) => Busy(sched'))
      /\ sched'.pending = sched.pending /\ sched'.inFlight = sched.inFlight
      /\ (Open' => ~sched'.audioCommitted /\ (sched'.userSpeaking \/ sched'.awaitingCommit))
  BY <1>1 DEF IInv, TypeOK, TurnKnown
<1> QED BY <1>1, <1>2, TakenHolds

\* A handler that settles after changing flags no response depends on.
LEMMA TakenAndSettled ==
  ASSUME IInv, NEW kind \in Kinds \ {"response_done"}, Receives(kind),
         NEW c \in Scheds, NEW o \in SUBSET TaskEvents, Settle(c, TRUE, o),
         Busy(c) <=> Busy(sched), c.pending = sched.pending, c.inFlight = sched.inFlight,
         uncommitted' \in Nat, crossed' \in BOOLEAN,
         Open' => ~c.audioCommitted /\ (c.userSpeaking \/ c.awaitingCommit),
         UNCHANGED <<channel, tools, providerVars, received, spoken>>
  PROVE  IInv'
<1>1. /\ channel = "open" /\ wire' \in Seq(Messages) /\ OneOnWire'
      /\ \A i \in 1 .. Len(wire') : wire'[i].kind = "response_done" => response = "none"
      /\ \A i \in 1 .. Len(wire') : Marks(wire'[i]) => Busy(c) /\ asked = 0
  BY TakenFacts
<1>2. /\ UNCHANGED <<channel, providerVars>>
      /\ tools' \in Nat /\ received' \subseteq TaskEvents /\ spoken' \subseteq TaskEvents
      /\ (c.inFlight # {} => Busy(c))
      /\ (asked > 0 \/ response # "none" => Busy(c))
      /\ received' = c.pending \cup c.inFlight \cup spoken'
      /\ c.pending \cap c.inFlight = {} /\ (c.pending \cup c.inFlight) \cap spoken' = {}
  BY <1>1 DEF IInv, TypeOK, IdleHasNothing, EventsAccounted, BusyWithIt
<1> QED BY <1>1, <1>2, SettledHolds

LEMMA OnSessionUpdatedKeeps == ASSUME IInv, OnSessionUpdated PROVE IInv'
<1>1. /\ "session_updated" \in Kinds \ {"response_done"} /\ Receives("session_updated")
      /\ Settle(sched, TRUE, owed) /\ UNCHANGED turnVars
      /\ UNCHANGED <<channel, tools, providerVars, received, spoken>>
  BY DEF OnSessionUpdated, Kinds, historyVars
<1>2. /\ sched \in Scheds /\ owed \in SUBSET TaskEvents /\ uncommitted' \in Nat /\ crossed' \in BOOLEAN
      /\ (Open' => ~sched.audioCommitted /\ (sched.userSpeaking \/ sched.awaitingCommit))
  BY <1>1 DEF IInv, TypeOK, TurnKnown
<1> QED BY <1>1, <1>2, TakenAndSettled

LEMMA OnSpeechStoppedKeeps == ASSUME IInv, OnSpeechStopped PROVE IInv'
<1> DEFINE c == [sched EXCEPT !.userSpeaking = FALSE, !.awaitingCommit = ~sched.audioCommitted]
<1>1. /\ "speech_stopped" \in Kinds \ {"response_done"} /\ Receives("speech_stopped")
      /\ Settle(c, TRUE, owed) /\ UNCHANGED turnVars
      /\ UNCHANGED <<channel, tools, providerVars, received, spoken>>
  BY DEF OnSpeechStopped, Kinds, historyVars
<1>2. /\ c \in Scheds /\ (Busy(c) <=> Busy(sched))
      /\ c.pending = sched.pending /\ c.inFlight = sched.inFlight
      /\ (~sched.audioCommitted => ~c.audioCommitted /\ c.awaitingCommit)
  BY DEF IInv, TypeOK, Scheds, Busy
<1>3. owed \in SUBSET TaskEvents /\ uncommitted' \in Nat /\ crossed' \in BOOLEAN
  BY <1>1 DEF IInv, TypeOK
<1> HIDE DEF c
<1>4. Open' => ~c.audioCommitted /\ (c.userSpeaking \/ c.awaitingCommit)
  BY <1>1, <1>2 DEF IInv, TurnKnown
<1> QED BY <1>1, <1>2, <1>3, <1>4, TakenAndSettled

LEMMA OnAudioCommittedKeeps == ASSUME IInv, OnAudioCommitted PROVE IInv'
<1> DEFINE c == [sched EXCEPT !.audioCommitted = TRUE, !.awaitingCommit = FALSE, !.requested = TRUE]
           o == owed \cup sched.pending
<1>1. /\ "committed" \in Kinds \ {"response_done"} /\ Receives("committed")
      /\ Settle(c, TRUE, o) /\ crossed' = (uncommitted' > 0)
      /\ uncommitted' = IF uncommitted > 0 THEN uncommitted - 1 ELSE 0
      /\ UNCHANGED <<channel, tools, providerVars, received, spoken>>
  BY DEF OnAudioCommitted, Kinds
<1>2. /\ c \in Scheds /\ (Busy(c) <=> Busy(sched))
      /\ c.pending = sched.pending /\ c.inFlight = sched.inFlight
      /\ o \in SUBSET TaskEvents
  BY DEF IInv, TypeOK, Scheds, Busy
<1>3. uncommitted' \in Nat /\ crossed' \in BOOLEAN /\ ~Open'
  <2>1. uncommitted \in Nat
    BY DEF IInv, TypeOK
  <2>2. uncommitted' \in Nat
    BY <1>1, <2>1
  <2>3. crossed' \in BOOLEAN
    <3>1. (uncommitted' > 0) \in BOOLEAN
      BY <2>2
    <3> QED BY <1>1, <3>1, Zenon
  <2>4. ~(uncommitted' > 0 /\ ~crossed')
    BY <1>1
  <2> QED BY <2>2, <2>3, <2>4
<1> HIDE DEF c, o
<1> QED BY <1>1, <1>2, <1>3, TakenAndSettled

\* What onResponseDone makes of the scheduler.
LEMMA DoneFacts ==
  ASSUME TypeOK, NEW status \in {"none", "completed", "failed", "cancelled"}, NEW calls \in BOOLEAN,
         NEW c, c = DoneUpdates(sched, status, calls)
  PROVE  /\ c \in Scheds /\ ~Busy(c) /\ c.inFlight = {}
         /\ c.pending = IF calls \/ status # "completed" THEN sched.pending \cup sched.inFlight
                        ELSE sched.pending
         /\ c.audioCommitted = sched.audioCommitted /\ c.userSpeaking = sched.userSpeaking
         /\ c.awaitingCommit = sched.awaitingCommit
<1> DEFINE pending == IF calls \/ status # "completed" THEN sched.pending \cup sched.inFlight
                      ELSE sched.pending
           requested == CASE calls /\ sched.inFlight # {} -> TRUE
                          [] status # "completed" -> FALSE
                          [] OTHER -> sched.requested
<1>1. c = [sched EXCEPT !.createPending = FALSE, !.responding = FALSE, !.inFlight = {},
                        !.pending = pending, !.requested = requested]
  BY DEF DoneUpdates
<1>2. pending \in SUBSET TaskEvents /\ requested \in BOOLEAN
  <2>1. sched.pending \in SUBSET TaskEvents /\ sched.inFlight \in SUBSET TaskEvents
        /\ sched.requested \in BOOLEAN
    BY DEF TypeOK, Scheds
  <2> QED BY <2>1
<1> HIDE DEF pending, requested
<1>3. c \in Scheds
  BY <1>1, <1>2 DEF TypeOK, Scheds
<1>4. /\ c.createPending = FALSE /\ c.responding = FALSE /\ c.inFlight = {} /\ c.pending = pending
      /\ c.audioCommitted = sched.audioCommitted /\ c.userSpeaking = sched.userSpeaking
      /\ c.awaitingCommit = sched.awaitingCommit
  BY <1>1 DEF TypeOK, Scheds
<1> QED BY <1>3, <1>4 DEF Busy, pending

LEMMA OnResponseDoneKeeps == ASSUME IInv, OnResponseDone PROVE IInv'
<1> DEFINE m == Head(wire)
           c == DoneUpdates(sched, m.status, m.calls)
<1>1. /\ "response_done" \in Kinds /\ Receives("response_done")
      /\ UNCHANGED <<channel, speaking, response, ending, turns, turnVars, received>>
      /\ spoken' = IF m.calls \/ m.status # "completed" THEN spoken ELSE spoken \cup sched.inFlight
      /\ tools' = IF m.calls THEN tools + 1 ELSE tools
      /\ IF m.calls THEN sched' = c /\ UNCHANGED <<asked, owed, faulted>> ELSE Settle(c, TRUE, owed)
  BY DEF OnResponseDone, Kinds, providerVars
<1>2. /\ channel = "open" /\ wire' \in Seq(Messages) /\ OneOnWire' /\ m \in Messages
      /\ \A i \in 1 .. Len(wire') : ~Marks(wire'[i])
      /\ response = "none" /\ asked = 0
  BY <1>1, TakenFacts
<1>3. m.status \in {"none", "completed", "failed", "cancelled"} /\ m.calls \in BOOLEAN /\ TypeOK
  BY <1>2 DEF Messages, IInv
<1>4. /\ c \in Scheds /\ ~Busy(c) /\ c.inFlight = {}
      /\ c.pending = IF m.calls \/ m.status # "completed" THEN sched.pending \cup sched.inFlight
                     ELSE sched.pending
      /\ c.audioCommitted = sched.audioCommitted /\ c.userSpeaking = sched.userSpeaking
      /\ c.awaitingCommit = sched.awaitingCommit
  <2> HIDE DEF m
  <2> QED BY <1>3, DoneFacts
<1> HIDE DEF m, c
<1>5. /\ tools' \in Nat /\ received' \subseteq TaskEvents /\ spoken' \subseteq TaskEvents
      /\ uncommitted' \in Nat /\ crossed' \in BOOLEAN /\ owed \in SUBSET TaskEvents
  BY <1>1, <1>3 DEF TypeOK, Scheds
<1>6. /\ received' = c.pending \cup c.inFlight \cup spoken'
      /\ c.pending \cap c.inFlight = {} /\ (c.pending \cup c.inFlight) \cap spoken' = {}
  BY <1>1, <1>4 DEF IInv, EventsAccounted
<1>7. Open' => ~c.audioCommitted /\ (c.userSpeaking \/ c.awaitingCommit)
  BY <1>1, <1>4 DEF IInv, TurnKnown
<1>8. CASE ~m.calls
  <2>1. Settle(c, TRUE, owed) /\ UNCHANGED <<channel, providerVars>>
    BY <1>1, <1>8 DEF providerVars
  <2>2. /\ (c.inFlight # {} => Busy(c)) /\ (asked > 0 \/ response # "none" => Busy(c))
        /\ \A i \in 1 .. Len(wire') : Marks(wire'[i]) => Busy(c) /\ asked = 0
        /\ \A i \in 1 .. Len(wire') : wire'[i].kind = "response_done" => response = "none"
    BY <1>2, <1>4
  <2> QED BY <1>2, <1>4, <1>5, <1>6, <1>7, <2>1, <2>2, SettledHolds
<1>9. CASE m.calls
  <2>1. sched' = c /\ UNCHANGED <<asked, owed, faulted>>
    BY <1>1, <1>9
  <2>2. TypeOK'
    BY <1>1, <1>2, <1>3, <1>4, <1>5, <2>1 DEF TypeOK, Messages
  <2>3. OneResponseAtATime' /\ BusyWithIt' /\ EventsAccounted'
    BY <1>1, <1>2, <1>6, <2>1 DEF OneResponseAtATime, BusyWithIt, EventsAccounted
  <2>4. Quiet' /\ IdleHasNothing' /\ TurnKnown'
    BY <1>1, <1>2, <1>4, <1>7, <2>1 DEF Quiet, IdleHasNothing, TurnKnown
  <2> QED BY <1>2, <2>2, <2>3, <2>4 DEF IInv
<1> QED BY <1>8, <1>9
-----------------------------------------------------------------------------
(* The provider.                                                            *)

\* Its events go to the end of the wire.
LEMMA SentFacts ==
  ASSUME NEW w \in Seq(Messages), NEW events \in Seq(Messages)
  PROVE  /\ w \o events \in Seq(Messages) /\ Len(w) \in Nat /\ Len(events) \in Nat
         /\ Len(w \o events) = Len(w) + Len(events)
         /\ \A i \in 1 .. Len(w \o events) :
              \/ i \in 1 .. Len(w) /\ (w \o events)[i] = w[i]
              \/ /\ i - Len(w) \in 1 .. Len(events)
                 /\ (w \o events)[i] = events[i - Len(w)]
<1>1. /\ w \o events \in Seq(Messages) /\ Len(w \o events) = Len(w) + Len(events)
      /\ \A i \in 1 .. Len(w) + Len(events) :
           (w \o events)[i] = IF i <= Len(w) THEN w[i] ELSE events[i - Len(w)]
  BY ConcatProperties
<1>2. Len(w) \in Nat /\ Len(events) \in Nat
  BY LenProperties
<1> QED BY <1>1, <1>2

\* Events that tell of no response change nothing a response depends on.
LEMMA SentHolds ==
  ASSUME IInv, channel = "open", NEW events \in Seq(Messages), wire' = wire \o events,
         \A i \in 1 .. Len(events) : ~Marks(events[i]),
         UNCHANGED <<sched, channel, tools, asked, turnVars, received, spoken, owed, faulted>>,
         speaking' \in BOOLEAN, turns' \in Nat, response' \in {"none", "active", "interrupted"},
         ending' \in {"none", "speech_stopped", "committed"},
         response' = "none" <=> response = "none"
  PROVE  IInv'
<1>1. /\ wire' \in Seq(Messages) /\ Len(wire) \in Nat /\ Len(wire') = Len(wire) + Len(events)
      /\ \A i \in 1 .. Len(wire') : Marks(wire'[i]) => i \in 1 .. Len(wire) /\ wire'[i] = wire[i]
      /\ Len(events) \in Nat
  BY SentFacts DEF IInv, TypeOK, Messages
<1>2. TypeOK'
  BY <1>1 DEF IInv, TypeOK, Messages
<1>3. OneOnWire' /\ BusyWithIt'
  <2>1. OneOnWire /\ BusyWithIt
    BY DEF IInv
  <2>2. OneOnWire'
    <3> SUFFICES ASSUME NEW i \in 1 .. Len(wire'), NEW j \in 1 .. Len(wire'),
                        i < j, Marks(wire'[i]), Marks(wire'[j])
                 PROVE  wire'[i].kind = "response_created" /\ wire'[j].kind = "response_done"
      BY DEF OneOnWire
    <3>1. /\ i \in 1 .. Len(wire) /\ wire'[i] = wire[i]
          /\ j \in 1 .. Len(wire) /\ wire'[j] = wire[j]
      BY <1>1
    <3> QED BY <2>1, <3>1 DEF OneOnWire
  <2>3. asked' > 0 => Busy(sched') /\ \A i \in 1 .. Len(wire') : ~Marks(wire'[i])
    BY <1>1, <2>1 DEF BusyWithIt
  <2>4. response' # "none" =>
          Busy(sched') /\ \A i \in 1 .. Len(wire') : wire'[i].kind # "response_done"
    BY <1>1, <2>1 DEF BusyWithIt, Marks
  <2>5. \A i \in 1 .. Len(wire') : Marks(wire'[i]) => Busy(sched')
    BY <1>1, <2>1 DEF BusyWithIt
  <2> QED BY <2>2, <2>3, <2>4, <2>5 DEF BusyWithIt
<1>4. OneResponseAtATime' /\ EventsAccounted' /\ Quiet' /\ IdleHasNothing' /\ TurnKnown'
  BY DEF IInv, OneResponseAtATime, EventsAccounted, Quiet, IdleHasNothing, TurnKnown
<1> QED BY <1>2, <1>3, <1>4 DEF IInv

\* The events of a turn tell of no response.
LEMMA TurnEvent ==
  ASSUME NEW kind \in {"speech_started", "speech_stopped", "committed"}
  PROVE  /\ <<Plain(kind)>> \in Seq(Messages)
         /\ \A i \in 1 .. Len(<<Plain(kind)>>) : ~Marks(<<Plain(kind)>>[i])
<1>1. Plain(kind) \in Messages /\ ~Marks(Plain(kind))
  BY DEF Plain, Event, Messages, Kinds, Marks
<1> HIDE DEF Plain
<1> QED BY <1>1

\* The end of a turn, in two events, and the turn that may begin between them.
LEMMA TurnKeeps == ASSUME IInv, UserSpeaks \/ UserStops \/ TurnEnds PROVE IInv'
<1>1. /\ channel = "open"
      /\ UNCHANGED <<sched, channel, tools, asked, turnVars, received, spoken, owed, faulted>>
      /\ speaking' \in BOOLEAN /\ turns' \in Nat /\ response' \in {"none", "active", "interrupted"}
      /\ ending' \in {"none", "speech_stopped", "committed"}
      /\ (response' = "none" <=> response = "none")
  <2>1. TypeOK
    BY DEF IInv
  <2>2. CASE UserSpeaks
    BY <2>1, <2>2 DEF UserSpeaks, historyVars, TypeOK
  <2>3. CASE UserStops
    BY <2>1, <2>3 DEF UserStops, historyVars, TypeOK
  <2>4. CASE TurnEnds
    BY <2>1, <2>4 DEF TurnEnds, historyVars, TypeOK
  <2> QED BY <2>2, <2>3, <2>4
<1>2. \E kind \in {"speech_started", "speech_stopped", "committed"} : wire' = wire \o <<Plain(kind)>>
  BY DEF UserSpeaks, UserStops, TurnEnds, Sends, IInv, TypeOK
<1>3. PICK kind \in {"speech_started", "speech_stopped", "committed"} :
        wire' = wire \o <<Plain(kind)>>
  BY <1>2
<1> QED BY <1>1, <1>3, TurnEvent, SentHolds

\* One event at the end of the wire.
LEMMA OneSent ==
  ASSUME NEW w \in Seq(Messages), NEW m \in Messages
  PROVE  /\ w \o <<m>> \in Seq(Messages) /\ Len(w) \in Nat /\ Len(w \o <<m>>) = Len(w) + 1
         /\ \A i \in 1 .. Len(w) : (w \o <<m>>)[i] = w[i]
         /\ (w \o <<m>>)[Len(w) + 1] = m
<1>1. <<m>> \in Seq(Messages) /\ Len(<<m>>) = 1 /\ <<m>>[1] = m
  OBVIOUS
<1>2. Len(w) \in Nat
  BY LenProperties
<1>3. /\ w \o <<m>> \in Seq(Messages) /\ Len(w \o <<m>>) = Len(w) + 1
      /\ \A i \in 1 .. Len(w) + 1 :
           (w \o <<m>>)[i] = IF i <= Len(w) THEN w[i] ELSE <<m>>[i - Len(w)]
  BY <1>1, ConcatProperties
<1> QED BY <1>1, <1>2, <1>3

\* The news of a response that began: no other mark is on the wire.
LEMMA MarkSent ==
  ASSUME IInv, channel = "open", NEW m \in Messages, wire' = wire \o <<m>>,
         \/ ~Marks(m)
         \/ m.kind = "response_created" /\ asked' = asked - 1
         \/ m.kind = "response_done" /\ response # "none" /\ response' = "none" /\ asked' = asked,
         UNCHANGED <<sched, channel, tools, turnVars, received, spoken, owed, speaking, ending, turns>>,
         asked' \in Nat, asked' <= asked, asked > 0 \/ response # "none",
         OneResponseAtATime', response' \in {"none", "active", "interrupted"}, faulted' \in BOOLEAN
  PROVE  IInv'
<1>1. /\ wire' \in Seq(Messages) /\ Len(wire) \in Nat /\ Len(wire') = Len(wire) + 1
      /\ \A i \in 1 .. Len(wire) : wire'[i] = wire[i]
      /\ wire'[Len(wire) + 1] = m
  BY OneSent DEF IInv, TypeOK, Messages
<1>2. OneOnWire /\ BusyWithIt /\ asked \in Nat /\ OneResponseAtATime
  BY DEF IInv, TypeOK
<1>3. Busy(sched) /\ \A i \in 1 .. Len(wire) : wire[i].kind # "response_done"
  BY <1>2 DEF BusyWithIt, Marks
<1>4. asked > 0 => \A i \in 1 .. Len(wire) : ~Marks(wire[i])
  BY <1>2 DEF BusyWithIt
<1>5. TypeOK'
  BY <1>1 DEF IInv, TypeOK, Messages
<1>6. OneOnWire'
  <2> SUFFICES ASSUME NEW i \in 1 .. Len(wire'), NEW j \in 1 .. Len(wire'),
                      i < j, Marks(wire'[i]), Marks(wire'[j])
               PROVE  wire'[i].kind = "response_created" /\ wire'[j].kind = "response_done"
    BY DEF OneOnWire
  <2>1. i \in 1 .. Len(wire) /\ wire'[i] = wire[i] /\ Marks(wire[i]) /\ asked = 0
    BY <1>1, <1>2, <1>4
  <2>2. wire'[i].kind = "response_created"
    BY <1>3, <2>1 DEF Marks
  <2>3. CASE j \in 1 .. Len(wire)
    BY <1>1, <1>2, <2>1, <2>3 DEF OneOnWire
  <2>4. CASE j = Len(wire) + 1
    <3>1. wire'[j] = m /\ Marks(m)
      BY <1>1, <2>4
    <3>2. m.kind # "response_created"
      BY <1>2, <2>1, <3>1 DEF Marks
    <3> QED BY <2>2, <3>1, <3>2 DEF Marks
  <2> QED BY <1>1, <2>2, <2>3, <2>4
<1>7. BusyWithIt'
  <2>1. asked' > 0 => \A i \in 1 .. Len(wire') : ~Marks(wire'[i])
    <3> SUFFICES ASSUME asked' > 0, NEW i \in 1 .. Len(wire') PROVE ~Marks(wire'[i])
      OBVIOUS
    <3>1. asked > 0 /\ asked <= 1 /\ response = "none"
      BY <1>2 DEF OneResponseAtATime
    <3>2. asked' = asked
      BY <1>2, <3>1
    <3>3. ~Marks(m)
      BY <1>2, <3>1, <3>2 DEF Marks
    <3> QED BY <1>1, <1>4, <3>1, <3>3
  <2>2. response' # "none" => \A i \in 1 .. Len(wire') : wire'[i].kind # "response_done"
    BY <1>1, <1>3 DEF Marks
  <2> QED BY <1>3, <2>1, <2>2 DEF BusyWithIt
<1>8. EventsAccounted' /\ Quiet' /\ IdleHasNothing' /\ TurnKnown'
  BY <1>3 DEF IInv, EventsAccounted, Quiet, IdleHasNothing, TurnKnown
<1> QED BY <1>5, <1>6, <1>7, <1>8 DEF IInv

LEMMA TakesRequestKeeps == ASSUME IInv, TakesRequest PROVE IInv'
<1>1. /\ channel = "open" /\ asked \in Nat /\ asked > 0 /\ asked' = asked - 1
      /\ UNCHANGED <<sched, channel, tools, turnVars, received, spoken, owed, speaking, ending, turns>>
      /\ OneResponseAtATime /\ response \in {"none", "active", "interrupted"} /\ faulted \in BOOLEAN
  BY DEF TakesRequest, historyVars, IInv, TypeOK
<1>2. asked' \in Nat /\ asked' <= asked /\ asked = 1 /\ asked' = 0
  BY <1>1 DEF OneResponseAtATime
<1>3. CASE response' = "active" /\ wire' = wire \o <<Plain("response_created")>> /\ faulted' = faulted
  <2>1. Plain("response_created") \in Messages /\ Plain("response_created").kind = "response_created"
    BY DEF Plain, Event, Messages, Kinds
  <2>2. OneResponseAtATime'
    BY <1>2, <1>3 DEF OneResponseAtATime
  <2> QED BY <1>1, <1>2, <1>3, <2>1, <2>2, MarkSent
<1>4. CASE response' = response /\ wire' = wire \o <<Plain("error")>> /\ faulted' = TRUE
  <2>1. Plain("error") \in Messages /\ ~Marks(Plain("error"))
    BY DEF Plain, Event, Messages, Kinds, Marks
  <2>2. OneResponseAtATime'
    BY <1>1, <1>2, <1>4 DEF OneResponseAtATime
  <2> QED BY <1>1, <1>2, <1>4, <2>1, <2>2, MarkSent
<1> QED BY <1>3, <1>4 DEF TakesRequest, Sends

LEMMA EndsResponseKeeps == ASSUME IInv, EndsResponse PROVE IInv'
<1>1. /\ channel = "open" /\ response # "none" /\ response' = "none"
      /\ asked \in Nat /\ asked' = asked
      /\ UNCHANGED <<sched, channel, tools, turnVars, received, spoken, owed, speaking, ending, turns>>
      /\ OneResponseAtATime /\ faulted' \in BOOLEAN
  BY DEF EndsResponse, historyVars, IInv, TypeOK
<1>2. \E status \in {"completed", "failed", "cancelled"}, calls \in BOOLEAN :
        wire' = wire \o <<Event("response_done", status, calls)>>
  BY DEF EndsResponse, Sends
<1>3. PICK status \in {"completed", "failed", "cancelled"}, calls \in BOOLEAN :
        wire' = wire \o <<Event("response_done", status, calls)>>
  BY <1>2
<1> DEFINE m == Event("response_done", status, calls)
<1>4. m \in Messages /\ m.kind = "response_done" /\ wire' = wire \o <<m>>
  BY <1>3 DEF Event, Messages, Kinds
<1> HIDE DEF m
<1>5. OneResponseAtATime' /\ asked' \in Nat /\ asked' <= asked
  BY <1>1 DEF OneResponseAtATime
<1> QED BY <1>1, <1>4, <1>5, MarkSent
-----------------------------------------------------------------------------
LEMMA InitHolds == Init => IInv
<1> SUFFICES ASSUME Init PROVE IInv
  OBVIOUS
<1>1. Fresh \in Scheds /\ ~Busy(Fresh) /\ Fresh.inFlight = {} /\ Fresh.pending = {}
  BY DEF Fresh, Scheds, Busy
<1>2. wire = <<>> /\ wire \in Seq(Messages)
  BY DEF Init
<1>3. TypeOK
  BY <1>1, <1>2 DEF Init, TypeOK, Messages
<1> QED BY <1>1, <1>3 DEF Init, IInv, OneResponseAtATime, EventsAccounted, Quiet, IdleHasNothing,
  TurnKnown

LEMMA StepHolds == IInv /\ [Next]_vars => IInv'
<1> SUFFICES ASSUME IInv, [Next]_vars PROVE IInv'
  OBVIOUS
<1>1. CASE UNCHANGED vars
  BY <1>1 DEF IInv, TypeOK, OneResponseAtATime, EventsAccounted, OneOnWire, BusyWithIt, Busy, Quiet,
    IdleHasNothing, TurnKnown, vars, providerVars, historyVars
<1>2. CASE \E e \in TaskEvents : OnTaskEvent(e)
  BY <1>2, OnTaskEventKeeps
<1>3. CASE PageStep
  BY <1>3, OnSessionUpdatedKeeps, OnSpeechStartedKeeps, OnSpeechStoppedKeeps, OnAudioCommittedKeeps,
    OnResponseCreatedKeeps, OnResponseDoneKeeps, OnErrorKeeps DEF PageStep
<1> QED BY <1>1, <1>2, <1>3, ChannelOpensKeeps, StopConversationKeeps, ToolsAnsweredKeeps,
  TurnKeeps, TakesRequestKeeps, EndsResponseKeeps DEF Next

\* The invariant holds in every state of turn taking.
THEOREM Inductive == Spec => []IInv
BY InitHolds, StepHolds, PTL DEF Spec

\* Every variable keeps its type.
THEOREM TypeCorrect == Spec => []TypeOK
<1>1. IInv => TypeOK
  BY DEF IInv
<1> QED BY <1>1, Inductive, PTL

\* However late the page hears of a response, a second one is never asked for.
THEOREM SafeOneResponse == Spec => []OneResponseAtATime
<1>1. IInv => OneResponseAtATime
  BY DEF IInv
<1> QED BY <1>1, Inductive, PTL

\* A task event is never lost or announced twice between onTaskEvent and its response.
THEOREM SafeEvents == Spec => []EventsAccounted
<1>1. IInv => EventsAccounted
  BY DEF IInv
<1> QED BY <1>1, Inductive, PTL
-----------------------------------------------------------------------------
\* maybeCreateResponse of a scheduler that knows of the turn asks for nothing.
LEMMA SilentWhileOpen ==
  ASSUME TypeOK, NEW c, NEW ready, NEW o, Settle(c, ready, o), c.userSpeaking \/ c.awaitingCommit
  PROVE  asked' = asked
BY DEF Settle, MayCreate

\* No response is asked for while a turn the page heard begin is not committed, unless the
\* commit of the turn before it was taken for its own.
THEOREM SafeTurn == Spec => NeverBeforeCommit
<1>1. IInv /\ [Next]_vars => (asked' > asked => uncommitted' = 0 \/ crossed')
  <2> SUFFICES ASSUME IInv, [Next]_vars, asked' > asked, uncommitted' # 0, ~crossed' PROVE FALSE
    OBVIOUS
  <2>1. TypeOK /\ TurnKnown /\ asked \in Nat /\ ~(asked' = asked)
    BY DEF IInv, TypeOK
  <2> DEFINE Known(c) == c.userSpeaking \/ c.awaitingCommit
  <2>2. CASE \E c, ready, o : Settle(c, ready, o) /\ Known(c)
    BY <2>1, <2>2, SilentWhileOpen
  <2>3. CASE UNCHANGED turnVars
    <3>1. ~sched.audioCommitted /\ Known(sched) /\ sched \in Scheds
      BY <2>1, <2>3 DEF TurnKnown, TypeOK
    <3>2. CASE ChannelOpens \/ OnSessionUpdated
      BY <2>2, <3>1, <3>2 DEF ChannelOpens, OnSessionUpdated
    <3>3. ASSUME NEW e \in TaskEvents, OnTaskEvent(e) PROVE FALSE
      <4>1. Known([sched EXCEPT !.pending = @ \cup {e}, !.requested = TRUE])
        BY <3>1 DEF Scheds
      <4> QED BY <2>2, <3>3, <4>1 DEF OnTaskEvent
    <3>4. CASE ToolsAnswered
      <4>1. Known([sched EXCEPT !.requested = TRUE])
        BY <3>1 DEF Scheds
      <4> QED BY <2>2, <3>4, <4>1 DEF ToolsAnswered
    <3>5. CASE OnSpeechStopped
      <4>1. Known([sched EXCEPT !.userSpeaking = FALSE, !.awaitingCommit = ~sched.audioCommitted])
        BY <3>1 DEF Scheds
      <4> QED BY <2>2, <3>5, <4>1 DEF OnSpeechStopped
    <3>6. CASE OnResponseDone
      <4> DEFINE c == DoneUpdates(sched, Head(wire).status, Head(wire).calls)
      <4>1. Known(c)
        BY <3>1 DEF Scheds, DoneUpdates
      <4>2. Settle(c, TRUE, owed)
        BY <2>1, <3>6 DEF OnResponseDone
      <4> HIDE DEF c
      <4> QED BY <2>2, <4>1, <4>2
    <3>7. CASE OnSpeechStarted \/ OnAudioCommitted
      BY <2>1, <2>3, <3>7 DEF OnSpeechStarted, OnAudioCommitted
    <3>8. CASE StopConversation \/ OnResponseCreated \/ OnError \/ UserSpeaks \/ UserStops
               \/ TurnEnds \/ TakesRequest \/ EndsResponse \/ UNCHANGED vars
      BY <2>1, <3>8 DEF StopConversation, OnResponseCreated, OnError, UserSpeaks, UserStops,
        TurnEnds, TakesRequest, EndsResponse, vars
    <3> QED BY <3>2, <3>3, <3>4, <3>5, <3>6, <3>7, <3>8 DEF Next, PageStep
  <2>4. CASE ~UNCHANGED turnVars
    <3>1. CASE OnAudioCommitted
      <4>1. crossed' = (uncommitted' > 0) /\ uncommitted' \in Nat
        BY <2>1, <3>1 DEF OnAudioCommitted, TypeOK
      <4>2. uncommitted' > 0
        BY <2>1, <4>1
      <4> QED BY <4>1, <4>2
    <3>2. CASE OnSpeechStarted \/ StopConversation
      BY <2>1, <3>2 DEF OnSpeechStarted, StopConversation
    <3>3. CASE ~(OnAudioCommitted \/ OnSpeechStarted \/ StopConversation)
      BY <2>4, <3>3 DEF Next, PageStep, ChannelOpens, OnSessionUpdated, OnTaskEvent, ToolsAnswered,
        OnSpeechStopped, OnResponseDone, OnResponseCreated, OnError, UserSpeaks, UserStops,
        TurnEnds, TakesRequest, EndsResponse, historyVars, vars
    <3> QED BY <3>1, <3>2, <3>3
  <2> QED BY <2>3, <2>4
<1>2. Spec => [][asked' > asked => uncommitted' = 0 \/ crossed']_vars
  BY <1>1, Inductive, PTL DEF Spec
<1> QED BY <1>2 DEF NeverBeforeCommit
=============================================================================
