---------------------------- MODULE VoicePage_proofs ----------------------------
(***************************************************************************)
(* What a voice page and its gateway guarantee, for any number of starts    *)
(* and of responses: whose session a tool runs for, how often, and with     *)
(* which scope.                                                            *)
(***************************************************************************)
EXTENDS VoicePage, FiniteSetTheorems, SequenceTheorems, TLAPS

(* The gateway. *)

\* The attempts this page made at the gateway, and the last number of them.
Asked == {i \in Starts : call[i].attempt # 0}
Mine == IF gw.next # 0 THEN gw.attempts - 1 ELSE gw.attempts

Unasked == {"idle", "mic", "offer", "posted", "reading"}

Counted ==
  /\ Mine = Cardinality(Asked)
  /\ \A i \in Starts : call[i].at \in Unasked => call[i].attempt = 0
  /\ \A i \in Starts : call[i].at = "upstream" => call[i].attempt # 0

\* The number of an attempt of this page, or none.
Own(k) == k <= gw.attempts /\ (k # 0 => k # gw.next)

\* The scopes the page has seen are numbers of its own attempts.
Scoped ==
  /\ \A i \in Starts : Own(call[i].attempt) /\ call[i].scope \in {0, call[i].attempt}
  /\ Own(current.scope)
  /\ \A f \in Fetches : Own(fetch[f].scope)
  /\ gw.next <= gw.attempts
  /\ gw.session = "none" => gw.scope = 0
  /\ gw.session = "next" => gw.next # 0 /\ gw.scope = gw.next

\* The gateway's scope is the newest it has handed out.
Newest ==
  /\ gw.session = "page" => gw.scope # 0 /\ \E i \in Starts : call[i].attempt = gw.scope
  /\ gw.session # "next" => \A i \in Starts : call[i].scope <= gw.scope

(* The page. *)

\* What the page's variables point at.
Pointed ==
  /\ \A i \in Starts : i > starts => call[i].at = "idle"
  /\ current.stream = current.pc
  /\ current.pc = 0 => current = NoCurrent /\ wire = <<>> /\ playing = {} /\ ~response.active
  /\ current.pc # 0 => call[current.pc].at \notin {"idle", "mic"}

\* Before its socket opens the page has neither started nor stopped, and before its first
\* start no call was made.
Untouched ==
  /\ socket = "connecting" => starts = 0 /\ ~tornDown
  /\ starts = 0 => ~farewell.timer /\ \A f \in Fetches : fetch[f].at = "none"

\* A live conversation was answered, and it holds the scope of its answer.
Connected ==
  /\ \A i \in Starts : call[i].at = "applied" => call[i].scope # 0
  /\ \A i \in Starts : peer[i] = "live" => call[i].at = "applied"
  /\ current.pc # 0 /\ call[current.pc].at = "applied" => current.scope = call[current.pc].scope

(* Function calls. *)

\* An event of response n that may name a call is on the wire, or will be.
Names(e, n) == e.kind \in {"call", "done"} /\ e.id = n
Named(n) ==
  \/ \E j \in 1 .. Len(wire) : Names(wire[j], n)
  \/ response.active /\ response.n = n

\* A response is named in order: its call, and then its end.
Later(d, e) == d.id < e.id \/ (d.id = e.id /\ d.kind = "call" /\ e.kind = "done")

Ordered(w, r) ==
  /\ r.active => r.n # 0
  /\ \A j \in 1 .. Len(w) : w[j].kind # "stopped" =>
       /\ w[j].id <= r.n
       /\ w[j].kind = "done" /\ r.active => w[j].id < r.n
  /\ \A j, k \in 1 .. Len(w) :
       j < k /\ w[j].kind # "stopped" /\ w[k].kind # "stopped" => Later(w[j], w[k])

InOrder == Ordered(wire, response)

\* Two requests at most are made for a call: the first by the event that came first.
AskedTwice ==
  \A n \in Responses :
    /\ fetch[<<n, 1>>].at # "none" =>
         /\ n <= response.n
         /\ \A j \in 1 .. Len(wire) : wire[j].id = n => wire[j].kind # "call"
    /\ fetch[<<n, 2>>].at # "none" => fetch[<<n, 1>>].at # "none" /\ ~Named(n)

Ran(f) == IF fetch[f].at \in {"none", "sent", "running"} THEN 0 ELSE 1

RanOnce == \A n \in Responses : executed[n] <= Ran(<<n, 1>>) + Ran(<<n, 2>>)

\* A page whose starts did not cross their stops has one conversation at a time, and
\* remembers its calls for as long as an event may name them.
Orderly ==
  ~revived =>
    /\ tornDown => current.pc = 0
    /\ current.pc # 0 => current.pc = starts
    /\ \A i \in Starts : call[i].at = "mic" /\ i = starts => current.pc = 0
    /\ mics \subseteq {current.pc}
    /\ \A i \in Starts : peer[i] \in {"new", "live"} => i = current.pc
    /\ \A n \in Responses :
         /\ fetch[<<n, 1>>].at # "none" /\ n \notin memo => ~Named(n)
         /\ fetch[<<n, 2>>].at = "none"

IInv ==
  /\ TypeOK
  /\ Counted
  /\ Scoped
  /\ Newest
  /\ Pointed
  /\ Untouched
  /\ Connected
  /\ InOrder
  /\ AskedTwice
  /\ RanOnce
  /\ Orderly
-----------------------------------------------------------------------------
(* What a step may be. *)

\* The microphone, the channel and what came over it are gone.
Clears ==
  /\ ~tornDown
  /\ peer' = [i \in Starts |-> IF i = current.pc THEN "closed" ELSE peer[i]]
  /\ mics' = mics \ {current.stream} /\ current' = NoCurrent /\ memo' = {}
  /\ wire' = <<>> /\ playing' = {} /\ response' = [response EXCEPT !.active = FALSE]

Ends(i) ==
  /\ call[i].at \in {"mic", "offer", "posted", "replied"}
  /\ call' = [call EXCEPT ![i].at = "over"]

\* A step that ends in stopConversation, whoever asked for it.
Stops ==
  /\ call' = call \/ \E i \in Starts : Ends(i)
  /\ farewell' \in {farewell, NoFarewell} /\ cut' \in BOOLEAN
  /\ tornDown' = TRUE
  /\ socket' \in {socket, "closed"}
  /\ UNCHANGED <<owner, gatewayVars, fetch, executed, window, starts, revived>>
  /\ (tornDown /\ UNCHANGED <<peer, current, mics, memo, providerVars>>) \/ Clears

\* An event that is taken off the channel and calls nothing, or names a call.
Takes ==
  /\ wire # <<>> /\ wire' = Tail(wire)
  /\ farewell' \in {farewell} \cup {[farewell EXCEPT !.id = n] : n \in Responses}
  /\ UNCHANGED <<owner, mediaVars, gatewayVars, toolVars, response, playing,
                 window, socket, tornDown, starts, historyVars>>

Calls ==
  /\ wire # <<>> /\ wire' = Tail(wire)
  /\ Head(wire).kind \in {"call", "done"} /\ current.pc # 0
  /\ ExecuteFunctionCall(Head(wire).id, Head(wire).call)
  /\ UNCHANGED <<owner, mediaVars, gatewayVars, executed, response, playing, pageVars>>

SocketDrops ==
  /\ socket' = "closed"
  /\ UNCHANGED <<owner, mediaVars, gatewayVars, toolVars, providerVars, window, tornDown,
                 starts, farewell, historyVars>>

OwnerMoves ==
  /\ owner' \in {"none", "next"} /\ (owner = "next" => owner' = "next")
  /\ UNCHANGED <<mediaVars, gatewayVars, toolVars, providerVars, pageVars>>

ProviderStep ==
  \/ \E c \in Kinds : ProviderResponds(c)
  \/ \E ok \in BOOLEAN : ResponseEnds(ok)
  \/ \E n \in Responses : AudioEnds(n)

AttemptStep(i) ==
  \/ SessionRequested(i) \/ SessionAttempted(i)
  \/ \E accepted \in BOOLEAN : SessionAnswered(i, accepted)

Events == [kind : {"call", "done", "stopped"}, id : Responses, call : Kinds, ok : BOOLEAN]

\* The event at the head of the channel is an event of the channel.
LEMMA HeadTyped == ASSUME TypeOK, wire # <<>> PROVE Head(wire) \in Events
  BY HeadTailProperties DEF TypeOK, Events

\* stopConversation, whatever its callers have done first, is a step that stops.
LEMMA StopIsStops ==
  ASSUME NEW c, NEW f, StopConversation(c, f), f \in {farewell, NoFarewell},
         c = call \/ \E i \in Starts : Ends(i) /\ call' = c,
         cut' \in BOOLEAN, socket' \in {socket, "closed"},
         UNCHANGED <<owner, gatewayVars, fetch, executed, window, starts, revived>>
  PROVE  Stops
BY DEF StopConversation, Stops, Clears, providerVars

\* Every step of the page, the gateway and the provider is one of these.
LEMMA StepCases ==
  ASSUME TypeOK, [Next]_vars
  PROVE  \/ SocketOpens \/ ClickStart \/ Stops \/ Takes \/ Calls \/ SocketDrops \/ OwnerMoves
         \/ WindowCloses \/ NextPageConnects \/ ProviderStep \/ UNCHANGED vars
         \/ \E i \in Starts : MicrophoneGranted(i) \/ OfferCreated(i) \/ AttemptStep(i)
                               \/ AnswerArrives(i) \/ PeerConnects(i)
         \/ \E f \in Fetches : ToolStep(f)
<1> USE DEF historyVars
<1>1. cut \in BOOLEAN
  BY DEF TypeOK
<1>2. CASE TransportFails \/ UserStops \/ StopFrameArrives \/ SessionClosedArrives
        \/ FallbackTimer
  BY <1>1, <1>2, StopIsStops
     DEF TransportFails, UserStops, StopFrameArrives, SessionClosedArrives, FallbackTimer
<1>3. ASSUME NEW i \in Starts, StartFails(i) PROVE Stops
  <2>1. StopConversation([call EXCEPT ![i].at = "over"], farewell)
    BY <1>3 DEF StartFails
  <2>2. call' = [call EXCEPT ![i].at = "over"]
    BY <2>1 DEF StopConversation
  <2>3. Ends(i)
    BY <1>3, <2>2 DEF StartFails, Ends
  <2> QED
    BY <1>1, <1>3, <2>1, <2>2, <2>3, StopIsStops DEF StartFails
<1>4. CASE SocketLost
  BY <1>1, <1>4, StopIsStops DEF SocketLost, SocketDrops, toolVars
<1>5. CASE OnCallArguments
  BY <1>5 DEF OnCallArguments, Receives, LiveMedia, Calls
<1>6. CASE OnResponseDone
  <2> DEFINE e == Head(wire)
  <2>1. wire # <<>> /\ e.kind = "done" /\ current.pc # 0 /\ e \in Events
    BY <1>6, HeadTyped DEF OnResponseDone, Receives, LiveMedia
  <2>2. CASE e.call # "none"
    BY <1>6, <2>1, <2>2 DEF OnResponseDone, Calls, pageVars
  <2>3. CASE e.call = "none" /\ farewell.latched /\ ~e.ok
    BY <1>1, <1>6, <2>3, StopIsStops DEF OnResponseDone
  <2>4. CASE e.call = "none" /\ (farewell.latched => e.ok)
    BY <1>6, <2>1, <2>4 DEF OnResponseDone, Takes, toolVars, Events
  <2> QED
    BY <2>2, <2>3, <2>4
<1>7. CASE OnAudioStopped
  <2>1. wire # <<>>
    BY <1>7 DEF OnAudioStopped, Receives
  <2>2. CASE farewell.latched /\ farewell.id \in {0, Head(wire).id}
    BY <1>1, <1>7, <2>2, StopIsStops DEF OnAudioStopped
  <2>3. CASE ~(farewell.latched /\ farewell.id \in {0, Head(wire).id})
    BY <1>7, <2>1, <2>3 DEF OnAudioStopped, Takes, toolVars
  <2> QED
    BY <2>2, <2>3
<1>8. CASE SessionEnds \/ NextSession
  BY <1>8 DEF SessionEnds, NextSession, OwnerMoves
<1> QED
  BY <1>2, <1>3, <1>4, <1>5, <1>6, <1>7, <1>8
     DEF Next, StartStep, AttemptStep, ProviderStep, PageEvent
-----------------------------------------------------------------------------
(* Types. *)

CallStates ==
  {"idle", "mic", "offer", "posted", "reading", "upstream", "replied", "applied", "over"}
CallRecords == [at : CallStates, attempt : Attempts, scope : Attempts]
FetchRecords == [at : {"none", "sent", "running", "commanded", "ok", "refused", "over"},
                 pc : 0 .. MaxStarts, scope : Attempts, kind : Kinds]

FlagTypes ==
  window \in BOOLEAN /\ tornDown \in BOOLEAN /\ revived \in BOOLEAN /\ cut \in BOOLEAN

Farewells == [latched : BOOLEAN, id : 0 .. MaxResponses, timer : BOOLEAN]

PageTypes ==
  /\ owner \in {"page", "none", "next"}
  /\ socket \in {"connecting", "open", "closed"}
  /\ starts \in 0 .. MaxStarts
  /\ farewell \in Farewells

Pointers == [pc : 0 .. MaxStarts, stream : 0 .. MaxStarts, scope : Attempts]

MediaTypes ==
  /\ call \in [Starts -> CallRecords]
  /\ peer \in [Starts -> {"none", "new", "live", "closed"}]
  /\ current \in Pointers
  /\ mics \subseteq Starts

GatewayTypes ==
  /\ gw \in [session : {"none", "page", "next"}, scope : Attempts, attempts : Attempts,
            next : Attempts]
  /\ results \subseteq Responses

ToolTypes ==
  /\ memo \subseteq Responses
  /\ fetch \in [Fetches -> FetchRecords]
  /\ executed \in [Responses -> 0 .. 2]

ProviderTypes ==
  /\ response \in [n : 0 .. MaxResponses, call : Kinds, active : BOOLEAN]
  /\ playing \subseteq Responses
  /\ wire \in Seq(Events)

\* The types, part by part.
LEMMA TypeParts ==
  TypeOK <=> /\ FlagTypes /\ PageTypes /\ MediaTypes /\ GatewayTypes
             /\ ToolTypes /\ ProviderTypes
BY DEF TypeOK, FlagTypes, PageTypes, Farewells, Pointers, MediaTypes, GatewayTypes, ToolTypes,
       ProviderTypes,
       CallRecords, CallStates, FetchRecords, Events

\* There is room for the number of one more attempt.
LEMMA AttemptFits ==
  ASSUME TypeOK, Counted
  PROVE  /\ IsFiniteSet(Asked) /\ Cardinality(Asked) \in Nat
         /\ Mine \in 0 .. MaxStarts
         /\ \A i \in Starts : i \notin Asked => Mine < MaxStarts
<1>1. IsFiniteSet(Starts) /\ Cardinality(Starts) = MaxStarts
  BY FS_Interval, PageBounds DEF Starts
<1>2. Asked \in SUBSET Starts
  BY DEF Asked
<1>3. /\ IsFiniteSet(Asked) /\ Cardinality(Asked) <= MaxStarts /\ Cardinality(Asked) \in Nat
      /\ Cardinality(Starts) = Cardinality(Asked) => Starts = Asked
  BY <1>1, <1>2, FS_Subset, FS_CardinalityType
<1>4. MaxStarts \in Nat /\ Mine = Cardinality(Asked)
  BY PageBounds DEF Counted
<1> QED
  BY <1>1, <1>3, <1>4

\* The attempt that the page or the next one is about to make has a number.
LEMMA NextFits ==
  ASSUME IInv, gw.next = 0 \/ \E i \in Starts : call[i].at = "reading"
  PROVE  gw.attempts + 1 \in Attempts
<1>1. MaxStarts \in Nat /\ gw.attempts \in Nat /\ Mine \in 0 .. MaxStarts
  BY AttemptFits, TypeParts, PageBounds DEF IInv, GatewayTypes, Attempts
<1>2. CASE gw.next = 0
  BY <1>1, <1>2 DEF Mine, Attempts
<1>3. ASSUME NEW i \in Starts, call[i].at = "reading" PROVE Mine < MaxStarts
  <2>1. i \notin Asked
    BY <1>3 DEF IInv, Counted, Unasked, Asked
  <2> QED
    BY <2>1, AttemptFits DEF IInv
<1> QED
  BY <1>1, <1>2, <1>3 DEF Mine, Attempts

\* Nothing but a start counts the starts.
LEMMA StartsCounted ==
  ASSUME TypeOK, [Next]_vars
  PROVE  \/ starts' = starts
         \/ /\ starts' = starts + 1 /\ starts < MaxStarts
            /\ SocketOpens \/ ClickStart
            /\ tornDown' = FALSE /\ memo' = {}
            /\ call' = [call EXCEPT ![starts + 1].at = "mic"]
            /\ socket' \in {socket, "open"}
            /\ UNCHANGED <<peer, current, mics, gw, results, fetch, executed, response, playing,
                           wire, farewell, revived>>
<1> USE DEF pageVars, gatewayVars, providerVars, historyVars
<1>1. CASE SocketOpens \/ ClickStart
  BY <1>1 DEF SocketOpens, ClickStart, StartConversation
<1>2. CASE Stops \/ Takes \/ SocketDrops \/ OwnerMoves \/ WindowCloses \/ Calls
        \/ NextPageConnects \/ ProviderStep \/ UNCHANGED vars
  BY <1>2 DEF Stops, Takes, SocketDrops, OwnerMoves, WindowCloses, Calls, NextPageConnects,
              ProviderStep, ProviderResponds, ResponseEnds, AudioEnds, vars
<1>3. ASSUME NEW i \in Starts,
             MicrophoneGranted(i) \/ OfferCreated(i) \/ AttemptStep(i) \/ AnswerArrives(i)
               \/ PeerConnects(i)
      PROVE  starts' = starts
  BY <1>3 DEF MicrophoneGranted, OfferCreated, AttemptStep, SessionRequested, SessionAttempted,
              SessionAnswered, AnswerArrives, PeerConnects
<1>4. ASSUME NEW f \in Fetches, ToolStep(f) PROVE starts' = starts
  BY <1>4 DEF ToolStep, ExecuteRequested, PermissionCommanded, PermissionAnswered, ExecuteRefused,
              FunctionCallAnswered
<1> QED
  BY <1>1, <1>2, <1>3, <1>4, StepCases

\* A step keeps the type of the owner, of the socket and of the page's flags.
LEMMA FlagTypesKeep == ASSUME IInv, [Next]_vars PROVE FlagTypes'
<1> USE DEF FlagTypes, historyVars, pageVars
<1>1. FlagTypes /\ TypeOK
  BY TypeParts DEF IInv
<1>2. CASE SocketOpens \/ ClickStart
  BY <1>1, <1>2, Zenon DEF SocketOpens, ClickStart, StartConversation
<1>3. CASE Stops
  BY <1>1, <1>3, Zenon DEF Stops
<1>4. CASE WindowCloses
  BY <1>1, <1>4, Zenon DEF WindowCloses
<1>5. CASE Takes \/ SocketDrops \/ OwnerMoves
  BY <1>1, <1>5, Zenon DEF Takes, SocketDrops, OwnerMoves
<1>6. CASE Calls \/ NextPageConnects \/ ProviderStep \/ UNCHANGED vars
  BY <1>1, <1>6, Zenon DEF Calls, NextPageConnects, ProviderStep, ProviderResponds,
                           ResponseEnds, AudioEnds, vars
<1>7. ASSUME NEW i \in Starts, MicrophoneGranted(i) PROVE FlagTypes'
  BY <1>1, <1>7, Zenon DEF MicrophoneGranted
<1>8. ASSUME NEW i \in Starts,
             OfferCreated(i) \/ AttemptStep(i) \/ AnswerArrives(i) \/ PeerConnects(i)
      PROVE  FlagTypes'
  BY <1>1, <1>8, Zenon DEF OfferCreated, AttemptStep, SessionRequested, SessionAttempted,
                           SessionAnswered,
                           AnswerArrives, PeerConnects
<1>9. ASSUME NEW f \in Fetches, ToolStep(f) PROVE FlagTypes'
  BY <1>1, <1>9, Zenon DEF ToolStep, ExecuteRequested, PermissionCommanded, PermissionAnswered,
                           ExecuteRefused,
                           FunctionCallAnswered
<1> QED
  BY <1>1, <1>2, <1>3, <1>4, <1>5, <1>6, <1>7, <1>8, <1>9, StepCases

\* A step keeps the type of the page's calls and of what it points at.
LEMMA PageTypesKeep == ASSUME IInv, [Next]_vars PROVE PageTypes'
<1> USE DEF historyVars, pageVars
<1>1. PageTypes /\ TypeOK /\ MaxStarts \in Nat /\ MaxResponses \in Nat
  BY TypeParts, PageBounds DEF IInv
<1>2. starts' \in 0 .. MaxStarts
  <2>1. starts' = starts \/ (starts' = starts + 1 /\ starts < MaxStarts)
    BY <1>1, StartsCounted, Zenon
  <2> QED
    BY <1>1, <2>1 DEF PageTypes
<1>3. owner' \in {"page", "none", "next"} /\ socket' \in {"connecting", "open", "closed"}
  <2>1. /\ owner' \in {owner, "none", "next"}
        /\ socket' \in {socket, "open", "closed"}
    <3>1. CASE SocketOpens \/ ClickStart \/ Stops \/ Takes \/ SocketDrops \/ OwnerMoves
            \/ WindowCloses \/ Calls \/ NextPageConnects \/ ProviderStep \/ UNCHANGED vars
      BY <3>1 DEF SocketOpens, ClickStart, StartConversation, Stops, Takes, SocketDrops,
         OwnerMoves, WindowCloses, Calls, NextPageConnects, ProviderStep, ProviderResponds,
         ResponseEnds, AudioEnds, vars
    <3>2. ASSUME NEW i \in Starts,
                 MicrophoneGranted(i) \/ OfferCreated(i) \/ AttemptStep(i)
                   \/ AnswerArrives(i) \/ PeerConnects(i)
          PROVE  owner' = owner /\ socket' = socket
      BY <3>2 DEF MicrophoneGranted, OfferCreated, AttemptStep, SessionRequested,
                  SessionAttempted,
                  SessionAnswered, AnswerArrives, PeerConnects
    <3>3. ASSUME NEW f \in Fetches, ToolStep(f) PROVE owner' = owner /\ socket' = socket
      BY <3>3 DEF ToolStep, ExecuteRequested, PermissionCommanded, PermissionAnswered,
                  ExecuteRefused,
                  FunctionCallAnswered
    <3> QED
      BY <1>1, <3>1, <3>2, <3>3, StepCases
  <2> QED
    BY <1>1, <2>1 DEF PageTypes
<1>4. farewell' \in Farewells
  <2>1. farewell \in Farewells /\ NoFarewell \in Farewells
    BY <1>1 DEF PageTypes, Farewells, NoFarewell
  <2>2. CASE Stops \/ WindowCloses
    BY <2>1, <2>2 DEF Stops, WindowCloses
  <2>3. CASE Takes
    <3>1. ASSUME NEW n \in Responses PROVE [farewell EXCEPT !.id = n] \in Farewells
      BY <1>1, <2>1 DEF Farewells, Responses
    <3> QED
      BY <2>1, <2>3, <3>1 DEF Takes
  <2>4. CASE SocketOpens \/ ClickStart \/ SocketDrops \/ OwnerMoves \/ Calls
          \/ NextPageConnects \/ ProviderStep \/ UNCHANGED vars
    BY <2>1, <2>4 DEF SocketOpens, ClickStart, SocketDrops, OwnerMoves, Calls,
       NextPageConnects, ProviderStep, ProviderResponds, ResponseEnds, AudioEnds, vars
  <2>5. ASSUME NEW i \in Starts,
               MicrophoneGranted(i) \/ OfferCreated(i) \/ AttemptStep(i)
                 \/ AnswerArrives(i) \/ PeerConnects(i)
        PROVE  farewell' = farewell
    BY <2>5 DEF MicrophoneGranted, OfferCreated, AttemptStep, SessionRequested, SessionAttempted,
                SessionAnswered, AnswerArrives, PeerConnects
  <2>6. ASSUME NEW f \in Fetches, ToolStep(f) PROVE farewell' \in Farewells
    <3>1. [farewell EXCEPT !.latched = TRUE, !.timer = TRUE] \in Farewells
      BY <2>1 DEF Farewells
    <3> QED
      BY <2>1, <2>6, <3>1 DEF ToolStep, ExecuteRequested, PermissionCommanded,
                              PermissionAnswered, ExecuteRefused,
                              FunctionCallAnswered
  <2> QED
    BY <1>1, <2>1, <2>2, <2>3, <2>4, <2>5, <2>6, StepCases
<1> QED
  BY <1>2, <1>3, <1>4 DEF PageTypes, Farewells

\* A step keeps the type of the connections and of the microphones.
LEMMA MediaTypesKeep == ASSUME IInv, [Next]_vars PROVE MediaTypes'
<1> USE DEF MediaTypes, mediaVars, CallRecords, Pointers
<1>1. MediaTypes /\ PageTypes /\ GatewayTypes /\ TypeOK /\ MaxStarts \in Nat /\ 0 \in Attempts
      /\ 0 \in 0 .. MaxStarts /\ \A i \in Starts : i \in 0 .. MaxStarts
  BY TypeParts, PageBounds DEF IInv, Attempts, Starts
<1>2. CASE SocketOpens \/ ClickStart
  <2>1. /\ starts + 1 \in Starts /\ call' = [call EXCEPT ![starts + 1].at = "mic"]
        /\ UNCHANGED <<peer, current, mics>>
    BY <1>1, <1>2 DEF SocketOpens, ClickStart, StartConversation, PageTypes, Starts
  <2> QED
    BY <1>1, <2>1 DEF CallStates
<1>3. CASE Stops
  <2>1. call' \in [Starts -> CallRecords]
    BY <1>1, <1>3 DEF Stops, Ends, CallStates
  <2>2. \/ UNCHANGED <<peer, current, mics>>
        \/ /\ peer' = [i \in Starts |-> IF i = current.pc THEN "closed" ELSE peer[i]]
           /\ mics' = mics \ {current.stream} /\ current' = NoCurrent
    BY <1>3 DEF Stops, Clears
  <2> QED
    BY <1>1, <2>1, <2>2 DEF NoCurrent
<1>4. CASE WindowCloses
  BY <1>1, <1>4 DEF WindowCloses, NoCurrent
<1>5. CASE Takes \/ SocketDrops \/ OwnerMoves \/ Calls \/ NextPageConnects \/ ProviderStep
        \/ UNCHANGED vars
  BY <1>1, <1>5 DEF Takes, SocketDrops, OwnerMoves, Calls, NextPageConnects, ProviderStep,
                    ProviderResponds, ResponseEnds, AudioEnds, vars
<1>6. ASSUME NEW i \in Starts,
             MicrophoneGranted(i) \/ OfferCreated(i) \/ AnswerArrives(i) \/ PeerConnects(i)
      PROVE  MediaTypes'
  <2>1. CASE MicrophoneGranted(i)
    <3>1. /\ call' = [call EXCEPT ![i].at = "offer"] /\ peer' = [peer EXCEPT ![i] = "new"]
          /\ current' = [current EXCEPT !.pc = i, !.stream = i] /\ mics' = mics \cup {i}
      BY <2>1 DEF MicrophoneGranted
    <3>2. call' \in [Starts -> CallRecords] /\ mics' \subseteq Starts
      BY <1>1, <3>1 DEF CallStates
    <3>3. peer' \in [Starts -> {"none", "new", "live", "closed"}]
      BY <1>1, <3>1
    <3>4. current' \in Pointers
      BY <1>1, <3>1
    <3> QED
      BY <3>2, <3>3, <3>4
  <2>2. CASE OfferCreated(i) \/ PeerConnects(i)
    BY <1>1, <2>2 DEF OfferCreated, PeerConnects, CallStates
  <2>3. CASE AnswerArrives(i)
    BY <1>1, <2>3 DEF AnswerArrives, CallStates
  <2> QED
    BY <1>6, <2>1, <2>2, <2>3
<1>7. ASSUME NEW i \in Starts, AttemptStep(i) PROVE MediaTypes'
  <2>1. CASE SessionAttempted(i)
    <3>1. gw.attempts + 1 \in Attempts
      BY <2>1, NextFits DEF SessionAttempted
    <3>2. /\ call' = [call EXCEPT ![i].at = "upstream", ![i].attempt = gw.attempts + 1]
          /\ UNCHANGED <<peer, current, mics>>
      BY <2>1 DEF SessionAttempted
    <3> DEFINE k == gw.attempts + 1
               c == [call EXCEPT ![i].at = "upstream"]
    <3>3. c \in [Starts -> CallRecords]
      BY <1>1 DEF CallStates
    <3>4. call' = [c EXCEPT ![i].attempt = k] /\ k \in Attempts
      BY <1>1, <3>1, <3>2
    <3> HIDE DEF c, k
    <3>5. call' \in [Starts -> CallRecords]
      BY <3>3, <3>4
    <3> QED
      BY <1>1, <3>2, <3>5
  <2>2. CASE SessionRequested(i)
    <3>1. /\ \/ call' = [call EXCEPT ![i].at = "reading"]
             \/ call' = [call EXCEPT ![i].at = "replied", ![i].scope = 0]
          /\ UNCHANGED <<peer, current, mics>>
      BY <2>2 DEF SessionRequested
    <3> QED
      BY <1>1, <3>1 DEF CallStates
  <2>3. ASSUME NEW accepted \in BOOLEAN, SessionAnswered(i, accepted) PROVE MediaTypes'
    BY <1>1, <2>3 DEF SessionAnswered, CallStates
  <2> QED
    BY <1>7, <2>1, <2>2, <2>3 DEF AttemptStep
<1>8. ASSUME NEW f \in Fetches, ToolStep(f) PROVE MediaTypes'
  BY <1>1, <1>8 DEF ToolStep, ExecuteRequested, PermissionCommanded, PermissionAnswered,
                    ExecuteRefused,
                    FunctionCallAnswered
<1> QED
  BY <1>2, <1>3, <1>4, <1>5, <1>6, <1>7, <1>8, StepCases, <1>1

\* A step keeps the type of the gateway's session.
LEMMA GatewayTypesKeep == ASSUME IInv, [Next]_vars PROVE GatewayTypes'
<1> USE DEF GatewayTypes, gatewayVars
<1>1. MediaTypes /\ GatewayTypes /\ TypeOK /\ MaxStarts \in Nat
  BY TypeParts, PageBounds DEF IInv
<1>2. CASE SocketOpens \/ ClickStart \/ Stops \/ WindowCloses \/ Takes \/ SocketDrops
        \/ OwnerMoves \/ Calls \/ ProviderStep \/ UNCHANGED vars
  BY <1>1, <1>2 DEF SocketOpens, ClickStart, Stops, WindowCloses, Takes, SocketDrops,
     OwnerMoves, Calls, ProviderStep, ProviderResponds, ResponseEnds, AudioEnds, vars
<1>3. CASE NextPageConnects
  <2>1. gw.attempts + 1 \in Attempts
    BY <1>3, NextFits DEF NextPageConnects
  <2> QED
    BY <1>3, <2>1 DEF NextPageConnects
<1>4. ASSUME NEW i \in Starts,
             MicrophoneGranted(i) \/ OfferCreated(i) \/ AnswerArrives(i) \/ PeerConnects(i)
      PROVE  GatewayTypes'
  BY <1>1, <1>4 DEF MicrophoneGranted, OfferCreated, AnswerArrives, PeerConnects
<1>5. ASSUME NEW i \in Starts, AttemptStep(i) PROVE GatewayTypes'
  <2>1. SessionAttempted(i) => gw.attempts + 1 \in Attempts
    BY NextFits DEF SessionAttempted
  <2>2. call[i].attempt \in Attempts
    BY <1>1 DEF MediaTypes, CallRecords
  <2> QED
    BY <1>1, <1>5, <2>1, <2>2 DEF AttemptStep, SessionRequested, SessionAttempted, SessionAnswered
<1>6. ASSUME NEW f \in Fetches, ToolStep(f) PROVE GatewayTypes'
  <2>1. f[1] \in Responses
    BY DEF Fetches
  <2> QED
    BY <1>1, <1>6, <2>1 DEF ToolStep, ExecuteRequested, PermissionCommanded, PermissionAnswered,
                            ExecuteRefused,
                            FunctionCallAnswered
<1> QED
  BY <1>1, <1>2, <1>3, <1>4, <1>5, <1>6, StepCases

\* A step keeps the type of the channel and of what the provider is at.
LEMMA ProviderTypesKeep == ASSUME IInv, [Next]_vars PROVE ProviderTypes'
<1> USE DEF ProviderTypes, providerVars
<1>1. ProviderTypes /\ TypeOK /\ MaxResponses \in Nat /\ <<>> \in Seq(Events)
      /\ response.n \in 0 .. MaxResponses
  BY TypeParts, PageBounds DEF IInv
<1>2. CASE Stops \/ WindowCloses
  BY <1>1, <1>2 DEF Stops, Clears, WindowCloses
<1>3. CASE Takes \/ Calls
  <2>1. Tail(wire) \in Seq(Events)
    BY <1>1, <1>3, HeadTailProperties DEF Takes, Calls
  <2> QED
    BY <1>1, <1>3, <2>1 DEF Takes, Calls
<1>4. CASE SocketOpens \/ ClickStart \/ SocketDrops \/ OwnerMoves \/ NextPageConnects
        \/ UNCHANGED vars
  BY <1>1, <1>4 DEF SocketOpens, ClickStart, SocketDrops, OwnerMoves, NextPageConnects, vars
<1>5. ASSUME NEW c \in Kinds, ProviderResponds(c) PROVE ProviderTypes'
  <2>1. response.n + 1 \in Responses /\ response.n + 1 \in 0 .. MaxResponses
    BY <1>1, <1>5 DEF ProviderResponds, Responses
  <2>2. Event("call", response.n + 1, c, TRUE) \in Events
    BY <2>1 DEF Event, Events
  <2>3. wire' \in Seq(Events)
    BY <1>1, <1>5, <2>2, AppendProperties DEF ProviderResponds
  <2> QED
    BY <1>1, <1>5, <2>1, <2>3 DEF ProviderResponds
<1>6. ASSUME NEW ok \in BOOLEAN, ResponseEnds(ok), response.n # 0 PROVE ProviderTypes'
  <2>1. response.n \in Responses
    BY <1>1, <1>6 DEF Responses
  <2>2. Event("done", response.n, response.call, ok) \in Events
    BY <1>1, <2>1 DEF Event, Events
  <2>3. wire' \in Seq(Events)
    BY <1>1, <1>6, <2>2, AppendProperties DEF ResponseEnds
  <2> QED
    BY <1>1, <1>6, <2>3 DEF ResponseEnds
<1>7. ASSUME NEW n \in Responses, AudioEnds(n) PROVE ProviderTypes'
  <2>1. Event("stopped", n, "none", TRUE) \in Events
    BY DEF Event, Events, Kinds
  <2>2. wire' \in Seq(Events)
    BY <1>1, <1>7, <2>1, AppendProperties DEF AudioEnds
  <2> QED
    BY <1>1, <1>7, <2>2 DEF AudioEnds
<1>8. ASSUME NEW i \in Starts,
             MicrophoneGranted(i) \/ OfferCreated(i) \/ AttemptStep(i) \/ AnswerArrives(i)
               \/ PeerConnects(i)
      PROVE  ProviderTypes'
  BY <1>1, <1>8 DEF MicrophoneGranted, OfferCreated, AttemptStep, SessionRequested,
                    SessionAttempted,
                    SessionAnswered, AnswerArrives, PeerConnects
<1>9. ASSUME NEW f \in Fetches, ToolStep(f) PROVE ProviderTypes'
  BY <1>1, <1>9 DEF ToolStep, ExecuteRequested, PermissionCommanded, PermissionAnswered,
                    ExecuteRefused,
                    FunctionCallAnswered
<1>10. response.active => response.n # 0
  BY DEF IInv, InOrder, Ordered
<1> QED
  BY <1>1, <1>2, <1>3, <1>4, <1>5, <1>6, <1>7, <1>8, <1>9, <1>10, StepCases
     DEF ProviderStep, ResponseEnds

\* A step keeps the type of the requests and of what was carried out.
LEMMA ToolTypesKeep == ASSUME IInv, [Next]_vars, RanOnce' PROVE ToolTypes'
<1> USE DEF ToolTypes, toolVars
<1>1. ToolTypes /\ MediaTypes /\ TypeOK
      /\ current.pc \in 0 .. MaxStarts /\ current.scope \in Attempts
  BY TypeParts DEF IInv, MediaTypes, Pointers
<1>2. memo' \subseteq Responses /\ fetch' \in [Fetches -> FetchRecords]
  <2>1. CASE SocketOpens \/ ClickStart \/ Stops \/ WindowCloses \/ Takes \/ SocketDrops
          \/ OwnerMoves \/ NextPageConnects \/ ProviderStep \/ UNCHANGED vars
    BY <1>1, <2>1 DEF SocketOpens, ClickStart, StartConversation, Stops, Clears, WindowCloses,
       Takes, SocketDrops, OwnerMoves, NextPageConnects, ProviderStep, ProviderResponds,
       ResponseEnds, AudioEnds, vars
  <2>2. CASE Calls
    <3> DEFINE n == Head(wire).id
               c == Head(wire).call
               k == IF fetch[<<n, 1>>].at = "none" THEN 1 ELSE 2
               r == [at |-> "sent", pc |-> current.pc, scope |-> current.scope, kind |-> c]
    <3>1. n \in Responses /\ c \in Kinds
      BY <1>1, <2>2, HeadTyped DEF Calls, Events
    <3>2. <<n, k>> \in Fetches /\ r \in FetchRecords
      BY <1>1, <3>1 DEF Fetches, FetchRecords
    <3>3. \/ memo' = memo /\ fetch' = fetch
          \/ memo' = memo \cup {n} /\ fetch' = [fetch EXCEPT ![<<n, k>>] = r]
      BY <2>2 DEF Calls, ExecuteFunctionCall
    <3> HIDE DEF n, k, r
    <3> QED
      BY <1>1, <3>1, <3>2, <3>3
  <2>3. ASSUME NEW i \in Starts,
               MicrophoneGranted(i) \/ OfferCreated(i) \/ AttemptStep(i)
                 \/ AnswerArrives(i) \/ PeerConnects(i)
        PROVE  memo' = memo /\ fetch' = fetch
    BY <2>3 DEF MicrophoneGranted, OfferCreated, AttemptStep, SessionRequested, SessionAttempted,
                SessionAnswered, AnswerArrives, PeerConnects
  <2>4. ASSUME NEW f \in Fetches, ToolStep(f)
        PROVE  memo' = memo /\ fetch' \in [Fetches -> FetchRecords]
    BY <1>1, <2>4 DEF ToolStep, ExecuteRequested, PermissionCommanded, PermissionAnswered,
                      ExecuteRefused,
       FunctionCallAnswered, Settles, FetchRecords
  <2> QED
    BY <1>1, <2>1, <2>2, <2>3, <2>4, StepCases
<1>3. executed' \in [Responses -> Nat]
  <2>1. executed \in [Responses -> Nat]
    BY <1>1
  <2>2. CASE SocketOpens \/ ClickStart \/ Stops \/ WindowCloses \/ Takes \/ Calls
          \/ SocketDrops \/ OwnerMoves \/ NextPageConnects \/ ProviderStep \/ UNCHANGED vars
    BY <2>1, <2>2 DEF SocketOpens, ClickStart, Stops, WindowCloses, Takes, Calls, SocketDrops,
       OwnerMoves, NextPageConnects, ProviderStep, ProviderResponds, ResponseEnds, AudioEnds,
       vars
  <2>3. ASSUME NEW i \in Starts,
               MicrophoneGranted(i) \/ OfferCreated(i) \/ AttemptStep(i)
                 \/ AnswerArrives(i) \/ PeerConnects(i)
        PROVE  executed' = executed
    BY <2>3 DEF MicrophoneGranted, OfferCreated, AttemptStep, SessionRequested, SessionAttempted,
                SessionAnswered, AnswerArrives, PeerConnects
  <2>4. ASSUME NEW f \in Fetches, ToolStep(f) PROVE executed' \in [Responses -> Nat]
    BY <2>1, <2>4 DEF ToolStep, ExecuteRequested, PermissionCommanded, PermissionAnswered,
                      ExecuteRefused,
                      FunctionCallAnswered, Fetches
  <2> QED
    BY <1>1, <2>1, <2>2, <2>3, <2>4, StepCases
<1>4. \A n \in Responses : executed'[n] \in 0 .. 2
  <2> SUFFICES ASSUME NEW n \in Responses PROVE executed'[n] \in 0 .. 2
    OBVIOUS
  <2>1. Ran(<<n, 1>>)' \in {0, 1} /\ Ran(<<n, 2>>)' \in {0, 1}
    BY DEF Ran
  <2>2. executed'[n] \in Nat /\ executed'[n] <= Ran(<<n, 1>>)' + Ran(<<n, 2>>)'
    BY <1>3 DEF RanOnce
  <2> QED
    BY <2>1, <2>2
<1> QED
  BY <1>2, <1>3, <1>4
-----------------------------------------------------------------------------
(* The gateway hands out scopes in the order of its attempts. *)

\* A step the gateway has no part in.
Beside ==
  /\ gw' = gw
  /\ \A i \in Starts :
       /\ call'[i].attempt = call[i].attempt /\ call'[i].scope = call[i].scope
       /\ call'[i].at \in Unasked => call[i].at \in Unasked
       /\ call'[i].at = "upstream" => call[i].at = "upstream"
  /\ \/ current'.scope \in {0, current.scope}
     \/ \E i \in Starts : current'.scope = call[i].scope
  /\ \A f \in Fetches : fetch'[f].scope \in {fetch[f].scope, current.scope}

\* What a step does to the scopes: who hands one out, and who takes one over.
LEMMA GatewayCases ==
  ASSUME IInv, [Next]_vars
  PROVE  Beside \/ NextPageConnects \/ \E i \in Starts : AttemptStep(i)
<1> USE DEF Beside, mediaVars, gatewayVars, toolVars, pageVars
<1>1. TypeOK /\ call \in [Starts -> CallRecords] /\ fetch \in [Fetches -> FetchRecords]
      /\ starts \in Nat /\ current \in Pointers
  BY TypeParts DEF IInv, MediaTypes, ToolTypes, PageTypes
<1>2. CASE SocketOpens \/ ClickStart
  <2>1. starts + 1 \in Starts
    BY <1>1, <1>2, PageBounds DEF SocketOpens, ClickStart, StartConversation, Starts
  <2>2. call[starts + 1].at = "idle"
    BY <1>1, <2>1 DEF IInv, Pointed
  <2> QED
    BY <1>1, <1>2, <2>1, <2>2 DEF SocketOpens, ClickStart, StartConversation, CallRecords,
                                  Unasked
<1>3. CASE Stops
  BY <1>1, <1>3 DEF Stops, Ends, Clears, NoCurrent, CallRecords, Unasked
<1>4. CASE Takes \/ SocketDrops \/ ProviderStep \/ UNCHANGED vars
  BY <1>4 DEF Takes, SocketDrops, ProviderStep, ProviderResponds, ResponseEnds, AudioEnds, vars
<1>5. CASE OwnerMoves \/ WindowCloses
  BY <1>5 DEF OwnerMoves, WindowCloses, NoCurrent
<1>8. CASE Calls
  <2> DEFINE r(c) == [at |-> "sent", pc |-> current.pc, scope |-> current.scope, kind |-> c]
  <2>1. \/ fetch' = fetch
        \/ \E g \in Fetches : fetch' = [fetch EXCEPT ![g] = r(Head(wire).call)]
    <3>1. Head(wire).id \in Responses
      BY <1>1, <1>8, HeadTyped DEF Calls, Events
    <3> QED
      BY <1>8, <3>1 DEF Calls, ExecuteFunctionCall, Fetches
  <2>2. \A c : r(c).scope = current.scope
    OBVIOUS
  <2> HIDE DEF r
  <2>3. \A f \in Fetches : fetch'[f].scope \in {fetch[f].scope, current.scope}
    BY <1>1, <2>1, <2>2
  <2> QED
    BY <1>8, <2>3 DEF Calls
<1>6. ASSUME NEW i \in Starts,
             MicrophoneGranted(i) \/ OfferCreated(i) \/ AnswerArrives(i) \/ PeerConnects(i)
      PROVE  Beside
  <2>1. current' = [current EXCEPT !.pc = i, !.stream = i] => current'.scope = current.scope
    BY <1>1 DEF Pointers
  <2>2. current' = [current EXCEPT !.scope = call[i].scope] => current'.scope = call[i].scope
    BY <1>1 DEF Pointers
  <2> QED
    BY <1>1, <1>6, <2>1, <2>2 DEF MicrophoneGranted, OfferCreated, AnswerArrives,
       PeerConnects, CallRecords, Unasked
<1>7. ASSUME NEW f \in Fetches, ToolStep(f) PROVE Beside
  BY <1>1, <1>7 DEF ToolStep, ExecuteRequested, PermissionCommanded, PermissionAnswered,
                    ExecuteRefused,
                    FunctionCallAnswered, Settles, FetchRecords
<1> QED
  BY <1>1, <1>2, <1>3, <1>4, <1>5, <1>6, <1>7, <1>8, StepCases

\* The numbers of the gateway and of the page are naturals.
LEMMA Numbers ==
  ASSUME IInv
  PROVE  /\ gw.attempts \in Nat /\ gw.scope \in Nat /\ Mine \in Nat
         /\ gw.session \in {"none", "page", "next"} /\ gw.next \in Nat
         /\ call \in [Starts -> CallRecords] /\ fetch \in [Fetches -> FetchRecords]
         /\ current \in Pointers /\ current.scope \in Nat
         /\ \A i \in Starts : call[i].attempt \in Nat /\ call[i].scope \in Nat
         /\ \A f \in Fetches : fetch[f].scope \in Nat
<1>1. Mine \in Nat
  BY AttemptFits, PageBounds DEF IInv
<1>2. \A a \in Attempts : a \in Nat
  BY PageBounds DEF Attempts
<1> QED
  BY <1>1, <1>2, TypeParts
     DEF IInv, GatewayTypes, MediaTypes, ToolTypes, CallRecords, FetchRecords, Pointers

\* What an attempt does, counted or answered.
LEMMA AttemptMoves ==
  ASSUME IInv, NEW i \in Starts, AttemptStep(i)
  PROVE  /\ current' = current /\ fetch' = fetch
         /\ \/ /\ call[i].at = "posted" /\ gw' = gw
               /\ call' = [call EXCEPT ![i].at = "reading"]
            \/ /\ call[i].at = "reading"
               /\ gw' = [gw EXCEPT !.attempts = @ + 1]
               /\ call' = [call EXCEPT ![i].at = "upstream", ![i].attempt = gw.attempts + 1]
            \/ /\ call[i].at = "upstream" /\ call[i].attempt = gw.attempts
               /\ gw' = [gw EXCEPT !.session = "page", !.scope = call[i].attempt]
               /\ call' = [call EXCEPT ![i].at = "replied", ![i].scope = call[i].attempt]
            \/ /\ call[i].at \in {"posted", "upstream"} /\ gw' = gw
               /\ call' = [call EXCEPT ![i].at = "replied", ![i].scope = 0]
BY DEF AttemptStep, SessionRequested, SessionAttempted, SessionAnswered, mediaVars, toolVars,
       pageVars, gatewayVars

\* A step keeps the count of the attempts.
LEMMA CountedKeeps == ASSUME IInv, [Next]_vars PROVE Counted'
<1> USE Numbers DEF IInv, Mine, Asked
<1>1. Counted /\ IsFiniteSet(Asked)
  BY AttemptFits
<1>2. CASE Beside
  <2>1. Asked' = Asked /\ Mine' = Mine
    BY <1>2 DEF Beside
  <2> QED
    BY <1>1, <1>2, <2>1 DEF Beside, Counted, Unasked
<1>3. CASE NextPageConnects
  <2>1. Asked' = Asked /\ Mine' = Mine /\ call' = call
    BY <1>3 DEF NextPageConnects, mediaVars
  <2> QED
    BY <1>1, <2>1 DEF Counted
<1>4. ASSUME NEW i \in Starts, AttemptStep(i) PROVE Counted'
  <2>1. CASE /\ call[i].at = "reading"
             /\ gw' = [gw EXCEPT !.attempts = @ + 1]
             /\ call' = [call EXCEPT ![i].at = "upstream", ![i].attempt = gw.attempts + 1]
    <3>1. i \notin Asked
      BY <1>1, <2>1 DEF Counted, Unasked
    <3>2. Asked' = Asked \cup {i} /\ Mine' = Mine + 1
      BY <2>1, <3>1, TypeParts DEF CallRecords, GatewayTypes
    <3>3. Cardinality(Asked') = Cardinality(Asked) + 1
      BY <1>1, <3>1, <3>2, FS_AddElement
    <3> QED
      BY <1>1, <2>1, <3>2, <3>3 DEF Counted, CallRecords, Unasked
  <2>2. CASE /\ call[i].at = "upstream" /\ call[i].attempt = gw.attempts
             /\ gw' = [gw EXCEPT !.session = "page", !.scope = call[i].attempt]
             /\ call' = [call EXCEPT ![i].at = "replied", ![i].scope = call[i].attempt]
    <3>1. Asked' = Asked /\ Mine' = Mine
      BY <2>2, TypeParts DEF CallRecords, GatewayTypes
    <3> QED
      BY <1>1, <2>2, <3>1 DEF Counted, CallRecords, Unasked
  <2>3. CASE /\ call[i].at \in {"posted", "upstream"} /\ gw' = gw
             /\ call' = [call EXCEPT ![i].at = "replied", ![i].scope = 0]
    <3>1. Asked' = Asked /\ Mine' = Mine
      BY <2>3 DEF CallRecords
    <3> QED
      BY <1>1, <2>3, <3>1 DEF Counted, CallRecords, Unasked
  <2>4. CASE /\ call[i].at = "posted" /\ gw' = gw
             /\ call' = [call EXCEPT ![i].at = "reading"]
    <3>1. Asked' = Asked /\ Mine' = Mine
      BY <2>4 DEF CallRecords
    <3> QED
      BY <1>1, <2>4, <3>1 DEF Counted, CallRecords, Unasked
  <2> QED
    BY <1>4, <2>1, <2>2, <2>3, <2>4, AttemptMoves
<1> QED
  BY <1>2, <1>3, <1>4, GatewayCases

\* A scope the page sees is the number of an attempt it made.
LEMMA ScopedKeeps == ASSUME IInv, [Next]_vars PROVE Scoped'
<1> USE Numbers DEF IInv, Own
<1>1. CASE Beside
  <2>1. ASSUME NEW i \in Starts
        PROVE  Own(call[i].attempt)' /\ call'[i].scope \in {0, call'[i].attempt}
    BY <1>1, <2>1 DEF Beside, Scoped
  <2>2. \A i \in Starts : Own(call[i].scope) /\ Own(0)
    BY DEF Scoped
  <2>3. Own(current.scope)'
    BY <1>1, <2>2 DEF Beside, Scoped
  <2>4. ASSUME NEW f \in Fetches PROVE Own(fetch[f].scope)'
    BY <1>1 DEF Beside, Scoped
  <2> QED
    BY <1>1, <2>1, <2>3, <2>4 DEF Beside, Scoped
<1>2. CASE NextPageConnects
  <2>1. /\ UNCHANGED <<call, current, fetch>>
        /\ gw'.attempts = gw.attempts + 1 /\ gw'.next = gw.attempts + 1
        /\ gw'.scope = gw'.next /\ gw'.session = "next"
    BY <1>2 DEF NextPageConnects, mediaVars, toolVars
  <2>2. \A k \in Nat : Own(k) => k <= gw'.attempts /\ k # gw'.next
    BY <2>1
  <2> QED
    BY <2>1, <2>2 DEF Scoped
<1>3. ASSUME NEW i \in Starts, AttemptStep(i) PROVE Scoped'
  <2> USE DEF Scoped, CallRecords, GatewayTypes
  <2>0. /\ current' = current /\ fetch' = fetch
        /\ call \in [Starts -> CallRecords] /\ GatewayTypes
    BY <1>3, AttemptMoves, TypeParts
  <2>1. CASE /\ call[i].at = "reading"
             /\ gw' = [gw EXCEPT !.attempts = @ + 1]
             /\ call' = [call EXCEPT ![i].at = "upstream", ![i].attempt = gw.attempts + 1]
    <3>1. gw'.attempts = gw.attempts + 1 /\ gw'.next = gw.next /\ gw'.scope = gw.scope
          /\ gw'.session = gw.session
      BY <2>0, <2>1
    <3>2. call[i].attempt = 0 /\ call[i].scope = 0
      BY <2>0, <2>1 DEF Counted, Unasked
    <3>3. \A j \in Starts : Own(call[j].attempt)' /\ call'[j].scope \in {0, call'[j].attempt}
      BY <2>0, <2>1, <3>1, <3>2
    <3> QED
      BY <2>0, <2>1, <3>1, <3>3
  <2>2. CASE /\ call[i].at = "upstream" /\ call[i].attempt = gw.attempts
             /\ gw' = [gw EXCEPT !.session = "page", !.scope = call[i].attempt]
             /\ call' = [call EXCEPT ![i].at = "replied", ![i].scope = call[i].attempt]
    <3>1. gw'.attempts = gw.attempts /\ gw'.next = gw.next /\ gw'.session = "page"
      BY <2>0, <2>2
    <3>2. \A j \in Starts : Own(call[j].attempt)' /\ call'[j].scope \in {0, call'[j].attempt}
      BY <2>0, <2>2, <3>1
    <3> QED
      BY <2>0, <2>2, <3>1, <3>2
  <2>3. CASE /\ call[i].at \in {"posted", "upstream"} /\ gw' = gw
             /\ call' = [call EXCEPT ![i].at = "replied", ![i].scope = 0]
    BY <2>0, <2>3
  <2>4. CASE /\ call[i].at = "posted" /\ gw' = gw
             /\ call' = [call EXCEPT ![i].at = "reading"]
    BY <2>0, <2>4
  <2> QED
    BY <1>3, <2>1, <2>2, <2>3, <2>4, AttemptMoves
<1> QED
  BY <1>1, <1>2, <1>3, GatewayCases

\* The gateway's scope stays the newest it has handed out.
LEMMA NewestKeeps == ASSUME IInv, [Next]_vars PROVE Newest'
<1> USE Numbers DEF IInv, Newest
<1>1. CASE Beside
  BY <1>1 DEF Beside
<1>2. CASE NextPageConnects
  BY <1>2 DEF NextPageConnects
<1>3. ASSUME NEW i \in Starts, AttemptStep(i) PROVE Newest'
  <2> USE DEF CallRecords, GatewayTypes
  <2>0. call \in [Starts -> CallRecords] /\ GatewayTypes
    BY TypeParts
  <2>1. CASE /\ call[i].at = "reading"
             /\ gw' = [gw EXCEPT !.attempts = @ + 1]
             /\ call' = [call EXCEPT ![i].at = "upstream", ![i].attempt = gw.attempts + 1]
    <3>1. \A j \in Starts : call'[j].scope = call[j].scope
      BY <2>0, <2>1
    <3>2. call[i].attempt = 0
      BY <2>0, <2>1 DEF Counted, Unasked
    <3>3. gw.session = "page" => gw.scope # 0
      OBVIOUS
    <3> QED
      BY <2>0, <2>1, <3>1, <3>2, <3>3
  <2>2. CASE /\ call[i].at = "upstream" /\ call[i].attempt = gw.attempts
             /\ gw' = [gw EXCEPT !.session = "page", !.scope = call[i].attempt]
             /\ call' = [call EXCEPT ![i].at = "replied", ![i].scope = call[i].attempt]
    <3>1. call'[i].attempt = gw'.scope /\ gw'.scope = gw.attempts /\ gw'.scope # 0
      BY <2>0, <2>2 DEF Counted
    <3>2. \A j \in Starts : call[j].scope <= gw.attempts
      BY <2>0, <2>2 DEF Scoped, Own
    <3>3. \A j \in Starts : call'[j].scope <= gw'.scope
      BY <2>0, <2>2, <3>1, <3>2
    <3> QED
      BY <3>1, <3>3
  <2>3. CASE /\ call[i].at \in {"posted", "upstream"} /\ gw' = gw
             /\ call' = [call EXCEPT ![i].at = "replied", ![i].scope = 0]
    BY <2>0, <2>3
  <2>4. CASE /\ call[i].at = "posted" /\ gw' = gw
             /\ call' = [call EXCEPT ![i].at = "reading"]
    BY <2>0, <2>4
  <2> QED
    BY <1>3, <2>1, <2>2, <2>3, <2>4, AttemptMoves
<1> QED
  BY <1>1, <1>2, <1>3, GatewayCases
-----------------------------------------------------------------------------
(* What the page points at, and that it is connected. *)
-----------------------------------------------------------------------------
(* What the page points at, and that it is connected. *)

\* The page's first start is the end of its first connection.
LEMMA UntouchedKeeps == ASSUME IInv, [Next]_vars PROVE Untouched'
<1>1. /\ TypeOK /\ Untouched /\ Pointed /\ starts \in 0 .. MaxStarts /\ MaxStarts \in Nat
      /\ fetch \in [Fetches -> FetchRecords] /\ farewell \in Farewells
      /\ starts' \in 0 .. MaxStarts /\ current \in Pointers
  BY TypeParts, PageBounds, PageTypesKeep DEF IInv, PageTypes, ToolTypes, MediaTypes
<1>2. starts' = 0 => starts = 0
  <2>1. starts' = starts \/ starts' = starts + 1
    BY <1>1, StartsCounted, Zenon
  <2> QED
    BY <1>1, <2>1
<1>3. ASSUME starts = 0
      PROVE  /\ current.pc = 0 /\ ~farewell.timer
             /\ \A i \in Starts : call[i].at = "idle"
             /\ \A f \in Fetches : fetch[f].at = "none"
  <2>1. \A i \in Starts : i > starts
    BY <1>3 DEF Starts
  <2>2. \A i \in Starts : call[i].at = "idle"
    BY <1>1, <2>1 DEF Pointed
  <2>3. current.pc = 0
    BY <1>1, <2>2 DEF Pointed, Pointers, Starts
  <2> QED
    BY <1>1, <1>3, <2>2, <2>3 DEF Untouched
<1>4. ASSUME starts' = 0
      PROVE  /\ ~farewell'.timer /\ (\A f \in Fetches : fetch'[f].at = "none")
             /\ (socket' = "connecting" => ~tornDown')
  <2>0. starts = 0 /\ ~LiveMedia
    BY <1>2, <1>3, <1>4 DEF LiveMedia
  <2>1. CASE SocketOpens \/ ClickStart
    BY <1>1, <1>4, <2>0, <2>1 DEF SocketOpens, ClickStart, StartConversation
  <2>2. CASE SocketLost
    BY <1>1, <1>3, <2>0, <2>2 DEF SocketLost, StopConversation, NoFarewell
  <2>3. CASE StopFrameArrives \/ SessionClosedArrives
    BY <1>1, <1>3, <2>0, <2>3 DEF StopFrameArrives, SessionClosedArrives, StopConversation,
                                  NoFarewell
  <2>4. CASE WindowCloses
    BY <1>3, <2>0, <2>4 DEF WindowCloses, NoFarewell
  <2>5. CASE SessionEnds \/ NextSession \/ NextPageConnects \/ ProviderStep \/ UNCHANGED vars
    <3>1. farewell' = farewell /\ fetch' = fetch /\ socket' = socket /\ tornDown' = tornDown
      BY <2>5, Zenon DEF SessionEnds, NextSession, NextPageConnects, ProviderStep,
         ProviderResponds, ResponseEnds, AudioEnds, vars, toolVars, pageVars
    <3> QED
      BY <1>1, <1>3, <2>0, <3>1, Zenon DEF Untouched
  <2>6. ~TransportFails /\ ~UserStops /\ ~PageEvent /\ ~FallbackTimer
    BY <1>3, <2>0 DEF TransportFails, UserStops, PageEvent, OnCallArguments, OnResponseDone,
                      OnAudioStopped, Receives, FallbackTimer
  <2>7. ASSUME NEW i \in Starts, StartStep(i) PROVE FALSE
    BY <1>3, <2>0, <2>7 DEF StartStep, MicrophoneGranted, OfferCreated, StartFails,
       SessionRequested, SessionAttempted, SessionAnswered, AnswerArrives, PeerConnects
  <2>8. ASSUME NEW f \in Fetches, ToolStep(f) PROVE FALSE
    BY <1>3, <2>0, <2>8 DEF ToolStep, ExecuteRequested, PermissionCommanded, PermissionAnswered,
                            ExecuteRefused,
                            FunctionCallAnswered
  <2> QED
    BY <2>1, <2>2, <2>3, <2>4, <2>5, <2>6, <2>7, <2>8 DEF Next, ProviderStep
<1>5. socket' = "connecting" => socket = "connecting" /\ ~SocketOpens /\ ~ClickStart
  <2>1. SocketOpens => socket' = "open"
    BY DEF SocketOpens
  <2>2. ClickStart => tornDown /\ socket' = socket
    BY DEF ClickStart
  <2>3. socket' = "connecting" => socket = "connecting"
    <3>1. CASE SocketOpens \/ ClickStart
      BY <3>1, <2>1, <2>2
    <3>2. CASE Stops \/ WindowCloses \/ Takes \/ Calls \/ SocketDrops \/ OwnerMoves
            \/ NextPageConnects \/ ProviderStep \/ UNCHANGED vars
      BY <3>2 DEF Stops, WindowCloses, Takes, Calls, SocketDrops, OwnerMoves, NextPageConnects,
         ProviderStep, ProviderResponds, ResponseEnds, AudioEnds, vars, pageVars
    <3>3. ASSUME NEW i \in Starts,
                 MicrophoneGranted(i) \/ OfferCreated(i) \/ AttemptStep(i)
                   \/ AnswerArrives(i) \/ PeerConnects(i)
          PROVE  socket' = socket
      BY <3>3 DEF MicrophoneGranted, OfferCreated, AttemptStep, SessionRequested,
                  SessionAttempted,
                  SessionAnswered, AnswerArrives, PeerConnects, pageVars
    <3>4. ASSUME NEW f \in Fetches, ToolStep(f) PROVE socket' = socket
      BY <3>4 DEF ToolStep, ExecuteRequested, PermissionCommanded, PermissionAnswered,
                  ExecuteRefused,
                  FunctionCallAnswered, pageVars
    <3> QED
      BY <1>1, <3>1, <3>2, <3>3, <3>4, StepCases
  <2> QED
    BY <1>1, <2>1, <2>2, <2>3, Zenon DEF Untouched
<1>6. socket' = "connecting" => starts' = 0
  <2>1. socket' = "connecting" => starts' = starts
    BY <1>1, <1>5, StartsCounted, Zenon
  <2> QED
    BY <1>1, <1>5, <2>1 DEF Untouched
<1> QED
  BY <1>4, <1>6 DEF Untouched

\* What the page points at stays what it points at, through every step.
LEMMA PointedKeeps == ASSUME IInv, [Next]_vars PROVE Pointed'
<1> USE DEF mediaVars, pageVars, providerVars, historyVars
<1>1. /\ TypeOK /\ Pointed /\ call \in [Starts -> CallRecords] /\ starts \in 0 .. MaxStarts
      /\ current \in Pointers /\ Starts = 1 .. MaxStarts /\ MaxStarts \in Nat
      /\ response \in [n : 0 .. MaxResponses, call : Kinds, active : BOOLEAN]
      /\ wire \in Seq(Events)
  BY TypeParts, PageBounds DEF IInv, MediaTypes, PageTypes, ProviderTypes, Starts
<1>2. current.pc = 0 \/ current.pc \in Starts
  BY <1>1 DEF Pointers
<1> DEFINE Here == <<starts, call, current, wire, playing, response>>
<1>3. UNCHANGED Here => Pointed'
  BY <1>1 DEF Pointed
<1>4. CASE SocketOpens \/ ClickStart
  <2>1. /\ starts' = starts + 1 /\ starts + 1 \in Starts
        /\ call' = [call EXCEPT ![starts + 1].at = "mic"]
        /\ UNCHANGED <<current, wire, playing, response>>
    BY <1>1, <1>4 DEF SocketOpens, ClickStart, StartConversation
  <2>2. call[starts + 1].at = "idle"
    BY <1>1, <2>1 DEF Pointed
  <2>3. \A i \in Starts : i > starts' => call'[i].at = "idle"
    BY <1>1, <2>1 DEF Pointed, CallRecords
  <2>4. current'.pc # 0 => call'[current'.pc].at \notin {"idle", "mic"}
    <3> SUFFICES ASSUME current.pc # 0 PROVE call'[current.pc].at \notin {"idle", "mic"}
      BY <2>1
    <3>1. current.pc \in Starts /\ current.pc # starts + 1
      BY <1>1, <1>2, <2>2 DEF Pointed
    <3> QED
      BY <1>1, <2>1, <3>1 DEF Pointed, CallRecords
  <2> QED
    BY <1>1, <2>1, <2>3, <2>4 DEF Pointed
<1>5. CASE Stops
  <2>1. starts' = starts /\ \A i \in Starts : call'[i].at \in {call[i].at, "over"}
    BY <1>1, <1>5 DEF Stops, Ends, CallRecords
  <2>2. \A i \in Starts : call[i].at = "idle" => call'[i].at = "idle"
    BY <1>1, <1>5 DEF Stops, Ends, CallRecords
  <2>3. \A i \in Starts : i > starts' => call'[i].at = "idle"
    BY <1>1, <2>1, <2>2 DEF Pointed
  <2>4. CASE UNCHANGED <<current, wire, playing, response>>
    BY <1>1, <1>2, <2>1, <2>3, <2>4 DEF Pointed
  <2>5. CASE Clears
    BY <1>1, <2>3, <2>5 DEF Clears, Pointed, NoCurrent
  <2> QED
    BY <1>5, <2>4, <2>5 DEF Stops
<1>6. CASE WindowCloses
  <2>1. UNCHANGED <<starts, call>> /\ current' = NoCurrent /\ wire' = <<>> /\ playing' = {}
        /\ response' = [response EXCEPT !.active = FALSE]
    BY <1>6 DEF WindowCloses
  <2> QED
    BY <1>1, <2>1 DEF Pointed, NoCurrent
<1>7. CASE Takes \/ Calls
  <2>1. UNCHANGED <<starts, call, current, playing, response>>
    BY <1>7 DEF Takes, Calls
  <2>2. wire # <<>>
    BY <1>7 DEF Takes, Calls
  <2> QED
    BY <1>1, <2>1, <2>2 DEF Pointed
<1>8. CASE SocketDrops \/ OwnerMoves \/ NextPageConnects \/ UNCHANGED vars
  BY <1>3, <1>8 DEF SocketDrops, OwnerMoves, NextPageConnects, vars
<1>9. CASE ProviderStep
  <2>1. UNCHANGED <<starts, call, current>>
    BY <1>9 DEF ProviderStep, ProviderResponds, ResponseEnds, AudioEnds
  <2>2. current.pc # 0
    BY <1>1, <1>9 DEF ProviderStep, ProviderResponds, ResponseEnds, AudioEnds, LiveMedia,
                      Pointed
  <2> QED
    BY <1>1, <2>1, <2>2 DEF Pointed
<1>10. ASSUME NEW i \in Starts,
             MicrophoneGranted(i) \/ OfferCreated(i) \/ AttemptStep(i) \/ AnswerArrives(i)
       PROVE  Pointed'
  <2>1. /\ UNCHANGED <<starts, wire, playing, response>>
        /\ \/ current' = current
           \/ current' = [current EXCEPT !.pc = i, !.stream = i]
           \/ current.pc = i /\ current' = [current EXCEPT !.scope = call[i].scope]
    BY <1>10 DEF MicrophoneGranted, OfferCreated, AttemptStep, SessionRequested, SessionAttempted,
                 SessionAnswered, AnswerArrives, CanApplyRemoteAnswer
  <2>2. /\ call'[i].at \notin {"idle", "mic"} /\ call[i].at # "idle"
        /\ \A j \in Starts \ {i} : call'[j] = call[j]
    <3>1. CASE MicrophoneGranted(i) \/ OfferCreated(i)
      BY <1>1, <3>1 DEF MicrophoneGranted, OfferCreated, CallRecords
    <3>2. CASE AttemptStep(i)
      BY <1>1, <3>2 DEF AttemptStep, SessionRequested, SessionAttempted, SessionAnswered,
                        CallRecords
    <3>3. CASE AnswerArrives(i)
      BY <1>1, <3>3 DEF AnswerArrives, CallRecords
    <3> QED
      BY <1>10, <3>1, <3>2, <3>3
  <2>7. /\ current'.stream = current'.pc /\ current'.pc \in {i, current.pc}
        /\ current'.pc = 0 => current' = current /\ current.pc = 0
    <3>1. CASE current' = current
      BY <3>1, <1>1 DEF Pointed
    <3>2. CASE current' = [current EXCEPT !.pc = i, !.stream = i]
      BY <3>2, <1>1 DEF Pointers
    <3>3. CASE current.pc = i /\ current' = [current EXCEPT !.scope = call[i].scope]
      BY <3>3, <1>1 DEF Pointers, Pointed
    <3> QED
      BY <2>1, <3>1, <3>2, <3>3
  <2>3. \A j \in Starts : j > starts' => call'[j].at = "idle"
    BY <1>1, <2>1, <2>2 DEF Pointed
  <2>4. current'.pc # 0 => call'[current'.pc].at \notin {"idle", "mic"}
    BY <1>1, <1>2, <2>2, <2>7 DEF Pointed
  <2> QED
    BY <1>1, <2>1, <2>3, <2>4, <2>7 DEF Pointed, NoCurrent
<1>11. ASSUME NEW i \in Starts, PeerConnects(i) PROVE Pointed'
  BY <1>3, <1>11 DEF PeerConnects
<1>12. ASSUME NEW f \in Fetches, ToolStep(f) PROVE Pointed'
  BY <1>3, <1>12 DEF ToolStep, ExecuteRequested, PermissionCommanded, PermissionAnswered,
                     ExecuteRefused,
                     FunctionCallAnswered
<1> QED
  BY <1>1, <1>4, <1>5, <1>6, <1>7, <1>8, <1>9, <1>10, <1>11, <1>12, StepCases

\* A conversation is live only after its answer, with the scope the answer brought.
LEMMA ConnectedKeeps == ASSUME IInv, [Next]_vars PROVE Connected'
<1> USE DEF mediaVars, pageVars, providerVars, historyVars
<1>1. /\ TypeOK /\ Pointed /\ Connected /\ call \in [Starts -> CallRecords] /\ starts \in 0 .. MaxStarts
      /\ current \in Pointers /\ Starts = 1 .. MaxStarts /\ MaxStarts \in Nat
      /\ peer \in [Starts -> {"none", "new", "live", "closed"}]
  BY TypeParts, PageBounds DEF IInv, MediaTypes, PageTypes, Starts
<1>2. current.pc = 0 \/ current.pc \in Starts
  BY <1>1 DEF Pointers
<1>3. UNCHANGED <<call, peer, current>> => Connected'
  BY <1>1 DEF Connected
<1>4. CASE SocketOpens \/ ClickStart
  <2>1. /\ starts + 1 \in Starts /\ call' = [call EXCEPT ![starts + 1].at = "mic"]
        /\ UNCHANGED <<current, peer>>
    BY <1>1, <1>4 DEF SocketOpens, ClickStart, StartConversation
  <2>2. call[starts + 1].at = "idle"
    BY <1>1, <2>1 DEF Pointed
  <2> QED
    BY <1>1, <1>2, <2>1, <2>2 DEF Connected, CallRecords
<1>5. CASE Stops
  <2>1. call' = call \/ \E i \in Starts : /\ call[i].at # "applied"
                                          /\ call' = [call EXCEPT ![i].at = "over"]
    BY <1>5 DEF Stops, Ends
  <2>2. \A i \in Starts : /\ call'[i].at = "applied" <=> call[i].at = "applied"
                          /\ call'[i].scope = call[i].scope
    BY <1>1, <2>1 DEF CallRecords
  <2>3. CASE UNCHANGED <<peer, current>>
    BY <1>1, <1>2, <2>2, <2>3 DEF Connected
  <2>4. CASE Clears
    BY <1>1, <2>2, <2>4 DEF Clears, Connected, NoCurrent
  <2> QED
    BY <1>5, <2>3, <2>4 DEF Stops
<1>6. CASE WindowCloses
  BY <1>1, <1>6 DEF WindowCloses, NoCurrent, Connected
<1>7. CASE Takes \/ Calls \/ SocketDrops \/ OwnerMoves \/ NextPageConnects \/ ProviderStep
        \/ UNCHANGED vars
  BY <1>3, <1>7 DEF Takes, Calls, SocketDrops, OwnerMoves, NextPageConnects, ProviderStep,
                    ProviderResponds, ResponseEnds, AudioEnds, vars
<1>8. ASSUME NEW i \in Starts,
             MicrophoneGranted(i) \/ OfferCreated(i) \/ AttemptStep(i)
      PROVE  Connected'
  <2>1. /\ call[i].at # "applied" /\ call'[i].at # "applied"
        /\ \A j \in Starts \ {i} : call'[j] = call[j]
    <3>1. CASE MicrophoneGranted(i) \/ OfferCreated(i)
      BY <1>1, <3>1 DEF MicrophoneGranted, OfferCreated, CallRecords
    <3>2. CASE AttemptStep(i)
      BY <1>1, <3>2 DEF AttemptStep, SessionRequested, SessionAttempted, SessionAnswered,
                        CallRecords
    <3> QED
      BY <1>8, <3>1, <3>2
  <2>2. \A j \in Starts : peer'[j] = "live" => peer[j] = "live"
    BY <1>1, <1>8 DEF MicrophoneGranted, OfferCreated, AttemptStep, SessionRequested,
                      SessionAttempted,
                      SessionAnswered
  <2>3. current' = current \/ current'.pc = i
    <3>1. current' = current \/ current' = [current EXCEPT !.pc = i, !.stream = i]
      BY <1>8 DEF MicrophoneGranted, OfferCreated, AttemptStep, SessionRequested,
                  SessionAttempted,
                  SessionAnswered
    <3> QED
      BY <1>1, <3>1 DEF Pointers
  <2> QED
    BY <1>1, <1>2, <2>1, <2>2, <2>3 DEF Connected
<1>9. ASSUME NEW i \in Starts, AnswerArrives(i) PROVE Connected'
  <2>1. peer' = peer /\ call[i].at = "replied" /\ call[i].scope # 0
    BY <1>9 DEF AnswerArrives
  <2>2. CASE CanApplyRemoteAnswer(i)
    <3>1. /\ current.pc = i /\ current' = [current EXCEPT !.scope = call[i].scope]
          /\ call' = [call EXCEPT ![i].at = "applied"]
      BY <1>9, <2>2 DEF AnswerArrives, CanApplyRemoteAnswer
    <3>2. current'.pc = i /\ current'.scope = call'[i].scope /\ call'[i].scope # 0
      BY <1>1, <2>1, <3>1 DEF Pointers, CallRecords
    <3> QED
      BY <1>1, <2>1, <3>1, <3>2 DEF Connected, CallRecords
  <2>3. CASE ~CanApplyRemoteAnswer(i)
    <3>1. current' = current /\ call' = [call EXCEPT ![i].at = "over"]
      BY <1>9, <2>3 DEF AnswerArrives
    <3> QED
      BY <1>1, <1>2, <2>1, <3>1 DEF Connected, CallRecords
  <2> QED
    BY <2>2, <2>3
<1>10. ASSUME NEW i \in Starts, PeerConnects(i) PROVE Connected'
  BY <1>1, <1>10 DEF PeerConnects, Connected
<1>11. ASSUME NEW f \in Fetches, ToolStep(f) PROVE Connected'
  BY <1>3, <1>11 DEF ToolStep, ExecuteRequested, PermissionCommanded, PermissionAnswered,
                     ExecuteRefused,
                     FunctionCallAnswered
<1> QED
  BY <1>1, <1>4, <1>5, <1>6, <1>7, <1>8, <1>9, <1>10, <1>11, StepCases
-----------------------------------------------------------------------------
(* The calls of a response, and the events that name them. *)

Cleared == wire' = <<>> /\ response' = [response EXCEPT !.active = FALSE]
Taken == wire # <<>> /\ wire' = Tail(wire) /\ response' = response

\* What a step does to the channel.
LEMMA ChannelCases ==
  ASSUME TypeOK, [Next]_vars
  PROVE  UNCHANGED <<wire, response>> \/ Cleared \/ Taken \/ ProviderStep
<1> USE DEF providerVars, Cleared, Taken
<1>1. CASE SocketOpens \/ ClickStart \/ SocketDrops \/ OwnerMoves \/ NextPageConnects
        \/ UNCHANGED vars
  BY <1>1 DEF SocketOpens, ClickStart, SocketDrops, OwnerMoves, NextPageConnects, vars
<1>2. CASE Stops \/ WindowCloses \/ Takes \/ Calls
  BY <1>2 DEF Stops, Clears, WindowCloses, Takes, Calls
<1>3. ASSUME NEW i \in Starts,
             MicrophoneGranted(i) \/ OfferCreated(i) \/ AttemptStep(i) \/ AnswerArrives(i)
               \/ PeerConnects(i)
      PROVE  UNCHANGED <<wire, response>>
  BY <1>3 DEF MicrophoneGranted, OfferCreated, AttemptStep, SessionRequested, SessionAttempted,
              SessionAnswered, AnswerArrives, PeerConnects
<1>4. ASSUME NEW f \in Fetches, ToolStep(f) PROVE UNCHANGED <<wire, response>>
  BY <1>4 DEF ToolStep, ExecuteRequested, PermissionCommanded, PermissionAnswered, ExecuteRefused,
              FunctionCallAnswered
<1> QED
  BY <1>1, <1>2, <1>3, <1>4, StepCases

\* The rest of a channel, and a channel with one event more.
LEMMA TailAt ==
  ASSUME wire \in Seq(Events), wire # <<>>
  PROVE  /\ Len(Tail(wire)) = Len(wire) - 1 /\ Len(wire) \in Nat /\ Len(wire) >= 1
         /\ Head(wire) = wire[1] /\ Head(wire) \in Events
         /\ \A j \in 1 .. Len(Tail(wire)) : Tail(wire)[j] = wire[j + 1]
BY HeadTailProperties, EmptySeq

LEMMA AppendAt ==
  ASSUME wire \in Seq(Events), NEW e \in Events
  PROVE  /\ Len(Append(wire, e)) = Len(wire) + 1 /\ Len(wire) \in Nat
         /\ Append(wire, e)[Len(wire) + 1] = e
         /\ \A j \in 1 .. Len(wire) : Append(wire, e)[j] = wire[j]
BY AppendProperties

LEMMA ChannelTypes ==
  ASSUME IInv
  PROVE  /\ wire \in Seq(Events) /\ Len(wire) \in Nat
         /\ \A j \in 1 .. Len(wire) : wire[j] \in Events /\ wire[j].id \in Nat
                                      /\ wire[j].kind \in {"call", "done", "stopped"}
         /\ response \in [n : 0 .. MaxResponses, call : Kinds, active : BOOLEAN]
         /\ response.n \in Nat /\ MaxResponses \in Nat
<1>1. MaxResponses \in Nat /\ \A n \in Responses : n \in Nat
  BY PageBounds DEF Responses
<1>2. wire \in Seq(Events)
      /\ response \in [n : 0 .. MaxResponses, call : Kinds, active : BOOLEAN]
  BY TypeParts DEF IInv, ProviderTypes
<1>3. Len(wire) \in Nat /\ \A j \in 1 .. Len(wire) : wire[j] \in Events
  BY <1>2, ElementOfSeq, LenProperties
<1> QED
  BY <1>1, <1>2, <1>3 DEF Events

\* What the provider adds.
LEMMA ProviderAdds ==
  ASSUME IInv, ProviderStep
  PROVE  \/ /\ response'.n = response.n + 1 /\ response'.active /\ ~response.active
            /\ wire' = wire \/ \E e \in Events : /\ e.kind = "call" /\ e.id = response'.n
                                                 /\ wire' = Append(wire, e)
         \/ /\ response.active /\ ~response'.active /\ response'.n = response.n
            /\ \E e \in Events : /\ e.kind = "done" /\ e.id = response.n
                                 /\ wire' = Append(wire, e)
         \/ /\ response' = response
            /\ \E e \in Events : e.kind = "stopped" /\ wire' = Append(wire, e)
<1> USE ChannelTypes
<1>1. ASSUME NEW c \in Kinds, ProviderResponds(c)
      PROVE  /\ response'.n = response.n + 1 /\ response'.active /\ ~response.active
             /\ wire' = wire \/ \E e \in Events : /\ e.kind = "call" /\ e.id = response'.n
                                                  /\ wire' = Append(wire, e)
  <2>1. response.n + 1 \in Responses
    BY <1>1 DEF ProviderResponds, Responses
  <2>2. Event("call", response.n + 1, c, TRUE) \in Events
    BY <2>1 DEF Event, Events
  <2> QED
    BY <1>1, <2>2 DEF ProviderResponds, Event
<1>2. ASSUME NEW ok \in BOOLEAN, ResponseEnds(ok)
      PROVE  /\ response.active /\ ~response'.active /\ response'.n = response.n
             /\ \E e \in Events : /\ e.kind = "done" /\ e.id = response.n
                                  /\ wire' = Append(wire, e)
  <2>1. response.n \in Responses
    BY <1>2 DEF ResponseEnds, Responses, IInv, InOrder, Ordered
  <2>2. Event("done", response.n, response.call, ok) \in Events
    BY <2>1 DEF Event, Events
  <2> QED
    BY <1>2, <2>2 DEF ResponseEnds, Event
<1>3. ASSUME NEW n \in Responses, AudioEnds(n)
      PROVE  /\ response' = response
             /\ \E e \in Events : e.kind = "stopped" /\ wire' = Append(wire, e)
  <2>1. Event("stopped", n, "none", TRUE) \in Events
    BY DEF Event, Events, Kinds
  <2> QED
    BY <1>3, <2>1 DEF AudioEnds, Event
<1> QED
  BY <1>1, <1>2, <1>3, Zenon DEF ProviderStep

\* Response n is ahead of every event, and the events come in order.
LEMMA InOrderKeeps == ASSUME IInv, [Next]_vars PROVE InOrder'
<1>1. /\ Ordered(wire, response) /\ TypeOK
      /\ \A j \in 1 .. Len(wire) : wire[j].id \in Nat
      /\ wire \in Seq(Events) /\ response.n \in Nat /\ Len(wire) \in Nat
  BY ChannelTypes DEF IInv, InOrder
<1>2. CASE UNCHANGED <<wire, response>>
  BY <1>1, <1>2, Zenon DEF InOrder
<1>3. CASE Cleared
  <2>1. wire' = <<>> /\ ~response'.active
    BY <1>3, ChannelTypes DEF Cleared
  <2> QED
    BY <2>1 DEF InOrder, Ordered
<1>4. CASE Taken
  <2> DEFINE w == Tail(wire)
  <2>1. /\ \A j \in 1 .. Len(w) : j + 1 \in 1 .. Len(wire) /\ w[j] = wire[j + 1]
        /\ Len(w) \in Nat
    BY <1>1, <1>4, TailAt DEF Taken
  <2> HIDE DEF w
  <2>2. \A j \in 1 .. Len(w) : w[j].kind # "stopped" =>
          /\ w[j].id <= response.n
          /\ w[j].kind = "done" /\ response.active => w[j].id < response.n
    BY <1>1, <2>1 DEF Ordered
  <2>3. ASSUME NEW j \in 1 .. Len(w), NEW k \in 1 .. Len(w), j < k,
               w[j].kind # "stopped", w[k].kind # "stopped"
        PROVE  Later(w[j], w[k])
    <3>1. j + 1 < k + 1
      BY <2>1, <2>3
    <3> QED
      BY <1>1, <2>1, <2>3, <3>1 DEF Ordered
  <2>4. Ordered(w, response)
    BY <1>1, <2>2, <2>3 DEF Ordered
  <2> QED
    BY <1>4, <2>4, Zenon DEF Taken, InOrder, w
<1>5. CASE ProviderStep
  <2>1. ASSUME response'.n = response.n + 1, wire' = wire PROVE InOrder'
    BY <1>1, <2>1 DEF InOrder, Ordered
  <2>2. ASSUME NEW e \in Events, wire' = Append(wire, e), response'.n >= response.n,
               response'.n \in Nat, response'.active => response'.n # 0,
               \A j \in 1 .. Len(wire) : wire[j].kind # "stopped" =>
                  /\ wire[j].kind = "done" /\ response'.active => wire[j].id < response'.n
                  /\ e.kind # "stopped" => Later(wire[j], e),
               e.kind # "stopped" => /\ e.id <= response'.n
                                     /\ e.kind = "done" => ~response'.active
        PROVE  InOrder'
    <3> DEFINE w == Append(wire, e)
    <3>1. /\ Len(w) = Len(wire) + 1 /\ w[Len(wire) + 1] = e
          /\ \A j \in 1 .. Len(wire) : w[j] = wire[j]
      BY <1>1, AppendAt
    <3> HIDE DEF w
    <3>2. \A j \in 1 .. Len(w) : j \in 1 .. Len(wire) \/ j = Len(wire) + 1
      BY <1>1, <3>1
    <3>3. ASSUME NEW j \in 1 .. Len(w), w[j].kind # "stopped"
          PROVE  /\ w[j].id <= response'.n
                 /\ w[j].kind = "done" /\ response'.active => w[j].id < response'.n
      <4>1. CASE j \in 1 .. Len(wire)
        BY <1>1, <2>2, <3>1, <3>3, <4>1 DEF Ordered
      <4>2. CASE j = Len(wire) + 1
        BY <2>2, <3>1, <3>3, <4>2
      <4> QED
        BY <3>2, <4>1, <4>2
    <3>4. ASSUME NEW j \in 1 .. Len(w), NEW k \in 1 .. Len(w), j < k,
                 w[j].kind # "stopped", w[k].kind # "stopped"
          PROVE  Later(w[j], w[k])
      <4>1. j \in 1 .. Len(wire) /\ w[j] = wire[j]
        BY <1>1, <3>1, <3>4
      <4>2. CASE k \in 1 .. Len(wire)
        BY <1>1, <3>1, <3>4, <4>1, <4>2 DEF Ordered
      <4>3. CASE k = Len(wire) + 1
        BY <2>2, <3>1, <3>4, <4>1, <4>3
      <4> QED
        BY <3>2, <4>2, <4>3
    <3>5. Ordered(w, response')
      BY <2>2, <3>3, <3>4 DEF Ordered
    <3> QED
      BY <2>2, <3>5, Zenon DEF InOrder, w
  <2>3. ASSUME response'.n = response.n + 1, response'.active,
               NEW e \in Events, e.kind = "call", e.id = response'.n, wire' = Append(wire, e)
        PROVE  InOrder'
    BY <1>1, <2>2, <2>3 DEF Ordered, Later
  <2>4. ASSUME response.active, ~response'.active, response'.n = response.n,
               NEW e \in Events, e.kind = "done", e.id = response.n, wire' = Append(wire, e)
        PROVE  InOrder'
    <3>1. \A j \in 1 .. Len(wire) : wire[j].kind # "stopped" => Later(wire[j], e)
      BY <1>1, <2>4, ChannelTypes DEF Ordered, Later
    <3> QED
      BY <1>1, <2>2, <2>4, <3>1
  <2>5. ASSUME response' = response,
               NEW e \in Events, e.kind = "stopped", wire' = Append(wire, e)
        PROVE  InOrder'
    BY <1>1, <2>2, <2>5 DEF Ordered
  <2> QED
    BY <1>5, <2>1, <2>3, <2>4, <2>5, ProviderAdds, Zenon
<1> QED
  BY <1>1, <1>2, <1>3, <1>4, <1>5, ChannelCases

\* Who is named after a step was named before it, but for a response that just began.
LEMMA NamedKeeps ==
  ASSUME IInv, [Next]_vars, NEW n \in Responses, Named(n)'
  PROVE  Named(n) \/ (response'.n = response.n + 1 /\ n = response.n + 1)
<1>1. /\ wire \in Seq(Events) /\ Len(wire) \in Nat /\ TypeOK
      /\ response \in [n : 0 .. MaxResponses, call : Kinds, active : BOOLEAN]
  BY ChannelTypes DEF IInv
<1>2. CASE UNCHANGED <<wire, response>>
  <2>1. Named(n)' <=> Named(n)
    BY <1>2 DEF Named
  <2> QED
    BY <2>1
<1>3. CASE Cleared
  <2>1. wire' = <<>> /\ ~response'.active
    BY <1>1, <1>3 DEF Cleared
  <2> QED
    BY <2>1 DEF Named
<1>4. CASE Taken
  <2>1. \A j \in 1 .. Len(wire') : j + 1 \in 1 .. Len(wire) /\ wire'[j] = wire[j + 1]
    BY <1>1, <1>4, TailAt DEF Taken
  <2> QED
    BY <1>4, <2>1 DEF Named, Names, Taken
<1>5. CASE ProviderStep
  <2>1. ASSUME NEW e \in Events, wire' = Append(wire, e),
               \E j \in 1 .. Len(wire') : Names(wire'[j], n)
        PROVE  (\E j \in 1 .. Len(wire) : Names(wire[j], n)) \/ Names(e, n)
    <3>1. \A j \in 1 .. Len(wire') :
            (j \in 1 .. Len(wire) /\ wire'[j] = wire[j]) \/ wire'[j] = e
      BY <1>1, <2>1, AppendAt
    <3> QED
      BY <2>1, <3>1 DEF Names
  <2>2. CASE response'.n = response.n + 1 /\ ~response.active
    <3>1. response'.active /\ response'.n = n => n = response.n + 1
      BY <2>2
    <3>2. (\E j \in 1 .. Len(wire') : Names(wire'[j], n)) => Named(n) \/ n = response'.n
      BY <1>5, <2>1, <2>2, ProviderAdds, <1>1, ChannelTypes DEF Named, Names
    <3> QED
      BY <2>2, <3>1, <3>2 DEF Named
  <2>3. CASE response.active /\ ~response'.active /\ response'.n = response.n
    <3>1. PICK e \in Events : e.kind = "done" /\ e.id = response.n /\ wire' = Append(wire, e)
      BY <1>5, <2>3, ProviderAdds, ChannelTypes
    <3> QED
      BY <2>1, <2>3, <3>1 DEF Named, Names
  <2>4. CASE response' = response
    <3>1. PICK e \in Events : e.kind = "stopped" /\ wire' = Append(wire, e)
      BY <1>5, <2>4, ProviderAdds, ChannelTypes
    <3> QED
      BY <2>1, <2>4, <3>1 DEF Named, Names
  <2> QED
    BY <1>5, <2>2, <2>3, <2>4, ProviderAdds
<1> QED
  BY <1>1, <1>2, <1>3, <1>4, <1>5, ChannelCases

\* What is left to be named once an event was taken.
LEMMA TakenNames ==
  ASSUME IInv, Taken, NEW n \in Responses, n = Head(wire).id
  PROVE  /\ Head(wire).kind \in {"call", "done"} =>
              Named(n) /\ n <= response.n
              /\ \A j \in 1 .. Len(wire') : wire'[j].id = n => wire'[j].kind # "call"
         /\ Head(wire).kind = "done" => ~Named(n)'
<1>1. /\ Ordered(wire, response) /\ wire \in Seq(Events) /\ Len(wire) \in Nat
      /\ response' = response /\ wire # <<>> /\ n \in Nat
      /\ \A j \in 1 .. Len(wire) : wire[j].kind \in {"call", "done", "stopped"}
  BY ChannelTypes, PageBounds DEF IInv, InOrder, Taken, Responses
<1>2. /\ \A j \in 1 .. Len(wire') : /\ j + 1 \in 1 .. Len(wire) /\ wire'[j] = wire[j + 1]
                                    /\ 1 < j + 1
      /\ Head(wire) = wire[1] /\ 1 \in 1 .. Len(wire)
  BY <1>1, TailAt DEF Taken
<1>3. ASSUME Head(wire).kind \in {"call", "done"}
      PROVE  Named(n) /\ n <= response.n
             /\ \A j \in 1 .. Len(wire') : wire'[j].kind # "stopped" => Later(Head(wire), wire'[j])
  BY <1>1, <1>2, <1>3 DEF Named, Names, Ordered
<1>4. ASSUME Head(wire).kind \in {"call", "done"}, NEW j \in 1 .. Len(wire'), wire'[j].id = n
      PROVE  wire'[j].kind # "call"
  BY <1>1, <1>3, <1>4 DEF Later
<1>5. ASSUME Head(wire).kind = "done" PROVE ~Named(n)'
  <2>1. \A j \in 1 .. Len(wire') : ~Names(wire'[j], n)
    BY <1>1, <1>3, <1>5 DEF Names, Later
  <2>2. response.active => n < response.n
    BY <1>1, <1>2, <1>5 DEF Ordered
  <2> QED
    BY <1>1, <2>1, <2>2, ChannelTypes DEF Named
<1> QED
  BY <1>3, <1>4, <1>5

\* Who asks the gateway: the first call of a response's events, or its second.
Asks(f) ==
  /\ f[1] \notin memo /\ f[1] = Head(wire).id /\ Head(wire).kind \in {"call", "done"} /\ Taken
  /\ f[2] = (IF fetch[<<f[1], 1>>].at = "none" THEN 1 ELSE 2)
  /\ memo' = memo \cup {f[1]} /\ fetch'[f].at = "sent"
  /\ \A g \in Fetches \ {f} : fetch'[g] = fetch[g]

\* A step that calls a function asks once more for it.
LEMMA CallsAsk ==
  ASSUME IInv, Calls
  PROVE  UNCHANGED <<fetch, memo>> \/ \E f \in Fetches : Asks(f)
<1>1. TypeOK /\ fetch \in [Fetches -> FetchRecords]
  BY TypeParts DEF IInv, ToolTypes
<1>2. Taken /\ Head(wire).kind \in {"call", "done"}
  BY DEF Calls, Taken
<1>3. PICK n \in Responses : n = Head(wire).id
  BY <1>1, <1>2, HeadTyped DEF Taken, Events
<1>4. CASE n \in memo
  BY <1>3, <1>4 DEF Calls, ExecuteFunctionCall
<1>5. CASE n \notin memo
  <2> DEFINE k == IF fetch[<<n, 1>>].at = "none" THEN 1 ELSE 2
             f == <<n, k>>
  <2>1. f \in Fetches /\ f[1] = n /\ f[2] = k
    BY DEF Fetches
  <2>2. /\ memo' = memo \cup {n}
        /\ fetch' = [fetch EXCEPT ![f] = [at |-> "sent", pc |-> current.pc,
                                          scope |-> current.scope, kind |-> Head(wire).call]]
    BY <1>3, <1>5, Zenon DEF Calls, ExecuteFunctionCall
  <2>3. fetch'[f].at = "sent" /\ \A g \in Fetches \ {f} : fetch'[g] = fetch[g]
    <3> HIDE DEF f
    <3> QED
      BY <1>1, <2>1, <2>2
  <2>4. Asks(f)
    BY <1>2, <1>3, <1>5, <2>1, <2>2, <2>3 DEF Asks
  <2> QED
    BY <2>1, <2>4
<1> QED
  BY <1>4, <1>5

LEMMA FetchCases ==
  ASSUME IInv, [Next]_vars
  PROVE  \/ Calls /\ \E f \in Fetches : Asks(f)
         \/ \A f \in Fetches : fetch'[f].at = "none" <=> fetch[f].at = "none"
<1>1. TypeOK /\ fetch \in [Fetches -> FetchRecords]
  BY TypeParts DEF IInv, ToolTypes
<1>2. CASE Calls
  BY <1>2, CallsAsk
<1>3. CASE SocketOpens \/ ClickStart \/ Stops \/ WindowCloses \/ Takes \/ SocketDrops \/ OwnerMoves
        \/ NextPageConnects \/ ProviderStep \/ UNCHANGED vars
  BY <1>3 DEF SocketOpens, ClickStart, Stops, WindowCloses, Takes, SocketDrops, OwnerMoves,
     NextPageConnects, ProviderStep, ProviderResponds, ResponseEnds, AudioEnds, vars, toolVars
<1>4. ASSUME NEW i \in Starts,
             MicrophoneGranted(i) \/ OfferCreated(i) \/ AttemptStep(i) \/ AnswerArrives(i)
               \/ PeerConnects(i)
      PROVE  fetch' = fetch
  BY <1>4 DEF MicrophoneGranted, OfferCreated, AttemptStep, SessionRequested, SessionAttempted,
              SessionAnswered, AnswerArrives, PeerConnects, toolVars
<1>5. ASSUME NEW f \in Fetches, ToolStep(f)
      PROVE  \A g \in Fetches : fetch'[g].at = "none" <=> fetch[g].at = "none"
  BY <1>1, <1>5 DEF ToolStep, ExecuteRequested, PermissionCommanded, PermissionAnswered,
                    ExecuteRefused,
                    FunctionCallAnswered, Settles, FetchRecords
<1> QED
  BY <1>1, <1>2, <1>3, <1>4, <1>5, StepCases

\* An event asks a second time only if it is the last to name its call.
LEMMA AskedTwiceKeeps == ASSUME IInv, [Next]_vars PROVE AskedTwice'
<1>1. /\ AskedTwice /\ TypeOK /\ wire \in Seq(Events) /\ Len(wire) \in Nat
      /\ response.n \in Nat /\ \A n \in Responses : n \in Nat
  BY ChannelTypes, PageBounds DEF IInv, Responses
<1>2. response'.n \in {response.n, response.n + 1}
  <2>1. ProviderStep => response'.n \in {response.n, response.n + 1}
    BY ProviderAdds
  <2> QED
    BY <1>1, <2>1, ChannelCases, ChannelTypes DEF Cleared, Taken
<1>3. ASSUME NEW n \in Responses PROVE <<n, 1>> \in Fetches /\ <<n, 2>> \in Fetches
  BY DEF Fetches
<1>4. ASSUME NEW n \in Responses, NEW j \in 1 .. Len(wire'),
             wire'[j].id = n, wire'[j].kind = "call", n <= response.n
      PROVE  \E l \in 1 .. Len(wire) : wire[l].id = n /\ wire[l].kind = "call"
  <2>1. CASE UNCHANGED <<wire, response>>
    BY <1>4, <2>1
  <2>2. CASE Cleared
    BY <1>4, <2>2 DEF Cleared
  <2>3. CASE Taken
    <3>1. j + 1 \in 1 .. Len(wire) /\ wire'[j] = wire[j + 1]
      BY <1>1, <2>3, TailAt DEF Taken
    <3> QED
      BY <1>4, <3>1
  <2>4. CASE ProviderStep
    <3>1. ASSUME NEW e \in Events, wire' = Append(wire, e)
          PROVE  (j \in 1 .. Len(wire) /\ wire'[j] = wire[j]) \/ wire'[j] = e
      BY <1>1, <3>1, AppendAt
    <3> QED
      BY <1>1, <1>4, <2>4, <3>1, ProviderAdds
  <2> QED
    BY <1>1, <2>1, <2>2, <2>3, <2>4, ChannelCases
<1>5. CASE \A f \in Fetches : fetch'[f].at = "none" <=> fetch[f].at = "none"
  <2> SUFFICES ASSUME NEW n \in Responses
               PROVE  /\ fetch'[<<n, 1>>].at # "none" =>
                           /\ n <= response'.n
                           /\ \A j \in 1 .. Len(wire') : wire'[j].id = n => wire'[j].kind # "call"
                      /\ fetch'[<<n, 2>>].at # "none" => fetch'[<<n, 1>>].at # "none" /\ ~Named(n)'
    BY DEF AskedTwice
  <2>1. CASE fetch[<<n, 1>>].at # "none"
    <3>1. /\ n <= response.n
          /\ \A l \in 1 .. Len(wire) : wire[l].id = n => wire[l].kind # "call"
          /\ fetch[<<n, 2>>].at # "none" => ~Named(n)
      BY <1>1, <2>1 DEF AskedTwice
    <3>2. Named(n)' => Named(n)
      BY <1>1, <3>1, NamedKeeps
    <3> QED
      BY <1>1, <1>2, <1>3, <1>4, <1>5, <2>1, <3>1, <3>2
  <2>2. CASE fetch[<<n, 1>>].at = "none"
    BY <1>1, <1>3, <1>5, <2>2 DEF AskedTwice
  <2> QED
    BY <2>1, <2>2
<1>6. ASSUME NEW f \in Fetches, Asks(f) PROVE AskedTwice'
  <2>1. PICK m \in Responses : m = f[1] /\ f = <<m, f[2]>> /\ f[2] \in {1, 2}
    BY DEF Fetches
  <2>2. /\ Named(m) /\ m <= response.n /\ response' = response
        /\ \A j \in 1 .. Len(wire') : wire'[j].id = m => wire'[j].kind # "call"
        /\ Head(wire).kind = "done" => ~Named(m)'
    BY <1>6, <2>1, TakenNames DEF Asks, Taken
  <2>3. Head(wire).id = m /\ 1 \in 1 .. Len(wire) /\ Head(wire) = wire[1]
    BY <1>1, <1>6, <2>1, TailAt DEF Asks, Taken
  <2> SUFFICES ASSUME NEW n \in Responses
               PROVE  /\ fetch'[<<n, 1>>].at # "none" =>
                           /\ n <= response'.n
                           /\ \A j \in 1 .. Len(wire') : wire'[j].id = n => wire'[j].kind # "call"
                      /\ fetch'[<<n, 2>>].at # "none" => fetch'[<<n, 1>>].at # "none" /\ ~Named(n)'
    BY DEF AskedTwice
  <2>4. CASE n = m
    <3>1. CASE fetch[<<m, 1>>].at = "none"
      <4>1. f = <<m, 1>> /\ fetch[<<m, 2>>].at = "none"
        BY <1>1, <1>6, <2>1, <3>1 DEF AskedTwice, Asks
      <4>2. fetch'[<<m, 2>>] = fetch[<<m, 2>>] /\ fetch'[<<m, 1>>].at = "sent"
        BY <1>3, <1>6, <4>1 DEF Asks
      <4> QED
        BY <2>2, <2>4, <4>1, <4>2
    <3>2. CASE fetch[<<m, 1>>].at # "none"
      <4>1. f = <<m, 2>>
        BY <1>6, <2>1, <3>2 DEF Asks
      <4>2. fetch'[<<m, 1>>] = fetch[<<m, 1>>]
        BY <1>3, <1>6, <4>1 DEF Asks
      <4>3. Head(wire).kind = "done"
        BY <1>1, <1>6, <2>3, <3>2 DEF AskedTwice, Asks
      <4> QED
        BY <2>2, <2>4, <3>2, <4>2, <4>3
    <3> QED
      BY <3>1, <3>2
  <2>5. CASE n # m
    <3>1. fetch'[<<n, 1>>] = fetch[<<n, 1>>] /\ fetch'[<<n, 2>>] = fetch[<<n, 2>>]
      BY <1>3, <1>6, <2>1, <2>5 DEF Asks
    <3>2. fetch[<<n, 1>>].at # "none" =>
            n <= response.n /\ \A l \in 1 .. Len(wire) : wire[l].id = n => wire[l].kind # "call"
      BY <1>1 DEF AskedTwice
    <3>3. fetch[<<n, 2>>].at # "none" => fetch[<<n, 1>>].at # "none" /\ ~Named(n)
      BY <1>1 DEF AskedTwice
    <3>4. fetch[<<n, 1>>].at # "none" => (Named(n)' => Named(n))
      BY <1>1, <2>2, <3>2, NamedKeeps
    <3> QED
      BY <1>4, <2>2, <3>1, <3>2, <3>3, <3>4
  <2> QED
    BY <2>4, <2>5
<1> QED
  BY <1>5, <1>6, FetchCases

\* A request that has carried out nothing yet.
Waiting == {"sent", "running"}

\* What a request of the page comes to at the gateway.
LEMMA ToolMoves ==
  ASSUME TypeOK, NEW f \in Fetches, ToolStep(f)
  PROVE  /\ \A g \in Fetches \ {f} : fetch'[g] = fetch[g]
         /\ \/ executed' = executed /\ fetch[f].at # "none" /\ fetch'[f].at # "none"
               /\ (fetch[f].at \notin Waiting => fetch'[f].at \notin Waiting)
            \/ /\ fetch[f].at \in Waiting /\ fetch'[f].at \in {"ok", "commanded"}
               /\ executed' = [executed EXCEPT ![f[1]] = @ + 1]
<1>1. fetch \in [Fetches -> FetchRecords]
  BY TypeParts DEF ToolTypes
<1>2. CASE ExecuteRequested(f)
  BY <1>1, <1>2 DEF ExecuteRequested, Settles, FetchRecords, Waiting
<1>3. CASE PermissionCommanded(f) \/ PermissionAnswered(f) \/ ExecuteRefused(f)
        \/ FunctionCallAnswered(f)
  BY <1>1, <1>3 DEF PermissionCommanded, PermissionAnswered, ExecuteRefused,
                    FunctionCallAnswered, Settles, FetchRecords, Waiting
<1> QED
  BY <1>2, <1>3 DEF ToolStep

\* A request is carried out once at most.
LEMMA RanOnceKeeps == ASSUME IInv, [Next]_vars PROVE RanOnce'
<1>1. /\ RanOnce /\ AskedTwice /\ TypeOK /\ executed \in [Responses -> 0 .. 2]
      /\ fetch \in [Fetches -> FetchRecords]
  BY TypeParts DEF IInv, ToolTypes
<1>2. ASSUME NEW n \in Responses PROVE <<n, 1>> \in Fetches /\ <<n, 2>> \in Fetches
  BY DEF Fetches
<1>3. ASSUME NEW n \in Responses PROVE Ran(<<n, 1>>) \in {0, 1} /\ Ran(<<n, 2>>) \in {0, 1}
  BY DEF Ran
<1>4. CASE UNCHANGED <<fetch, executed>>
  BY <1>1, <1>4 DEF RanOnce, Ran
<1>5. ASSUME NEW f \in Fetches, Asks(f), executed' = executed PROVE RanOnce'
  <2>1. PICK m \in Responses : f = <<m, f[2]>> /\ m = f[1] /\ f[2] \in {1, 2}
    BY DEF Fetches
  <2>2. Named(m)
    BY <1>5, <2>1, TakenNames DEF Asks
  <2>3. fetch[f].at = "none"
    BY <1>1, <1>5, <2>1, <2>2 DEF AskedTwice, Asks
  <2>4. Ran(f) = 0 /\ Ran(f)' = 0
    BY <1>5, <2>3 DEF Ran, Asks
  <2>5. \A g \in Fetches : Ran(g)' = Ran(g)
    BY <1>5, <2>4 DEF Ran, Asks
  <2> QED
    BY <1>1, <1>2, <1>5, <2>5 DEF RanOnce
<1>6. ASSUME NEW f \in Fetches, ToolStep(f) PROVE RanOnce'
  <2>1. PICK m \in Responses : f = <<m, f[2]>> /\ m = f[1] /\ f[2] \in {1, 2}
    BY DEF Fetches
  <2>2. \A g \in Fetches \ {f} : Ran(g)' = Ran(g)
    BY <1>1, <1>6, ToolMoves DEF Ran
  <2>3. CASE executed' = executed /\ fetch[f].at # "none" /\ fetch'[f].at # "none"
             /\ (fetch[f].at \notin Waiting => fetch'[f].at \notin Waiting)
    <3>1. Ran(f)' >= Ran(f) /\ Ran(f)' \in {0, 1}
      BY <2>3 DEF Ran, Waiting
    <3>2. \A g \in Fetches : Ran(g)' >= Ran(g) /\ Ran(g)' \in {0, 1} /\ Ran(g) \in {0, 1}
      BY <2>2, <3>1 DEF Ran
    <3> SUFFICES ASSUME NEW n \in Responses
                 PROVE  executed'[n] <= Ran(<<n, 1>>)' + Ran(<<n, 2>>)'
      BY DEF RanOnce
    <3>3. /\ Ran(<<n, 1>>)' >= Ran(<<n, 1>>) /\ Ran(<<n, 1>>)' \in {0, 1}
          /\ Ran(<<n, 2>>)' >= Ran(<<n, 2>>) /\ Ran(<<n, 2>>)' \in {0, 1}
      BY <1>2, <3>2
    <3>4. executed'[n] \in 0 .. 2 /\ executed'[n] <= Ran(<<n, 1>>) + Ran(<<n, 2>>)
      BY <1>1, <2>3 DEF RanOnce
    <3> QED
      BY <1>3, <3>3, <3>4
  <2>4. CASE /\ fetch[f].at \in Waiting /\ fetch'[f].at \in {"ok", "commanded"}
             /\ executed' = [executed EXCEPT ![f[1]] = @ + 1]
    <3>1. Ran(f) = 0 /\ Ran(f)' = 1
      BY <2>4 DEF Ran, Waiting
    <3>2. executed'[m] = executed[m] + 1
          /\ \A n \in Responses \ {m} : executed'[n] = executed[n]
      BY <1>1, <2>1, <2>4
    <3>3. ASSUME NEW n \in Responses \ {m}
          PROVE  Ran(<<n, 1>>)' = Ran(<<n, 1>>) /\ Ran(<<n, 2>>)' = Ran(<<n, 2>>)
      <4>1. <<n, 1>> # f /\ <<n, 2>> # f
        BY <2>1
      <4> QED
        BY <1>2, <2>2, <4>1
    <3>4. Ran(<<m, 1>>)' + Ran(<<m, 2>>)' = Ran(<<m, 1>>) + Ran(<<m, 2>>) + 1
      <4>1. CASE f[2] = 1
        <5>1. f = <<m, 1>> /\ <<m, 2>> # f
          BY <2>1, <4>1
        <5>2. Ran(<<m, 2>>)' = Ran(<<m, 2>>)
          BY <1>2, <2>2, <5>1
        <5> QED
          BY <1>3, <3>1, <5>1, <5>2
      <4>2. CASE f[2] = 2
        <5>1. f = <<m, 2>> /\ <<m, 1>> # f
          BY <2>1, <4>2
        <5>2. Ran(<<m, 1>>)' = Ran(<<m, 1>>)
          BY <1>2, <2>2, <5>1
        <5> QED
          BY <1>3, <3>1, <5>1, <5>2
      <4> QED
        BY <2>1, <4>1, <4>2
    <3> SUFFICES ASSUME NEW n \in Responses
                 PROVE  executed'[n] <= Ran(<<n, 1>>)' + Ran(<<n, 2>>)'
      BY DEF RanOnce
    <3>5. executed[n] \in 0 .. 2 /\ executed[n] <= Ran(<<n, 1>>) + Ran(<<n, 2>>)
      BY <1>1 DEF RanOnce
    <3>6. CASE n = m
      <4>1. executed'[n] = executed[n] + 1
            /\ Ran(<<n, 1>>)' + Ran(<<n, 2>>)' = Ran(<<n, 1>>) + Ran(<<n, 2>>) + 1
        BY <3>2, <3>4, <3>6
      <4> QED
        BY <1>3, <3>5, <4>1
    <3>7. CASE n # m
      BY <3>2, <3>3, <3>5, <3>7
    <3> QED
      BY <3>6, <3>7
  <2> QED
    BY <1>1, <1>6, <2>3, <2>4, ToolMoves
<1>7. CASE SocketOpens \/ ClickStart \/ Stops \/ WindowCloses \/ Takes \/ SocketDrops \/ OwnerMoves
        \/ NextPageConnects \/ ProviderStep \/ UNCHANGED vars
  BY <1>4, <1>7 DEF SocketOpens, ClickStart, Stops, WindowCloses, Takes, SocketDrops, OwnerMoves,
     NextPageConnects, ProviderStep, ProviderResponds, ResponseEnds, AudioEnds, vars, toolVars
<1>8. ASSUME NEW i \in Starts,
             MicrophoneGranted(i) \/ OfferCreated(i) \/ AttemptStep(i) \/ AnswerArrives(i)
               \/ PeerConnects(i)
      PROVE  RanOnce'
  BY <1>4, <1>8 DEF MicrophoneGranted, OfferCreated, AttemptStep, SessionRequested,
                    SessionAttempted,
                    SessionAnswered, AnswerArrives, PeerConnects, toolVars
<1>9. CASE Calls
  <2>1. executed' = executed
    BY <1>9 DEF Calls
  <2>2. CASE \E f \in Fetches : Asks(f)
    BY <1>5, <2>1, <2>2
  <2>3. CASE fetch' = fetch
    BY <1>4, <2>1, <2>3
  <2> QED
    BY <1>9, <2>1, <2>2, <2>3, CallsAsk
<1> QED
  BY <1>1, <1>6, <1>7, <1>8, <1>9, StepCases
-----------------------------------------------------------------------------
(* A page whose starts did not cross their stops. *)

\* The parts of Orderly, without its condition.
InTurn ==
  /\ tornDown => current.pc = 0
  /\ current.pc # 0 => current.pc = starts
  /\ \A i \in Starts : call[i].at = "mic" /\ i = starts => current.pc = 0
  /\ mics \subseteq {current.pc}
  /\ \A i \in Starts : peer[i] \in {"new", "live"} => i = current.pc

Remembered ==
  \A n \in Responses :
    /\ fetch[<<n, 1>>].at # "none" /\ n \notin memo => ~Named(n)
    /\ fetch[<<n, 2>>].at = "none"

\* Orderly, part by part.
LEMMA OrderlyParts == Orderly <=> (~revived => InTurn /\ Remembered)
BY DEF Orderly, InTurn, Remembered

\* Without a conversation no call is named.
LEMMA NobodyNamed ==
  ASSUME IInv, current.pc = 0, NEW n \in Responses PROVE ~Named(n)
BY DEF IInv, Pointed, Named

LEMMA BeforeStart == ASSUME IInv, socket = "connecting" PROVE current.pc = 0
<1>1. starts = 0 /\ Pointed /\ current.pc \in 0 .. MaxStarts
  BY TypeParts DEF IInv, Untouched, MediaTypes, Pointers
<1>2. \A i \in Starts : i > starts
  BY <1>1 DEF Starts
<1> QED
  BY <1>1, <1>2, PageBounds DEF Pointed, Starts

LEMMA RevivedStays ==
  ASSUME IInv, [Next]_vars
  PROVE  \/ revived' = revived
         \/ \E i \in Starts : MicrophoneGranted(i) /\ revived' = (revived \/ tornDown \/ i < starts)
<1> USE DEF pageVars, historyVars
<1>1. CASE SocketOpens \/ ClickStart \/ Stops \/ WindowCloses \/ Takes \/ Calls \/ SocketDrops
        \/ OwnerMoves \/ NextPageConnects \/ ProviderStep \/ UNCHANGED vars
  BY <1>1, Zenon DEF SocketOpens, ClickStart, Stops, WindowCloses, Takes, Calls, SocketDrops,
     OwnerMoves, NextPageConnects, ProviderStep, ProviderResponds, ResponseEnds, AudioEnds, vars
<1>2. ASSUME NEW i \in Starts, OfferCreated(i) \/ AttemptStep(i) \/ AnswerArrives(i) \/ PeerConnects(i)
      PROVE  revived' = revived
  BY <1>2, Zenon DEF OfferCreated, AttemptStep, SessionRequested, SessionAttempted,
                     SessionAnswered, AnswerArrives,
                     PeerConnects
<1>3. ASSUME NEW f \in Fetches, ToolStep(f) PROVE revived' = revived
  BY <1>3, Zenon DEF ToolStep, ExecuteRequested, PermissionCommanded, PermissionAnswered,
                     ExecuteRefused,
                     FunctionCallAnswered
<1>4. ASSUME NEW i \in Starts, MicrophoneGranted(i)
      PROVE  revived' = (revived \/ tornDown \/ i < starts)
  BY <1>4, Zenon DEF MicrophoneGranted
<1>5. TypeOK
  BY DEF IInv
<1> QED
  BY <1>1, <1>2, <1>3, <1>4, <1>5, StepCases, Zenon

\* One conversation at a time: what it holds is what the page points at.
LEMMA InTurnKeeps == ASSUME IInv, [Next]_vars, InTurn, ~revived' PROVE InTurn'
<1> USE DEF mediaVars, pageVars, historyVars
<1>1. /\ TypeOK /\ Pointed /\ Untouched /\ Connected /\ call \in [Starts -> CallRecords]
      /\ starts \in 0 .. MaxStarts /\ current \in Pointers
      /\ Starts = 1 .. MaxStarts /\ MaxStarts \in Nat /\ mics \subseteq Starts
      /\ peer \in [Starts -> {"none", "new", "live", "closed"}]
  BY TypeParts, PageBounds DEF IInv, MediaTypes, PageTypes, Starts
<1>2. current.pc = 0 \/ current.pc \in Starts
  BY <1>1 DEF Pointers
<1>3. ASSUME tornDown' = tornDown, UNCHANGED <<starts, call, current, mics, peer>> PROVE InTurn'
  <2>1. (tornDown' => current'.pc = 0) <=> (tornDown => current.pc = 0)
    BY <1>3, Zenon
  <2> QED
    BY <1>3, <2>1 DEF InTurn
<1>4. CASE SocketOpens \/ ClickStart
  <2>1. /\ starts' = starts + 1 /\ starts + 1 \in Starts /\ tornDown' = FALSE
        /\ call' = [call EXCEPT ![starts + 1].at = "mic"]
        /\ UNCHANGED <<current, mics, peer>>
    BY <1>1, <1>4 DEF SocketOpens, ClickStart, StartConversation
  <2>2. current.pc = 0
    <3>1. CASE SocketOpens
      BY <3>1, BeforeStart DEF SocketOpens
    <3>2. CASE ClickStart
      BY <3>2, Zenon DEF ClickStart, InTurn
    <3> QED
      BY <1>4, <3>1, <3>2
  <2> QED
    BY <2>1, <2>2 DEF InTurn
<1>5. CASE Stops
  <2>1. starts' = starts /\ \A i \in Starts : call'[i].at \in {call[i].at, "over"}
    BY <1>1, <1>5 DEF Stops, Ends, CallRecords
  <2>2. CASE tornDown /\ UNCHANGED <<current, mics, peer>>
    <3>1. current.pc = 0
      BY <2>2, Zenon DEF InTurn
    <3> QED
      BY <2>1, <2>2, <3>1 DEF InTurn
  <2>3. CASE Clears
    <3>1. current'.pc = 0 /\ mics' = {}
      BY <1>1, <2>3 DEF Clears, NoCurrent, InTurn, Pointed
    <3>2. \A i \in Starts : peer'[i] \notin {"new", "live"}
      BY <1>1, <2>3 DEF Clears, InTurn
    <3> QED
      BY <2>1, <3>1, <3>2 DEF InTurn
  <2> QED
    BY <1>5, <2>2, <2>3 DEF Stops
<1>6. CASE WindowCloses
  <2>1. current'.pc = 0 /\ mics' = {} /\ \A i \in Starts : peer'[i] \notin {"new", "live"}
    BY <1>1, <1>6 DEF WindowCloses, NoCurrent
  <2> QED
    BY <2>1 DEF InTurn
<1>7. CASE Takes \/ Calls \/ SocketDrops \/ OwnerMoves \/ NextPageConnects \/ ProviderStep
        \/ UNCHANGED vars
  BY <1>3, <1>7, Zenon DEF Takes, Calls, SocketDrops, OwnerMoves, NextPageConnects, ProviderStep,
                    ProviderResponds, ResponseEnds, AudioEnds, vars
<1>8. ASSUME NEW i \in Starts, MicrophoneGranted(i) PROVE InTurn'
  <2>1. /\ call[i].at = "mic" /\ call' = [call EXCEPT ![i].at = "offer"]
        /\ peer' = [peer EXCEPT ![i] = "new"] /\ mics' = mics \cup {i}
        /\ current' = [current EXCEPT !.pc = i, !.stream = i]
        /\ revived' = (revived \/ tornDown \/ i < starts)
        /\ tornDown' = tornDown /\ starts' = starts
    BY <1>8, Zenon DEF MicrophoneGranted
  <2>2. ~tornDown' /\ ~(i < starts)
    BY <2>1, Zenon
  <2>3. i = starts
    <3>1. ~(i > starts)
      BY <1>1, <2>1 DEF Pointed
    <3> QED
      BY <1>1, <2>2, <3>1
  <2>4. current.pc = 0 /\ current'.pc = i
    BY <1>1, <2>1, <2>3 DEF InTurn, Pointers
  <2>5. mics' = {i}
    BY <1>1, <2>1, <2>4 DEF InTurn
  <2>6. \A j \in Starts : peer'[j] \in {"new", "live"} => j = i
    BY <1>1, <2>1, <2>4 DEF InTurn
  <2>7. \A j \in Starts : ~(call'[j].at = "mic" /\ j = starts)
    BY <1>1, <2>1, <2>3 DEF CallRecords
  <2> QED
    BY <2>1, <2>2, <2>3, <2>4, <2>5, <2>6, <2>7 DEF InTurn
<1>9. ASSUME NEW i \in Starts,
             OfferCreated(i) \/ AttemptStep(i) \/ AnswerArrives(i) \/ PeerConnects(i)
      PROVE  InTurn'
  <2>1. tornDown' = tornDown /\ UNCHANGED <<starts, mics>>
    BY <1>9, Zenon DEF OfferCreated, AttemptStep, SessionRequested, SessionAttempted,
                       SessionAnswered,
                       AnswerArrives, PeerConnects
  <2>2. current'.pc = current.pc
    <3>1. current' = current \/ current' = [current EXCEPT !.scope = call[i].scope]
      BY <1>9 DEF OfferCreated, AttemptStep, SessionRequested, SessionAttempted,
                  SessionAnswered, AnswerArrives,
                  PeerConnects
    <3> QED
      BY <1>1, <3>1 DEF Pointers
  <2>3. \A j \in Starts : call'[j].at = "mic" => call[j].at = "mic"
    <3>1. CASE OfferCreated(i) \/ AnswerArrives(i) \/ PeerConnects(i)
      BY <1>1, <3>1 DEF OfferCreated, AnswerArrives, PeerConnects, CallRecords
    <3>2. CASE AttemptStep(i)
      <4>1. call'[i].at # "mic" /\ \A j \in Starts \ {i} : call'[j] = call[j]
        BY <1>1, <3>2 DEF AttemptStep, SessionRequested, SessionAttempted, SessionAnswered,
                          CallRecords
      <4> QED
        BY <4>1
    <3> QED
      BY <1>9, <3>1, <3>2
  <2>4. \A j \in Starts : peer'[j] \in {"new", "live"} => peer[j] \in {"new", "live"}
    BY <1>1, <1>9 DEF OfferCreated, AttemptStep, SessionRequested, SessionAttempted,
                      SessionAnswered,
                      AnswerArrives, PeerConnects
  <2> QED
    BY <2>1, <2>2, <2>3, <2>4 DEF InTurn
<1>10. ASSUME NEW f \in Fetches, ToolStep(f) PROVE InTurn'
  BY <1>3, <1>10, Zenon DEF ToolStep, ExecuteRequested, PermissionCommanded, PermissionAnswered,
                            ExecuteRefused,
                     FunctionCallAnswered
<1> QED
  BY <1>1, <1>4, <1>5, <1>6, <1>7, <1>8, <1>9, <1>10, StepCases

\* What the page remembers of its calls is enough for the events still to come.
LEMMA RememberedKeeps ==
  ASSUME IInv, [Next]_vars, InTurn, Remembered, ~revived' PROVE Remembered'
<1> USE DEF mediaVars, toolVars, pageVars, historyVars
<1>1. TypeOK /\ AskedTwice /\ response.n \in Nat
      /\ \A n \in Responses : n \in Nat /\ <<n, 1>> \in Fetches /\ <<n, 2>> \in Fetches
  BY ChannelTypes, PageBounds DEF IInv, Responses, Fetches
<1>2. ASSUME NEW n \in Responses, fetch[<<n, 1>>].at # "none", Named(n)' PROVE Named(n)
  <2>1. n <= response.n /\ n \in Nat
    BY <1>1, <1>2 DEF AskedTwice
  <2>2. Named(n) \/ n = response.n + 1
    BY <1>2, NamedKeeps
  <2> QED
    BY <1>1, <2>1, <2>2
<1>3. CASE fetch' = fetch /\ memo' = memo
  BY <1>2, <1>3 DEF Remembered
<1>4. ASSUME fetch' = fetch, \A n \in Responses : ~Named(n)' PROVE Remembered'
  BY <1>4 DEF Remembered
<1>5. CASE SocketOpens \/ ClickStart
  <2>1. fetch' = fetch /\ UNCHANGED <<current, wire, response>>
    BY <1>5 DEF SocketOpens, ClickStart, StartConversation, providerVars
  <2>2. tornDown' = FALSE /\ revived' = revived
    BY <1>5, Zenon DEF SocketOpens, ClickStart, StartConversation
  <2>3. current.pc = 0
    <3>1. CASE SocketOpens
      BY <3>1, BeforeStart DEF SocketOpens
    <3>2. CASE ClickStart
      BY <3>2, Zenon DEF ClickStart, InTurn
    <3> QED
      BY <1>5, <3>1, <3>2
  <2>4. ASSUME NEW n \in Responses PROVE ~Named(n)'
    <3>1. Named(n)' <=> Named(n)
      BY <2>1 DEF Named
    <3> QED
      BY <2>3, <3>1, NobodyNamed
  <2> QED
    BY <1>4, <2>1, <2>4
<1>6. CASE Stops
  <2>1. CASE memo' = memo
    BY <1>3, <1>6, <2>1 DEF Stops
  <2>2. CASE Clears
    <3>1. wire' = <<>> /\ ~response'.active
      BY <2>2, ChannelTypes DEF Clears
    <3> QED
      BY <1>4, <1>6, <3>1 DEF Stops, Named
  <2> QED
    BY <1>6, <2>1, <2>2 DEF Stops
<1>7. CASE WindowCloses
  <2>1. wire' = <<>> /\ ~response'.active
    BY <1>7, ChannelTypes DEF WindowCloses
  <2> QED
    BY <1>4, <1>7, <2>1 DEF WindowCloses, Named
<1>8. CASE Calls
  <2>1. ASSUME NEW f \in Fetches, Asks(f) PROVE Remembered'
    <3>1. PICK m \in Responses : m = f[1] /\ f = <<m, f[2]>> /\ f[2] \in {1, 2}
      BY DEF Fetches
    <3>2. Named(m) /\ m \notin memo
      BY <2>1, <3>1, TakenNames DEF Asks
    <3>3. fetch[<<m, 1>>].at = "none" /\ f = <<m, 1>>
      BY <2>1, <3>1, <3>2 DEF Remembered, Asks
    <3>4. /\ \A n \in Responses : fetch'[<<n, 2>>] = fetch[<<n, 2>>]
          /\ \A n \in Responses \ {m} : fetch'[<<n, 1>>] = fetch[<<n, 1>>]
      <4>1. /\ \A n \in Responses : <<n, 2>> \in Fetches \ {f}
            /\ \A n \in Responses \ {m} : <<n, 1>> \in Fetches \ {f}
        <5>1. \A n : <<n, 2>> # <<m, 1>> /\ (n # m => <<n, 1>> # <<m, 1>>)
          OBVIOUS
        <5> QED
          BY <1>1, <3>3, <5>1, Zenon
      <4>2. \A g \in Fetches \ {f} : fetch'[g] = fetch[g]
        BY <2>1 DEF Asks
      <4> QED
        BY <4>1, <4>2
    <3>5. memo' = memo \cup {m}
      BY <2>1, <3>1 DEF Asks
    <3> QED
      BY <1>2, <3>4, <3>5 DEF Remembered
  <2> QED
    BY <1>3, <1>8, <2>1, CallsAsk
<1>9. CASE Takes \/ SocketDrops \/ OwnerMoves \/ NextPageConnects \/ ProviderStep
        \/ UNCHANGED vars
  BY <1>3, <1>9 DEF Takes, SocketDrops, OwnerMoves, NextPageConnects, ProviderStep,
                    ProviderResponds, ResponseEnds, AudioEnds, vars
<1>10. ASSUME NEW i \in Starts,
              MicrophoneGranted(i) \/ OfferCreated(i) \/ AttemptStep(i) \/ AnswerArrives(i)
                \/ PeerConnects(i)
       PROVE  Remembered'
  BY <1>3, <1>10 DEF MicrophoneGranted, OfferCreated, AttemptStep, SessionRequested,
                     SessionAttempted,
                     SessionAnswered, AnswerArrives, PeerConnects
<1>11. ASSUME NEW f \in Fetches, ToolStep(f) PROVE Remembered'
  <2>1. \A g \in Fetches : fetch'[g].at = "none" <=> fetch[g].at = "none"
    BY <1>1, <1>11, ToolMoves DEF Waiting
  <2>2. memo' = memo
    BY <1>11 DEF ToolStep, ExecuteRequested, PermissionCommanded, PermissionAnswered,
                 ExecuteRefused,
                 FunctionCallAnswered
  <2> QED
    BY <1>1, <1>2, <2>1, <2>2 DEF Remembered
<1> QED
  BY <1>1, <1>5, <1>6, <1>7, <1>8, <1>9, <1>10, <1>11, StepCases

\* The two parts of Orderly, together.
LEMMA OrderlyKeeps == ASSUME IInv, [Next]_vars PROVE Orderly'
<1>1. CASE revived'
  BY <1>1, Zenon DEF Orderly
<1>2. CASE ~revived'
  <2>1. ~revived
    <3>1. CASE revived' = revived
      BY <1>2, <3>1, Zenon
    <3>2. ASSUME NEW i \in Starts, revived' = (revived \/ tornDown \/ i < starts)
          PROVE  ~revived
      BY <1>2, <3>2, Zenon
    <3> QED
      BY <3>1, <3>2, RevivedStays, Zenon
  <2>2. InTurn /\ Remembered
    BY <2>1, OrderlyParts, Zenon DEF IInv
  <2>3. InTurn' /\ Remembered'
    BY <1>2, <2>2, InTurnKeeps, RememberedKeeps
  <2> QED
    BY <2>3 DEF Orderly, InTurn, Remembered
<1> QED
  BY <1>1, <1>2, Zenon
-----------------------------------------------------------------------------
(* The theorems. *)

LEMMA InitHolds == Init => IInv
<1> SUFFICES ASSUME Init PROVE IInv
  OBVIOUS
<1> USE PageBounds
<1>1. TypeOK
  <2>1. FlagTypes
    BY Zenon DEF Init, FlagTypes
  <2>2. PageTypes /\ MediaTypes /\ GatewayTypes /\ ToolTypes
    BY DEF Init, PageTypes, Farewells, NoFarewell, MediaTypes, CallRecords, CallStates,
           Pointers, NoCurrent, GatewayTypes, ToolTypes, FetchRecords, Kinds, Attempts
  <2>3. ProviderTypes
    BY DEF Init, ProviderTypes, Kinds
  <2> QED
    BY <2>1, <2>2, <2>3, TypeParts
<1>2. Counted
  <2>1. Asked = {} /\ Mine = 0
    BY DEF Init, Asked, Mine
  <2>2. Cardinality(Asked) = 0
    BY <2>1, FS_EmptySet
  <2> QED
    BY <2>1, <2>2 DEF Init, Counted
<1>3. Scoped /\ Newest
  BY DEF Init, Scoped, Own, Newest, NoCurrent
<1>4. Pointed /\ Connected
  BY DEF Init, Pointed, Connected, NoCurrent
<1>5. Untouched
  <2>1. ~tornDown
    BY Zenon DEF Init
  <2>2. starts = 0 /\ ~farewell.timer /\ \A f \in Fetches : fetch[f].at = "none"
    BY DEF Init, NoFarewell
  <2> QED
    BY <2>1, <2>2, Zenon DEF Untouched
<1>6. InOrder /\ AskedTwice /\ RanOnce
  BY DEF Init, InOrder, Ordered, AskedTwice, RanOnce, Ran, Fetches
<1>7. Orderly
  <2>1. InTurn
    BY DEF Init, InTurn, NoCurrent
  <2>2. Remembered
    BY DEF Init, Remembered, Fetches
  <2> QED
    BY <2>1, <2>2, OrderlyParts, Zenon
<1> QED
  BY <1>1, <1>2, <1>3, <1>4, <1>5, <1>6, <1>7 DEF IInv

LEMMA StepHolds == IInv /\ [Next]_vars => IInv'
<1> SUFFICES ASSUME IInv, [Next]_vars PROVE IInv'
  OBVIOUS
<1>1. RanOnce'
  BY RanOnceKeeps
<1>2. FlagTypes' /\ PageTypes' /\ MediaTypes' /\ GatewayTypes' /\ ToolTypes' /\ ProviderTypes'
  BY <1>1, FlagTypesKeep, PageTypesKeep, MediaTypesKeep, GatewayTypesKeep, ToolTypesKeep,
     ProviderTypesKeep
<1>3. TypeOK'
  BY <1>2 DEF TypeOK, FlagTypes, PageTypes, Farewells, Pointers, MediaTypes, GatewayTypes,
              ToolTypes, ProviderTypes, CallRecords, CallStates, FetchRecords, Events
<1> QED
  BY <1>1, <1>3, CountedKeeps, ScopedKeeps, NewestKeeps, PointedKeeps, UntouchedKeeps,
     ConnectedKeeps, InOrderKeeps, AskedTwiceKeeps, OrderlyKeeps DEF IInv

\* Whatever the page, the window, the gateway and the provider do in between.
THEOREM Inductive == Spec => []IInv
  BY InitHolds, StepHolds, PTL DEF Spec

\* The variables of page and gateway keep their shapes, for any number of starts and of
\* responses; the counter of attempts stays within the starts, so it is never capped.
THEOREM TypeCorrect == Spec => []TypeOK
<1>1. IInv => TypeOK
  BY DEF IInv
<1> QED
  BY <1>1, Inductive, PTL

\* A call of the model is carried out at most once: two events name it, a failed attempt
\* and a new scope empty what remembers it, and still no second request runs.
THEOREM SafeExecuted == Spec => []ExecutedOnce
<1>1. ASSUME IInv PROVE ExecutedOnce
  <2> SUFFICES ASSUME ~revived, NEW n \in Responses PROVE executed[n] <= 1
    BY DEF ExecutedOnce
  <2>1. Remembered
    BY <1>1, OrderlyParts, Zenon DEF IInv
  <2>2. Ran(<<n, 2>>) = 0 /\ Ran(<<n, 1>>) \in {0, 1}
    BY <2>1 DEF Remembered, Ran
  <2>3. executed[n] \in 0 .. 2 /\ executed[n] <= Ran(<<n, 1>>) + Ran(<<n, 2>>)
    BY <1>1, TypeParts DEF IInv, RanOnce, ToolTypes
  <2> QED
    BY <2>2, <2>3
<1> QED
  BY <1>1, Inductive, PTL

\* The latest attempt's live conversation holds the scope the gateway takes, whichever
\* of the answers came first.
THEOREM SafeTools == Spec => []ToolsStayAvailable
<1>1. ASSUME IInv PROVE ToolsStayAvailable
  <2> SUFFICES ASSUME LiveMedia, gw.session = "page",
                      \A i \in Starts : call[i].attempt <= call[current.pc].attempt
               PROVE  current.scope = gw.scope
    BY DEF ToolsStayAvailable
  <2> DEFINE p == current.pc
  <2>1. p \in Starts /\ p # 0 /\ peer[p] = "live"
    BY <1>1, Numbers DEF LiveMedia, Pointers, Starts
  <2>2. current.scope = call[p].scope /\ call[p].scope # 0
    BY <1>1, <2>1 DEF IInv, Connected
  <2>3. call[p].scope = call[p].attempt
    BY <1>1, <2>1, <2>2 DEF IInv, Scoped
  <2>4. gw.scope <= call[p].attempt /\ call[p].scope <= gw.scope
    BY <1>1, <2>1 DEF IInv, Newest
  <2> QED
    BY <1>1, <2>1, <2>2, <2>3, <2>4, Numbers
<1> QED
  BY <1>1, Inductive, PTL

\* A tool runs for the page's own session while that is active: through the scope of its
\* latest answer or, for a permission, after a check of the session that follows the await.
THEOREM SafeExecutes == Spec => ExecutesForLiveSession
<1>1. ASSUME IInv, [Next]_vars, NEW n \in Responses, executed'[n] > executed[n]
      PROVE  /\ owner = "page"
             /\ \E f \in Fetches :
                  f[1] = n /\ (fetch[f].scope = gw.scope \/ fetch[f].at = "running")
  <2>1. TypeOK /\ executed \in [Responses -> 0 .. 2]
    BY <1>1, TypeParts DEF IInv, ToolTypes
  <2>2. ~(executed' = executed)
    BY <1>1, <2>1
  <2>3. ~\E i \in Starts : MicrophoneGranted(i) \/ OfferCreated(i) \/ AttemptStep(i)
                             \/ AnswerArrives(i) \/ PeerConnects(i)
    BY <2>2 DEF MicrophoneGranted, OfferCreated, AttemptStep, SessionRequested, SessionAttempted,
                SessionAnswered, AnswerArrives, PeerConnects, toolVars
  <2>4. ~(SocketOpens \/ ClickStart \/ Stops \/ Takes \/ Calls \/ SocketDrops \/ OwnerMoves
          \/ WindowCloses \/ NextPageConnects \/ ProviderStep \/ UNCHANGED vars)
    BY <2>2 DEF SocketOpens, ClickStart, Stops, Takes, Calls, SocketDrops, OwnerMoves,
       WindowCloses, NextPageConnects, ProviderStep, ProviderResponds, ResponseEnds, AudioEnds,
       toolVars, vars
  <2>5. PICK f \in Fetches : ToolStep(f)
    BY <1>1, <2>1, <2>3, <2>4, StepCases
  <2>6. executed' = [executed EXCEPT ![f[1]] = @ + 1] /\ f[1] \in Responses
    BY <2>1, <2>2, <2>5, ToolMoves DEF Fetches
  <2>7. f[1] = n
    BY <1>1, <2>1, <2>6
  <2>8. CASE PermissionCommanded(f)
    BY <2>7, <2>8 DEF PermissionCommanded
  <2>9. CASE ExecuteRequested(f)
    <3>1. ScopeIsCurrent(f)
      BY <2>2, <2>9 DEF ExecuteRequested
    <3>2. gw.scope = fetch[f].scope /\ gw.scope # 0 /\ owner = gw.session
      BY <3>1 DEF ScopeIsCurrent
    <3>3. gw.session # "none" /\ gw.session # "next"
      BY <1>1, <3>2 DEF IInv, Scoped, Own
    <3> QED
      BY <1>1, <2>7, <3>2, <3>3, Numbers
  <2> QED
    BY <2>2, <2>5, <2>8, <2>9 DEF ToolStep, PermissionAnswered, ExecuteRefused,
                                  FunctionCallAnswered
<1>2. IInv /\ [Next]_vars =>
        [\A n \in Responses : executed'[n] > executed[n] =>
           /\ owner = "page"
           /\ \E f \in Fetches :
                f[1] = n /\ (fetch[f].scope = gw.scope \/ fetch[f].at = "running")]_vars
  BY <1>1
<1> QED
  BY <1>2, Inductive, PTL DEF Spec, ExecutesForLiveSession

\* A page whose starts never crossed their stops keeps the promise that the run
\* VStopReleasesMicrophone refutes for the others: once it was stopped, no microphone is
\* live and no peer is open.
THEOREM StopReleases == Spec => [](~revived => StopReleasesMicrophone)
<1>1. ASSUME IInv, ~revived, tornDown
      PROVE  mics = {} /\ \A i \in Starts : peer[i] \in {"none", "closed"}
  <2>1. InTurn
    BY <1>1, OrderlyParts, Zenon DEF IInv
  <2>2. current.pc = 0
    BY <1>1, <2>1, Zenon DEF InTurn
  <2>3. mics \subseteq Starts /\ peer \in [Starts -> {"none", "new", "live", "closed"}]
    BY <1>1, TypeParts DEF IInv, MediaTypes
  <2> QED
    BY <2>1, <2>2, <2>3 DEF InTurn, Starts
<1>2. IInv => (~revived => StopReleasesMicrophone)
  BY <1>1, Zenon DEF StopReleasesMicrophone
<1> QED
  BY <1>2, Inductive, PTL
=============================================================================
