------------------------------- MODULE VoicePage -------------------------------
(***************************************************************************)
(* One voice page (frontend/voice.js) with the two endpoints of gateway.py  *)
(* it talks to: startConversation and POST /session, the function calls of  *)
(* the model and POST /execute, the farewell after voice_end_session, and   *)
(* stopConversation, which any of them may meet half way.                   *)
(*                                                                         *)
(* A step ends where page or gateway await.  The gateway goes on with a     *)
(* request whose page is gone.  The provider and the browser's media are    *)
(* external; the controller is only asked which session is active, and      *)
(* SessionController says how that changes.                                 *)
(***************************************************************************)
EXTENDS Naturals, Sequences

CONSTANTS
  MaxStarts,     \* startConversation calls of the page (bound)
  MaxResponses,  \* responses of the provider (bound)
  MaxCalling     \* of these, the first ones that may call a function (bound)

ASSUME PageBounds ==
  MaxStarts \in Nat \ {0} /\ MaxResponses \in Nat /\ MaxCalling \in Nat

VARIABLES
  owner,      \* whose session the controller has active: "page", "none" or a "next" page
  window,     \* the page's window is open
  socket,     \* its control socket: "connecting", "open" or "closed"
  tornDown,   \* stopMessageSent and teardownCompleteSent, which go together
  starts,     \* startConversation calls so far
  call,       \* where each of them stands, its attempt at the gateway, the scope replied
  peer,       \* the RTCPeerConnection each made, with its data channel
  current,    \* peerConnection (and dataChannel), localStream, executionScope
  mics,       \* calls whose microphone stream is live
  gw,         \* the gateway's active_session_id, active_execution_scope, latest attempt,
              \* and the attempt of the next page, or 0
  results,    \* keys of execution_results_by_call_id
  memo,       \* keys of functionCallExecutions
  fetch,      \* the /execute requests made for a response's call
  executed,   \* how often a call was carried out
  response,   \* the provider's response: its number, its call, whether it is active
  playing,    \* responses whose audio still plays
  wire,       \* provider events on the data channel
  farewell,   \* disconnectAfterResponse, farewellResponseId, fallback timer
  revived,    \* a start that was stopped got its microphone after all
  cut         \* the page was closed by the audio of another response than the farewell

Starts == 1 .. MaxStarts
Responses == 1 .. MaxResponses
Fetches == Responses \X {1, 2}
Attempts == 0 .. MaxStarts + 1

mediaVars == <<call, peer, current, mics>>
gatewayVars == <<gw, results>>
toolVars == <<memo, fetch, executed>>
providerVars == <<response, playing, wire>>
historyVars == <<revived, cut>>
pageVars == <<window, socket, tornDown, starts, farewell, historyVars>>
vars == <<owner, mediaVars, gatewayVars, toolVars, providerVars, pageVars>>
-----------------------------------------------------------------------------
NoFarewell == [latched |-> FALSE, id |-> 0, timer |-> FALSE]
NoCurrent == [pc |-> 0, stream |-> 0, scope |-> 0]
Kinds == {"none", "permission", "finish"}

TypeOK ==
  /\ owner \in {"page", "none", "next"}
  /\ window \in BOOLEAN /\ socket \in {"connecting", "open", "closed"}
  /\ tornDown \in BOOLEAN
  /\ starts \in 0 .. MaxStarts
  /\ call \in [Starts -> [at : {"idle", "mic", "offer", "posted", "reading", "upstream",
                                "replied", "applied", "over"},
                          attempt : Attempts, scope : Attempts]]
  /\ peer \in [Starts -> {"none", "new", "live", "closed"}]
  /\ current \in [pc : 0 .. MaxStarts, stream : 0 .. MaxStarts, scope : Attempts]
  /\ mics \subseteq Starts
  /\ gw \in [session : {"none", "page", "next"}, scope : Attempts, attempts : Attempts,
             next : Attempts]
  /\ results \subseteq Responses /\ memo \subseteq Responses
  /\ fetch \in [Fetches -> [at : {"none", "sent", "running", "commanded", "ok", "refused",
                                 "over"},
                            pc : 0 .. MaxStarts, scope : Attempts, kind : Kinds]]
  /\ executed \in [Responses -> 0 .. 2]
  /\ response \in [n : 0 .. MaxResponses, call : Kinds, active : BOOLEAN]
  /\ playing \subseteq Responses
  /\ wire \in Seq([kind : {"call", "done", "stopped"}, id : Responses, call : Kinds,
                   ok : BOOLEAN])
  /\ farewell \in [latched : BOOLEAN, id : 0 .. MaxResponses, timer : BOOLEAN]
  /\ revived \in BOOLEAN /\ cut \in BOOLEAN

Init ==
  /\ owner = "page"
  /\ window = TRUE /\ socket = "connecting"
  /\ tornDown = FALSE
  /\ starts = 0
  /\ call = [i \in Starts |-> [at |-> "idle", attempt |-> 0, scope |-> 0]]
  /\ peer = [i \in Starts |-> "none"]
  /\ current = NoCurrent /\ mics = {}
  /\ gw = [session |-> "none", scope |-> 0, attempts |-> 0, next |-> 0]
  /\ results = {} /\ memo = {}
  /\ fetch = [f \in Fetches |-> [at |-> "none", pc |-> 0, scope |-> 0, kind |-> "none"]]
  /\ executed = [n \in Responses |-> 0]
  /\ response = [n |-> 0, call |-> "none", active |-> FALSE]
  /\ playing = {} /\ wire = <<>>
  /\ farewell = NoFarewell
  /\ revived = FALSE /\ cut = FALSE
-----------------------------------------------------------------------------
\* stopConversation, from a handler that leaves the calls in c and the farewell in f.
\* Events of the closed channel are ignored from here on, and the provider's response
\* goes with its peer.
StopConversation(c, f) ==
  /\ call' = c
  /\ IF tornDown
     THEN /\ farewell' = f
          /\ UNCHANGED <<peer, current, mics, memo, providerVars, tornDown>>
     ELSE /\ peer' = [i \in Starts |-> IF i = current.pc THEN "closed" ELSE peer[i]]
          /\ mics' = mics \ {current.stream}
          /\ current' = NoCurrent
          /\ memo' = {}
          /\ farewell' = NoFarewell
          /\ tornDown' = TRUE
          /\ wire' = <<>> /\ playing' = {}
          /\ response' = [response EXCEPT !.active = FALSE]

\* startConversation up to getUserMedia.
StartConversation ==
  /\ starts < MaxStarts
  /\ starts' = starts + 1
  /\ call' = [call EXCEPT ![starts + 1].at = "mic"]
  /\ tornDown' = FALSE
  /\ memo' = {}

\* The control socket opens: page_ready, and the conversation starts by itself.
SocketOpens ==
  /\ window /\ socket = "connecting"
  /\ socket' = "open"
  /\ StartConversation
  /\ UNCHANGED <<owner, peer, current, mics, gatewayVars, fetch, executed,
                 providerVars, window, farewell, historyVars>>

\* The start button is enabled by stopConversation only.
ClickStart ==
  /\ window /\ tornDown
  /\ StartConversation
  /\ UNCHANGED <<owner, peer, current, mics, gatewayVars, fetch, executed,
                 providerVars, window, socket, farewell, historyVars>>

MicrophoneGranted(i) ==
  /\ window /\ call[i].at = "mic"
  /\ call' = [call EXCEPT ![i].at = "offer"]
  /\ peer' = [peer EXCEPT ![i] = "new"]
  /\ current' = [current EXCEPT !.pc = i, !.stream = i]
  /\ mics' = mics \cup {i}
  /\ revived' = (revived \/ tornDown \/ i < starts)
  /\ UNCHANGED <<owner, gatewayVars, toolVars, providerVars, window, socket,
                 tornDown, starts, farewell, cut>>

\* createOffer and setLocalDescription; they reject on a closed peer.
OfferCreated(i) ==
  /\ window /\ call[i].at = "offer" /\ peer[i] # "closed"
  /\ call' = [call EXCEPT ![i].at = "posted"]
  /\ UNCHANGED <<owner, peer, current, mics, gatewayVars, toolVars, providerVars, pageVars>>

\* The catch of startConversation: no microphone, no offer, a fetch that failed or a
\* reply that is not an answer.
StartFails(i) ==
  /\ window
  /\ \/ call[i].at \in {"mic", "posted"}
     \/ call[i].at = "offer" /\ peer[i] = "closed"
     \/ call[i].at = "replied" /\ call[i].scope = 0
  /\ StopConversation([call EXCEPT ![i].at = "over"], farewell)
  /\ UNCHANGED <<owner, gatewayVars, fetch, executed, window, socket, starts, historyVars>>
-----------------------------------------------------------------------------
\* POST /session up to the await of its body: only for the active session.
SessionRequested(i) ==
  /\ call[i].at = "posted"
  /\ call' = IF owner = "page" THEN [call EXCEPT ![i].at = "reading"]
             ELSE [call EXCEPT ![i].at = "replied", ![i].scope = 0]
  /\ UNCHANGED <<owner, peer, current, mics, gatewayVars, toolVars, providerVars, pageVars>>

\* The attempt is counted when the body is read, whoever has the active session by then.
SessionAttempted(i) ==
  /\ call[i].at = "reading"
  /\ gw' = [gw EXCEPT !.attempts = @ + 1]
  /\ call' = [call EXCEPT ![i].at = "upstream", ![i].attempt = gw.attempts + 1]
  /\ UNCHANGED <<owner, peer, current, mics, results, toolVars, providerVars, pageVars>>

\* A slip: an answer that was overtaken is handed out all the same.
SessionAnsweredLate(i, accepted) ==
  /\ call[i].at = "upstream"
  /\ IF accepted
     THEN /\ gw' = [gw EXCEPT !.session = "page", !.scope = call[i].attempt]
          /\ results' = {}
          /\ call' = [call EXCEPT ![i].at = "replied", ![i].scope = call[i].attempt]
     ELSE /\ call' = [call EXCEPT ![i].at = "replied", ![i].scope = 0]
          /\ UNCHANGED gatewayVars
  /\ UNCHANGED <<owner, peer, current, mics, toolVars, providerVars, pageVars>>

\* The provider answers: the latest attempt gets the scope, without asking the
\* controller again; the others are superseded.
SessionAnswered(i, accepted) ==
  /\ call[i].at = "upstream"
  /\ IF accepted /\ call[i].attempt = gw.attempts
     THEN /\ gw' = [gw EXCEPT !.session = "page", !.scope = call[i].attempt]
          /\ results' = {}
          /\ call' = [call EXCEPT ![i].at = "replied", ![i].scope = call[i].attempt]
     ELSE /\ call' = [call EXCEPT ![i].at = "replied", ![i].scope = 0]
          /\ UNCHANGED gatewayVars
  /\ UNCHANGED <<owner, peer, current, mics, toolVars, providerVars, pageVars>>

\* The page of the next session makes its attempt and gets its answer.
NextPageConnects ==
  /\ owner = "next" /\ gw.next = 0
  /\ gw' = LET k == gw.attempts + 1
           IN  [session |-> "next", scope |-> k, attempts |-> k, next |-> k]
  /\ results' = {}
  /\ UNCHANGED <<owner, mediaVars, toolVars, providerVars, pageVars>>

\* canApplyRemoteAnswer
CanApplyRemoteAnswer(i) == current.pc = i /\ peer[i] # "closed"

AnswerArrives(i) ==
  /\ window /\ call[i].at = "replied" /\ call[i].scope # 0
  /\ IF CanApplyRemoteAnswer(i)
     THEN /\ current' = [current EXCEPT !.scope = call[i].scope]
          /\ call' = [call EXCEPT ![i].at = "applied"]
     ELSE call' = [call EXCEPT ![i].at = "over"] /\ UNCHANGED current
  /\ UNCHANGED <<owner, peer, mics, gatewayVars, toolVars, providerVars, pageVars>>

\* The peer connects and its channel opens.
PeerConnects(i) ==
  /\ window /\ call[i].at = "applied" /\ peer[i] = "new"
  /\ peer' = [peer EXCEPT ![i] = "live"]
  /\ UNCHANGED <<owner, call, current, mics, gatewayVars, toolVars, providerVars, pageVars>>

LiveMedia == current.pc # 0 /\ peer[current.pc] = "live"

\* failConversation for the transport: the channel closed, or the peer failed or stayed
\* disconnected for three seconds.
TransportFails ==
  /\ window /\ current.pc # 0
  /\ call[current.pc].at = "applied" /\ peer[current.pc] # "closed"
  /\ StopConversation(call, farewell)
  /\ UNCHANGED <<owner, gatewayVars, fetch, executed, window, socket, starts, historyVars>>

\* The stop button, pagehide.
UserStops ==
  /\ window /\ ~tornDown /\ starts > 0
  /\ StopConversation(call, farewell)
  /\ UNCHANGED <<owner, gatewayVars, fetch, executed, window, socket, starts, historyVars>>

\* The control socket is lost: the conversation stays only where media is live.
SocketLost ==
  /\ window /\ socket # "closed"
  /\ socket' = "closed"
  /\ IF LiveMedia
     THEN UNCHANGED <<mediaVars, memo, providerVars, farewell, tornDown>>
     ELSE StopConversation(call, farewell)
  /\ UNCHANGED <<owner, gatewayVars, fetch, executed, window, starts, historyVars>>

\* The controller's stop frame: the page stops without a word and closes its window.
StopFrameArrives ==
  /\ window /\ socket = "open" /\ owner = "page"
  /\ StopConversation(call, farewell)
  /\ UNCHANGED <<owner, gatewayVars, fetch, executed, window, socket, starts, historyVars>>

\* session_closed, after the session has ended: the page closes its socket, and stops a
\* conversation the user may have started meanwhile.
SessionClosedArrives ==
  /\ window /\ socket = "open" /\ owner # "page"
  /\ socket' = "closed"
  /\ StopConversation(call, farewell)
  /\ UNCHANGED <<owner, gatewayVars, fetch, executed, window, starts, historyVars>>

\* The window closes, by itself or by the controller's hand, with all that is in it.
WindowCloses ==
  /\ window
  /\ window' = FALSE /\ socket' = "closed"
  /\ mics' = {} /\ current' = NoCurrent
  /\ peer' = [i \in Starts |-> IF peer[i] = "none" THEN "none" ELSE "closed"]
  /\ memo' = {} /\ farewell' = NoFarewell
  /\ wire' = <<>> /\ playing' = {} /\ response' = [response EXCEPT !.active = FALSE]
  /\ UNCHANGED <<owner, call, gatewayVars, fetch, executed, tornDown, starts, historyVars>>

\* The controller lets its session go, and activates another once the window is closed.
SessionEnds ==
  /\ owner = "page"
  /\ owner' = "none"
  /\ UNCHANGED <<mediaVars, gatewayVars, toolVars, providerVars, pageVars>>

NextSession ==
  /\ owner = "none" /\ ~window
  /\ owner' = "next"
  /\ UNCHANGED <<mediaVars, gatewayVars, toolVars, providerVars, pageVars>>
-----------------------------------------------------------------------------
\* The provider's events: a call's arguments, response.done, and the end of the audio.
Event(kind, id, c, ok) == [kind |-> kind, id |-> id, call |-> c, ok |-> ok]

ProviderResponds(c) ==
  /\ window /\ LiveMedia /\ ~response.active /\ response.n < MaxResponses
  /\ c # "none" => response.n < MaxCalling
  /\ response' = [n |-> response.n + 1, call |-> c, active |-> TRUE]
  /\ playing' = playing \cup {response.n + 1}
  /\ wire' = IF c = "none" THEN wire ELSE Append(wire, Event("call", response.n + 1, c, TRUE))
  /\ UNCHANGED <<owner, mediaVars, gatewayVars, toolVars, pageVars>>

ResponseEnds(ok) ==
  /\ response.active
  /\ ok \/ response.call = "none"
  /\ response' = [response EXCEPT !.active = FALSE]
  /\ playing' = IF ok THEN playing ELSE playing \ {response.n}
  /\ wire' = Append(wire, Event("done", response.n, response.call, ok))
  /\ UNCHANGED <<owner, mediaVars, gatewayVars, toolVars, pageVars>>

AudioEnds(n) ==
  /\ n \in playing /\ ~(response.active /\ response.n = n)
  /\ playing' = playing \ {n}
  /\ wire' = Append(wire, Event("stopped", n, "none", TRUE))
  /\ UNCHANGED <<owner, mediaVars, gatewayVars, toolVars, response, pageVars>>
-----------------------------------------------------------------------------
\* A slip: the second event of a call asks the gateway again.
ExecuteAgain(n, c) ==
  LET k == IF fetch[<<n, 1>>].at = "none" THEN 1 ELSE 2
  IN  /\ fetch' = [fetch EXCEPT ![<<n, k>>] =
                     [at |-> "sent", pc |-> current.pc, scope |-> current.scope, kind |-> c]]
      /\ memo' = memo \cup {n}

\* executeFunctionCall: one execution per call_id, whichever event names it.
ExecuteFunctionCall(n, c) ==
  IF n \in memo
  THEN UNCHANGED <<memo, fetch>>
  ELSE LET k == IF fetch[<<n, 1>>].at = "none" THEN 1 ELSE 2
       IN  /\ fetch' = [fetch EXCEPT ![<<n, k>>] =
                          [at |-> "sent", pc |-> current.pc, scope |-> current.scope, kind |-> c]]
           /\ memo' = memo \cup {n}

Receives(kind) ==
  /\ window /\ LiveMedia /\ wire # <<>>
  /\ Head(wire).kind = kind

\* response.function_call_arguments.done
OnCallArguments ==
  /\ Receives("call")
  /\ ExecuteFunctionCall(Head(wire).id, Head(wire).call)
  /\ wire' = Tail(wire)
  /\ UNCHANGED <<owner, mediaVars, gatewayVars, executed, response, playing, pageVars>>

\* response.done: its calls, or the farewell that was waited for.
OnResponseDone ==
  /\ Receives("done")
  /\ LET e == Head(wire)
     IN  \/ /\ e.call # "none"
            /\ ExecuteFunctionCall(e.id, e.call)
            /\ wire' = Tail(wire)
            /\ UNCHANGED <<mediaVars, response, playing, farewell, tornDown>>
         \/ /\ e.call = "none" /\ farewell.latched /\ ~e.ok
            /\ StopConversation(call, NoFarewell)
            /\ UNCHANGED fetch
         \/ /\ e.call = "none" /\ (farewell.latched => e.ok)
            /\ farewell' = IF farewell.latched THEN [farewell EXCEPT !.id = e.id] ELSE farewell
            /\ wire' = Tail(wire)
            /\ UNCHANGED <<mediaVars, memo, fetch, response, playing, tornDown>>
  /\ UNCHANGED <<owner, gatewayVars, executed, window, socket, starts, historyVars>>

\* output_audio_buffer.stopped
OnAudioStopped ==
  /\ Receives("stopped")
  /\ LET id == Head(wire).id
     IN  IF farewell.latched /\ farewell.id \in {0, id}
         THEN /\ StopConversation(call, NoFarewell)
              /\ cut' = (cut \/ \E k \in {1, 2} : fetch[<<id, k>>].kind = "finish")
         ELSE /\ wire' = Tail(wire)
              /\ UNCHANGED <<mediaVars, memo, response, playing, farewell, tornDown, cut>>
  /\ UNCHANGED <<owner, gatewayVars, fetch, executed, window, socket, starts, revived>>

\* The fallback of fifteen seconds.
FallbackTimer ==
  /\ window /\ farewell.timer
  /\ StopConversation(call, NoFarewell)
  /\ UNCHANGED <<owner, gatewayVars, fetch, executed, window, socket, starts, historyVars>>
-----------------------------------------------------------------------------
Settles(f, at) == fetch' = [fetch EXCEPT ![f].at = at]

\* The first check of /execute: the scope is current and its session still active.
ScopeIsCurrent(f) ==
  /\ gw.scope # 0 /\ fetch[f].scope = gw.scope
  /\ owner = gw.session

\* POST /execute up to its await: stale, replayed, or carried out.  Only
\* resolve_heavy_agent_block awaits; the broker runs to its end.  (Of a result that is
\* replayed only the success of voice_end_session matters, which does not fail.)
ExecuteRequested(f) ==
  /\ fetch[f].at = "sent"
  /\ LET n == f[1]
         fresh == ScopeIsCurrent(f) /\ n \notin results
     IN  \/ /\ ~fresh
            /\ Settles(f, IF ScopeIsCurrent(f) /\ n \in results THEN "ok" ELSE "refused")
            /\ UNCHANGED <<executed, results>>
         \/ /\ fresh /\ fetch[f].kind = "permission"
            /\ Settles(f, "running")
            /\ UNCHANGED <<executed, results>>
         \/ /\ fresh /\ fetch[f].kind # "permission"
            /\ Settles(f, "ok")
            /\ executed' = [executed EXCEPT ![n] = @ + 1]
            /\ results' = results \cup {n}
  /\ UNCHANGED <<owner, mediaVars, gw, memo, providerVars, pageVars>>

\* A slip: the session is not asked for again after the block was looked up.
PermissionCommandedUnchecked(f) ==
  /\ fetch[f].at = "running"
  /\ Settles(f, "commanded")
  /\ executed' = [executed EXCEPT ![f[1]] = @ + 1]
  /\ UNCHANGED <<owner, mediaVars, gatewayVars, memo, providerVars, pageVars>>

\* resolve_permission after its lock and the look at the block: the session must still
\* be active for the command to start, which then runs to its end whatever happens.  (Of a
\* session that is stopping the code raises: PermissionAnswered.)
PermissionCommanded(f) ==
  /\ fetch[f].at = "running" /\ owner = "page"
  /\ Settles(f, "commanded")
  /\ executed' = [executed EXCEPT ![f[1]] = @ + 1]
  /\ UNCHANGED <<owner, mediaVars, gatewayVars, memo, providerVars, pageVars>>

\* It raises, before the command (session, task or block are not what they were) or by
\* it, or returns: the answer is kept, whatever scope is current now.
PermissionAnswered(f) ==
  /\ \/ fetch[f].at \in {"running", "commanded"} /\ Settles(f, "refused")
     \/ fetch[f].at = "commanded" /\ Settles(f, "ok")
  /\ results' = results \cup {f[1]}
  /\ UNCHANGED <<owner, mediaVars, gw, memo, executed, providerVars, pageVars>>

\* A fetch that does not get through is an answer too, and so is the refusal of a call
\* over MAX_OPENAI_CALLS_PER_SESSION.
ExecuteRefused(f) ==
  /\ fetch[f].at = "sent"
  /\ Settles(f, "refused")
  /\ UNCHANGED <<owner, mediaVars, gatewayVars, memo, executed, providerVars, pageVars>>

\* A slip: the farewell is waited for without a limit.
FunctionCallAnsweredUntimed(f) ==
  /\ window /\ fetch[f].at \in {"ok", "refused"}
  /\ Settles(f, "over")
  /\ IF /\ fetch[f].at = "ok" /\ fetch[f].kind = "finish"
        /\ current.pc = fetch[f].pc /\ current.scope = fetch[f].scope
     THEN farewell' = [farewell EXCEPT !.latched = TRUE]
     ELSE UNCHANGED farewell
  /\ UNCHANGED <<owner, mediaVars, gatewayVars, memo, executed, providerVars,
                 window, socket, tornDown, starts, historyVars>>

\* runFunctionCall after its fetch: a reply for another conversation is dropped; a
\* successful voice_end_session locks the microphone's turns and waits for the farewell.
FunctionCallAnswered(f) ==
  /\ window /\ fetch[f].at \in {"ok", "refused"}
  /\ Settles(f, "over")
  /\ IF /\ fetch[f].at = "ok" /\ fetch[f].kind = "finish"
        /\ current.pc = fetch[f].pc /\ current.scope = fetch[f].scope
     THEN farewell' = [farewell EXCEPT !.latched = TRUE, !.timer = TRUE]
     ELSE UNCHANGED farewell
  /\ UNCHANGED <<owner, mediaVars, gatewayVars, memo, executed, providerVars,
                 window, socket, tornDown, starts, historyVars>>
-----------------------------------------------------------------------------
StartStep(i) ==
  \/ MicrophoneGranted(i) \/ OfferCreated(i) \/ StartFails(i)
  \/ SessionRequested(i) \/ SessionAttempted(i)
  \/ \E accepted \in BOOLEAN : SessionAnswered(i, accepted)
  \/ AnswerArrives(i) \/ PeerConnects(i)

ToolStep(f) ==
  \/ ExecuteRequested(f) \/ PermissionCommanded(f) \/ PermissionAnswered(f)
  \/ ExecuteRefused(f) \/ FunctionCallAnswered(f)

PageEvent == OnCallArguments \/ OnResponseDone \/ OnAudioStopped

Next ==
  \/ SocketOpens \/ ClickStart
  \/ TransportFails \/ UserStops \/ SocketLost
  \/ StopFrameArrives \/ SessionClosedArrives \/ WindowCloses \/ SessionEnds \/ NextSession
  \/ NextPageConnects
  \/ \E i \in Starts : StartStep(i)
  \/ \E c \in Kinds : ProviderResponds(c)
  \/ \E ok \in BOOLEAN : ResponseEnds(ok)
  \/ \E n \in Responses : AudioEnds(n)
  \/ PageEvent \/ FallbackTimer
  \/ \E f \in Fetches : ToolStep(f)

Spec == Init /\ [][Next]_vars

\* Timers fire; nothing is assumed of the provider.
FairSpec == Spec /\ WF_vars(FallbackTimer)
-----------------------------------------------------------------------------
\* A tool call is carried out at most once, although two provider events name it, the
\* gateway awaits between looking at its replay cache and filling it, and a new attempt
\* empties the cache.  (In a conversation that a start revived after its stop, the next
\* start forgets the calls that are under way.)
ExecutedOnce == ~revived => \A n \in Responses : executed[n] <= 1

\* No tool is carried out for a session that is over or was replaced, not even through a
\* scope that an answer in flight made current after its session had ended; a permission,
\* whose command starts an await after the scope was checked, only while its session is
\* active.  (A command that has started runs on when the session ends.)
ExecutesForLiveSession ==
  [][\A n \in Responses : executed'[n] > executed[n] =>
       /\ owner = "page"
       /\ \E f \in Fetches :
            f[1] = n /\ (fetch[f].scope = gw.scope \/ fetch[f].at = "running")]_vars

\* A live conversation that made the page's latest attempt holds the scope the gateway
\* takes, whichever order the answers came in, so that its tools do not go stale.
ToolsStayAvailable ==
  (/\ window /\ LiveMedia /\ gw.session = "page"
   /\ \A i \in Starts : call[i].attempt <= call[current.pc].attempt)
    => current.scope = gw.scope

\* Once the model was told that the session ends, the conversation does end, also when
\* the farewell is never spoken, fails, or its audio event is lost.  (stopConversation
\* does nothing for a conversation that came to life after it.)
EndSessionCloses == (farewell.latched /\ ~tornDown) ~> current.pc = 0

\* "The page stops microphone tracks, data channel, peer connection, and remote audio":
\* a conversation that was stopped has neither microphone nor peer.
StopReleasesMicrophone ==
  tornDown => mics = {} /\ \A i \in Starts : peer[i] \in {"none", "closed"}

\* The page waits "for output_audio_buffer.stopped matching the farewell response id
\* before tearing down".
FarewellHeardOut == ~cut
=============================================================================
