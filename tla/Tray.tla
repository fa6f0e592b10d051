---------------------------------- MODULE Tray ----------------------------------
(***************************************************************************)
(* The system tray, native/realtime-tray: main.cpp with the decision table *)
(* of tray_state.h.  The tray shows one state computed from two units, two *)
(* marker files and the microphone, and starts and stops the units.        *)
(*                                                                         *)
(* It runs on one Qt event loop and never waits, so a slot is one step.    *)
(* The files and the microphone are read whenever the state is computed;   *)
(* the units are known by a cache, which is filled by two asynchronous     *)
(* calls per unit (GetUnit, then Get ActiveState).  Calls to systemd, its  *)
(* replies and its signals travel on one D-Bus connection, in order.       *)
(***************************************************************************)
EXTENDS Naturals, Sequences

CONSTANTS
  CaptureTexts,     \* texts the capture-health file may hold, "none": no file
  ControllerTexts,  \* the same for controller-health
  Faults,           \* what may fail: "connect", "subscribe", "lookup", "command"
  MaxMessages       \* messages on the bus while units go on changing (bound)

ASSUME TextsAssumption ==
  /\ CaptureTexts \subseteq {"none", "starting", "healthy", "unhealthy", "handler_failed", "stopped"}
  /\ ControllerTexts \subseteq {"none", "starting", "ready", "conversation-active", "error"}
ASSUME FaultsAssumption == Faults \subseteq {"connect", "subscribe", "lookup", "command"}
ASSUME MessagesAssumption == MaxMessages \in Nat

VARIABLES
  unit,         \* ActiveState of each unit: "active", or anything else
  capture,      \* what the capture-health file holds
  health,       \* what the controller-health file holds
  mic,          \* microphoneAvailable()
  calls,        \* calls to systemd it has not served
  mail,         \* replies and signals the tray has not handled
  subscribed,   \* systemd sends the tray its signals
  matched,      \* the signal connections of the tray
  retry,        \* systemdRetryTimer runs
  cached,       \* controllerActive, wakewordActive
  command,      \* systemdCommandInFlight: the unit calls not answered, the first on its way
  opening,      \* openRequestInFlight
  noticed,      \* a file or audio change, or the first timer, has not been handled
  shown,        \* the state icon and tooltip stand for; "switching" for setSwitchingState
  enabled,      \* menu actions that are enabled
  spinning,     \* switchingTimer runs
  missed        \* history: the unit changed, or was misread, and the tray was not told

worldVars == <<unit, capture, health, mic>>
busVars == <<calls, mail, subscribed, matched, retry>>
viewVars == <<shown, enabled, spinning>>
vars == <<worldVars, busVars, cached, command, opening, noticed, viewVars, missed>>
-----------------------------------------------------------------------------
Units == {"controller", "wakeword"}
States == {"Off", "Starting", "On", "ConversationActive", "NoMicrophone", "Error"}
Active(u) == unit[u] = "active"

CaptureHealth(text) ==
  CASE text = "healthy"   -> "Healthy"
    [] text = "unhealthy" -> "Unhealthy"
    [] OTHER              -> "Unknown"

ControllerHealth(text) ==
  CASE text = "ready"               -> "Ready"
    [] text = "conversation-active" -> "ConversationActive"
    [] text = "error"               -> "Error"
    [] OTHER                        -> "Unknown"

\* A slip: the two units need not agree.
IncoherentState(microphone, captured, controller, wakeword, controlled) ==
  IF ~microphone THEN "NoMicrophone"
  ELSE IF (wakeword /\ captured = "Unhealthy") \/ controlled = "Error" THEN "Error"
  ELSE IF captured = "Healthy" /\ controlled = "ConversationActive" THEN "ConversationActive"
  ELSE IF captured = "Healthy" /\ controlled = "Ready" THEN "On"
  ELSE IF ~controller /\ ~wakeword THEN "Off"
  ELSE IF controller /\ ~wakeword THEN "NoMicrophone"
  ELSE "Starting"

\* stateFromInputs.  Units that are both down pass for a runtime in the foreground.
StateFromInputs(microphone, captured, controller, wakeword, controlled) ==
  IF ~microphone THEN "NoMicrophone"
  ELSE IF (wakeword /\ captured = "Unhealthy") \/ controlled = "Error" THEN "Error"
  ELSE IF controller = wakeword /\ captured = "Healthy" /\ controlled = "ConversationActive"
       THEN "ConversationActive"
  ELSE IF controller = wakeword /\ captured = "Healthy" /\ controlled = "Ready" THEN "On"
  ELSE IF ~controller /\ ~wakeword THEN "Off"
  ELSE IF controller /\ ~wakeword THEN "NoMicrophone"
  ELSE "Starting"

\* The state the inputs stand for now.
DaemonState ==
  StateFromInputs(mic, CaptureHealth(capture), cached["controller"], cached["wakeword"],
                  ControllerHealth(health))

\* The actions refreshState enables.
Menu(state) ==
  LET open == IF cached["controller"] THEN {"open"} ELSE {}
      off == IF \E u \in Units : cached[u] THEN {"off"} ELSE {}
  IN  CASE state \in {"NoMicrophone", "Error"} -> off \cup open
        [] state = "Starting"                  -> open
        [] state = "ConversationActive"        -> {"off"}
        [] state = "On"                        -> {"off", "open"}
        [] state = "Off"                       -> IF mic THEN {"on"} ELSE {}

\* A slip: a refresh during a command redraws the menu.
RefreshAlways ==
  /\ shown' = DaemonState' /\ enabled' = Menu(shown)' /\ spinning' = (shown' = "Starting")

\* refreshState, after what the slot assigns.
RefreshState ==
  IF command' # <<>> THEN UNCHANGED viewVars
  ELSE /\ shown' = DaemonState'
       /\ enabled' = Menu(shown)'
       /\ spinning' = (shown' = "Starting")

SetSwitchingState == shown' = "switching" /\ enabled' = {} /\ spinning' = TRUE

RequestUnitStates ==
  <<[op |-> "GetUnit", unit |-> "controller"], [op |-> "GetUnit", unit |-> "wakeword"]>>
Subscribe == [op |-> "Subscribe", unit |-> "none"]

\* The signal connections, made at once or refused for want of a bus.
ConnectSignals ==
  matched' \in IF matched \/ "connect" \notin Faults THEN {TRUE} ELSE BOOLEAN

\* The constructor.
Init ==
  /\ unit \in [Units -> {"active", "inactive"}]
  /\ capture \in CaptureTexts /\ health \in ControllerTexts /\ mic \in BOOLEAN
  /\ calls = <<Subscribe>> \o RequestUnitStates
  /\ mail = <<>> /\ subscribed = FALSE
  /\ matched \in IF "connect" \in Faults THEN BOOLEAN ELSE {TRUE}
  /\ retry = ~matched
  /\ cached = [u \in Units |-> FALSE]
  /\ command = <<>> /\ opening = FALSE
  /\ noticed = TRUE
  /\ shown = "switching" /\ enabled = {} /\ spinning = TRUE
  /\ missed = [u \in Units |-> FALSE]
-----------------------------------------------------------------------------
(* The world: units, programs that write the markers, and the sound server.  *)

UnitChanges(u) ==
  /\ Len(calls) + Len(mail) < MaxMessages
  /\ unit' = [unit EXCEPT ![u] = IF Active(u) THEN "inactive" ELSE "active"]
  /\ IF subscribed /\ matched
     THEN mail' = Append(mail, [re |-> "Changed"]) /\ UNCHANGED missed
     ELSE missed' = [missed EXCEPT ![u] = TRUE] /\ UNCHANGED mail
  /\ UNCHANGED <<capture, health, mic, calls, subscribed, matched, retry, cached, command,
                 opening, noticed, viewVars>>

\* Either file, replaced or removed in the directory both watchers watch.
FileChanges ==
  /\ \/ capture' \in CaptureTexts \ {capture} /\ UNCHANGED health
     \/ health' \in ControllerTexts \ {health} /\ UNCHANGED capture
  /\ noticed' = TRUE
  /\ UNCHANGED <<unit, mic, busVars, cached, command, opening, viewVars, missed>>

\* The default source becomes, or stops being, a real microphone.
AudioChanges ==
  /\ mic' = ~mic
  /\ noticed' = TRUE
  /\ UNCHANGED <<unit, capture, health, busVars, cached, command, opening, viewVars, missed>>

\* systemd's answer to a call: GetUnit finds no unit that is not loaded, a second
\* Subscribe is refused, and a unit call is answered when its job is queued.
Answers(call) ==
  LET u == call.unit
      fails(fault) == IF fault \in Faults THEN BOOLEAN ELSE {FALSE}
  IN  CASE call.op = "Subscribe" ->
             {[re |-> "Subscribe", ok |-> ~subscribed /\ ~f] : f \in fails("subscribe")}
        [] call.op = "GetUnit" ->
             {[re |-> "GetUnit", unit |-> u, ok |-> ok] :
                ok \in {~f : f \in fails("lookup")} \cup (IF Active(u) THEN {} ELSE BOOLEAN)}
        [] call.op = "Get" ->
             {[re |-> "Get", unit |-> u, active |-> Active(u) /\ ~f] : f \in fails("lookup")}
        [] call.op \in {"StartUnit", "StopUnit"} ->
             {[re |-> "Command", ok |-> ~f] : f \in fails("command")}

\* The answer tells the tray whether the unit is active.
Reads(answer, u) ==
  \/ answer.re = "Get" /\ answer.unit = u
  \/ answer.re = "GetUnit" /\ answer.unit = u /\ ~answer.ok

Says(answer) == answer.re = "Get" /\ answer.active

SystemdServes ==
  /\ calls # <<>>
  /\ calls' = Tail(calls)
  /\ \E answer \in Answers(Head(calls)) :
       /\ mail' = Append(mail, answer)
       /\ subscribed' = (subscribed \/ (answer.re = "Subscribe" /\ answer.ok))
       /\ missed' = [u \in Units |->
            IF Reads(answer, u) THEN Says(answer) # Active(u) ELSE missed[u]]
  /\ UNCHANGED <<worldVars, matched, retry, cached, command, opening, noticed, viewVars>>
-----------------------------------------------------------------------------
(* The tray's slots.  Each handles the first message of `mail`.              *)

Handles(m) == mail # <<>> /\ Head(mail).re = m /\ mail' = Tail(mail)

\* A slip: the signal is taken for a state that is known.
SignalIgnored ==
  /\ Handles("Changed")
  /\ retry' = (retry \/ ~matched)
  /\ UNCHANGED <<worldVars, calls, subscribed, matched, cached, command, opening, noticed,
                 viewVars, missed>>

\* systemdJobRemoved, systemdUnitChanged, systemdPropertiesChanged
SystemdStateChanged ==
  /\ Handles("Changed")
  /\ ConnectSignals
  /\ retry' = (retry \/ ~matched')
  /\ calls' = calls \o RequestUnitStates
  /\ UNCHANGED <<worldVars, subscribed, cached, command, opening, noticed, viewVars, missed>>

\* The reply to GetUnit: no such unit, or its path to ask for the state.
UnitFound ==
  /\ Handles("GetUnit") /\ Head(mail).ok
  /\ calls' = Append(calls, [op |-> "Get", unit |-> Head(mail).unit])
  /\ UNCHANGED <<worldVars, subscribed, matched, retry, cached, command, opening, noticed,
                 viewVars, missed>>

SetCachedUnitActive(u, active) ==
  /\ cached' = [cached EXCEPT ![u] = active]
  /\ UNCHANGED <<worldVars, calls, subscribed, matched, retry, command, opening, noticed, missed>>

UnitNotFound ==
  /\ Handles("GetUnit") /\ ~Head(mail).ok
  /\ SetCachedUnitActive(Head(mail).unit, FALSE)
  /\ RefreshState

ActiveStateArrives ==
  /\ Handles("Get")
  /\ SetCachedUnitActive(Head(mail).unit, Head(mail).active)
  /\ RefreshState

\* A slip: a failure is shown and the command stays in flight.
FailureKeepsCommand ==
  /\ Handles("Command") /\ ~Head(mail).ok
  /\ calls' = calls \o RequestUnitStates
  /\ UNCHANGED <<worldVars, subscribed, matched, retry, cached, command, opening, noticed,
                 viewVars, missed>>

\* runSystemdCommandAt: the next unit, or the end of the command.
CommandQueued ==
  /\ Handles("Command") /\ Head(mail).ok
  /\ command' = Tail(command)
  /\ calls' = calls \o IF Tail(command) = <<>> THEN RequestUnitStates ELSE <<command[2]>>
  /\ UNCHANGED <<worldVars, subscribed, matched, retry, cached, opening, noticed, viewVars, missed>>

CommandFails ==
  /\ Handles("Command") /\ ~Head(mail).ok
  /\ command' = <<>>
  /\ calls' = calls \o RequestUnitStates
  /\ UNCHANGED <<worldVars, subscribed, matched, retry, cached, opening, noticed, viewVars, missed>>

SubscribeAnswered ==
  /\ Handles("Subscribe")
  /\ retry' = (retry \/ ~Head(mail).ok)
  /\ UNCHANGED <<worldVars, calls, subscribed, matched, cached, command, opening, noticed,
                 viewVars, missed>>

\* systemdRetryTimer: setupSystemdWatchers, which does not ask for the units again.
RetryFires ==
  /\ retry
  /\ Len(calls) + Len(mail) < MaxMessages
  /\ calls' = Append(calls, Subscribe)
  /\ ConnectSignals
  /\ retry' = ~matched'
  /\ UNCHANGED <<worldVars, mail, subscribed, cached, command, opening, noticed, viewVars, missed>>

\* captureHealthChanged, controllerHealthChanged, audioStateChanged, the first timer.
ChangeNoticed ==
  /\ noticed /\ noticed' = FALSE
  /\ UNCHANGED <<worldVars, busVars, cached, command, opening, missed>>
  /\ RefreshState
-----------------------------------------------------------------------------
(* The menu.                                                                 *)

\* runSystemdCommandsAsync
Run(op, first, second) ==
  /\ SetSwitchingState
  /\ IF command # <<>> THEN UNCHANGED <<command, calls>>
     ELSE /\ command' = <<[op |-> op, unit |-> first], [op |-> op, unit |-> second]>>
          /\ calls' = Append(calls, command'[1])

StartServices ==
  /\ "on" \in enabled
  /\ UNCHANGED <<worldVars, mail, subscribed, matched, retry, cached, opening, noticed, missed>>
  /\ IF mic THEN Run("StartUnit", "controller", "wakeword")
     ELSE UNCHANGED <<calls, command>> /\ RefreshState

StopServices ==
  /\ "off" \in enabled
  /\ UNCHANGED <<worldVars, mail, subscribed, matched, retry, cached, opening, noticed, missed>>
  /\ Run("StopUnit", "wakeword", "controller")

OpenVoicePage ==
  /\ "open" \in enabled
  /\ cached["controller"] /\ ~opening
  /\ opening' = TRUE /\ enabled' = enabled \ {"open"}
  /\ UNCHANGED <<worldVars, busVars, cached, command, noticed, shown, spinning, missed>>

\* The controller answered the POST, or did not.
OpenAnswered ==
  /\ opening /\ opening' = FALSE
  /\ UNCHANGED <<worldVars, busVars, cached, command, noticed, missed>>
  /\ RefreshState
-----------------------------------------------------------------------------
World == (\E u \in Units : UnitChanges(u)) \/ FileChanges \/ AudioChanges

ReadMail ==
  \/ SystemdStateChanged \/ UnitFound \/ UnitNotFound \/ ActiveStateArrives
  \/ CommandQueued \/ CommandFails \/ SubscribeAnswered

Clicks == StartServices \/ StopServices \/ OpenVoicePage

Next == World \/ SystemdServes \/ ReadMail \/ RetryFires \/ ChangeNoticed \/ Clicks \/ OpenAnswered

Spec == Init /\ [][Next]_vars

\* systemd answers, the event loop runs and timers fire.  Nobody owes a click, a change,
\* or an answer of the controller.
FairSpec ==
  /\ Spec
  /\ WF_vars(SystemdServes) /\ WF_vars(ReadMail) /\ WF_vars(ChangeNoticed) /\ WF_vars(RetryFires)
-----------------------------------------------------------------------------
Messages == {mail[i] : i \in DOMAIN mail}
Pending == {calls[i] : i \in DOMAIN calls}

UnitCalls == [op : {"StartUnit", "StopUnit"}, unit : Units]
Calls == [op : {"Subscribe"}, unit : {"none"}] \cup [op : {"GetUnit", "Get"}, unit : Units] \cup UnitCalls
Mail ==
  [re : {"Changed"}] \cup [re : {"Subscribe", "Command"}, ok : BOOLEAN]
  \cup [re : {"GetUnit"}, unit : Units, ok : BOOLEAN]
  \cup [re : {"Get"}, unit : Units, active : BOOLEAN]

\* Every variable keeps its type.
TypeOK ==
  /\ unit \in [Units -> {"active", "inactive"}] /\ mic \in BOOLEAN
  /\ capture \in CaptureTexts /\ health \in ControllerTexts
  /\ calls \in Seq(Calls) /\ mail \in Seq(Mail)
  /\ subscribed \in BOOLEAN /\ matched \in BOOLEAN /\ retry \in BOOLEAN
  /\ cached \in [Units -> BOOLEAN] /\ missed \in [Units -> BOOLEAN]
  /\ command \in Seq(UnitCalls) /\ Len(command) <= 2
  /\ opening \in BOOLEAN /\ noticed \in BOOLEAN
  /\ shown \in States \cup {"switching"} /\ enabled \subseteq {"on", "off", "open"}
  /\ spinning \in BOOLEAN

\* The cache of unit states is wrong only for as long as the news is on its way: a
\* signal, a question about the unit or the true answer to one; unless systemd failed
\* to tell (no subscription yet, a failed call).
CacheIsExplained ==
  \A u \in Units :
    cached[u] # Active(u) =>
      \/ missed[u]
      \/ \E call \in Pending : call.op \in {"GetUnit", "Get"} /\ call.unit = u
      \/ \E m \in Messages :
           \/ m.re = "Changed"
           \/ m.re = "GetUnit" /\ m.unit = u /\ m.ok
           \/ Reads(m, u) /\ Says(m) = Active(u)

\* What is shown, enabled and animated is what the inputs stand for as soon as every
\* change has been handled, whichever slot handled it; while a command is in flight
\* nothing redraws the menu or re-enables an action.
IconIsCurrent ==
  IF command # <<>> THEN shown = "switching" /\ enabled = {}
  ELSE shown # "switching" /\ ~noticed =>
         /\ shown = DaemonState
         /\ spinning = (shown = "Starting")
         /\ Menu(shown) \ {"open"} \subseteq enabled /\ enabled \subseteq Menu(shown)
         /\ "open" \in Menu(shown) \ enabled => opening

\* The green icon is earned in the world, and not only in the cache: microphone and both
\* markers say so, and the units agree, once all news has been handled.
OnIsEarned ==
  /\ shown \in {"On", "ConversationActive"}
  /\ ~noticed /\ mail = <<>> /\ calls = <<>> /\ \A u \in Units : ~missed[u]
  => /\ mic /\ capture = "healthy"
     /\ health = IF shown = "On" THEN "ready" ELSE "conversation-active"
     /\ unit["controller"] = unit["wakeword"]

\* The menu comes back after every command, accepted or refused half way, and after the
\* start of the tray.
MenuComesBack == shown = "switching" ~> shown # "switching"
=============================================================================
