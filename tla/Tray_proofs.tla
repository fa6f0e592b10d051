------------------------------ MODULE Tray_proofs ------------------------------
(***************************************************************************)
(* What the tray shows is what it knows, and what it knows is what the     *)
(* units are once all news has been handled: for any marker texts and any  *)
(* faults, and with any number of messages on the bus.                     *)
(***************************************************************************)
EXTENDS Tray, TLAPS

IsUnitCall(call) == call.op \in {"StartUnit", "StopUnit"}

\* At most one unit call is on its way, as a call or as its answer, and then a command is
\* in flight.
OneUnitCall ==
  /\ \A i, j \in 1 .. Len(calls) : IsUnitCall(calls[i]) /\ IsUnitCall(calls[j]) => i = j
  /\ \A i, j \in 1 .. Len(mail) : mail[i].re = "Command" /\ mail[j].re = "Command" => i = j
  /\ \A i \in 1 .. Len(calls), j \in 1 .. Len(mail) :
       ~(IsUnitCall(calls[i]) /\ mail[j].re = "Command")
  /\ \A i \in 1 .. Len(calls) : IsUnitCall(calls[i]) => command # <<>>
  /\ \A i \in 1 .. Len(mail) : mail[i].re = "Command" => command # <<>>

Asks(call, u) == call.op \in {"GetUnit", "Get"} /\ call.unit = u

\* The message brings the truth about the unit, or makes the tray ask for it.
Explains(m, u) ==
  \/ m.re = "Changed"
  \/ m.re = "GetUnit" /\ m.unit = u /\ m.ok
  \/ Reads(m, u) /\ Says(m) = Active(u)

Lies(m, u) == Reads(m, u) /\ Says(m) # Active(u)

\* Either the truth is on its way with nothing behind it that hides it, or it is known
\* and nothing on its way disturbs it.
Informed(u) ==
  \/ missed[u]
  \/ \E i \in 1 .. Len(calls) : Asks(calls[i], u)
  \/ \E i \in 1 .. Len(mail) :
       Explains(mail[i], u) /\ \A j \in i + 1 .. Len(mail) : ~Lies(mail[j], u)
  \/ cached[u] = Active(u) /\ \A j \in 1 .. Len(mail) : ~Lies(mail[j], u)

IInv ==
  /\ TypeOK /\ OneUnitCall /\ IconIsCurrent
  /\ \A u \in Units : Informed(u)
-----------------------------------------------------------------------------
(* Queues: what Tail, Append and \o do to the messages on the bus.           *)

\* A slot takes the first message of the mail.
LEMMA TailFacts ==
  ASSUME NEW S, NEW s \in Seq(S), s # <<>>
  PROVE /\ Tail(s) \in Seq(S) /\ Head(s) = s[1] /\ Head(s) \in S
        /\ Len(s) \in Nat \ {0} /\ Len(Tail(s)) = Len(s) - 1
        /\ \A i \in 1 .. Len(Tail(s)) : Tail(s)[i] = s[i + 1] /\ i + 1 \in 1 .. Len(s)
OBVIOUS

\* A call or an answer is put at the end.
LEMMA AppendFacts ==
  ASSUME NEW S, NEW s \in Seq(S), NEW e \in S
  PROVE /\ Append(s, e) \in Seq(S) /\ Len(Append(s, e)) = Len(s) + 1 /\ Len(s) \in Nat
        /\ \A i \in 1 .. Len(s) : Append(s, e)[i] = s[i]
        /\ Append(s, e)[Len(s) + 1] = e
OBVIOUS

\* requestUnitStates asks for both units.
LEMMA ConcatFacts ==
  ASSUME NEW S, NEW s \in Seq(S), NEW a \in S, NEW b \in S
  PROVE /\ s \o <<a, b>> \in Seq(S) /\ Len(s \o <<a, b>>) = Len(s) + 2 /\ Len(s) \in Nat
        /\ \A i \in 1 .. Len(s) : (s \o <<a, b>>)[i] = s[i]
        /\ (s \o <<a, b>>)[Len(s) + 1] = a /\ (s \o <<a, b>>)[Len(s) + 2] = b
OBVIOUS

\* requestUnitStates adds a question about each unit and keeps the calls before it.
LEMMA BothAsked ==
  ASSUME TypeOK, calls' = calls \o RequestUnitStates
  PROVE /\ calls' \in Seq(Calls) /\ Len(calls) \in Nat /\ Len(calls') = Len(calls) + 2
        /\ \A i \in 1 .. Len(calls) : calls'[i] = calls[i]
        /\ \A i \in Len(calls) + 1 .. Len(calls') : ~IsUnitCall(calls'[i])
        /\ \A u \in Units : \E i \in 1 .. Len(calls') : Asks(calls'[i], u)
<1> DEFINE a == [op |-> "GetUnit", unit |-> "controller"]
           b == [op |-> "GetUnit", unit |-> "wakeword"]
<1>1. a \in Calls /\ b \in Calls
  BY DEF Calls, Units
<1>2. calls \in Seq(Calls) /\ calls' = calls \o <<a, b>>
  BY DEF TypeOK, RequestUnitStates
<1>3. /\ calls' \in Seq(Calls) /\ Len(calls') = Len(calls) + 2 /\ Len(calls) \in Nat
      /\ \A i \in 1 .. Len(calls) : calls'[i] = calls[i]
      /\ calls'[Len(calls) + 1] = a /\ calls'[Len(calls) + 2] = b
  <2> HIDE DEF a, b
  <2> QED BY <1>1, <1>2, ConcatFacts
<1>4. \A i \in Len(calls) + 1 .. Len(calls') : ~IsUnitCall(calls'[i])
  BY <1>3 DEF IsUnitCall
<1>5. Asks(calls'[Len(calls) + 1], "controller") /\ Asks(calls'[Len(calls) + 2], "wakeword")
  BY <1>3 DEF Asks
<1>6. Len(calls) + 1 \in 1 .. Len(calls') /\ Len(calls) + 2 \in 1 .. Len(calls')
  BY <1>3
<1>7. \A u \in Units : \E i \in 1 .. Len(calls') : Asks(calls'[i], u)
  BY <1>5, <1>6, Zenon DEF Units
<1> QED BY <1>3, <1>4, <1>7

\* A slot that handles the first message.
LEMMA MailTaken ==
  ASSUME TypeOK, NEW r, Handles(r)
  PROVE /\ mail' \in Seq(Mail) /\ mail[1] \in Mail /\ Head(mail) = mail[1] /\ mail[1].re = r
        /\ Len(mail) \in Nat \ {0} /\ Len(mail') = Len(mail) - 1
        /\ \A i \in 1 .. Len(mail') : mail'[i] = mail[i + 1] /\ i + 1 \in 1 .. Len(mail)
<1>1. mail \in Seq(Mail) /\ mail # <<>> /\ mail' = Tail(mail) /\ Head(mail).re = r
  BY DEF TypeOK, Handles
<1> QED BY <1>1, TailFacts
-----------------------------------------------------------------------------
(* What keeps the tray informed.                                             *)

\* A slot that handles a message keeps the tray informed about a unit if it keeps the
\* questions, acts on news, and stores what it was told.
LEMMA SlotInforms ==
  ASSUME IInv, NEW u \in Units, NEW r, Handles(r), unit' = unit, missed' = missed,
         \A i \in 1 .. Len(calls) : \E j \in 1 .. Len(calls') : calls'[j] = calls[i],
         Explains(mail[1], u) =>
           (\E j \in 1 .. Len(calls') : Asks(calls'[j], u)) \/ cached'[u] = Active(u),
         cached'[u] = cached[u] \/ (Reads(mail[1], u) /\ cached'[u] = Says(mail[1]))
  PROVE Informed(u)'
<1> USE DEF Active
<1>1. /\ Len(mail) \in Nat \ {0} /\ Len(mail') = Len(mail) - 1
      /\ \A i \in 1 .. Len(mail') : mail'[i] = mail[i + 1] /\ i + 1 \in 1 .. Len(mail)
  BY MailTaken DEF IInv
<1>2. Informed(u)
  BY DEF IInv
<1>3. CASE missed[u]
  BY <1>3 DEF Informed
<1>4. CASE \E i \in 1 .. Len(calls) : Asks(calls[i], u)
  BY <1>4 DEF Informed
<1>5. ASSUME NEW i \in 1 .. Len(mail), Explains(mail[i], u),
             \A j \in i + 1 .. Len(mail) : ~Lies(mail[j], u)
      PROVE Informed(u)'
  <2>1. CASE i = 1
    <3>1. (\A j \in 1 .. Len(mail) : ~Lies(mail[j], u))'
      BY <1>1, <1>5, <2>1 DEF Lies, Reads, Says
    <3> QED BY <3>1, <1>5, <2>1 DEF Informed
  <2>2. CASE i # 1
    <3>1. i - 1 \in 1 .. Len(mail') /\ mail'[i - 1] = mail[i]
      BY <1>1, <2>2
    <3>2. Explains(mail[i - 1], u)'
      BY <3>1, <1>5 DEF Explains, Reads, Says
    <3>3. (\A j \in (i - 1) + 1 .. Len(mail) : ~Lies(mail[j], u))'
      BY <1>1, <1>5, <2>2 DEF Lies, Reads, Says
    <3> QED BY <3>1, <3>2, <3>3 DEF Informed
  <2> QED BY <2>1, <2>2
<1>6. CASE cached[u] = Active(u) /\ \A j \in 1 .. Len(mail) : ~Lies(mail[j], u)
  <2>1. (\A j \in 1 .. Len(mail) : ~Lies(mail[j], u))'
    BY <1>1, <1>6 DEF Lies, Reads, Says
  <2>2. cached'[u] = Active(u)
    BY <1>1, <1>6 DEF Lies
  <2> QED BY <2>1, <2>2 DEF Informed
<1> QED BY <1>2, <1>3, <1>4, <1>5, <1>6 DEF Informed

\* A step that leaves the mail and the cache alone and keeps the questions.
LEMMA QuietInforms ==
  ASSUME IInv, NEW u \in Units, mail' = mail, unit' = unit, missed' = missed, cached' = cached,
         \A i \in 1 .. Len(calls) : \E j \in 1 .. Len(calls') : calls'[j] = calls[i]
  PROVE Informed(u)'
BY DEF IInv, Informed, Explains, Lies, Reads, Says, Active
-----------------------------------------------------------------------------
(* The view.                                                                 *)

\* stateFromInputs answers with a state, and refreshState enables known actions.
LEMMA RefreshTyped ==
  ASSUME TypeOK, RefreshState
  PROVE /\ shown' \in States \cup {"switching"}
        /\ enabled' \subseteq {"on", "off", "open"} /\ spinning' \in BOOLEAN
<1>1. CASE command' # <<>>
  BY <1>1 DEF TypeOK, RefreshState, viewVars
<1>2. CASE command' = <<>>
  <2>1. shown' = DaemonState' /\ enabled' = Menu(shown)' /\ spinning' = (shown' = "Starting")
    BY <1>2 DEF RefreshState
  <2>2. shown' \in States
    BY <2>1 DEF DaemonState, StateFromInputs, States
  <2>3. enabled' \subseteq {"on", "off", "open"}
    BY <2>1, <2>2 DEF Menu, States
  <2> QED BY <2>1, <2>2, <2>3
<1> QED BY <1>1, <1>2

\* A refresh brings the view up to date unless a command is in flight.
LEMMA RefreshShows == ASSUME IInv, RefreshState, command' = command PROVE IconIsCurrent'
<1>1. CASE command' # <<>>
  BY <1>1 DEF IInv, IconIsCurrent, RefreshState, viewVars
<1>2. CASE command' = <<>>
  <2>1. shown' = DaemonState' /\ enabled' = Menu(shown)' /\ spinning' = (shown' = "Starting")
    BY <1>2 DEF RefreshState
  <2> QED BY <1>2, <2>1 DEF IconIsCurrent
<1> QED BY <1>1, <1>2

\* A step that touches neither the view nor what it stands for.
LEMMA ViewKept ==
  ASSUME IInv, UNCHANGED <<shown, enabled, spinning, cached, command, opening>>,
         UNCHANGED <<mic, capture, health, noticed>>
  PROVE IconIsCurrent'
BY DEF IInv, IconIsCurrent, DaemonState, StateFromInputs, CaptureHealth, ControllerHealth, Menu

\* One unit call at most survives a slot that takes a message and makes no unit call.
LEMMA NoNewUnitCall ==
  ASSUME IInv, NEW r, Handles(r), command' = command, Len(calls) \in Nat, Len(calls') \in Nat,
         Len(calls) <= Len(calls'),
         \A i \in 1 .. Len(calls) : calls'[i] = calls[i],
         \A i \in Len(calls) + 1 .. Len(calls') : ~IsUnitCall(calls'[i])
  PROVE OneUnitCall'
<1>1. /\ Len(mail) \in Nat \ {0} /\ Len(mail') = Len(mail) - 1
      /\ \A i \in 1 .. Len(mail') : mail'[i] = mail[i + 1] /\ i + 1 \in 1 .. Len(mail)
  BY MailTaken DEF IInv
<1>2. \A i \in 1 .. Len(calls') :
        IsUnitCall(calls'[i]) => i \in 1 .. Len(calls) /\ calls'[i] = calls[i]
  OBVIOUS
<1>3. OneUnitCall
  BY DEF IInv
<1>4. \A i, j \in 1 .. Len(calls') : IsUnitCall(calls'[i]) /\ IsUnitCall(calls'[j]) => i = j
  BY <1>2, <1>3 DEF OneUnitCall
<1>5. \A i, j \in 1 .. Len(mail') : mail'[i].re = "Command" /\ mail'[j].re = "Command" => i = j
  <2> TAKE i, j \in 1 .. Len(mail')
  <2>1. mail'[i] = mail[i + 1] /\ mail'[j] = mail[j + 1] /\ {i + 1, j + 1} \subseteq 1 .. Len(mail)
    BY <1>1
  <2>2. mail[i + 1].re = "Command" /\ mail[j + 1].re = "Command" => i + 1 = j + 1
    BY <1>3, <2>1 DEF OneUnitCall
  <2> QED BY <2>1, <2>2
<1>6. \A i \in 1 .. Len(calls'), j \in 1 .. Len(mail') :
        ~(IsUnitCall(calls'[i]) /\ mail'[j].re = "Command")
  BY <1>1, <1>2, <1>3 DEF OneUnitCall
<1>7. /\ \A i \in 1 .. Len(calls') : IsUnitCall(calls'[i]) => command' # <<>>
      /\ \A i \in 1 .. Len(mail') : mail'[i].re = "Command" => command' # <<>>
  BY <1>1, <1>2, <1>3 DEF OneUnitCall
<1> QED BY <1>4, <1>5, <1>6, <1>7 DEF OneUnitCall, IsUnitCall
-----------------------------------------------------------------------------
(* Each action preserves the invariant.                                      *)

\* systemdJobRemoved and its like ask for both units.
LEMMA SystemdStateChangedKeeps == ASSUME IInv, SystemdStateChanged PROVE IInv'
<1>1. /\ Handles("Changed") /\ calls' = calls \o RequestUnitStates /\ TypeOK
      /\ UNCHANGED <<worldVars, subscribed, cached, command, opening, noticed, viewVars, missed>>
  BY DEF SystemdStateChanged, IInv
<1>2. /\ calls' \in Seq(Calls) /\ Len(calls) \in Nat /\ Len(calls') = Len(calls) + 2
      /\ \A i \in 1 .. Len(calls) : calls'[i] = calls[i]
      /\ \A i \in Len(calls) + 1 .. Len(calls') : ~IsUnitCall(calls'[i])
      /\ \A u \in Units : \E i \in 1 .. Len(calls') : Asks(calls'[i], u)
  BY <1>1, BothAsked
<1>3. TypeOK'
  <2>1. matched' \in BOOLEAN /\ retry' \in BOOLEAN
    BY DEF SystemdStateChanged, ConnectSignals, IInv, TypeOK
  <2> QED BY <1>1, <1>2, <2>1, MailTaken DEF TypeOK, worldVars, viewVars
<1>4. OneUnitCall'
  BY <1>1, <1>2, NoNewUnitCall
<1>5. IconIsCurrent'
  BY <1>1, ViewKept DEF worldVars, viewVars
<1>6. ASSUME NEW u \in Units PROVE Informed(u)'
  <2>1. \A i \in 1 .. Len(calls) : \E j \in 1 .. Len(calls') : calls'[j] = calls[i]
    BY <1>2
  <2> QED BY <1>1, <1>2, <2>1, SlotInforms DEF worldVars
<1> QED BY <1>3, <1>4, <1>5, <1>6 DEF IInv

\* The unit's object is known: its state is asked for.
LEMMA UnitFoundKeeps == ASSUME IInv, UnitFound PROVE IInv'
<1> DEFINE call == [op |-> "Get", unit |-> mail[1].unit]
<1>1. /\ Handles("GetUnit") /\ Head(mail).ok /\ TypeOK
      /\ calls' = Append(calls, [op |-> "Get", unit |-> Head(mail).unit])
      /\ UNCHANGED <<worldVars, subscribed, matched, retry, cached, command, opening, noticed,
                     viewVars, missed>>
  BY DEF UnitFound, IInv
<1>2. mail[1] \in Mail /\ Head(mail) = mail[1] /\ mail[1].re = "GetUnit" /\ mail' \in Seq(Mail)
  BY <1>1, MailTaken
<1>3. call \in Calls /\ ~IsUnitCall(call) /\ mail[1].unit \in Units
  BY <1>2 DEF Mail, Calls, IsUnitCall
<1>4. /\ calls' \in Seq(Calls) /\ Len(calls') = Len(calls) + 1 /\ Len(calls) \in Nat
      /\ \A i \in 1 .. Len(calls) : calls'[i] = calls[i]
      /\ calls'[Len(calls) + 1] = call
  <2>1. calls \in Seq(Calls) /\ calls' = Append(calls, call)
    BY <1>1, <1>2 DEF TypeOK
  <2> HIDE DEF call
  <2> QED BY <1>3, <2>1, AppendFacts
<1>5. TypeOK'
  BY <1>1, <1>2, <1>4 DEF TypeOK, worldVars, viewVars
<1>6. OneUnitCall'
  <2>1. \A i \in Len(calls) + 1 .. Len(calls') : ~IsUnitCall(calls'[i])
    BY <1>3, <1>4
  <2> QED BY <1>1, <1>4, <2>1, NoNewUnitCall
<1>7. IconIsCurrent'
  BY <1>1, ViewKept DEF worldVars, viewVars
<1>8. ASSUME NEW u \in Units PROVE Informed(u)'
  <2>1. \A i \in 1 .. Len(calls) : \E j \in 1 .. Len(calls') : calls'[j] = calls[i]
    BY <1>4
  <2>2. Explains(mail[1], u) => \E j \in 1 .. Len(calls') : Asks(calls'[j], u)
    BY <1>1, <1>2, <1>4 DEF Explains, Reads, Asks
  <2> QED BY <1>1, <2>1, <2>2, SlotInforms DEF worldVars
<1> QED BY <1>5, <1>6, <1>7, <1>8 DEF IInv

\* The cache takes an answer about a unit, and the view follows.
LEMMA AnswerStored ==
  ASSUME IInv, NEW r, Handles(r), NEW u \in Units, NEW active \in BOOLEAN,
         SetCachedUnitActive(u, active), RefreshState,
         Reads(mail[1], u), Says(mail[1]) = active,
         \A v \in Units \ {u} : ~Explains(mail[1], v), ~(Explains(mail[1], u) /\ active # Active(u))
  PROVE IInv'
<1>1. /\ TypeOK /\ cached' = [cached EXCEPT ![u] = active]
      /\ UNCHANGED <<worldVars, calls, subscribed, matched, retry, command, opening, noticed,
                     missed>>
  BY DEF SetCachedUnitActive, IInv
<1>2. TypeOK'
  BY <1>1, MailTaken, RefreshTyped DEF TypeOK, worldVars
<1>3. OneUnitCall'
  BY <1>1, NoNewUnitCall DEF TypeOK
<1>4. IconIsCurrent'
  BY <1>1, RefreshShows
<1>5. ASSUME NEW v \in Units PROVE Informed(v)'
  <2>1. \A i \in 1 .. Len(calls) : \E j \in 1 .. Len(calls') : calls'[j] = calls[i]
    BY <1>1
  <2>2. CASE v = u
    <3>1. cached'[v] = Says(mail[1]) /\ (Explains(mail[1], v) => cached'[v] = Active(v))
      BY <1>1, <2>2 DEF TypeOK
    <3> QED BY <1>1, <2>1, <2>2, <3>1, SlotInforms DEF worldVars
  <2>3. CASE v # u
    <3>1. cached'[v] = cached[v] /\ ~Explains(mail[1], v)
      BY <1>1, <2>3 DEF TypeOK
    <3> QED BY <1>1, <2>1, <3>1, SlotInforms DEF worldVars
  <2> QED BY <2>2, <2>3
<1> QED BY <1>2, <1>3, <1>4, <1>5 DEF IInv

\* A unit that is not loaded is not active.
LEMMA UnitNotFoundKeeps == ASSUME IInv, UnitNotFound PROVE IInv'
<1>1. /\ Handles("GetUnit") /\ ~Head(mail).ok /\ RefreshState
      /\ SetCachedUnitActive(Head(mail).unit, FALSE)
  BY DEF UnitNotFound
<1>2. mail[1] \in Mail /\ Head(mail) = mail[1] /\ mail[1].re = "GetUnit"
  BY <1>1, MailTaken DEF IInv
<1>3. mail[1].unit \in Units /\ Reads(mail[1], mail[1].unit) /\ Says(mail[1]) = FALSE
  BY <1>1, <1>2 DEF Mail, Reads, Says
<1>4. \A v \in Units \ {mail[1].unit} : ~Explains(mail[1], v)
  BY <1>1, <1>2 DEF Explains, Reads
<1>5. ~(Explains(mail[1], mail[1].unit) /\ FALSE # Active(mail[1].unit))
  BY <1>1, <1>2, <1>3 DEF Explains
<1> QED BY <1>1, <1>2, <1>3, <1>4, <1>5, AnswerStored

\* The state of a unit arrives.
LEMMA ActiveStateArrivesKeeps == ASSUME IInv, ActiveStateArrives PROVE IInv'
<1>1. /\ Handles("Get") /\ RefreshState
      /\ SetCachedUnitActive(Head(mail).unit, Head(mail).active)
  BY DEF ActiveStateArrives
<1>2. mail[1] \in Mail /\ Head(mail) = mail[1] /\ mail[1].re = "Get"
  BY <1>1, MailTaken DEF IInv
<1>3. /\ mail[1].unit \in Units /\ mail[1].active \in BOOLEAN
      /\ Reads(mail[1], mail[1].unit) /\ Says(mail[1]) = mail[1].active
  BY <1>2 DEF Mail, Reads, Says
<1>4. \A v \in Units \ {mail[1].unit} : ~Explains(mail[1], v)
  BY <1>2 DEF Explains, Reads
<1>5. ~(Explains(mail[1], mail[1].unit) /\ mail[1].active # Active(mail[1].unit))
  BY <1>2, <1>3 DEF Explains
<1> QED BY <1>1, <1>2, <1>3, <1>4, <1>5, AnswerStored

\* The answer to Subscribe starts the retry timer or is forgotten.
LEMMA SubscribeAnsweredKeeps == ASSUME IInv, SubscribeAnswered PROVE IInv'
<1>1. /\ Handles("Subscribe") /\ retry' = (retry \/ ~Head(mail).ok) /\ TypeOK
      /\ UNCHANGED <<worldVars, calls, subscribed, matched, cached, command, opening, noticed,
                     viewVars, missed>>
  BY DEF SubscribeAnswered, IInv
<1>2. mail[1] \in Mail /\ Head(mail) = mail[1] /\ mail[1].re = "Subscribe" /\ mail' \in Seq(Mail)
  BY <1>1, MailTaken
<1>3. TypeOK'
  <2>1. retry' \in BOOLEAN
    BY <1>1 DEF TypeOK
  <2> QED BY <1>1, <1>2, <2>1 DEF TypeOK, worldVars, viewVars
<1>4. OneUnitCall'
  BY <1>1, NoNewUnitCall DEF TypeOK
<1>5. IconIsCurrent'
  BY <1>1, ViewKept DEF worldVars, viewVars
<1>6. ASSUME NEW u \in Units PROVE Informed(u)'
  <2>1. ~Explains(mail[1], u)
    BY <1>2 DEF Explains, Reads
  <2> QED BY <1>1, <2>1, SlotInforms DEF worldVars
<1> QED BY <1>3, <1>4, <1>5, <1>6 DEF IInv

\* While systemd's answer to a unit call is in the mail, a command is in flight and no
\* other unit call is on its way.
LEMMA CommandAnswered ==
  ASSUME IInv, Handles("Command")
  PROVE /\ command # <<>>
        /\ \A i \in 1 .. Len(calls) : ~IsUnitCall(calls[i])
        /\ \A i \in 1 .. Len(mail') : mail'[i].re # "Command"
        /\ \A u \in Units : ~Explains(mail[1], u) /\ ~Reads(mail[1], u)
<1>1. /\ mail[1].re = "Command" /\ Len(mail) \in Nat \ {0} /\ Len(mail') = Len(mail) - 1
      /\ \A i \in 1 .. Len(mail') : mail'[i] = mail[i + 1] /\ i + 1 \in 1 .. Len(mail)
  BY MailTaken DEF IInv
<1>2. OneUnitCall
  BY DEF IInv
<1>3. command # <<>> /\ \A i \in 1 .. Len(calls) : ~IsUnitCall(calls[i])
  BY <1>1, <1>2 DEF OneUnitCall
<1>4. \A i \in 1 .. Len(mail') : mail'[i].re # "Command"
  <2> TAKE i \in 1 .. Len(mail')
  <2>1. mail'[i] = mail[i + 1] /\ i + 1 \in 1 .. Len(mail) /\ i + 1 # 1
    BY <1>1
  <2> QED BY <1>1, <1>2, <2>1 DEF OneUnitCall
<1>5. \A u \in Units : ~Explains(mail[1], u) /\ ~Reads(mail[1], u)
  BY <1>1 DEF Explains, Reads
<1> QED BY <1>3, <1>4, <1>5

\* The end of a command, complete or broken off: the units are asked for again.
LEMMA CommandOver ==
  ASSUME IInv, Handles("Command"), command' = <<>>, calls' = calls \o RequestUnitStates,
         UNCHANGED <<worldVars, subscribed, matched, retry, cached, opening, noticed>>,
         UNCHANGED <<viewVars, missed>>
  PROVE IInv'
<1>1. /\ calls' \in Seq(Calls) /\ Len(calls) \in Nat /\ Len(calls') = Len(calls) + 2
      /\ \A i \in 1 .. Len(calls) : calls'[i] = calls[i]
      /\ \A i \in Len(calls) + 1 .. Len(calls') : ~IsUnitCall(calls'[i])
  BY BothAsked DEF IInv
<1>2. TypeOK'
  <2>1. command' \in Seq(UnitCalls) /\ Len(command') <= 2
    OBVIOUS
  <2> QED BY <1>1, <2>1, MailTaken DEF IInv, TypeOK, worldVars, viewVars
<1>3. OneUnitCall'
  <2>1. \A i \in 1 .. Len(calls') : ~IsUnitCall(calls'[i])
    <3> TAKE i \in 1 .. Len(calls')
    <3>1. CASE i \in 1 .. Len(calls)
      BY <1>1, <3>1, CommandAnswered DEF IsUnitCall
    <3>2. CASE i \in Len(calls) + 1 .. Len(calls')
      BY <1>1, <3>2
    <3> QED BY <1>1, <3>1, <3>2
  <2>2. \A i \in 1 .. Len(mail') : mail'[i].re # "Command"
    BY CommandAnswered
  <2> QED BY <2>1, <2>2 DEF OneUnitCall, IsUnitCall
<1>4. IconIsCurrent'
  <2>1. shown = "switching"
    BY CommandAnswered DEF IInv, IconIsCurrent
  <2> QED BY <2>1 DEF IconIsCurrent, viewVars
<1>5. ASSUME NEW u \in Units PROVE Informed(u)'
  <2>1. \A i \in 1 .. Len(calls) : \E j \in 1 .. Len(calls') : calls'[j] = calls[i]
    BY <1>1
  <2> QED BY <2>1, CommandAnswered, SlotInforms DEF worldVars
<1> QED BY <1>2, <1>3, <1>4, <1>5 DEF IInv

\* CommandFails gives the command up.
LEMMA CommandFailsKeeps == ASSUME IInv, CommandFails PROVE IInv'
BY CommandOver DEF CommandFails

\* A call in an empty place of the protocol: nothing else is on its way.
LEMMA UnitCallMade ==
  ASSUME TypeOK, NEW call \in UnitCalls, calls' = Append(calls, call), command' # <<>>,
         \A i \in 1 .. Len(calls) : ~IsUnitCall(calls[i]),
         \A i \in 1 .. Len(mail') : mail'[i].re # "Command"
  PROVE /\ calls' \in Seq(Calls) /\ OneUnitCall'
        /\ \A i \in 1 .. Len(calls) : \E j \in 1 .. Len(calls') : calls'[j] = calls[i]
<1>1. call \in Calls /\ calls \in Seq(Calls)
  BY DEF Calls, TypeOK
<1>2. /\ calls' \in Seq(Calls) /\ Len(calls') = Len(calls) + 1 /\ Len(calls) \in Nat
      /\ \A i \in 1 .. Len(calls) : calls'[i] = calls[i]
  BY <1>1, AppendFacts
<1>3. \A i \in 1 .. Len(calls') : IsUnitCall(calls'[i]) => i = Len(calls')
  BY <1>2 DEF IsUnitCall
<1>4. OneUnitCall'
  BY <1>3 DEF OneUnitCall, IsUnitCall
<1> QED BY <1>2, <1>4

\* CommandQueued goes on to the second unit, or is done.
LEMMA CommandQueuedKeeps == ASSUME IInv, CommandQueued PROVE IInv'
<1>1. /\ Handles("Command") /\ command' = Tail(command)
      /\ calls' = calls \o IF Tail(command) = <<>> THEN RequestUnitStates ELSE <<command[2]>>
      /\ UNCHANGED <<worldVars, subscribed, matched, retry, cached, opening, noticed,
                     viewVars, missed>>
  BY DEF CommandQueued
<1>2. CASE Tail(command) = <<>>
  BY <1>1, <1>2, CommandOver
<1>3. CASE Tail(command) # <<>>
  <2>1. /\ command \in Seq(UnitCalls) /\ Len(command) <= 2 /\ command # <<>> /\ calls \in Seq(Calls)
    BY <1>1, CommandAnswered DEF IInv, TypeOK
  <2>2. Tail(command) \in Seq(UnitCalls) /\ Len(command) = 2 /\ Len(Tail(command)) = 1
    <3>1. Tail(command) \in Seq(UnitCalls) /\ Len(Tail(command)) = Len(command) - 1
      BY <2>1, TailFacts
    <3>2. Len(Tail(command)) \in Nat \ {0} /\ Len(command) \in Nat
      BY <1>3, <2>1, <3>1, TailFacts
    <3> QED BY <2>1, <3>1, <3>2
  <2>3. command[2] \in UnitCalls
    <3>1. 2 \in 1 .. Len(command)
      BY <2>2
    <3> HIDE DEF UnitCalls
    <3> QED BY <2>1, <3>1
  <2>4. calls' = Append(calls, command[2])
    BY <1>1, <1>3, <2>1
  <2>5. /\ calls' \in Seq(Calls) /\ OneUnitCall'
        /\ \A i \in 1 .. Len(calls) : \E j \in 1 .. Len(calls') : calls'[j] = calls[i]
    BY <1>1, <1>3, <2>3, <2>4, CommandAnswered, UnitCallMade DEF IInv
  <2>6. TypeOK'
    <3>1. command' \in Seq(UnitCalls) /\ Len(command') <= 2
      BY <1>1, <2>2
    <3> QED BY <1>1, <2>5, <3>1, MailTaken DEF IInv, TypeOK, worldVars, viewVars
  <2>7. IconIsCurrent'
    BY <1>1, <1>3, <2>1 DEF IInv, IconIsCurrent, viewVars
  <2>8. ASSUME NEW u \in Units PROVE Informed(u)'
    BY <1>1, <2>5, CommandAnswered, SlotInforms DEF worldVars
  <2> QED BY <2>5, <2>6, <2>7, <2>8 DEF IInv
<1> QED BY <1>2, <1>3

\* A step of the world or of a slot that changes neither the bus's messages nor units.
LEMMA BusQuiet ==
  ASSUME IInv, UNCHANGED <<unit, calls, mail, cached, command, missed>>
  PROVE OneUnitCall' /\ \A u \in Units : Informed(u)'
<1>1. OneUnitCall'
  BY DEF IInv, OneUnitCall, IsUnitCall
<1>2. \A i \in 1 .. Len(calls) : \E j \in 1 .. Len(calls') : calls'[j] = calls[i]
  OBVIOUS
<1> QED BY <1>1, <1>2, QuietInforms

\* Files and microphone change outside; the tray has yet to notice.
LEMMA WorldKeeps == ASSUME IInv, FileChanges \/ AudioChanges PROVE IInv'
<1> USE DEF FileChanges, AudioChanges, busVars, viewVars
<1>1. TypeOK'
  BY DEF IInv, TypeOK
<1>2. IconIsCurrent'
  BY DEF IInv, IconIsCurrent
<1> QED BY <1>1, <1>2, BusQuiet DEF IInv

\* The watchers' slot, and the answer of the voice page's POST, refresh the view.
LEMMA RefreshKeeps == ASSUME IInv, ChangeNoticed \/ OpenAnswered PROVE IInv'
<1> USE DEF ChangeNoticed, OpenAnswered, busVars, worldVars
<1>1. TypeOK'
  BY RefreshTyped DEF IInv, TypeOK
<1>2. IconIsCurrent'
  BY RefreshShows
<1> QED BY <1>1, <1>2, BusQuiet DEF IInv

\* Opening the page takes the action away until the controller has answered.
LEMMA OpenVoicePageKeeps == ASSUME IInv, OpenVoicePage PROVE IInv'
<1> USE DEF OpenVoicePage, busVars, worldVars
<1>1. TypeOK'
  BY DEF IInv, TypeOK
<1>2. IconIsCurrent'
  BY DEF IInv, IconIsCurrent, DaemonState, StateFromInputs, CaptureHealth, ControllerHealth, Menu
<1> QED BY <1>1, <1>2, BusQuiet DEF IInv

\* The retry timer subscribes once more.
LEMMA RetryFiresKeeps == ASSUME IInv, RetryFires PROVE IInv'
<1>1. /\ calls' = Append(calls, Subscribe) /\ retry' = ~matched' /\ matched' \in BOOLEAN
      /\ UNCHANGED <<worldVars, mail, subscribed, cached, command, opening, noticed,
                     viewVars, missed>>
  BY DEF RetryFires, ConnectSignals
<1>2. Subscribe \in Calls /\ calls \in Seq(Calls) /\ ~IsUnitCall(Subscribe)
  BY DEF Subscribe, Calls, IInv, TypeOK, IsUnitCall
<1>3. /\ calls' \in Seq(Calls) /\ Len(calls') = Len(calls) + 1 /\ Len(calls) \in Nat
      /\ \A i \in 1 .. Len(calls) : calls'[i] = calls[i]
      /\ calls'[Len(calls) + 1] = Subscribe
  BY <1>1, <1>2, AppendFacts
<1>4. TypeOK'
  BY <1>1, <1>3 DEF IInv, TypeOK, worldVars, viewVars
<1>5. OneUnitCall'
  <2>1. \A i \in 1 .. Len(calls') :
          IsUnitCall(calls'[i]) => i \in 1 .. Len(calls) /\ IsUnitCall(calls[i])
    BY <1>2, <1>3
  <2> QED BY <1>1, <2>1 DEF IInv, OneUnitCall, IsUnitCall
<1>6. IconIsCurrent'
  BY <1>1, ViewKept DEF worldVars, viewVars
<1>7. ASSUME NEW u \in Units PROVE Informed(u)'
  BY <1>1, <1>3, QuietInforms DEF worldVars
<1> QED BY <1>4, <1>5, <1>6, <1>7 DEF IInv

\* runSystemdCommandsAsync, from a menu that offers the action: no command is in flight.
LEMMA RunKeeps ==
  ASSUME IInv, command = <<>>, NEW op \in {"StartUnit", "StopUnit"},
         NEW first \in Units, NEW second \in Units, Run(op, first, second),
         UNCHANGED <<worldVars, mail, subscribed, matched, retry, cached, opening, noticed, missed>>
  PROVE IInv'
<1> DEFINE one == [op |-> op, unit |-> first]
           two == [op |-> op, unit |-> second]
<1>1. one \in UnitCalls /\ two \in UnitCalls
  BY DEF UnitCalls
<1>2. /\ command' = <<one, two>> /\ calls' = Append(calls, one)
      /\ shown' = "switching" /\ enabled' = {} /\ spinning' = TRUE
  BY DEF Run, SetSwitchingState
<1>3. command' # <<>> /\ command' \in Seq(UnitCalls) /\ Len(command') <= 2
  <2> HIDE DEF one, two
  <2> QED BY <1>1, <1>2
<1>4. /\ \A i \in 1 .. Len(calls) : ~IsUnitCall(calls[i])
      /\ \A i \in 1 .. Len(mail') : mail'[i].re # "Command"
  BY DEF IInv, OneUnitCall
<1>5. /\ calls' \in Seq(Calls) /\ OneUnitCall'
      /\ \A i \in 1 .. Len(calls) : \E j \in 1 .. Len(calls') : calls'[j] = calls[i]
  <2> HIDE DEF one
  <2> QED BY <1>1, <1>2, <1>3, <1>4, UnitCallMade DEF IInv
<1>6. TypeOK'
  BY <1>2, <1>3, <1>5 DEF IInv, TypeOK, worldVars
<1>7. IconIsCurrent'
  BY <1>2, <1>3 DEF IconIsCurrent
<1>8. ASSUME NEW u \in Units PROVE Informed(u)'
  BY <1>5, QuietInforms DEF worldVars
<1> QED BY <1>5, <1>6, <1>7, <1>8 DEF IInv

\* Turn ON, or only a refresh when the microphone has gone.
LEMMA StartServicesKeeps == ASSUME IInv, StartServices PROVE IInv'
<1>1. /\ "on" \in enabled /\ command = <<>>
      /\ UNCHANGED <<worldVars, mail, subscribed, matched, retry, cached, opening, noticed, missed>>
  BY DEF StartServices, IInv, IconIsCurrent
<1>2. CASE mic
  BY <1>1, <1>2, RunKeeps DEF StartServices, Units
<1>3. CASE ~mic
  <2>1. UNCHANGED <<calls, command>> /\ RefreshState
    BY <1>3 DEF StartServices
  <2>2. TypeOK'
    BY <1>1, <2>1, RefreshTyped DEF IInv, TypeOK, worldVars
  <2>3. IconIsCurrent'
    BY <2>1, RefreshShows
  <2> QED BY <1>1, <2>1, <2>2, <2>3, BusQuiet DEF IInv, worldVars
<1> QED BY <1>2, <1>3

\* Turn OFF.
LEMMA StopServicesKeeps == ASSUME IInv, StopServices PROVE IInv'
<1>1. /\ "off" \in enabled /\ command = <<>> /\ Run("StopUnit", "wakeword", "controller")
      /\ UNCHANGED <<worldVars, mail, subscribed, matched, retry, cached, opening, noticed, missed>>
  BY DEF StopServices, IInv, IconIsCurrent
<1> QED BY <1>1, RunKeeps DEF Units

\* A unit changes: its signal goes to the end of the mail, or the tray misses it.
LEMMA UnitChangesKeeps == ASSUME IInv, NEW u \in Units, UnitChanges(u) PROVE IInv'
<1> DEFINE news == [re |-> "Changed"]
<1>1. /\ unit' = [unit EXCEPT ![u] = IF Active(u) THEN "inactive" ELSE "active"]
      /\ UNCHANGED <<capture, health, mic, calls, subscribed, matched, retry, cached, command,
                     opening, noticed, viewVars>>
      /\ \A v \in Units \ {u} : Active(v)' = Active(v)
  BY DEF UnitChanges, IInv, TypeOK, Active
<1>2. unit' \in [Units -> {"active", "inactive"}]
  BY <1>1 DEF IInv, TypeOK
<1>3. IconIsCurrent'
  BY <1>1, ViewKept DEF viewVars
<1>4. CASE subscribed /\ matched
  <2>1. mail' = Append(mail, news) /\ missed' = missed /\ news \in Mail /\ mail \in Seq(Mail)
    BY <1>4 DEF UnitChanges, Mail, IInv, TypeOK
  <2>2. /\ mail' \in Seq(Mail) /\ Len(mail') = Len(mail) + 1 /\ Len(mail) \in Nat
        /\ \A i \in 1 .. Len(mail) : mail'[i] = mail[i]
    <3> HIDE DEF news
    <3> QED BY <2>1, AppendFacts
  <2>3. mail'[Len(mail')].re = "Changed" /\ Len(mail') \in 1 .. Len(mail')
    <3>1. mail'[Len(mail) + 1] = news
      <4> HIDE DEF news
      <4> QED BY <2>1, AppendFacts
    <3> QED BY <2>2, <3>1
  <2>4. TypeOK'
    BY <1>1, <1>2, <2>1, <2>2 DEF IInv, TypeOK, viewVars
  <2>5. OneUnitCall'
    <3>1. \A i \in 1 .. Len(mail') :
            mail'[i].re = "Command" => i \in 1 .. Len(mail) /\ mail[i].re = "Command"
      BY <2>2, <2>3
    <3> QED BY <1>1, <3>1 DEF IInv, OneUnitCall, IsUnitCall
  <2>6. ASSUME NEW v \in Units PROVE Informed(v)'
    <3>1. Explains(mail[Len(mail)], v)'
      BY <2>3 DEF Explains
    <3>2. (\A j \in Len(mail) + 1 .. Len(mail) : ~Lies(mail[j], v))'
      BY <2>2
    <3> QED BY <2>3, <3>1, <3>2 DEF Informed
  <2> QED BY <1>3, <2>4, <2>5, <2>6 DEF IInv
<1>5. CASE ~(subscribed /\ matched)
  <2>1. missed' = [missed EXCEPT ![u] = TRUE] /\ mail' = mail
    BY <1>5 DEF UnitChanges
  <2>2. TypeOK'
    BY <1>1, <1>2, <2>1 DEF IInv, TypeOK, viewVars
  <2>3. OneUnitCall'
    BY <1>1, <2>1 DEF IInv, OneUnitCall, IsUnitCall
  <2>4. ASSUME NEW v \in Units PROVE Informed(v)'
    <3>1. CASE v = u
      BY <2>1, <3>1 DEF Informed, IInv, TypeOK
    <3>2. CASE v # u
      <4>1. missed'[v] = missed[v] /\ Active(v)' = Active(v) /\ Informed(v)
        BY <1>1, <2>1, <3>2 DEF IInv, TypeOK
      <4> QED BY <1>1, <2>1, <4>1 DEF Informed, Explains, Lies, Reads, Says, Asks
    <3> QED BY <3>1, <3>2
  <2> QED BY <1>3, <2>2, <2>3, <2>4 DEF IInv
<1> QED BY <1>4, <1>5

\* systemd's answers are messages the tray knows, and only a unit call is answered as one.
LEMMA AnswersTyped ==
  ASSUME TypeOK, NEW call \in Calls, NEW answer \in Answers(call)
  PROVE /\ answer \in Mail
        /\ answer.re = "Command" => IsUnitCall(call)
        /\ \A u \in Units : Asks(call, u) =>
             Reads(answer, u) \/ (answer.re = "GetUnit" /\ answer.unit = u /\ answer.ok)
<1> DEFINE fails(fault) == IF fault \in Faults THEN BOOLEAN ELSE {FALSE}
<1>1. CASE call.op = "Subscribe"
  <2>1. PICK f \in fails("subscribe") : answer = [re |-> "Subscribe", ok |-> ~subscribed /\ ~f]
    BY <1>1 DEF Answers
  <2>2. (~subscribed /\ ~f) \in BOOLEAN
    OBVIOUS
  <2> QED BY <1>1, <2>1, <2>2 DEF Mail, Asks
<1>2. CASE call.op = "GetUnit"
  <2>1. PICK ok \in BOOLEAN : answer = [re |-> "GetUnit", unit |-> call.unit, ok |-> ok]
    BY <1>2 DEF Answers
  <2>2. call.unit \in Units
    BY <1>2 DEF Calls, UnitCalls
  <2> QED BY <1>2, <2>1, <2>2 DEF Mail, Asks, Reads
<1>3. CASE call.op = "Get"
  <2>1. PICK f \in fails("lookup") :
          answer = [re |-> "Get", unit |-> call.unit, active |-> Active(call.unit) /\ ~f]
    BY <1>3 DEF Answers
  <2>2. call.unit \in Units
    BY <1>3 DEF Calls, UnitCalls
  <2>3. (Active(call.unit) /\ ~f) \in BOOLEAN
    OBVIOUS
  <2> QED BY <1>3, <2>1, <2>2, <2>3 DEF Mail, Asks, Reads
<1>4. CASE call.op \in {"StartUnit", "StopUnit"}
  <2>1. PICK f \in fails("command") : answer = [re |-> "Command", ok |-> ~f]
    BY <1>4 DEF Answers
  <2> QED BY <1>4, <2>1 DEF Mail, Asks, IsUnitCall
<1> QED BY <1>1, <1>2, <1>3, <1>4 DEF Calls, UnitCalls

\* systemd serves the first call; its answer goes to the end of the mail, and `missed`
\* remembers whether the tray is told the truth.
LEMMA SystemdServesKeeps == ASSUME IInv, SystemdServes PROVE IInv'
<1>1. PICK answer \in Answers(Head(calls)) :
        /\ mail' = Append(mail, answer)
        /\ subscribed' = (subscribed \/ (answer.re = "Subscribe" /\ answer.ok))
        /\ missed' = [u \in Units |->
             IF Reads(answer, u) THEN Says(answer) # Active(u) ELSE missed[u]]
  BY DEF SystemdServes
<1>2. /\ calls # <<>> /\ calls' = Tail(calls) /\ calls \in Seq(Calls) /\ mail \in Seq(Mail)
      /\ UNCHANGED <<worldVars, matched, retry, cached, command, opening, noticed, viewVars>>
  BY DEF SystemdServes, IInv, TypeOK
<1>3. /\ calls' \in Seq(Calls) /\ Head(calls) = calls[1] /\ calls[1] \in Calls
      /\ Len(calls) \in Nat \ {0} /\ Len(calls') = Len(calls) - 1
      /\ \A i \in 1 .. Len(calls') : calls'[i] = calls[i + 1] /\ i + 1 \in 1 .. Len(calls)
  BY <1>2, TailFacts
<1>4. /\ answer \in Mail /\ (answer.re = "Command" => IsUnitCall(calls[1]))
      /\ \A u \in Units : Asks(calls[1], u) =>
           Reads(answer, u) \/ (answer.re = "GetUnit" /\ answer.unit = u /\ answer.ok)
  BY <1>1, <1>3, AnswersTyped DEF IInv
<1>5. /\ mail' \in Seq(Mail) /\ Len(mail') = Len(mail) + 1 /\ Len(mail) \in Nat
      /\ \A i \in 1 .. Len(mail) : mail'[i] = mail[i]
      /\ mail'[Len(mail) + 1] = answer
  BY <1>1, <1>2, <1>4, AppendFacts
<1>6. TypeOK'
  <2>1. missed' \in [Units -> BOOLEAN]
    <3>1. ASSUME NEW u \in Units
          PROVE (IF Reads(answer, u) THEN Says(answer) # Active(u) ELSE missed[u]) \in BOOLEAN
      BY DEF IInv, TypeOK
    <3> QED BY <1>1, <3>1
  <2>2. subscribed' \in BOOLEAN
    BY <1>1 DEF IInv, TypeOK
  <2> QED BY <1>2, <1>3, <1>5, <2>1, <2>2 DEF IInv, TypeOK, worldVars, viewVars
<1>7. OneUnitCall'
  <2>1. OneUnitCall
    BY DEF IInv
  <2>2. \A i \in 1 .. Len(calls') : IsUnitCall(calls'[i]) =>
          i + 1 \in 1 .. Len(calls) /\ IsUnitCall(calls[i + 1]) /\ ~IsUnitCall(calls[1])
    BY <1>3, <2>1 DEF OneUnitCall
  <2>3. \A i \in 1 .. Len(mail') : mail'[i].re = "Command" =>
          \/ i \in 1 .. Len(mail) /\ mail[i].re = "Command"
          \/ i = Len(mail') /\ IsUnitCall(calls[1])
    BY <1>4, <1>5
  <2>4. \A i, j \in 1 .. Len(calls') : IsUnitCall(calls'[i]) /\ IsUnitCall(calls'[j]) => i = j
    <3> SUFFICES ASSUME NEW i \in 1 .. Len(calls'), NEW j \in 1 .. Len(calls'),
                        IsUnitCall(calls'[i]), IsUnitCall(calls'[j])
                 PROVE i = j
      OBVIOUS
    <3>1. i + 1 = j + 1
      BY <2>1, <2>2 DEF OneUnitCall
    <3> QED BY <3>1
  <2>5. 1 \in 1 .. Len(calls)
    BY <1>3
  <2>6. \A i, j \in 1 .. Len(mail') : mail'[i].re = "Command" /\ mail'[j].re = "Command" => i = j
    BY <2>1, <2>3, <2>5 DEF OneUnitCall
  <2>7. \A i \in 1 .. Len(calls'), j \in 1 .. Len(mail') :
          ~(IsUnitCall(calls'[i]) /\ mail'[j].re = "Command")
    BY <2>1, <2>2, <2>3 DEF OneUnitCall
  <2>8. /\ \A i \in 1 .. Len(calls') : IsUnitCall(calls'[i]) => command' # <<>>
        /\ \A i \in 1 .. Len(mail') : mail'[i].re = "Command" => command' # <<>>
    BY <1>2, <2>1, <2>2, <2>3, <2>5 DEF OneUnitCall
  <2> QED BY <2>4, <2>6, <2>7, <2>8 DEF OneUnitCall, IsUnitCall
<1>8. IconIsCurrent'
  BY <1>2, ViewKept DEF worldVars, viewVars
<1>9. ASSUME NEW u \in Units PROVE Informed(u)'
  <2>1. /\ Active(u)' = Active(u) /\ cached' = cached /\ Informed(u)
        /\ missed'[u] = IF Reads(answer, u) THEN Says(answer) # Active(u) ELSE missed[u]
    BY <1>1, <1>2 DEF Active, worldVars, IInv
  <2>2. CASE Lies(answer, u)
    BY <2>1, <2>2 DEF Lies, Informed
  <2>3. CASE ~Lies(answer, u) /\ Explains(answer, u)
    <3>1. Explains(mail[Len(mail)], u)'
      BY <1>5, <2>1, <2>3 DEF Explains
    <3>2. (\A j \in Len(mail) + 1 .. Len(mail) : ~Lies(mail[j], u))'
      BY <1>5
    <3>3. Len(mail') \in 1 .. Len(mail')
      BY <1>5
    <3> QED BY <3>1, <3>2, <3>3 DEF Informed
  <2>4. CASE ~Lies(answer, u) /\ ~Explains(answer, u)
    <3>1. ~Reads(answer, u) /\ missed'[u] = missed[u] /\ ~Asks(calls[1], u)
      BY <1>4, <2>1, <2>4 DEF Lies, Explains
    <3>2. CASE missed[u]
      BY <3>1, <3>2 DEF Informed
    <3>3. ASSUME NEW i \in 1 .. Len(calls), Asks(calls[i], u) PROVE Informed(u)'
      <4>1. i # 1 /\ i - 1 \in 1 .. Len(calls') /\ calls'[i - 1] = calls[i]
        BY <1>3, <3>1, <3>3
      <4>2. Asks(calls'[i - 1], u)
        BY <3>3, <4>1
      <4> QED BY <4>1, <4>2 DEF Informed, Asks
    <3>4. \A j \in 1 .. Len(mail') :
            (j \in 1 .. Len(mail) /\ mail'[j] = mail[j]) \/ mail'[j] = answer
      BY <1>5
    <3>5. ASSUME NEW i \in 1 .. Len(mail), Explains(mail[i], u),
                 \A j \in i + 1 .. Len(mail) : ~Lies(mail[j], u)
          PROVE Informed(u)'
      <4>1. i \in 1 .. Len(mail') /\ mail'[i] = mail[i]
        BY <1>5
      <4>2. Explains(mail[i], u)'
        BY <2>1, <3>5, <4>1 DEF Explains, Reads, Says
      <4>3. (\A j \in i + 1 .. Len(mail) : ~Lies(mail[j], u))'
        BY <1>5, <2>1, <2>4, <3>4, <3>5 DEF Lies, Reads, Says
      <4> QED BY <4>1, <4>2, <4>3 DEF Informed
    <3>6. CASE cached[u] = Active(u) /\ \A j \in 1 .. Len(mail) : ~Lies(mail[j], u)
      <4>1. (\A j \in 1 .. Len(mail) : ~Lies(mail[j], u))'
        BY <2>1, <2>4, <3>4, <3>6 DEF Lies, Reads, Says
      <4> QED BY <2>1, <3>6, <4>1 DEF Informed
    <3> QED BY <2>1, <3>2, <3>3, <3>5, <3>6 DEF Informed
  <2> QED BY <2>2, <2>3, <2>4
<1> QED BY <1>6, <1>7, <1>8, <1>9 DEF IInv
-----------------------------------------------------------------------------
\* The constructor knows nothing and asks for everything.
LEMMA InitHolds == ASSUME TextsAssumption, Init PROVE IInv
<1> DEFINE a == [op |-> "GetUnit", unit |-> "controller"]
           b == [op |-> "GetUnit", unit |-> "wakeword"]
<1>1. Subscribe \in Calls /\ a \in Calls /\ b \in Calls
  BY DEF Subscribe, Calls, Units
<1>2. calls = <<Subscribe>> \o <<a, b>> /\ mail = <<>> /\ command = <<>>
  BY DEF Init, RequestUnitStates
<1>3. calls \in Seq(Calls) /\ Len(calls) = 3 /\ calls[2] = a /\ calls[3] = b /\ calls[1] = Subscribe
  <2> HIDE DEF a, b
  <2>1. /\ <<Subscribe>> \in Seq(Calls) /\ Len(<<Subscribe>>) = 1 /\ <<Subscribe>>[1] = Subscribe
    BY <1>1
  <2> QED BY <1>1, <1>2, <2>1, ConcatFacts
<1>4. TypeOK
  <2>1. mail \in Seq(Mail) /\ command \in Seq(UnitCalls) /\ Len(command) <= 2
    BY <1>2
  <2>2. /\ matched \in BOOLEAN /\ retry \in BOOLEAN
        /\ shown \in States \cup {"switching"} /\ enabled \subseteq {"on", "off", "open"}
    BY DEF Init
  <2> QED BY <1>3, <2>1, <2>2 DEF Init, TypeOK
<1>5. \A i \in 1 .. Len(calls) : ~IsUnitCall(calls[i])
  BY <1>3 DEF IsUnitCall, Subscribe
<1>6. OneUnitCall /\ IconIsCurrent
  BY <1>2, <1>5 DEF OneUnitCall, IconIsCurrent, Init
<1>7. Asks(calls[2], "controller") /\ Asks(calls[3], "wakeword")
  BY <1>3 DEF Asks
<1>8. ASSUME NEW u \in Units PROVE Informed(u)
  <2>1. 2 \in 1 .. Len(calls) /\ 3 \in 1 .. Len(calls)
    BY <1>3
  <2>2. \E i \in 1 .. Len(calls) : Asks(calls[i], u)
    BY <1>7, <2>1, Zenon DEF Units
  <2> QED BY <2>2 DEF Informed
<1> QED BY <1>4, <1>6, <1>8 DEF IInv

\* The invariant holds initially and survives every step.
THEOREM Inductive == Spec => []IInv
<1>1. Init => IInv
  BY InitHolds, TextsAssumption
<1>2. IInv /\ [Next]_vars => IInv'
  <2> SUFFICES ASSUME IInv, [Next]_vars PROVE IInv'
    OBVIOUS
  <2>1. CASE UNCHANGED vars
    <3>1. TypeOK'
      BY <2>1 DEF vars, worldVars, busVars, viewVars, IInv, TypeOK
    <3>2. IconIsCurrent'
      BY <2>1, ViewKept DEF vars, worldVars, viewVars
    <3> QED BY <2>1, <3>1, <3>2, BusQuiet DEF vars, worldVars, busVars, IInv
  <2>2. CASE World
    BY <2>2, UnitChangesKeeps, WorldKeeps DEF World
  <2>3. CASE ReadMail
    BY <2>3, SystemdStateChangedKeeps, UnitFoundKeeps, UnitNotFoundKeeps, ActiveStateArrivesKeeps,
      CommandQueuedKeeps, CommandFailsKeeps, SubscribeAnsweredKeeps DEF ReadMail
  <2>4. CASE Clicks
    BY <2>4, StartServicesKeeps, StopServicesKeeps, OpenVoicePageKeeps DEF Clicks
  <2> QED BY <2>1, <2>2, <2>3, <2>4, SystemdServesKeeps, RetryFiresKeeps, RefreshKeeps DEF Next
<1> QED BY <1>1, <1>2, PTL DEF Spec

\* Every variable keeps its type.
THEOREM TypeCorrect == Spec => []TypeOK
<1>1. IInv => TypeOK
  BY DEF IInv
<1> QED BY Inductive, <1>1, PTL

\* Icon, tooltip, menu and animation follow the inputs (refreshState), and nothing redraws
\* them while a command is in flight.
THEOREM SafeIcon == Spec => []IconIsCurrent
<1>1. IInv => IconIsCurrent
  BY DEF IInv
<1> QED BY Inductive, <1>1, PTL

\* The cache of unit states is wrong only while the news is on its way (setCachedUnitActive).
THEOREM SafeCache == Spec => []CacheIsExplained
<1>1. IInv => CacheIsExplained
  <2> SUFFICES ASSUME IInv, NEW u \in Units, cached[u] # Active(u), ~missed[u]
               PROVE \/ \E call \in Pending : call.op \in {"GetUnit", "Get"} /\ call.unit = u
                     \/ \E m \in Messages : Explains(m, u)
    BY DEF CacheIsExplained, Explains
  <2>1. DOMAIN calls = 1 .. Len(calls) /\ DOMAIN mail = 1 .. Len(mail)
    BY DEF IInv, TypeOK
  <2>2. Informed(u)
    BY DEF IInv
  <2>3. CASE \E i \in 1 .. Len(calls) : Asks(calls[i], u)
    BY <2>1, <2>3 DEF Asks, Pending
  <2>4. CASE \E i \in 1 .. Len(mail) : Explains(mail[i], u)
    BY <2>1, <2>4 DEF Messages
  <2>5. \/ \E i \in 1 .. Len(calls) : Asks(calls[i], u)
        \/ \E i \in 1 .. Len(mail) : Explains(mail[i], u)
    BY <2>2, Zenon DEF Informed
  <2> QED BY <2>3, <2>4, <2>5
<1> QED BY Inductive, <1>1, PTL

\* The green icon means a microphone, both markers and units that agree (stateFromInputs),
\* once all news has been handled.
THEOREM SafeOn == Spec => []OnIsEarned
<1>1. IInv => OnIsEarned
  <2> SUFFICES ASSUME IInv, shown \in {"On", "ConversationActive"}, ~noticed, mail = <<>>,
                      calls = <<>>, \A u \in Units : ~missed[u]
               PROVE /\ mic /\ capture = "healthy"
                     /\ health = IF shown = "On" THEN "ready" ELSE "conversation-active"
                     /\ unit["controller"] = unit["wakeword"]
    BY DEF OnIsEarned
  <2>1. shown = DaemonState
    BY DEF IInv, IconIsCurrent
  <2>2. /\ mic /\ capture = "healthy" /\ cached["controller"] = cached["wakeword"]
        /\ health = IF shown = "On" THEN "ready" ELSE "conversation-active"
    BY <2>1 DEF DaemonState, StateFromInputs, CaptureHealth, ControllerHealth
  <2>3. \A u \in Units : cached[u] = Active(u)
    BY DEF IInv, Informed
  <2> QED BY <2>2, <2>3 DEF Units, Active, IInv, TypeOK
<1> QED BY Inductive, <1>1, PTL
=============================================================================
