-------------------------- MODULE ActivationSocket_proofs --------------------------
(***************************************************************************)
(* The activation socket stays with the controller that is ready, and a    *)
(* controller that starts alone is not refused: for any set of processes   *)
(* and any number of starts.                                               *)
(***************************************************************************)
EXTENDS ActivationSocket, TLAPS

\* What a process listens on is its own socket, from listen to close.
Custody(p) ==
  /\ open[p] \in {None, Inode(p)}
  /\ open[p] # None => pc[p] \in {"stat", "http", "ready", "close"}
  /\ pc[p] \in {"stat", "http", "ready"} => open[p] = Inode(p)

\* Once a start that met no other at the path has listened, nobody is at a step that
\* touches the path, and nobody mistakes its socket for their own.
Undisturbed(p) ==
  pc[p] \in {"stat", "http", "ready"} /\ ~raced[p] =>
    /\ path = Inode(p)
    /\ \A q \in Processes \ {p} :
         /\ pc[q] \notin {"recheck", "unlink", "bind", "listen", "stat", "remove"}
         /\ identity[q] # Inode(p)

\* A process that has met no other finds the path and the port as the dead left them, or
\* as it made them itself.
Alone(p) ==
  Alive(p) /\ ~met[p] =>
    /\ \A q \in Processes \ {p} : ~Alive(q)
    /\ pc[p] \in {"probe", "recheck"} => path # None /\ path = existing[p]
    /\ pc[p] = "unlink" => path # None
    /\ pc[p] \in {"listen", "stat"} => path = Inode(p)
    /\ pc[p] \in {"http", "ready", "close", "identify", "remove", "end"} => identity[p] = Inode(p)

\* The port belongs to a controller that is ready.
PortInUse == port # None => pc[port] = "ready"

IInv ==
  /\ TypeOK /\ PortInUse
  /\ \A p \in Processes : Custody(p)
  /\ \A p \in Processes : Undisturbed(p)
  /\ \A p \in Processes : Alone(p)
-----------------------------------------------------------------------------
\* The invariant holds of a machine on which nothing was started (__init__).
LEMMA InitHolds == Init => IInv
BY NoneAssumption DEF Init, IInv, TypeOK, PortInUse, Custody, Undisturbed, Alone, Alive,
  Files, Inode, Steps, Preparing

(* Each action of a process preserves the invariant, for it and the others.  *)

\* A start makes a new inode possible, and ends the solitude of those who are alive.
LEMMA LaunchKeeps == ASSUME IInv, NEW p \in Processes, Launch(p) PROVE IInv'
<1> USE NoneAssumption DEF Launch, Goto, fileVars, ownVars, historyVars, Inode, Files, Alive
<1>1. TypeOK'
  <2>1. met' \in [Processes -> BOOLEAN]
    <3>1. ASSUME NEW q \in Processes
          PROVE (IF q = p THEN \E r \in Processes : Alive(r) ELSE met[q] \/ Alive(q)) \in BOOLEAN
      BY Zenon DEF IInv, TypeOK
    <3> QED BY <3>1
  <2>2. starts' \in [Processes -> Nat]
    BY DEF IInv, TypeOK
  <2>3. raced' \in [Processes -> BOOLEAN] /\ pc' \in [Processes -> Steps]
    BY DEF IInv, TypeOK, Steps, Preparing
  <2> QED BY <2>1, <2>2, <2>3 DEF IInv, TypeOK
<1>2. PortInUse'
  BY DEF IInv, TypeOK, PortInUse
<1>3. ASSUME NEW q \in Processes PROVE Custody(q)'
  BY DEF IInv, TypeOK, Custody
<1>4. ASSUME NEW q \in Processes PROVE Undisturbed(q)'
  BY DEF IInv, TypeOK, Custody, Undisturbed
<1>5. ASSUME NEW q \in Processes PROVE Alone(q)'
  BY DEF IInv, TypeOK, PortInUse, Custody, Alone
<1> QED BY <1>1, <1>2, <1>3, <1>4, <1>5 DEF IInv

\* Alone, a path that is found holds the socket of a dead process.
LEMMA LstatKeeps == ASSUME IInv, NEW p \in Processes, Lstat(p) PROVE IInv'
<1> USE NoneAssumption DEF Lstat, Goto, fileVars, ownVars, historyVars, Inode, Files, Alive
<1>1. TypeOK'
  BY DEF IInv, TypeOK, Steps, Preparing
<1>2. PortInUse'
  BY DEF IInv, TypeOK, PortInUse
<1>3. ASSUME NEW q \in Processes PROVE Custody(q)'
  BY DEF IInv, TypeOK, Custody
<1>4. ASSUME NEW q \in Processes PROVE Undisturbed(q)'
  BY DEF IInv, TypeOK, Custody, Undisturbed
<1>5. ASSUME NEW q \in Processes PROVE Alone(q)'
  BY DEF IInv, TypeOK, PortInUse, Custody, Alone
<1> QED BY <1>1, <1>2, <1>3, <1>4, <1>5 DEF IInv

\* A socket somebody listens on answers: its owner is not disturbed.
LEMMA ProbeSocketKeeps == ASSUME IInv, NEW p \in Processes, ProbeSocket(p) PROVE IInv'
<1> USE NoneAssumption DEF ProbeSocket, Healthy, Goto, fileVars, ownVars, historyVars,
  Inode, Files, Alive
<1>1. TypeOK'
  BY DEF IInv, TypeOK, Steps, Preparing
<1>2. PortInUse'
  BY DEF IInv, TypeOK, PortInUse
<1>3. ASSUME NEW q \in Processes PROVE Custody(q)'
  BY DEF IInv, TypeOK, Custody
<1>4. ASSUME NEW q \in Processes PROVE Undisturbed(q)'
  BY DEF IInv, TypeOK, Custody, Undisturbed
<1>5. ASSUME NEW q \in Processes PROVE Alone(q)'
  BY DEF IInv, TypeOK, PortInUse, Custody, Alone
<1> QED BY <1>1, <1>2, <1>3, <1>4, <1>5 DEF IInv

\* The file looked at twice is the same one.
LEMMA RecheckKeeps == ASSUME IInv, NEW p \in Processes, Recheck(p) PROVE IInv'
<1> USE NoneAssumption DEF Recheck, Goto, fileVars, ownVars, historyVars, Inode, Files, Alive
<1>1. TypeOK'
  BY DEF IInv, TypeOK, Steps, Preparing
<1>2. PortInUse'
  BY DEF IInv, TypeOK, PortInUse
<1>3. ASSUME NEW q \in Processes PROVE Custody(q)'
  BY DEF IInv, TypeOK, Custody
<1>4. ASSUME NEW q \in Processes PROVE Undisturbed(q)'
  BY DEF IInv, TypeOK, Custody, Undisturbed
<1>5. ASSUME NEW q \in Processes PROVE Alone(q)'
  BY DEF IInv, TypeOK, PortInUse, Custody, Alone
<1> QED BY <1>1, <1>2, <1>3, <1>4, <1>5 DEF IInv

\* No start that listened undisturbed stands while another unlinks.
LEMMA UnlinkStaleKeeps == ASSUME IInv, NEW p \in Processes, UnlinkStale(p) PROVE IInv'
<1> USE NoneAssumption DEF UnlinkStale, Goto, fileVars, ownVars, historyVars, Inode, Files,
  Alive
<1>1. TypeOK'
  BY DEF IInv, TypeOK, Steps, Preparing
<1>2. PortInUse'
  BY DEF IInv, TypeOK, PortInUse
<1>3. ASSUME NEW q \in Processes PROVE Custody(q)'
  BY DEF IInv, TypeOK, Custody
<1>4. ASSUME NEW q \in Processes PROVE Undisturbed(q)'
  BY DEF IInv, TypeOK, Custody, Undisturbed
<1>5. ASSUME NEW q \in Processes PROVE Alone(q)'
  BY DEF IInv, TypeOK, PortInUse, Custody, Alone
<1> QED BY <1>1, <1>2, <1>3, <1>4, <1>5 DEF IInv

\* The path now names this process's socket.
LEMMA BindKeeps == ASSUME IInv, NEW p \in Processes, Bind(p) PROVE IInv'
<1> USE NoneAssumption DEF Bind, Goto, fileVars, ownVars, historyVars, Inode, Files, Alive
<1>1. TypeOK'
  BY DEF IInv, TypeOK, Steps, Preparing
<1>2. PortInUse'
  BY DEF IInv, TypeOK, PortInUse
<1>3. ASSUME NEW q \in Processes PROVE Custody(q)'
  BY DEF IInv, TypeOK, Custody
<1>4. ASSUME NEW q \in Processes PROVE Undisturbed(q)'
  BY DEF IInv, TypeOK, Custody, Undisturbed
<1>5. ASSUME NEW q \in Processes PROVE Alone(q)'
  BY DEF IInv, TypeOK, PortInUse, Custody, Alone
<1> QED BY <1>1, <1>2, <1>3, <1>4, <1>5 DEF IInv

\* The start counts as undisturbed only if nobody is near the path.
LEMMA ListenKeeps == ASSUME IInv, NEW p \in Processes, Listen(p) PROVE IInv'
<1> USE NoneAssumption DEF Listen, Overlapping, Preparing, Goto, fileVars, ownVars,
  historyVars, Inode, Files, Alive
<1>1. TypeOK'
  BY DEF IInv, TypeOK, Steps, Preparing
<1>2. PortInUse'
  BY DEF IInv, TypeOK, PortInUse
<1>3. ASSUME NEW q \in Processes PROVE Custody(q)'
  BY DEF IInv, TypeOK, Custody
<1>4. ASSUME NEW q \in Processes PROVE Undisturbed(q)'
  BY DEF IInv, TypeOK, Custody, Undisturbed
<1>5. ASSUME NEW q \in Processes PROVE Alone(q)'
  BY DEF IInv, TypeOK, PortInUse, Custody, Alone
<1> QED BY <1>1, <1>2, <1>3, <1>4, <1>5 DEF IInv

\* The identity that stop will look for is its own socket's.
LEMMA ReadIdentityKeeps == ASSUME IInv, NEW p \in Processes, ReadIdentity(p) PROVE IInv'
<1> USE NoneAssumption DEF ReadIdentity, Goto, fileVars, ownVars, historyVars, Inode, Files,
  Alive
<1>1. TypeOK'
  BY DEF IInv, TypeOK, Steps, Preparing
<1>2. PortInUse'
  BY DEF IInv, TypeOK, PortInUse
<1>3. ASSUME NEW q \in Processes PROVE Custody(q)'
  BY DEF IInv, TypeOK, Custody
<1>4. ASSUME NEW q \in Processes PROVE Undisturbed(q)'
  BY DEF IInv, TypeOK, Custody, Undisturbed
<1>5. ASSUME NEW q \in Processes PROVE Alone(q)'
  BY DEF IInv, TypeOK, PortInUse, Custody, Alone
<1> QED BY <1>1, <1>2, <1>3, <1>4, <1>5 DEF IInv

\* The port goes to one process at a time.
LEMMA HttpStartsKeeps == ASSUME IInv, NEW p \in Processes, HttpStarts(p) PROVE IInv'
<1> USE NoneAssumption DEF HttpStarts, Goto, fileVars, ownVars, historyVars, Inode, Files, Alive
<1>1. TypeOK'
  BY DEF IInv, TypeOK, Steps, Preparing
<1>2. PortInUse'
  BY DEF IInv, TypeOK, PortInUse
<1>3. ASSUME NEW q \in Processes PROVE Custody(q)'
  BY DEF IInv, TypeOK, Custody
<1>4. ASSUME NEW q \in Processes PROVE Undisturbed(q)'
  BY DEF IInv, TypeOK, Custody, Undisturbed
<1>5. ASSUME NEW q \in Processes PROVE Alone(q)'
  BY DEF IInv, TypeOK, PortInUse, Custody, Alone
<1> QED BY <1>1, <1>2, <1>3, <1>4, <1>5 DEF IInv

\* HTTP goes first, the socket later.
LEMMA StopRequestedKeeps == ASSUME IInv, NEW p \in Processes, StopRequested(p) PROVE IInv'
<1> USE NoneAssumption DEF StopRequested, Goto, fileVars, ownVars, historyVars, Inode,
  Files, Alive
<1>1. TypeOK'
  BY DEF IInv, TypeOK, Steps, Preparing
<1>2. PortInUse'
  BY DEF IInv, TypeOK, PortInUse
<1>3. ASSUME NEW q \in Processes PROVE Custody(q)'
  BY DEF IInv, TypeOK, Custody
<1>4. ASSUME NEW q \in Processes PROVE Undisturbed(q)'
  BY DEF IInv, TypeOK, Custody, Undisturbed
<1>5. ASSUME NEW q \in Processes PROVE Alone(q)'
  BY DEF IInv, TypeOK, PortInUse, Custody, Alone
<1> QED BY <1>1, <1>2, <1>3, <1>4, <1>5 DEF IInv

\* The server is closed before its file is removed.
LEMMA CloseSocketKeeps == ASSUME IInv, NEW p \in Processes, CloseSocket(p) PROVE IInv'
<1> USE NoneAssumption DEF CloseSocket, Goto, fileVars, ownVars, historyVars, Inode, Files,
  Alive
<1>1. TypeOK'
  BY DEF IInv, TypeOK, Steps, Preparing
<1>2. PortInUse'
  BY DEF IInv, TypeOK, PortInUse
<1>3. ASSUME NEW q \in Processes PROVE Custody(q)'
  BY DEF IInv, TypeOK, Custody
<1>4. ASSUME NEW q \in Processes PROVE Undisturbed(q)'
  BY DEF IInv, TypeOK, Custody, Undisturbed
<1>5. ASSUME NEW q \in Processes PROVE Alone(q)'
  BY DEF IInv, TypeOK, PortInUse, Custody, Alone
<1> QED BY <1>1, <1>2, <1>3, <1>4, <1>5 DEF IInv

\* The socket of an undisturbed controller carries nobody else's identity.
LEMMA CompareIdentityKeeps == ASSUME IInv, NEW p \in Processes, CompareIdentity(p) PROVE IInv'
<1> USE NoneAssumption DEF CompareIdentity, Goto, fileVars, ownVars, historyVars, Inode,
  Files, Alive
<1>1. TypeOK'
  BY DEF IInv, TypeOK, Steps, Preparing
<1>2. PortInUse'
  BY DEF IInv, TypeOK, PortInUse
<1>3. ASSUME NEW q \in Processes PROVE Custody(q)'
  BY DEF IInv, TypeOK, Custody
<1>4. ASSUME NEW q \in Processes PROVE Undisturbed(q)'
  BY DEF IInv, TypeOK, Custody, Undisturbed
<1>5. ASSUME NEW q \in Processes PROVE Alone(q)'
  BY DEF IInv, TypeOK, PortInUse, Custody, Alone
<1> QED BY <1>1, <1>2, <1>3, <1>4, <1>5 DEF IInv

\* Nobody removes while an undisturbed controller stands.
LEMMA RemoveSocketKeeps == ASSUME IInv, NEW p \in Processes, RemoveSocket(p) PROVE IInv'
<1> USE NoneAssumption DEF RemoveSocket, Goto, fileVars, ownVars, historyVars, Inode, Files,
  Alive
<1>1. TypeOK'
  BY DEF IInv, TypeOK, Steps, Preparing
<1>2. PortInUse'
  BY DEF IInv, TypeOK, PortInUse
<1>3. ASSUME NEW q \in Processes PROVE Custody(q)'
  BY DEF IInv, TypeOK, Custody
<1>4. ASSUME NEW q \in Processes PROVE Undisturbed(q)'
  BY DEF IInv, TypeOK, Custody, Undisturbed
<1>5. ASSUME NEW q \in Processes PROVE Alone(q)'
  BY DEF IInv, TypeOK, PortInUse, Custody, Alone
<1> QED BY <1>1, <1>2, <1>3, <1>4, <1>5 DEF IInv

\* A process that ends forgets what it knew.
LEMMA EndKeeps == ASSUME IInv, NEW p \in Processes, End(p) PROVE IInv'
<1> USE NoneAssumption DEF End, Leave, Goto, fileVars, ownVars, historyVars, Inode, Files, Alive
<1>1. TypeOK'
  BY DEF IInv, TypeOK, Steps, Preparing
<1>2. PortInUse'
  BY DEF IInv, TypeOK, PortInUse
<1>3. ASSUME NEW q \in Processes PROVE Custody(q)'
  BY DEF IInv, TypeOK, Custody
<1>4. ASSUME NEW q \in Processes PROVE Undisturbed(q)'
  BY DEF IInv, TypeOK, Custody, Undisturbed
<1>5. ASSUME NEW q \in Processes PROVE Alone(q)'
  BY DEF IInv, TypeOK, PortInUse, Custody, Alone
<1> QED BY <1>1, <1>2, <1>3, <1>4, <1>5 DEF IInv

\* A crash leaves the path, and frees port and listener.
LEMMA CrashKeeps == ASSUME IInv, NEW p \in Processes, Crash(p) PROVE IInv'
<1> USE NoneAssumption DEF Crash, Leave, Goto, fileVars, ownVars, historyVars, Inode, Files,
  Alive
<1>1. TypeOK'
  BY DEF IInv, TypeOK, Steps, Preparing
<1>2. PortInUse'
  BY DEF IInv, TypeOK, PortInUse
<1>3. ASSUME NEW q \in Processes PROVE Custody(q)'
  BY DEF IInv, TypeOK, Custody
<1>4. ASSUME NEW q \in Processes PROVE Undisturbed(q)'
  BY DEF IInv, TypeOK, Custody, Undisturbed
<1>5. ASSUME NEW q \in Processes PROVE Alone(q)'
  BY DEF IInv, TypeOK, PortInUse, Custody, Alone
<1> QED BY <1>1, <1>2, <1>3, <1>4, <1>5 DEF IInv

\* The invariant survives every step of every process, and stuttering.
THEOREM Inductive == Spec => []IInv
<1>1. IInv /\ [Next]_vars => IInv'
  <2> SUFFICES ASSUME IInv, [Next]_vars PROVE IInv'
    OBVIOUS
  <2>1. CASE UNCHANGED vars
    BY <2>1 DEF vars, fileVars, ownVars, historyVars, IInv, TypeOK, PortInUse, Custody,
      Undisturbed, Alone, Alive, Inode, Files
  <2>2. ASSUME NEW p \in Processes, Launch(p) \/ Start(p) \/ StopRequested(p) \/ Stop(p) \/ Crash(p)
        PROVE IInv'
    BY <2>2, LaunchKeeps, LstatKeeps, ProbeSocketKeeps, RecheckKeeps, UnlinkStaleKeeps,
      BindKeeps, ListenKeeps, ReadIdentityKeeps, HttpStartsKeeps, StopRequestedKeeps,
      CloseSocketKeeps, CompareIdentityKeeps, RemoveSocketKeeps, EndKeeps, CrashKeeps
      DEF Start, Stop
  <2> QED BY <2>1, <2>2 DEF Next
<1> QED BY InitHolds, <1>1, PTL DEF Spec

\* Every variable keeps its type.
THEOREM TypeCorrect == Spec => []TypeOK
<1>1. IInv => TypeOK
  BY DEF IInv
<1> QED BY Inductive, <1>1, PTL

\* A controller that is ready, or about to be, is reached at the path, unless its start
\* overlapped with another process at the path (start and stop of ActivationSocket).
THEOREM SafeReachable == Spec => []ReadyIsReachable
<1>1. IInv => ReadyIsReachable
  BY DEF IInv, ReadyIsReachable, Custody, Undisturbed
<1> QED BY Inductive, <1>1, PTL

\* A start that meets no other process gets past the socket a dead one left behind, and
\* past the port, to be ready (_prepare_socket_path).
THEOREM SafeStart == Spec => []NeverRefusedAlone
<1>1. IInv => NeverRefusedAlone
  BY DEF IInv, NeverRefusedAlone, Alone, Alive
<1> QED BY Inductive, <1>1, PTL
=============================================================================
