---------------------------- MODULE ActivationSocket ----------------------------
(***************************************************************************)
(* The activation socket's path and the controller processes that share    *)
(* it: runtime/activation_socket.py (start, _prepare_socket_path, stop,    *)
(* _cleanup_socket_file) inside the start and the end of service.py.       *)
(*                                                                         *)
(* The unit starts a controller again after a crash, and a user may start  *)
(* one by hand while another runs.  All of them use one path and one HTTP  *)
(* port; a step is one system call that another process can see.  A crash  *)
(* leaves the path as it is.                                               *)
(***************************************************************************)
EXTENDS Naturals

CONSTANTS
  Processes,  \* slots for controller processes
  None,       \* no inode, no owner
  MaxStarts   \* starts of each slot in a behaviour (bound)

ASSUME NoneAssumption == None \notin Processes /\ None \notin Processes \X Nat
ASSUME StartsAssumption == MaxStarts \in Nat

VARIABLES
  pc,        \* where each process stands, "down" when there is none
  starts,    \* how often the slot was started
  path,      \* the inode at the socket path
  open,      \* the inode each process listens on
  existing,  \* existing_stat: what the first lstat found
  identity,  \* _path_identity
  port,      \* the process whose HTTP server has the port
  met,       \* history: another process was alive during this start
  raced      \* history: when this one listened another was between a look at the path and
             \* what it does to the path

fileVars == <<path, port>>
ownVars == <<open, existing, identity>>
historyVars == <<met, raced>>
vars == <<pc, starts, fileVars, ownVars, historyVars>>
-----------------------------------------------------------------------------
Preparing == {"probe", "recheck", "unlink", "bind"}
Overlapping == Preparing \cup {"listen", "stat", "remove"}
Steps == {"down", "lstat", "listen", "stat", "http", "ready",
          "close", "identify", "remove", "end"} \cup Preparing

Inode(p) == <<p, starts[p]>>
Files == (Processes \X Nat) \cup {None}
Alive(p) == pc[p] # "down"

\* A connect to the inode is accepted.
Healthy(inode) == \E p \in Processes : open[p] = inode

Init ==
  /\ pc = [p \in Processes |-> "down"]
  /\ starts = [p \in Processes |-> 0]
  /\ path = None /\ port = None
  /\ open = [p \in Processes |-> None]
  /\ existing = [p \in Processes |-> None]
  /\ identity = [p \in Processes |-> None]
  /\ met = [p \in Processes |-> FALSE]
  /\ raced = [p \in Processes |-> FALSE]
-----------------------------------------------------------------------------
Goto(p, step) == pc' = [pc EXCEPT ![p] = step]

\* systemd or a user starts the controller.
Launch(p) ==
  /\ pc[p] = "down" /\ starts[p] < MaxStarts
  /\ Goto(p, "lstat")
  /\ starts' = [starts EXCEPT ![p] = @ + 1]
  /\ met' = [q \in Processes |->
       IF q = p THEN \E r \in Processes : Alive(r) ELSE met[q] \/ Alive(q)]
  /\ raced' = [raced EXCEPT ![p] = FALSE]
  /\ UNCHANGED <<fileVars, ownVars>>

\* _prepare_socket_path: nothing there, or something to look at.
Lstat(p) ==
  /\ pc[p] = "lstat"
  /\ existing' = [existing EXCEPT ![p] = path]
  /\ Goto(p, IF path = None THEN "bind" ELSE "probe")
  /\ UNCHANGED <<starts, fileVars, open, identity, historyVars>>

\* A slip: any file at the path passes for a running controller.
ProbeAlwaysRefuses(p) ==
  /\ pc[p] = "probe"
  /\ Goto(p, "close")
  /\ UNCHANGED <<starts, fileVars, ownVars, historyVars>>

\* _probe_socket
ProbeSocket(p) ==
  /\ pc[p] = "probe"
  /\ Goto(p, IF Healthy(path) THEN "close" ELSE "recheck")
  /\ UNCHANGED <<starts, fileVars, ownVars, historyVars>>

\* The second lstat; a file that changed or went is an error.
Recheck(p) ==
  /\ pc[p] = "recheck"
  /\ Goto(p, IF path = existing[p] THEN "unlink" ELSE "close")
  /\ UNCHANGED <<starts, fileVars, ownVars, historyVars>>

UnlinkStale(p) ==
  /\ pc[p] = "unlink"
  /\ Goto(p, IF path = None THEN "close" ELSE "bind")
  /\ path' = None
  /\ UNCHANGED <<starts, port, ownVars, historyVars>>

\* asyncio.start_unix_server removes a socket at the path, whosever, and binds its own.
Bind(p) ==
  /\ pc[p] = "bind"
  /\ Goto(p, "listen")
  /\ path' = Inode(p)
  /\ UNCHANGED <<starts, port, ownVars, historyVars>>

Listen(p) ==
  /\ pc[p] = "listen"
  /\ Goto(p, "stat")
  /\ open' = [open EXCEPT ![p] = Inode(p)]
  /\ raced' = [raced EXCEPT ![p] =
       \/ path # Inode(p)
       \/ \E q \in Processes \ {p} : pc[q] \in Overlapping \/ identity[q] = Inode(p)]
  /\ UNCHANGED <<starts, fileVars, existing, identity, met>>

\* start(): the identity that stop will look for is read from the path.
ReadIdentity(p) ==
  /\ pc[p] = "stat"
  /\ identity' = [identity EXCEPT ![p] = path]
  /\ Goto(p, IF path = None THEN "close" ELSE "http")
  /\ UNCHANGED <<starts, fileVars, open, existing, historyVars>>

\* HTTP starts if the port is free; else the start fails.
HttpStarts(p) ==
  /\ pc[p] = "http"
  /\ IF port = None
     THEN port' = p /\ Goto(p, "ready")
     ELSE Goto(p, "close") /\ UNCHANGED port
  /\ UNCHANGED <<starts, path, ownVars, historyVars>>
-----------------------------------------------------------------------------
(* _shutdown, after a signal or a failed start.  HTTP goes first.            *)

StopRequested(p) ==
  /\ pc[p] = "ready"
  /\ Goto(p, "close")
  /\ port' = None
  /\ UNCHANGED <<starts, path, ownVars, historyVars>>

\* stop(): close the server, if start got that far.
CloseSocket(p) ==
  /\ pc[p] = "close"
  /\ open' = [open EXCEPT ![p] = None]
  /\ Goto(p, "identify")
  /\ UNCHANGED <<starts, fileVars, existing, identity, historyVars>>

\* A slip: stop removes whatever is at the path.
RemoveAny(p) ==
  /\ pc[p] = "identify"
  /\ Goto(p, IF path # None THEN "remove" ELSE "end")
  /\ UNCHANGED <<starts, fileVars, ownVars, historyVars>>

\* _cleanup_socket_file: only the socket that start saw is removed.
CompareIdentity(p) ==
  /\ pc[p] = "identify"
  /\ Goto(p, IF path # None /\ path = identity[p] THEN "remove" ELSE "end")
  /\ UNCHANGED <<starts, fileVars, ownVars, historyVars>>

RemoveSocket(p) ==
  /\ pc[p] = "remove"
  /\ path' = None
  /\ Goto(p, "end")
  /\ UNCHANGED <<starts, port, ownVars, historyVars>>

\* The process is gone, and all it knew.
Leave(p) ==
  /\ Goto(p, "down")
  /\ existing' = [existing EXCEPT ![p] = None]
  /\ identity' = [identity EXCEPT ![p] = None]
  /\ UNCHANGED <<starts, historyVars>>

End(p) ==
  /\ pc[p] = "end"
  /\ Leave(p)
  /\ UNCHANGED <<fileVars, open>>

\* SIGKILL or a crash, at any point; the path stays.
Crash(p) ==
  /\ Alive(p)
  /\ Leave(p)
  /\ open' = [open EXCEPT ![p] = None]
  /\ port' = IF port = p THEN None ELSE port
  /\ UNCHANGED path
-----------------------------------------------------------------------------
Start(p) ==
  \/ Lstat(p) \/ ProbeSocket(p) \/ Recheck(p) \/ UnlinkStale(p)
  \/ Bind(p) \/ Listen(p) \/ ReadIdentity(p) \/ HttpStarts(p)

Stop(p) == CloseSocket(p) \/ CompareIdentity(p) \/ RemoveSocket(p) \/ End(p)

Next == \E p \in Processes : Launch(p) \/ Start(p) \/ StopRequested(p) \/ Stop(p) \/ Crash(p)

Spec == Init /\ [][Next]_vars
-----------------------------------------------------------------------------
\* Every variable keeps its type; a file is named by the process and the start it is of.
TypeOK ==
  /\ pc \in [Processes -> Steps] /\ starts \in [Processes -> Nat]
  /\ path \in Files /\ port \in Processes \cup {None}
  /\ open \in [Processes -> Files]
  /\ existing \in [Processes -> Files] /\ identity \in [Processes -> Files]
  /\ met \in [Processes -> BOOLEAN] /\ raced \in [Processes -> BOOLEAN]

\* Whatever was left behind by crashes, refused starts and stops of others, the wake
\* listener reaches the controller that is ready: nobody takes the path of a controller
\* that listens.  Only starts that overlap in time may (see the README).
ReadyIsReachable ==
  \A p \in Processes : pc[p] \in {"http", "ready"} /\ ~raced[p] => path = open[p] /\ path = Inode(p)

\* A controller that starts alone always becomes ready: the socket that a crashed
\* one left behind does not stand in its way, and a fresh path is found fit again.
NeverRefusedAlone ==
  \A p \in Processes :
    pc[p] \in {"close", "identify", "remove", "end"} /\ ~met[p] => identity[p] = Inode(p)
=============================================================================
