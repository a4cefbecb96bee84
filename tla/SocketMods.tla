---------------------------- MODULE SocketMods ----------------------------
(***************************************************************************)
(* The socket modules: KernelModules/tcp-mod/kernel/tcpmod.c accepts one   *)
(* connection on PORT while it is loaded, and                              *)
(* KernelModules/udp-mod/kernel/udpmod.c sends one datagram.               *)
(*                                                                         *)
(* One step per socket call; each of them may fail.  What a module's       *)
(* pointers refer to is an open socket of the kernel, which stays open     *)
(* when the module is gone unless somebody has released it.                *)
(***************************************************************************)
EXTENDS Naturals, FiniteSets

CONSTANTS
  Sockets,   \* bound: the sockets that can be open at a time
  NULL

ASSUME SocketModsAssumption == NULL \notin Sockets

VARIABLES
  at,        \* where the thread is in init or exit; "dead": it has faulted
  sock,      \* the pointer of each module
  new_sock,  \* and the second one of tcp-mod
  open       \* the state of each socket: closed, new, bound, listening or connected

sockVars == <<at, sock, new_sock, open>>

SocketModules == {"tcp", "udp"}

Goto(m, label) == at' = [at EXCEPT ![m] = label]

\* The module is not loaded: its static pointers are gone, too.
Gone(m) ==
  /\ Goto(m, "out")
  /\ sock' = [sock EXCEPT ![m] = NULL]
  /\ new_sock' = IF m = "tcp" THEN NULL ELSE new_sock

\* A call that only moves the thread on.
Moves(m, from, to) ==
  /\ at[m] = from
  /\ Goto(m, to)
  /\ UNCHANGED <<sock, new_sock, open>>

\* The kernel finds PORT taken by a socket that is still bound to it.
PortTaken == \E s \in Sockets : open[s] \in {"bound", "listening", "connected"}

SocketInsmod(m) == Moves(m, "out", "create")

sock_create_kern(m) ==
  /\ at[m] = "create"
  /\ \E s \in Sockets :
       /\ open[s] = "closed"
       /\ open' = [open EXCEPT ![s] = "new"]
       /\ sock' = [sock EXCEPT ![m] = s]
  /\ Goto(m, IF m = "tcp" THEN "bind" ELSE "sendmsg")
  /\ UNCHANGED new_sock

CreateFails(m) == at[m] = "create" /\ Gone(m) /\ UNCHANGED open

\* Seeded fault: the result of bind is not looked at.
BindAnyway ==
  /\ at["tcp"] = "bind"
  /\ open' = [open EXCEPT ![sock["tcp"]] = "bound"]
  /\ Goto("tcp", "listen")
  /\ UNCHANGED <<sock, new_sock>>

bind ==
  /\ at["tcp"] = "bind"
  /\ ~PortTaken
  /\ open' = [open EXCEPT ![sock["tcp"]] = "bound"]
  /\ Goto("tcp", "listen")
  /\ UNCHANGED <<sock, new_sock>>

\* Another program may have the port, or a connection that is still closing.
BindFails == Moves("tcp", "bind", "socket_failed")

listen ==
  /\ at["tcp"] = "listen"
  /\ open' = [open EXCEPT ![sock["tcp"]] = "listening"]
  /\ Goto("tcp", "create_lite")
  /\ UNCHANGED <<sock, new_sock>>

ListenFails == Moves("tcp", "listen", "socket_failed")

sock_create_lite ==
  /\ at["tcp"] = "create_lite"
  /\ \E s \in Sockets :
       /\ open[s] = "closed"
       /\ open' = [open EXCEPT ![s] = "new"]
       /\ new_sock' = s
  /\ Goto("tcp", "accept")
  /\ UNCHANGED sock

CreateLiteFails == Moves("tcp", "create_lite", "NEW_SOCKET_FAILED")

\* A client has connected, in its own time.
accept ==
  /\ at["tcp"] = "accept"
  /\ open' = [open EXCEPT ![new_sock] = "connected"]
  /\ Goto("tcp", "getname")
  /\ UNCHANGED <<sock, new_sock>>

\* A signal ends the wait.
AcceptFails == Moves("tcp", "accept", "NEW_SOCKET_FAILED")

getname == Moves("tcp", "getname", "live")

\* The client has gone already.
GetnameFails == Moves("tcp", "getname", "NEW_SOCKET_FAILED")

sendmsg == Moves("udp", "sendmsg", "live")

SendmsgFails == Moves("udp", "sendmsg", "socket_failed")

\* socket_failed of tcp-mod and release of udp-mod
SocketFailed(m) ==
  /\ at[m] = "socket_failed"
  /\ open' = [open EXCEPT ![sock[m]] = "closed"]
  /\ Gone(m)

\* The label releases new_sock and not sock, which stays open for ever.
NewSocketFailed ==
  /\ at["tcp"] = "NEW_SOCKET_FAILED"
  /\ new_sock # NULL
  /\ open' = [open EXCEPT ![new_sock] = "closed"]
  /\ Gone("tcp")

\* sock_create_lite has left NULL in new_sock, and sock_release follows it.
ReleaseOops ==
  /\ new_sock = NULL
  /\ Moves("tcp", "NEW_SOCKET_FAILED", "dead")

SocketRmmod(m) == Moves(m, "live", "exit")

ExitSock(m) ==
  /\ at[m] = "exit"
  /\ open' = [s \in Sockets |-> IF s = sock[m] THEN "closed" ELSE open[s]]
  /\ sock' = [sock EXCEPT ![m] = NULL]
  /\ Goto(m, "exit_new")
  /\ UNCHANGED new_sock

\* tcp-mod releases its second socket; both exit functions return.
ExitNewSock(m) ==
  /\ at[m] = "exit_new"
  /\ open' = [s \in Sockets |-> IF m = "tcp" /\ s = new_sock THEN "closed" ELSE open[s]]
  /\ Gone(m)

SocketInit ==
  /\ at = [m \in SocketModules |-> "out"]
  /\ sock = [m \in SocketModules |-> NULL]
  /\ new_sock = NULL
  /\ open = [s \in Sockets |-> "closed"]

tcpmod_init ==
  \/ bind \/ BindFails \/ listen \/ ListenFails \/ sock_create_lite \/ CreateLiteFails
  \/ accept \/ AcceptFails \/ getname \/ GetnameFails \/ NewSocketFailed \/ ReleaseOops

udpmod_init == sendmsg \/ SendmsgFails

SocketNext ==
  \/ \E m \in SocketModules :
       \/ SocketInsmod(m) \/ sock_create_kern(m) \/ CreateFails(m) \/ SocketFailed(m)
       \/ SocketRmmod(m) \/ ExitSock(m) \/ ExitNewSock(m)
  \/ tcpmod_init \/ udpmod_init

-----------------------------------------------------------------------------
\* The pointers that are in use.
Pointers == {sock[m] : m \in SocketModules} \cup {new_sock}

\* Open sockets that nobody can release any more.
Leaked == {s \in Sockets : open[s] # "closed"} \ Pointers

\* Every way out of the two init functions and both exit functions release
\* what they created exactly once: no pointer refers to a closed socket, no two
\* to the same one, and no socket is left behind.  The one exception is the
\* listening socket that NEW_SOCKET_FAILED forgets (line 68), and there is at
\* most one of those, because it keeps every later init from getting past bind.
SocketsOwned ==
  /\ \A s \in Pointers \ {NULL} : open[s] # "closed"
  /\ sock["tcp"] # NULL => sock["tcp"] \notin {sock["udp"], new_sock}
  /\ sock["udp"] # NULL => sock["udp"] # new_sock
  /\ \A s \in Leaked : open[s] = "listening"
  /\ Cardinality(Leaked) <= 1
  /\ Leaked # {} => at["tcp"] \in {"out", "create", "bind", "socket_failed"}
=============================================================================
