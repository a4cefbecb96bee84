---------------------------- MODULE AllProofs ----------------------------
(***************************************************************************)
(* Proofs about loading and unloading, for the specification AllSpec: the  *)
(* self-arming timer, the socket modules (for any number of sockets), the  *)
(* five drivers, and the modules that allocate and free on one heap (for   *)
(* any number of ancestors, objects and ticks).                            *)
(***************************************************************************)
EXTENDS AllModules, FiniteSetTheorems, SequenceTheorems, TLAPS

-----------------------------------------------------------------------------
(* The self-arming timer *)

\* Once timer_exit has returned, no callback runs or is pending.
THEOREM TimerGone == AllSpec => []NoLateCallback
<1>1. AllInit => NoLateCallback
  BY DEF AllInit, TimerInit, NoLateCallback
<1>2. NoLateCallback /\ [AllNext]_allVars => NoLateCallback'
  <2> SUFFICES ASSUME NoLateCallback, [AllNext]_allVars PROVE NoLateCallback'
    OBVIOUS
  <2> USE DEF NoLateCallback
  <2>1. CASE TimerNext
    BY <2>1 DEF TimerNext, timer_init, timer_exit, DelTimerSync, Expire,
                timer_callback, CallbackReturns
  <2>2. CASE UNCHANGED timerVars
    BY <2>2 DEF timerVars
  <2> QED
    BY <2>1, <2>2 DEF AllNext, allVars
<1> QED
  BY <1>1, <1>2, PTL DEF AllSpec

-----------------------------------------------------------------------------
(* The sockets: the inductive invariant *)

Places == {"out", "create", "bind", "listen", "create_lite", "accept", "getname",
           "sendmsg", "live", "socket_failed", "NEW_SOCKET_FAILED", "dead",
           "exit", "exit_new"}

SockTypes ==
  /\ at \in [SocketModules -> Places]
  /\ sock \in [SocketModules -> Sockets \cup {NULL}]
  /\ new_sock \in Sockets \cup {NULL}
  /\ open \in [Sockets -> {"closed", "new", "bound", "listening", "connected"}]

\* Which pointers are set at each place, and that tcp-mod listens from its call
\* of listen to the release of its first socket.
PlaceInv ==
  /\ at["udp"] \in {"out", "create", "sendmsg", "live", "socket_failed", "exit", "exit_new"}
  /\ at["tcp"] # "sendmsg"
  /\ \A m \in SocketModules : sock[m] = NULL <=> at[m] \in {"out", "create", "exit_new"}
  /\ at["tcp"] \in {"accept", "getname", "live", "exit", "exit_new"} => new_sock # NULL
  /\ new_sock # NULL =>
       at["tcp"] \in {"accept", "getname", "live", "exit", "exit_new", "NEW_SOCKET_FAILED"}
  /\ at["tcp"] \in {"create_lite", "accept", "getname", "live", "NEW_SOCKET_FAILED",
                    "dead", "exit"} => open[sock["tcp"]] = "listening"

\* Pointers lead to sockets that are open, and to different ones.
OwnInv ==
  /\ \A m \in SocketModules : sock[m] # NULL => open[sock[m]] # "closed"
  /\ new_sock # NULL => open[new_sock] # "closed"
  /\ sock["tcp"] # NULL => sock["tcp"] \notin {sock["udp"], new_sock}
  /\ sock["udp"] # NULL => sock["udp"] # new_sock

\* s is open and out of reach.
Lost(s) ==
  /\ open[s] # "closed"
  /\ \A m \in SocketModules : s # sock[m]
  /\ s # new_sock

\* A lost socket listens, so that nobody gets past bind, so that no second one
\* can be lost.
LossInv ==
  /\ \A s \in Sockets : Lost(s) =>
       open[s] = "listening" /\ at["tcp"] \in {"out", "create", "bind", "socket_failed"}
  /\ \A s, u \in Sockets : Lost(s) /\ Lost(u) => s = u

SockInv == SockTypes /\ PlaceInv /\ OwnInv /\ LossInv

-----------------------------------------------------------------------------
(* The sockets: each part of the invariant is preserved *)

\* Every socket call keeps the types.
LEMMA SockTypesStep ==
  ASSUME SockTypes, SocketNext
  PROVE  SockTypes'
<1> USE SocketModsAssumption DEF SocketModules, Goto, SockTypes, Places
<1>1. ASSUME NEW m \in SocketModules, SocketInsmod(m) PROVE SockTypes'
  BY <1>1 DEF SocketInsmod, Moves
<1>2. ASSUME NEW m \in SocketModules, sock_create_kern(m) PROVE SockTypes'
  BY <1>2 DEF sock_create_kern
<1>3. ASSUME NEW m \in SocketModules, CreateFails(m) PROVE SockTypes'
  BY <1>3 DEF CreateFails, Gone
<1>4. ASSUME NEW m \in SocketModules, SocketFailed(m) PROVE SockTypes'
  BY <1>4 DEF SocketFailed, Gone
<1>5. ASSUME NEW m \in SocketModules, SocketRmmod(m) PROVE SockTypes'
  BY <1>5 DEF SocketRmmod, Moves
<1>6. ASSUME NEW m \in SocketModules, ExitSock(m) PROVE SockTypes'
  BY <1>6 DEF ExitSock
<1>7. ASSUME NEW m \in SocketModules, ExitNewSock(m) PROVE SockTypes'
  BY <1>7 DEF ExitNewSock, Gone
<1>8. CASE bind
  BY <1>8 DEF bind
<1>9. CASE BindFails
  BY <1>9 DEF BindFails, Moves
<1>10. CASE listen
  BY <1>10 DEF listen
<1>11. CASE ListenFails
  BY <1>11 DEF ListenFails, Moves
<1>12. CASE sock_create_lite
  BY <1>12 DEF sock_create_lite
<1>13. CASE CreateLiteFails
  BY <1>13 DEF CreateLiteFails, Moves
<1>14. CASE accept
  BY <1>14 DEF accept
<1>15. CASE AcceptFails
  BY <1>15 DEF AcceptFails, Moves
<1>16. CASE getname
  BY <1>16 DEF getname, Moves
<1>17. CASE GetnameFails
  BY <1>17 DEF GetnameFails, Moves
<1>18. CASE NewSocketFailed
  BY <1>18 DEF NewSocketFailed, Gone
<1>19. CASE ReleaseOops
  BY <1>19 DEF ReleaseOops, Moves
<1>20. CASE sendmsg
  BY <1>20 DEF sendmsg, Moves
<1>21. CASE SendmsgFails
  BY <1>21 DEF SendmsgFails, Moves
<1> QED
  BY <1>1, <1>2, <1>3, <1>4, <1>5, <1>6, <1>7, <1>8, <1>9, <1>10, <1>11, <1>12, <1>13,
     <1>14, <1>15, <1>16, <1>17, <1>18, <1>19, <1>20, <1>21 DEF SocketNext, tcpmod_init,
     udpmod_init

\* Every call leaves the pointers as the next place expects them.
LEMMA PlaceInvStep ==
  ASSUME SockTypes, PlaceInv, OwnInv, SocketNext
  PROVE  PlaceInv'
<1> USE SocketModsAssumption DEF SocketModules, Goto, SockTypes, PlaceInv, OwnInv
<1>1. ASSUME NEW m \in SocketModules, SocketInsmod(m) PROVE PlaceInv'
  BY <1>1 DEF SocketInsmod, Moves
<1>2. ASSUME NEW m \in SocketModules, sock_create_kern(m) PROVE PlaceInv'
  BY <1>2 DEF sock_create_kern
<1>3. ASSUME NEW m \in SocketModules, CreateFails(m) PROVE PlaceInv'
  BY <1>3 DEF CreateFails, Gone
<1>4. ASSUME NEW m \in SocketModules, SocketFailed(m) PROVE PlaceInv'
  BY <1>4 DEF SocketFailed, Gone
<1>5. ASSUME NEW m \in SocketModules, SocketRmmod(m) PROVE PlaceInv'
  BY <1>5 DEF SocketRmmod, Moves
<1>6. ASSUME NEW m \in SocketModules, ExitSock(m) PROVE PlaceInv'
  BY <1>6 DEF ExitSock
<1>7. ASSUME NEW m \in SocketModules, ExitNewSock(m) PROVE PlaceInv'
  BY <1>7 DEF ExitNewSock, Gone
<1>8. CASE bind
  BY <1>8 DEF bind
<1>9. CASE BindFails
  BY <1>9 DEF BindFails, Moves
<1>10. CASE listen
  BY <1>10 DEF listen
<1>11. CASE ListenFails
  BY <1>11 DEF ListenFails, Moves
<1>12. CASE sock_create_lite
  BY <1>12 DEF sock_create_lite
<1>13. CASE CreateLiteFails
  BY <1>13 DEF CreateLiteFails, Moves
<1>14. CASE accept
  BY <1>14 DEF accept
<1>15. CASE AcceptFails
  BY <1>15 DEF AcceptFails, Moves
<1>16. CASE getname
  BY <1>16 DEF getname, Moves
<1>17. CASE GetnameFails
  BY <1>17 DEF GetnameFails, Moves
<1>18. CASE NewSocketFailed
  BY <1>18 DEF NewSocketFailed, Gone
<1>19. CASE ReleaseOops
  BY <1>19 DEF ReleaseOops, Moves
<1>20. CASE sendmsg
  BY <1>20 DEF sendmsg, Moves
<1>21. CASE SendmsgFails
  BY <1>21 DEF SendmsgFails, Moves
<1> QED
  BY <1>1, <1>2, <1>3, <1>4, <1>5, <1>6, <1>7, <1>8, <1>9, <1>10, <1>11, <1>12, <1>13,
     <1>14, <1>15, <1>16, <1>17, <1>18, <1>19, <1>20, <1>21 DEF SocketNext, tcpmod_init,
     udpmod_init

\* A new socket is one that was closed, and a released one is forgotten.
LEMMA OwnInvStep ==
  ASSUME SockTypes, PlaceInv, OwnInv, SocketNext
  PROVE  OwnInv'
<1> USE SocketModsAssumption DEF SocketModules, Goto, SockTypes, PlaceInv, OwnInv
<1>1. ASSUME NEW m \in SocketModules, SocketInsmod(m) PROVE OwnInv'
  BY <1>1 DEF SocketInsmod, Moves
<1>2. ASSUME NEW m \in SocketModules, sock_create_kern(m) PROVE OwnInv'
  BY <1>2 DEF sock_create_kern
<1>3. ASSUME NEW m \in SocketModules, CreateFails(m) PROVE OwnInv'
  BY <1>3 DEF CreateFails, Gone
<1>4. ASSUME NEW m \in SocketModules, SocketFailed(m) PROVE OwnInv'
  BY <1>4 DEF SocketFailed, Gone
<1>5. ASSUME NEW m \in SocketModules, SocketRmmod(m) PROVE OwnInv'
  BY <1>5 DEF SocketRmmod, Moves
<1>6. ASSUME NEW m \in SocketModules, ExitSock(m) PROVE OwnInv'
  BY <1>6 DEF ExitSock
<1>7. ASSUME NEW m \in SocketModules, ExitNewSock(m) PROVE OwnInv'
  BY <1>7 DEF ExitNewSock, Gone
<1>8. CASE bind
  BY <1>8 DEF bind
<1>9. CASE BindFails
  BY <1>9 DEF BindFails, Moves
<1>10. CASE listen
  BY <1>10 DEF listen
<1>11. CASE ListenFails
  BY <1>11 DEF ListenFails, Moves
<1>12. CASE sock_create_lite
  BY <1>12 DEF sock_create_lite
<1>13. CASE CreateLiteFails
  BY <1>13 DEF CreateLiteFails, Moves
<1>14. CASE accept
  BY <1>14 DEF accept
<1>15. CASE AcceptFails
  BY <1>15 DEF AcceptFails, Moves
<1>16. CASE getname
  BY <1>16 DEF getname, Moves
<1>17. CASE GetnameFails
  BY <1>17 DEF GetnameFails, Moves
<1>18. CASE NewSocketFailed
  BY <1>18 DEF NewSocketFailed, Gone
<1>19. CASE ReleaseOops
  BY <1>19 DEF ReleaseOops, Moves
<1>20. CASE sendmsg
  BY <1>20 DEF sendmsg, Moves
<1>21. CASE SendmsgFails
  BY <1>21 DEF SendmsgFails, Moves
<1> QED
  BY <1>1, <1>2, <1>3, <1>4, <1>5, <1>6, <1>7, <1>8, <1>9, <1>10, <1>11, <1>12, <1>13,
     <1>14, <1>15, <1>16, <1>17, <1>18, <1>19, <1>20, <1>21 DEF SocketNext, tcpmod_init,
     udpmod_init

\* Only NEW_SOCKET_FAILED loses a socket, and only when none is lost.
LEMMA LossInvStep ==
  ASSUME SockTypes, PlaceInv, OwnInv, LossInv, SocketNext
  PROVE  LossInv'
<1> USE SocketModsAssumption DEF SocketModules, Goto, SockTypes, PlaceInv, OwnInv, Lost, LossInv
<1>1. ASSUME NEW m \in SocketModules, SocketInsmod(m) PROVE LossInv'
  BY <1>1 DEF SocketInsmod, Moves
<1>2. ASSUME NEW m \in SocketModules, sock_create_kern(m) PROVE LossInv'
  BY <1>2 DEF sock_create_kern
<1>3. ASSUME NEW m \in SocketModules, CreateFails(m) PROVE LossInv'
  BY <1>3 DEF CreateFails, Gone
<1>4. ASSUME NEW m \in SocketModules, SocketFailed(m) PROVE LossInv'
  BY <1>4 DEF SocketFailed, Gone
<1>5. ASSUME NEW m \in SocketModules, SocketRmmod(m) PROVE LossInv'
  BY <1>5 DEF SocketRmmod, Moves
<1>6. ASSUME NEW m \in SocketModules, ExitSock(m) PROVE LossInv'
  BY <1>6 DEF ExitSock
<1>7. ASSUME NEW m \in SocketModules, ExitNewSock(m) PROVE LossInv'
  BY <1>7 DEF ExitNewSock, Gone
<1>8. CASE bind
  BY <1>8 DEF bind, PortTaken
<1>9. CASE BindFails
  BY <1>9 DEF BindFails, Moves
<1>10. CASE listen
  BY <1>10 DEF listen
<1>11. CASE ListenFails
  BY <1>11 DEF ListenFails, Moves
<1>12. CASE sock_create_lite
  BY <1>12 DEF sock_create_lite
<1>13. CASE CreateLiteFails
  BY <1>13 DEF CreateLiteFails, Moves
<1>14. CASE accept
  BY <1>14 DEF accept
<1>15. CASE AcceptFails
  BY <1>15 DEF AcceptFails, Moves
<1>16. CASE getname
  BY <1>16 DEF getname, Moves
<1>17. CASE GetnameFails
  BY <1>17 DEF GetnameFails, Moves
<1>18. CASE NewSocketFailed
  BY <1>18 DEF NewSocketFailed, Gone
<1>19. CASE ReleaseOops
  BY <1>19 DEF ReleaseOops, Moves
<1>20. CASE sendmsg
  BY <1>20 DEF sendmsg, Moves
<1>21. CASE SendmsgFails
  BY <1>21 DEF SendmsgFails, Moves
<1> QED
  BY <1>1, <1>2, <1>3, <1>4, <1>5, <1>6, <1>7, <1>8, <1>9, <1>10, <1>11, <1>12, <1>13,
     <1>14, <1>15, <1>16, <1>17, <1>18, <1>19, <1>20, <1>21 DEF SocketNext, tcpmod_init,
     udpmod_init

-----------------------------------------------------------------------------
(* The sockets: theorems *)

\* No module is loaded and no socket is open.
LEMMA SockInvInit == AllInit => SockInv
BY SocketModsAssumption DEF AllInit, SocketInit, SockInv, SockTypes, PlaceInv, OwnInv,
                            LossInv, Lost, SocketModules, Places

\* Other families leave the sockets alone.
LEMMA SockInvStep ==
  ASSUME SockInv, [AllNext]_allVars
  PROVE  SockInv'
<1>1. CASE SocketNext
  BY <1>1, SockTypesStep, PlaceInvStep, OwnInvStep, LossInvStep DEF SockInv
<1>2. CASE UNCHANGED sockVars
  BY <1>2 DEF sockVars, SockInv, SockTypes, PlaceInv, OwnInv, LossInv, Lost
<1> QED
  BY <1>1, <1>2 DEF AllNext, allVars

\* The invariant of the sockets holds for ever.
THEOREM SockInvariance == AllSpec => []SockInv
BY SockInvInit, SockInvStep, PTL DEF AllSpec

\* Every way through the init and exit functions releases each socket exactly
\* once, but for one listening socket that NEW_SOCKET_FAILED may leave.
THEOREM SocketsReleased == AllSpec => []SocketsOwned
<1>1. SockInv => SocketsOwned
  <2> SUFFICES ASSUME SockInv PROVE SocketsOwned
    OBVIOUS
  <2> USE SocketModsAssumption DEF SockInv, SockTypes, SocketModules
  <2>1. Pointers = {sock["tcp"], sock["udp"], new_sock}
    BY DEF Pointers
  <2>2. Leaked = {s \in Sockets : Lost(s)}
    BY <2>1 DEF Leaked, Lost
  <2>3. Cardinality(Leaked) <= 1
    <3>1. CASE Leaked = {}
      BY <3>1, FS_EmptySet
    <3>2. CASE Leaked # {}
      <4>1. PICK s \in Sockets : s \in Leaked
        BY <2>2, <3>2
      <4>2. \A u \in Leaked : u = s
        BY <2>2, <4>1 DEF LossInv
      <4>3. Leaked = {s}
        BY <4>1, <4>2
      <4>4. Cardinality({s}) = 1
        BY FS_Singleton
      <4> QED
        BY <4>3, <4>4
    <3> QED
      BY <3>1, <3>2
  <2>4. \A s \in Leaked : open[s] = "listening"
    BY <2>2 DEF LossInv
  <2>5. Leaked # {} => at["tcp"] \in {"out", "create", "bind", "socket_failed"}
    BY <2>2 DEF LossInv
  <2>6. \A s \in Pointers \ {NULL} : open[s] # "closed"
    BY <2>1 DEF OwnInv
  <2> QED
    BY <2>3, <2>4, <2>5, <2>6 DEF OwnInv, SocketsOwned
<1> QED
  BY SockInvariance, <1>1, PTL

-----------------------------------------------------------------------------
(* The drivers: sequences of calls *)

\* Call c is among the calls s.
Pending(s, c) == \E i \in 1..Len(s) : s[i] = c

\* Every call y of s comes after a call x.
Before(s, x, y) ==
  \A j \in 1..Len(s) : s[j] = y => \E i \in 1..Len(s) : i < j /\ s[i] = x

\* Call c is made at most once.
Once(s, c) == \A i, j \in 1..Len(s) : s[i] = c /\ s[j] = c => i = j

\* What was to be called once and has been called is not pending any more.
LEMMA TailOnce ==
  ASSUME NEW S, NEW s \in Seq(S), s # <<>>, NEW c, Once(s, c)
  PROVE  Once(Tail(s), c) /\ (Head(s) = c => ~Pending(Tail(s), c))
<1>1. /\ Len(s) \in Nat /\ Len(s) >= 1 /\ Len(Tail(s)) = Len(s) - 1
      /\ Head(s) = s[1]
      /\ \A i \in 1..Len(Tail(s)) : Tail(s)[i] = s[i + 1]
  OBVIOUS
<1>2. \A i \in 1..Len(Tail(s)) : i + 1 \in 1..Len(s) /\ i + 1 # 1
  BY <1>1
<1>3. Once(Tail(s), c)
  <2> SUFFICES ASSUME NEW i \in 1..Len(Tail(s)), NEW j \in 1..Len(Tail(s)),
                      Tail(s)[i] = c, Tail(s)[j] = c
               PROVE  i = j
    BY DEF Once
  <2>1. i + 1 = j + 1
    BY <1>1, <1>2 DEF Once
  <2> QED
    BY <1>1, <2>1
<1>4. ASSUME Head(s) = c, NEW i \in 1..Len(Tail(s)), Tail(s)[i] = c PROVE FALSE
  BY <1>1, <1>2, <1>4 DEF Once
<1> QED
  BY <1>3, <1>4 DEF Pending

\* The calls that remain once the first has been made.
LEMMA TailCalls ==
  ASSUME NEW S, NEW s \in Seq(S), s # <<>>
  PROVE  /\ Tail(s) \in Seq(S)
         /\ \A c : Pending(s, c) <=> c = Head(s) \/ Pending(Tail(s), c)
         /\ \A x, y : Before(s, x, y) =>
              Head(s) # y /\ (Head(s) # x => Before(Tail(s), x, y))
<1>1. /\ Tail(s) \in Seq(S)
      /\ Len(s) \in Nat /\ Len(s) >= 1 /\ Len(Tail(s)) = Len(s) - 1
      /\ Head(s) = s[1]
      /\ \A i \in 1..Len(Tail(s)) : Tail(s)[i] = s[i + 1]
  OBVIOUS
<1>2. ASSUME NEW c PROVE Pending(s, c) <=> c = Head(s) \/ Pending(Tail(s), c)
  <2>1. ASSUME NEW i \in 1..Len(s), s[i] = c PROVE c = Head(s) \/ Pending(Tail(s), c)
    <3>1. CASE i = 1
      BY <1>1, <2>1, <3>1
    <3>2. CASE i # 1
      <4>1. i - 1 \in 1..Len(Tail(s)) /\ Tail(s)[i - 1] = c
        BY <1>1, <2>1, <3>2
      <4> QED
        BY <4>1 DEF Pending
    <3> QED
      BY <3>1, <3>2
  <2>2. c = Head(s) => Pending(s, c)
    BY <1>1 DEF Pending
  <2>3. ASSUME NEW i \in 1..Len(Tail(s)), Tail(s)[i] = c PROVE Pending(s, c)
    <3>1. i + 1 \in 1..Len(s) /\ s[i + 1] = c
      BY <1>1, <2>3
    <3> QED
      BY <3>1 DEF Pending
  <2> QED
    BY <2>1, <2>2, <2>3 DEF Pending
<1>3. ASSUME NEW x, NEW y, Before(s, x, y)
      PROVE  Head(s) # y /\ (Head(s) # x => Before(Tail(s), x, y))
  <2>1. Head(s) # y
    BY <1>1, <1>3 DEF Before
  <2>2. ASSUME Head(s) # x, NEW j \in 1..Len(Tail(s)), Tail(s)[j] = y
        PROVE  \E i \in 1..Len(Tail(s)) : i < j /\ Tail(s)[i] = x
    <3>1. j + 1 \in 1..Len(s) /\ s[j + 1] = y
      BY <1>1, <2>2
    <3>2. PICK i \in 1..Len(s) : i < j + 1 /\ s[i] = x
      BY <1>3, <3>1 DEF Before
    <3>3. i - 1 \in 1..Len(Tail(s)) /\ i - 1 < j /\ Tail(s)[i - 1] = x
      BY <1>1, <2>2, <3>2
    <3> QED
      BY <3>3
  <2> QED
    BY <2>1, <2>2 DEF Before
<1> QED
  BY <1>1, <1>2, <1>3

-----------------------------------------------------------------------------
(* The drivers: the inductive invariant *)

CallNames == {"region", "cdev", "proc", "irq", "data", "status", "kmalloc", "vmalloc",
              "-region", "-cdev", "-proc", "-irq", "-data", "-status", "-area", "dead"}

LoadTypes ==
  /\ phase \in [Drivers -> {"out", "coming", "live", "going", "failed"}]
  /\ todo \in [Drivers -> Seq(CallNames)]
  /\ DOMAIN ok = Drivers
  /\ region \in Drivers \cup {Free}
  /\ cdevs \subseteq Drivers

\* Init functions claim, exit functions give back, and in between nothing is called.
CallsInv(d) ==
  LET Todo(c) == Pending(todo[d], c) IN
  /\ phase[d] \in {"out", "live", "failed"} => todo[d] = <<>>
  /\ phase[d] = "coming" =>
       ~Todo("-region") /\ ~Todo("-cdev") /\ ~Todo("-proc") /\ ~Todo("-irq") /\ ~Todo("-area")
  /\ phase[d] = "going" =>
       /\ ~Todo("region") /\ ~Todo("cdev") /\ ~Todo("proc") /\ ~Todo("irq")
       /\ ~Todo("data") /\ ~Todo("status") /\ ~Todo("kmalloc") /\ ~Todo("vmalloc")

\* Only kbd has an interrupt handler, and so on.
KindInv(d) ==
  LET Todo(c) == Pending(todo[d], c) IN
  /\ d \in irqs \/ Todo("irq") => d = "kbd"
  /\ d \in procs \/ Todo("proc") => d = "nonmem"
  /\ d \in areas \/ Todo("kmalloc") \/ Todo("vmalloc") => d \in {"mem", "nonmem"}

\* The cdev is added after the device number has been claimed and is deleted
\* before the number is given back.
OrderInv(d) ==
  /\ region = d \/ Before(todo[d], "region", "cdev")
  /\ d \notin cdevs \/ Before(todo[d], "-cdev", "-region")
  /\ d \in cdevs => region = d

\* What an init function that has met no error lacks it will still ask for.
ComingInv(d) ==
  LET Todo(c) == Pending(todo[d], c) IN
  phase[d] = "coming" /\ ok[d] =>
    /\ region = d \/ Todo("region")
    /\ d = "kbd" => d \in irqs \/ Todo("irq")
    /\ d \in {"mem", "nonmem"} => d \in areas \/ Todo("kmalloc") \/ Todo("vmalloc")

\* What an exit function has not given back it will, and it gives back its own
\* device number.
GoingInv(d) ==
  LET Todo(c) == Pending(todo[d], c) IN
  phase[d] = "going" =>
    /\ region = d <=> Todo("-region")
    /\ Once(todo[d], "-region")
    /\ d \in cdevs => Todo("-cdev")
    /\ d \in irqs => Todo("-irq")
    /\ d \in procs => Todo("-proc")
    /\ d \in areas => Todo("-area")

RestInv(d) ==
  /\ phase[d] = "out" => region # d /\ d \notin cdevs \cup irqs \cup procs \cup areas
  /\ phase[d] = "live" =>
       /\ region = d
       /\ d = "kbd" => d \in irqs
       /\ d \in {"mem", "nonmem"} => d \in areas

DriverInv(d) ==
  /\ CallsInv(d) /\ KindInv(d) /\ OrderInv(d) /\ ComingInv(d) /\ GoingInv(d)
  /\ RestInv(d)

LoadInv == LoadTypes /\ \A d \in Drivers : DriverInv(d)

-----------------------------------------------------------------------------
(* The drivers: what a step of one leaves of the others *)

\* The drivers but d keep where they are and what they hold.
OthersKept(d) ==
  \A e \in Drivers \ {d} :
    /\ phase'[e] = phase[e] /\ todo'[e] = todo[e] /\ ok'[e] = ok[e]
    /\ region' = e <=> region = e
    /\ e \in cdevs' <=> e \in cdevs
    /\ e \in irqs' <=> e \in irqs
    /\ e \in procs' <=> e \in procs
    /\ e \in areas' <=> e \in areas

\* Nothing is pending in a function that has run to its end, and the labels of
\* an init function release the ports, nothing else.
LEMMA Labels ==
  /\ \A c : ~Pending(<<>>, c)
  /\ \A c : Pending(<<"dead">>, c) => c = "dead"
  /\ \A c : Pending(<<"-data">>, c) => c = "-data"
  /\ \A c : Pending(<<"-status", "-data">>, c) => c \in {"-data", "-status"}
BY DEF Pending

\* The functions of a driver leave the other drivers' claims alone.
LEMMA StepFrame ==
  ASSUME LoadTypes, NEW d \in Drivers, Step(d), DriverInv(d)
  PROVE  LoadTypes' /\ OthersKept(d)
<1> USE DriverLoadAssumption DEF LoadTypes, OthersKept, Calls
<1>0. todo[d] # <<>> => Tail(todo[d]) \in Seq(CallNames)
  BY TailCalls
<1>l. /\ <<>> \in Seq(CallNames) /\ <<"dead">> \in Seq(CallNames)
      /\ <<"-data">> \in Seq(CallNames) /\ <<"-status", "-data">> \in Seq(CallNames)
  BY DEF CallNames
<1>1. CASE RegisterRegion(d)
  BY <1>1, <1>0, <1>l DEF RegisterRegion, Continue
<1>2. CASE RegionBusy(d)
  BY <1>2, <1>0, <1>l DEF RegionBusy, Fail
<1>3. CASE UnregisterRegion(d)
  <2>1. Pending(todo[d], "-region")
    BY <1>3, TailCalls DEF UnregisterRegion
  <2>2. phase[d] = "going"
    BY <2>1, Labels DEF DriverInv, CallsInv
  <2>3. region = d
    BY <2>1, <2>2 DEF DriverInv, GoingInv
  <2> QED
    BY <1>3, <1>0, <1>l, <2>3 DEF UnregisterRegion, Continue
<1>4. CASE CdevAdd(d) \/ CdevAddFails(d)
  BY <1>4, <1>0, <1>l DEF CdevAdd, CdevAddFails, Continue
<1>5. CASE CdevDel(d)
  BY <1>5, <1>0, <1>l DEF CdevDel, Continue
<1>6. CASE ProcCreate(d) \/ ProcCreateFails(d)
  BY <1>6, <1>0, <1>l DEF ProcCreate, ProcCreateFails, Continue
<1>7. CASE ProcRemove(d)
  BY <1>7, <1>0, <1>l DEF ProcRemove, Continue
<1>8. CASE IrqBusy(d)
  BY <1>8, <1>0, <1>l DEF IrqBusy, Fail
<1>9. CASE RequestIrq(d)
  BY <1>9, <1>0, <1>l DEF RequestIrq, Continue
<1>10. CASE FreeIrq(d)
  BY <1>10, <1>0, <1>l DEF FreeIrq, Continue
<1>11. CASE AllocArea(d)
  BY <1>11, <1>0, <1>l DEF AllocArea, Continue
<1>12. CASE KmallocFails(d)
  BY <1>12, <1>0, <1>l DEF KmallocFails, Fail
<1>13. CASE VmallocFails(d)
  BY <1>13, <1>0, <1>l DEF VmallocFails, Fail
<1>14. CASE FreeArea(d)
  BY <1>14, <1>0, <1>l DEF FreeArea, Continue
<1>15. ASSUME NEW x \in Ports, RequestPort(d, x) PROVE LoadTypes' /\ OthersKept(d)
  BY <1>15, <1>0, <1>l DEF RequestPort, Ports, Continue
<1>16. ASSUME NEW x \in Ports, PortBusy(d, x) PROVE LoadTypes' /\ OthersKept(d)
  BY <1>16, <1>0, <1>l DEF PortBusy, Ports, Fail
<1>17. ASSUME NEW x \in Ports, ReleasePort(d, x) PROVE LoadTypes' /\ OthersKept(d)
  BY <1>17, <1>0, <1>l DEF ReleasePort, Ports, Continue
<1>18. CASE Return(d)
  BY <1>18, <1>0, <1>l DEF Return
<1> QED
  BY <1>1, <1>2, <1>3, <1>4, <1>5, <1>6, <1>7, <1>8, <1>9, <1>10, <1>11, <1>12, <1>13,
     <1>14, <1>15, <1>16, <1>17, <1>18 DEF Step

\* A driver that is left alone keeps its part of the invariant.
LEMMA OthersInv ==
  ASSUME NEW d \in Drivers, OthersKept(d), NEW e \in Drivers \ {d}, DriverInv(e)
  PROVE  DriverInv(e)'
<1> USE DEF OthersKept
<1>1. CallsInv(e)' /\ KindInv(e)'
  BY DEF DriverInv, CallsInv, KindInv
<1>2. OrderInv(e)' /\ ComingInv(e)'
  BY DEF DriverInv, OrderInv, ComingInv
<1>3. GoingInv(e)' /\ RestInv(e)'
  BY DEF DriverInv, GoingInv, RestInv
<1> QED
  BY <1>1, <1>2, <1>3 DEF DriverInv

\* What is not called need not be preceded by anything.
LEMMA BeforeNone ==
  ASSUME NEW s, NEW x, NEW y, ~Pending(s, y)
  PROVE  Before(s, x, y)
BY DEF Pending, Before

\* The calls of the init functions.
LEMMA InitLists ==
  ASSUME NEW d \in Drivers
  PROVE  LET s == InitCalls(d) IN
         /\ s \in Seq(CallNames)
         /\ ~Pending(s, "-region") /\ ~Pending(s, "-cdev") /\ ~Pending(s, "-proc")
         /\ ~Pending(s, "-irq") /\ ~Pending(s, "-area")
         /\ Pending(s, "region") /\ Pending(s, "cdev") /\ Before(s, "region", "cdev")
         /\ Pending(s, "irq") <=> d = "kbd"
         /\ Pending(s, "proc") <=> d = "nonmem"
         /\ Pending(s, "kmalloc") <=> d = "mem"
         /\ Pending(s, "vmalloc") <=> d = "nonmem"
<1> USE DEF InitCalls, CallNames, Pending, Before
<1>1. CASE d = "kbd"
  BY <1>1 DEF kbd_init
<1>2. CASE d = "so2"
  BY <1>2 DEF so2_cdev_init
<1>3. CASE d = "timer"
  BY <1>3 DEF deferred_init
<1>4. CASE d = "mem"
  BY <1>4 DEF mydriver_init
<1>5. CASE d = "nonmem"
  BY <1>5 DEF driver_initt
<1> QED
  BY <1>1, <1>2, <1>3, <1>4, <1>5 DEF Drivers

\* The calls of the exit functions.
LEMMA ExitLists ==
  ASSUME NEW d \in Drivers
  PROVE  LET s == ExitCalls(d) IN
         /\ s \in Seq(CallNames)
         /\ ~Pending(s, "region") /\ ~Pending(s, "cdev") /\ ~Pending(s, "proc")
         /\ ~Pending(s, "irq") /\ ~Pending(s, "data") /\ ~Pending(s, "status")
         /\ ~Pending(s, "kmalloc") /\ ~Pending(s, "vmalloc")
         /\ Pending(s, "-region") /\ Once(s, "-region")
         /\ Pending(s, "-cdev") /\ Before(s, "-cdev", "-region")
         /\ d = "kbd" => Pending(s, "-irq")
         /\ d = "nonmem" => Pending(s, "-proc")
         /\ d \in {"mem", "nonmem"} => Pending(s, "-area")
<1> USE DEF ExitCalls, CallNames, Pending, Before, Once
<1>1. CASE d = "kbd"
  BY <1>1 DEF kbd_exit
<1>2. CASE d = "so2"
  BY <1>2 DEF so2_cdev_exit
<1>3. CASE d = "timer"
  BY <1>3 DEF deferred_exit
<1>4. CASE d = "mem"
  BY <1>4 DEF mydriver_exit
<1>5. CASE d = "nonmem"
  BY <1>5 DEF driver_exit
<1> QED
  BY <1>1, <1>2, <1>3, <1>4, <1>5 DEF Drivers

-----------------------------------------------------------------------------
(* The drivers: every call keeps the invariant of its driver *)

\* Every kernel call of an init or exit function keeps the invariant of its driver.
LEMMA StepInv ==
  ASSUME LoadTypes, NEW d \in Drivers, Step(d), DriverInv(d)
  PROVE  DriverInv(d)'
<1> USE DEF LoadTypes, Calls, DriverInv, CallsInv, KindInv, OrderInv, ComingInv, GoingInv,
            RestInv
<1>t. todo[d] # <<>> =>
        /\ \A c : Pending(todo[d], c) <=> c = Head(todo[d]) \/ Pending(Tail(todo[d]), c)
        /\ \A x, y : Before(todo[d], x, y) =>
             Head(todo[d]) # y /\ (Head(todo[d]) # x => Before(Tail(todo[d]), x, y))
  BY TailCalls
<1>o. todo[d] # <<>> /\ Once(todo[d], "-region") =>
        /\ Once(Tail(todo[d]), "-region")
        /\ Head(todo[d]) = "-region" => ~Pending(Tail(todo[d]), "-region")
  BY TailOnce
<1>n. \A s, x, y : ~Pending(s, y) => Before(s, x, y)
  BY BeforeNone
<1>1. CASE RegisterRegion(d)
  BY <1>1, <1>t, <1>o, <1>n, Labels, DriverLoadAssumption DEF RegisterRegion, Continue
<1>2. CASE RegionBusy(d)
  BY <1>2, <1>t, <1>o, <1>n, Labels, DriverLoadAssumption DEF RegionBusy, Fail
<1>3. CASE UnregisterRegion(d)
  BY <1>3, <1>t, <1>o, <1>n, Labels, DriverLoadAssumption DEF UnregisterRegion, Continue
<1>4. CASE CdevAdd(d) \/ CdevAddFails(d)
  BY <1>4, <1>t, <1>o, <1>n, Labels, DriverLoadAssumption DEF CdevAdd, CdevAddFails, Continue
<1>5. CASE CdevDel(d)
  BY <1>5, <1>t, <1>o, <1>n, Labels, DriverLoadAssumption DEF CdevDel, Continue
<1>6. CASE ProcCreate(d) \/ ProcCreateFails(d)
  <2>1. CASE ProcCreate(d)
    BY <2>1, <1>t, <1>o, <1>n, Labels, DriverLoadAssumption DEF ProcCreate, Continue
  <2>2. CASE ProcCreateFails(d)
    BY <2>2, <1>t, <1>o, <1>n, Labels, DriverLoadAssumption DEF ProcCreateFails, Continue
  <2> QED
    BY <1>6, <2>1, <2>2
<1>7. CASE ProcRemove(d)
  BY <1>7, <1>t, <1>o, <1>n, Labels, DriverLoadAssumption DEF ProcRemove, Continue
<1>8. CASE IrqBusy(d)
  BY <1>8, <1>t, <1>o, <1>n, Labels, DriverLoadAssumption DEF IrqBusy, Fail
<1>9. CASE RequestIrq(d)
  BY <1>9, <1>t, <1>o, <1>n, Labels, DriverLoadAssumption DEF RequestIrq, Continue
<1>10. CASE FreeIrq(d)
  BY <1>10, <1>t, <1>o, <1>n, Labels, DriverLoadAssumption DEF FreeIrq, Continue
<1>11. CASE AllocArea(d)
  BY <1>11, <1>t, <1>o, <1>n, Labels, DriverLoadAssumption DEF AllocArea, Continue
<1>12. CASE KmallocFails(d)
  BY <1>12, <1>t, <1>o, <1>n, Labels, DriverLoadAssumption DEF KmallocFails, Fail
<1>13. CASE VmallocFails(d)
  BY <1>13, <1>t, <1>o, <1>n, Labels, DriverLoadAssumption DEF VmallocFails, Fail
<1>14. CASE FreeArea(d)
  BY <1>14, <1>t, <1>o, <1>n, Labels, DriverLoadAssumption DEF FreeArea, Continue
<1>15. ASSUME NEW x \in Ports, RequestPort(d, x) PROVE DriverInv(d)'
  BY <1>15, <1>t, <1>o, <1>n, Labels, DriverLoadAssumption DEF RequestPort, Ports, Continue
<1>16. ASSUME NEW x \in Ports, PortBusy(d, x) PROVE DriverInv(d)'
  <2>1. phase[d] = "coming" /\ phase' = phase /\ ok'[d] = FALSE
    BY <1>16, <1>t DEF PortBusy, Ports, Fail
  <2>2. \A c : Pending(todo'[d], c) => c \in {"-data", "-status"}
    BY <1>16, Labels DEF PortBusy, Ports, Fail
  <2>3. UNCHANGED <<region, cdevs, irqs, procs, areas>>
    BY <1>16 DEF PortBusy
  <2>4. ~Pending(todo'[d], "cdev") /\ ~Pending(todo'[d], "-region")
    BY <2>2
  <2>5. OrderInv(d)'
    BY <2>3, <2>4, <1>n
  <2>6. ComingInv(d)' /\ GoingInv(d)' /\ RestInv(d)'
    BY <2>1
  <2>7. CallsInv(d)'
    BY <2>1, <2>2
  <2>8. KindInv(d)'
    <3>1. /\ ~Pending(todo'[d], "irq") /\ ~Pending(todo'[d], "proc")
          /\ ~Pending(todo'[d], "kmalloc") /\ ~Pending(todo'[d], "vmalloc")
      BY ONLY <2>2
    <3>2. KindInv(d)
      OBVIOUS
    <3> QED
      BY ONLY <2>3, <3>1, <3>2 DEF KindInv
  <2> HIDE DEF CallsInv, KindInv, OrderInv, ComingInv, GoingInv, RestInv
  <2> QED
    BY <2>5, <2>6, <2>7, <2>8
<1>17. ASSUME NEW x \in Ports, ReleasePort(d, x) PROVE DriverInv(d)'
  BY <1>17, <1>t, <1>o, <1>n, Labels, DriverLoadAssumption DEF ReleasePort, Ports, Continue
<1>18. CASE Return(d)
  BY <1>18, <1>t, <1>o, <1>n, Labels, DriverLoadAssumption DEF Return
<1> QED
  BY <1>1, <1>2, <1>3, <1>4, <1>5, <1>6, <1>7, <1>8, <1>9, <1>10, <1>11, <1>12, <1>13,
     <1>14, <1>15, <1>16, <1>17, <1>18 DEF Step

\* Every step of the drivers keeps the invariant.
LEMMA LoadInvStep ==
  ASSUME LoadInv, Next
  PROVE  LoadInv'
<1> USE DEF LoadInv
<1>n. \A s, x, y : ~Pending(s, y) => Before(s, x, y)
  BY BeforeNone
<1>1. ASSUME NEW d \in Drivers, Insmod(d) PROVE LoadInv'
  <2>1. LoadTypes' /\ OthersKept(d)
    BY <1>1, InitLists DEF Insmod, LoadTypes, OthersKept
  <2>2. DriverInv(d)'
    BY <1>1, <1>n, InitLists DEF Insmod, LoadTypes, DriverInv, CallsInv, KindInv, OrderInv,
       ComingInv, GoingInv, RestInv
  <2> QED
    BY <2>1, <2>2, OthersInv
<1>2. ASSUME NEW d \in Drivers, Rmmod(d) PROVE LoadInv'
  <2>1. LoadTypes' /\ OthersKept(d)
    BY <1>2, ExitLists DEF Rmmod, LoadTypes, OthersKept
  <2>2. DriverInv(d)'
    BY <1>2, <1>n, ExitLists DEF Rmmod, LoadTypes, DriverInv, CallsInv, KindInv, OrderInv,
       ComingInv, GoingInv, RestInv
  <2> QED
    BY <2>1, <2>2, OthersInv
<1>3. ASSUME NEW d \in Drivers, Step(d) PROVE LoadInv'
  BY <1>3, StepFrame, StepInv, OthersInv
<1>4. ASSUME NEW x \in Ports, OtherRequests(x) \/ OtherReleases(x) PROVE LoadInv'
  BY <1>4 DEF OtherRequests, OtherReleases, LoadTypes, DriverInv, CallsInv, KindInv, OrderInv,
     ComingInv, GoingInv, RestInv
<1> QED
  BY <1>1, <1>2, <1>3, <1>4 DEF Next

-----------------------------------------------------------------------------
(* The drivers: theorems *)

\* The invariant of the drivers holds for ever, however their init and exit
\* functions interleave and fail.
THEOREM LoadInvariance == AllSpec => []LoadInv
<1>1. AllInit => LoadInv
  <2> SUFFICES ASSUME Init PROVE LoadInv
    BY DEF AllInit
  <2> USE DriverLoadAssumption DEF Init
  <2>1. LoadTypes
    BY DEF LoadTypes
  <2>2. ASSUME NEW d \in Drivers PROVE DriverInv(d)
    BY Labels, BeforeNone DEF DriverInv, CallsInv, KindInv, OrderInv, ComingInv, GoingInv,
       RestInv
  <2> QED
    BY <2>1, <2>2 DEF LoadInv
<1>2. LoadInv /\ [AllNext]_allVars => LoadInv'
  <2> SUFFICES ASSUME LoadInv, [AllNext]_allVars PROVE LoadInv'
    OBVIOUS
  <2>1. CASE Next
    BY <2>1, LoadInvStep
  <2>2. CASE UNCHANGED vars
    BY <2>2 DEF vars, LoadInv, LoadTypes, DriverInv, CallsInv, KindInv, OrderInv, ComingInv,
       GoingInv, RestInv
  <2> QED
    BY <2>1, <2>2 DEF AllNext, allVars
<1> QED
  BY <1>1, <1>2, PTL DEF AllSpec

\* Device 42:0 leads to the driver that holds the number: no cdev outlives its
\* driver's claim, not even when loading fails half way.
THEOREM CdevServesItsOwner == AllSpec => []CdevOwned
<1>1. LoadInv => CdevOwned
  BY DEF LoadInv, LoadTypes, DriverInv, OrderInv, CdevOwned
<1> QED
  BY <1>1, LoadInvariance, PTL

\* An exit function leaves nothing behind that leads into its unloaded code.
THEOREM ExitLeavesNothing == AllSpec => []ExitClean
<1>1. LoadInv => ExitClean
  BY DEF LoadInv, DriverInv, RestInv, ExitClean
<1> QED
  BY <1>1, LoadInvariance, PTL

\* A driver that loaded holds the device number, kbd its interrupt and the
\* memory drivers their pages; whether it has its cdev is not said.
THEOREM LiveHoldsNumber == AllSpec => []LiveHolds
<1>1. LoadInv => LiveHolds
  BY DEF LoadInv, DriverInv, RestInv, LiveHolds
<1> QED
  BY <1>1, LoadInvariance, PTL

-----------------------------------------------------------------------------
(* The allocation modules: the inductive invariant *)

TaskTypes ==
  /\ run \in [TaskModules -> {"out", "alloc", "remove", "print", "live", "free", "dead"}]
  /\ next \in [TaskModules -> Nat \ {0}]
  /\ held \in [TaskModules -> Seq(Objects \cup {NullPtr})]
  /\ heap \in [Objects -> [who : Nat, ts : Nat, age : Nat]]
  /\ jiffies \in 0..(W - 1)
  /\ missing \in [TaskModules -> SUBSET Nat]

\* The places that each init and exit function passes.
RunInv ==
  /\ run["list"] \in {"out", "alloc", "live", "free"}
  /\ run["full"] \in {"out", "alloc", "remove", "live", "free"}
  /\ run["mem"] \in {"out", "alloc", "print", "free", "live", "dead"}
  /\ run["buf"] \in {"out", "live"}
  /\ \A m \in TaskModules : /\ run[m] = "alloc" => next[m] <= Len(Ancestors)
                            /\ run[m] \notin {"alloc", "remove"} => next[m] = 1

\* How much a module holds at each place.
LenInv ==
  /\ \A m \in TaskModules :
       /\ Len(held[m]) <= Len(Ancestors)
       /\ run[m] \in {"out", "dead"} => held[m] = <<>>
  /\ run["mem"] = "alloc" => Len(held["mem"]) + 1 = next["mem"]
  /\ run["mem"] = "print" => Len(held["mem"]) = Len(Ancestors)
  /\ run["mem"] = "live" => held["mem"] = <<>>
  /\ run["buf"] = "live" => Len(held["buf"]) = 1

\* Every ancestor that a list has come to has an entry or is missing.
CountInv ==
  \A m \in Lists :
    /\ IsFiniteSet(missing[m])
    /\ run[m] = "out" => missing[m] = {}
    /\ run[m] = "alloc" => Len(held[m]) + Cardinality(missing[m]) + 1 = next[m]
    /\ run[m] \in {"remove", "live"} =>
         Len(held[m]) + Cardinality(missing[m]) = Len(Ancestors)

HeldAt(m) == 1..Len(held[m])

\* NULL is held by memoryInit only, before its check ...
NullInv ==
  \A m \in TaskModules : \A i \in HeldAt(m) :
    held[m][i] = NullPtr => m = "mem" /\ run["mem"] \in {"alloc", "print"}

\* ... and any other pointer leads to an object that is in use.
UsedInv ==
  \A m \in TaskModules : \A i \in HeldAt(m) :
    held[m][i] # NullPtr => heap[held[m][i]] # NoObject

\* No object is held twice.
OnceInv ==
  \A m, n \in TaskModules : \A i \in HeldAt(m), j \in HeldAt(n) :
    held[m][i] = held[n][j] /\ held[m][i] # NullPtr => m = n /\ i = j

\* What nobody holds is free, unless memoryInit has died.
LostInv ==
  /\ run["mem"] # "dead" => Orphans = {}
  /\ IsFiniteSet(Orphans) /\ Cardinality(Orphans) < Len(Ancestors)

Who(m, i) == heap[held[m][i]].who

\* The ancestors that a list has come to.
Reached(m) == 1..(IF run[m] = "alloc" THEN next[m] - 1 ELSE Len(Ancestors))

\* A list has one entry for each of them that is not missing.
Listed(m) ==
  /\ missing[m] \subseteq Reached(m)
  /\ \A i \in HeldAt(m) : Who(m, i) \in Reached(m) \ missing[m]
  /\ \A i, j \in HeldAt(m) : Who(m, i) = Who(m, j) => i = j
  /\ \A w \in Reached(m) \ missing[m] : \E i \in HeldAt(m) : Who(m, i) = w

ListedInv == \A m \in Lists : run[m] \in {"alloc", "remove", "live"} => Listed(m)

\* While full looks at the time, the age of an entry is what has passed on the
\* clock since its timestamp, up to the wrap-around.
OnClock(o) ==
  Timed("full", heap[o].who) /\ heap[o].age <= Expiry =>
    /\ heap[o].ts < W
    /\ jiffies - heap[o].ts = heap[o].age \/ jiffies - heap[o].ts = heap[o].age - W

ClockInv ==
  run["full"] \in {"alloc", "remove"} => \A i \in HeldAt("full") : OnClock(held["full"][i])

TaskInv ==
  /\ TaskTypes /\ RunInv /\ LenInv /\ CountInv /\ NullInv /\ UsedInv /\ OnceInv
  /\ LostInv /\ ListedInv /\ ClockInv

-----------------------------------------------------------------------------
(* The allocation modules: what their steps do to the pointers *)

\* The place in the longer of two sequences, which has one more element at k,
\* of element i of the shorter one.
Beside(k, i) == IF i < k THEN i ELSE i + 1

Inserted(s, k, long) ==
  /\ Len(long) = Len(s) + 1
  /\ k \in 1..Len(long)
  /\ \A i \in 1..Len(s) : long[Beside(k, i)] = s[i]

LEMMA BesidePlaces ==
  ASSUME NEW n \in Nat, NEW k \in 1..(n + 1)
  PROVE  /\ \A i \in 1..n : Beside(k, i) \in 1..(n + 1) /\ Beside(k, i) # k
         /\ \A i, j \in 1..n : Beside(k, i) = Beside(k, j) => i = j
         /\ \A j \in 1..(n + 1) : j # k => \E i \in 1..n : Beside(k, i) = j
<1>1. /\ \A i \in 1..n : Beside(k, i) \in 1..(n + 1) /\ Beside(k, i) # k
      /\ \A i, j \in 1..n : Beside(k, i) = Beside(k, j) => i = j
  BY DEF Beside
<1>2. ASSUME NEW j \in 1..(n + 1), j # k PROVE \E i \in 1..n : Beside(k, i) = j
  <2>1. CASE j < k
    <3>1. j \in 1..n /\ Beside(k, j) = j
      BY <2>1 DEF Beside
    <3> QED
      BY <3>1
  <2>2. CASE j > k
    <3>1. j - 1 \in 1..n /\ Beside(k, j - 1) = j
      BY <2>2 DEF Beside
    <3> QED
      BY <3>1
  <2> QED
    BY <1>2, <2>1, <2>2
<1> QED
  BY <1>1, <1>2

\* list_add in front and the next local of memoryInit behind.
LEMMA AddedAt ==
  ASSUME NEW S, NEW s \in Seq(S), NEW x \in S
  PROVE  /\ <<x>> \o s \in Seq(S) /\ Inserted(s, 1, <<x>> \o s) /\ (<<x>> \o s)[1] = x
         /\ Append(s, x) \in Seq(S) /\ Inserted(s, Len(s) + 1, Append(s, x))
         /\ Append(s, x)[Len(s) + 1] = x
<1>1. Len(s) \in Nat /\ <<x>> \in Seq(S) /\ Len(<<x>>) = 1 /\ <<x>>[1] = x
  OBVIOUS
<1>2. <<x>> \o s \in Seq(S) /\ Inserted(s, 1, <<x>> \o s) /\ (<<x>> \o s)[1] = x
  <2> DEFINE b == <<x>> \o s
  <2>1. /\ b \in Seq(S) /\ Len(b) = Len(s) + 1
        /\ \A i \in 1..(Len(s) + 1) : b[i] = IF i <= 1 THEN <<x>>[i] ELSE s[i - 1]
    BY <1>1, ConcatProperties
  <2> HIDE DEF b
  <2>2. b[1] = x
    BY <1>1, <2>1
  <2>3. \A i \in 1..Len(s) : Beside(1, i) = i + 1 /\ i + 1 \in 1..(Len(s) + 1)
        /\ b[i + 1] = s[i]
    BY <1>1, <2>1 DEF Beside
  <2> QED
    BY <1>1, <2>1, <2>2, <2>3 DEF Inserted, b
<1>3. /\ Append(s, x) \in Seq(S) /\ Inserted(s, Len(s) + 1, Append(s, x))
      /\ Append(s, x)[Len(s) + 1] = x
  <2>1. \A i \in 1..Len(s) : Beside(Len(s) + 1, i) = i
    BY <1>1 DEF Beside
  <2> QED
    BY <1>1, <2>1, AppendProperties DEF Inserted
<1> QED
  BY <1>2, <1>3

\* list_del of any entry and of the first.
LEMMA RemovedAt ==
  ASSUME NEW S, NEW s \in Seq(S), NEW k \in 1..Len(s)
  PROVE  /\ RemoveAt(s, k) \in Seq(S) /\ Inserted(RemoveAt(s, k), k, s)
         /\ Tail(s) \in Seq(S) /\ Inserted(Tail(s), 1, s) /\ Head(s) = s[1]
<1> DEFINE n == Len(s)
           a == SubSeq(s, 1, k - 1)
           b == SubSeq(s, k + 1, n)
           r == RemoveAt(s, k)
<1>1. n \in Nat /\ k \in 1..n /\ \A i \in 1..n : s[i] \in S
  OBVIOUS
<1>2. r = a \o b
  BY DEF RemoveAt
<1>3. a \in Seq(S) /\ Len(a) = k - 1 /\ \A i \in 1..(k - 1) : a[i] = s[i]
  <2>1. \A i \in 1..(k - 1) : s[i] \in S
    BY <1>1
  <2>2. 1 \in Int /\ k - 1 \in Int
    BY <1>1
  <2>3. /\ a \in Seq(S) /\ Len(a) = (IF 1 <= k - 1 THEN k - 1 - 1 + 1 ELSE 0)
        /\ \A i \in 1..(k - 1 - 1 + 1) : a[i] = s[1 + i - 1]
    BY <2>1, <2>2, SubSeqProperties
  <2> HIDE DEF a
  <2> QED
    BY <1>1, <2>3
<1>4. b \in Seq(S) /\ Len(b) = n - k /\ \A i \in 1..(n - k) : b[i] = s[k + i]
  <2>1. \A i \in (k + 1)..n : s[i] \in S
    BY <1>1
  <2>2. n \in Int /\ k + 1 \in Int
    BY <1>1
  <2>3. /\ b \in Seq(S) /\ Len(b) = (IF k + 1 <= n THEN n - (k + 1) + 1 ELSE 0)
        /\ \A i \in 1..(n - (k + 1) + 1) : b[i] = s[k + 1 + i - 1]
    BY <2>1, <2>2, SubSeqProperties
  <2> HIDE DEF b
  <2> QED
    BY <1>1, <2>3
<1> HIDE DEF a, b, r
<1>5. /\ r \in Seq(S) /\ Len(r) = Len(a) + Len(b)
      /\ \A i \in 1..(Len(a) + Len(b)) : r[i] = IF i <= Len(a) THEN a[i] ELSE b[i - Len(a)]
  BY <1>2, <1>3, <1>4, ConcatProperties
<1>6. Len(r) + 1 = n
  <2>1. Len(r) = Len(a) + Len(b) /\ Len(a) = k - 1 /\ Len(b) = n - k /\ k \in Nat /\ n \in Nat
    BY <1>1, <1>3, <1>4, <1>5
  <2> HIDE DEF n
  <2> QED
    BY <2>1
<1>7. ASSUME NEW i \in 1..Len(r) PROVE s[Beside(k, i)] = r[i]
  <2>1. CASE i < k
    <3>1. r[i] = a[i] /\ a[i] = s[i]
      BY <1>1, <1>3, <1>4, <1>5, <1>6, <2>1
    <3> QED
      BY <2>1, <3>1 DEF Beside
  <2>2. CASE i >= k
    <3>1. i - (k - 1) \in 1..(n - k) /\ i <= n - 1 /\ k + (i - (k - 1)) = i + 1
      BY <1>1, <1>6, <2>2
    <3>2. r[i] = b[i - (k - 1)]
      BY <1>1, <1>3, <1>4, <1>5, <1>6, <2>2
    <3>3. b[i - (k - 1)] = s[i + 1]
      BY <1>4, <3>1
    <3>4. ~(i < k)
      BY <1>1, <2>2
    <3> QED
      BY <3>2, <3>3, <3>4 DEF Beside
  <2> QED
    BY <1>1, <2>1, <2>2
<1>8. Tail(s) \in Seq(S) /\ Inserted(Tail(s), 1, s) /\ Head(s) = s[1]
  <2>1. s # <<>>
    BY <1>1
  <2>2. /\ Tail(s) \in Seq(S) /\ Len(Tail(s)) = Len(s) - 1 /\ Head(s) = s[1]
        /\ \A i \in 1..Len(Tail(s)) : Tail(s)[i] = s[i + 1]
    BY <2>1, HeadTailProperties
  <2>3. \A i \in 1..Len(Tail(s)) : Beside(1, i) = i + 1
    BY <2>2 DEF Beside
  <2> QED
    BY <1>1, <2>2, <2>3 DEF Inserted
<1>9. Inserted(r, k, s)
  BY <1>1, <1>6, <1>7 DEF Inserted
<1> QED
  BY <1>5, <1>8, <1>9 DEF r

OthersHold(m) == \A n \in TaskModules : n # m => held'[n] = held[n]

\* kmalloc, and the pointer to what it returns.
Grows(m, k, o) ==
  /\ o \in Objects /\ heap[o] = NoObject /\ heap'[o] # NoObject
  /\ \A x \in Objects : x # o => heap'[x] = heap[x]
  /\ Inserted(held[m], k, held'[m]) /\ held'[m][k] = o
  /\ OthersHold(m)

GrowsNull(k) ==
  /\ heap' = heap
  /\ Inserted(held["mem"], k, held'["mem"]) /\ held'["mem"][k] = NullPtr
  /\ OthersHold("mem")

\* kfree, and the pointer to what it frees.
Shrinks(m, k) ==
  /\ Inserted(held'[m], k, held[m])
  /\ held[m][k] \in Objects /\ heap'[held[m][k]] = NoObject
  /\ \A x \in Objects : x # held[m][k] => heap'[x] = heap[x]
  /\ OthersHold(m)

\* Times are written, or nothing.
Keeps ==
  /\ held' = held
  /\ \A o \in Objects : /\ heap'[o] = NoObject <=> heap[o] = NoObject
                        /\ heap'[o].who = heap[o].who

HoldInv == TaskTypes /\ UsedInv /\ OnceInv

LEMMA GrowsHold ==
  ASSUME HoldInv, TaskTypes', NEW m \in TaskModules, NEW k, NEW o, Grows(m, k, o)
  PROVE  /\ UsedInv' /\ OnceInv'
         /\ \A n \in TaskModules : \A i \in HeldAt(n) :
              held[n][i] # o /\ (held[n][i] # NullPtr => heap'[held[n][i]] = heap[held[n][i]])
<1>1. /\ \A n \in TaskModules : held[n] \in Seq(Objects \cup {NullPtr}) /\ Len(held[n]) \in Nat
      /\ \A n \in TaskModules : \A i \in HeldAt(n) : held[n][i] \in Objects \cup {NullPtr}
  BY DEF HoldInv, TaskTypes, HeldAt
<1>2. o \in Objects /\ o # NullPtr
  BY DEF Grows, Objects, NullPtr
<1>3. \A n \in TaskModules : \A i \in HeldAt(n) :
        held[n][i] # o /\ (held[n][i] # NullPtr => heap'[held[n][i]] = heap[held[n][i]])
  BY <1>1, <1>2 DEF HoldInv, UsedInv, Grows
<1> DEFINE Old(n, j) == \E i \in HeldAt(n) : held'[n][j] = held[n][i] /\ (n = m => j = Beside(k, i))
                                             /\ (n # m => j = i)
<1>4. ASSUME NEW n \in TaskModules, NEW j \in HeldAt(n)'
      PROVE  (n = m /\ j = k /\ held'[n][j] = o) \/ Old(n, j)
  <2>1. CASE n # m
    BY <2>1 DEF Grows, OthersHold, HeldAt
  <2>2. CASE n = m /\ j = k
    BY <2>2 DEF Grows
  <2>3. CASE n = m /\ j # k
    <3>1. PICK i \in HeldAt(m) : Beside(k, i) = j
      BY <1>1, <2>3, BesidePlaces DEF Grows, Inserted, HeldAt
    <3>2. held'[n][j] = held[n][i]
      BY <2>3, <3>1 DEF Grows, Inserted, HeldAt
    <3> QED
      BY <2>3, <3>1, <3>2
  <2> QED
    BY <2>1, <2>2, <2>3
<1>5. UsedInv'
  <2> SUFFICES ASSUME NEW n \in TaskModules, NEW j \in HeldAt(n)', held'[n][j] # NullPtr
               PROVE  heap'[held'[n][j]] # NoObject
    BY DEF UsedInv
  <2>1. CASE Old(n, j)
    BY <1>3, <2>1 DEF HoldInv, UsedInv
  <2> QED
    BY <1>4, <2>1 DEF Grows
<1>6. OnceInv'
  <2> SUFFICES ASSUME NEW n \in TaskModules, NEW l \in TaskModules,
                      NEW i \in HeldAt(n)', NEW j \in HeldAt(l)',
                      held'[n][i] = held'[l][j], held'[n][i] # NullPtr
               PROVE  n = l /\ i = j
    BY DEF OnceInv
  <2>1. CASE held'[n][i] = o
    <3>1. ~Old(n, i) /\ ~Old(l, j)
      BY <1>3, <2>1
    <3> QED
      BY <1>4, <3>1
  <2>2. CASE held'[n][i] # o
    <3>1. Old(n, i) /\ Old(l, j)
      BY <1>4, <2>2
    <3>2. PICK x \in HeldAt(n) : held'[n][i] = held[n][x] /\ (n = m => i = Beside(k, x))
          /\ (n # m => i = x)
      BY <3>1
    <3>3. PICK y \in HeldAt(l) : held'[l][j] = held[l][y] /\ (l = m => j = Beside(k, y))
          /\ (l # m => j = y)
      BY <3>1
    <3>4. held[n][x] = held[l][y] /\ held[n][x] # NullPtr
      BY <3>2, <3>3
    <3>5. n = l /\ x = y
      <4>1. OnceInv
        BY DEF HoldInv
      <4> QED
        BY <3>4, <4>1 DEF OnceInv
    <3> QED
      BY <3>2, <3>3, <3>5
  <2> QED
    BY <2>1, <2>2
<1> QED
  BY <1>3, <1>5, <1>6

LEMMA GrowsNullHold ==
  ASSUME HoldInv, TaskTypes', NEW k, GrowsNull(k)
  PROVE  UsedInv' /\ OnceInv'
<1> DEFINE m == "mem"
           Old(n, j) == \E i \in HeldAt(n) : held'[n][j] = held[n][i] /\ (n = m => j = Beside(k, i))
                                             /\ (n # m => j = i)
<1>1. m \in TaskModules /\ \A n \in TaskModules : Len(held[n]) \in Nat
  BY DEF HoldInv, TaskTypes, TaskModules, Lists
<1>2. heap' = heap /\ Inserted(held[m], k, held'[m]) /\ held'[m][k] = NullPtr /\ OthersHold(m)
  BY DEF GrowsNull
<1> HIDE DEF m
<1>4. ASSUME NEW n \in TaskModules, NEW j \in HeldAt(n)', held'[n][j] # NullPtr
      PROVE  Old(n, j)
  <2>1. CASE n # m
    BY <1>2, <2>1 DEF OthersHold, HeldAt
  <2>3. CASE n = m
    <3>0. j # k
      BY <1>2, <1>4, <2>3
    <3>1. PICK i \in HeldAt(m) : Beside(k, i) = j
      BY <1>1, <1>2, <2>3, <3>0, BesidePlaces DEF Inserted, HeldAt
    <3>2. held'[n][j] = held[n][i]
      BY <1>2, <2>3, <3>1 DEF Inserted, HeldAt
    <3> QED
      BY <2>3, <3>1, <3>2
  <2> QED
    BY <2>1, <2>3
<1>5. UsedInv'
  <2> SUFFICES ASSUME NEW n \in TaskModules, NEW j \in HeldAt(n)', held'[n][j] # NullPtr
               PROVE  heap'[held'[n][j]] # NoObject
    BY DEF UsedInv
  <2> QED
    BY <1>2, <1>4 DEF HoldInv, UsedInv
<1>6. OnceInv'
  <2> SUFFICES ASSUME NEW n \in TaskModules, NEW l \in TaskModules,
                      NEW i \in HeldAt(n)', NEW j \in HeldAt(l)',
                      held'[n][i] = held'[l][j], held'[n][i] # NullPtr
               PROVE  n = l /\ i = j
    BY DEF OnceInv
  <2>1. Old(n, i) /\ Old(l, j)
    BY <1>4
  <2>2. PICK x \in HeldAt(n) : held'[n][i] = held[n][x] /\ (n = m => i = Beside(k, x))
        /\ (n # m => i = x)
    BY <2>1
  <2>3. PICK y \in HeldAt(l) : held'[l][j] = held[l][y] /\ (l = m => j = Beside(k, y))
        /\ (l # m => j = y)
    BY <2>1
  <2>4. held[n][x] = held[l][y] /\ held[n][x] # NullPtr
    BY <2>2, <2>3
  <2>5. n = l /\ x = y
    <3>1. OnceInv
      BY DEF HoldInv
    <3> QED
      BY <2>4, <3>1 DEF OnceInv
  <2> QED
    BY <2>2, <2>3, <2>5
<1> QED
  BY <1>5, <1>6

LEMMA ShrinksHold ==
  ASSUME HoldInv, TaskTypes', NEW m \in TaskModules, NEW k, Shrinks(m, k)
  PROVE  /\ UsedInv' /\ OnceInv'
         /\ k \in HeldAt(m)
         /\ \A n \in TaskModules : \A i \in HeldAt(n) :
              (n # m \/ i # k) /\ held[n][i] # NullPtr =>
                 held[n][i] # held[m][k] /\ heap'[held[n][i]] = heap[held[n][i]]
<1> DEFINE o == held[m][k]
           Old(n, j) == \E i \in HeldAt(n) : /\ held'[n][j] = held[n][i]
                                             /\ (n = m => i = Beside(k, j) /\ i # k)
                                             /\ (n # m => j = i)
<1>1. /\ \A n \in TaskModules : Len(held[n]) \in Nat /\ Len(held'[n]) \in Nat
      /\ \A n \in TaskModules : \A i \in HeldAt(n) : held[n][i] \in Objects \cup {NullPtr}
  BY DEF HoldInv, TaskTypes, HeldAt
<1>2. /\ Inserted(held'[m], k, held[m]) /\ o \in Objects /\ heap'[o] = NoObject
      /\ \A x \in Objects : x # o => heap'[x] = heap[x]
      /\ OthersHold(m)
  BY DEF Shrinks
<1>3. k \in HeldAt(m) /\ o # NullPtr
  BY <1>2 DEF Inserted, HeldAt, Objects, NullPtr
<1>c. UsedInv /\ OnceInv
  BY DEF HoldInv
<1>4. ASSUME NEW n \in TaskModules, NEW i \in HeldAt(n), n # m \/ i # k, held[n][i] # NullPtr
      PROVE  held[n][i] # o /\ heap'[held[n][i]] = heap[held[n][i]]
  <2>1. held[n][i] # o
    BY <1>3, <1>4, <1>c DEF OnceInv
  <2> QED
    BY <1>1, <1>2, <1>4, <2>1
<1>5. ASSUME NEW n \in TaskModules, NEW j \in HeldAt(n)'
      PROVE  Old(n, j)
  <2>1. CASE n # m
    BY <1>2, <2>1 DEF OthersHold, HeldAt
  <2>2. CASE n = m
    <3>1. Beside(k, j) \in HeldAt(m) /\ Beside(k, j) # k
      BY <1>1, <1>2, <2>2, BesidePlaces DEF Inserted, HeldAt
    <3>2. held'[n][j] = held[n][Beside(k, j)]
      BY <1>2, <2>2 DEF Inserted, HeldAt
    <3> QED
      BY <2>2, <3>1, <3>2
  <2> QED
    BY <2>1, <2>2
<1>6. UsedInv'
  <2> SUFFICES ASSUME NEW n \in TaskModules, NEW j \in HeldAt(n)', held'[n][j] # NullPtr
               PROVE  heap'[held'[n][j]] # NoObject
    BY DEF UsedInv
  <2>1. PICK i \in HeldAt(n) : held'[n][j] = held[n][i] /\ (n # m \/ i # k)
    BY <1>5
  <2> QED
    BY <1>4, <1>c, <2>1 DEF UsedInv
<1>7. OnceInv'
  <2> SUFFICES ASSUME NEW n \in TaskModules, NEW l \in TaskModules,
                      NEW i \in HeldAt(n)', NEW j \in HeldAt(l)',
                      held'[n][i] = held'[l][j], held'[n][i] # NullPtr
               PROVE  n = l /\ i = j
    BY DEF OnceInv
  <2>1. Old(n, i) /\ Old(l, j)
    BY <1>5
  <2>2. PICK x \in HeldAt(n) : held'[n][i] = held[n][x] /\ (n = m => x = Beside(k, i))
        /\ (n # m => i = x)
    BY <2>1
  <2>3. PICK y \in HeldAt(l) : held'[l][j] = held[l][y] /\ (l = m => y = Beside(k, j))
        /\ (l # m => j = y)
    BY <2>1
  <2>4. held[n][x] = held[l][y] /\ held[n][x] # NullPtr
    BY <2>2, <2>3
  <2>5. n = l /\ x = y
    BY <2>4, <1>c DEF OnceInv
  <2>6. CASE n # m
    BY <2>2, <2>3, <2>5, <2>6
  <2>7. CASE n = m
    <3>1. Beside(k, i) = Beside(k, j) /\ i \in 1..Len(held'[m]) /\ j \in 1..Len(held'[m])
      BY <2>2, <2>3, <2>5, <2>7 DEF HeldAt
    <3>2. k \in 1..(Len(held'[m]) + 1)
      BY <1>2 DEF Inserted
    <3>3. i = j
      BY <1>1, <3>1, <3>2, BesidePlaces
    <3> QED
      BY <2>5, <3>3
  <2> QED
    BY <2>6, <2>7
<1> QED
  BY <1>3, <1>4, <1>6, <1>7

\* Objects that are in use and that nobody holds.
LEMMA OrphansAre ==
  ASSUME TaskTypes, LenInv
  PROVE  Orphans = {o \in Objects : heap[o] # NoObject
         /\ \A n \in TaskModules : \A i \in HeldAt(n) : held[n][i] # o}
<1> SUFFICES ASSUME NEW o \in Objects
             PROVE  Owners(o) = {} <=> \A n \in TaskModules : \A i \in HeldAt(n) : held[n][i] # o
  BY DEF Orphans
<1>1. ASSUME NEW n \in TaskModules, NEW i \in HeldAt(n), held[n][i] = o PROVE Owners(o) # {}
  <2>1. i \in 1..Len(Ancestors) /\ i <= Len(held[n])
    BY TaskModsAssumption DEF TaskTypes, LenInv, HeldAt
  <2>2. <<n, i>> \in Owners(o)
    BY <1>1, <2>1 DEF Owners
  <2> QED
    BY <2>2
<1>2. ASSUME NEW x \in Owners(o) PROVE \E n \in TaskModules : \E i \in HeldAt(n) : held[n][i] = o
  <2>1. x[1] \in TaskModules /\ x[2] \in 1..Len(Ancestors) /\ x[2] <= Len(held[x[1]])
        /\ held[x[1]][x[2]] = o
    BY DEF Owners
  <2>2. x[2] \in HeldAt(x[1])
    BY <2>1, TaskModsAssumption DEF HeldAt, TaskTypes
  <2> QED
    BY <2>1, <2>2
<1> QED
  BY <1>1, <1>2

LEMMA OrphansNext ==
  ASSUME TaskTypes', LenInv'
  PROVE  Orphans' = {o \in Objects : heap'[o] # NoObject
         /\ \A n \in TaskModules : \A i \in HeldAt(n)' : held'[n][i] # o}
<1> SUFFICES ASSUME NEW o \in Objects
             PROVE  Owners(o)' = {} <=> \A n \in TaskModules : \A i \in HeldAt(n)' : held'[n][i] # o
  BY DEF Orphans
<1>1. ASSUME NEW n \in TaskModules, NEW i \in HeldAt(n)', held'[n][i] = o PROVE Owners(o)' # {}
  <2>1. i \in 1..Len(Ancestors) /\ i <= Len(held'[n])
    BY TaskModsAssumption DEF TaskTypes, LenInv, HeldAt
  <2>2. <<n, i>> \in Owners(o)'
    BY <1>1, <2>1 DEF Owners
  <2> QED
    BY <2>2
<1>2. ASSUME NEW x \in Owners(o)' PROVE \E n \in TaskModules : \E i \in HeldAt(n)' : held'[n][i] = o
  <2>1. x[1] \in TaskModules /\ x[2] \in 1..Len(Ancestors) /\ x[2] <= Len(held'[x[1]])
        /\ held'[x[1]][x[2]] = o
    BY DEF Owners
  <2>2. x[2] \in HeldAt(x[1])'
    BY <2>1, TaskModsAssumption DEF HeldAt, TaskTypes
  <2> QED
    BY <2>1, <2>2
<1> QED
  BY <1>1, <1>2

LEMMA ModuleNames ==
  /\ TaskModules = {"list", "full", "mem", "buf"} /\ Lists = {"list", "full"}
  /\ Lists \subseteq TaskModules
  /\ NullPtr \notin Objects
  /\ Len(Ancestors) \in Nat /\ Len(Ancestors) >= 3
BY TaskModsAssumption DEF TaskModules, Lists, NullPtr, Objects

Members(s) == {s[i] : i \in 1..Len(s)}

HeldSet(m) == Members(held[m])

\* A sequence with one element more links one element more.
LEMMA InsertedSet ==
  ASSUME NEW s, NEW long, NEW k, Inserted(s, k, long), Len(s) \in Nat
  PROVE  Members(long) = Members(s) \cup {long[k]}
<1>1. Len(long) = Len(s) + 1 /\ k \in 1..(Len(s) + 1)
      /\ \A i \in 1..Len(s) : long[Beside(k, i)] = s[i]
  BY DEF Inserted
<1>2. /\ \A i \in 1..Len(s) : Beside(k, i) \in 1..Len(long)
      /\ \A j \in 1..Len(long) : j # k => \E i \in 1..Len(s) : Beside(k, i) = j
  <2> DEFINE n == Len(s)
  <2>1. n \in Nat /\ k \in 1..(n + 1) /\ Len(long) = n + 1
    BY <1>1
  <2> HIDE DEF n
  <2>2. /\ \A i \in 1..n : Beside(k, i) \in 1..(n + 1)
        /\ \A j \in 1..(n + 1) : j # k => \E i \in 1..n : Beside(k, i) = j
    BY <2>1, BesidePlaces
  <2> QED
    BY <2>1, <2>2 DEF n
<1>3. ASSUME NEW j \in 1..Len(long), j # k PROVE long[j] \in {s[i] : i \in 1..Len(s)}
  <2>1. PICK i \in 1..Len(s) : Beside(k, i) = j
    BY <1>2, <1>3
  <2> QED
    BY <1>1, <2>1
<1>4. ASSUME NEW i \in 1..Len(s) PROVE s[i] \in {long[j] : j \in 1..Len(long)}
  BY <1>1, <1>2
<1> QED
  BY <1>1, <1>3, <1>4 DEF Members

\* No step but the death of memoryInit loses an object: kmalloc comes with a
\* pointer and kfree with the end of one.
LEMMA NothingLost ==
  ASSUME HoldInv, LenInv, TaskTypes', LenInv', NEW m \in TaskModules, NEW k, NEW o,
         Grows(m, k, o) \/ GrowsNull(k) \/ Shrinks(m, k) \/ Keeps
  PROVE  Orphans' = Orphans
<1>1. Orphans = {x \in Objects : heap[x] # NoObject
      /\ \A n \in TaskModules : x \notin HeldSet(n)}
  BY OrphansAre DEF HoldInv, HeldSet, HeldAt, Members
<1>2. Orphans' = {x \in Objects : heap'[x] # NoObject
      /\ \A n \in TaskModules : x \notin HeldSet(n)'}
  BY OrphansNext DEF HeldSet, HeldAt, Members
<1>3. \A n \in TaskModules : Len(held[n]) \in Nat /\ Len(held'[n]) \in Nat
  BY DEF HoldInv, TaskTypes
<1>4. \A n \in TaskModules : held'[n] = held[n] => HeldSet(n)' = HeldSet(n)
  BY DEF HeldSet
<1>5. CASE Grows(m, k, o)
  <2>1. HeldSet(m)' = HeldSet(m) \cup {o}
    <3>1. Inserted(held[m], k, held'[m]) /\ Len(held[m]) \in Nat /\ held'[m][k] = o
      BY <1>3, <1>5 DEF Grows
    <3>2. Members(held'[m]) = Members(held[m]) \cup {held'[m][k]}
      BY <3>1, InsertedSet
    <3> QED
      BY <3>1, <3>2 DEF HeldSet
  <2> QED
    BY <1>1, <1>2, <1>4, <1>5, <2>1 DEF Grows, OthersHold
<1>6. CASE GrowsNull(k)
  <2>1. HeldSet("mem")' = HeldSet("mem") \cup {NullPtr} /\ "mem" \in TaskModules
    <3>1. Inserted(held["mem"], k, held'["mem"]) /\ Len(held["mem"]) \in Nat
          /\ held'["mem"][k] = NullPtr /\ "mem" \in TaskModules
      BY <1>3, <1>6, ModuleNames DEF GrowsNull
    <3>2. Members(held'["mem"]) = Members(held["mem"]) \cup {held'["mem"][k]}
      BY <3>1, InsertedSet
    <3> QED
      BY <3>1, <3>2 DEF HeldSet
  <2>2. NullPtr \notin Objects
    BY DEF NullPtr, Objects
  <2> QED
    BY <1>1, <1>2, <1>4, <1>6, <2>1, <2>2 DEF GrowsNull, OthersHold
<1>7. CASE Shrinks(m, k)
  <2>1. HeldSet(m) = HeldSet(m)' \cup {held[m][k]}
    <3>1. Inserted(held'[m], k, held[m]) /\ Len(held'[m]) \in Nat
      BY <1>3, <1>7 DEF Shrinks
    <3>2. Members(held[m]) = Members(held'[m]) \cup {held[m][k]}
      BY <3>1, InsertedSet
    <3> QED
      BY <3>1, <3>2 DEF HeldSet
  <2> QED
    BY <1>1, <1>2, <1>4, <1>7, <2>1 DEF Shrinks, OthersHold
<1>8. CASE Keeps
  BY <1>1, <1>2, <1>4, <1>8 DEF Keeps
<1> QED
  BY <1>5, <1>6, <1>7, <1>8

-----------------------------------------------------------------------------
(* The allocation modules: the steps *)

\* An entry is different from no entry.
LEMMA EntryFacts ==
  ASSUME TaskTypes, NEW m \in TaskModules, NEW i \in Nat \ {0}
  PROVE  /\ Entry(m, i) \in [who : Nat, ts : Nat, age : Nat]
         /\ Entry(m, i) # NoObject
         /\ m \in Lists => Entry(m, i).who = i
         /\ Entry(m, i).ts = (IF Timed(m, i) THEN jiffies ELSE 0) /\ Entry(m, i).age = 0
<1>1. jiffies \in Nat
  BY TaskModsAssumption DEF TaskTypes
<1>2. (IF Timed(m, i) THEN jiffies ELSE 0) \in Nat
  BY <1>1
<1>3. (IF m \in Lists THEN i ELSE 1) \in Nat \ {0}
  OBVIOUS
<1> DEFINE t == IF Timed(m, i) THEN jiffies ELSE 0
           w == IF m \in Lists THEN i ELSE 1
<1>4. t \in Nat /\ w \in Nat /\ w # 0 /\ Entry(m, i) = [who |-> w, ts |-> t, age |-> 0]
  BY <1>2, <1>3 DEF Entry
<1>5. m \in Lists => w = i
  OBVIOUS
<1>6. t = IF Timed(m, i) THEN jiffies ELSE 0
  OBVIOUS
<1> HIDE DEF t, w
<1> QED
  BY <1>4, <1>5, <1>6 DEF NoObject

\* Where the loop over the ancestors goes.
LEMMA NextAllocFacts ==
  ASSUME TaskTypes, NEW m \in {"list", "full", "mem"}, NextAlloc(m)
  PROVE  /\ next' \in [TaskModules -> Nat \ {0}]
         /\ run' \in [TaskModules -> {"out", "alloc", "remove", "print", "live", "free", "dead"}]
         /\ \A n \in TaskModules : n # m => next'[n] = next[n] /\ run'[n] = run[n]
         /\ \/ next[m] < Len(Ancestors) /\ next'[m] = next[m] + 1 /\ run'[m] = run[m]
            \/ /\ next[m] >= Len(Ancestors) /\ next'[m] = 1
               /\ m = "list" => run'[m] = "live"
               /\ m = "full" => run'[m] = "remove"
               /\ m = "mem" => run'[m] = "print"
<1>1. m \in TaskModules /\ next[m] \in Nat \ {0} /\ Len(Ancestors) \in Nat
  BY ModuleNames DEF TaskTypes
<1>2. CASE next[m] < Len(Ancestors)
  <2>1. next' = [next EXCEPT ![m] = next[m] + 1] /\ run' = run
    BY <1>2 DEF NextAlloc
  <2>2. next[m] + 1 \in Nat \ {0}
    BY <1>1
  <2> QED
    BY <1>1, <1>2, <2>1, <2>2 DEF TaskTypes
<1>3. CASE ~(next[m] < Len(Ancestors))
  <2> DEFINE l == CASE m = "list" -> "live" [] m = "full" -> "remove" [] m = "mem" -> "print"
  <2>1. next' = [next EXCEPT ![m] = 1] /\ run' = [run EXCEPT ![m] = l]
    BY <1>3 DEF NextAlloc, Goes
  <2>2. (m = "list" => l = "live") /\ (m = "full" => l = "remove") /\ (m = "mem" => l = "print")
    OBVIOUS
  <2> HIDE DEF l
  <2>3. l \in {"live", "remove", "print"}
    BY <2>2
  <2>4. next[m] >= Len(Ancestors)
    BY <1>1, <1>3
  <2> QED
    BY <1>1, <2>1, <2>2, <2>3, <2>4 DEF TaskTypes
<1> QED
  BY <1>2, <1>3

\* kmalloc returns an object that nobody uses.
LEMMA KmallocFacts ==
  ASSUME TaskTypes, NEW o \in Objects, NEW c \in [who : Nat, ts : Nat, age : Nat],
         c # NoObject, kmalloc(o, c)
  PROVE  /\ heap[o] = NoObject /\ heap'[o] = c /\ heap'[o] # NoObject
         /\ \A x \in Objects : x # o => heap'[x] = heap[x]
         /\ heap' \in [Objects -> [who : Nat, ts : Nat, age : Nat]]
BY DEF TaskTypes, kmalloc, Unused

LEMMA KfreeFacts ==
  ASSUME TaskTypes, NEW o \in Objects, kfree(o)
  PROVE  /\ heap'[o] = NoObject
         /\ \A x \in Objects : x # o => heap'[x] = heap[x]
         /\ heap' \in [Objects -> [who : Nat, ts : Nat, age : Nat]]
BY DEF TaskTypes, kfree, NoObject

LEMMA AddGrows ==
  ASSUME TaskTypes, NEW m \in TaskModules, task_info_add_for_current(m)
  PROVE  /\ m \in Lists /\ held' \in [TaskModules -> Seq(Objects \cup {NullPtr})]
         /\ heap' \in [Objects -> [who : Nat, ts : Nat, age : Nat]]
         /\ \E o \in Objects : Grows(m, 1, o) /\ heap'[o] = Entry(m, next[m])
<1>1. PICK o \in Objects : kmalloc(o, Entry(m, next[m]))
      /\ held' = [held EXCEPT ![m] = <<o>> \o @]
  BY DEF task_info_add_for_current
<1>2. Entry(m, next[m]) \in [who : Nat, ts : Nat, age : Nat] /\ Entry(m, next[m]) # NoObject
  BY EntryFacts DEF TaskTypes
<1>3. /\ heap[o] = NoObject /\ heap'[o] = Entry(m, next[m]) /\ heap'[o] # NoObject
      /\ \A x \in Objects : x # o => heap'[x] = heap[x]
      /\ heap' \in [Objects -> [who : Nat, ts : Nat, age : Nat]]
  BY <1>1, <1>2, KmallocFacts
<1>4. held[m] \in Seq(Objects \cup {NullPtr}) /\ held'[m] = <<o>> \o held[m] /\ OthersHold(m)
  BY <1>1 DEF TaskTypes, OthersHold
<1>5. /\ held'[m] \in Seq(Objects \cup {NullPtr})
      /\ Inserted(held[m], 1, held'[m]) /\ held'[m][1] = o
  BY <1>4, AddedAt
<1>6. held' \in [TaskModules -> Seq(Objects \cup {NullPtr})]
  BY <1>1, <1>4, <1>5 DEF TaskTypes
<1> QED
  BY <1>3, <1>4, <1>5, <1>6 DEF Grows, task_info_add_for_current

LEMMA MemGrows ==
  ASSUME TaskTypes, MemAlloc
  PROVE  /\ held' \in [TaskModules -> Seq(Objects \cup {NullPtr})]
         /\ heap' \in [Objects -> [who : Nat, ts : Nat, age : Nat]]
         /\ \/ GrowsNull(Len(held["mem"]) + 1)
            \/ \E o \in Objects : Grows("mem", Len(held["mem"]) + 1, o)
<1> DEFINE m == "mem"
<1>0. m \in TaskModules
  BY ModuleNames
<1>1. PICK o \in Objects \cup {NullPtr} :
        /\ IF o = NullPtr THEN UNCHANGED heap ELSE kmalloc(o, Entry(m, next[m]))
        /\ held' = [held EXCEPT ![m] = Append(@, o)]
  BY DEF MemAlloc
<1>4. held[m] \in Seq(Objects \cup {NullPtr}) /\ held'[m] = Append(held[m], o) /\ OthersHold(m)
  BY <1>0, <1>1 DEF TaskTypes, OthersHold
<1>5. /\ held'[m] \in Seq(Objects \cup {NullPtr})
      /\ Inserted(held[m], Len(held[m]) + 1, held'[m]) /\ held'[m][Len(held[m]) + 1] = o
  <2> DEFINE s == held[m]
             S == Objects \cup {NullPtr}
  <2>1. s \in Seq(S) /\ o \in S
    BY <1>4
  <2> HIDE DEF s, S
  <2>2. Append(s, o) \in Seq(S) /\ Inserted(s, Len(s) + 1, Append(s, o))
        /\ Append(s, o)[Len(s) + 1] = o
    BY <2>1, AddedAt
  <2> QED
    BY <1>4, <2>2 DEF s, S
<1>6. held' \in [TaskModules -> Seq(Objects \cup {NullPtr})]
  BY <1>0, <1>1, <1>4, <1>5 DEF TaskTypes
<1>7. CASE o = NullPtr
  BY <1>1, <1>4, <1>5, <1>6, <1>7 DEF GrowsNull, TaskTypes
<1>8. CASE o # NullPtr
  <2>1. Entry(m, next[m]) \in [who : Nat, ts : Nat, age : Nat] /\ Entry(m, next[m]) # NoObject
    BY <1>0, EntryFacts DEF TaskTypes
  <2>2. /\ heap[o] = NoObject /\ heap'[o] # NoObject
        /\ \A x \in Objects : x # o => heap'[x] = heap[x]
        /\ heap' \in [Objects -> [who : Nat, ts : Nat, age : Nat]]
    BY <1>1, <1>8, <2>1, KmallocFacts
  <2> QED
    BY <1>4, <1>5, <1>6, <1>8, <2>2 DEF Grows
<1> QED
  BY <1>7, <1>8

LEMMA BufGrows ==
  ASSUME TaskTypes, LenInv, allocBuff
  PROVE  /\ held' \in [TaskModules -> Seq(Objects \cup {NullPtr})]
         /\ heap' \in [Objects -> [who : Nat, ts : Nat, age : Nat]]
         /\ \E o \in Objects : Grows("buf", 1, o)
<1> DEFINE m == "buf"
<1>0. m \in TaskModules
  BY ModuleNames
<1>1. PICK o \in Objects : kmalloc(o, Entry(m, 1)) /\ held' = [held EXCEPT ![m] = <<o>>]
  BY DEF allocBuff
<1>2. Entry(m, 1) \in [who : Nat, ts : Nat, age : Nat] /\ Entry(m, 1) # NoObject
  BY <1>0, EntryFacts
<1>3. /\ heap[o] = NoObject /\ heap'[o] # NoObject
      /\ \A x \in Objects : x # o => heap'[x] = heap[x]
      /\ heap' \in [Objects -> [who : Nat, ts : Nat, age : Nat]]
  BY <1>1, <1>2, KmallocFacts
<1>4. held[m] = <<>> /\ held'[m] = <<o>> /\ OthersHold(m)
  BY <1>0, <1>1 DEF TaskTypes, OthersHold, allocBuff, MayLoad, LenInv
<1>5. Inserted(held[m], 1, held'[m]) /\ held'[m][1] = o
  BY <1>4 DEF Inserted
<1>6. held' \in [TaskModules -> Seq(Objects \cup {NullPtr})]
  BY <1>0, <1>1 DEF TaskTypes
<1> QED
  BY <1>3, <1>4, <1>5, <1>6 DEF Grows

\* What is freed is an object, and not NULL.
LEMMA FreedIsObject ==
  ASSUME TaskTypes, NullInv, NEW m \in TaskModules, NEW k \in HeldAt(m),
         m # "mem" \/ run[m] \notin {"alloc", "print"}
  PROVE  held[m][k] \in Objects
<1>1. held[m][k] \in Objects \cup {NullPtr}
  BY DEF TaskTypes, HeldAt
<1> QED
  BY <1>1 DEF NullInv

LEMMA FreeShrinks ==
  ASSUME TaskTypes, NullInv, NEW m \in TaskModules, FreeFirst(m)
  PROVE  /\ held' \in [TaskModules -> Seq(Objects \cup {NullPtr})]
         /\ heap' \in [Objects -> [who : Nat, ts : Nat, age : Nat]]
         /\ Shrinks(m, 1)
<1> DEFINE S == Objects \cup {NullPtr}
<1>1. /\ held[m] \in Seq(S) /\ held[m] # <<>> /\ kfree(Head(held[m]))
      /\ held' = [held EXCEPT ![m] = Tail(held[m])] /\ run[m] = "free"
  BY DEF FreeFirst, TaskTypes
<1>2. Len(held[m]) \in Nat /\ 1 \in HeldAt(m)
  BY <1>1 DEF HeldAt
<1>3. Tail(held[m]) \in Seq(S) /\ Inserted(Tail(held[m]), 1, held[m])
      /\ Head(held[m]) = held[m][1]
  <2>1. 1 \in 1..Len(held[m])
    BY <1>2 DEF HeldAt
  <2> DEFINE s == held[m]
  <2>2. s \in Seq(S) /\ 1 \in 1..Len(s)
    BY <1>1, <2>1
  <2> HIDE DEF s, S
  <2>3. Tail(s) \in Seq(S) /\ Inserted(Tail(s), 1, s) /\ Head(s) = s[1]
    BY <2>2, RemovedAt
  <2> QED
    BY <2>3 DEF s, S
<1>4. held[m][1] \in Objects
  BY <1>1, <1>2, FreedIsObject
<1>5. /\ heap'[held[m][1]] = NoObject
      /\ \A x \in Objects : x # held[m][1] => heap'[x] = heap[x]
      /\ heap' \in [Objects -> [who : Nat, ts : Nat, age : Nat]]
  BY <1>1, <1>3, <1>4, KfreeFacts
<1>6. held'[m] = Tail(held[m]) /\ OthersHold(m) /\ held' \in [TaskModules -> Seq(S)]
  BY <1>1, <1>3 DEF TaskTypes, OthersHold
<1> QED
  BY <1>3, <1>4, <1>5, <1>6 DEF Shrinks

LEMMA BufShrinks ==
  ASSUME TaskTypes, LenInv, NullInv, exitKernelAlloc
  PROVE  /\ held' \in [TaskModules -> Seq(Objects \cup {NullPtr})]
         /\ heap' \in [Objects -> [who : Nat, ts : Nat, age : Nat]]
         /\ Shrinks("buf", 1)
<1> DEFINE S == Objects \cup {NullPtr}
           m == "buf"
<1>0. m \in TaskModules /\ m # "mem"
  BY ModuleNames
<1>1. /\ held[m] \in Seq(S) /\ Len(held[m]) = 1 /\ kfree(held[m][1])
      /\ held' = [held EXCEPT ![m] = <<>>]
  BY <1>0 DEF exitKernelAlloc, TaskTypes, LenInv
<1> HIDE DEF m
<1>2. 1 \in HeldAt(m)
  BY <1>1 DEF HeldAt
<1>4. held[m][1] \in Objects
  BY <1>0, <1>2, FreedIsObject
<1>5. /\ heap'[held[m][1]] = NoObject
      /\ \A x \in Objects : x # held[m][1] => heap'[x] = heap[x]
      /\ heap' \in [Objects -> [who : Nat, ts : Nat, age : Nat]]
  BY <1>1, <1>4, KfreeFacts
<1>6. held'[m] = <<>> /\ OthersHold(m) /\ held' \in [TaskModules -> Seq(S)]
  BY <1>0, <1>1 DEF TaskTypes, OthersHold
<1>7. Inserted(held'[m], 1, held[m])
  BY <1>1, <1>6 DEF Inserted
<1> QED
  BY <1>4, <1>5, <1>6, <1>7 DEF Shrinks, m

LEMMA RemoveShrinks ==
  ASSUME TaskTypes, NullInv, RemoveEntry
  PROVE  /\ held' \in [TaskModules -> Seq(Objects \cup {NullPtr})]
         /\ heap' \in [Objects -> [who : Nat, ts : Nat, age : Nat]]
         /\ Shrinks("full", next["full"])
<1> DEFINE S == Objects \cup {NullPtr}
           m == "full"
           k == next["full"]
<1>0. m \in TaskModules /\ m # "mem"
  BY ModuleNames
<1>1. /\ held[m] \in Seq(S) /\ k \in Nat \ {0} /\ k <= Len(held[m]) /\ kfree(held[m][k])
      /\ held' = [held EXCEPT ![m] = RemoveAt(held[m], k)]
  BY <1>0 DEF RemoveEntry, Current, TaskTypes
<1> HIDE DEF m, k
<1>2. k \in 1..Len(held[m]) /\ k \in HeldAt(m)
  BY <1>1 DEF HeldAt
<1>3. RemoveAt(held[m], k) \in Seq(S) /\ Inserted(RemoveAt(held[m], k), k, held[m])
  <2> DEFINE s == held[m]
  <2>2. s \in Seq(S) /\ k \in 1..Len(s)
    BY <1>1, <1>2
  <2> HIDE DEF s, S
  <2>3. RemoveAt(s, k) \in Seq(S) /\ Inserted(RemoveAt(s, k), k, s)
    BY <2>2, RemovedAt
  <2> QED
    BY <2>3 DEF s, S
<1>4. held[m][k] \in Objects
  BY <1>0, <1>2, FreedIsObject
<1>5. /\ heap'[held[m][k]] = NoObject
      /\ \A x \in Objects : x # held[m][k] => heap'[x] = heap[x]
      /\ heap' \in [Objects -> [who : Nat, ts : Nat, age : Nat]]
  BY <1>1, <1>4, KfreeFacts
<1>6. held'[m] = RemoveAt(held[m], k) /\ OthersHold(m) /\ held' \in [TaskModules -> Seq(S)]
  BY <1>0, <1>1, <1>3 DEF TaskTypes, OthersHold
<1> QED
  BY <1>3, <1>4, <1>5, <1>6 DEF Shrinks, m, k

\* The clock and the end of the walk change times, and no entry's owner.
LEMMA TimesChange ==
  ASSUME TaskTypes, ListedInv, Tick \/ RemoveEnds
  PROVE  /\ held' = held
         /\ heap' \in [Objects -> [who : Nat, ts : Nat, age : Nat]]
         /\ \A o \in Objects : /\ heap'[o].who = heap[o].who
                               /\ heap'[o] = NoObject <=> heap[o] = NoObject
<1>1. held' = held
  BY DEF Tick, RemoveEnds
<1>2. run["full"] \in {"alloc", "remove", "live"} /\ "full" \in Lists /\ "full" \in TaskModules
  BY ModuleNames DEF Tick, RemoveEnds
<1>3. ASSUME NEW o \in Objects, Contains(held["full"], o) PROVE heap[o].who \in Nat \ {0}
  <2>1. PICK i \in HeldAt("full") : held["full"][i] = o
    BY <1>3 DEF Contains, HeldAt
  <2>2. Who("full", i) \in Reached("full")
    BY <1>2, <2>1 DEF ListedInv, Listed
  <2>3. next["full"] \in Nat /\ Len(Ancestors) \in Nat
    BY <1>2, ModuleNames DEF TaskTypes
  <2>4. Who("full", i) \in Nat \ {0}
    BY <2>2, <2>3 DEF Reached
  <2> QED
    BY <2>1, <2>4 DEF Who
<1>4. ASSUME NEW o \in Objects
      PROVE  /\ heap'[o] \in [who : Nat, ts : Nat, age : Nat] /\ heap'[o].who = heap[o].who
             /\ heap'[o] = NoObject <=> heap[o] = NoObject
  <2> DEFINE e == heap[o]
             f == heap'[o]
             older == [e EXCEPT !.age = e.age + 1]
  <2>1. e \in [who : Nat, ts : Nat, age : Nat]
    BY DEF TaskTypes
  <2>2. f = e \/ (Contains(held["full"], o) /\ (f = older \/ f = Entry("list", e.who)))
    <3>1. CASE Tick
      <4>1. f = IF Contains(held["full"], o) /\ Timed("full", e.who) /\ e.age <= Expiry
                THEN older ELSE e
        BY <3>1 DEF Tick
      <4> DEFINE c == Contains(held["full"], o)
                 d == Contains(held["full"], o) /\ Timed("full", e.who) /\ e.age <= Expiry
      <4>2. (d => c) /\ (d => f = older) /\ (~d => f = e)
        BY <4>1
      <4> HIDE DEF e, f, older, d
      <4> QED
        BY <4>2
    <3>2. CASE RemoveEnds
      <4>1. f = IF Contains(held["full"], o) THEN Entry("list", e.who) ELSE e
        BY <3>2 DEF RemoveEnds
      <4>2. /\ Contains(held["full"], o) => f = Entry("list", e.who)
            /\ ~Contains(held["full"], o) => f = e
        BY <4>1
      <4> HIDE DEF e, f, older
      <4> QED
        BY <4>2
    <3> QED
      BY <3>1, <3>2
  <2>3. Contains(held["full"], o) => e.who \in Nat \ {0}
    BY <1>3
  <2>4. f = Entry("list", e.who)
        /\ e.who \in Nat \ {0} => f \in [who : Nat, ts : Nat, age : Nat] /\ f.who = e.who
    <3>1. "list" \in TaskModules /\ "list" \in Lists
      BY ModuleNames
    <3> HIDE DEF e, f
    <3>2. ASSUME NEW w \in Nat \ {0}
          PROVE  Entry("list", w) \in [who : Nat, ts : Nat, age : Nat]
                 /\ Entry("list", w).who = w
      BY <3>1, EntryFacts
    <3> QED
      BY <3>2
  <2> HIDE DEF e, f
  <2>5. older \in [who : Nat, ts : Nat, age : Nat] /\ older.who = e.who
    BY <2>1
  <2> HIDE DEF older
  <2>6. NoObject.who = 0
    BY DEF NoObject
  <2>7. f \in [who : Nat, ts : Nat, age : Nat] /\ f.who = e.who
        /\ (f = NoObject <=> e = NoObject)
    BY <2>1, <2>2, <2>3, <2>4, <2>5, <2>6
  <2> QED
    BY <2>7 DEF e, f
<1>5. heap' = [o \in Objects |-> heap'[o]]
  BY DEF Tick, RemoveEnds
<1> QED
  BY <1>1, <1>4, <1>5

\* jiffies goes on by one, or wraps.
LEMMA ClockMod ==
  ASSUME NEW a \in 0..(W - 1)
  PROVE  /\ (a + 1) % W = (IF a = W - 1 THEN 0 ELSE a + 1)
         /\ (a + 1) % W \in 0..(W - 1)
         /\ a % W = a /\ (a - W) % W = a
<1>1. (a + 1) % W = IF a = W - 1 THEN 0 ELSE a + 1
  BY TaskModsAssumption
<1>2. a % W = a /\ (a - W) % W = a
  BY TaskModsAssumption
<1>3. (IF a = W - 1 THEN 0 ELSE a + 1) \in 0..(W - 1)
  BY TaskModsAssumption
<1> QED
  BY <1>1, <1>2, <1>3

LEMMA GrowsSet ==
  ASSUME TaskTypes, NEW m \in TaskModules, NEW k, NEW o, Grows(m, k, o)
  PROVE  HeldSet(m)' = HeldSet(m) \cup {o}
         /\ \A x \in TaskModules : x # m => HeldSet(x)' = HeldSet(x)
<1>1. Inserted(held[m], k, held'[m]) /\ Len(held[m]) \in Nat /\ held'[m][k] = o /\ OthersHold(m)
  BY DEF Grows, TaskTypes
<1>2. Members(held'[m]) = Members(held[m]) \cup {held'[m][k]}
  BY <1>1, InsertedSet
<1> QED
  BY <1>1, <1>2 DEF HeldSet, OthersHold

LEMMA ShrinksSet ==
  ASSUME TaskTypes', NEW m \in TaskModules, NEW k, Shrinks(m, k)
  PROVE  /\ HeldSet(m) = HeldSet(m)' \cup {held[m][k]}
         /\ \A x \in TaskModules : x # m => HeldSet(x)' = HeldSet(x)
<1>1. Inserted(held'[m], k, held[m]) /\ Len(held'[m]) \in Nat /\ OthersHold(m)
  BY DEF Shrinks, TaskTypes
<1>2. Members(held[m]) = Members(held'[m]) \cup {held[m][k]}
  BY <1>1, InsertedSet
<1> QED
  BY <1>1, <1>2 DEF HeldSet, OthersHold

\* NULL comes into nobody's hands.
LEMMA NullSets ==
  ASSUME NullInv, run'["mem"] = run["mem"],
         \A x \in TaskModules : NullPtr \in HeldSet(x)' => NullPtr \in HeldSet(x)
  PROVE  NullInv'
<1>1. \A x \in TaskModules : NullPtr \in HeldSet(x) => x = "mem"
      /\ run["mem"] \in {"alloc", "print"}
  BY DEF NullInv, HeldSet, Members, HeldAt
<1>2. \A x \in TaskModules : \A i \in HeldAt(x)' : held'[x][i] = NullPtr => NullPtr \in HeldSet(x)'
  BY DEF HeldSet, Members, HeldAt
<1> QED
  BY <1>1, <1>2 DEF NullInv

\* What remove_expired takes out has truly been there for too long.
LEMMA RemovedIsOld ==
  ASSUME TaskInv, RemoveEntry
  PROVE  LET w == heap[Current("full")].who IN
         /\ missing'["full"] = missing["full"] \cup {w} /\ w \notin missing["full"]
         /\ \A x \in TaskModules : x # "full" => missing'[x] = missing[x]
         /\ next["full"] \in HeldAt("full") /\ w = Who("full", next["full"])
<1> DEFINE o == Current("full")
           e == heap[Current("full")]
           k == next["full"]
<1>m. TaskTypes /\ NullInv /\ ListedInv /\ ClockInv
  BY DEF TaskInv
<1>0. "full" \in TaskModules /\ "full" \in Lists
  BY ModuleNames
<1>1. k \in HeldAt("full") /\ run["full"] = "remove" /\ o = held["full"][k]
  BY <1>m, <1>0 DEF RemoveEntry, TaskTypes, HeldAt, Current
<1>2. o \in Objects
  BY <1>m, <1>0, <1>1, FreedIsObject
<1>3. e \in [who : Nat, ts : Nat, age : Nat] /\ jiffies \in 0..(W - 1)
  BY <1>m, <1>2 DEF TaskTypes
<1>4. e.who \notin missing["full"] /\ e.who = Who("full", k)
  BY <1>m, <1>0, <1>1 DEF ListedInv, Listed, Who
<1>5. Timed("full", e.who) /\ (jiffies - e.ts) % W > Expiry
  BY DEF RemoveEntry, Expired
<1>6. e.age > Expiry
  <2> SUFFICES ASSUME e.age <= Expiry PROVE FALSE
    BY <1>3, TaskModsAssumption
  <2>1. jiffies - e.ts = e.age \/ jiffies - e.ts = e.age - W
    BY <1>m, <1>1, <1>5 DEF ClockInv, OnClock
  <2> DEFINE a == e.age
             t == e.ts
  <2>2. a \in Nat /\ a <= Expiry /\ (jiffies - t) % W > Expiry
        /\ (jiffies - t = a \/ jiffies - t = a - W)
    BY <1>3, <1>5, <2>1
  <2> HIDE DEF a, t
  <2>3. a \in 0..(W - 1)
    BY <2>2, TaskModsAssumption
  <2>4. (jiffies - t) % W = a
    BY <2>2, <2>3, ClockMod
  <2> QED
    BY <2>2, <2>4, TaskModsAssumption
<1>7. missing' = [missing EXCEPT !["full"] = IF e.age > Expiry THEN missing["full"] \cup {e.who} ELSE missing["full"]]
  BY DEF RemoveEntry
<1> HIDE DEF e
<1>8. missing'["full"] = missing["full"] \cup {e.who}
      /\ \A x \in TaskModules : x # "full" => missing'[x] = missing[x]
  BY <1>m, <1>0, <1>6, <1>7 DEF TaskTypes
<1> QED
  BY <1>1, <1>4, <1>8 DEF e

-----------------------------------------------------------------------------
(* The allocation modules: each part of the invariant is preserved *)

\* The types.
LEMMA TaskTypeStep ==
  ASSUME TaskInv, [TaskNext]_taskVars
  PROVE  TaskTypes'
<1>m. TaskTypes /\ RunInv /\ LenInv /\ CountInv /\ NullInv /\ UsedInv /\ OnceInv /\ ListedInv
  BY DEF TaskInv
<1>n. /\ TaskModules = {"list", "full", "mem", "buf"} /\ Lists = {"list", "full"}
      /\ Len(Ancestors) \in Nat /\ Len(Ancestors) >= 3
  BY ModuleNames
<1>0. UNCHANGED <<run, next, held, heap, jiffies, missing>> => TaskTypes'
  BY DEF TaskInv, TaskTypes
<1>1. ASSUME NEW m \in TaskModules, TaskInsmod(m) PROVE TaskTypes'
  <2>1. jiffies' \in 0..(W - 1)
    BY <1>1, <1>m DEF TaskInsmod, TaskTypes
  <2>2. held' \in [TaskModules -> Seq(Objects \cup {NullPtr})]
    BY <1>1, <1>m DEF TaskInsmod, TaskTypes
  <2>3. run' \in [TaskModules -> {"out", "alloc", "remove", "print", "live", "free", "dead"}]
    BY <1>1, <1>m DEF TaskInsmod, Goes, TaskTypes
  <2> QED
    BY <1>1, <1>m, <2>1, <2>2, <2>3 DEF TaskInsmod, TaskTypes
<1>2. ASSUME NEW m \in TaskModules, task_info_add_for_current(m) PROVE TaskTypes'
  <2>2. m \in {"list", "full", "mem"} /\ NextAlloc(m) /\ m \in TaskModules
    BY <1>2, <1>n DEF task_info_add_for_current
  <2>3. /\ next' \in [TaskModules -> Nat \ {0}]
        /\ run' \in [TaskModules -> {"out", "alloc", "remove", "print", "live", "free", "dead"}]
    BY <1>m, <2>2, NextAllocFacts
  <2>1. /\ held' \in [TaskModules -> Seq(Objects \cup {NullPtr})]
        /\ heap' \in [Objects -> [who : Nat, ts : Nat, age : Nat]]
    BY <1>2, <1>m, AddGrows
  <2> QED
    BY <1>2, <1>m, <2>1, <2>3 DEF task_info_add_for_current, TaskTypes
<1>3. ASSUME NEW m \in TaskModules, NotAdded(m) PROVE TaskTypes'
  <2>2. m \in {"list", "full", "mem"} /\ NextAlloc(m) /\ m \in TaskModules
    BY <1>3, <1>n DEF NotAdded
  <2>3. /\ next' \in [TaskModules -> Nat \ {0}]
        /\ run' \in [TaskModules -> {"out", "alloc", "remove", "print", "live", "free", "dead"}]
    BY <1>m, <2>2, NextAllocFacts
  <2>4. missing' \in [TaskModules -> SUBSET Nat]
    BY <1>3, <1>m DEF NotAdded, TaskTypes
  <2> QED
    BY <1>3, <1>m, <2>3, <2>4 DEF NotAdded, TaskTypes
<1>4. ASSUME NEW m \in TaskModules, ExitList(m) PROVE TaskTypes'
  BY <1>4, <1>m DEF ExitList, Goes, TaskTypes
<1>5. ASSUME NEW m \in TaskModules, FreeFirst(m) PROVE TaskTypes'
  <2>1. /\ held' \in [TaskModules -> Seq(Objects \cup {NullPtr})]
        /\ heap' \in [Objects -> [who : Nat, ts : Nat, age : Nat]]
    BY <1>5, <1>m, FreeShrinks
  <2> QED
    BY <1>5, <1>m, <2>1 DEF FreeFirst, Goes, TaskTypes
<1>6. ASSUME NEW m \in TaskModules, FreeEnds(m) PROVE TaskTypes'
  BY <1>6, <1>m DEF FreeEnds, Goes, TaskTypes
<1>7. CASE RemoveEntry
  <2>1. /\ held' \in [TaskModules -> Seq(Objects \cup {NullPtr})]
        /\ heap' \in [Objects -> [who : Nat, ts : Nat, age : Nat]]
    BY <1>7, <1>m, RemoveShrinks
  <2> DEFINE e == heap[Current("full")]
  <2>2. e.who \in Nat
    <3>1. next["full"] \in HeldAt("full") /\ "full" \in TaskModules
      BY <1>7, <1>m, <1>n DEF RemoveEntry, TaskTypes, HeldAt
    <3>2. Current("full") \in Objects
      BY <1>m, <3>1, FreedIsObject DEF Current
    <3> QED
      BY <1>m, <3>2 DEF TaskTypes
  <2>3. missing' = [missing EXCEPT !["full"] = IF e.age > Expiry THEN missing["full"] \cup {e.who} ELSE missing["full"]]
    BY <1>7, <1>m, <1>n DEF RemoveEntry, TaskTypes
  <2> HIDE DEF e
  <2>4. missing' \in [TaskModules -> SUBSET Nat]
    BY <1>m, <1>n, <2>2, <2>3 DEF TaskTypes
  <2> QED
    BY <1>7, <1>m, <2>1, <2>4 DEF RemoveEntry, TaskTypes
<1>8. CASE KeepEntry
  <2>1. next["full"] + 1 \in Nat \ {0}
    BY <1>m, <1>n DEF TaskTypes
  <2>2. next' = [next EXCEPT !["full"] = next["full"] + 1]
    BY <1>8 DEF KeepEntry
  <2>3. next' \in [TaskModules -> Nat \ {0}]
    BY <1>m, <2>1, <2>2 DEF TaskTypes
  <2> QED
    BY <1>8, <1>m, <2>3 DEF KeepEntry, TaskTypes
<1>9. CASE RemoveEnds
  <2>1. heap' \in [Objects -> [who : Nat, ts : Nat, age : Nat]]
    BY <1>9, <1>m, TimesChange
  <2>2. jiffies' \in 0..(W - 1)
    BY <1>9, TaskModsAssumption DEF RemoveEnds
  <2>3. /\ next' \in [TaskModules -> Nat \ {0}]
        /\ run' \in [TaskModules -> {"out", "alloc", "remove", "print", "live", "free", "dead"}]
    <3>1. next' = [next EXCEPT !["full"] = 1] /\ run' = [run EXCEPT !["full"] = "live"]
      BY <1>9 DEF RemoveEnds
    <3>a. next \in [TaskModules -> Nat \ {0}] /\ next' = [next EXCEPT !["full"] = 1]
      BY <1>m, <3>1 DEF TaskTypes
    <3>2. next' \in [TaskModules -> Nat \ {0}]
      <4> DEFINE one == 1
      <4>1. one \in Nat \ {0} /\ next' = [next EXCEPT !["full"] = one]
        BY <3>a
      <4> HIDE DEF one
      <4> QED
        BY <3>a, <4>1
    <3>3. run' \in [TaskModules -> {"out", "alloc", "remove", "print", "live", "free", "dead"}]
      BY <1>m, <3>1 DEF TaskTypes
    <3> QED
      BY <3>2, <3>3
  <2> QED
    BY <1>9, <1>m, <2>1, <2>2, <2>3 DEF RemoveEnds, TaskTypes
<1>10. CASE MemAlloc
  <2>2. "mem" \in {"list", "full", "mem"} /\ NextAlloc("mem") /\ "mem" \in TaskModules
    BY <1>10, <1>n DEF MemAlloc
  <2>3. /\ next' \in [TaskModules -> Nat \ {0}]
        /\ run' \in [TaskModules -> {"out", "alloc", "remove", "print", "live", "free", "dead"}]
    BY <1>m, <2>2, NextAllocFacts
  <2>1. /\ held' \in [TaskModules -> Seq(Objects \cup {NullPtr})]
        /\ heap' \in [Objects -> [who : Nat, ts : Nat, age : Nat]]
    BY <1>10, <1>m, MemGrows
  <2> QED
    BY <1>10, <1>m, <2>1, <2>3 DEF MemAlloc, TaskTypes
<1>11. CASE MemPrint
  BY <1>11, <1>m DEF MemPrint, TaskTypes
<1>12. CASE MemOops
  <2>1. <<>> \in Seq(Objects \cup {NullPtr})
    OBVIOUS
  <2>2. held' \in [TaskModules -> Seq(Objects \cup {NullPtr})]
    BY <1>12, <1>m, <2>1 DEF MemOops, TaskTypes
  <2>3. run' \in [TaskModules -> {"out", "alloc", "remove", "print", "live", "free", "dead"}]
    BY <1>12, <1>m DEF MemOops, TaskTypes
  <2> QED
    BY <1>12, <1>m, <2>2, <2>3 DEF MemOops, TaskTypes
<1>13. CASE memoryExit
  BY <1>13, <1>m DEF memoryExit, Goes, TaskTypes
<1>14. CASE allocBuff
  <2>1. /\ held' \in [TaskModules -> Seq(Objects \cup {NullPtr})]
        /\ heap' \in [Objects -> [who : Nat, ts : Nat, age : Nat]]
    BY <1>14, <1>m, BufGrows
  <2> QED
    BY <1>14, <1>m, <2>1 DEF allocBuff, Goes, TaskTypes
<1>15. CASE exitKernelAlloc
  <2>1. /\ held' \in [TaskModules -> Seq(Objects \cup {NullPtr})]
        /\ heap' \in [Objects -> [who : Nat, ts : Nat, age : Nat]]
    BY <1>15, <1>m, BufShrinks
  <2> QED
    BY <1>15, <1>m, <2>1 DEF exitKernelAlloc, Goes, TaskTypes
<1>16. CASE Tick
  <2>1. heap' \in [Objects -> [who : Nat, ts : Nat, age : Nat]]
    BY <1>16, <1>m, TimesChange
  <2>2. jiffies' \in 0..(W - 1)
    BY <1>16, <1>m, ClockMod DEF Tick, TaskTypes
  <2> QED
    BY <1>16, <1>m, <2>1, <2>2 DEF Tick, TaskTypes
<1>17. CASE UNCHANGED taskVars
  BY <1>17, <1>0 DEF taskVars
<1> QED
  BY <1>1, <1>2, <1>3, <1>4, <1>5, <1>6, <1>7, <1>8, <1>9, <1>10, <1>11, <1>12, <1>13,
     <1>14, <1>15, <1>16, <1>17 DEF TaskNext

\* A module goes from one place to the next.
LEMMA RunStep ==
  ASSUME TaskInv, [TaskNext]_taskVars
  PROVE  RunInv'
<1>m. TaskTypes /\ RunInv /\ LenInv /\ CountInv /\ NullInv /\ UsedInv /\ OnceInv /\ ListedInv
  BY DEF TaskInv
<1>n. /\ TaskModules = {"list", "full", "mem", "buf"} /\ Lists = {"list", "full"}
      /\ Len(Ancestors) \in Nat /\ Len(Ancestors) >= 3
  BY ModuleNames
<1>0. UNCHANGED <<run, next>> => RunInv'
  BY DEF TaskInv, RunInv
<1>1. ASSUME NEW m \in TaskModules,
              FreeFirst(m)
      PROVE  RunInv'
  BY <1>1, <1>0 DEF FreeFirst
<1>2. CASE RemoveEntry \/ Tick
  BY <1>2, <1>0 DEF RemoveEntry, Tick
<1>3. ASSUME NEW m \in TaskModules, TaskInsmod(m) PROVE RunInv'
  BY <1>3, <1>m, <1>n DEF TaskInsmod, MayLoad, Goes, RunInv, TaskTypes
<1>4. ASSUME NEW m \in TaskModules, task_info_add_for_current(m) PROVE RunInv'
  <2>2. m \in {"list", "full", "mem"} /\ NextAlloc(m) /\ m \in TaskModules
    BY <1>4, <1>n DEF task_info_add_for_current
  <2>3. /\ next' \in [TaskModules -> Nat \ {0}]
        /\ run' \in [TaskModules -> {"out", "alloc", "remove", "print", "live", "free", "dead"}]
    BY <1>m, <2>2, NextAllocFacts
  <2>4. /\ \A x \in TaskModules : x # m => next'[x] = next[x] /\ run'[x] = run[x]
        /\ \/ next[m] < Len(Ancestors) /\ next'[m] = next[m] + 1 /\ run'[m] = run[m]
           \/ /\ next[m] >= Len(Ancestors) /\ next'[m] = 1
              /\ m = "list" => run'[m] = "live"
              /\ m = "full" => run'[m] = "remove"
              /\ m = "mem" => run'[m] = "print"
    BY <1>m, <2>2, NextAllocFacts
  <2>5. run[m] = "alloc" /\ next[m] \in Nat
    BY <1>4, <1>m, <2>2 DEF task_info_add_for_current, TaskTypes
  <2> QED
    BY <1>m, <1>n, <2>2, <2>4, <2>5 DEF RunInv
<1>5. ASSUME NEW m \in TaskModules, NotAdded(m) PROVE RunInv'
  <2>2. m \in {"list", "full", "mem"} /\ NextAlloc(m) /\ m \in TaskModules
    BY <1>5, <1>n DEF NotAdded
  <2>3. /\ next' \in [TaskModules -> Nat \ {0}]
        /\ run' \in [TaskModules -> {"out", "alloc", "remove", "print", "live", "free", "dead"}]
    BY <1>m, <2>2, NextAllocFacts
  <2>4. /\ \A x \in TaskModules : x # m => next'[x] = next[x] /\ run'[x] = run[x]
        /\ \/ next[m] < Len(Ancestors) /\ next'[m] = next[m] + 1 /\ run'[m] = run[m]
           \/ /\ next[m] >= Len(Ancestors) /\ next'[m] = 1
              /\ m = "list" => run'[m] = "live"
              /\ m = "full" => run'[m] = "remove"
              /\ m = "mem" => run'[m] = "print"
    BY <1>m, <2>2, NextAllocFacts
  <2>5. run[m] = "alloc" /\ next[m] \in Nat
    BY <1>5, <1>m, <2>2 DEF NotAdded, TaskTypes
  <2> QED
    BY <1>m, <1>n, <2>2, <2>4, <2>5 DEF RunInv
<1>6. ASSUME NEW m \in TaskModules, ExitList(m) PROVE RunInv'
  BY <1>6, <1>m, <1>n DEF ExitList, Goes, RunInv, TaskTypes
<1>7. ASSUME NEW m \in TaskModules, FreeEnds(m) PROVE RunInv'
  BY <1>7, <1>m, <1>n DEF FreeEnds, Goes, RunInv, TaskTypes
<1>8. CASE KeepEntry
  BY <1>8, <1>m, <1>n DEF KeepEntry, RunInv, TaskTypes
<1>9. CASE RemoveEnds
  BY <1>9, <1>m, <1>n DEF RemoveEnds, RunInv, TaskTypes
<1>10. CASE MemAlloc
  <2>2. "mem" \in {"list", "full", "mem"} /\ NextAlloc("mem") /\ "mem" \in TaskModules
    BY <1>10, <1>n DEF MemAlloc
  <2>3. /\ next' \in [TaskModules -> Nat \ {0}]
        /\ run' \in [TaskModules -> {"out", "alloc", "remove", "print", "live", "free", "dead"}]
    BY <1>m, <2>2, NextAllocFacts
  <2>4. /\ \A x \in TaskModules : x # "mem" => next'[x] = next[x] /\ run'[x] = run[x]
        /\ \/ next["mem"] < Len(Ancestors) /\ next'["mem"] = next["mem"] + 1 /\ run'["mem"] = run["mem"]
           \/ /\ next["mem"] >= Len(Ancestors) /\ next'["mem"] = 1
              /\ "mem" = "list" => run'["mem"] = "live"
              /\ "mem" = "full" => run'["mem"] = "remove"
              /\ "mem" = "mem" => run'["mem"] = "print"
    BY <1>m, <2>2, NextAllocFacts
  <2>5. run["mem"] = "alloc" /\ next["mem"] \in Nat
    BY <1>10, <1>m, <2>2 DEF MemAlloc, TaskTypes
  <2> QED
    BY <1>m, <1>n, <2>2, <2>4, <2>5 DEF RunInv
<1>11. CASE MemPrint
  BY <1>11, <1>m, <1>n DEF MemPrint, RunInv, TaskTypes
<1>12. CASE MemOops
  BY <1>12, <1>m, <1>n DEF MemOops, RunInv, TaskTypes
<1>13. CASE memoryExit
  BY <1>13, <1>m, <1>n DEF memoryExit, Goes, RunInv, TaskTypes
<1>14. CASE allocBuff
  BY <1>14, <1>m, <1>n DEF allocBuff, MayLoad, Goes, RunInv, TaskTypes
<1>15. CASE exitKernelAlloc
  BY <1>15, <1>m, <1>n DEF exitKernelAlloc, Goes, RunInv, TaskTypes
<1>16. CASE UNCHANGED taskVars
  BY <1>16, <1>0 DEF taskVars
<1> QED
  BY <1>1, <1>2, <1>3, <1>4, <1>5, <1>6, <1>7, <1>8, <1>9, <1>10, <1>11, <1>12, <1>13,
     <1>14, <1>15, <1>16 DEF TaskNext

\* What a module holds.
LEMMA LenStep ==
  ASSUME TaskInv, [TaskNext]_taskVars
  PROVE  LenInv'
<1>m. TaskTypes /\ RunInv /\ LenInv /\ CountInv /\ NullInv /\ UsedInv /\ OnceInv /\ ListedInv
  BY DEF TaskInv
<1>n. /\ TaskModules = {"list", "full", "mem", "buf"} /\ Lists = {"list", "full"}
      /\ Len(Ancestors) \in Nat /\ Len(Ancestors) >= 3
  BY ModuleNames
<1>0. UNCHANGED <<run, next, held>> => LenInv'
  BY DEF TaskInv, LenInv
<1>1. CASE Tick
  BY <1>1, <1>0 DEF Tick
<1>2. ASSUME NEW m \in TaskModules, TaskInsmod(m) PROVE LenInv'
  <2>1. held' = held
    BY <1>2, <1>m DEF TaskInsmod, MayLoad, TaskTypes, LenInv
  <2> QED
    BY <1>2, <1>m, <1>n, <2>1 DEF TaskInsmod, Goes, MayLoad, TaskTypes, LenInv, RunInv
<1>3. ASSUME NEW m \in TaskModules, task_info_add_for_current(m) PROVE LenInv'
  <2>1. Len(held'[m]) = Len(held[m]) + 1 /\ \A x \in TaskModules : x # m => held'[x] = held[x]
    BY <1>3, <1>m, AddGrows DEF Grows, GrowsNull, Inserted, OthersHold
  <2>0. Len(held[m]) \in Nat /\ m \in TaskModules
    BY <1>m, <1>n DEF TaskTypes
  <2>2. m \in {"list", "full", "mem"} /\ NextAlloc(m) /\ m \in TaskModules
    BY <1>3, <1>n DEF task_info_add_for_current
  <2>3. /\ next' \in [TaskModules -> Nat \ {0}]
        /\ run' \in [TaskModules -> {"out", "alloc", "remove", "print", "live", "free", "dead"}]
    BY <1>m, <2>2, NextAllocFacts
  <2>4. /\ \A x \in TaskModules : x # m => next'[x] = next[x] /\ run'[x] = run[x]
        /\ \/ next[m] < Len(Ancestors) /\ next'[m] = next[m] + 1 /\ run'[m] = run[m]
           \/ /\ next[m] >= Len(Ancestors) /\ next'[m] = 1
              /\ m = "list" => run'[m] = "live"
              /\ m = "full" => run'[m] = "remove"
              /\ m = "mem" => run'[m] = "print"
    BY <1>m, <2>2, NextAllocFacts
  <2>5. run[m] = "alloc" /\ next[m] \in Nat
    BY <1>3, <1>m, <2>2 DEF task_info_add_for_current, TaskTypes
  <2>6. m \in Lists /\ IsFiniteSet(missing[m])
        /\ Len(held[m]) + Cardinality(missing[m]) + 1 = next[m]
    BY <1>3, <1>m, <2>5 DEF task_info_add_for_current, CountInv
  <2>7. Cardinality(missing[m]) \in Nat /\ next[m] <= Len(Ancestors)
    BY <1>m, <2>0, <2>5, <2>6, FS_CardinalityType DEF RunInv
  <2>8. Len(held'[m]) <= Len(Ancestors)
    BY <1>n, <2>0, <2>1, <2>6, <2>7
  <2>9. m # "mem" /\ m # "buf" /\ run'[m] \notin {"out", "dead"}
    BY <1>n, <2>4, <2>5, <2>6
  <2> QED
    BY <1>m, <1>n, <2>1, <2>4, <2>8, <2>9 DEF LenInv
<1>4. ASSUME NEW m \in TaskModules, NotAdded(m) PROVE LenInv'
  <2>2. m \in {"list", "full", "mem"} /\ NextAlloc(m) /\ m \in TaskModules
    BY <1>4, <1>n DEF NotAdded
  <2>3. /\ next' \in [TaskModules -> Nat \ {0}]
        /\ run' \in [TaskModules -> {"out", "alloc", "remove", "print", "live", "free", "dead"}]
    BY <1>m, <2>2, NextAllocFacts
  <2>4. /\ \A x \in TaskModules : x # m => next'[x] = next[x] /\ run'[x] = run[x]
        /\ \/ next[m] < Len(Ancestors) /\ next'[m] = next[m] + 1 /\ run'[m] = run[m]
           \/ /\ next[m] >= Len(Ancestors) /\ next'[m] = 1
              /\ m = "list" => run'[m] = "live"
              /\ m = "full" => run'[m] = "remove"
              /\ m = "mem" => run'[m] = "print"
    BY <1>m, <2>2, NextAllocFacts
  <2>5. run[m] = "alloc" /\ next[m] \in Nat
    BY <1>4, <1>m, <2>2 DEF NotAdded, TaskTypes
  <2>6. m # "mem" /\ m # "buf" /\ run'[m] \notin {"out", "dead"} /\ held' = held
    BY <1>4, <1>n, <2>4, <2>5 DEF NotAdded
  <2> QED
    BY <1>m, <1>n, <2>4, <2>6 DEF LenInv
<1>5. ASSUME NEW m \in TaskModules, ExitList(m) PROVE LenInv'
  BY <1>5, <1>m, <1>n DEF ExitList, Goes, TaskTypes, LenInv, RunInv
<1>6. ASSUME NEW m \in TaskModules, FreeFirst(m) PROVE LenInv'
  <2>1. Len(held[m]) = Len(held'[m]) + 1 /\ \A x \in TaskModules : x # m => held'[x] = held[x]
    BY <1>6, <1>m, FreeShrinks DEF Shrinks, Inserted, OthersHold
  <2>0. Len(held'[m]) \in Nat /\ m \in TaskModules
    BY TaskTypeStep, <1>n DEF TaskTypes
  <2>2. run[m] = "free" /\ run' = run /\ next' = next
    BY <1>6 DEF FreeFirst
  <2>3. Len(held'[m]) <= Len(Ancestors)
    BY <1>m, <1>n, <2>0, <2>1 DEF LenInv
  <2>4. m # "buf"
    BY <1>m, <2>2 DEF RunInv
  <2> QED
    BY <1>m, <1>n, <2>1, <2>2, <2>3, <2>4 DEF LenInv
<1>7. ASSUME NEW m \in TaskModules, FreeEnds(m) PROVE LenInv'
  BY <1>7, <1>m, <1>n DEF FreeEnds, Goes, LenInv, TaskTypes
<1>8. CASE RemoveEntry
  <2>1. Len(held["full"]) = Len(held'["full"]) + 1
        /\ \A x \in TaskModules : x # "full" => held'[x] = held[x]
    BY <1>8, <1>m, RemoveShrinks DEF Shrinks, Inserted, OthersHold
  <2>0. Len(held'["full"]) \in Nat /\ "full" \in TaskModules
    BY TaskTypeStep, <1>n DEF TaskTypes
  <2>2. run["full"] = "remove" /\ run' = run /\ next' = next
    BY <1>8 DEF RemoveEntry
  <2>3. Len(held'["full"]) <= Len(Ancestors)
    BY <1>m, <1>n, <2>0, <2>1 DEF LenInv
  <2> QED
    BY <1>m, <1>n, <2>1, <2>2, <2>3 DEF LenInv
<1>9. CASE KeepEntry
  BY <1>9, <1>m, <1>n DEF KeepEntry, TaskTypes, LenInv, RunInv
<1>10. CASE RemoveEnds
  BY <1>10, <1>m, <1>n DEF RemoveEnds, TaskTypes, LenInv, RunInv
<1>11. CASE MemAlloc
  <2>1. Len(held'["mem"]) = Len(held["mem"]) + 1
        /\ \A x \in TaskModules : x # "mem" => held'[x] = held[x]
    BY <1>11, <1>m, MemGrows DEF Grows, GrowsNull, Inserted, OthersHold
  <2>0. Len(held["mem"]) \in Nat /\ "mem" \in TaskModules
    BY <1>m, <1>n DEF TaskTypes
  <2>2. "mem" \in {"list", "full", "mem"} /\ NextAlloc("mem") /\ "mem" \in TaskModules
    BY <1>11, <1>n DEF MemAlloc
  <2>3. /\ next' \in [TaskModules -> Nat \ {0}]
        /\ run' \in [TaskModules -> {"out", "alloc", "remove", "print", "live", "free", "dead"}]
    BY <1>m, <2>2, NextAllocFacts
  <2>4. /\ \A x \in TaskModules : x # "mem" => next'[x] = next[x] /\ run'[x] = run[x]
        /\ \/ next["mem"] < Len(Ancestors) /\ next'["mem"] = next["mem"] + 1 /\ run'["mem"] = run["mem"]
           \/ /\ next["mem"] >= Len(Ancestors) /\ next'["mem"] = 1
              /\ "mem" = "list" => run'["mem"] = "live"
              /\ "mem" = "full" => run'["mem"] = "remove"
              /\ "mem" = "mem" => run'["mem"] = "print"
    BY <1>m, <2>2, NextAllocFacts
  <2>5. run["mem"] = "alloc" /\ next["mem"] \in Nat
    BY <1>11, <1>m, <2>2 DEF MemAlloc, TaskTypes
  <2>6. Len(held["mem"]) + 1 = next["mem"] /\ next["mem"] <= Len(Ancestors)
    BY <1>m, <2>0, <2>5 DEF LenInv, RunInv
  <2>7. Len(held'["mem"]) <= Len(Ancestors)
    BY <1>n, <2>0, <2>1, <2>6
  <2>8. run'["mem"] = "alloc" => Len(held'["mem"]) + 1 = next'["mem"]
    BY <2>0, <2>1, <2>4, <2>5, <2>6
  <2>9. run'["mem"] = "print" => Len(held'["mem"]) = Len(Ancestors)
    BY <1>n, <2>0, <2>1, <2>4, <2>5, <2>6
  <2>10. run'["mem"] \in {"alloc", "print"}
    BY <2>4, <2>5
  <2> QED
    BY <1>m, <1>n, <2>1, <2>4, <2>7, <2>8, <2>9, <2>10 DEF LenInv
<1>12. CASE MemPrint
  BY <1>12, <1>m, <1>n DEF MemPrint, LenInv, TaskTypes
<1>13. CASE MemOops
  <2>1. /\ held'["mem"] = <<>> /\ run'["mem"] = "dead" /\ next' = next
        /\ \A x \in TaskModules : x # "mem" => run'[x] = run[x] /\ held'[x] = held[x]
    BY <1>13, <1>m, <1>n DEF MemOops, TaskTypes
  <2> QED
    BY <1>m, <1>n, <2>1 DEF LenInv
<1>14. CASE memoryExit
  BY <1>14, <1>m, <1>n DEF memoryExit, Goes, LenInv, TaskTypes
<1>15. CASE allocBuff
  <2>1. Len(held'["buf"]) = Len(held["buf"]) + 1
        /\ \A x \in TaskModules : x # "buf" => held'[x] = held[x]
    BY <1>15, <1>m, BufGrows DEF Grows, GrowsNull, Inserted, OthersHold
  <2>0. Len(held["buf"]) \in Nat /\ "buf" \in TaskModules
    BY <1>m, <1>n DEF TaskTypes
  <2>2. run["buf"] = "out" /\ run'["buf"] = "live" /\ next' = next
        /\ \A x \in TaskModules : x # "buf" => run'[x] = run[x]
    BY <1>15, <1>m, <1>n DEF allocBuff, MayLoad, Goes, TaskTypes
  <2>3. Len(held'["buf"]) = 1
    BY <1>m, <2>0, <2>1, <2>2 DEF LenInv
  <2>4. ASSUME NEW x \in TaskModules
        PROVE  Len(held'[x]) <= Len(Ancestors)
               /\ (run'[x] \in {"out", "dead"} => held'[x] = <<>>)
    <3>1. CASE x = "buf"
      <4>1. Len(held'["buf"]) <= Len(Ancestors)
        <5>1. Len(Ancestors) \in Nat /\ Len(Ancestors) >= 3
          BY <1>n
        <5> DEFINE g == Len(held'["buf"])
        <5>2. g = 1
          BY <2>3
        <5> HIDE DEF g
        <5>3. g <= Len(Ancestors)
          BY <5>1, <5>2
        <5> QED
          BY <5>3 DEF g
      <4>2. run'[x] \notin {"out", "dead"}
        BY <2>2, <3>1
      <4> QED
        BY <3>1, <4>1, <4>2
    <3>2. CASE x # "buf"
      BY <1>m, <2>1, <2>2, <3>2 DEF LenInv
    <3> QED
      BY <3>1, <3>2
  <2> QED
    BY <1>m, <1>n, <2>1, <2>2, <2>3, <2>4 DEF LenInv
<1>16. CASE exitKernelAlloc
  <2>1. /\ held'["buf"] = <<>> /\ run'["buf"] = "out" /\ next' = next
        /\ \A x \in TaskModules : x # "buf" => run'[x] = run[x] /\ held'[x] = held[x]
    BY <1>16, <1>m, <1>n DEF exitKernelAlloc, Goes, TaskTypes
  <2> QED
    BY <1>m, <1>n, <2>1 DEF LenInv
<1>17. CASE UNCHANGED taskVars
  BY <1>17, <1>0 DEF taskVars
<1> QED
  BY <1>1, <1>2, <1>3, <1>4, <1>5, <1>6, <1>7, <1>8, <1>9, <1>10, <1>11, <1>12, <1>13,
     <1>14, <1>15, <1>16, <1>17 DEF TaskNext

\* The entries and the missing ones together.
LEMMA CountStep ==
  ASSUME TaskInv, [TaskNext]_taskVars
  PROVE  CountInv'
<1>m. TaskTypes /\ RunInv /\ LenInv /\ CountInv /\ NullInv /\ UsedInv /\ OnceInv /\ ListedInv
  BY DEF TaskInv
<1>n. /\ TaskModules = {"list", "full", "mem", "buf"} /\ Lists = {"list", "full"}
      /\ Len(Ancestors) \in Nat /\ Len(Ancestors) >= 3
  BY ModuleNames
<1>k. \A x \in Lists : IsFiniteSet(missing[x]) /\ Cardinality(missing[x]) \in Nat
      /\ Len(held[x]) \in Nat /\ next[x] \in Nat
  BY <1>m, <1>n, FS_CardinalityType DEF CountInv, TaskTypes
<1>e. Cardinality({}) = 0 /\ IsFiniteSet({})
  BY FS_EmptySet
<1>0. UNCHANGED <<run, next, held, missing>> => CountInv'
  BY DEF TaskInv, CountInv
<1>1. CASE Tick
  BY <1>1, <1>0 DEF Tick
<1>2. ASSUME NEW m \in TaskModules, TaskInsmod(m) PROVE CountInv'
  <2>1. held' = held
    BY <1>2, <1>m DEF TaskInsmod, MayLoad, TaskTypes, LenInv
  <2>2. run[m] = "out" /\ held[m] = <<>> /\ next[m] = 1 /\ m \notin {"buf"}
    BY <1>2, <1>m DEF TaskInsmod, MayLoad, LenInv, RunInv
  <2>3. /\ run'[m] = "alloc" /\ next' = next /\ missing' = missing
        /\ \A x \in TaskModules : x # m => run'[x] = run[x]
    BY <1>2, <1>m DEF TaskInsmod, Goes, TaskTypes
  <2>4. m \in Lists => missing[m] = {} /\ Len(held[m]) + Cardinality(missing[m]) + 1 = next[m]
    <3>1. m \in Lists => missing[m] = {}
      BY <1>m, <2>2 DEF CountInv
    <3>2. Len(held[m]) = 0 /\ next[m] = 1
      BY <2>2
    <3> DEFINE c == Cardinality({})
               h == Len(held[m])
    <3>3. c = 0 /\ h = 0 /\ h + c + 1 = next[m]
      <4>1. c = 0 /\ h = 0
        BY <1>e, <3>2
      <4> HIDE DEF c, h
      <4> QED
        BY <3>2, <4>1
    <3> QED
      BY <3>1, <3>3
  <2> QED
    BY <1>m, <1>n, <2>1, <2>3, <2>4 DEF CountInv
<1>3. ASSUME NEW m \in TaskModules, task_info_add_for_current(m) PROVE CountInv'
  <2>1. Len(held'[m]) = Len(held[m]) + 1 /\ \A x \in TaskModules : x # m => held'[x] = held[x]
    BY <1>3, <1>m, AddGrows DEF Grows, GrowsNull, Inserted, OthersHold
  <2>0. Len(held[m]) \in Nat /\ m \in TaskModules
    BY <1>m, <1>n DEF TaskTypes
  <2>2. m \in {"list", "full", "mem"} /\ NextAlloc(m) /\ m \in TaskModules
    BY <1>3, <1>n DEF task_info_add_for_current
  <2>3. /\ next' \in [TaskModules -> Nat \ {0}]
        /\ run' \in [TaskModules -> {"out", "alloc", "remove", "print", "live", "free", "dead"}]
    BY <1>m, <2>2, NextAllocFacts
  <2>4. /\ \A x \in TaskModules : x # m => next'[x] = next[x] /\ run'[x] = run[x]
        /\ \/ next[m] < Len(Ancestors) /\ next'[m] = next[m] + 1 /\ run'[m] = run[m]
           \/ /\ next[m] >= Len(Ancestors) /\ next'[m] = 1
              /\ m = "list" => run'[m] = "live"
              /\ m = "full" => run'[m] = "remove"
              /\ m = "mem" => run'[m] = "print"
    BY <1>m, <2>2, NextAllocFacts
  <2>5. run[m] = "alloc" /\ next[m] \in Nat
    BY <1>3, <1>m, <2>2 DEF task_info_add_for_current, TaskTypes
  <2>6. m \in Lists /\ missing' = missing
        /\ Len(held[m]) + Cardinality(missing[m]) + 1 = next[m]
    BY <1>3, <1>m, <2>5 DEF task_info_add_for_current, CountInv
  <2>7. next[m] <= Len(Ancestors)
    BY <1>m, <2>0, <2>5 DEF RunInv
  <2> DEFINE c == Cardinality(missing[m])
             h == Len(held[m])
             g == Len(held'[m])
             N == Len(Ancestors)
  <2>a. c \in Nat /\ h \in Nat /\ g = h + 1 /\ h + c + 1 = next[m]
    BY <1>k, <2>1, <2>6
  <2>b. run'[m] = "alloc" => next'[m] = next[m] + 1
    BY <1>n, <2>4, <2>6
  <2>d. run'[m] # "alloc" => next[m] = N
    BY <1>n, <2>4, <2>5, <2>7
  <2> HIDE DEF c, h, g, N
  <2>e. next[m] + 1 = g + c + 1 /\ (next[m] = N => g + c = N)
    BY <2>a
  <2>8. run'[m] = "alloc" => Len(held'[m]) + Cardinality(missing[m]) + 1 = next'[m]
    BY <2>b, <2>e DEF c, g
  <2>9. run'[m] # "alloc" => Len(held'[m]) + Cardinality(missing[m]) = Len(Ancestors)
    BY <2>d, <2>e DEF c, g, N
  <2>10. run'[m] \in {"alloc", "remove", "live"}
    BY <1>n, <2>4, <2>5, <2>6
  <2> QED
    BY <1>m, <1>n, <2>1, <2>4, <2>6, <2>8, <2>9, <2>10 DEF CountInv
<1>4. ASSUME NEW m \in TaskModules, NotAdded(m) PROVE CountInv'
  <2>2. m \in {"list", "full", "mem"} /\ NextAlloc(m) /\ m \in TaskModules
    BY <1>4, <1>n DEF NotAdded
  <2>3. /\ next' \in [TaskModules -> Nat \ {0}]
        /\ run' \in [TaskModules -> {"out", "alloc", "remove", "print", "live", "free", "dead"}]
    BY <1>m, <2>2, NextAllocFacts
  <2>4. /\ \A x \in TaskModules : x # m => next'[x] = next[x] /\ run'[x] = run[x]
        /\ \/ next[m] < Len(Ancestors) /\ next'[m] = next[m] + 1 /\ run'[m] = run[m]
           \/ /\ next[m] >= Len(Ancestors) /\ next'[m] = 1
              /\ m = "list" => run'[m] = "live"
              /\ m = "full" => run'[m] = "remove"
              /\ m = "mem" => run'[m] = "print"
    BY <1>m, <2>2, NextAllocFacts
  <2>5. run[m] = "alloc" /\ next[m] \in Nat
    BY <1>4, <1>m, <2>2 DEF NotAdded, TaskTypes
  <2>6. m \in Lists /\ held' = held /\ Len(held[m]) + Cardinality(missing[m]) + 1 = next[m]
    BY <1>4, <1>m, <2>5 DEF NotAdded, CountInv
  <2>7. next[m] <= Len(Ancestors)
    BY <1>m, <2>2, <2>5 DEF RunInv
  <2>8. missing'[m] = missing[m] \cup {next[m]}
        /\ \A x \in TaskModules : x # m => missing'[x] = missing[x]
    BY <1>4, <1>m DEF NotAdded, TaskTypes
  <2>9. next[m] \notin missing[m]
    BY <1>m, <2>5, <2>6 DEF ListedInv, Listed, Reached
  <2>10. IsFiniteSet(missing'[m]) /\ Cardinality(missing'[m]) = Cardinality(missing[m]) + 1
    <3>1. IsFiniteSet(missing[m])
      BY <1>k, <2>6
    <3>2. /\ IsFiniteSet(missing[m] \cup {next[m]})
          /\ Cardinality(missing[m] \cup {next[m]}) = Cardinality(missing[m]) + 1
      BY <2>9, <3>1, FS_AddElement
    <3> QED
      BY <2>8, <3>2
  <2> DEFINE c == Cardinality(missing[m])
             d == Cardinality(missing'[m])
             h == Len(held[m])
             N == Len(Ancestors)
  <2>a. c \in Nat /\ h \in Nat /\ d = c + 1 /\ h + c + 1 = next[m] /\ Len(held'[m]) = h
    BY <1>k, <2>6, <2>10
  <2>b. run'[m] = "alloc" => next'[m] = next[m] + 1
    BY <1>n, <2>4, <2>6
  <2>d. run'[m] # "alloc" => next[m] = N
    BY <1>n, <2>4, <2>5, <2>7
  <2> HIDE DEF c, d, h, N
  <2>e. next[m] + 1 = h + d + 1 /\ (next[m] = N => h + d = N)
    BY <2>a
  <2>11. run'[m] = "alloc" => Len(held'[m]) + Cardinality(missing'[m]) + 1 = next'[m]
    BY <2>a, <2>b, <2>e DEF d
  <2>12. run'[m] # "alloc" => Len(held'[m]) + Cardinality(missing'[m]) = Len(Ancestors)
    BY <2>a, <2>d, <2>e DEF d, N
  <2>13. run'[m] \in {"alloc", "remove", "live"}
    BY <1>n, <2>4, <2>5, <2>6
  <2> QED
    <3>1. \A x \in Lists : x # m => /\ missing'[x] = missing[x] /\ run'[x] = run[x] /\ next'[x] = next[x]
                                    /\ held'[x] = held[x]
      BY <1>n, <2>4, <2>6, <2>8
    <3>2. IsFiniteSet(missing'[m])
      BY <2>10
    <3> QED
      BY <1>m, <2>11, <2>12, <2>13, <3>1, <3>2 DEF CountInv
<1>5. ASSUME NEW m \in TaskModules, ExitList(m) PROVE CountInv'
  BY <1>5, <1>m, <1>n DEF ExitList, Goes, MayLoad, TaskTypes, CountInv, RunInv
<1>6. ASSUME NEW m \in TaskModules, FreeFirst(m) PROVE CountInv'
  <2>1. Len(held[m]) = Len(held'[m]) + 1 /\ \A x \in TaskModules : x # m => held'[x] = held[x]
    BY <1>6, <1>m, FreeShrinks DEF Shrinks, Inserted, OthersHold
  <2>0. Len(held'[m]) \in Nat /\ m \in TaskModules
    BY TaskTypeStep, <1>n DEF TaskTypes
  <2>2. run[m] = "free" /\ run' = run /\ next' = next /\ missing' = missing
    BY <1>6 DEF FreeFirst
  <2> QED
    BY <1>m, <1>n, <2>1, <2>2 DEF CountInv
<1>7. ASSUME NEW m \in TaskModules, FreeEnds(m) PROVE CountInv'
  <2>1. /\ held' = held /\ next' = next /\ missing'[m] = {} /\ run'[m] \in {"out", "live"}
        /\ m # "mem" => run'[m] = "out"
        /\ \A x \in TaskModules : x # m => missing'[x] = missing[x] /\ run'[x] = run[x]
    BY <1>7, <1>m DEF FreeEnds, Goes, TaskTypes
  <2> QED
    BY <1>m, <1>n, <1>e, <2>1 DEF CountInv
<1>8. CASE RemoveEntry
  <2>1. Len(held["full"]) = Len(held'["full"]) + 1
        /\ \A x \in TaskModules : x # "full" => held'[x] = held[x]
    BY <1>8, <1>m, RemoveShrinks DEF Shrinks, Inserted, OthersHold
  <2>0. Len(held'["full"]) \in Nat /\ "full" \in TaskModules
    BY TaskTypeStep, <1>n DEF TaskTypes
  <2>2. run["full"] = "remove" /\ run' = run /\ next' = next
    BY <1>8 DEF RemoveEntry
  <2> DEFINE w == heap[Current("full")].who
  <2>3. missing'["full"] = missing["full"] \cup {w}
        /\ \A x \in TaskModules : x # "full" => missing'[x] = missing[x]
    BY <1>8, RemovedIsOld
  <2>4. w \notin missing["full"]
    BY <1>8, RemovedIsOld
  <2> HIDE DEF w
  <2>5. IsFiniteSet(missing'["full"])
        /\ Cardinality(missing'["full"]) = Cardinality(missing["full"]) + 1
    BY <1>n, <1>k, <2>3, <2>4, FS_AddElement
  <2>6. Len(held["full"]) + Cardinality(missing["full"]) = Len(Ancestors)
    BY <1>m, <1>n, <2>2 DEF CountInv
  <2>7. Len(held'["full"]) + Cardinality(missing'["full"]) = Len(Ancestors)
    BY <1>n, <1>k, <2>0, <2>1, <2>5, <2>6
  <2> QED
    BY <1>m, <1>n, <2>1, <2>2, <2>3, <2>5, <2>7 DEF CountInv
<1>9. CASE KeepEntry
  BY <1>9, <1>m, <1>n DEF KeepEntry, Goes, MayLoad, TaskTypes, CountInv, RunInv
<1>10. CASE RemoveEnds
  BY <1>10, <1>m, <1>n DEF RemoveEnds, Goes, MayLoad, TaskTypes, CountInv, RunInv
<1>11. CASE MemAlloc
  <2>1. Len(held'["mem"]) = Len(held["mem"]) + 1
        /\ \A x \in TaskModules : x # "mem" => held'[x] = held[x]
    BY <1>11, <1>m, MemGrows DEF Grows, GrowsNull, Inserted, OthersHold
  <2>0. Len(held["mem"]) \in Nat /\ "mem" \in TaskModules
    BY <1>m, <1>n DEF TaskTypes
  <2>2. "mem" \in {"list", "full", "mem"} /\ NextAlloc("mem") /\ "mem" \in TaskModules
    BY <1>11, <1>n DEF MemAlloc
  <2>3. /\ next' \in [TaskModules -> Nat \ {0}]
        /\ run' \in [TaskModules -> {"out", "alloc", "remove", "print", "live", "free", "dead"}]
    BY <1>m, <2>2, NextAllocFacts
  <2>4. /\ \A x \in TaskModules : x # "mem" => next'[x] = next[x] /\ run'[x] = run[x]
        /\ \/ next["mem"] < Len(Ancestors) /\ next'["mem"] = next["mem"] + 1 /\ run'["mem"] = run["mem"]
           \/ /\ next["mem"] >= Len(Ancestors) /\ next'["mem"] = 1
              /\ "mem" = "list" => run'["mem"] = "live"
              /\ "mem" = "full" => run'["mem"] = "remove"
              /\ "mem" = "mem" => run'["mem"] = "print"
    BY <1>m, <2>2, NextAllocFacts
  <2>5. run["mem"] = "alloc" /\ next["mem"] \in Nat
    BY <1>11, <1>m, <2>2 DEF MemAlloc, TaskTypes
  <2>6. missing' = missing
    BY <1>11 DEF MemAlloc
  <2> QED
    BY <1>m, <1>n, <2>1, <2>4, <2>6 DEF CountInv
<1>12. CASE MemPrint
  BY <1>12, <1>m, <1>n DEF MemPrint, Goes, MayLoad, TaskTypes, CountInv, RunInv
<1>13. CASE MemOops
  <2>1. /\ next' = next /\ missing' = missing
        /\ \A x \in TaskModules : x # "mem" => run'[x] = run[x] /\ held'[x] = held[x]
    BY <1>13, <1>m, <1>n DEF MemOops, TaskTypes
  <2> QED
    BY <1>m, <1>n, <2>1 DEF CountInv
<1>14. CASE memoryExit
  BY <1>14, <1>m, <1>n DEF memoryExit, Goes, MayLoad, TaskTypes, CountInv, RunInv
<1>15. CASE allocBuff
  <2>1. Len(held'["buf"]) = Len(held["buf"]) + 1
        /\ \A x \in TaskModules : x # "buf" => held'[x] = held[x]
    BY <1>15, <1>m, BufGrows DEF Grows, GrowsNull, Inserted, OthersHold
  <2>0. Len(held["buf"]) \in Nat /\ "buf" \in TaskModules
    BY <1>m, <1>n DEF TaskTypes
  <2>2. missing' = missing /\ next' = next
        /\ \A x \in TaskModules : x # "buf" => run'[x] = run[x]
    BY <1>15, <1>m, <1>n DEF allocBuff, MayLoad, Goes, TaskTypes
  <2> QED
    BY <1>m, <1>n, <2>1, <2>2 DEF CountInv
<1>16. CASE exitKernelAlloc
  <2>1. /\ next' = next /\ missing' = missing
        /\ \A x \in TaskModules : x # "buf" => run'[x] = run[x] /\ held'[x] = held[x]
    BY <1>16, <1>m, <1>n DEF exitKernelAlloc, Goes, TaskTypes
  <2> QED
    BY <1>m, <1>n, <2>1 DEF CountInv
<1>17. CASE UNCHANGED taskVars
  BY <1>17, <1>0 DEF taskVars
<1> QED
  BY <1>1, <1>2, <1>3, <1>4, <1>5, <1>6, <1>7, <1>8, <1>9, <1>10, <1>11, <1>12, <1>13,
     <1>14, <1>15, <1>16, <1>17 DEF TaskNext

\* memoryInit has no NULL behind its check.
LEMMA NullStep ==
  ASSUME TaskInv, [TaskNext]_taskVars
  PROVE  NullInv'
<1>m. TaskTypes /\ RunInv /\ LenInv /\ CountInv /\ NullInv /\ UsedInv /\ OnceInv /\ ListedInv
  BY DEF TaskInv
<1>n. /\ TaskModules = {"list", "full", "mem", "buf"} /\ Lists = {"list", "full"}
      /\ Len(Ancestors) \in Nat /\ Len(Ancestors) >= 3
  BY ModuleNames
<1>t. TaskTypes'
  BY TaskTypeStep
<1>0. UNCHANGED <<run, held>> => NullInv'
  BY DEF TaskInv, NullInv, HeldAt
<1>1. CASE KeepEntry \/ Tick
  BY <1>1, <1>0 DEF KeepEntry, Tick
<1>2. ASSUME NEW m \in TaskModules, TaskInsmod(m) PROVE NullInv'
  <2>1. held' = held
    BY <1>2, <1>m DEF TaskInsmod, MayLoad, TaskTypes, LenInv
  <2>2. run["mem"] \in {"alloc", "print"} => run'["mem"] = run["mem"]
    BY <1>2, <1>m, <1>n DEF TaskInsmod, MayLoad, Goes, TaskTypes
  <2> QED
    BY <1>m, <2>1, <2>2 DEF NullInv, HeldAt
<1>3. ASSUME NEW m \in TaskModules, task_info_add_for_current(m) PROVE NullInv'
  <2>1. PICK o \in Objects : Grows(m, 1, o)
    BY <1>3, <1>m, AddGrows
  <2>2. HeldSet(m)' = HeldSet(m) \cup {o}
        /\ \A x \in TaskModules : x # m => HeldSet(x)' = HeldSet(x)
    BY <1>m, <2>1, GrowsSet DEF HoldInv
  <2>3. m # "mem" /\ m \in Lists /\ o # NullPtr
    BY <1>3, <1>n, <2>1, ModuleNames DEF task_info_add_for_current
  <2>4. run'["mem"] = run["mem"]
    BY <1>3, <1>m, <1>n, <2>3, NextAllocFacts DEF task_info_add_for_current
  <2> QED
    BY <1>m, <2>2, <2>3, <2>4, NullSets
<1>4. ASSUME NEW m \in TaskModules, NotAdded(m) PROVE NullInv'
  <2>1. held' = held /\ run'["mem"] = run["mem"]
    BY <1>4, <1>m, <1>n, NextAllocFacts DEF NotAdded
  <2> QED
    BY <1>m, <2>1 DEF NullInv, HeldAt
<1>5. ASSUME NEW m \in TaskModules, ExitList(m) PROVE NullInv'
  <2>1. held' = held /\ (run["mem"] \in {"alloc", "print"} => run'["mem"] = run["mem"])
    BY <1>5, <1>m, <1>n DEF ExitList, Goes, TaskTypes
  <2> QED
    BY <1>m, <2>1 DEF NullInv, HeldAt
<1>6. ASSUME NEW m \in TaskModules, FreeFirst(m) PROVE NullInv'
  <2>1. Shrinks(m, 1)
    BY <1>6, <1>m, FreeShrinks
  <2>2. HeldSet(m) = HeldSet(m)' \cup {held[m][1]}
        /\ \A x \in TaskModules : x # m => HeldSet(x)' = HeldSet(x)
    BY <1>m, <1>t, <2>1, ShrinksSet
  <2>3. run' = run
    BY <1>6 DEF FreeFirst
  <2> QED
    BY <1>m, <2>2, <2>3, NullSets
<1>7. ASSUME NEW m \in TaskModules, FreeEnds(m) PROVE NullInv'
  <2>1. held' = held /\ (run["mem"] \in {"alloc", "print"} => run'["mem"] = run["mem"])
    BY <1>7, <1>m, <1>n DEF FreeEnds, Goes, TaskTypes
  <2> QED
    BY <1>m, <2>1 DEF NullInv, HeldAt
<1>8. CASE RemoveEntry
  <2>1. Shrinks("full", next["full"]) /\ "full" \in TaskModules
    BY <1>8, <1>m, <1>n, RemoveShrinks
  <2>2. /\ HeldSet("full") = HeldSet("full")' \cup {held["full"][next["full"]]}
        /\ \A x \in TaskModules : x # "full" => HeldSet(x)' = HeldSet(x)
    BY <1>m, <1>t, <2>1, ShrinksSet
  <2>3. run' = run
    BY <1>8 DEF RemoveEntry
  <2> QED
    BY <1>m, <2>2, <2>3, NullSets
<1>9. CASE RemoveEnds
  <2>1. held' = held /\ run'["mem"] = run["mem"]
    BY <1>9, <1>m, <1>n DEF RemoveEnds, TaskTypes
  <2> QED
    BY <1>m, <2>1 DEF NullInv, HeldAt
<1>10. CASE MemAlloc
  <2>1. \A x \in TaskModules : x # "mem" => held'[x] = held[x]
    BY <1>10, <1>m, MemGrows DEF Grows, GrowsNull, OthersHold
  <2>2. run'["mem"] \in {"alloc", "print"}
    BY <1>10, <1>m, NextAllocFacts DEF MemAlloc
  <2>3. \A x \in TaskModules : x # "mem" => \A i \in HeldAt(x) : held[x][i] # NullPtr
    BY <1>m DEF NullInv
  <2> QED
    BY <2>1, <2>2, <2>3 DEF NullInv, HeldAt
<1>11. CASE MemPrint
  <2>1. held' = held /\ \A i \in HeldAt("mem") : held["mem"][i] # NullPtr
    BY <1>11 DEF MemPrint, Contains, HeldAt
  <2> QED
    BY <1>m, <2>1 DEF NullInv, HeldAt
<1>12. CASE MemOops
  <2>1. /\ held'["mem"] = <<>>
        /\ \A x \in TaskModules : x # "mem" => held'[x] = held[x]
    BY <1>12, <1>m, <1>n DEF MemOops, TaskTypes
  <2>2. HeldAt("mem")' = {}
    BY <2>1 DEF HeldAt
  <2>3. \A x \in TaskModules : x # "mem" => \A i \in HeldAt(x) : held[x][i] # NullPtr
    BY <1>m DEF NullInv
  <2> QED
    BY <2>1, <2>2, <2>3 DEF NullInv, HeldAt
<1>13. CASE memoryExit
  <2>1. held' = held /\ (run["mem"] \in {"alloc", "print"} => run'["mem"] = run["mem"])
    BY <1>13, <1>m, <1>n DEF memoryExit, Goes, TaskTypes
  <2> QED
    BY <1>m, <2>1 DEF NullInv, HeldAt
<1>14. CASE allocBuff
  <2>1. PICK o \in Objects : Grows("buf", 1, o)
    BY <1>14, <1>m, BufGrows
  <2>2. HeldSet("buf")' = HeldSet("buf") \cup {o}
        /\ \A x \in TaskModules : x # "buf" => HeldSet(x)' = HeldSet(x)
    BY <1>m, <1>n, <2>1, GrowsSet DEF HoldInv
  <2>3. run'["mem"] = run["mem"] /\ o # NullPtr
    BY <1>14, <1>m, <1>n, <2>1, ModuleNames DEF allocBuff, Goes, TaskTypes
  <2> QED
    BY <1>m, <2>2, <2>3, NullSets
<1>15. CASE exitKernelAlloc
  <2>1. /\ held'["buf"] = <<>> /\ run'["mem"] = run["mem"]
        /\ \A x \in TaskModules : x # "buf" => held'[x] = held[x]
    BY <1>15, <1>m, <1>n DEF exitKernelAlloc, Goes, TaskTypes
  <2>2. HeldAt("buf")' = {}
    BY <2>1 DEF HeldAt
  <2> QED
    BY <1>m, <2>1, <2>2 DEF NullInv, HeldAt
<1>16. CASE UNCHANGED taskVars
  BY <1>16, <1>0 DEF taskVars
<1> QED
  BY <1>1, <1>2, <1>3, <1>4, <1>5, <1>6, <1>7, <1>8, <1>9, <1>10, <1>11, <1>12, <1>13,
     <1>14, <1>15, <1>16 DEF TaskNext

\* A step of any module adds a pointer, drops one or leaves them as they are;
\* only the death of memoryInit drops pointers without a kfree.
LEMMA TaskShapes ==
  ASSUME TaskInv, [TaskNext]_taskVars
  PROVE  \/ MemOops
         \/ Keeps
         \/ \E k \in Nat : GrowsNull(k)
         \/ \E m \in TaskModules, k \in Nat : Shrinks(m, k) \/ \E o \in Objects : Grows(m, k, o)
<1>m. TaskTypes /\ RunInv /\ LenInv /\ CountInv /\ NullInv /\ UsedInv /\ OnceInv /\ ListedInv
  BY DEF TaskInv
<1>n. /\ TaskModules = {"list", "full", "mem", "buf"} /\ Lists = {"list", "full"}
      /\ Len(Ancestors) \in Nat /\ Len(Ancestors) >= 3
  BY ModuleNames
<1>0. held' = held /\ heap' = heap => Keeps
  BY DEF Keeps
<1>1. ASSUME NEW m \in TaskModules, TaskInsmod(m) PROVE Keeps
  <2>1. held' = held
    BY <1>1, <1>m DEF TaskInsmod, MayLoad, TaskTypes, LenInv
  <2> QED
    BY <1>0, <1>1, <2>1 DEF TaskInsmod
<1>2. ASSUME NEW m \in TaskModules, NotAdded(m) \/ ExitList(m) \/ FreeEnds(m) PROVE Keeps
  BY <1>0, <1>2 DEF NotAdded, ExitList, FreeEnds
<1>3. ASSUME KeepEntry \/ MemPrint \/ memoryExit \/ UNCHANGED taskVars PROVE Keeps
  BY <1>0, <1>3 DEF KeepEntry, MemPrint, memoryExit, taskVars
<1>4. ASSUME Tick \/ RemoveEnds PROVE Keeps
  BY <1>4, <1>m, TimesChange DEF Keeps
<1>5. ASSUME NEW m \in TaskModules, task_info_add_for_current(m)
      PROVE  \E o \in Objects : Grows(m, 1, o)
  BY <1>5, <1>m, AddGrows
<1>6. ASSUME NEW m \in TaskModules, FreeFirst(m) PROVE Shrinks(m, 1)
  BY <1>6, <1>m, FreeShrinks
<1>7. ASSUME RemoveEntry PROVE Shrinks("full", next["full"]) /\ next["full"] \in Nat
  BY <1>7, <1>m, <1>n, RemoveShrinks DEF TaskTypes
<1>8. ASSUME MemAlloc
      PROVE  \E k \in Nat : GrowsNull(k) \/ \E o \in Objects : Grows("mem", k, o)
  <2>1. Len(held["mem"]) + 1 \in Nat
    BY <1>m, <1>n DEF TaskTypes
  <2> QED
    BY <1>8, <1>m, <2>1, MemGrows
<1>9. ASSUME allocBuff PROVE \E o \in Objects : Grows("buf", 1, o)
  BY <1>9, <1>m, BufGrows
<1>10. ASSUME exitKernelAlloc PROVE Shrinks("buf", 1)
  BY <1>10, <1>m, BufShrinks
<1>11. {"full", "mem", "buf"} \subseteq TaskModules /\ 1 \in Nat
  BY <1>n
<1> HIDE DEF Grows, GrowsNull, Shrinks, Keeps
<1> QED
  BY <1>1, <1>2, <1>3, <1>4, <1>5, <1>6, <1>7, <1>8, <1>9, <1>10, <1>11 DEF TaskNext

\* Objects in use are held once, and objects that are free by nobody.
LEMMA HoldStep ==
  ASSUME TaskInv, [TaskNext]_taskVars
  PROVE  UsedInv' /\ OnceInv'
<1>1. HoldInv /\ TaskTypes'
  BY TaskTypeStep DEF TaskInv, HoldInv
<1>2. CASE MemOops
  <2>1. heap' = heap /\ held'["mem"] = <<>>
        /\ \A x \in TaskModules : x # "mem" => held'[x] = held[x]
    BY <1>1, <1>2, ModuleNames DEF MemOops, HoldInv, TaskTypes
  <2>2. HeldAt("mem")' = {} /\ \A x \in TaskModules : x # "mem" => HeldAt(x)' = HeldAt(x)
    BY <2>1 DEF HeldAt
  <2>3. UsedInv'
    BY <1>1, <2>1, <2>2 DEF HoldInv, UsedInv
  <2>4. OnceInv'
    BY <1>1, <2>1, <2>2 DEF HoldInv, OnceInv
  <2> QED
    BY <2>3, <2>4
<1>3. CASE Keeps
  <2>1. \A x \in TaskModules : \A i \in HeldAt(x) : held[x][i] \in Objects \cup {NullPtr}
    BY <1>1 DEF HoldInv, TaskTypes, HeldAt
  <2>2. held' = held /\ \A x \in TaskModules : HeldAt(x)' = HeldAt(x)
    BY <1>3 DEF Keeps, HeldAt
  <2>3. UsedInv'
    BY <1>1, <1>3, <2>1, <2>2 DEF HoldInv, UsedInv, Keeps
  <2>4. OnceInv'
    BY <1>1, <2>2 DEF HoldInv, OnceInv
  <2> QED
    BY <2>3, <2>4
<1> QED
  BY <1>1, <1>2, <1>3, TaskShapes, GrowsHold, GrowsNullHold, ShrinksHold

\* Nobody loads a module whose thread has died.
LEMMA DeadStays ==
  ASSUME TaskInv, [TaskNext]_taskVars, run["mem"] = "dead"
  PROVE  run'["mem"] = "dead"
<1>m. TaskTypes /\ RunInv /\ LenInv /\ CountInv /\ NullInv /\ UsedInv /\ OnceInv /\ ListedInv
  BY DEF TaskInv
<1>n. /\ TaskModules = {"list", "full", "mem", "buf"} /\ Lists = {"list", "full"}
      /\ Len(Ancestors) \in Nat /\ Len(Ancestors) >= 3
  BY ModuleNames
<1>1. ASSUME NEW m \in TaskModules, TaskInsmod(m) \/ ExitList(m) \/ FreeFirst(m) \/ FreeEnds(m)
      PROVE  run'["mem"] = "dead"
  BY <1>1, <1>m, <1>n DEF TaskInsmod, MayLoad, ExitList, FreeFirst, FreeEnds, Goes, TaskTypes
<1>2. ASSUME NEW m \in TaskModules, task_info_add_for_current(m) \/ NotAdded(m)
      PROVE  run'["mem"] = "dead"
  <2>1. m \in {"list", "full", "mem"} /\ NextAlloc(m) /\ m # "mem"
    BY <1>2, <1>n DEF task_info_add_for_current, NotAdded
  <2> QED
    BY <1>m, <1>n, <2>1, NextAllocFacts
<1>3. CASE RemoveEntry \/ KeepEntry \/ MemAlloc \/ MemPrint \/ MemOops \/ memoryExit \/ Tick
  BY <1>3 DEF RemoveEntry, KeepEntry, MemAlloc, MemPrint, MemOops, memoryExit, Tick
<1>4. CASE RemoveEnds \/ allocBuff \/ exitKernelAlloc
  BY <1>4, <1>m, <1>n DEF RemoveEnds, allocBuff, exitKernelAlloc, Goes, TaskTypes
<1>5. CASE UNCHANGED taskVars
  BY <1>5 DEF taskVars
<1> QED
  BY <1>1, <1>2, <1>3, <1>4, <1>5 DEF TaskNext

\* memoryInit dies on a NULL, so it has fewer objects than pointers.
LEMMA OopsLoses ==
  ASSUME TaskInv, TaskTypes', LenInv', MemOops
  PROVE  IsFiniteSet(Orphans') /\ Cardinality(Orphans') < Len(Ancestors)
<1>m. TaskTypes /\ RunInv /\ LenInv /\ CountInv /\ NullInv /\ UsedInv /\ OnceInv /\ ListedInv
  BY DEF TaskInv
<1>n. /\ TaskModules = {"list", "full", "mem", "buf"} /\ Lists = {"list", "full"}
      /\ Len(Ancestors) \in Nat /\ Len(Ancestors) >= 3
  BY ModuleNames
<1> DEFINE s == held["mem"]
           N == Len(Ancestors)
           S == Members(held["mem"])
<1>1. /\ heap' = heap /\ "mem" \in TaskModules /\ run["mem"] = "print" /\ Contains(s, NullPtr)
      /\ \A x \in TaskModules : x # "mem" => held'[x] = held[x]
  BY <1>m, <1>n DEF MemOops, TaskTypes
<1>2. Len(s) = N /\ s \in Seq(Objects \cup {NullPtr})
  BY <1>1, <1>m DEF LenInv, TaskTypes
<1>3. NullPtr \in S
  BY <1>1 DEF Contains, Members
<1>4. IsFiniteSet(S) /\ Cardinality(S) <= N
  <2>1. s \in [1..N -> Objects \cup {NullPtr}]
    BY <1>2
  <2>2. s \in [1..N -> S] /\ \A x \in S : \E i \in 1..N : s[i] = x
    BY <1>2, <2>1 DEF Members
  <2>3. s \in Surjection(1..N, S)
    BY <2>2 DEF Surjection
  <2>4. IsFiniteSet(1..N) /\ Cardinality(1..N) = N
    <3>1. 1 \in Int /\ N \in Int /\ N >= 1
      BY <1>n
    <3> HIDE DEF N
    <3> QED
      BY <3>1, FS_Interval
  <2> HIDE DEF N, S, s
  <2> QED
    BY <2>3, <2>4, FS_Surjection
<1>5. IsFiniteSet(S \ {NullPtr}) /\ Cardinality(S \ {NullPtr}) = Cardinality(S) - 1
      /\ Cardinality(S) \in Nat
  <2> HIDE DEF S
  <2> QED
    BY <1>3, <1>4, FS_RemoveElement, FS_CardinalityType
<1>6. Orphans' \subseteq S \ {NullPtr}
  <2>1. Orphans = {}
    BY <1>1 DEF TaskInv, LostInv
  <2> SUFFICES ASSUME NEW o \in Orphans' PROVE o \in S /\ o # NullPtr
    OBVIOUS
  <2>2. o \in Objects /\ heap[o] # NoObject
        /\ \A x \in TaskModules : \A i \in HeldAt(x)' : held'[x][i] # o
    BY <1>1, OrphansNext
  <2>3. PICK x \in TaskModules : \E i \in HeldAt(x) : held[x][i] = o
    BY <1>m, <2>1, <2>2, OrphansAre
  <2>4. x = "mem"
    BY <1>1, <2>2, <2>3 DEF HeldAt
  <2> QED
    BY <2>2, <2>3, <2>4, ModuleNames DEF HeldAt, Members
<1> HIDE DEF S
<1>7. IsFiniteSet(Orphans') /\ Cardinality(Orphans') <= Cardinality(S \ {NullPtr})
  BY <1>5, <1>6, FS_Subset
<1>8. Cardinality(Orphans') \in Nat
  BY <1>7, FS_CardinalityType
<1> DEFINE a == Cardinality(Orphans')
           b == Cardinality(S \ {NullPtr})
           c == Cardinality(S)
<1>9. a \in Nat /\ c \in Nat /\ b = c - 1 /\ a <= b /\ c <= N /\ N \in Nat
  BY <1>4, <1>5, <1>7, <1>8, <1>n
<1> HIDE DEF a, b, c, N
<1>10. a < N
  BY <1>9
<1> QED
  BY <1>7, <1>10 DEF a, N

LEMMA LostStep ==
  ASSUME TaskInv, [TaskNext]_taskVars
  PROVE  LostInv'
<1>1. HoldInv /\ LenInv /\ LostInv /\ TaskTypes' /\ LenInv' /\ "mem" \in TaskModules
  BY TaskTypeStep, LenStep, ModuleNames DEF TaskInv, HoldInv
<1>2. CASE MemOops
  <2>1. run'["mem"] = "dead"
    BY <1>1, <1>2 DEF MemOops, HoldInv, TaskTypes
  <2> QED
    BY <1>1, <1>2, <2>1, OopsLoses DEF LostInv
<1>3. ASSUME Orphans' = Orphans PROVE LostInv'
  BY <1>1, <1>3, DeadStays DEF LostInv
<1>4. CASE Keeps
  BY <1>1, <1>3, <1>4, NothingLost
<1>5. CASE \E k \in Nat : GrowsNull(k)
  BY <1>1, <1>3, <1>5, NothingLost
<1>6. CASE \E m \in TaskModules, k \in Nat : Shrinks(m, k) \/ \E o \in Objects : Grows(m, k, o)
  BY <1>1, <1>3, <1>6, NothingLost
<1> QED
  BY <1>2, <1>4, <1>5, <1>6, TaskShapes

\* A step that leaves the pointers of a list alone leaves its entries alone.
LEMMA EntriesKept ==
  ASSUME TaskInv, [TaskNext]_taskVars, NEW x \in Lists, held'[x] = held[x]
  PROVE  \A i \in HeldAt(x) : Who(x, i)' = Who(x, i)
<1>1. HoldInv /\ TaskTypes' /\ TaskTypes /\ NullInv /\ x \in TaskModules /\ x # "mem"
  BY TaskTypeStep, ModuleNames DEF TaskInv, HoldInv
<1>2. \A i \in HeldAt(x) : held[x][i] \in Objects /\ held[x][i] # NullPtr
  BY <1>1, FreedIsObject, ModuleNames
<1>3. ASSUME NEW m \in TaskModules, NEW k \in Nat, NEW o \in Objects, Grows(m, k, o)
      PROVE  \A i \in HeldAt(x) : heap'[held[x][i]].who = heap[held[x][i]].who
  BY <1>1, <1>2, <1>3, GrowsHold
<1>4. ASSUME NEW m \in TaskModules, NEW k \in Nat, Shrinks(m, k)
      PROVE  \A i \in HeldAt(x) : heap'[held[x][i]].who = heap[held[x][i]].who
  <2>1. x # m
    <3> SUFFICES ASSUME x = m PROVE FALSE
      OBVIOUS
    <3>1. Len(held[x]) = Len(held[x]) + 1 /\ Len(held[x]) \in Nat
      BY <1>1, <1>4 DEF Shrinks, TaskTypes, Inserted
    <3> QED
      BY <3>1
  <2> QED
    BY <1>1, <1>2, <1>4, <2>1, ShrinksHold
<1>5. ASSUME (\E k \in Nat : GrowsNull(k)) \/ MemOops
      PROVE  \A i \in HeldAt(x) : heap'[held[x][i]].who = heap[held[x][i]].who
  BY <1>5 DEF GrowsNull, MemOops
<1>6. ASSUME Keeps
      PROVE  \A i \in HeldAt(x) : heap'[held[x][i]].who = heap[held[x][i]].who
  BY <1>2, <1>6 DEF Keeps
<1>7. \A i \in HeldAt(x) : heap'[held[x][i]].who = heap[held[x][i]].who
  BY <1>3, <1>4, <1>5, <1>6, TaskShapes
<1> QED
  BY <1>7 DEF Who

\* The new entry of a list is that of the ancestor it has come to.
LEMMA AddedListed ==
  ASSUME HoldInv, NullInv, TaskTypes', NEW m \in Lists, Listed(m), NEW o \in Objects, Grows(m, 1, o),
         NEW w \in Nat \ {0}, heap'[o].who = w,
         missing' = missing, Reached(m) = 1..(w - 1), Reached(m)' = 1..w
  PROVE  Listed(m)'
<1>0. m \in TaskModules /\ m # "mem"
  BY ModuleNames
<1>1. m \in TaskModules /\ m # "mem" /\ Len(held[m]) \in Nat
  BY <1>0 DEF HoldInv, TaskTypes
<1>2. /\ Len(held'[m]) = Len(held[m]) + 1 /\ held'[m][1] = o
      /\ \A i \in HeldAt(m) : held'[m][i + 1] = held[m][i] /\ i + 1 \in HeldAt(m)'
  BY <1>1 DEF Grows, Inserted, Beside, HeldAt
<1>3. \A i \in HeldAt(m) : heap'[held[m][i]] = heap[held[m][i]]
  BY <1>1, GrowsHold DEF NullInv
<1>4. Who(m, 1)' = w /\ \A i \in HeldAt(m) : Who(m, i + 1)' = Who(m, i)
  BY <1>2, <1>3 DEF Who
<1>5. 1 \in HeldAt(m)' /\ \A j \in HeldAt(m)' : j = 1 \/ (j - 1 \in HeldAt(m)
      /\ Who(m, j)' = Who(m, j - 1))
  <2>1. ASSUME NEW j \in HeldAt(m)', j # 1 PROVE j - 1 \in HeldAt(m) /\ (j - 1) + 1 = j
    BY <1>1, <1>2, <2>1 DEF HeldAt
  <2>2. 1 \in HeldAt(m)'
    BY <1>1, <1>2 DEF HeldAt
  <2>3. ASSUME NEW j \in HeldAt(m)', j # 1 PROVE Who(m, j)' = Who(m, j - 1)
    <3>1. PICK i \in HeldAt(m) : i = j - 1 /\ i + 1 = j
      BY <2>1, <2>3
    <3>2. Who(m, i + 1)' = Who(m, i)
      BY <1>4
    <3>3. Who(m, i + 1)' = Who(m, j)'
      BY <3>1 DEF Who
    <3> QED
      BY <3>1, <3>2, <3>3
  <2> QED
    BY <2>1, <2>2, <2>3
<1>6. Reached(m)' = Reached(m) \cup {w} /\ w \notin Reached(m)
  OBVIOUS
<1>7. /\ missing[m] \subseteq Reached(m)
      /\ \A i \in HeldAt(m) : Who(m, i) \in Reached(m) \ missing[m]
      /\ \A i, j \in HeldAt(m) : Who(m, i) = Who(m, j) => i = j
      /\ \A x \in Reached(m) \ missing[m] : \E i \in HeldAt(m) : Who(m, i) = x
  BY DEF Listed
<1>8. /\ missing'[m] \subseteq Reached(m)'
      /\ \A j \in HeldAt(m)' : Who(m, j)' \in Reached(m)' \ missing'[m]
  BY <1>4, <1>5, <1>6, <1>7
<1>9. ASSUME NEW i \in HeldAt(m)', NEW j \in HeldAt(m)', Who(m, i)' = Who(m, j)' PROVE i = j
  <2>1. CASE i = 1 \/ j = 1
    BY <1>4, <1>5, <1>6, <1>7, <1>9, <2>1
  <2>2. CASE i # 1 /\ j # 1
    <3>1. i - 1 = j - 1
      BY <1>5, <1>7, <1>9, <2>2
    <3>2. i \in Int /\ j \in Int
      BY DEF HeldAt
    <3> QED
      BY <3>1, <3>2
  <2> QED
    BY <2>1, <2>2
<1>10. ASSUME NEW x \in Reached(m)' \ missing'[m] PROVE \E j \in HeldAt(m)' : Who(m, j)' = x
  <2>1. CASE x = w
    BY <1>4, <1>5, <2>1
  <2>2. CASE x # w
    <3>1. PICK i \in HeldAt(m) : Who(m, i) = x
      BY <1>6, <1>7, <2>2
    <3> QED
      BY <1>2, <1>4, <3>1
  <2> QED
    BY <2>1, <2>2
<1> QED
  BY <1>8, <1>9, <1>10 DEF Listed

\* An entry that remove_expired takes out is missing, and no other.
LEMMA RemovedListed ==
  ASSUME HoldInv, NullInv, TaskTypes', NEW m \in Lists, Listed(m), NEW k, Shrinks(m, k),
         missing'[m] = missing[m] \cup {Who(m, k)}, Reached(m)' = Reached(m)
  PROVE  Listed(m)'
<1>0. m \in TaskModules /\ m # "mem"
  BY ModuleNames
<1>1. m \in TaskModules /\ m # "mem" /\ Len(held[m]) \in Nat /\ Len(held'[m]) \in Nat
  BY <1>0 DEF HoldInv, TaskTypes
<1>2. /\ Len(held[m]) = Len(held'[m]) + 1 /\ k \in HeldAt(m)
      /\ \A j \in HeldAt(m)' : held[m][Beside(k, j)] = held'[m][j]
  BY DEF Shrinks, Inserted, HeldAt
<1>3. /\ \A j \in HeldAt(m)' : Beside(k, j) \in HeldAt(m) /\ Beside(k, j) # k
      /\ \A i, j \in HeldAt(m)' : Beside(k, i) = Beside(k, j) => i = j
      /\ \A i \in HeldAt(m) : i # k => \E j \in HeldAt(m)' : Beside(k, j) = i
  <2> DEFINE n == Len(held'[m])
  <2>1. n \in Nat /\ k \in 1..(n + 1) /\ HeldAt(m) = 1..(n + 1) /\ HeldAt(m)' = 1..n
    BY <1>1, <1>2 DEF HeldAt
  <2> HIDE DEF n
  <2>2. /\ \A j \in 1..n : Beside(k, j) \in 1..(n + 1) /\ Beside(k, j) # k
        /\ \A i, j \in 1..n : Beside(k, i) = Beside(k, j) => i = j
        /\ \A i \in 1..(n + 1) : i # k => \E j \in 1..n : Beside(k, j) = i
    BY <2>1, BesidePlaces
  <2> QED
    BY <2>1, <2>2
<1>4. \A i \in HeldAt(m) : i # k => heap'[held[m][i]] = heap[held[m][i]]
  BY <1>1, ShrinksHold DEF NullInv
<1>5. \A j \in HeldAt(m)' : Who(m, j)' = Who(m, Beside(k, j))
  BY <1>2, <1>3, <1>4 DEF Who
<1>6. /\ missing[m] \subseteq Reached(m)
      /\ \A i \in HeldAt(m) : Who(m, i) \in Reached(m) \ missing[m]
      /\ \A i, j \in HeldAt(m) : Who(m, i) = Who(m, j) => i = j
      /\ \A x \in Reached(m) \ missing[m] : \E i \in HeldAt(m) : Who(m, i) = x
  BY DEF Listed
<1>7. missing'[m] \subseteq Reached(m)'
  BY <1>2, <1>6
<1>8. \A j \in HeldAt(m)' : Who(m, j)' \in Reached(m)' \ missing'[m]
  BY <1>2, <1>3, <1>5, <1>6
<1>9. \A i, j \in HeldAt(m)' : Who(m, i)' = Who(m, j)' => i = j
  BY <1>3, <1>5, <1>6
<1>10. ASSUME NEW x \in Reached(m)' \ missing'[m] PROVE \E j \in HeldAt(m)' : Who(m, j)' = x
  <2>1. PICK i \in HeldAt(m) : Who(m, i) = x
    BY <1>6
  <2>2. i # k
    BY <2>1
  <2>3. PICK j \in HeldAt(m)' : Beside(k, j) = i
    BY <1>3, <2>2
  <2> QED
    BY <1>5, <2>1, <2>3
<1> QED
  BY <1>7, <1>8, <1>9, <1>10 DEF Listed

\* So the others stay complete.
LEMMA OthersListed ==
  ASSUME TaskInv, [TaskNext]_taskVars, NEW x \in Lists, Listed(x), held'[x] = held[x],
         missing'[x] = missing[x], Reached(x)' = Reached(x)
  PROVE  Listed(x)'
<1>1. \A i \in HeldAt(x) : Who(x, i)' = Who(x, i)
  BY EntriesKept
<1>2. HeldAt(x)' = HeldAt(x)
  BY DEF HeldAt
<1> QED
  BY <1>1, <1>2 DEF Listed

\* Every ancestor that a list has come to is listed or missing.
LEMMA ListedStep ==
  ASSUME TaskInv, [TaskNext]_taskVars
  PROVE  ListedInv'
<1>m. TaskTypes /\ RunInv /\ LenInv /\ CountInv /\ NullInv /\ UsedInv /\ OnceInv /\ ListedInv
  BY DEF TaskInv
<1>n. /\ TaskModules = {"list", "full", "mem", "buf"} /\ Lists = {"list", "full"}
      /\ Len(Ancestors) \in Nat /\ Len(Ancestors) >= 3
  BY ModuleNames
<1>f. ASSUME NEW x \in Lists, held'[x] = held[x], missing'[x] = missing[x], run'[x] = run[x],
              next'[x] = next[x], run'[x] \in {"alloc", "remove", "live"}
      PROVE  Listed(x)'
  <2>1. Listed(x) /\ Reached(x)' = Reached(x)
    BY <1>f, <1>m DEF ListedInv, Reached
  <2> QED
    BY <1>f, <2>1, OthersListed
<1>t. TaskTypes'
  BY TaskTypeStep
<1>0. UNCHANGED <<run, next, held, heap, missing>> => ListedInv'
  BY DEF TaskInv, ListedInv, Listed, HeldAt, Who, Reached
<1>1. ASSUME NEW m \in TaskModules, TaskInsmod(m) PROVE ListedInv'
  <2>1. held' = held
    BY <1>1, <1>m DEF TaskInsmod, MayLoad, TaskTypes, LenInv
  <2>2. /\ run[m] = "out" /\ next[m] = 1 /\ next' = next /\ missing' = missing
             /\ run'[m] = "alloc"
        /\ held[m] = <<>> /\ \A x \in TaskModules : x # m => run'[x] = run[x]
    BY <1>1, <1>m DEF TaskInsmod, MayLoad, Goes, LenInv, RunInv, TaskTypes
  <2>3. ASSUME m \in Lists PROVE Listed(m)'
    <3>1. HeldAt(m)' = {} /\ Reached(m)' = {} /\ missing'[m] = {}
      <4>1. HeldAt(m)' = {}
        BY <2>1, <2>2 DEF HeldAt
      <4>2. Reached(m)' = 1..0
        BY <2>2 DEF Reached
      <4>3. missing'[m] = {}
        BY <1>m, <2>2, <2>3 DEF CountInv
      <4> QED
        BY <4>1, <4>2, <4>3
    <3> QED
      BY <3>1 DEF Listed
  <2>4. ASSUME NEW x \in Lists, x # m, run'[x] \in {"alloc", "remove", "live"} PROVE Listed(x)'
    <3>1. run'[x] = run[x]
      BY <2>2, <2>4, <1>n
    <3> QED
      BY <1>f, <2>1, <2>2, <2>4, <3>1
  <2> QED
    BY <2>3, <2>4 DEF ListedInv
<1>2. ASSUME NEW m \in TaskModules, task_info_add_for_current(m) PROVE ListedInv'
  <2>2. m \in {"list", "full", "mem"} /\ NextAlloc(m) /\ m \in TaskModules
    BY <1>2, <1>n DEF task_info_add_for_current
  <2>3. /\ next' \in [TaskModules -> Nat \ {0}]
        /\ run' \in [TaskModules -> {"out", "alloc", "remove", "print", "live", "free", "dead"}]
    BY <1>m, <2>2, NextAllocFacts
  <2>4. /\ \A x \in TaskModules : x # m => next'[x] = next[x] /\ run'[x] = run[x]
        /\ \/ next[m] < Len(Ancestors) /\ next'[m] = next[m] + 1 /\ run'[m] = run[m]
           \/ /\ next[m] >= Len(Ancestors) /\ next'[m] = 1
              /\ m = "list" => run'[m] = "live"
              /\ m = "full" => run'[m] = "remove"
              /\ m = "mem" => run'[m] = "print"
    BY <1>m, <2>2, NextAllocFacts
  <2>5. run[m] = "alloc" /\ next[m] \in Nat
    BY <1>2, <1>m, <2>2 DEF task_info_add_for_current, TaskTypes
  <2>6. m \in Lists /\ missing' = missing /\ next[m] <= Len(Ancestors) /\ next[m] \in Nat \ {0}
    BY <1>2, <1>m, <2>2, <2>5 DEF task_info_add_for_current, RunInv, TaskTypes
  <2>7. PICK o \in Objects : Grows(m, 1, o) /\ heap'[o] = Entry(m, next[m])
    BY <1>2, <1>m, AddGrows
  <2>8. heap'[o].who = next[m]
    BY <1>m, <2>2, <2>6, <2>7, EntryFacts
  <2>9. Reached(m) = 1..(next[m] - 1) /\ Reached(m)' = 1..next[m]
    BY <1>n, <2>4, <2>5, <2>6 DEF Reached
  <2>10. Listed(m) /\ run'[m] \in {"alloc", "remove", "live"}
    BY <1>m, <1>n, <2>4, <2>5, <2>6 DEF ListedInv
  <2>11. Listed(m)'
    BY <1>m, <1>t, <2>2, <2>6, <2>7, <2>8, <2>9, <2>10, AddedListed DEF HoldInv
  <2>12. ASSUME NEW x \in Lists, x # m, run'[x] \in {"alloc", "remove", "live"} PROVE Listed(x)'
    <3>1. held'[x] = held[x] /\ run'[x] = run[x] /\ next'[x] = next[x] /\ x \in TaskModules
      BY <1>n, <2>4, <2>7, <2>12 DEF Grows, OthersHold
    <3> QED
      BY <1>f, <2>6, <2>12, <3>1
  <2> QED
    BY <2>11, <2>12 DEF ListedInv
<1>3. ASSUME NEW m \in TaskModules, NotAdded(m) PROVE ListedInv'
  <2>2. m \in {"list", "full", "mem"} /\ NextAlloc(m) /\ m \in TaskModules
    BY <1>3, <1>n DEF NotAdded
  <2>3. /\ next' \in [TaskModules -> Nat \ {0}]
        /\ run' \in [TaskModules -> {"out", "alloc", "remove", "print", "live", "free", "dead"}]
    BY <1>m, <2>2, NextAllocFacts
  <2>4. /\ \A x \in TaskModules : x # m => next'[x] = next[x] /\ run'[x] = run[x]
        /\ \/ next[m] < Len(Ancestors) /\ next'[m] = next[m] + 1 /\ run'[m] = run[m]
           \/ /\ next[m] >= Len(Ancestors) /\ next'[m] = 1
              /\ m = "list" => run'[m] = "live"
              /\ m = "full" => run'[m] = "remove"
              /\ m = "mem" => run'[m] = "print"
    BY <1>m, <2>2, NextAllocFacts
  <2>5. run[m] = "alloc" /\ next[m] \in Nat
    BY <1>3, <1>m, <2>2 DEF NotAdded, TaskTypes
  <2>6. m \in Lists /\ held' = held /\ next[m] <= Len(Ancestors) /\ next[m] \in Nat \ {0}
    BY <1>3, <1>m, <2>2, <2>5 DEF NotAdded, RunInv, TaskTypes
  <2>7. missing'[m] = missing[m] \cup {next[m]}
        /\ \A x \in TaskModules : x # m => missing'[x] = missing[x]
    BY <1>3, <1>m DEF NotAdded, TaskTypes
  <2>8. Listed(m)
    BY <1>m, <2>5, <2>6 DEF ListedInv
  <2>9. Reached(m) = 1..(next[m] - 1) /\ Reached(m)' = 1..next[m]
    BY <1>n, <2>4, <2>5, <2>6 DEF Reached
  <2>10. Reached(m)' = Reached(m) \cup {next[m]} /\ next[m] \notin Reached(m)
    BY <2>6, <2>9
  <2>11. HeldAt(m)' = HeldAt(m) /\ \A i \in HeldAt(m) : Who(m, i)' = Who(m, i)
    BY <2>6, EntriesKept DEF HeldAt
  <2>12. Listed(m)'
    BY <2>7, <2>8, <2>10, <2>11 DEF Listed
  <2>13. ASSUME NEW x \in Lists, x # m, run'[x] \in {"alloc", "remove", "live"} PROVE Listed(x)'
    <3>1. missing'[x] = missing[x] /\ run'[x] = run[x] /\ next'[x] = next[x]
          /\ x \in TaskModules
      BY <1>n, <2>4, <2>7, <2>13
    <3> QED
      BY <1>f, <2>6, <2>13, <3>1
  <2> QED
    BY <2>12, <2>13 DEF ListedInv
<1>4. ASSUME NEW m \in TaskModules, ExitList(m) PROVE ListedInv'
  <2>o. ASSUME NEW x \in Lists, x # m, run'[x] \in {"alloc", "remove", "live"} PROVE Listed(x)'
    <3>1. held'[x] = held[x] /\ missing'[x] = missing[x] /\ run'[x] = run[x]
          /\ next'[x] = next[x]
      BY <1>4, <2>o, <1>m, <1>n DEF ExitList, Goes, TaskTypes
    <3> QED
      BY <1>f, <2>o, <3>1
  <2>1. run'[m] = "free"
    BY <1>4, <1>m DEF ExitList, Goes, TaskTypes
  <2> QED
    BY <2>o, <2>1 DEF ListedInv
<1>5. ASSUME NEW m \in TaskModules, FreeFirst(m) PROVE ListedInv'
  <2>h. \A x \in TaskModules : x # m => held'[x] = held[x]
    BY <1>5, <1>m, FreeShrinks DEF Shrinks, Grows, GrowsNull, OthersHold
  <2>o. ASSUME NEW x \in Lists, x # m, run'[x] \in {"alloc", "remove", "live"} PROVE Listed(x)'
    <3>1. held'[x] = held[x] /\ missing'[x] = missing[x] /\ run'[x] = run[x]
          /\ next'[x] = next[x]
      BY <1>5, <2>o, <1>m, <1>n, <2>h DEF FreeFirst
    <3> QED
      BY <1>f, <2>o, <3>1
  <2>1. run'[m] = "free"
    BY <1>5 DEF FreeFirst
  <2> QED
    BY <2>o, <2>1 DEF ListedInv
<1>6. ASSUME NEW m \in TaskModules, FreeEnds(m) PROVE ListedInv'
  <2>o. ASSUME NEW x \in Lists, x # m, run'[x] \in {"alloc", "remove", "live"} PROVE Listed(x)'
    <3>1. held'[x] = held[x] /\ missing'[x] = missing[x] /\ run'[x] = run[x]
          /\ next'[x] = next[x]
      BY <1>6, <2>o, <1>m, <1>n DEF FreeEnds, Goes, TaskTypes
    <3> QED
      BY <1>f, <2>o, <3>1
  <2>1. m \in Lists => run'[m] = "out"
    BY <1>6, <1>m, <1>n DEF FreeEnds, Goes, TaskTypes
  <2> QED
    BY <2>o, <2>1 DEF ListedInv
<1>7. CASE RemoveEntry
  <2>h. \A x \in TaskModules : x # "full" => held'[x] = held[x]
    BY <1>7, <1>m, RemoveShrinks DEF Shrinks, Grows, GrowsNull, OthersHold
  <2>1. /\ missing'["full"] = missing["full"] \cup {Who("full", next["full"])}
        /\ \A x \in TaskModules : x # "full" => missing'[x] = missing[x]
    BY <1>7, RemovedIsOld
  <2>2. run' = run /\ next' = next /\ run["full"] = "remove" /\ "full" \in Lists
        /\ "full" \in TaskModules
    BY <1>7, <1>n DEF RemoveEntry
  <2>3. Listed("full") /\ Reached("full")' = Reached("full")
    BY <1>m, <2>2 DEF ListedInv, Reached
  <2>4. Shrinks("full", next["full"])
    BY <1>7, <1>m, RemoveShrinks
  <2>5. Listed("full")'
    BY <1>m, <1>t, <2>1, <2>2, <2>3, <2>4, RemovedListed DEF HoldInv
  <2>6. ASSUME NEW x \in Lists, x # "full", run'[x] \in {"alloc", "remove", "live"} PROVE Listed(x)'
    <3>1. held'[x] = held[x] /\ missing'[x] = missing[x]
      BY <1>n, <2>1, <2>h, <2>6
    <3> QED
      BY <1>f, <2>2, <2>6, <3>1
  <2> QED
    BY <2>5, <2>6 DEF ListedInv
<1>8. CASE KeepEntry
  <2>o. ASSUME NEW x \in Lists, x # "full", run'[x] \in {"alloc", "remove", "live"} PROVE Listed(x)'
    <3>1. held'[x] = held[x] /\ missing'[x] = missing[x] /\ run'[x] = run[x]
          /\ next'[x] = next[x]
      BY <1>8, <2>o, <1>m, <1>n DEF KeepEntry, TaskTypes
    <3> QED
      BY <1>f, <2>o, <3>1
  <2>1. held' = held /\ missing' = missing /\ run' = run /\ run["full"] = "remove"
        /\ "full" \in Lists
    BY <1>8, <1>n DEF KeepEntry
  <2>2. Listed("full") /\ Reached("full")' = Reached("full")
    BY <1>m, <2>1 DEF ListedInv, Reached
  <2>3. Listed("full")'
    BY <2>1, <2>2, OthersListed
  <2> QED
    BY <2>o, <2>3 DEF ListedInv
<1>9. CASE RemoveEnds
  <2>1. /\ held' = held /\ missing' = missing /\ run["full"] = "remove" /\ run'["full"] = "live"
        /\ "full" \in Lists
        /\ \A x \in TaskModules : x # "full" => run'[x] = run[x] /\ next'[x] = next[x]
    BY <1>9, <1>m, <1>n DEF RemoveEnds, TaskTypes
  <2>2. Listed("full") /\ Reached("full")' = Reached("full")
    BY <1>m, <2>1 DEF ListedInv, Reached
  <2>3. Listed("full")'
    BY <2>1, <2>2, OthersListed
  <2>4. ASSUME NEW x \in Lists, x # "full", run'[x] \in {"alloc", "remove", "live"} PROVE Listed(x)'
    <3>1. run'[x] = run[x] /\ next'[x] = next[x]
      BY <1>n, <2>1, <2>4
    <3> QED
      BY <1>f, <2>1, <2>4, <3>1
  <2> QED
    BY <2>3, <2>4 DEF ListedInv
<1>10. CASE MemAlloc
  <2>h. \A x \in TaskModules : x # "mem" => held'[x] = held[x]
    BY <1>10, <1>m, MemGrows DEF Shrinks, Grows, GrowsNull, OthersHold
  <2>1. missing' = missing /\ \A x \in TaskModules : x # "mem" => run'[x] = run[x]
        /\ next'[x] = next[x]
    BY <1>10, <1>m, <1>n, NextAllocFacts DEF MemAlloc
  <2>2. \A x \in Lists : x \in TaskModules /\ x # "mem"
    BY <1>n
  <2> QED
    BY <1>f, <2>1, <2>2, <2>h DEF ListedInv
<1>11. CASE MemPrint
  <2>1. /\ missing' = missing /\ next' = next
        /\ \A x \in TaskModules : x # "mem" => run'[x] = run[x] /\ held'[x] = held[x]
    BY <1>11, <1>m, <1>n DEF MemPrint, Goes, TaskTypes
  <2>2. \A x \in Lists : x \in TaskModules /\ x # "mem"
    BY <1>n
  <2> QED
    BY <1>f, <2>1, <2>2 DEF ListedInv
<1>12. CASE MemOops
  <2>1. /\ missing' = missing /\ next' = next
        /\ \A x \in TaskModules : x # "mem" => run'[x] = run[x] /\ held'[x] = held[x]
    BY <1>12, <1>m, <1>n DEF MemOops, Goes, TaskTypes
  <2>2. \A x \in Lists : x \in TaskModules /\ x # "mem"
    BY <1>n
  <2> QED
    BY <1>f, <2>1, <2>2 DEF ListedInv
<1>13. CASE memoryExit
  <2>1. /\ missing' = missing /\ next' = next
        /\ \A x \in TaskModules : x # "mem" => run'[x] = run[x] /\ held'[x] = held[x]
    BY <1>13, <1>m, <1>n DEF memoryExit, Goes, TaskTypes
  <2>2. \A x \in Lists : x \in TaskModules /\ x # "mem"
    BY <1>n
  <2> QED
    BY <1>f, <2>1, <2>2 DEF ListedInv
<1>14. CASE allocBuff
  <2>h. \A x \in TaskModules : x # "buf" => held'[x] = held[x]
    BY <1>14, <1>m, BufGrows DEF Shrinks, Grows, GrowsNull, OthersHold
  <2>1. missing' = missing /\ next' = next
        /\ \A x \in TaskModules : x # "buf" => run'[x] = run[x]
    BY <1>14, <1>m, <1>n DEF allocBuff, Goes, TaskTypes
  <2>2. \A x \in Lists : x \in TaskModules /\ x # "buf"
    BY <1>n
  <2> QED
    BY <1>f, <2>1, <2>2, <2>h DEF ListedInv
<1>15. CASE exitKernelAlloc
  <2>1. /\ missing' = missing /\ next' = next
        /\ \A x \in TaskModules : x # "buf" => run'[x] = run[x] /\ held'[x] = held[x]
    BY <1>15, <1>m, <1>n DEF exitKernelAlloc, Goes, TaskTypes
  <2>2. \A x \in Lists : x \in TaskModules /\ x # "buf"
    BY <1>n
  <2> QED
    BY <1>f, <2>1, <2>2 DEF ListedInv
<1>16. CASE Tick
  <2>1. missing' = missing /\ next' = next /\ run' = run /\ held' = held
    BY <1>16 DEF Tick
  <2> QED
    BY <1>f, <2>1 DEF ListedInv
<1>17. CASE UNCHANGED taskVars
  BY <1>17, <1>0 DEF taskVars
<1> QED
  BY <1>1, <1>2, <1>3, <1>4, <1>5, <1>6, <1>7, <1>8, <1>9, <1>10, <1>11, <1>12, <1>13,
     <1>14, <1>15, <1>16, <1>17 DEF TaskNext

\* The ages are those that the clock shows.
LEMMA ClockStep ==
  ASSUME TaskInv, [TaskNext]_taskVars
  PROVE  ClockInv'
<1>m. TaskTypes /\ RunInv /\ LenInv /\ CountInv /\ NullInv /\ UsedInv /\ OnceInv
      /\ ListedInv /\ ClockInv
  BY DEF TaskInv
<1>n. /\ TaskModules = {"list", "full", "mem", "buf"} /\ Lists = {"list", "full"}
      /\ Len(Ancestors) \in Nat /\ Len(Ancestors) >= 3
  BY ModuleNames
<1>t. TaskTypes' /\ "full" \in TaskModules /\ "full" # "mem"
  BY TaskTypeStep, ModuleNames
<1>v. \A i \in HeldAt("full") : held["full"][i] \in Objects /\ held["full"][i] # NullPtr
  BY <1>m, <1>t, FreedIsObject, ModuleNames
<1>s. ASSUME run'["full"] \in {"alloc", "remove"} => run["full"] \in {"alloc", "remove"},
             jiffies' = jiffies, held'["full"] = held["full"],
             \A i \in HeldAt("full") : heap'[held["full"][i]] = heap[held["full"][i]]
      PROVE  ClockInv'
  <2>1. HeldAt("full")' = HeldAt("full")
    BY <1>s DEF HeldAt
  <2>2. ASSUME NEW i \in HeldAt("full"), OnClock(held["full"][i]) PROVE OnClock(held["full"][i])'
    BY <1>s, <2>2 DEF OnClock, Timed
  <2> QED
    BY <1>m, <1>s, <2>1, <2>2 DEF ClockInv
<1>0. UNCHANGED <<run, held, heap, jiffies>> => ClockInv'
  BY DEF TaskInv, ClockInv, OnClock, HeldAt, Timed
<1>1. CASE KeepEntry
  BY <1>1, <1>0 DEF KeepEntry
<1>2. ASSUME NEW m \in TaskModules, TaskInsmod(m) PROVE ClockInv'
  <2>1. CASE m = "full"
    <3>1. held'["full"] = <<>>
      BY <1>2, <2>1, <1>m, <1>n DEF TaskInsmod, TaskTypes
    <3>2. HeldAt("full")' = {}
      BY <3>1 DEF HeldAt
    <3> QED
      BY <3>2 DEF ClockInv
  <2>2. CASE m # "full"
    <3>1. run'["full"] = run["full"] /\ held'["full"] = held["full"] /\ heap' = heap
          /\ jiffies' = jiffies
      BY <1>2, <2>2, <1>m, <1>n DEF TaskInsmod, Goes, TaskTypes
    <3> QED
      BY <1>s, <3>1
  <2> QED
    BY <2>1, <2>2
<1>3. ASSUME NEW m \in TaskModules, task_info_add_for_current(m) PROVE ClockInv'
  <2>1. PICK o \in Objects : Grows(m, 1, o) /\ heap'[o] = Entry(m, next[m])
    BY <1>3, <1>m, AddGrows
  <2>2. jiffies' = jiffies /\ run[m] = "alloc" /\ next[m] \in Nat \ {0}
        /\ m \in {"list", "full", "mem"} /\ NextAlloc(m)
    BY <1>3, <1>m, <1>n DEF task_info_add_for_current, TaskTypes
  <2>3. \A i \in HeldAt("full") : heap'[held["full"][i]] = heap[held["full"][i]]
    BY <1>m, <1>t, <1>v, <2>1, GrowsHold DEF HoldInv
  <2>4. CASE m # "full"
    <3>1. held'["full"] = held["full"] /\ run'["full"] = run["full"]
      BY <1>m, <1>t, <2>1, <2>2, <2>4, NextAllocFacts DEF Grows, OthersHold
    <3> QED
      BY <1>s, <2>2, <2>3, <3>1
  <2>5. CASE m = "full"
    <3>1. OnClock(o)'
      <4>1. Entry(m, next[m]).ts = (IF Timed(m, next[m]) THEN jiffies ELSE 0)
            /\ Entry(m, next[m]).age = 0
            /\ Entry(m, next[m]).who = next[m]
        BY <1>m, <1>n, <2>2, <2>5, EntryFacts
      <4>2. jiffies \in 0..(W - 1) /\ W \in Nat
        BY <1>m, TaskModsAssumption DEF TaskTypes
      <4>3. /\ heap'[o].age = 0 /\ heap'[o].who = next[m]
            /\ Timed("full", next[m]) => heap'[o].ts = jiffies
        BY <2>1, <2>5, <4>1
      <4>4. Timed("full", next[m]) => heap'[o].ts < W /\ jiffies' - heap'[o].ts = heap'[o].age
        BY <2>2, <4>2, <4>3
      <4> QED
        BY <4>3, <4>4 DEF OnClock, Timed
    <3>2. ASSUME NEW i \in HeldAt("full"), NEW x, x = held["full"][i] PROVE OnClock(x)'
      BY <1>m, <2>2, <2>3, <2>5, <3>2 DEF OnClock, Timed, ClockInv
    <3>3. ASSUME NEW j \in HeldAt("full")' PROVE held'["full"][j] = o \/ \E i \in HeldAt("full") : held'["full"][j] = held["full"][i]
      <4>1. Inserted(held["full"], 1, held'["full"]) /\ Len(held["full"]) \in Nat
            /\ held'["full"][1] = o
        BY <1>m, <1>t, <2>1, <2>5 DEF Grows, TaskTypes
      <4>2. Members(held'["full"]) = Members(held["full"]) \cup {o}
        BY <4>1, InsertedSet
      <4> QED
        BY <4>2 DEF Members, HeldAt
    <3> QED
      BY <3>1, <3>2, <3>3 DEF ClockInv
  <2> QED
    BY <2>4, <2>5
<1>4. ASSUME NEW m \in TaskModules, NotAdded(m) PROVE ClockInv'
  <2>1. run'["full"] \in {"alloc", "remove"} => run["full"] \in {"alloc", "remove"}
    BY <1>4, <1>m, <1>n, NextAllocFacts DEF NotAdded
  <2> QED
    BY <1>4, <1>s, <2>1 DEF NotAdded
<1>5. ASSUME NEW m \in TaskModules, ExitList(m) PROVE ClockInv'
  <2>1. run'["full"] \in {"alloc", "remove"} => run["full"] \in {"alloc", "remove"}
    BY <1>5, <1>m, <1>n DEF ExitList, Goes, TaskTypes
  <2> QED
    BY <1>5, <1>s, <2>1 DEF ExitList
<1>6. ASSUME NEW m \in TaskModules, FreeFirst(m) PROVE ClockInv'
  <2>1. run' = run /\ jiffies' = jiffies /\ run[m] = "free" /\ Shrinks(m, 1)
    BY <1>6, <1>m, FreeShrinks DEF FreeFirst
  <2>2. CASE m = "full"
    BY <2>1, <2>2 DEF ClockInv
  <2>3. CASE m # "full"
    <3>1. held'["full"] = held["full"]
      BY <1>t, <2>1, <2>3 DEF Shrinks, OthersHold
    <3>2. \A i \in HeldAt("full") : heap'[held["full"][i]] = heap[held["full"][i]]
      BY <1>m, <1>t, <1>v, <2>1, <2>3, ShrinksHold DEF HoldInv
    <3> QED
      BY <1>s, <2>1, <3>1, <3>2
  <2> QED
    BY <2>2, <2>3
<1>7. ASSUME NEW m \in TaskModules, FreeEnds(m) PROVE ClockInv'
  <2>1. run'["full"] \in {"alloc", "remove"} => run["full"] \in {"alloc", "remove"}
    BY <1>7, <1>m, <1>n DEF FreeEnds, Goes, TaskTypes
  <2> QED
    BY <1>7, <1>s, <2>1 DEF FreeEnds
<1>8. CASE RemoveEntry
  <2>1. run' = run /\ jiffies' = jiffies /\ run["full"] = "remove"
        /\ Shrinks("full", next["full"])
    BY <1>8, <1>m, RemoveShrinks DEF RemoveEntry
  <2> DEFINE k == next["full"]
  <2>2. /\ k \in HeldAt("full") /\ OnceInv' /\ UsedInv'
        /\ \A i \in HeldAt("full") : i # k => heap'[held["full"][i]] = heap[held["full"][i]]
    BY <1>m, <1>t, <1>v, <2>1, ShrinksHold DEF HoldInv
  <2> HIDE DEF k
  <2>3. ASSUME NEW j \in HeldAt("full")'
        PROVE  \E i \in HeldAt("full") : i # k /\ held'["full"][j] = held["full"][i]
    <3> DEFINE n == Len(held'["full"])
    <3>1. n \in Nat /\ k \in 1..(n + 1) /\ HeldAt("full") = 1..(n + 1) /\ j \in 1..n
          /\ held["full"][Beside(k, j)] = held'["full"][j]
      BY <1>t, <2>1 DEF k, Shrinks, Inserted, HeldAt, TaskTypes
    <3> HIDE DEF n
    <3>2. Beside(k, j) \in 1..(n + 1) /\ Beside(k, j) # k
      BY <3>1, BesidePlaces
    <3> QED
      BY <3>1, <3>2
  <2>4. ASSUME NEW i \in HeldAt("full"), i # k, NEW x, x = held["full"][i] PROVE OnClock(x)'
    BY <1>m, <2>1, <2>2, <2>4 DEF OnClock, Timed, ClockInv
  <2> QED
    BY <2>3, <2>4 DEF ClockInv
<1>9. CASE RemoveEnds
  <2>1. run'["full"] = "live"
    BY <1>9, <1>m, <1>n DEF RemoveEnds, TaskTypes
  <2> QED
    BY <2>1 DEF ClockInv
<1>10. CASE MemAlloc
  <2>1. run'["full"] = run["full"] /\ jiffies' = jiffies
    BY <1>10, <1>m, <1>n, NextAllocFacts DEF MemAlloc
  <2>2. GrowsNull(Len(held["mem"]) + 1) \/ \E o \in Objects : Grows("mem", Len(held["mem"]) + 1, o)
    BY <1>10, <1>m, MemGrows
  <2>3. held'["full"] = held["full"]
    BY <1>t, <2>2 DEF Grows, GrowsNull, OthersHold
  <2>4. "mem" \in TaskModules
    BY <1>n
  <2>5. \A i \in HeldAt("full") : heap'[held["full"][i]] = heap[held["full"][i]]
    <3>1. CASE GrowsNull(Len(held["mem"]) + 1)
      BY <3>1 DEF GrowsNull
    <3>2. ASSUME NEW o \in Objects, Grows("mem", Len(held["mem"]) + 1, o)
          PROVE  \A i \in HeldAt("full") : heap'[held["full"][i]] = heap[held["full"][i]]
      BY <1>m, <1>t, <1>v, <2>4, <3>2, GrowsHold DEF HoldInv
    <3> QED
      BY <2>2, <3>1, <3>2
  <2> QED
    BY <1>s, <2>1, <2>3, <2>5
<1>11. CASE MemPrint
  <2>1. run'["full"] \in {"alloc", "remove"} => run["full"] \in {"alloc", "remove"}
    BY <1>11, <1>m, <1>n DEF MemPrint, Goes, TaskTypes
  <2> QED
    BY <1>11, <1>s, <2>1 DEF MemPrint
<1>12. CASE MemOops
  <2>1. run'["full"] = run["full"] /\ jiffies' = jiffies /\ held'["full"] = held["full"]
        /\ heap' = heap
    BY <1>12, <1>m, <1>n DEF MemOops, TaskTypes
  <2> QED
    BY <1>s, <2>1
<1>13. CASE memoryExit
  <2>1. run'["full"] \in {"alloc", "remove"} => run["full"] \in {"alloc", "remove"}
    BY <1>13, <1>m, <1>n DEF memoryExit, Goes, TaskTypes
  <2> QED
    BY <1>13, <1>s, <2>1 DEF memoryExit
<1>14. CASE allocBuff
  <2>1. run'["full"] = run["full"] /\ jiffies' = jiffies
    BY <1>14, <1>m, <1>n DEF allocBuff, Goes, TaskTypes
  <2>2. "buf" \in TaskModules /\ "full" # "buf"
    BY <1>n
  <2>3. PICK o \in Objects, k \in Nat : Grows("buf", k, o)
    BY <1>14, <1>m, BufGrows
  <2>4. held'["full"] = held["full"]
    BY <1>t, <2>2, <2>3 DEF Grows, OthersHold
  <2>5. \A i \in HeldAt("full") : heap'[held["full"][i]] = heap[held["full"][i]]
    BY <1>m, <1>t, <1>v, <2>2, <2>3, GrowsHold DEF HoldInv
  <2> QED
    BY <1>s, <2>1, <2>4, <2>5
<1>15. CASE exitKernelAlloc
  <2>1. run'["full"] = run["full"] /\ jiffies' = jiffies
    BY <1>15, <1>m, <1>n DEF exitKernelAlloc, Goes, TaskTypes
  <2>2. "buf" \in TaskModules /\ "full" # "buf"
    BY <1>n
  <2>3. Shrinks("buf", 1)
    BY <1>15, <1>m, BufShrinks
  <2>4. held'["full"] = held["full"]
    BY <1>t, <2>2, <2>3 DEF Shrinks, OthersHold
  <2>5. \A i \in HeldAt("full") : heap'[held["full"][i]] = heap[held["full"][i]]
    BY <1>m, <1>t, <1>v, <2>2, <2>3, ShrinksHold DEF HoldInv
  <2> QED
    BY <1>s, <2>1, <2>4, <2>5
<1>16. CASE Tick
  <2>1. run' = run /\ held' = held /\ run["full"] \in {"alloc", "remove"}
        /\ jiffies' = (jiffies + 1) % W
    BY <1>16 DEF Tick
  <2>2. jiffies \in 0..(W - 1) /\ W \in Nat /\ Expiry \in Nat /\ W > Expiry + 1
    BY <1>m, TaskModsAssumption DEF TaskTypes
  <2>3. jiffies' = IF jiffies = W - 1 THEN 0 ELSE jiffies + 1
    BY <2>1, <2>2, ClockMod
  <2>4. ASSUME NEW i \in HeldAt("full"), NEW o, o = held["full"][i] PROVE OnClock(o)'
    <3> DEFINE e == heap[o]
               f == heap'[o]
    <3>1. o \in Objects /\ OnClock(o) /\ Contains(held["full"], o)
      BY <1>m, <1>v, <2>1, <2>4 DEF ClockInv, Contains, HeldAt
    <3>2. e \in [who : Nat, ts : Nat, age : Nat]
      BY <1>m, <3>1 DEF TaskTypes
    <3>3. f = IF Timed("full", e.who)
          /\ e.age <= Expiry THEN [e EXCEPT !.age = e.age + 1] ELSE e
      BY <1>16, <3>1 DEF Tick
    <3>4. Timed("full", e.who) /\ e.age <= Expiry =>
            e.ts < W /\ (jiffies - e.ts = e.age \/ jiffies - e.ts = e.age - W)
      BY <3>1 DEF OnClock
    <3> DEFINE d == Timed("full", e.who)
    <3> HIDE DEF e, f, d
    <3>6. CASE ~(d /\ e.age <= Expiry)
      <4>1. f = e
        BY <3>3, <3>6 DEF d
      <4> QED
        BY <3>6, <4>1 DEF OnClock, Timed, d, e, f
    <3>7. CASE d /\ e.age <= Expiry
      <4>1. f.ts = e.ts /\ f.age = e.age + 1 /\ e.ts \in Nat /\ e.age \in Nat
        BY <3>2, <3>3, <3>7 DEF d
      <4>2. e.ts < W /\ (jiffies - e.ts = e.age \/ jiffies - e.ts = e.age - W)
        BY <3>4, <3>7 DEF d
      <4>3. f.ts < W /\ (jiffies' - f.ts = f.age \/ jiffies' - f.ts = f.age - W)
        BY <2>2, <2>3, <3>7, <4>1, <4>2
      <4> QED
        BY <4>3 DEF OnClock, f
    <3> QED
      BY <3>6, <3>7
  <2>5. HeldAt("full")' = HeldAt("full")
    BY <2>1 DEF HeldAt
  <2> QED
    BY <2>1, <2>4, <2>5 DEF ClockInv
<1>17. CASE UNCHANGED taskVars
  BY <1>17, <1>0 DEF taskVars
<1> QED
  BY <1>1, <1>2, <1>3, <1>4, <1>5, <1>6, <1>7, <1>8, <1>9, <1>10, <1>11, <1>12, <1>13,
     <1>14, <1>15, <1>16, <1>17 DEF TaskNext

-----------------------------------------------------------------------------
(* The allocation modules: the theorems *)

LEMMA TaskInvInit == AllInit => TaskInv
<1> SUFFICES ASSUME TaskInit PROVE TaskInv
  BY DEF AllInit
<1>1. /\ TaskModules = {"list", "full", "mem", "buf"} /\ Lists = {"list", "full"}
      /\ Len(Ancestors) \in Nat /\ Len(Ancestors) >= 3
  BY ModuleNames
<1>2. /\ \A m \in TaskModules : run[m] = "out" /\ next[m] = 1 /\ held[m] = <<>>
           /\ missing[m] = {}
      /\ \A o \in Objects : heap[o] = NoObject
  BY DEF TaskInit
<1>3. \A m \in TaskModules : Len(held[m]) = 0 /\ HeldAt(m) = {}
  BY <1>2 DEF HeldAt
<1>4. TaskTypes
  <2>1. <<>> \in Seq(Objects \cup {NullPtr}) /\ NoObject \in [who : Nat, ts : Nat, age : Nat]
        /\ 1 \in Nat \ {0} /\ 0 \in 0..(W - 1)
    BY TaskModsAssumption DEF NoObject
  <2>2. /\ run \in [TaskModules -> {"out", "alloc", "remove", "print", "live", "free", "dead"}]
        /\ held \in [TaskModules -> Seq(Objects \cup {NullPtr})]
        /\ missing \in [TaskModules -> SUBSET Nat]
    BY <2>1 DEF TaskInit
  <2>3. heap \in [Objects -> [who : Nat, ts : Nat, age : Nat]]
    BY <2>1 DEF TaskInit
  <2>4. next \in [TaskModules -> Nat \ {0}] /\ jiffies \in 0..(W - 1)
    BY <2>1 DEF TaskInit
  <2> QED
    BY <2>2, <2>3, <2>4 DEF TaskTypes
<1>5. RunInv
  BY <1>1, <1>2 DEF RunInv
<1>6. LenInv
  BY <1>1, <1>2, <1>3 DEF LenInv
<1>7. CountInv
  BY <1>1, <1>2, FS_EmptySet DEF CountInv
<1>8. NullInv /\ UsedInv /\ OnceInv
  BY <1>3 DEF NullInv, UsedInv, OnceInv
<1>9. LostInv
  <2>1. Orphans = {}
    BY <1>2 DEF Orphans
  <2> QED
    BY <1>1, <2>1, FS_EmptySet DEF LostInv
<1>10. ListedInv /\ ClockInv
  BY <1>1, <1>2 DEF ListedInv, ClockInv
<1> QED
  BY <1>4, <1>5, <1>6, <1>7, <1>8, <1>9, <1>10 DEF TaskInv

\* The invariant of the modules that only allocate and free.
THEOREM TaskInvariance == AllSpec => []TaskInv
<1>1. TaskInv /\ [AllNext]_allVars => TaskInv'
  <2> SUFFICES ASSUME TaskInv, [AllNext]_allVars PROVE TaskInv'
    OBVIOUS
  <2>1. [TaskNext]_taskVars
    BY DEF AllNext, allVars
  <2>2. TaskTypes' /\ RunInv' /\ LenInv' /\ CountInv' /\ NullInv'
    BY <2>1, TaskTypeStep, RunStep, LenStep, CountStep, NullStep
  <2>3. UsedInv' /\ OnceInv' /\ LostInv' /\ ListedInv' /\ ClockInv'
    BY <2>1, HoldStep, LostStep, ListedStep, ClockStep
  <2> QED
    BY <2>2, <2>3 DEF TaskInv
<1> QED
  BY <1>1, TaskInvInit, PTL DEF AllSpec

\* Whatever fails and however list, full, mem and buf interleave: an object in
\* use is reached from exactly one of their pointers and a freed one from none,
\* so that no kfree is the second of its object, and only memoryInit leaks, by
\* its death, fewer objects than it asked for.
THEOREM ObjectsOwned == AllSpec => []HeapOwned
<1>1. TaskInv => HeapOwned
  <2> SUFFICES ASSUME TaskInv PROVE HeapOwned
    OBVIOUS
  <2>1. TaskTypes /\ UsedInv /\ OnceInv /\ LostInv
    BY DEF TaskInv
  <2>2. ASSUME NEW o \in Objects, NEW x \in Owners(o)
        PROVE  /\ x = <<x[1], x[2]>> /\ x[1] \in TaskModules /\ x[2] \in HeldAt(x[1])
               /\ held[x[1]][x[2]] = o
    BY <2>1, ModuleNames DEF Owners, HeldAt, TaskTypes
  <2>3. ASSUME NEW o \in Objects PROVE Cardinality(Owners(o)) <= 1
    <3>1. ASSUME NEW x \in Owners(o), NEW y \in Owners(o) PROVE x = y
      <4>1. x[1] = y[1] /\ x[2] = y[2]
        BY <2>1, <2>2, ModuleNames DEF OnceInv
      <4> QED
        BY <2>2, <4>1
    <3>2. Owners(o) = {} \/ \E x : Owners(o) = {x}
      BY <3>1
    <3>3. Cardinality(Owners(o)) = 0 \/ Cardinality(Owners(o)) = 1
      BY <3>2, FS_EmptySet, FS_Singleton
    <3> QED
      BY <3>3
  <2>4. ASSUME NEW o \in Unused PROVE Owners(o) = {}
    <3>1. o \in Objects /\ heap[o] = NoObject /\ o # NullPtr
      BY ModuleNames DEF Unused
    <3> QED
      BY <2>1, <2>2, <3>1 DEF UsedInv
  <2> QED
    BY <2>1, <2>3, <2>4 DEF HeapOwned, LostInv
<1> QED
  BY <1>1, TaskInvariance, PTL

\* When a list has loaded, each ancestor has exactly one entry, unless kmalloc
\* failed for it or remove_expired took out what was truly older than 3 * HZ,
\* wherever jiffies wrapped.
THEOREM AncestorsAccounted == AllSpec => []Accounted
<1>1. TaskInv => Accounted
  <2> SUFFICES ASSUME TaskInv, NEW m \in Lists, run[m] = "live"
               PROVE  /\ {heap[o].who : o \in ToSet(held[m])} = (1..Len(Ancestors)) \ missing[m]
                      /\ Len(held[m]) + Cardinality(missing[m]) = Len(Ancestors)
    BY DEF Accounted
  <2>1. CountInv /\ Listed(m) /\ TaskTypes /\ m \in TaskModules
    BY ModuleNames DEF TaskInv, ListedInv
  <2>2. Reached(m) = 1..Len(Ancestors)
    BY DEF Reached
  <2>3. ToSet(held[m]) = {held[m][i] : i \in HeldAt(m)}
    <3>1. held[m] \in Seq(Objects \cup {NullPtr})
      BY <2>1 DEF TaskTypes
    <3>2. DOMAIN held[m] = HeldAt(m)
      BY <3>1 DEF HeldAt
    <3> QED
      BY <3>2 DEF ToSet
  <2>4. {heap[o].who : o \in ToSet(held[m])} = {Who(m, i) : i \in HeldAt(m)}
    BY <2>3 DEF Who
  <2>5. {Who(m, i) : i \in HeldAt(m)} = Reached(m) \ missing[m]
    BY <2>1 DEF Listed
  <2>6. Len(held[m]) + Cardinality(missing[m]) = Len(Ancestors)
    BY <2>1 DEF CountInv
  <2> QED
    BY <2>2, <2>4, <2>5, <2>6
<1> QED
  BY <1>1, TaskInvariance, PTL
=============================================================================
