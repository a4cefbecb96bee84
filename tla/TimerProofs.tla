--------------------------- MODULE TimerProofs ---------------------------
(***************************************************************************)
(* Proofs about the timer driver, for any number of threads, tasks and     *)
(* list entries.  They hold up to the point where a handler and            *)
(* deferred_exit overlap, which ends a behaviour of the model (Undefined). *)
(***************************************************************************)
EXTENDS DeferredTimer, KernelListProofs, TLAPS

-----------------------------------------------------------------------------
(* The inductive invariant *)

PcInv ==
  /\ \A t \in Threads : pc[t] \in {"user", "found", "got", "add", "added"} \cup Types
  /\ pc[Timer] \in {"idle", "switch", "spin", "walk"}

\* How far deferred_exit has come tells who can still be at work: calls need an
\* open file, and a file a live module.  Only a handler that overlaps with the
\* exit is at work in a module that goes.
ModInv ==
  /\ \A t \in Threads : pc[t] # "user" => t \in opened
  /\ opened # {} => mod = "live"
  /\ mod \notin {"live", "del_timer"} => timer = Nil
  /\ mod \in {"out", "added"} => pc[Timer] = "idle"
  /\ mod \in {"out", "added", "exit_walk"} => work = {}
  /\ mod \in {"out", "added"} => list = <<>>

\* Whoever is about to arm the timer has written the flag.
FlagInv == \A t \in Threads : pc[t] \in Types => flag # "NONE"

\* The lock is held by the one context that is in its critical section, so
\* that list_add stores in front of the node that it loaded.
LockInv ==
  /\ \A t \in Threads : pc[t] = "add" <=> lock = t
  /\ pc[Timer] = "walk" <=> lock = Timer
  /\ \A t \in Threads : pc[t] = "add" => snap[t] = list

\* Every entry is linked once or in the hands of one thread, which has not
\* linked it; the others are free.
OwnInv ==
  /\ Distinct(list)
  /\ \A n \in Nodes : heap[n] # Nil <=> n \in Linked(list) \/ \E t \in Threads : node[t] = n
  /\ \A t \in Threads : node[t] \notin Linked(list)
  /\ \A t, u \in Threads : node[t] = node[u] /\ node[t] # Nil => t = u

\* The locals of an ioctl.
LocalInv ==
  /\ \A t \in Threads : node[t] # Nil <=> pc[t] \in {"got", "add"}
  /\ \A t \in Threads : task[t] # Nil <=> pc[t] = "found"

\* The saved successor is the successor, and what was dead when the walk began
\* is still ahead of it, dead.
HandlerInv ==
  pc[Timer] = "walk" =>
    /\ p[Timer] \in Linked(list) \cup {HEAD}
    /\ q[Timer] = NextOf(list, p[Timer])
    /\ doomed \cap Linked(list) \subseteq Ahead(list, p[Timer])
    /\ \A n \in doomed \cap Linked(list) : tstate[heap[n]] # "alive"

\* The walk of deferred_exit stands at the head of what is left.
ExitInv ==
  mod = "exit_walk" => p[Rmmod] = First(list) /\ q[Rmmod] = NextOf(list, First(list))

Holders(k) == {n \in Nodes : heap[n] = k}

RefInv ==
  \A k \in Tasks :
    /\ IsFiniteSet(Holders(k))
    /\ usage[k] = Cardinality(Holders(k)) + (IF tstate[k] = "gone" THEN 0 ELSE 1)

IInv ==
  /\ TypeOK /\ PcInv /\ ModInv /\ FlagInv /\ LockInv /\ OwnInv /\ LocalInv
  /\ HandlerInv /\ ExitInv /\ RefInv

-----------------------------------------------------------------------------
(* The steps that change the list *)

\* list_add happens to the list that list_add has looked at.
LEMMA AddList ==
  ASSUME IInv, NEW t \in Threads, AddStore(t)
  PROVE  /\ lock = t /\ node[t] \in Nodes /\ node[t] \notin Linked(list)
         /\ list' \in Seq(Nodes)
         /\ Linked(list') = Linked(list) \cup {node[t]}
         /\ Distinct(list')
<1> USE DEF IInv, TypeOK, LockInv, OwnInv, LocalInv
<1>1. pc[t] = "add" /\ lock = t /\ snap[t] = list /\ node[t] \in Nodes /\ node[t] \notin Linked(list)
  BY DEF AddStore
<1>2. list' = Pushed(list, node[t])
  BY <1>1 DEF AddStore
<1>3. list \in Seq(Nodes) /\ Distinct(list)
  OBVIOUS
<1> QED
  BY <1>1, <1>2, <1>3, PushedList

\* A walk that deletes comes to the node that it has saved, which is linked.
LEMMA DropList ==
  ASSUME IInv, NEW x \in {Timer, Rmmod}, Drop(x),
         p[x] \in Linked(list), q[x] = NextOf(list, p[x])
  PROVE  /\ p[x] \in Nodes /\ heap[p[x]] \in Tasks
         /\ list' \in Seq(Nodes)
         /\ Linked(list') = Linked(list) \ {p[x]}
         /\ Distinct(list')
         /\ p'[x] = q[x] /\ q[x] \in Linked(list') \cup {HEAD}
         /\ q'[x] = NextOf(list', p'[x]) /\ q'[x] \in Linked(list') \cup {HEAD}
         /\ Ahead(list', p'[x]) = Ahead(list, p[x]) \ {p[x]}
         /\ p[x] = First(list) => p'[x] = First(list')
<1>1. list \in Seq(Nodes) /\ Distinct(list) /\ HEAD \notin Nodes
  BY DeferredTimerAssumption DEF IInv, TypeOK, OwnInv
<1>2. list' = Without(list, p[x])
  BY DEF Drop
<1>3. p'[x] = q[x] /\ q'[x] = NextOf(list, q[x])
  BY DEF Drop, Advance, IInv, TypeOK
<1>4. list' \in Seq(Nodes) /\ Linked(list') = Linked(list) \ {p[x]} /\ Distinct(list')
  BY <1>1, <1>2, WithoutList
<1>5. /\ q[x] \in Linked(list') \cup {HEAD}
      /\ NextOf(list', q[x]) = NextOf(list, q[x])
      /\ Ahead(list', q[x]) = Ahead(list, q[x])
      /\ p[x] = First(list) => First(list') = q[x]
  BY <1>1, <1>2, WithoutNext
<1>6. Ahead(list, q[x]) = Ahead(list, p[x]) \ {p[x]}
  BY <1>1, AheadNext
<1>7. p[x] \in Nodes /\ heap[p[x]] \in Tasks
  <2>1. p[x] \in Nodes
    BY <1>1, LinkedNodes
  <2> QED
    BY <2>1 DEF IInv, OwnInv, TypeOK
<1>8. NextOf(list', q[x]) \in Linked(list') \cup {HEAD}
  BY <1>1, <1>4, NextNode
<1> QED
  BY <1>3, <1>4, <1>5, <1>6, <1>7, <1>8

\* The handler's walk deletes a linked node whose task is dead.
LEMMA DropDeadList ==
  ASSUME IInv, DropDead
  PROVE  p[Timer] \in Linked(list) /\ q[Timer] = NextOf(list, p[Timer]) /\ Drop(Timer)
BY DEF DropDead, IInv, HandlerInv

\* The walk of deferred_exit deletes the first node.
LEMMA ExitDropList ==
  ASSUME IInv, ~Overlap, ExitDrop
  PROVE  /\ p[Rmmod] \in Linked(list) /\ q[Rmmod] = NextOf(list, p[Rmmod]) /\ Drop(Rmmod)
         /\ p[Rmmod] = First(list)
         /\ pc[Timer] = "idle" /\ opened = {}
<1>1. list \in Seq(Nodes)
  BY DEF IInv, TypeOK
<1>2. p[Rmmod] = First(list) /\ q[Rmmod] = NextOf(list, p[Rmmod]) /\ p[Rmmod] # HEAD
  BY DEF ExitDrop, IInv, ExitInv
<1>3. p[Rmmod] \in Linked(list)
  BY <1>1, <1>2, LinkedNodes
<1> QED
  BY <1>2, <1>3 DEF ExitDrop, IInv, ModInv, Overlap

\* The head and its successor.
LEMMA BeginList ==
  ASSUME IInv
  PROVE  /\ First(list) \in Linked(list) \cup {HEAD}
         /\ First(list) = HEAD => list = <<>>
         /\ NextOf(list, First(list)) \in Linked(list) \cup {HEAD}
         /\ Ahead(list, First(list)) = Linked(list)
         /\ Linked(list) \subseteq Nodes
<1>1. list \in Seq(Nodes) /\ Distinct(list) /\ HEAD \notin Nodes
  BY DeferredTimerAssumption DEF IInv, TypeOK, OwnInv
<1>2. Linked(list) \subseteq Nodes
  BY <1>1, LinkedNodes
<1> QED
  BY <1>1, <1>2, LinkedNodes, NextNode, AheadEnds

-----------------------------------------------------------------------------
(* Each part of the invariant is preserved *)

\* Every step leads a context on through its own function.
LEMMA PcStep ==
  ASSUME ~Overlap, IInv, [Step]_vars
  PROVE  PcInv'
<1>p. /\ pc \in [Contexts -> {"user", "found", "got", "add", "added", "idle", "switch",
                              "spin", "walk"} \cup Types]
      /\ PcInv
  BY DEF IInv, TypeOK
<1>0. UNCHANGED <<pc>> => PcInv'
  BY DEF IInv, PcInv
<1>1. ASSUME NEW t \in Threads,
              timer_open(t) \/ timer_release(t) \/ Cancel(t)
      PROVE  PcInv'
  BY <1>1, <1>0 DEF timer_open, timer_release, Cancel, tasks, calls, walk
<1>2. CASE DropDead \/ KeepLiving \/ WorkStart \/ WorkEnd \/ CdevAdd \/ SetUp
              \/ deferred_exit \/ DelTimer \/ CancelWork \/ ExitDrop \/ ExitReturns
  BY <1>2, <1>0 DEF DropDead, KeepLiving, WorkStart, WorkEnd, CdevAdd, SetUp,
     deferred_exit, DelTimer, CancelWork, ExitDrop, ExitReturns, tasks, calls, walk
<1>3. ASSUME NEW k \in Tasks,
              Dies(k) \/ Reaped(k) \/ KernelPut(k)
      PROVE  PcInv'
  BY <1>3, <1>0 DEF Dies, Reaped, KernelPut, tasks, calls, walk
<1>4. ASSUME NEW t \in Threads, NEW type \in {"SET", "ALLOC"}, SetFlag(t, type) PROVE PcInv'
  BY <1>4, <1>p, DeferredTimerAssumption DEF SetFlag, Goto, Types, tasks, calls, walk,
     PcInv, Contexts
<1>5. ASSUME NEW t \in Threads, NEW type \in Types, ModTimer(t, type) PROVE PcInv'
  BY <1>5, <1>p, DeferredTimerAssumption DEF ModTimer, Goto, Types, tasks, calls, walk,
     PcInv, Contexts
<1>6. ASSUME NEW t \in Threads, PidTask(t) PROVE PcInv'
  BY <1>6, <1>p, DeferredTimerAssumption DEF PidTask, Goto, tasks, calls, walk, PcInv,
     Contexts, Types
<1>7. ASSUME NEW t \in Threads, NoMemory(t) PROVE PcInv'
  BY <1>7, <1>p, DeferredTimerAssumption DEF NoMemory, Goto, tasks, calls, walk, PcInv,
     Contexts, Types
<1>8. ASSUME NEW t \in Threads, GetTask(t) PROVE PcInv'
  BY <1>8, <1>p, DeferredTimerAssumption DEF GetTask, Goto, tasks, calls, walk, PcInv,
     Contexts, Types
<1>9. ASSUME NEW t \in Threads, AddLock(t) PROVE PcInv'
  BY <1>9, <1>p, DeferredTimerAssumption DEF AddLock, Goto, tasks, calls, walk, PcInv,
     Contexts, Types
<1>10. ASSUME NEW t \in Threads, AddStore(t) PROVE PcInv'
  BY <1>10, <1>p, DeferredTimerAssumption DEF AddStore, Goto, tasks, calls, walk, PcInv,
     Contexts, Types
<1>11. ASSUME NEW t \in Threads, MonitorFlag(t) PROVE PcInv'
  BY <1>11, <1>p, DeferredTimerAssumption DEF MonitorFlag, Goto, tasks, calls, walk,
     PcInv, Contexts, Types
<1>12. CASE Expires
  BY <1>12, <1>p, DeferredTimerAssumption DEF Expires, Goto, tasks, calls, walk, PcInv,
     Contexts, Types
<1>13. CASE HandleSet
  BY <1>13, <1>p, DeferredTimerAssumption DEF HandleSet, Goto, tasks, calls, walk,
     PcInv, Contexts, Types
<1>14. CASE HandleAlloc
  BY <1>14, <1>p, DeferredTimerAssumption DEF HandleAlloc, Goto, tasks, calls, walk,
     PcInv, Contexts, Types
<1>15. CASE HandleMonitor
  BY <1>15, <1>p, DeferredTimerAssumption DEF HandleMonitor, Goto, tasks, calls, walk,
     PcInv, Contexts, Types
<1>16. CASE MonitorLock
  BY <1>16, <1>p, DeferredTimerAssumption DEF MonitorLock, Goto, Begin, tasks, calls,
     walk, PcInv, Contexts, Types
<1>17. CASE MonitorUnlock
  BY <1>17, <1>p, DeferredTimerAssumption DEF MonitorUnlock, Goto, tasks, calls, walk,
     PcInv, Contexts, Types
<1>18. CASE UNCHANGED vars
  BY <1>18, <1>0 DEF vars, tasks, calls, walk
<1> QED
  BY <1>1, <1>2, <1>3, <1>4, <1>5, <1>6, <1>7, <1>8, <1>9, <1>10, <1>11, <1>12, <1>13,
     <1>14, <1>15, <1>16, <1>17, <1>18 DEF Step, Ioctl, IoctlStep, Handler, Exit, Types

\* Nobody is left at work when deferred_exit returns without an overlap.
LEMMA ModStep ==
  ASSUME ~Overlap, IInv, [Step]_vars
  PROVE  ModInv'
<1>p. /\ pc \in [Contexts -> {"user", "found", "got", "add", "added", "idle", "switch",
                              "spin", "walk"} \cup Types]
      /\ PcInv
  BY DEF IInv, TypeOK
<1>m. ModInv /\ LockInv /\ ExitInv /\ opened \subseteq Threads
  BY DEF IInv, TypeOK
<1>0. UNCHANGED <<pc, opened, mod, timer, work, list>> => ModInv'
  BY DEF IInv, ModInv
<1>1. CASE KeepLiving
  BY <1>1, <1>0 DEF KeepLiving, tasks, calls, walk
<1>2. ASSUME NEW k \in Tasks,
              Dies(k) \/ Reaped(k) \/ KernelPut(k)
      PROVE  ModInv'
  BY <1>2, <1>0 DEF Dies, Reaped, KernelPut, tasks, calls, walk
<1>3. ASSUME NEW t \in Threads, timer_open(t) PROVE ModInv'
  BY <1>3, <1>p, <1>m, DeferredTimerAssumption DEF timer_open, tasks, calls, walk,
     ModInv, Contexts, PcInv
<1>4. ASSUME NEW t \in Threads, timer_release(t) PROVE ModInv'
  BY <1>4, <1>p, <1>m, DeferredTimerAssumption DEF timer_release, tasks, calls, walk,
     ModInv, Contexts, PcInv
<1>5. ASSUME NEW t \in Threads, NEW type \in {"SET", "ALLOC"}, SetFlag(t, type) PROVE ModInv'
  BY <1>5, <1>p, <1>m, DeferredTimerAssumption DEF SetFlag, Goto, Types, tasks, calls,
     walk, ModInv, Contexts, PcInv
<1>6. ASSUME NEW t \in Threads, NEW type \in Types, ModTimer(t, type) PROVE ModInv'
  BY <1>6, <1>p, <1>m, DeferredTimerAssumption DEF ModTimer, Goto, Types, tasks, calls,
     walk, ModInv, Contexts, PcInv
<1>7. ASSUME NEW t \in Threads, Cancel(t) PROVE ModInv'
  BY <1>7, <1>p, <1>m, DeferredTimerAssumption DEF Cancel, tasks, calls, walk, ModInv,
     Contexts, PcInv
<1>8. ASSUME NEW t \in Threads, PidTask(t) PROVE ModInv'
  BY <1>8, <1>p, <1>m, DeferredTimerAssumption DEF PidTask, Goto, tasks, calls, walk,
     ModInv, Contexts, PcInv
<1>9. ASSUME NEW t \in Threads, NoMemory(t) PROVE ModInv'
  BY <1>9, <1>p, <1>m, DeferredTimerAssumption DEF NoMemory, Goto, tasks, calls, walk,
     ModInv, Contexts, PcInv
<1>10. ASSUME NEW t \in Threads, GetTask(t) PROVE ModInv'
  BY <1>10, <1>p, <1>m, DeferredTimerAssumption DEF GetTask, Goto, tasks, calls, walk,
     ModInv, Contexts, PcInv
<1>11. ASSUME NEW t \in Threads, AddLock(t) PROVE ModInv'
  BY <1>11, <1>p, <1>m, DeferredTimerAssumption DEF AddLock, Goto, tasks, calls, walk,
     ModInv, Contexts, PcInv
<1>12. ASSUME NEW t \in Threads, AddStore(t) PROVE ModInv'
  BY <1>12, <1>p, <1>m, DeferredTimerAssumption DEF AddStore, Goto, tasks, calls, walk,
     ModInv, Contexts, PcInv, LockInv
<1>13. ASSUME NEW t \in Threads, MonitorFlag(t) PROVE ModInv'
  BY <1>13, <1>p, <1>m, DeferredTimerAssumption DEF MonitorFlag, Goto, tasks, calls,
     walk, ModInv, Contexts, PcInv
<1>14. CASE Expires
  BY <1>14, <1>p, <1>m, DeferredTimerAssumption DEF Expires, Goto, tasks, calls, walk,
     ModInv, Contexts, PcInv
<1>15. CASE HandleSet
  BY <1>15, <1>p, <1>m, DeferredTimerAssumption DEF HandleSet, Goto, tasks, calls, walk,
     ModInv, Contexts, PcInv
<1>16. CASE HandleAlloc
  BY <1>16, <1>p, <1>m, DeferredTimerAssumption DEF HandleAlloc, Goto, tasks, calls,
     walk, Overlap, ModInv, Contexts, PcInv
<1>17. CASE HandleMonitor
  BY <1>17, <1>p, <1>m, DeferredTimerAssumption DEF HandleMonitor, Goto, tasks, calls,
     walk, ModInv, Contexts, PcInv
<1>18. CASE MonitorLock
  BY <1>18, <1>p, <1>m, DeferredTimerAssumption DEF MonitorLock, Goto, Begin, tasks,
     calls, walk, ModInv, Contexts, PcInv
<1>19. CASE DropDead
  BY <1>19, <1>p, <1>m, DeferredTimerAssumption DEF DropDead, Drop, Advance, tasks,
     calls, walk, ModInv, Contexts, PcInv
<1>20. CASE MonitorUnlock
  BY <1>20, <1>p, <1>m, DeferredTimerAssumption DEF MonitorUnlock, Goto, tasks, calls,
     walk, ModInv, Contexts, PcInv
<1>21. CASE WorkStart
  BY <1>21, <1>p, <1>m, DeferredTimerAssumption DEF WorkStart, tasks, calls, walk,
     ModInv, Contexts, PcInv
<1>22. CASE WorkEnd
  BY <1>22, <1>p, <1>m, DeferredTimerAssumption DEF WorkEnd, tasks, calls, walk, ModInv,
     Contexts, PcInv
<1>23. CASE CdevAdd
  BY <1>23, <1>p, <1>m, DeferredTimerAssumption DEF CdevAdd, tasks, calls, walk, ModInv,
     Contexts, PcInv
<1>24. CASE SetUp
  BY <1>24, <1>p, <1>m, DeferredTimerAssumption DEF SetUp, tasks, calls, walk, ModInv,
     Contexts, PcInv
<1>25. CASE deferred_exit
  BY <1>25, <1>p, <1>m, DeferredTimerAssumption DEF deferred_exit, tasks, calls, walk,
     ModInv, Contexts, PcInv
<1>26. CASE DelTimer
  BY <1>26, <1>p, <1>m, DeferredTimerAssumption DEF DelTimer, tasks, calls, walk,
     ModInv, Contexts, PcInv
<1>27. CASE CancelWork
  BY <1>27, <1>p, <1>m, DeferredTimerAssumption DEF CancelWork, Begin, tasks, calls,
     walk, ModInv, Contexts, PcInv
<1>28. CASE ExitDrop
  BY <1>28, <1>p, <1>m, DeferredTimerAssumption DEF ExitDrop, Drop, Advance, tasks,
     calls, walk, ModInv, Contexts, PcInv
<1>29. CASE ExitReturns
  BY <1>29, <1>p, <1>m, DeferredTimerAssumption, BeginList DEF ExitReturns, tasks,
     calls, walk, Overlap, ModInv, Contexts, PcInv, ExitInv
<1>30. CASE UNCHANGED vars
  BY <1>30, <1>0 DEF vars, tasks, calls, walk
<1> QED
  BY <1>1, <1>2, <1>3, <1>4, <1>5, <1>6, <1>7, <1>8, <1>9, <1>10, <1>11, <1>12, <1>13,
     <1>14, <1>15, <1>16, <1>17, <1>18, <1>19, <1>20, <1>21, <1>22, <1>23, <1>24, <1>25,
     <1>26, <1>27, <1>28, <1>29, <1>30 DEF Step, Ioctl, IoctlStep, Handler, Exit, Types

\* The flag is written before the timer is armed.
LEMMA FlagStep ==
  ASSUME ~Overlap, IInv, [Step]_vars
  PROVE  FlagInv'
<1>p. /\ pc \in [Contexts -> {"user", "found", "got", "add", "added", "idle", "switch",
                              "spin", "walk"} \cup Types]
      /\ PcInv
  BY DEF IInv, TypeOK
<1>m. ModInv /\ FlagInv
  BY DEF IInv
<1>0. UNCHANGED <<pc, flag>> => FlagInv'
  BY DEF IInv, FlagInv
<1>1. ASSUME NEW t \in Threads,
              timer_open(t) \/ timer_release(t) \/ Cancel(t)
      PROVE  FlagInv'
  BY <1>1, <1>0 DEF timer_open, timer_release, Cancel, tasks, calls, walk
<1>2. CASE DropDead \/ KeepLiving \/ WorkStart \/ WorkEnd \/ CdevAdd \/ deferred_exit
              \/ DelTimer \/ CancelWork \/ ExitDrop \/ ExitReturns
  BY <1>2, <1>0 DEF DropDead, KeepLiving, WorkStart, WorkEnd, CdevAdd, deferred_exit,
     DelTimer, CancelWork, ExitDrop, ExitReturns, tasks, calls, walk
<1>3. ASSUME NEW k \in Tasks,
              Dies(k) \/ Reaped(k) \/ KernelPut(k)
      PROVE  FlagInv'
  BY <1>3, <1>0 DEF Dies, Reaped, KernelPut, tasks, calls, walk
<1>4. ASSUME NEW t \in Threads, NEW type \in {"SET", "ALLOC"}, SetFlag(t, type) PROVE FlagInv'
  BY <1>4, <1>p, <1>m, DeferredTimerAssumption DEF SetFlag, Goto, Types, tasks, calls,
     walk, FlagInv, Contexts
<1>5. ASSUME NEW t \in Threads, NEW type \in Types, ModTimer(t, type) PROVE FlagInv'
  BY <1>5, <1>p, <1>m, DeferredTimerAssumption DEF ModTimer, Goto, Types, tasks, calls,
     walk, FlagInv, Contexts
<1>6. ASSUME NEW t \in Threads, PidTask(t) PROVE FlagInv'
  BY <1>6, <1>p, <1>m, DeferredTimerAssumption DEF PidTask, Goto, tasks, calls, walk,
     FlagInv, Contexts, Types
<1>7. ASSUME NEW t \in Threads, NoMemory(t) PROVE FlagInv'
  BY <1>7, <1>p, <1>m, DeferredTimerAssumption DEF NoMemory, Goto, tasks, calls, walk,
     FlagInv, Contexts, Types
<1>8. ASSUME NEW t \in Threads, GetTask(t) PROVE FlagInv'
  BY <1>8, <1>p, <1>m, DeferredTimerAssumption DEF GetTask, Goto, tasks, calls, walk,
     FlagInv, Contexts, Types
<1>9. ASSUME NEW t \in Threads, AddLock(t) PROVE FlagInv'
  BY <1>9, <1>p, <1>m, DeferredTimerAssumption DEF AddLock, Goto, tasks, calls, walk,
     FlagInv, Contexts, Types
<1>10. ASSUME NEW t \in Threads, AddStore(t) PROVE FlagInv'
  BY <1>10, <1>p, <1>m, DeferredTimerAssumption DEF AddStore, Goto, tasks, calls, walk,
     FlagInv, Contexts, Types
<1>11. ASSUME NEW t \in Threads, MonitorFlag(t) PROVE FlagInv'
  BY <1>11, <1>p, <1>m, DeferredTimerAssumption DEF MonitorFlag, Goto, tasks, calls,
     walk, FlagInv, Contexts, Types
<1>12. CASE Expires
  BY <1>12, <1>p, <1>m, DeferredTimerAssumption DEF Expires, Goto, tasks, calls, walk,
     FlagInv, Contexts, Types
<1>13. CASE HandleSet
  BY <1>13, <1>p, <1>m, DeferredTimerAssumption DEF HandleSet, Goto, tasks, calls, walk,
     FlagInv, Contexts, Types
<1>14. CASE HandleAlloc
  BY <1>14, <1>p, <1>m, DeferredTimerAssumption DEF HandleAlloc, Goto, tasks, calls,
     walk, FlagInv, Contexts, Types
<1>15. CASE HandleMonitor
  BY <1>15, <1>p, <1>m, DeferredTimerAssumption DEF HandleMonitor, Goto, tasks, calls,
     walk, FlagInv, Contexts, Types
<1>16. CASE MonitorLock
  BY <1>16, <1>p, <1>m, DeferredTimerAssumption DEF MonitorLock, Goto, Begin, tasks,
     calls, walk, FlagInv, Contexts, Types
<1>17. CASE MonitorUnlock
  BY <1>17, <1>p, <1>m, DeferredTimerAssumption DEF MonitorUnlock, Goto, tasks, calls,
     walk, FlagInv, Contexts, Types
<1>18. CASE SetUp
  BY <1>18, <1>p, <1>m, DeferredTimerAssumption DEF SetUp, tasks, calls, walk, FlagInv,
     Contexts, Types, ModInv
<1>19. CASE UNCHANGED vars
  BY <1>19, <1>0 DEF vars, tasks, calls, walk
<1> QED
  BY <1>1, <1>2, <1>3, <1>4, <1>5, <1>6, <1>7, <1>8, <1>9, <1>10, <1>11, <1>12, <1>13,
     <1>14, <1>15, <1>16, <1>17, <1>18, <1>19 DEF Step, Ioctl, IoctlStep, Handler, Exit,
     Types

\* Nobody enters a critical section whose lock is taken.
LEMMA LockStep ==
  ASSUME ~Overlap, IInv, [Step]_vars
  PROVE  LockInv'
<1>p. /\ pc \in [Contexts -> {"user", "found", "got", "add", "added", "idle", "switch",
                              "spin", "walk"} \cup Types]
      /\ PcInv
  BY DEF IInv, TypeOK
<1>m. ModInv /\ LockInv /\ snap \in [Threads -> Seq(Nodes)]
  BY DEF IInv, TypeOK
<1>0. UNCHANGED <<pc, lock, snap, list>> => LockInv'
  BY DEF IInv, LockInv
<1>1. ASSUME NEW t \in Threads,
              timer_open(t) \/ timer_release(t) \/ Cancel(t)
      PROVE  LockInv'
  BY <1>1, <1>0 DEF timer_open, timer_release, Cancel, tasks, calls, walk
<1>2. CASE KeepLiving \/ WorkStart \/ WorkEnd \/ CdevAdd \/ deferred_exit \/ DelTimer
              \/ CancelWork \/ ExitReturns
  BY <1>2, <1>0 DEF KeepLiving, WorkStart, WorkEnd, CdevAdd, deferred_exit, DelTimer,
     CancelWork, ExitReturns, tasks, calls, walk
<1>3. ASSUME NEW k \in Tasks,
              Dies(k) \/ Reaped(k) \/ KernelPut(k)
      PROVE  LockInv'
  BY <1>3, <1>0 DEF Dies, Reaped, KernelPut, tasks, calls, walk
<1>4. ASSUME NEW t \in Threads, NEW type \in {"SET", "ALLOC"}, SetFlag(t, type) PROVE LockInv'
  BY <1>4, <1>p, <1>m, DeferredTimerAssumption DEF SetFlag, Goto, Types, tasks, calls,
     walk, LockInv, Contexts, PcInv
<1>5. ASSUME NEW t \in Threads, NEW type \in Types, ModTimer(t, type) PROVE LockInv'
  BY <1>5, <1>p, <1>m, DeferredTimerAssumption DEF ModTimer, Goto, Types, tasks, calls,
     walk, LockInv, Contexts, PcInv
<1>6. ASSUME NEW t \in Threads, PidTask(t) PROVE LockInv'
  BY <1>6, <1>p, <1>m, DeferredTimerAssumption DEF PidTask, Goto, tasks, calls, walk,
     LockInv, Contexts, PcInv
<1>7. ASSUME NEW t \in Threads, NoMemory(t) PROVE LockInv'
  BY <1>7, <1>p, <1>m, DeferredTimerAssumption DEF NoMemory, Goto, tasks, calls, walk,
     LockInv, Contexts, PcInv
<1>8. ASSUME NEW t \in Threads, GetTask(t) PROVE LockInv'
  BY <1>8, <1>p, <1>m, DeferredTimerAssumption DEF GetTask, Goto, tasks, calls, walk,
     LockInv, Contexts, PcInv
<1>9. ASSUME NEW t \in Threads, AddLock(t) PROVE LockInv'
  BY <1>9, <1>p, <1>m, DeferredTimerAssumption DEF AddLock, Goto, tasks, calls, walk,
     LockInv, Contexts, PcInv
<1>10. ASSUME NEW t \in Threads, AddStore(t) PROVE LockInv'
  BY <1>10, <1>p, <1>m, DeferredTimerAssumption DEF AddStore, Goto, tasks, calls, walk,
     LockInv, Contexts, PcInv
<1>11. ASSUME NEW t \in Threads, MonitorFlag(t) PROVE LockInv'
  BY <1>11, <1>p, <1>m, DeferredTimerAssumption DEF MonitorFlag, Goto, tasks, calls,
     walk, LockInv, Contexts, PcInv
<1>12. CASE Expires
  BY <1>12, <1>p, <1>m, DeferredTimerAssumption DEF Expires, Goto, tasks, calls, walk,
     LockInv, Contexts, PcInv
<1>13. CASE HandleSet
  BY <1>13, <1>p, <1>m, DeferredTimerAssumption DEF HandleSet, Goto, tasks, calls, walk,
     LockInv, Contexts, PcInv
<1>14. CASE HandleAlloc
  BY <1>14, <1>p, <1>m, DeferredTimerAssumption DEF HandleAlloc, Goto, tasks, calls,
     walk, LockInv, Contexts, PcInv
<1>15. CASE HandleMonitor
  BY <1>15, <1>p, <1>m, DeferredTimerAssumption DEF HandleMonitor, Goto, tasks, calls,
     walk, LockInv, Contexts, PcInv
<1>16. CASE MonitorLock
  BY <1>16, <1>p, <1>m, DeferredTimerAssumption DEF MonitorLock, Goto, Begin, tasks,
     calls, walk, LockInv, Contexts, PcInv
<1>17. CASE DropDead
  BY <1>17, <1>p, <1>m, DeferredTimerAssumption DEF DropDead, Drop, Advance, tasks,
     calls, walk, LockInv, Contexts, PcInv
<1>18. CASE MonitorUnlock
  BY <1>18, <1>p, <1>m, DeferredTimerAssumption DEF MonitorUnlock, Goto, tasks, calls,
     walk, LockInv, Contexts, PcInv
<1>19. CASE SetUp
  BY <1>19, <1>p, <1>m, DeferredTimerAssumption DEF SetUp, tasks, calls, walk, LockInv,
     Contexts, PcInv, ModInv
<1>20. CASE ExitDrop
  BY <1>20, <1>p, <1>m, DeferredTimerAssumption, ExitDropList DEF ExitDrop, Drop,
     Advance, tasks, calls, walk, LockInv, Contexts, PcInv, ModInv
<1>21. CASE UNCHANGED vars
  BY <1>21, <1>0 DEF vars, tasks, calls, walk
<1> QED
  BY <1>1, <1>2, <1>3, <1>4, <1>5, <1>6, <1>7, <1>8, <1>9, <1>10, <1>11, <1>12, <1>13,
     <1>14, <1>15, <1>16, <1>17, <1>18, <1>19, <1>20, <1>21 DEF Step, Ioctl, IoctlStep,
     Handler, Exit, Types

\* The locals are set and forgotten together with the place.
LEMMA LocalStep ==
  ASSUME ~Overlap, IInv, [Step]_vars
  PROVE  LocalInv'
<1>p. /\ pc \in [Contexts -> {"user", "found", "got", "add", "added", "idle", "switch",
                              "spin", "walk"} \cup Types]
      /\ PcInv
  BY DEF IInv, TypeOK
<1>m. LocalInv /\ node \in [Threads -> Nodes \cup {Nil}] /\ task \in [Threads -> Tasks \cup {Nil}]
  BY DEF IInv, TypeOK
<1>0. UNCHANGED <<pc, node, task>> => LocalInv'
  BY DEF IInv, LocalInv
<1>1. ASSUME NEW t \in Threads,
              timer_open(t) \/ timer_release(t) \/ Cancel(t)
      PROVE  LocalInv'
  BY <1>1, <1>0 DEF timer_open, timer_release, Cancel, tasks, calls, walk
<1>2. CASE DropDead \/ KeepLiving \/ WorkStart \/ WorkEnd \/ CdevAdd \/ SetUp
              \/ deferred_exit \/ DelTimer \/ CancelWork \/ ExitDrop \/ ExitReturns
  BY <1>2, <1>0 DEF DropDead, KeepLiving, WorkStart, WorkEnd, CdevAdd, SetUp,
     deferred_exit, DelTimer, CancelWork, ExitDrop, ExitReturns, tasks, calls, walk
<1>3. ASSUME NEW k \in Tasks,
              Dies(k) \/ Reaped(k) \/ KernelPut(k)
      PROVE  LocalInv'
  BY <1>3, <1>0 DEF Dies, Reaped, KernelPut, tasks, calls, walk
<1>4. ASSUME NEW t \in Threads, NEW type \in {"SET", "ALLOC"}, SetFlag(t, type) PROVE LocalInv'
  BY <1>4, <1>p, <1>m, DeferredTimerAssumption DEF SetFlag, Goto, Types, tasks, calls,
     walk, LocalInv, Contexts, PcInv
<1>5. ASSUME NEW t \in Threads, NEW type \in Types, ModTimer(t, type) PROVE LocalInv'
  BY <1>5, <1>p, <1>m, DeferredTimerAssumption DEF ModTimer, Goto, Types, tasks, calls,
     walk, LocalInv, Contexts, PcInv
<1>6. ASSUME NEW t \in Threads, PidTask(t) PROVE LocalInv'
  BY <1>6, <1>p, <1>m, DeferredTimerAssumption DEF PidTask, Goto, tasks, calls, walk,
     LocalInv, Contexts, PcInv
<1>7. ASSUME NEW t \in Threads, NoMemory(t) PROVE LocalInv'
  BY <1>7, <1>p, <1>m, DeferredTimerAssumption DEF NoMemory, Goto, tasks, calls, walk,
     LocalInv, Contexts, PcInv
<1>8. ASSUME NEW t \in Threads, GetTask(t) PROVE LocalInv'
  BY <1>8, <1>p, <1>m, DeferredTimerAssumption DEF GetTask, Goto, tasks, calls, walk,
     LocalInv, Contexts, PcInv
<1>9. ASSUME NEW t \in Threads, AddLock(t) PROVE LocalInv'
  BY <1>9, <1>p, <1>m, DeferredTimerAssumption DEF AddLock, Goto, tasks, calls, walk,
     LocalInv, Contexts, PcInv
<1>10. ASSUME NEW t \in Threads, AddStore(t) PROVE LocalInv'
  BY <1>10, <1>p, <1>m, DeferredTimerAssumption DEF AddStore, Goto, tasks, calls, walk,
     LocalInv, Contexts, PcInv
<1>11. ASSUME NEW t \in Threads, MonitorFlag(t) PROVE LocalInv'
  BY <1>11, <1>p, <1>m, DeferredTimerAssumption DEF MonitorFlag, Goto, tasks, calls,
     walk, LocalInv, Contexts, PcInv
<1>12. CASE Expires
  BY <1>12, <1>p, <1>m, DeferredTimerAssumption DEF Expires, Goto, tasks, calls, walk,
     LocalInv, Contexts, PcInv
<1>13. CASE HandleSet
  BY <1>13, <1>p, <1>m, DeferredTimerAssumption DEF HandleSet, Goto, tasks, calls, walk,
     LocalInv, Contexts, PcInv
<1>14. CASE HandleAlloc
  BY <1>14, <1>p, <1>m, DeferredTimerAssumption DEF HandleAlloc, Goto, tasks, calls,
     walk, LocalInv, Contexts, PcInv
<1>15. CASE HandleMonitor
  BY <1>15, <1>p, <1>m, DeferredTimerAssumption DEF HandleMonitor, Goto, tasks, calls,
     walk, LocalInv, Contexts, PcInv
<1>16. CASE MonitorLock
  BY <1>16, <1>p, <1>m, DeferredTimerAssumption DEF MonitorLock, Goto, Begin, tasks,
     calls, walk, LocalInv, Contexts, PcInv
<1>17. CASE MonitorUnlock
  BY <1>17, <1>p, <1>m, DeferredTimerAssumption DEF MonitorUnlock, Goto, tasks, calls,
     walk, LocalInv, Contexts, PcInv
<1>18. CASE UNCHANGED vars
  BY <1>18, <1>0 DEF vars, tasks, calls, walk
<1> QED
  BY <1>1, <1>2, <1>3, <1>4, <1>5, <1>6, <1>7, <1>8, <1>9, <1>10, <1>11, <1>12, <1>13,
     <1>14, <1>15, <1>16, <1>17, <1>18 DEF Step, Ioctl, IoctlStep, Handler, Exit, Types

\* Entries are handed over, from the allocator to a thread to the list and back.
LEMMA OwnStep ==
  ASSUME ~Overlap, IInv, [Step]_vars
  PROVE  OwnInv'
<1>m. /\ OwnInv /\ LocalInv /\ ModInv /\ list \in Seq(Nodes)
      /\ heap \in [Nodes -> Tasks \cup {Nil}] /\ node \in [Threads -> Nodes \cup {Nil}]
      /\ task \in [Threads -> Tasks \cup {Nil}]
      /\ Nil \notin Nodes \cup Tasks
      /\ Linked(list) \subseteq Nodes
  BY DeferredTimerAssumption, BeginList DEF IInv, TypeOK
<1>0. UNCHANGED <<list, heap, node>> => OwnInv'
  BY DEF IInv, OwnInv
<1>1. ASSUME NEW t \in Threads,
              timer_open(t) \/ timer_release(t) \/ Cancel(t) \/ PidTask(t)
              \/ NoMemory(t) \/ AddLock(t) \/ MonitorFlag(t)
      PROVE  OwnInv'
  BY <1>1, <1>0 DEF timer_open, timer_release, Cancel, PidTask, NoMemory, AddLock,
     MonitorFlag, tasks, calls, walk
<1>2. ASSUME NEW t \in Threads, NEW type \in {"SET", "ALLOC"},
              SetFlag(t, type)
      PROVE  OwnInv'
  BY <1>2, <1>0 DEF SetFlag, tasks, calls, walk
<1>3. ASSUME NEW t \in Threads, NEW type \in Types,
              ModTimer(t, type)
      PROVE  OwnInv'
  BY <1>3, <1>0 DEF ModTimer, tasks, calls, walk
<1>4. CASE Expires \/ HandleSet \/ HandleAlloc \/ HandleMonitor \/ MonitorLock
              \/ KeepLiving \/ MonitorUnlock \/ WorkStart \/ WorkEnd \/ CdevAdd
              \/ deferred_exit \/ DelTimer \/ CancelWork \/ ExitReturns
  BY <1>4, <1>0 DEF Expires, HandleSet, HandleAlloc, HandleMonitor, MonitorLock,
     KeepLiving, MonitorUnlock, WorkStart, WorkEnd, CdevAdd, deferred_exit, DelTimer,
     CancelWork, ExitReturns, tasks, calls, walk
<1>5. ASSUME NEW k \in Tasks,
              Dies(k) \/ Reaped(k) \/ KernelPut(k)
      PROVE  OwnInv'
  BY <1>5, <1>0 DEF Dies, Reaped, KernelPut, tasks, calls, walk
<1>6. ASSUME NEW t \in Threads, GetTask(t) PROVE OwnInv'
  BY <1>6, <1>m DEF GetTask, Goto, tasks, calls, walk, OwnInv, LocalInv
<1>7. ASSUME NEW t \in Threads, AddStore(t) PROVE OwnInv'
  <2>1. /\ node[t] \in Nodes /\ node[t] \notin Linked(list)
        /\ Linked(list') = Linked(list) \cup {node[t]} /\ Distinct(list')
    BY <1>7, AddList
  <2>2. node' = [node EXCEPT ![t] = Nil] /\ UNCHANGED heap
    BY <1>7 DEF AddStore
  <2>3. \A u \in Threads : node'[u] = IF u = t THEN Nil ELSE node[u]
    BY <1>m, <2>2
  <2>4. \A n \in Nodes : heap'[n] # Nil <=> n \in Linked(list') \/ \E u \in Threads : node'[u] = n
    BY <1>m, <2>1, <2>2, <2>3 DEF OwnInv
  <2> QED
    BY <1>m, <2>1, <2>3, <2>4 DEF OwnInv
<1>8. CASE DropDead
  <2>1. /\ p[Timer] \in Linked(list) /\ q[Timer] = NextOf(list, p[Timer]) /\ Drop(Timer)
    BY <1>8, DropDeadList
  <2>2. /\ p[Timer] \in Nodes /\ heap[p[Timer]] \in Tasks
        /\ list' \in Seq(Nodes) /\ Linked(list') = Linked(list) \ {p[Timer]} /\ Distinct(list')
    BY <2>1, DropList
  <2>3. heap' = [heap EXCEPT ![p[Timer]] = Nil] /\ UNCHANGED node
    BY <1>8, <2>1 DEF Drop, DropDead, calls
  <2> QED
    BY <1>m, <2>1, <2>2, <2>3 DEF OwnInv
<1>9. CASE SetUp
  BY <1>9, <1>m DEF SetUp, tasks, calls, walk, OwnInv, LocalInv, ModInv
<1>10. CASE ExitDrop
  <2>1. /\ p[Rmmod] \in Linked(list) /\ q[Rmmod] = NextOf(list, p[Rmmod]) /\ Drop(Rmmod)
    BY <1>10, ExitDropList
  <2>2. /\ p[Rmmod] \in Nodes /\ heap[p[Rmmod]] \in Tasks
        /\ list' \in Seq(Nodes) /\ Linked(list') = Linked(list) \ {p[Rmmod]} /\ Distinct(list')
    BY <2>1, DropList
  <2>3. heap' = [heap EXCEPT ![p[Rmmod]] = Nil] /\ UNCHANGED node
    BY <1>10, <2>1 DEF Drop, ExitDrop, calls
  <2> QED
    BY <1>m, <2>1, <2>2, <2>3 DEF OwnInv
<1>11. CASE UNCHANGED vars
  BY <1>11, <1>0 DEF vars, tasks, calls, walk
<1> QED
  BY <1>1, <1>2, <1>3, <1>4, <1>5, <1>6, <1>7, <1>8, <1>9, <1>10, <1>11 DEF Step, Ioctl,
     IoctlStep, Handler, Exit, Types

\* The handler's walk misses nobody: it alone changes the list.
LEMMA HandlerStep ==
  ASSUME ~Overlap, IInv, [Step]_vars
  PROVE  HandlerInv'
<1>p. /\ pc \in [Contexts -> {"user", "found", "got", "add", "added", "idle", "switch",
                              "spin", "walk"} \cup Types]
      /\ PcInv
  BY DEF IInv, TypeOK
<1>m. /\ HandlerInv /\ LockInv /\ OwnInv /\ ModInv /\ list \in Seq(Nodes)
      /\ heap \in [Nodes -> Tasks \cup {Nil}] /\ tstate \in [Tasks -> {"alive", "dead", "reaped", "gone"}]
      /\ p \in [{Timer, Rmmod} -> Nodes \cup {HEAD, Nil}] /\ q \in [{Timer, Rmmod} -> Nodes \cup {HEAD, Nil}]
      /\ Linked(list) \subseteq Nodes /\ HEAD \notin Nodes /\ Nil \notin Nodes \cup Tasks
  BY DeferredTimerAssumption, BeginList DEF IInv, TypeOK
<1>0. UNCHANGED <<pc, p, q, list, doomed, tstate, heap>> => HandlerInv'
  BY DEF IInv, HandlerInv
<1>1. ASSUME NEW t \in Threads,
              timer_open(t) \/ timer_release(t) \/ Cancel(t)
      PROVE  HandlerInv'
  BY <1>1, <1>0 DEF timer_open, timer_release, Cancel, tasks, calls, walk
<1>2. CASE WorkStart \/ WorkEnd \/ CdevAdd \/ deferred_exit \/ DelTimer
  BY <1>2, <1>0 DEF WorkStart, WorkEnd, CdevAdd, deferred_exit, DelTimer, tasks, calls,
     walk
<1>3. ASSUME NEW t \in Threads, NEW type \in {"SET", "ALLOC"}, SetFlag(t, type) PROVE HandlerInv'
  BY <1>3, <1>p, <1>m, DeferredTimerAssumption DEF SetFlag, Goto, Types, tasks, calls,
     walk, HandlerInv, Contexts
<1>4. ASSUME NEW t \in Threads, NEW type \in Types, ModTimer(t, type) PROVE HandlerInv'
  BY <1>4, <1>p, <1>m, DeferredTimerAssumption DEF ModTimer, Goto, Types, tasks, calls,
     walk, HandlerInv, Contexts
<1>5. ASSUME NEW t \in Threads, PidTask(t) PROVE HandlerInv'
  BY <1>5, <1>p, <1>m, DeferredTimerAssumption DEF PidTask, Goto, tasks, calls, walk,
     HandlerInv, Contexts
<1>6. ASSUME NEW t \in Threads, NoMemory(t) PROVE HandlerInv'
  BY <1>6, <1>p, <1>m, DeferredTimerAssumption DEF NoMemory, Goto, tasks, calls, walk,
     HandlerInv, Contexts
<1>7. ASSUME NEW t \in Threads, GetTask(t) PROVE HandlerInv'
  BY <1>7, <1>p, <1>m, DeferredTimerAssumption DEF GetTask, Goto, tasks, calls, walk,
     HandlerInv, Contexts, OwnInv
<1>8. ASSUME NEW t \in Threads, AddLock(t) PROVE HandlerInv'
  BY <1>8, <1>p, <1>m, DeferredTimerAssumption DEF AddLock, Goto, tasks, calls, walk,
     HandlerInv, Contexts
<1>9. ASSUME NEW t \in Threads, AddStore(t) PROVE HandlerInv'
  <2>1. pc'[Timer] # "walk"
    BY <1>9, <1>p, <1>m, AddList, DeferredTimerAssumption DEF AddStore, Goto, LockInv, Contexts
  <2> QED
    BY <2>1 DEF HandlerInv
<1>10. ASSUME NEW t \in Threads, MonitorFlag(t) PROVE HandlerInv'
  BY <1>10, <1>p, <1>m, DeferredTimerAssumption DEF MonitorFlag, Goto, tasks, calls,
     walk, HandlerInv, Contexts
<1>11. CASE Expires
  BY <1>11, <1>p, <1>m, DeferredTimerAssumption DEF Expires, Goto, tasks, calls, walk,
     HandlerInv, Contexts
<1>12. CASE HandleSet
  BY <1>12, <1>p, <1>m, DeferredTimerAssumption DEF HandleSet, Goto, tasks, calls, walk,
     HandlerInv, Contexts
<1>13. CASE HandleAlloc
  BY <1>13, <1>p, <1>m, DeferredTimerAssumption DEF HandleAlloc, Goto, tasks, calls,
     walk, HandlerInv, Contexts
<1>14. CASE HandleMonitor
  BY <1>14, <1>p, <1>m, DeferredTimerAssumption DEF HandleMonitor, Goto, tasks, calls,
     walk, HandlerInv, Contexts
<1>15. CASE MonitorLock
  <2>1. /\ p'[Timer] = First(list) /\ q'[Timer] = NextOf(list, First(list))
        /\ UNCHANGED <<list, heap, tstate>>
        /\ doomed' = {n \in Linked(list) : tstate[heap[n]] # "alive"}
    BY <1>15, <1>m DEF MonitorLock, Begin, tasks
  <2> QED
    BY <2>1, BeginList DEF HandlerInv
<1>16. CASE DropDead
  <2>1. /\ p[Timer] \in Linked(list) /\ q[Timer] = NextOf(list, p[Timer]) /\ Drop(Timer)
    BY <1>16, DropDeadList
  <2>2. /\ Linked(list') = Linked(list) \ {p[Timer]}
        /\ p'[Timer] \in Linked(list') \cup {HEAD}
        /\ q'[Timer] = NextOf(list', p'[Timer])
        /\ Ahead(list', p'[Timer]) = Ahead(list, p[Timer]) \ {p[Timer]}
    BY <2>1, DropList
  <2>3. UNCHANGED <<pc, doomed, tstate>> /\ heap' = [heap EXCEPT ![p[Timer]] = Nil]
    BY <1>16, <2>1 DEF DropDead, Drop
  <2>4. \A n \in Linked(list') : heap'[n] = heap[n]
    BY <1>m, <2>2, <2>3
  <2> QED
    BY <1>m, <2>2, <2>3, <2>4 DEF HandlerInv
<1>17. CASE KeepLiving
  <2>1. /\ p'[Timer] = q[Timer] /\ q'[Timer] = NextOf(list, q[Timer])
        /\ UNCHANGED <<pc, list, heap, tstate, doomed>>
        /\ tstate[heap[p[Timer]]] = "alive" /\ p[Timer] # HEAD /\ pc[Timer] = "walk"
    BY <1>17, <1>m DEF KeepLiving, Advance, tasks
  <2>2. p[Timer] \in Linked(list) /\ q[Timer] = NextOf(list, p[Timer])
    BY <1>m, <2>1 DEF HandlerInv
  <2>3. Ahead(list, q[Timer]) = Ahead(list, p[Timer]) \ {p[Timer]}
    BY <1>m, <2>2, AheadNext DEF OwnInv
  <2>4. q[Timer] \in Linked(list) \cup {HEAD}
    BY <1>m, <2>2, NextNode
  <2>5. p[Timer] \notin doomed \cap Linked(list)
    BY <1>m, <2>1 DEF HandlerInv
  <2> QED
    BY <1>m, <2>1, <2>3, <2>4, <2>5 DEF HandlerInv
<1>18. CASE MonitorUnlock
  BY <1>18, <1>p, <1>m, DeferredTimerAssumption DEF MonitorUnlock, Goto, tasks, calls,
     walk, HandlerInv, Contexts
<1>19. CASE SetUp
  <2>1. pc'[Timer] # "walk"
    BY <1>19, <1>m DEF SetUp, ModInv
  <2> QED
    BY <2>1 DEF HandlerInv
<1>20. CASE CancelWork
  <2>1. p'[Timer] = p[Timer] /\ q'[Timer] = q[Timer]
        /\ UNCHANGED <<pc, list, heap, tstate, doomed>>
    BY <1>20, <1>m, DeferredTimerAssumption DEF CancelWork, Begin, tasks
  <2> QED
    BY <1>m, <2>1 DEF HandlerInv
<1>21. CASE ExitDrop
  <2>1. pc'[Timer] # "walk"
    BY <1>21, ExitDropList DEF ExitDrop
  <2> QED
    BY <2>1 DEF HandlerInv
<1>22. CASE ExitReturns
  <2>1. pc'[Timer] # "walk"
    BY <1>22 DEF ExitReturns, Overlap
  <2> QED
    BY <2>1 DEF HandlerInv
<1>23. ASSUME NEW k \in Tasks, Dies(k) PROVE HandlerInv'
  BY <1>23, <1>p, <1>m, DeferredTimerAssumption DEF Dies, tasks, calls, walk,
     HandlerInv, Contexts, OwnInv
<1>24. ASSUME NEW k \in Tasks, Reaped(k) PROVE HandlerInv'
  BY <1>24, <1>p, <1>m, DeferredTimerAssumption DEF Reaped, tasks, calls, walk,
     HandlerInv, Contexts, OwnInv
<1>25. ASSUME NEW k \in Tasks, KernelPut(k) PROVE HandlerInv'
  BY <1>25, <1>p, <1>m, DeferredTimerAssumption DEF KernelPut, tasks, calls, walk,
     HandlerInv, Contexts, OwnInv
<1>26. CASE UNCHANGED vars
  BY <1>26, <1>0 DEF vars, tasks, calls, walk
<1> QED
  BY <1>1, <1>2, <1>3, <1>4, <1>5, <1>6, <1>7, <1>8, <1>9, <1>10, <1>11, <1>12, <1>13,
     <1>14, <1>15, <1>16, <1>17, <1>18, <1>19, <1>20, <1>21, <1>22, <1>23, <1>24, <1>25,
     <1>26 DEF Step, Ioctl, IoctlStep, Handler, Exit, Types

\* The walk of deferred_exit is alone with the list.
LEMMA ExitStep ==
  ASSUME ~Overlap, IInv, [Step]_vars
  PROVE  ExitInv'
<1>p. /\ pc \in [Contexts -> {"user", "found", "got", "add", "added", "idle", "switch",
                              "spin", "walk"} \cup Types]
      /\ PcInv
  BY DEF IInv, TypeOK
<1>m. /\ ExitInv /\ ModInv /\ list \in Seq(Nodes)
      /\ p \in [{Timer, Rmmod} -> Nodes \cup {HEAD, Nil}] /\ q \in [{Timer, Rmmod} -> Nodes \cup {HEAD, Nil}]
  BY DEF IInv, TypeOK
<1>0. UNCHANGED <<mod, list, p, q>> => ExitInv'
  BY DEF IInv, ExitInv
<1>1. ASSUME NEW t \in Threads,
              timer_open(t) \/ timer_release(t) \/ Cancel(t) \/ PidTask(t)
              \/ NoMemory(t) \/ GetTask(t) \/ AddLock(t) \/ MonitorFlag(t)
      PROVE  ExitInv'
  BY <1>1, <1>0 DEF timer_open, timer_release, Cancel, PidTask, NoMemory, GetTask,
     AddLock, MonitorFlag, tasks, calls, walk
<1>2. ASSUME NEW t \in Threads, NEW type \in {"SET", "ALLOC"},
              SetFlag(t, type)
      PROVE  ExitInv'
  BY <1>2, <1>0 DEF SetFlag, tasks, calls, walk
<1>3. ASSUME NEW t \in Threads, NEW type \in Types,
              ModTimer(t, type)
      PROVE  ExitInv'
  BY <1>3, <1>0 DEF ModTimer, tasks, calls, walk
<1>4. CASE Expires \/ HandleSet \/ HandleAlloc \/ HandleMonitor \/ WorkStart
              \/ WorkEnd
  BY <1>4, <1>0 DEF Expires, HandleSet, HandleAlloc, HandleMonitor, WorkStart, WorkEnd,
     tasks, calls, walk
<1>5. ASSUME NEW k \in Tasks,
              Dies(k) \/ Reaped(k) \/ KernelPut(k)
      PROVE  ExitInv'
  BY <1>5, <1>0 DEF Dies, Reaped, KernelPut, tasks, calls, walk
<1>6. ASSUME NEW t \in Threads, AddStore(t) PROVE ExitInv'
  <2>1. mod' # "exit_walk"
    BY <1>6, <1>p, <1>m DEF AddStore, ModInv
  <2> QED
    BY <2>1 DEF ExitInv
<1>7. CASE MonitorLock
  <2>1. mod' # "exit_walk"
    BY <1>7 DEF MonitorLock, Overlap
  <2> QED
    BY <2>1 DEF ExitInv
<1>8. CASE DropDead
  <2>1. mod' # "exit_walk"
    BY <1>8 DEF DropDead, Overlap
  <2> QED
    BY <2>1 DEF ExitInv
<1>9. CASE KeepLiving
  <2>1. mod' # "exit_walk"
    BY <1>9 DEF KeepLiving, Overlap
  <2> QED
    BY <2>1 DEF ExitInv
<1>10. CASE MonitorUnlock
  <2>1. mod' # "exit_walk"
    BY <1>10 DEF MonitorUnlock, Overlap
  <2> QED
    BY <2>1 DEF ExitInv
<1>11. CASE CdevAdd
  BY <1>11, <1>p, <1>m, DeferredTimerAssumption DEF CdevAdd, tasks, calls, walk,
     ExitInv, ModInv
<1>12. CASE SetUp
  BY <1>12, <1>p, <1>m, DeferredTimerAssumption DEF SetUp, tasks, calls, walk, ExitInv,
     ModInv
<1>13. CASE deferred_exit
  BY <1>13, <1>p, <1>m, DeferredTimerAssumption DEF deferred_exit, tasks, calls, walk,
     ExitInv, ModInv
<1>14. CASE DelTimer
  BY <1>14, <1>p, <1>m, DeferredTimerAssumption DEF DelTimer, tasks, calls, walk,
     ExitInv, ModInv
<1>15. CASE CancelWork
  BY <1>15, <1>p, <1>m, DeferredTimerAssumption DEF CancelWork, Begin, tasks, calls,
     walk, ExitInv, ModInv
<1>16. CASE ExitDrop
  <2>1. /\ p[Rmmod] \in Linked(list) /\ q[Rmmod] = NextOf(list, p[Rmmod]) /\ Drop(Rmmod)
        /\ p[Rmmod] = First(list)
    BY <1>16, ExitDropList
  <2>2. p'[Rmmod] = First(list') /\ q'[Rmmod] = NextOf(list', p'[Rmmod])
    BY <2>1, DropList
  <2> QED
    BY <2>2 DEF ExitInv
<1>17. CASE ExitReturns
  BY <1>17, <1>p, <1>m, DeferredTimerAssumption DEF ExitReturns, tasks, calls, walk,
     ExitInv, ModInv
<1>18. CASE UNCHANGED vars
  BY <1>18, <1>0 DEF vars, tasks, calls, walk
<1> QED
  BY <1>1, <1>2, <1>3, <1>4, <1>5, <1>6, <1>7, <1>8, <1>9, <1>10, <1>11, <1>12, <1>13,
     <1>14, <1>15, <1>16, <1>17, <1>18 DEF Step, Ioctl, IoctlStep, Handler, Exit, Types

\* A node that is given back is one reference less.
LEMMA DropRefs ==
  ASSUME IInv, NEW x \in {Timer, Rmmod}, Drop(x), UNCHANGED tstate,
         p[x] \in Linked(list), q[x] = NextOf(list, p[x])
  PROVE  RefInv'
<1>1. p[x] \in Nodes /\ heap[p[x]] \in Tasks
  BY DropList
<1>2. /\ usage' = [usage EXCEPT ![heap[p[x]]] = @ - 1]
      /\ heap' = [heap EXCEPT ![p[x]] = Nil]
  BY DEF Drop
<1>3. /\ heap \in [Nodes -> Tasks \cup {Nil}] /\ usage \in [Tasks -> Nat] /\ RefInv
      /\ Nil \notin Tasks
  BY DeferredTimerAssumption DEF IInv, TypeOK
<1>4. ASSUME NEW k \in Tasks
      PROVE  /\ IsFiniteSet(Holders(k)')
             /\ usage'[k] = Cardinality(Holders(k)') + (IF tstate[k] = "gone" THEN 0 ELSE 1)
  <2>0. IsFiniteSet(Holders(k)) /\ Cardinality(Holders(k)) \in Nat
    BY <1>3, FS_CardinalityType DEF RefInv
  <2>1. CASE heap[p[x]] = k
    <3>1. Holders(k)' = Holders(k) \ {p[x]} /\ p[x] \in Holders(k)
      BY <1>1, <1>2, <1>3, <2>1 DEF Holders
    <3>2. IsFiniteSet(Holders(k)') /\ Cardinality(Holders(k)') = Cardinality(Holders(k)) - 1
      BY <2>0, <3>1, FS_RemoveElement
    <3>3. usage'[k] = usage[k] - 1
      BY <1>2, <1>3, <2>1
    <3> QED
      BY <1>3, <2>0, <3>2, <3>3 DEF RefInv
  <2>2. CASE heap[p[x]] # k
    <3>1. Holders(k)' = Holders(k)
      BY <1>1, <1>2, <1>3, <2>2 DEF Holders
    <3>2. usage'[k] = usage[k]
      BY <1>2, <1>3, <2>2
    <3> QED
      BY <1>3, <3>1, <3>2 DEF RefInv
  <2> QED
    BY <2>1, <2>2
<1> QED
  BY <1>4 DEF RefInv

\* get_task_struct, for an entry that was free.
LEMMA GetRefs ==
  ASSUME IInv, NEW t \in Threads, GetTask(t)
  PROVE  RefInv'
<1>1. PICK n \in Nodes : heap[n] = Nil /\ heap' = [heap EXCEPT ![n] = task[t]]
  BY DEF GetTask
<1>2. usage' = [usage EXCEPT ![task[t]] = @ + 1] /\ tstate' = tstate /\ pc[t] = "found"
  BY DEF GetTask
<1>3. /\ heap \in [Nodes -> Tasks \cup {Nil}] /\ usage \in [Tasks -> Nat] /\ RefInv
      /\ Nil \notin Tasks /\ task[t] \in Tasks
  BY <1>2, DeferredTimerAssumption DEF IInv, TypeOK, LocalInv
<1>4. ASSUME NEW k \in Tasks
      PROVE  /\ IsFiniteSet(Holders(k)')
             /\ usage'[k] = Cardinality(Holders(k)') + (IF tstate[k] = "gone" THEN 0 ELSE 1)
  <2>0. IsFiniteSet(Holders(k)) /\ Cardinality(Holders(k)) \in Nat
    BY <1>3, FS_CardinalityType DEF RefInv
  <2>1. CASE task[t] = k
    <3>1. Holders(k)' = Holders(k) \cup {n} /\ n \notin Holders(k)
      BY <1>1, <1>3, <2>1 DEF Holders
    <3>2. IsFiniteSet(Holders(k)') /\ Cardinality(Holders(k)') = Cardinality(Holders(k)) + 1
      BY <2>0, <3>1, FS_AddElement
    <3>3. usage'[k] = usage[k] + 1
      BY <1>2, <1>3, <2>1
    <3> QED
      BY <1>3, <2>0, <3>2, <3>3 DEF RefInv
  <2>2. CASE task[t] # k
    <3>1. Holders(k)' = Holders(k)
      BY <1>1, <1>3, <2>2 DEF Holders
    <3>2. usage'[k] = usage[k]
      BY <1>2, <1>3, <2>2
    <3> QED
      BY <1>3, <3>1, <3>2 DEF RefInv
  <2> QED
    BY <2>1, <2>2
<1> QED
  BY <1>2, <1>4 DEF RefInv

\* Every reference that is taken belongs to an entry.
LEMMA RefStep ==
  ASSUME ~Overlap, IInv, [Step]_vars
  PROVE  RefInv'
<1>m. RefInv /\ usage \in [Tasks -> Nat] /\ tstate \in [Tasks -> {"alive", "dead", "reaped", "gone"}]
  BY DEF IInv, TypeOK
<1>0. UNCHANGED <<heap, tstate, usage>> => RefInv'
  BY DEF IInv, RefInv, Holders
<1>1. ASSUME NEW t \in Threads,
              timer_open(t) \/ timer_release(t) \/ Cancel(t) \/ PidTask(t)
              \/ NoMemory(t) \/ AddLock(t) \/ AddStore(t) \/ MonitorFlag(t)
      PROVE  RefInv'
  BY <1>1, <1>0 DEF timer_open, timer_release, Cancel, PidTask, NoMemory, AddLock,
     AddStore, MonitorFlag, tasks, calls, walk
<1>2. ASSUME NEW t \in Threads, NEW type \in {"SET", "ALLOC"},
              SetFlag(t, type)
      PROVE  RefInv'
  BY <1>2, <1>0 DEF SetFlag, tasks, calls, walk
<1>3. ASSUME NEW t \in Threads, NEW type \in Types,
              ModTimer(t, type)
      PROVE  RefInv'
  BY <1>3, <1>0 DEF ModTimer, tasks, calls, walk
<1>4. CASE Expires \/ HandleSet \/ HandleAlloc \/ HandleMonitor \/ MonitorLock
              \/ KeepLiving \/ MonitorUnlock \/ WorkStart \/ WorkEnd \/ CdevAdd
              \/ SetUp \/ deferred_exit \/ DelTimer \/ CancelWork \/ ExitReturns
  BY <1>4, <1>0 DEF Expires, HandleSet, HandleAlloc, HandleMonitor, MonitorLock,
     KeepLiving, MonitorUnlock, WorkStart, WorkEnd, CdevAdd, SetUp, deferred_exit,
     DelTimer, CancelWork, ExitReturns, tasks, calls, walk
<1>5. ASSUME NEW t \in Threads, GetTask(t) PROVE RefInv'
  BY <1>5, GetRefs
<1>6. CASE DropDead
  BY <1>6, DropDeadList, DropRefs DEF DropDead
<1>7. CASE ExitDrop
  BY <1>7, ExitDropList, DropRefs DEF ExitDrop
<1>8. ASSUME NEW k \in Tasks, Dies(k) PROVE RefInv'
  <2>1. heap' = heap
    BY <1>8 DEF Dies
  <2>2. \A j \in Tasks : Holders(j)' = Holders(j)
    BY <2>1 DEF Holders
  <2> QED
    BY <1>8, <1>m, <2>2 DEF Dies, RefInv
<1>9. ASSUME NEW k \in Tasks, Reaped(k) PROVE RefInv'
  <2>1. heap' = heap
    BY <1>9 DEF Reaped
  <2>2. \A j \in Tasks : Holders(j)' = Holders(j)
    BY <2>1 DEF Holders
  <2> QED
    BY <1>9, <1>m, <2>2 DEF Reaped, RefInv
<1>10. ASSUME NEW k \in Tasks, KernelPut(k) PROVE RefInv'
  <2>1. heap' = heap
    BY <1>10 DEF KernelPut
  <2>2. \A j \in Tasks : Holders(j)' = Holders(j)
    BY <2>1 DEF Holders
  <2>3. \A j \in Tasks : Cardinality(Holders(j)) \in Nat
    BY <1>m, FS_CardinalityType DEF RefInv
  <2> QED
    BY <1>10, <1>m, <2>2, <2>3 DEF KernelPut, RefInv
<1>11. CASE UNCHANGED vars
  BY <1>11, <1>0 DEF vars, tasks, calls, walk
<1> QED
  BY <1>1, <1>2, <1>3, <1>4, <1>5, <1>6, <1>7, <1>8, <1>9, <1>10, <1>11 DEF Step, Ioctl,
     IoctlStep, Handler, Exit, Types

\* The types; counts do not fall below zero because references are balanced.
LEMMA TypeStep ==
  ASSUME ~Overlap, IInv, [Step]_vars
  PROVE  TypeOK'
<1>m. /\ TypeOK /\ PcInv /\ ModInv /\ FlagInv /\ LocalInv /\ RefInv /\ HEAD \notin Nodes
      /\ Timer \notin Threads /\ Timer # Rmmod
  BY DeferredTimerAssumption DEF IInv
<1>0. UNCHANGED <<mod, opened, flag, timer, work, lock, list, heap, tstate, usage, pc, task, node, snap, p, q, doomed>> => TypeOK'
  BY DEF IInv, TypeOK
<1>1. ASSUME NEW t \in Threads, timer_open(t) PROVE TypeOK'
  BY <1>1, <1>m DEF timer_open, tasks, calls, walk, TypeOK, Contexts
<1>2. ASSUME NEW t \in Threads, timer_release(t) PROVE TypeOK'
  BY <1>2, <1>m DEF timer_release, tasks, calls, walk, TypeOK, Contexts
<1>3. ASSUME NEW t \in Threads, NEW type \in {"SET", "ALLOC"}, SetFlag(t, type) PROVE TypeOK'
  BY <1>3, <1>m DEF SetFlag, Goto, Types, tasks, calls, walk, TypeOK, Contexts
<1>4. ASSUME NEW t \in Threads, NEW type \in Types, ModTimer(t, type) PROVE TypeOK'
  BY <1>4, <1>m DEF ModTimer, Goto, Types, tasks, calls, walk, TypeOK, Contexts, FlagInv
<1>5. ASSUME NEW t \in Threads, Cancel(t) PROVE TypeOK'
  BY <1>5, <1>m DEF Cancel, tasks, calls, walk, TypeOK, Contexts
<1>6. ASSUME NEW t \in Threads, PidTask(t) PROVE TypeOK'
  BY <1>6, <1>m DEF PidTask, Goto, tasks, calls, walk, TypeOK, Contexts
<1>7. ASSUME NEW t \in Threads, NoMemory(t) PROVE TypeOK'
  BY <1>7, <1>m DEF NoMemory, Goto, tasks, calls, walk, TypeOK, Contexts
<1>8. ASSUME NEW t \in Threads, GetTask(t) PROVE TypeOK'
  BY <1>8, <1>m DEF GetTask, Goto, tasks, calls, walk, TypeOK, Contexts, LocalInv
<1>9. ASSUME NEW t \in Threads, AddLock(t) PROVE TypeOK'
  BY <1>9, <1>m DEF AddLock, Goto, tasks, calls, walk, TypeOK, Contexts
<1>10. ASSUME NEW t \in Threads, AddStore(t) PROVE TypeOK'
  <2>1. list' \in Seq(Nodes) /\ <<>> \in Seq(Nodes)
    BY <1>10, AddList
  <2>2. snap' \in [Threads -> Seq(Nodes)]
    BY <1>10, <1>m, <2>1 DEF AddStore, TypeOK
  <2>3. pc'[Timer] = pc[Timer]
    BY <1>10, <1>m DEF AddStore, Goto, TypeOK
  <2> QED
    BY <1>10, <1>m, <2>1, <2>2, <2>3 DEF AddStore, Goto, TypeOK, Contexts, tasks, walk
<1>11. ASSUME NEW t \in Threads, MonitorFlag(t) PROVE TypeOK'
  BY <1>11, <1>m DEF MonitorFlag, Goto, tasks, calls, walk, TypeOK, Contexts, Types
<1>12. CASE Expires
  BY <1>12, <1>m DEF Expires, Goto, tasks, calls, walk, TypeOK, Contexts, Types
<1>13. CASE HandleSet
  BY <1>13, <1>m DEF HandleSet, Goto, tasks, calls, walk, TypeOK, Contexts
<1>14. CASE HandleAlloc
  BY <1>14, <1>m DEF HandleAlloc, Goto, tasks, calls, walk, TypeOK, Contexts
<1>15. CASE HandleMonitor
  BY <1>15, <1>m DEF HandleMonitor, Goto, tasks, calls, walk, TypeOK, Contexts
<1>16. CASE MonitorLock
  BY <1>16, <1>m, BeginList DEF MonitorLock, Goto, Begin, tasks, calls, walk, TypeOK,
     Contexts
<1>17. CASE DropDead
  <2>1. /\ p[Timer] \in Linked(list) /\ q[Timer] = NextOf(list, p[Timer]) /\ Drop(Timer)
    BY <1>17, DropDeadList
  <2>2. /\ p[Timer] \in Nodes /\ heap[p[Timer]] \in Tasks
        /\ list' \in Seq(Nodes) /\ Linked(list') \subseteq Linked(list)
        /\ p'[Timer] \in Linked(list') \cup {HEAD} /\ q'[Timer] \in Linked(list') \cup {HEAD}
    BY <2>1, DropList
  <2>3. p'[Timer] \in Nodes \cup {HEAD} /\ q'[Timer] \in Nodes \cup {HEAD}
    BY <2>2, BeginList
  <2>4. RefInv' /\ tstate' = tstate
    BY <1>17, <2>1, DropRefs DEF DropDead
  <2>5. usage'[heap[p[Timer]]] \in Nat
    BY <2>2, <2>4, FS_CardinalityType DEF RefInv
  <2>6. usage' \in [Tasks -> Nat]
    BY <1>m, <2>1, <2>2, <2>5 DEF Drop, TypeOK
  <2>7. /\ heap' \in [Nodes -> Tasks \cup {Nil}]
        /\ p' \in [{Timer, Rmmod} -> Nodes \cup {HEAD, Nil}]
        /\ q' \in [{Timer, Rmmod} -> Nodes \cup {HEAD, Nil}]
    BY <1>m, <2>1, <2>2, <2>3 DEF Drop, Advance, TypeOK
  <2> QED
    BY <1>17, <1>m, <2>2, <2>6, <2>7 DEF DropDead, calls, TypeOK
<1>18. CASE KeepLiving
  <2>1. q[Timer] \in Nodes \cup {HEAD, Nil} /\ NextOf(list, q[Timer]) \in Nodes \cup {HEAD}
    BY <1>m, BeginList, NextNode DEF TypeOK
  <2> QED
    BY <1>18, <1>m, <2>1 DEF KeepLiving, Advance, TypeOK, tasks, calls
<1>19. CASE MonitorUnlock
  BY <1>19, <1>m DEF MonitorUnlock, Goto, tasks, calls, walk, TypeOK, Contexts
<1>20. CASE WorkStart
  BY <1>20, <1>m DEF WorkStart, tasks, calls, walk, TypeOK, Contexts
<1>21. CASE WorkEnd
  BY <1>21, <1>m DEF WorkEnd, tasks, calls, walk, TypeOK, Contexts
<1>22. CASE CdevAdd
  BY <1>22, <1>m DEF CdevAdd, tasks, calls, walk, TypeOK, Contexts
<1>23. CASE SetUp
  BY <1>23, <1>m DEF SetUp, tasks, calls, walk, TypeOK, Contexts, ModInv
<1>24. CASE deferred_exit
  BY <1>24, <1>m DEF deferred_exit, tasks, calls, walk, TypeOK, Contexts
<1>25. CASE DelTimer
  BY <1>25, <1>m DEF DelTimer, tasks, calls, walk, TypeOK, Contexts
<1>26. CASE CancelWork
  BY <1>26, <1>m, BeginList DEF CancelWork, Begin, tasks, calls, walk, TypeOK, Contexts
<1>27. CASE ExitDrop
  <2>1. /\ p[Rmmod] \in Linked(list) /\ q[Rmmod] = NextOf(list, p[Rmmod]) /\ Drop(Rmmod)
    BY <1>27, ExitDropList
  <2>2. /\ p[Rmmod] \in Nodes /\ heap[p[Rmmod]] \in Tasks
        /\ list' \in Seq(Nodes) /\ Linked(list') \subseteq Linked(list)
        /\ p'[Rmmod] \in Linked(list') \cup {HEAD} /\ q'[Rmmod] \in Linked(list') \cup {HEAD}
    BY <2>1, DropList
  <2>3. p'[Rmmod] \in Nodes \cup {HEAD} /\ q'[Rmmod] \in Nodes \cup {HEAD}
    BY <2>2, BeginList
  <2>4. RefInv' /\ tstate' = tstate
    BY <1>27, <2>1, DropRefs DEF ExitDrop
  <2>5. usage'[heap[p[Rmmod]]] \in Nat
    BY <2>2, <2>4, FS_CardinalityType DEF RefInv
  <2>6. usage' \in [Tasks -> Nat]
    BY <1>m, <2>1, <2>2, <2>5 DEF Drop, TypeOK
  <2>7. /\ heap' \in [Nodes -> Tasks \cup {Nil}]
        /\ p' \in [{Timer, Rmmod} -> Nodes \cup {HEAD, Nil}]
        /\ q' \in [{Timer, Rmmod} -> Nodes \cup {HEAD, Nil}]
    BY <1>m, <2>1, <2>2, <2>3 DEF Drop, Advance, TypeOK
  <2> QED
    BY <1>27, <1>m, <2>2, <2>6, <2>7 DEF ExitDrop, calls, TypeOK
<1>28. CASE ExitReturns
  BY <1>28, <1>m DEF ExitReturns, tasks, calls, walk, TypeOK, Contexts
<1>29. ASSUME NEW k \in Tasks, Dies(k) PROVE TypeOK'
  BY <1>29, <1>m DEF Dies, tasks, calls, walk, TypeOK, Contexts
<1>30. ASSUME NEW k \in Tasks, Reaped(k) PROVE TypeOK'
  BY <1>30, <1>m DEF Reaped, tasks, calls, walk, TypeOK, Contexts
<1>31. ASSUME NEW k \in Tasks, KernelPut(k) PROVE TypeOK'
  <2>1. usage[k] - 1 \in Nat
    <3>1. Cardinality(Holders(k)) \in Nat /\ tstate[k] # "gone"
      BY <1>31, <1>m, FS_CardinalityType DEF KernelPut, RefInv
    <3> QED
      BY <1>m, <3>1 DEF RefInv
  <2> QED
    BY <1>31, <1>m, <2>1 DEF KernelPut, TypeOK, calls, walk
<1>32. CASE UNCHANGED vars
  BY <1>32, <1>0 DEF vars, tasks, calls, walk
<1> QED
  BY <1>1, <1>2, <1>3, <1>4, <1>5, <1>6, <1>7, <1>8, <1>9, <1>10, <1>11, <1>12, <1>13,
     <1>14, <1>15, <1>16, <1>17, <1>18, <1>19, <1>20, <1>21, <1>22, <1>23, <1>24, <1>25,
     <1>26, <1>27, <1>28, <1>29, <1>30, <1>31, <1>32 DEF Step, Ioctl, IoctlStep,
     Handler, Exit, Types

-----------------------------------------------------------------------------
(* Theorems *)

\* Nothing is allocated, armed or opened at first.
LEMMA InitInv == Init => IInv
<1> SUFFICES ASSUME Init PROVE IInv
  OBVIOUS
<1> USE DeferredTimerAssumption DEF Init
<1>0. <<>> \in Seq(Nodes) /\ Linked(<<>>) = {} /\ Distinct(<<>>)
  BY DEF Linked, Distinct
<1>1. TypeOK
  BY <1>0 DEF TypeOK, Contexts, Types
<1>2. PcInv /\ FlagInv /\ HandlerInv
  BY DEF PcInv, FlagInv, HandlerInv, Contexts, Types
<1>3. ModInv /\ LockInv /\ LocalInv /\ ExitInv
  BY DEF ModInv, LockInv, LocalInv, ExitInv, Contexts
<1>4. OwnInv
  BY <1>0 DEF OwnInv
<1>5. RefInv
  <2>1. \A k \in Tasks : Holders(k) = {}
    BY DEF Holders
  <2>2. IsFiniteSet({}) /\ Cardinality({}) = 0
    BY FS_EmptySet
  <2>3. \A k \in Tasks : usage[k] = 1 /\ tstate[k] # "gone"
    OBVIOUS
  <2>4. ASSUME NEW k \in Tasks PROVE Cardinality(Holders(k)) = 0 /\ IsFiniteSet(Holders(k))
    <3>1. Holders(k) = {}
      BY <2>1
    <3> QED
      BY ONLY <3>1, <2>2
  <2> HIDE DEF Init
  <2> QED
    BY <2>3, <2>4 DEF RefInv
<1> QED
  BY <1>1, <1>2, <1>3, <1>4, <1>5 DEF IInv

\* What the state does not tell apart, no part of the invariant does.
LEMMA Stutter ==
  ASSUME IInv, UNCHANGED vars
  PROVE  IInv'
<1> USE DEF vars, tasks, calls, walk
<1>1. TypeOK' /\ PcInv' /\ ModInv' /\ FlagInv' /\ LockInv'
  BY DEF IInv, TypeOK, PcInv, ModInv, FlagInv, LockInv
<1>2. OwnInv' /\ LocalInv' /\ HandlerInv' /\ ExitInv'
  BY DEF IInv, OwnInv, LocalInv, HandlerInv, ExitInv
<1>3. RefInv'
  BY DEF IInv, RefInv, Holders
<1> QED
  BY <1>1, <1>2, <1>3 DEF IInv

\* The inductive invariant holds for ever.
THEOREM Invariance == Spec => []IInv
<1>1. ASSUME IInv, ~Overlap, Step PROVE IInv'
  BY <1>1, TypeStep, PcStep, ModStep, FlagStep, LockStep, OwnStep, LocalStep, HandlerStep,
     ExitStep, RefStep DEF IInv
<1>2. IInv /\ [Next]_vars => IInv'
  BY <1>1, Stutter DEF Next, Undefined
<1> QED
  BY InitInv, <1>2, PTL DEF Spec

\* Every variable has its type, and the handler never finds a flag that nobody
\* has set.
THEOREM TypeCorrect == Spec => []TypeOK
<1>1. IInv => TypeOK
  BY DEF IInv
<1> QED
  BY Invariance, <1>1, PTL

\* An entry is linked once or owned by one ioctl, and a freed one is neither.
THEOREM EntriesOwned == Spec => []OwnedOnce
<1>1. IInv => OwnedOnce
  <2> SUFFICES ASSUME IInv, NEW n \in Nodes
               PROVE  Cardinality({i \in 1..Len(list) : list[i] = n})
                        + Cardinality({t \in Threads : node[t] = n})
                          = (IF heap[n] = Nil THEN 0 ELSE 1)
    BY DEF OwnedOnce
  <2>1. OwnInv /\ list \in Seq(Nodes) /\ n # Nil
    BY DeferredTimerAssumption DEF IInv, TypeOK
  <2>2. Cardinality({i \in 1..Len(list) : list[i] = n}) = IF n \in Linked(list) THEN 1 ELSE 0
    BY <2>1, PlaceCount DEF OwnInv
  <2>3. Cardinality({t \in Threads : node[t] = n})
          = IF \E t \in Threads : node[t] = n THEN 1 ELSE 0
    <3>1. \A t, u \in Threads : node[t] = n /\ node[u] = n => t = u
      BY <2>1 DEF OwnInv
    <3> QED
      BY <3>1, HandCount
  <2> QED
    BY <2>1, <2>2, <2>3 DEF OwnInv
<1> QED
  BY Invariance, <1>1, PTL

\* A task has one reference for each of its entries, next to the kernel's own
\* while it is there: what get_task_struct took in MONITOR is given back by
\* whoever frees the entry, the handler or deferred_exit, once.
THEOREM ReferencesBalanced == Spec => []RefsBalanced
<1>1. IInv => RefsBalanced
  BY DEF IInv, RefInv, Holders, RefsBalanced
<1> QED
  BY Invariance, <1>1, PTL

\* A pass of timer_handler drops every entry whose task was dead when it began.
THEOREM SweepsAll == Spec => []SweepComplete
<1>1. IInv => SweepComplete
  <2> SUFFICES ASSUME IInv, pc[Timer] = "walk", p[Timer] = HEAD
               PROVE  doomed \cap Linked(list) = {}
    BY DEF SweepComplete
  <2>1. Ahead(list, HEAD) = {}
    BY DeferredTimerAssumption, AheadEnds DEF IInv, TypeOK, OwnInv
  <2> QED
    BY <2>1 DEF IInv, HandlerInv
<1> QED
  BY Invariance, <1>1, PTL

\* deferred_exit leaves no entry, no armed timer and no work behind when it
\* returns, which in the model it does only if no handler was under way when
\* cancel_work_sync had returned: del_timer at line 211 does not ensure that.
THEOREM UnloadsClean == Spec => []CleanUnload
<1>1. IInv => CleanUnload
  <2> SUFFICES ASSUME IInv, mod = "out"
               PROVE  (\A n \in Nodes : heap[n] = Nil) /\ timer = Nil /\ work = {}
    BY DEF CleanUnload
  <2>1. list = <<>> /\ timer = Nil /\ work = {} /\ \A t \in Threads : node[t] = Nil
    BY DEF IInv, ModInv, LocalInv
  <2>2. Linked(list) = {}
    BY <2>1 DEF Linked
  <2> QED
    BY <2>1, <2>2, DeferredTimerAssumption DEF IInv, OwnInv
<1> QED
  BY Invariance, <1>1, PTL

\* No step loses the entry of a living task: list_add, which stores in front of
\* the head that it had loaded, does not undo what others did in between, and
\* the handler deletes only dead tasks.
THEOREM LivingStayMonitored == Spec => StaysMonitored
<1> DEFINE Stays == \A n \in Linked(list) :
                      tstate[heap[n]] = "alive" /\ mod # "exit_walk"
                        => n \in Linked(list') /\ heap'[n] = heap[n]
<1>1. ASSUME IInv, ~Overlap, Step PROVE Stays
  <2> USE <1>1
  <2>m. /\ OwnInv /\ heap \in [Nodes -> Tasks \cup {Nil}] /\ Linked(list) \subseteq Nodes
        /\ Nil \notin Nodes
    BY DeferredTimerAssumption, BeginList DEF IInv, TypeOK
  <2>0. UNCHANGED <<list, heap>> => Stays
    OBVIOUS
  <2>1. ASSUME NEW t \in Threads,
               timer_open(t) \/ timer_release(t) \/ Cancel(t) \/ PidTask(t)
               \/ NoMemory(t) \/ AddLock(t) \/ MonitorFlag(t)
        PROVE  Stays
    BY <2>1, <2>0 DEF timer_open, timer_release, Cancel, PidTask, NoMemory, AddLock, MonitorFlag
  <2>2. ASSUME NEW t \in Threads, NEW type \in Types, SetFlag(t, type) \/ ModTimer(t, type)
        PROVE  Stays
    BY <2>2, <2>0 DEF SetFlag, ModTimer
  <2>3. CASE Expires \/ HandleSet \/ HandleAlloc \/ HandleMonitor \/ MonitorLock
               \/ KeepLiving \/ MonitorUnlock \/ WorkStart \/ WorkEnd \/ CdevAdd
               \/ deferred_exit \/ DelTimer \/ CancelWork \/ ExitReturns
    BY <2>3, <2>0 DEF Expires, HandleSet, HandleAlloc, HandleMonitor, MonitorLock,
       KeepLiving, MonitorUnlock, WorkStart, WorkEnd, CdevAdd, deferred_exit, DelTimer,
       CancelWork, ExitReturns
  <2>4. ASSUME NEW k \in Tasks, Dies(k) \/ Reaped(k) \/ KernelPut(k)
        PROVE  Stays
    BY <2>4, <2>0 DEF Dies, Reaped, KernelPut
  <2>5. ASSUME NEW t \in Threads, GetTask(t) PROVE Stays
    <3>1. PICK n \in Nodes : heap[n] = Nil /\ heap' = [heap EXCEPT ![n] = task[t]]
      BY <2>5 DEF GetTask
    <3>2. n \notin Linked(list) /\ UNCHANGED list
      BY <2>5, <2>m, <3>1 DEF GetTask, OwnInv
    <3> QED
      BY <2>m, <3>1, <3>2
  <2>6. ASSUME NEW t \in Threads, AddStore(t) PROVE Stays
    <3>1. Linked(list') = Linked(list) \cup {node[t]} /\ UNCHANGED heap
      BY <2>6, AddList DEF AddStore
    <3> QED
      BY <3>1
  <2>7. CASE DropDead
    <3>1. /\ p[Timer] \in Linked(list) /\ q[Timer] = NextOf(list, p[Timer]) /\ Drop(Timer)
      BY <2>7, DropDeadList
    <3>2. p[Timer] \in Nodes /\ Linked(list') = Linked(list) \ {p[Timer]}
      BY <3>1, DropList
    <3>3. heap' = [heap EXCEPT ![p[Timer]] = Nil] /\ tstate[heap[p[Timer]]] # "alive"
      BY <2>7, <3>1 DEF Drop, DropDead
    <3> QED
      BY <2>m, <3>2, <3>3
  <2>8. CASE SetUp
    <3>1. Linked(list) = {}
      BY <2>8 DEF SetUp, IInv, ModInv, Linked
    <3> QED
      BY <3>1
  <2>9. CASE ExitDrop
    BY <2>9 DEF ExitDrop
  <2> QED
    BY <2>1, <2>2, <2>3, <2>4, <2>5, <2>6, <2>7, <2>8, <2>9 DEF Step, Ioctl,
       IoctlStep, Handler, Exit, Types
<1>2. IInv /\ [Next]_vars => [Stays]_vars
  BY <1>1 DEF Next, Undefined
<1> QED
  BY Invariance, <1>2, PTL DEF Spec, StaysMonitored
=============================================================================
