--------------------------- MODULE DeferredTimer ---------------------------
(***************************************************************************)
(* The timer driver, Drivers/deferredTimer/kernel/timer.c.  Threads call   *)
(* timer_ioctl, which sets dev->flag and arms one timer; when the timer    *)
(* expires timer_handler looks at the flag and does nothing, schedules     *)
(* work that sleeps, or drops the dead tasks from the list of monitored    *)
(* processes.  Rmmod is the thread that runs deferred_exit.                *)
(*                                                                         *)
(* A task_struct is a usage count and the task's state; the kernel's own   *)
(* reference goes some time after the task was reaped.  list_add is a load *)
(* and a store, so that the lock has something to protect.                 *)
(*                                                                         *)
(* del_timer does not wait for a handler that has started, and deferred_   *)
(* exit frees what that handler uses.  The model follows the code up to    *)
(* the state in which the two overlap; what the code does from there on is *)
(* undefined, and no step leads on (Undefined).                            *)
(***************************************************************************)
EXTENDS Integers, Sequences, FiniteSets, KernelList

CONSTANTS
  Threads, Timer, Rmmod,
  Tasks, Nodes,    \* Nodes: the addresses that kmalloc may return
  LateReap,        \* may a task be freed between pid_task and get_task_struct?
  Free, Nil

ASSUME DeferredTimerAssumption ==
  /\ Timer \notin Threads /\ Rmmod \notin Threads /\ Timer # Rmmod
  /\ Free \notin Threads \cup {Timer, Rmmod}
  /\ HEAD \notin Nodes /\ Nil \notin Nodes /\ HEAD # Nil
  /\ Nil \notin Tasks
  /\ LateReap \in BOOLEAN

VARIABLES
  mod,       \* out, added (cdev_add), live, or the next step of deferred_exit
  opened,    \* threads with an open file
  flag,      \* dev->flag
  timer,     \* Nil, or the request that armed the pending timer
  work,      \* subset of {"queued", "running"}: dev->work_queue
  lock,      \* dev->lock
  list,      \* dev->list
  heap,      \* the task of each monitor_process, or Nil when it is free
  tstate, usage,     \* task_struct: life of the task, reference count
  pc,
  task, node, snap,  \* locals of timer_ioctl: task found, entry, head.next
  p, q,      \* locals of the two walks
  doomed     \* history: entries whose task was dead when the walk began

tasks  == <<tstate, usage>>
calls  == <<task, node, snap>>
walk   == <<p, q, doomed>>
vars   == <<mod, opened, flag, timer, work, lock, list, heap, tasks, pc, calls,
            walk>>

Contexts == Threads \cup {Timer, Rmmod}
Types    == {"SET", "ALLOC", "MONITOR"}
Goto(x, next) == pc' = [pc EXCEPT ![x] = next]

-----------------------------------------------------------------------------
(* timer_open, timer_release *)

timer_open(t) ==
  /\ mod = "live"
  /\ t \notin opened
  /\ opened' = opened \cup {t}
  /\ UNCHANGED <<mod, flag, timer, work, lock, list, heap, tasks, pc, calls, walk>>

timer_release(t) ==
  /\ t \in opened
  /\ pc[t] = "user"
  /\ opened' = opened \ {t}
  /\ UNCHANGED <<mod, flag, timer, work, lock, list, heap, tasks, pc, calls, walk>>

-----------------------------------------------------------------------------
(* timer_ioctl *)

\* Seeded fault: the timer is armed before the flag is written.
ArmFirst(t, type) ==
  /\ t \in opened
  /\ pc[t] = "user"
  /\ timer' = type
  /\ Goto(t, type)
  /\ UNCHANGED <<mod, opened, flag, work, lock, list, heap, tasks, calls, walk>>

\* SET and ALLOC: data->flag is written ...
SetFlag(t, type) ==
  /\ t \in opened
  /\ pc[t] = "user"
  /\ flag' = type
  /\ Goto(t, type)
  /\ UNCHANGED <<mod, opened, timer, work, lock, list, heap, tasks, calls, walk>>

\* ... then mod_timer arms the timer, whatever it was armed for.
ModTimer(t, type) ==
  /\ pc[t] = type
  /\ timer' = type
  /\ Goto(t, "user")
  /\ UNCHANGED <<mod, opened, flag, work, lock, list, heap, tasks, calls, walk>>

Cancel(t) ==
  /\ t \in opened
  /\ pc[t] = "user"
  /\ timer' = Nil   \* del_timer
  /\ UNCHANGED <<mod, opened, flag, work, lock, list, heap, tasks, pc, calls, walk>>

\* get_proc: pid_task, between rcu_read_lock and rcu_read_unlock.  A pid
\* without a task ends the call with -ESRCH.
PidTask(t) ==
  /\ t \in opened
  /\ pc[t] = "user"
  /\ \E k \in Tasks :
       /\ tstate[k] \in {"alive", "dead"}
       /\ task' = [task EXCEPT ![t] = k]
  /\ Goto(t, "found")
  /\ UNCHANGED <<mod, opened, flag, timer, work, lock, list, heap, tasks, node, snap, walk>>

\* kmalloc with GFP_ATOMIC fails: -ENOMEM, and no reference was taken ...
NoMemory(t) ==
  /\ pc[t] = "found"
  /\ task' = [task EXCEPT ![t] = Nil]
  /\ Goto(t, "user")
  /\ UNCHANGED <<mod, opened, flag, timer, work, lock, list, heap, tasks, node, snap, walk>>

\* ... or get_task_struct takes one.
GetTask(t) ==
  /\ pc[t] = "found"
  /\ \E n \in Nodes :
       /\ heap[n] = Nil
       /\ heap' = [heap EXCEPT ![n] = task[t]]
       /\ node' = [node EXCEPT ![t] = n]
  /\ usage' = [usage EXCEPT ![task[t]] = @ + 1]
  /\ task' = [task EXCEPT ![t] = Nil]
  /\ Goto(t, "got")
  /\ UNCHANGED <<mod, opened, flag, timer, work, lock, list, tstate, snap, walk>>

\* Seeded fault: the entry is added without the lock.
AddUnlocked(t) ==
  /\ pc[t] = "got"
  /\ snap' = [snap EXCEPT ![t] = list]
  /\ Goto(t, "add")
  /\ UNCHANGED <<mod, opened, flag, timer, work, lock, list, heap, tasks, task, node, walk>>

\* spin_lock_bh, and list_add begins: head->next is loaded ...
AddLock(t) ==
  /\ pc[t] = "got"
  /\ lock = Free
  /\ lock' = t
  /\ snap' = [snap EXCEPT ![t] = list]
  /\ Goto(t, "add")
  /\ UNCHANGED <<mod, opened, flag, timer, work, list, heap, tasks, task, node, walk>>

\* ... and the new entry stored in front of it; spin_unlock_bh.
AddStore(t) ==
  /\ pc[t] = "add"
  /\ list' = Pushed(snap[t], node[t])
  /\ lock' = Free
  /\ node' = [node EXCEPT ![t] = Nil]
  /\ snap' = [snap EXCEPT ![t] = <<>>]
  /\ Goto(t, "added")
  /\ UNCHANGED <<mod, opened, flag, timer, work, heap, tasks, task, walk>>

MonitorFlag(t) ==
  /\ pc[t] = "added"
  /\ flag' = "MONITOR"
  /\ Goto(t, "MONITOR")
  /\ UNCHANGED <<mod, opened, timer, work, lock, list, heap, tasks, calls, walk>>

-----------------------------------------------------------------------------
(* timer_handler, in the timer softirq *)

Expires ==
  /\ timer # Nil
  /\ pc[Timer] = "idle"
  /\ timer' = Nil
  /\ Goto(Timer, "switch")
  /\ UNCHANGED <<mod, opened, flag, work, lock, list, heap, tasks, calls, walk>>

\* SET and the default of the switch: nothing is done.
HandleSet ==
  /\ pc[Timer] = "switch"
  /\ flag \in {"SET", "NONE"}
  /\ Goto(Timer, "idle")
  /\ UNCHANGED <<mod, opened, flag, timer, work, lock, list, heap, tasks, calls, walk>>

\* ALLOC: schedule_work, which does nothing if the work is queued already.
HandleAlloc ==
  /\ pc[Timer] = "switch"
  /\ flag = "ALLOC"
  /\ work' = work \cup {"queued"}
  /\ Goto(Timer, "idle")
  /\ UNCHANGED <<mod, opened, flag, timer, lock, list, heap, tasks, calls, walk>>

\* MONITOR: the case label is taken, and the handler spins for the lock.
HandleMonitor ==
  /\ pc[Timer] = "switch"
  /\ flag = "MONITOR"
  /\ Goto(Timer, "spin")
  /\ UNCHANGED <<mod, opened, flag, timer, work, lock, list, heap, tasks, calls, walk>>

Begin(x) ==
  /\ p' = [p EXCEPT ![x] = First(list)]
  /\ q' = [q EXCEPT ![x] = NextOf(list, First(list))]

MonitorLock ==
  /\ pc[Timer] = "spin"
  /\ lock = Free
  /\ lock' = Timer
  /\ Begin(Timer)
  /\ doomed' = {n \in Linked(list) : tstate[heap[n]] # "alive"}
  /\ Goto(Timer, "walk")
  /\ UNCHANGED <<mod, opened, flag, timer, work, list, heap, tasks, calls>>

\* process = number, number = number->next
Advance(x) ==
  /\ p' = [p EXCEPT ![x] = q[x]]
  /\ q' = [q EXCEPT ![x] = NextOf(list, @)]

\* Seeded fault: the reference to the task is kept.
KeepTask(x) ==
  /\ UNCHANGED usage
  /\ list'  = Without(list, p[x])
  /\ heap'  = [heap EXCEPT ![p[x]] = Nil]
  /\ Advance(x)

\* put_task_struct, list_del, kfree
Drop(x) ==
  /\ usage' = [usage EXCEPT ![heap[p[x]]] = @ - 1]
  /\ list'  = Without(list, p[x])
  /\ heap'  = [heap EXCEPT ![p[x]] = Nil]
  /\ Advance(x)

DropDead ==
  /\ pc[Timer] = "walk"
  /\ p[Timer] # HEAD
  /\ tstate[heap[p[Timer]]] # "alive"
  /\ Drop(Timer)
  /\ UNCHANGED <<mod, opened, flag, timer, work, lock, tstate, pc, calls, doomed>>

\* Seeded fault: the walk also steps over the entry after a live one.
SkipTwo ==
  /\ pc[Timer] = "walk"
  /\ p[Timer] # HEAD
  /\ tstate[heap[p[Timer]]] = "alive"
  /\ p' = [p EXCEPT ![Timer] = NextOf(list, q[Timer])]
  /\ q' = [q EXCEPT ![Timer] = NextOf(list, NextOf(list, @))]
  /\ UNCHANGED <<mod, opened, flag, timer, work, lock, list, heap, tasks, pc, calls, doomed>>

KeepLiving ==
  /\ pc[Timer] = "walk"
  /\ p[Timer] # HEAD
  /\ tstate[heap[p[Timer]]] = "alive"
  /\ Advance(Timer)
  /\ UNCHANGED <<mod, opened, flag, timer, work, lock, list, heap, tasks, pc, calls, doomed>>

\* Seeded fault: the handler returns with the lock held.
KeepLock ==
  /\ pc[Timer] = "walk"
  /\ p[Timer] = HEAD
  /\ p' = [p EXCEPT ![Timer] = Nil]
  /\ q' = [q EXCEPT ![Timer] = Nil]
  /\ doomed' = {}
  /\ Goto(Timer, "idle")
  /\ UNCHANGED <<mod, opened, flag, timer, work, lock, list, heap, tasks, calls>>

MonitorUnlock ==
  /\ pc[Timer] = "walk"
  /\ p[Timer] = HEAD
  /\ lock' = Free
  /\ p' = [p EXCEPT ![Timer] = Nil]
  /\ q' = [q EXCEPT ![Timer] = Nil]
  /\ doomed' = {}
  /\ Goto(Timer, "idle")
  /\ UNCHANGED <<mod, opened, flag, timer, work, list, heap, tasks, calls>>

-----------------------------------------------------------------------------
(* work_handler, in a kernel worker: alloc_io sleeps and returns *)

WorkStart ==
  /\ work = {"queued"}
  /\ work' = {"running"}
  /\ UNCHANGED <<mod, opened, flag, timer, lock, list, heap, tasks, pc, calls, walk>>

WorkEnd ==
  /\ "running" \in work
  /\ work' = work \ {"running"}
  /\ UNCHANGED <<mod, opened, flag, timer, lock, list, heap, tasks, pc, calls, walk>>

-----------------------------------------------------------------------------
(* deferred_init, deferred_exit *)

CdevAdd ==
  /\ mod = "out"
  /\ mod' = "added"
  /\ UNCHANGED <<opened, flag, timer, work, lock, list, heap, tasks, pc, calls, walk>>

\* timer_setup, INIT_WORK, spin_lock_init, INIT_LIST_HEAD, the flag.
SetUp ==
  /\ mod = "added"
  /\ mod' = "live"
  /\ timer' = Nil
  /\ work' = {}
  /\ lock' = Free
  /\ list' = <<>>
  /\ flag' = "NONE"
  /\ UNCHANGED <<opened, heap, tasks, pc, calls, walk>>

\* rmmod is refused while a file is open (.owner); cdev_del.
deferred_exit ==
  /\ mod = "live"
  /\ opened = {}
  /\ mod' = "del_timer"
  /\ UNCHANGED <<opened, flag, timer, work, lock, list, heap, tasks, pc, calls, walk>>

\* del_timer takes the timer out of the queue; it does not wait for a
\* handler that has started.
DelTimer ==
  /\ mod = "del_timer"
  /\ timer' = Nil
  /\ mod' = "cancel"
  /\ UNCHANGED <<opened, flag, work, lock, list, heap, tasks, pc, calls, walk>>

\* Seeded fault: the work is not cancelled.
NoCancel ==
  /\ mod = "cancel"
  /\ mod' = "exit_walk"
  /\ Begin(Rmmod)
  /\ UNCHANGED <<opened, flag, timer, work, lock, list, heap, tasks, pc, calls, doomed>>

\* cancel_work_sync dequeues the work and waits for its handler; then the
\* walk over the list begins, without the lock.
CancelWork ==
  /\ mod = "cancel"
  /\ "running" \notin work
  /\ work' = {}
  /\ mod' = "exit_walk"
  /\ Begin(Rmmod)
  /\ UNCHANGED <<opened, flag, timer, lock, list, heap, tasks, pc, calls, doomed>>

ExitDrop ==
  /\ mod = "exit_walk"
  /\ p[Rmmod] # HEAD
  /\ Drop(Rmmod)
  /\ UNCHANGED <<mod, opened, flag, timer, work, lock, tstate, pc, calls, doomed>>

ExitReturns ==
  /\ mod = "exit_walk"
  /\ p[Rmmod] = HEAD
  /\ mod' = "out"
  /\ p' = [p EXCEPT ![Rmmod] = Nil]
  /\ q' = [q EXCEPT ![Rmmod] = Nil]
  /\ UNCHANGED <<opened, flag, timer, work, lock, list, heap, tasks, pc, calls, doomed>>

-----------------------------------------------------------------------------
(* Tasks: alive, dead (TASK_DEAD, its pid still found), reaped (its pid is  *)
(* gone), and the kernel's own reference dropped after a grace period.      *)

Dies(k) ==
  /\ tstate[k] = "alive"
  /\ tstate' = [tstate EXCEPT ![k] = "dead"]
  /\ UNCHANGED <<mod, opened, flag, timer, work, lock, list, heap, usage, pc, calls, walk>>

Reaped(k) ==
  /\ tstate[k] = "dead"
  /\ tstate' = [tstate EXCEPT ![k] = "reaped"]
  /\ UNCHANGED <<mod, opened, flag, timer, work, lock, list, heap, usage, pc, calls, walk>>

KernelPut(k) ==
  /\ tstate[k] = "reaped"
  /\ LateReap \/ \A t \in Threads : task[t] # k
  /\ tstate' = [tstate EXCEPT ![k] = "gone"]
  /\ usage'  = [usage EXCEPT ![k] = @ - 1]
  /\ UNCHANGED <<mod, opened, flag, timer, work, lock, list, heap, pc, calls, walk>>

-----------------------------------------------------------------------------
Init ==
  /\ mod = "out"
  /\ opened = {}
  /\ flag = "NONE"
  /\ timer = Nil
  /\ work = {}
  /\ lock = Free
  /\ list = <<>>
  /\ heap = [n \in Nodes |-> Nil]
  /\ tstate = [k \in Tasks |-> "alive"]
  /\ usage = [k \in Tasks |-> 1]
  /\ pc = [x \in Contexts |-> IF x \in Threads THEN "user" ELSE "idle"]
  /\ task = [t \in Threads |-> Nil]
  /\ node = [t \in Threads |-> Nil]
  /\ snap = [t \in Threads |-> <<>>]
  /\ p = [x \in {Timer, Rmmod} |-> Nil]
  /\ q = [x \in {Timer, Rmmod} |-> Nil]
  /\ doomed = {}

Ioctl(t) ==
  \/ SetFlag(t, "SET") \/ SetFlag(t, "ALLOC") \/ Cancel(t) \/ PidTask(t)

\* The steps of an ioctl that is under way.
IoctlStep(t) ==
  \/ ModTimer(t, "SET") \/ ModTimer(t, "ALLOC") \/ ModTimer(t, "MONITOR")
  \/ NoMemory(t) \/ GetTask(t) \/ AddLock(t) \/ AddStore(t) \/ MonitorFlag(t)

Handler ==
  \/ HandleSet \/ HandleAlloc \/ HandleMonitor \/ MonitorLock
  \/ DropDead \/ KeepLiving \/ MonitorUnlock

Exit == DelTimer \/ CancelWork \/ ExitDrop \/ ExitReturns

Step ==
  \/ \E t \in Threads : timer_open(t) \/ timer_release(t) \/ Ioctl(t) \/ IoctlStep(t)
  \/ Expires \/ Handler
  \/ WorkStart \/ WorkEnd
  \/ CdevAdd \/ SetUp \/ deferred_exit \/ Exit
  \/ \E k \in Tasks : Dies(k) \/ Reaped(k) \/ KernelPut(k)

\* A handler that started before del_timer is still under way when deferred_
\* exit, past cancel_work_sync, frees the entries and returns: it walks freed
\* entries, queues work again or runs in code that is gone.
Overlap == mod = "exit_walk" /\ pc[Timer] # "idle"

Undefined == Overlap /\ UNCHANGED vars

Next == (~Overlap /\ Step) \/ Undefined

Spec == Init /\ [][Next]_vars

\* mod_timer, by whatever request.
Arm == \E t \in Threads, type \in Types : ModTimer(t, type)

\* Running code makes progress and a spinning context gets the lock (queued
\* spinlocks), a pending timer expires unless it is armed again, which puts its
\* time off, the sleep of alloc_io ends and the workqueue runs what is queued.
\* Nobody has to call ioctl or rmmod.
FairSpec ==
  /\ Spec
  /\ \A t \in Threads : SF_vars(IoctlStep(t))
  /\ SF_vars(~Overlap /\ Handler) /\ WF_vars(Expires \/ Arm)
  /\ WF_vars(WorkStart) /\ WF_vars(WorkEnd) /\ SF_vars(~Overlap /\ Exit)

-----------------------------------------------------------------------------
(* Properties *)

\* Every variable has its type, and a timer is armed only after a request has
\* written the flag (line 132), so the handler never falls into the default of
\* its switch.
TypeOK ==
  /\ mod \in {"out", "added", "live", "del_timer", "cancel", "exit_walk"}
  /\ opened \subseteq Threads
  /\ flag \in Types \cup {"NONE"}
  /\ timer \in Types \cup {Nil}
  /\ work \subseteq {"queued", "running"}
  /\ lock \in Threads \cup {Timer, Free}
  /\ list \in Seq(Nodes)
  /\ heap \in [Nodes -> Tasks \cup {Nil}]
  /\ tstate \in [Tasks -> {"alive", "dead", "reaped", "gone"}]
  /\ usage \in [Tasks -> Nat]
  /\ pc \in [Contexts -> {"user", "found", "got", "add", "added", "idle",
                          "switch", "spin", "walk"} \cup Types]
  /\ task \in [Threads -> Tasks \cup {Nil}]
  /\ node \in [Threads -> Nodes \cup {Nil}]
  /\ snap \in [Threads -> Seq(Nodes)]
  /\ p \in [{Timer, Rmmod} -> Nodes \cup {HEAD, Nil}]
  /\ q \in [{Timer, Rmmod} -> Nodes \cup {HEAD, Nil}]
  /\ doomed \subseteq Nodes
  /\ pc[Timer] = "switch" \/ timer # Nil => flag # "NONE"

\* A monitor_process is linked once or on its way into the list, and nothing
\* that was freed is linked, whatever ioctl, handler and, while no handler
\* overlaps with it, exit do.
OwnedOnce ==
  \A n \in Nodes :
    Cardinality({i \in 1..Len(list) : list[i] = n})
      + Cardinality({t \in Threads : node[t] = n}) = (IF heap[n] = Nil THEN 0 ELSE 1)

\* References to a task are balanced: the kernel's and one for each entry.  So
\* a task that is monitored is not freed, provided that it was not yet when
\* get_task_struct took the reference (LateReap), and one that no longer is
\* monitored can be.
RefsBalanced ==
  \A k \in Tasks :
    usage[k] = Cardinality({n \in Nodes : heap[n] = k})
                 + (IF tstate[k] = "gone" THEN 0 ELSE 1)

\* A pass of the handler over the list removes every entry whose task was
\* dead when the pass began.
SweepComplete ==
  pc[Timer] = "walk" /\ p[Timer] = HEAD => doomed \cap Linked(list) = {}

\* The entry of a task that lives stays in the list, unchanged, until the
\* module goes: list_add, which stores in front of the head that it has loaded
\* (line 153), undoes nothing that others did in between, and the handler
\* deletes only dead tasks.
StaysMonitored ==
  [][\A n \in Linked(list) :
       tstate[heap[n]] = "alive" /\ mod # "exit_walk"
         => n \in Linked(list') /\ heap'[n] = heap[n]]_vars

\* deferred_exit has left nothing behind when it returns, no entry, no timer and
\* no work, if no handler was under way when it began to free: with one, it may
\* return in a state this says nothing of (Undefined).
CleanUnload ==
  mod = "out" => /\ \A n \in Nodes : heap[n] = Nil
                 /\ timer = Nil
                 /\ work = {}

\* The handler's walk over the list is a "CRITICAL SECTION" (line 91): nobody
\* else changes the list meanwhile.
WalkIsExclusive == pc[Timer] = "walk" => mod # "exit_walk"

\* An ioctl returns; an armed timer is served or disarmed, unless ioctls go on
\* arming it; the handler returns; scheduled work is done or cancelled, and
\* unloading ends, or comes to overlap with a handler.
Progress ==
  /\ \A t \in Threads : pc[t] # "user" ~> pc[t] = "user"
  /\ []<><<Arm>>_vars \/ (timer # Nil ~> timer = Nil)
  /\ pc[Timer] # "idle" ~> pc[Timer] = "idle" \/ Overlap
  /\ "queued" \in work ~> "queued" \notin work
  /\ mod = "del_timer" ~> mod = "out" \/ Overlap
=============================================================================
