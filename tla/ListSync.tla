----------------------------- MODULE ListSync -----------------------------
(***************************************************************************)
(* The synchronized task list, KernelModules/list-sync-mod/list-sync.c,    *)
(* and the modules that use its exported functions, such as                *)
(* KernelModules/list-sym-mod/list-sym.c.                                  *)
(*                                                                         *)
(* Each module is loaded and unloaded by a thread of its own: Sync is      *)
(* list-sync, Clients are modules like list-sym.  A thread works through   *)
(* the calls of its init or exit function (todo).  The list is a sequence  *)
(* of heap nodes; the walks go node by node, with the pointers p and q of  *)
(* the macros as local variables.  jiffies wraps at W, and each node       *)
(* carries its true age as a history variable.  A dead local is Nil.       *)
(***************************************************************************)
EXTENDS Integers, Sequences, FiniteSets, KernelList

CONSTANTS
  Clients, Sync,
  Pids, Nodes,      \* Nodes: the addresses that kmalloc may return
  Neighbours,       \* pids that task_info_add_for_current adds, 4 in the code
  W,                \* jiffies is an unsigned long: arithmetic modulo W
  Expiry,           \* 3 * HZ
  MinCount,         \* entries with this many updates never expire, 5 in the code
  MaxCount,         \* bound: count stays there; the code only asks count < 5
  KmallocMayFail,
  Free, Nil

ASSUME ListSyncAssumption ==
  /\ Sync \notin Clients
  /\ Free \notin Clients \cup {Sync}
  /\ HEAD \notin Nodes /\ Nil \notin Nodes /\ HEAD # Nil
  /\ Neighbours \in Nat /\ Expiry \in Nat /\ MinCount \in Nat
  /\ W \in Nat /\ W > Expiry + 1
  /\ MaxCount \in Nat /\ MaxCount >= MinCount
  /\ KmallocMayFail \in BOOLEAN
  /\ IsFiniteSet(Clients)
  /\ Nil \notin [pid : Pids, ts : Nat, age : Nat, count : Nat]

VARIABLES
  state,     \* of each module: out, coming, live or going
  todo,      \* the calls that a module's init or exit has yet to make
  pc,        \* where each thread is in the first of them
  writer, readers,   \* the rwlock
  list,      \* the nodes linked from head, in order
  heap,      \* the content of each node, or Nil when it is free
  jiffies,
  pid, ti,   \* locals of task_info_add_to_list
  p, q,      \* locals of the list walks
  marked     \* local ti of list_sync_exit: a node, or HEAD as head.prev of an empty list

rwlock == <<writer, readers>>
adding == <<pid, ti>>
walk   == <<p, q>>
vars   == <<state, todo, pc, rwlock, list, heap, jiffies, adding, walk, marked>>

Threads == Clients \cup {Sync}

-----------------------------------------------------------------------------
(* The rwlock *)

\* Seeded fault: a writer does not wait for readers.
WriteOverReaders(t) ==
  /\ writer = Free
  /\ writer' = t
  /\ UNCHANGED readers

write_lock(t) ==
  /\ writer = Free
  /\ readers = {}
  /\ writer' = t
  /\ UNCHANGED readers

write_unlock ==
  /\ writer' = Free
  /\ UNCHANGED readers

read_lock(t) ==
  /\ writer = Free
  /\ readers' = readers \cup {t}
  /\ UNCHANGED writer

read_unlock(t) ==
  /\ readers' = readers \ {t}
  /\ UNCHANGED writer

-----------------------------------------------------------------------------
(* Control: a thread begins a call, goes on, and returns to the next one *)

Begins(t, call) == pc[t] = "ready" /\ todo[t] # <<>> /\ Head(todo[t]) = call

Goto(t, next) == pc' = [pc EXCEPT ![t] = next] /\ UNCHANGED todo

Returns(t) ==
  /\ pc'   = [pc EXCEPT ![t] = "ready"]
  /\ todo' = [todo EXCEPT ![t] = Tail(@)]

-----------------------------------------------------------------------------
(* task_info_add_to_list *)

AddLock(t) ==
  /\ Begins(t, "add")
  /\ write_lock(t)
  /\ \E i \in Pids : pid' = [pid EXCEPT ![t] = i]
  /\ Goto(t, "add_find")
  /\ UNCHANGED <<state, list, heap, jiffies, ti, walk, marked>>

\* task_info_find_pid: the positions of the entries with the pid.
Matches(i) == {k \in 1..Len(list) : heap[list[k]].pid = i}

\* The first match is stamped and counted.
Touch(i) ==
  \E k \in Matches(i) :
    /\ \A j \in Matches(i) : k <= j
    /\ heap' = [heap EXCEPT ![list[k]].ts = jiffies, ![list[k]].age = 0,
                            ![list[k]].count = IF @ < MaxCount THEN @ + 1 ELSE @]

\* Seeded fault: the early return keeps the lock.
ForgetUnlock(t) ==
  /\ pc[t] = "add_find"
  /\ Touch(pid[t])
  /\ Returns(t)
  /\ pid' = [pid EXCEPT ![t] = Nil]
  /\ UNCHANGED <<state, rwlock, list, jiffies, ti, walk, marked>>

AddFound(t) ==
  /\ pc[t] = "add_find"
  /\ Touch(pid[t])
  /\ write_unlock
  /\ Returns(t)
  /\ pid' = [pid EXCEPT ![t] = Nil]
  /\ UNCHANGED <<state, list, jiffies, ti, walk, marked>>

\* No match: the lock is given up before the allocation, which may sleep.
AddMiss(t) ==
  /\ pc[t] = "add_find"
  /\ Matches(pid[t]) = {}
  /\ write_unlock
  /\ Goto(t, "add_alloc")
  /\ UNCHANGED <<state, list, heap, jiffies, adding, walk, marked>>

NewEntry(i) == [pid |-> i, ts |-> jiffies, age |-> 0, count |-> 0]

task_info_alloc(t) ==
  /\ pc[t] = "add_alloc"
  /\ \/ \E n \in Nodes :
          /\ heap[n] = Nil
          /\ heap' = [heap EXCEPT ![n] = NewEntry(pid[t])]
          /\ ti' = [ti EXCEPT ![t] = n]
     \/ KmallocMayFail /\ UNCHANGED <<heap, ti>>
  /\ Goto(t, "add_lock")
  /\ UNCHANGED <<state, rwlock, list, jiffies, pid, walk, marked>>

AddLockAgain(t) ==
  /\ pc[t] = "add_lock"
  /\ write_lock(t)
  /\ Goto(t, "add_insert")
  /\ UNCHANGED <<state, list, heap, jiffies, adding, walk, marked>>

AddInsert(t) ==
  /\ pc[t] = "add_insert"
  /\ ti[t] # Nil
  /\ list' = Pushed(list, ti[t])
  /\ write_unlock
  /\ Returns(t)
  /\ pid' = [pid EXCEPT ![t] = Nil]
  /\ ti'  = [ti EXCEPT ![t] = Nil]
  /\ UNCHANGED <<state, heap, jiffies, walk, marked>>

\* list_add on the NULL that the allocation returned: the kernel kills the
\* thread, which never gives the lock back.
AddOops(t) ==
  /\ pc[t] = "add_insert"
  /\ ti[t] = Nil
  /\ Goto(t, "dead")
  /\ UNCHANGED <<state, rwlock, list, heap, jiffies, adding, walk, marked>>

-----------------------------------------------------------------------------
(* The walks: print, remove_expired and purge *)

PrintLock(t) ==
  /\ Begins(t, "print")
  /\ read_lock(t)
  /\ p' = [p EXCEPT ![t] = First(list)]
  /\ Goto(t, "print")
  /\ UNCHANGED <<state, list, heap, jiffies, adding, q, marked>>

PrintEntry(t) ==
  /\ pc[t] = "print"
  /\ p[t] # HEAD
  /\ p' = [p EXCEPT ![t] = NextOf(list, @)]
  /\ UNCHANGED <<state, todo, pc, rwlock, list, heap, jiffies, adding, q, marked>>

PrintUnlock(t) ==
  /\ pc[t] = "print"
  /\ p[t] = HEAD
  /\ read_unlock(t)
  /\ Returns(t)
  /\ p' = [p EXCEPT ![t] = Nil]
  /\ UNCHANGED <<state, list, heap, jiffies, adding, q, marked>>

\* Both deleting walks start alike: p is the first node, q the one after it.
WalkLock(t, call) ==
  /\ Begins(t, call)
  /\ write_lock(t)
  /\ p' = [p EXCEPT ![t] = First(list)]
  /\ q' = [q EXCEPT ![t] = NextOf(list, First(list))]
  /\ Goto(t, call)
  /\ UNCHANGED <<state, list, heap, jiffies, adding, marked>>

RemoveLock(t) == WalkLock(t, "remove")
PurgeLock(t)  == WalkLock(t, "purge")

\* Seeded fault: an entry expires one jiffy early.
ExpiresEarly(n) ==
  /\ (jiffies - heap[n].ts) % W >= Expiry
  /\ heap[n].count < MinCount

Expired(n) ==
  /\ (jiffies - heap[n].ts) % W > Expiry
  /\ heap[n].count < MinCount

\* p = q, q = q->next
Advance(t) ==
  /\ p' = [p EXCEPT ![t] = q[t]]
  /\ q' = [q EXCEPT ![t] = NextOf(list, @)]

\* Seeded fault: the node is freed and stays in the list.
FreeLinked(t) ==
  /\ heap' = [heap EXCEPT ![p[t]] = Nil]
  /\ UNCHANGED list
  /\ Advance(t)

\* list_del and kfree, then on to q.
Delete(t) ==
  /\ heap' = [heap EXCEPT ![p[t]] = Nil]
  /\ list' = Without(list, p[t])
  /\ Advance(t)

RemoveEntry(t) ==
  /\ pc[t] = "remove"
  /\ p[t] # HEAD
  /\ Expired(p[t])
  /\ Delete(t)
  /\ UNCHANGED <<state, todo, pc, rwlock, jiffies, adding, marked>>

KeepEntry(t) ==
  /\ pc[t] = "remove"
  /\ p[t] # HEAD
  /\ ~Expired(p[t])
  /\ Advance(t)
  /\ UNCHANGED <<state, todo, pc, rwlock, list, heap, jiffies, adding, marked>>

\* Seeded fault: purging stops one entry early.
PurgeStopsEarly(t) ==
  /\ pc[t] = "purge"
  /\ p[t] # HEAD
  /\ IF q[t] = HEAD THEN Advance(t) /\ UNCHANGED <<list, heap>> ELSE Delete(t)
  /\ UNCHANGED <<state, todo, pc, rwlock, jiffies, adding, marked>>

PurgeEntry(t) ==
  /\ pc[t] = "purge"
  /\ p[t] # HEAD
  /\ Delete(t)
  /\ UNCHANGED <<state, todo, pc, rwlock, jiffies, adding, marked>>

WalkUnlock(t) ==
  /\ pc[t] \in {"remove", "purge"}
  /\ p[t] = HEAD
  /\ write_unlock
  /\ Returns(t)
  /\ p' = [p EXCEPT ![t] = Nil]
  /\ q' = [q EXCEPT ![t] = Nil]
  /\ UNCHANGED <<state, list, heap, jiffies, adding, marked>>

-----------------------------------------------------------------------------
(* Loading and unloading *)

task_info_add_for_current == [i \in 1..Neighbours |-> "add"]

InitCalls(t) ==
  IF t = Sync THEN task_info_add_for_current \o <<"print", "sleep">>  \* list_sync_init
              ELSE task_info_add_for_current \o <<"print">>           \* list_test_init

ExitCalls(t) ==
  IF t = Sync THEN <<"mark", "remove", "print", "purge">>   \* list_sync_exit
              ELSE <<"remove", "print">>                    \* list_test_exit

\* A user of the exported symbols is loaded only after list-sync's init has
\* returned.  INIT_LIST_HEAD empties the list.
Insmod(t) ==
  /\ state[t] = "out"
  /\ t \in Clients => state[Sync] = "live"
  /\ state' = [state EXCEPT ![t] = "coming"]
  /\ todo'  = [todo EXCEPT ![t] = InitCalls(t)]
  /\ list'  = IF t = Sync THEN <<>> ELSE list
  /\ UNCHANGED <<pc, rwlock, heap, jiffies, adding, walk, marked>>

\* rmmod is refused while another module uses the symbols.
Rmmod(t) ==
  /\ state[t] = "live"
  /\ t = Sync => \A c \in Clients : state[c] = "out"
  /\ state' = [state EXCEPT ![t] = "going"]
  /\ todo'  = [todo EXCEPT ![t] = ExitCalls(t)]
  /\ UNCHANGED <<pc, rwlock, list, heap, jiffies, adding, walk, marked>>

\* The init or exit function returns.
EntryReturns(t) ==
  /\ state[t] \in {"coming", "going"}
  /\ todo[t] = <<>>
  /\ state' = [state EXCEPT ![t] = IF @ = "coming" THEN "live" ELSE "out"]
  /\ marked' = IF t = Sync THEN Nil ELSE marked
  /\ UNCHANGED <<todo, pc, rwlock, list, heap, jiffies, adding, walk>>

\* schedule_timeout ends, by the timer or by a signal.
Sleep(t) ==
  /\ Begins(t, "sleep")
  /\ Returns(t)
  /\ UNCHANGED <<state, rwlock, list, heap, jiffies, adding, walk, marked>>

\* Seeded fault: the exit function marks the newest entry's timestamp only.
MarkStamp(t) ==
  /\ Begins(t, "mark")
  /\ heap' = IF list = <<>> THEN heap ELSE [heap EXCEPT ![list[1]].ts = jiffies]
  /\ marked' = First(list)
  /\ Returns(t)
  /\ UNCHANGED <<state, rwlock, list, jiffies, adding, walk>>

\* The exit function sets the count of the entry before head.  When the list
\* is empty that is no entry, and the write goes to memory near head itself.
Mark(t) ==
  /\ Begins(t, "mark")
  /\ heap' = IF list = <<>> THEN heap ELSE [heap EXCEPT ![list[Len(list)]].count = MaxCount]
  /\ marked' = IF list = <<>> THEN HEAD ELSE list[Len(list)]
  /\ Returns(t)
  /\ UNCHANGED <<state, rwlock, list, jiffies, adding, walk>>

Tick ==
  /\ jiffies' = (jiffies + 1) % W
  /\ heap' = [n \in Nodes |->
       IF heap[n] # Nil /\ heap[n].age <= Expiry
       THEN [heap[n] EXCEPT !.age = @ + 1] ELSE heap[n]]
  /\ UNCHANGED <<state, todo, pc, rwlock, list, adding, walk, marked>>

-----------------------------------------------------------------------------
Init ==
  /\ state = [t \in Threads |-> "out"]
  /\ todo  = [t \in Threads |-> <<>>]
  /\ pc    = [t \in Threads |-> "ready"]
  /\ writer = Free
  /\ readers = {}
  /\ list = <<>>
  /\ heap = [n \in Nodes |-> Nil]
  /\ jiffies = 0
  /\ pid = [t \in Threads |-> Nil]
  /\ ti  = [t \in Threads |-> Nil]
  /\ p   = [t \in Threads |-> Nil]
  /\ q   = [t \in Threads |-> Nil]
  /\ marked = Nil

\* Steps that may have to wait for the lock.
Waits(t) ==
  AddLock(t) \/ AddLockAgain(t) \/ PrintLock(t) \/ RemoveLock(t) \/ PurgeLock(t)

\* Steps of a thread that runs.
Runs(t) ==
  \/ AddFound(t) \/ AddMiss(t) \/ task_info_alloc(t) \/ AddInsert(t) \/ AddOops(t)
  \/ PrintEntry(t) \/ PrintUnlock(t)
  \/ RemoveEntry(t) \/ KeepEntry(t) \/ PurgeEntry(t) \/ WalkUnlock(t)
  \/ Sleep(t) \/ Mark(t) \/ EntryReturns(t)

Next ==
  \/ \E t \in Threads : Insmod(t) \/ Rmmod(t) \/ Waits(t) \/ Runs(t)
  \/ Tick

Spec == Init /\ [][Next]_vars

\* A runnable thread runs; the kernel's rwlocks are queued, so a thread that
\* waits gets its turn.  Nobody has to load or unload a module.
FairSpec ==
  Spec /\ \A t \in Threads : WF_vars(Runs(t)) /\ SF_vars(Waits(t))

-----------------------------------------------------------------------------
(* Properties *)

Entries == [pid : Pids, ts : 0..(W - 1), age : 0..(Expiry + 1), count : 0..MaxCount]
Calls   == {"add", "print", "sleep", "mark", "remove", "purge"}

\* Every variable has its type; an entry's timestamp and count are set
\* before anybody can see them (lines 53 to 55).
TypeOK ==
  /\ state \in [Threads -> {"out", "coming", "live", "going"}]
  /\ todo \in [Threads -> Seq(Calls)]
  /\ pc \in [Threads -> {"ready", "add_find", "add_alloc", "add_lock", "add_insert",
                         "print", "remove", "purge", "dead"}]
  /\ writer \in Threads \cup {Free}
  /\ readers \subseteq Threads
  /\ list \in Seq(Nodes)
  /\ heap \in [Nodes -> Entries \cup {Nil}]
  /\ jiffies \in 0..(W - 1)
  /\ pid \in [Threads -> Pids \cup {Nil}]
  /\ ti \in [Threads -> Nodes \cup {Nil}]
  /\ p \in [Threads -> Nodes \cup {HEAD, Nil}]
  /\ q \in [Threads -> Nodes \cup {HEAD, Nil}]
  /\ marked \in Nodes \cup {HEAD, Nil}

\* Memory is owned exactly once: an allocated entry is either linked once or
\* in the hands of the one thread that will link it; nothing that was freed
\* is linked, and nothing is leaked.
OwnedOnce ==
  \A n \in Nodes :
    Cardinality({i \in 1..Len(list) : list[i] = n})
      + Cardinality({t \in Threads : ti[t] = n}) = (IF heap[n] = Nil THEN 0 ELSE 1)

\* Walks of print, remove_expired and purge never stand on an entry, or hold
\* a saved successor, that somebody has unlinked: the lock excludes it and
\* list_for_each_safe copes with the walk's own deletions.
WalksSafe ==
  \A t \in Threads : {p[t], q[t]} \subseteq Linked(list) \cup {HEAD, Nil}

\* An unloaded list-sync has left no memory behind, whatever its users added
\* while it was loaded.
CleanUnload == state[Sync] = "out" => \A n \in Nodes : heap[n] = Nil

\* If list_sync_exit has marked an entry (line 218), that entry is still linked
\* while it prints the list after removing the expired ones, however long ago
\* the entry was updated.
MarkedSurvives ==
  pc[Sync] = "print" /\ state[Sync] = "going" /\ marked # HEAD
    => marked \in Linked(list)

\* The abstract table: an entry is in it from list_add to list_del.  It is out
\* again when the exit function has made its last call.
Table == INSTANCE TaskTable WITH
  Users <- Clients,
  Slots <- Nodes,
  phase <- IF state[Sync] = "out" \/ (state[Sync] = "going" /\ todo[Sync] = <<>>) THEN "out"
           ELSE IF pc[Sync] = "purge" THEN "purging" ELSE "in",
  users <- {c \in Clients : state[c] # "out"},
  table <- [n \in Linked(list) |->
              [pid |-> heap[n].pid, age |-> heap[n].age, count |-> heap[n].count]]

\* list-sync implements the table, whatever its users do at the same time.  In
\* particular an entry that remove_expired frees (line 163) was left alone for
\* more than 3 * HZ jiffies of real time, also when jiffies has wrapped in
\* between; nothing else takes an entry out of the list or resets its age, and
\* the rest is purged when no module uses the list.
TableKept == Table!Spec

\* "Clean up the module by marking one entry" (line 211): the write to count
\* in list_sync_exit hits an entry.
MarksAnEntry == marked # HEAD

\* "Add a PID to the list, or update its timestamp if already present" (line
\* 81): no two entries of the list have the same pid.
ListedOnce ==
  \A m, n \in Linked(list) : heap[m].pid = heap[n].pid => m = n

\* Every call into the module returns, so init and exit functions end, as long
\* as no thread has died in list_add with the lock (line 106).
CallsReturn ==
  \A t \in Threads :
    todo[t] # <<>> ~> todo[t] = <<>> \/ \E u \in Threads : pc[u] = "dead"
=============================================================================
