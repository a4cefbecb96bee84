---------------------------- MODULE ListProofs ----------------------------
(***************************************************************************)
(* Proofs about the synchronized list, for any number of users, processes  *)
(* and entries, any wrap-around of jiffies and any expiry time below it.   *)
(***************************************************************************)
EXTENDS ListSync, KernelListProofs, TLAPS

-----------------------------------------------------------------------------
(* The inductive invariant *)

Adding == {"add_find", "add_alloc", "add_lock", "add_insert", "dead"}

\* A thread that is inside a call is inside the first of its calls, and one
\* whose module rests has none to make.
CallInv ==
  \A t \in Threads :
    /\ pc[t] # "ready" =>
         todo[t] # <<>> /\ Head(todo[t]) = (IF pc[t] \in Adding THEN "add" ELSE pc[t])
    /\ state[t] \in {"out", "live"} => todo[t] = <<>>

\* The rwlock: who is in a critical section holds it, and a thread that has
\* died there still does.
LockInv ==
  /\ \A t \in Threads :
       /\ writer = t <=> pc[t] \in {"add_find", "add_insert", "remove", "purge", "dead"}
       /\ t \in readers <=> pc[t] = "print"
  /\ writer # Free => readers = {}

\* Every entry is linked once or in the hands of one thread that will link it.
OwnInv ==
  /\ Distinct(list)
  /\ \A n \in Nodes : heap[n] # Nil <=> n \in Linked(list) \/ \E t \in Threads : ti[t] = n
  /\ \A t \in Threads : ti[t] \notin Linked(list)
  /\ \A t, u \in Threads : ti[t] = ti[u] /\ ti[t] # Nil => t = u
  /\ \A t \in Threads : ti[t] # Nil => pc[t] \in {"add_lock", "add_insert"}

\* The pid that is being added, and the entry made for it.
PidInv ==
  \A t \in Threads :
    /\ pc[t] \in Adding \ {"dead"} => pid[t] \in Pids
    /\ ti[t] # Nil => heap[ti[t]].pid = pid[t]

\* Pointers of a walk lead to linked entries, and those of everybody else nowhere.
WalkInv ==
  \A t \in Threads :
    /\ pc[t] \in {"print", "remove", "purge"} => p[t] \in Linked(list) \cup {HEAD}
    /\ pc[t] \in {"remove", "purge"} => q[t] = NextOf(list, p[t])
    /\ pc[t] = "purge" => p[t] = First(list)
    /\ pc[t] \notin {"print", "remove", "purge"} => p[t] = Nil
    /\ pc[t] \notin {"remove", "purge"} => q[t] = Nil

ExitTails == {<<"mark", "remove", "print", "purge">>, <<"remove", "print", "purge">>,
              <<"print", "purge">>, <<"purge">>, <<>>}

\* list-sync is loaded as long as it is used, and its exit function works
\* through its calls alone; the last of them empties the list.
UseInv ==
  /\ \A c \in Clients : state[c] # "out" => state[Sync] = "live"
  /\ state[Sync] = "out" => list = <<>>
  /\ state[Sync] = "going" => todo[Sync] \in ExitTails
  /\ state[Sync] = "going" /\ todo[Sync] = <<>> => list = <<>>

\* From mark to print the marked entry is linked and has MinCount updates.
MarkInv ==
  /\ state[Sync] = "going"
  /\ todo[Sync] \in {<<"remove", "print", "purge">>, <<"print", "purge">>}
  /\ marked # HEAD
  => marked \in Linked(list) /\ heap[marked].count >= MinCount

\* As long as an entry is not older than Expiry, its timestamp tells its age,
\* with at most one wrap-around between them.
AgeInv ==
  \A n \in Nodes : heap[n] # Nil /\ heap[n].age <= Expiry =>
    \/ jiffies = heap[n].ts + heap[n].age
    \/ jiffies = heap[n].ts + heap[n].age - W

Copies(i) == {n \in Linked(list) : heap[n].pid = i}
Adders(i) == {t \in Threads : pid[t] = i /\ pc[t] \in {"add_alloc", "add_lock", "add_insert"}}

\* Looking up a pid and inserting it are two critical sections, so a pid can
\* be listed twice; but no more often than there are users of the list.
CopiesInv ==
  \A i \in Pids : Cardinality(Copies(i)) + Cardinality(Adders(i)) <= Cardinality(Threads)

IInv ==
  /\ TypeOK /\ CallInv /\ LockInv /\ OwnInv /\ PidInv /\ WalkInv /\ UseInv
  /\ MarkInv /\ AgeInv /\ CopiesInv

-----------------------------------------------------------------------------
(* The calls *)

\* While list-sync is not loaded its users do nothing.
LEMMA AloneInExit ==
  ASSUME IInv, state[Sync] # "live", NEW t \in Threads, todo[t] # <<>>
  PROVE  t = Sync
BY DEF IInv, CallInv, UseInv, Threads

-----------------------------------------------------------------------------
(* The steps that change the list *)

\* Two threads cannot be in critical sections of the write lock.
LEMMA OneWriter ==
  ASSUME IInv, NEW t \in Threads, NEW u \in Threads,
         pc[t] \in {"add_find", "add_insert", "remove", "purge", "dead"},
         pc[u] \in {"add_find", "add_insert", "remove", "purge", "dead", "print"}
  PROVE  t = u
BY ListSyncAssumption DEF IInv, LockInv, Threads

\* The nodes of the list.
LEMMA ListFacts ==
  ASSUME IInv
  PROVE  /\ list \in Seq(Nodes) /\ Distinct(list)
         /\ HEAD \notin Nodes /\ Nil \notin Nodes /\ HEAD # Nil
         /\ Linked(list) \subseteq Nodes
         /\ First(list) \in Linked(list) \cup {HEAD}
         /\ First(list) = HEAD => list = <<>>
         /\ \A n : NextOf(list, n) \in Linked(list) \cup {HEAD}
<1>1. list \in Seq(Nodes) /\ Distinct(list) /\ HEAD \notin Nodes /\ Nil \notin Nodes /\ HEAD # Nil
  BY ListSyncAssumption DEF IInv, TypeOK, OwnInv
<1>2. Linked(list) \subseteq Nodes
  BY <1>1, LinkedNodes
<1> QED
  BY <1>1, <1>2, LinkedNodes, NextNode

\* list_add of an entry that is not linked.
LEMMA InsertList ==
  ASSUME IInv, NEW t \in Threads, AddInsert(t)
  PROVE  /\ ti[t] \in Nodes /\ ti[t] \notin Linked(list)
         /\ list' \in Seq(Nodes)
         /\ Linked(list') = Linked(list) \cup {ti[t]}
         /\ Distinct(list')
<1>1. ti[t] \in Nodes /\ ti[t] \notin Linked(list) /\ list' = Pushed(list, ti[t])
  BY DEF AddInsert, IInv, TypeOK, OwnInv
<1> QED
  BY <1>1, ListFacts, PushedList

\* A deleting walk comes to the successor that it has saved.
LEMMA DeleteList ==
  ASSUME IInv, NEW t \in Threads, RemoveEntry(t) \/ PurgeEntry(t)
  PROVE  /\ pc[t] \in {"remove", "purge"}
         /\ p[t] \in Linked(list) /\ p[t] \in Nodes
         /\ heap' = [heap EXCEPT ![p[t]] = Nil]
         /\ list' \in Seq(Nodes)
         /\ Linked(list') = Linked(list) \ {p[t]}
         /\ Distinct(list')
         /\ p'[t] = q[t] /\ p'[t] \in Linked(list') \cup {HEAD}
         /\ q'[t] = NextOf(list', p'[t]) /\ q'[t] \in Linked(list') \cup {HEAD}
         /\ p[t] = First(list) => p'[t] = First(list')
<1>1. pc[t] \in {"remove", "purge"} /\ p[t] # HEAD /\ Delete(t)
  BY DEF RemoveEntry, PurgeEntry
<1>2. p[t] \in Linked(list) /\ q[t] = NextOf(list, p[t])
  BY <1>1 DEF IInv, WalkInv
<1>3. heap' = [heap EXCEPT ![p[t]] = Nil] /\ list' = Without(list, p[t])
  BY <1>1 DEF Delete
<1>4. p'[t] = q[t] /\ q'[t] = NextOf(list, q[t])
  BY <1>1 DEF Delete, Advance, IInv, TypeOK
<1>5. list' \in Seq(Nodes) /\ Linked(list') = Linked(list) \ {p[t]} /\ Distinct(list')
  BY <1>2, <1>3, ListFacts, WithoutList
<1>6. /\ q[t] \in Linked(list') \cup {HEAD}
      /\ NextOf(list', q[t]) = NextOf(list, q[t])
      /\ p[t] = First(list) => First(list') = q[t]
  BY <1>2, <1>3, ListFacts, WithoutNext
<1>7. NextOf(list', q[t]) \in Linked(list') \cup {HEAD}
  BY <1>5, ListFacts, NextNode
<1> QED
  BY <1>1, <1>2, <1>3, <1>4, <1>5, <1>6, <1>7, ListFacts

\* The first match is one of the list's entries; only its time and its count change.
LEMMA TouchEntry ==
  ASSUME IInv, NEW i \in Pids, Touch(i)
  PROVE  \E n \in Linked(list) :
           /\ n \in Nodes /\ heap[n] \in Entries
           /\ heap' = [heap EXCEPT ![n] = heap'[n]]
           /\ heap'[n] \in Entries /\ heap'[n].pid = heap[n].pid
           /\ heap'[n].ts = jiffies /\ heap'[n].age = 0
           /\ heap'[n].count = IF heap[n].count < MaxCount THEN heap[n].count + 1 ELSE heap[n].count
<1>1. PICK k \in 1..Len(list) :
        heap' = [heap EXCEPT ![list[k]].ts = jiffies, ![list[k]].age = 0,
                             ![list[k]].count = IF @ < MaxCount THEN @ + 1 ELSE @]
  BY DEF Touch, Matches
<1> DEFINE n == list[k]
           c == heap[n].count
           e == [pid |-> heap[n].pid, ts |-> jiffies, age |-> 0,
                 count |-> IF c < MaxCount THEN c + 1 ELSE c]
<1>2. n \in Linked(list) /\ n \in Nodes
  BY ListFacts DEF Linked
<1>3. heap[n] \in Entries /\ heap \in [Nodes -> Entries \cup {Nil}] /\ jiffies \in 0..(W - 1)
  BY <1>2 DEF IInv, OwnInv, TypeOK
<1> HIDE DEF n
<1>4. heap' = [heap EXCEPT ![n] = e]
  <2> DEFINE h1 == [heap EXCEPT ![n].ts = jiffies]
             h2 == [h1 EXCEPT ![n].age = 0]
             h3 == [h2 EXCEPT ![n].count = IF @ < MaxCount THEN @ + 1 ELSE @]
  <2>1. heap' = h3
    BY <1>1 DEF n
  <2>2. h1 = [heap EXCEPT ![n] = [heap[n] EXCEPT !.ts = jiffies]]
    OBVIOUS
  <2> DEFINE r2 == [[heap[n] EXCEPT !.ts = jiffies] EXCEPT !.age = 0]
             r3 == [r2 EXCEPT !.count = IF @ < MaxCount THEN @ + 1 ELSE @]
  <2>3. h2 = [heap EXCEPT ![n] = r2]
    BY <1>2, <1>3
  <2>4. h3 = [heap EXCEPT ![n] = r3]
    <3> HIDE DEF h2, r2
    <3> QED
      BY <1>2, <1>3, <2>3
  <2>5. r3 = e
    <3> DEFINE r == heap[n]
    <3>1. r = [pid |-> r.pid, ts |-> r.ts, age |-> r.age, count |-> r.count]
      BY <1>3 DEF Entries
    <3>2. PICK a, b, d, f : r = [pid |-> a, ts |-> b, age |-> d, count |-> f]
      BY <3>1
    <3> DEFINE r1 == [r EXCEPT !.ts = jiffies]
    <3> HIDE DEF r
    <3>r. r1 = [pid |-> a, ts |-> jiffies, age |-> d, count |-> f]
      BY <3>2
    <3> HIDE DEF r1
    <3>3. [r1 EXCEPT !.age = 0] = [pid |-> a, ts |-> jiffies, age |-> 0, count |-> f]
      BY <3>r
    <3>4. r.pid = a /\ r.count = f
      BY <3>2
    <3>5. r2 = [pid |-> a, ts |-> jiffies, age |-> 0, count |-> f]
      BY <3>3 DEF r1, r
    <3> HIDE DEF r2
    <3> QED
      BY <3>4, <3>5 DEF r
  <2> QED
    BY <2>1, <2>4, <2>5
<1>5. e \in Entries
  BY <1>3, ListSyncAssumption DEF Entries
<1>6. heap'[n] = e
  BY <1>2, <1>3, <1>4
<1> HIDE DEF e
<1>7. /\ e.pid = heap[n].pid /\ e.ts = jiffies /\ e.age = 0
      /\ e.count = IF heap[n].count < MaxCount THEN heap[n].count + 1 ELSE heap[n].count
  BY DEF e
<1> QED
  BY <1>2, <1>3, <1>4, <1>5, <1>6, <1>7

-----------------------------------------------------------------------------
(* Each part of the invariant is preserved *)

\* Nil is no entry.
LEMMA NilIsNoEntry == Nil \notin Entries
<1>1. \A e \in Entries : e \in [pid : Pids, ts : Nat, age : Nat, count : Nat]
  BY ListSyncAssumption DEF Entries
<1> QED
  BY <1>1, ListSyncAssumption

\* list_sync_exit marks one entry of the list, if there is one.
LEMMA MarkEntry ==
  ASSUME IInv, NEW t \in Threads, Mark(t), list # <<>>
  PROVE  \E n \in Linked(list) :
           /\ n \in Nodes /\ heap[n] \in Entries
           /\ heap' = [heap EXCEPT ![n] = heap'[n]]
           /\ heap'[n] \in Entries /\ heap'[n].pid = heap[n].pid
           /\ heap'[n].ts = heap[n].ts /\ heap'[n].age = heap[n].age
           /\ heap'[n].count = MaxCount
           /\ marked' = n
<1> DEFINE n == list[Len(list)]
           e == [heap[n] EXCEPT !.count = MaxCount]
<1>1. heap' = [heap EXCEPT ![n] = e] /\ marked' = n
  BY DEF Mark
<1>2. n \in Linked(list) /\ n \in Nodes
  <2>1. list \in Seq(Nodes)
    BY ListFacts
  <2>2. Len(list) \in 1..Len(list)
    BY <2>1
  <2> QED
    BY <2>2, ListFacts DEF Linked
<1>3. heap[n] \in Entries /\ heap \in [Nodes -> Entries \cup {Nil}]
  BY <1>2 DEF IInv, OwnInv, TypeOK
<1> HIDE DEF n
<1>4. /\ e \in Entries /\ e.pid = heap[n].pid /\ e.ts = heap[n].ts /\ e.age = heap[n].age
      /\ e.count = MaxCount
  BY <1>3, ListSyncAssumption DEF Entries
<1>5. heap'[n] = e
  BY <1>1, <1>2, <1>3
<1> HIDE DEF e
<1> QED
  BY <1>1, <1>2, <1>3, <1>4, <1>5

\* A tick changes nothing but ages.
LEMMA TickEntries ==
  ASSUME IInv, Tick
  PROVE  \A n \in Nodes :
           /\ heap[n] = Nil => heap'[n] = Nil
           /\ heap[n] # Nil =>
                /\ heap'[n] \in Entries /\ heap'[n].pid = heap[n].pid
                /\ heap'[n].ts = heap[n].ts /\ heap'[n].count = heap[n].count
                /\ heap'[n].age = heap[n].age + (IF heap[n].age <= Expiry THEN 1 ELSE 0)
<1> SUFFICES ASSUME NEW n \in Nodes, heap[n] # Nil
             PROVE  /\ heap'[n] \in Entries /\ heap'[n].pid = heap[n].pid
                    /\ heap'[n].ts = heap[n].ts /\ heap'[n].count = heap[n].count
                    /\ heap'[n].age = heap[n].age + (IF heap[n].age <= Expiry THEN 1 ELSE 0)
  BY DEF Tick
<1>1. heap[n] \in Entries
  BY DEF IInv, TypeOK
<1>2. CASE heap[n].age <= Expiry
  <2>1. heap'[n] = [heap[n] EXCEPT !.age = heap[n].age + 1]
    BY <1>2 DEF Tick
  <2> QED
    BY <1>1, <1>2, <2>1, ListSyncAssumption DEF Entries
<1>3. CASE ~(heap[n].age <= Expiry)
  <2>1. heap'[n] = heap[n]
    BY <1>3 DEF Tick
  <2> QED
    BY <1>1, <1>3, <2>1, ListSyncAssumption DEF Entries
<1> QED
  BY <1>2, <1>3

\* What is linked stays allocated, and keeps its pid.
Kept ==
  /\ heap' \in [Nodes -> Entries \cup {Nil}]
  /\ \A n \in Nodes :
       /\ heap'[n] = Nil <=> heap[n] = Nil
       /\ heap[n] # Nil => heap'[n].pid = heap[n].pid

\* What is stamped, marked or ages stays allocated and keeps its pid.
LEMMA HeapKept ==
  ASSUME IInv, (\E t \in Threads : AddFound(t) \/ Mark(t)) \/ Tick
  PROVE  Kept
<1>0. heap \in [Nodes -> Entries \cup {Nil}]
  BY DEF IInv, TypeOK
<1>1. ASSUME NEW t \in Threads, AddFound(t) PROVE Kept
  <2>1. pid[t] \in Pids /\ Touch(pid[t])
    BY <1>1 DEF AddFound, IInv, PidInv, Adding
  <2>2. PICK n \in Linked(list) :
           /\ n \in Nodes /\ heap[n] \in Entries
           /\ heap' = [heap EXCEPT ![n] = heap'[n]]
           /\ heap'[n] \in Entries /\ heap'[n].pid = heap[n].pid
    BY <2>1, TouchEntry
  <2> QED
    BY <1>0, <2>2, NilIsNoEntry DEF Kept
<1>2. ASSUME NEW t \in Threads, Mark(t) PROVE Kept
  <2>1. CASE list = <<>>
    BY <1>0, <1>2, <2>1 DEF Mark, Kept
  <2>2. CASE list # <<>>
    <3>1. PICK n \in Linked(list) :
             /\ n \in Nodes /\ heap[n] \in Entries
             /\ heap' = [heap EXCEPT ![n] = heap'[n]]
             /\ heap'[n] \in Entries /\ heap'[n].pid = heap[n].pid
      BY <1>2, <2>2, MarkEntry
    <3> QED
      BY <1>0, <3>1, NilIsNoEntry DEF Kept
  <2> QED
    BY <2>1, <2>2
<1>3. ASSUME Tick PROVE Kept
  <2>1. DOMAIN heap' = Nodes /\ heap' = [n \in Nodes |-> heap'[n]]
    BY <1>3 DEF Tick
  <2> QED
    BY <1>0, <1>3, <2>1, TickEntries, NilIsNoEntry DEF Kept
<1> QED
  BY <1>1, <1>2, <1>3

\* A thread enters a call that it has to make and leaves it by returning.
LEMMA CallStep ==
  ASSUME IInv, [Next]_vars
  PROVE  CallInv'
<1>p. /\ pc \in [Threads -> {"ready", "add_find", "add_alloc", "add_lock", "add_insert",
                             "print", "remove", "purge", "dead"}]
      /\ todo \in [Threads -> Seq(Calls)]
      /\ state \in [Threads -> {"out", "coming", "live", "going"}]
      /\ CallInv
  BY DEF IInv, TypeOK
<1>0. UNCHANGED <<state, todo, pc>> => CallInv'
  BY DEF IInv, CallInv
<1>1. ASSUME NEW t \in Threads,
              PrintEntry(t) \/ RemoveEntry(t) \/ KeepEntry(t) \/ PurgeEntry(t)
      PROVE  CallInv'
  BY <1>1, <1>0 DEF PrintEntry, RemoveEntry, KeepEntry, PurgeEntry, rwlock, adding, walk
<1>2. CASE Tick
  BY <1>2, <1>0 DEF Tick, rwlock, adding, walk
<1>3. ASSUME NEW t \in Threads, Insmod(t) PROVE CallInv'
  BY <1>3, <1>p DEF Insmod, rwlock, adding, walk, CallInv, Adding
<1>4. ASSUME NEW t \in Threads, Rmmod(t) PROVE CallInv'
  BY <1>4, <1>p DEF Rmmod, rwlock, adding, walk, CallInv, Adding
<1>5. ASSUME NEW t \in Threads, EntryReturns(t) PROVE CallInv'
  BY <1>5, <1>p DEF EntryReturns, rwlock, adding, walk, CallInv, Adding
<1>6. ASSUME NEW t \in Threads, AddLock(t) PROVE CallInv'
  BY <1>6, <1>p DEF AddLock, Begins, Goto, write_lock, rwlock, adding, walk, CallInv,
     Adding
<1>7. ASSUME NEW t \in Threads, AddLockAgain(t) PROVE CallInv'
  BY <1>7, <1>p DEF AddLockAgain, Goto, write_lock, rwlock, adding, walk, CallInv,
     Adding
<1>8. ASSUME NEW t \in Threads, PrintLock(t) PROVE CallInv'
  BY <1>8, <1>p DEF PrintLock, Begins, Goto, read_lock, rwlock, adding, walk, CallInv,
     Adding
<1>9. ASSUME NEW t \in Threads, RemoveLock(t) PROVE CallInv'
  BY <1>9, <1>p DEF RemoveLock, WalkLock, Begins, Goto, write_lock, rwlock, adding,
     walk, CallInv, Adding
<1>10. ASSUME NEW t \in Threads, PurgeLock(t) PROVE CallInv'
  BY <1>10, <1>p DEF PurgeLock, WalkLock, Begins, Goto, write_lock, rwlock, adding,
     walk, CallInv, Adding
<1>11. ASSUME NEW t \in Threads, AddFound(t) PROVE CallInv'
  BY <1>11, <1>p DEF AddFound, Returns, write_unlock, rwlock, adding, walk, CallInv,
     Adding
<1>12. ASSUME NEW t \in Threads, AddMiss(t) PROVE CallInv'
  BY <1>12, <1>p DEF AddMiss, Goto, write_unlock, rwlock, adding, walk, CallInv, Adding
<1>13. ASSUME NEW t \in Threads, task_info_alloc(t) PROVE CallInv'
  BY <1>13, <1>p DEF task_info_alloc, Goto, rwlock, adding, walk, CallInv, Adding
<1>14. ASSUME NEW t \in Threads, AddInsert(t) PROVE CallInv'
  BY <1>14, <1>p DEF AddInsert, Returns, write_unlock, rwlock, adding, walk, CallInv,
     Adding
<1>15. ASSUME NEW t \in Threads, AddOops(t) PROVE CallInv'
  BY <1>15, <1>p DEF AddOops, Goto, rwlock, adding, walk, CallInv, Adding
<1>16. ASSUME NEW t \in Threads, PrintUnlock(t) PROVE CallInv'
  BY <1>16, <1>p DEF PrintUnlock, Returns, read_unlock, rwlock, adding, walk, CallInv,
     Adding
<1>17. ASSUME NEW t \in Threads, WalkUnlock(t) PROVE CallInv'
  BY <1>17, <1>p DEF WalkUnlock, Returns, write_unlock, rwlock, adding, walk, CallInv,
     Adding
<1>18. ASSUME NEW t \in Threads, Sleep(t) PROVE CallInv'
  BY <1>18, <1>p DEF Sleep, Begins, Returns, rwlock, adding, walk, CallInv, Adding
<1>19. ASSUME NEW t \in Threads, Mark(t) PROVE CallInv'
  BY <1>19, <1>p DEF Mark, Begins, Returns, rwlock, adding, walk, CallInv, Adding
<1>20. CASE UNCHANGED vars
  BY <1>20, <1>0 DEF vars, rwlock, adding, walk
<1> QED
  BY <1>1, <1>2, <1>3, <1>4, <1>5, <1>6, <1>7, <1>8, <1>9, <1>10, <1>11, <1>12, <1>13,
     <1>14, <1>15, <1>16, <1>17, <1>18, <1>19, <1>20 DEF Next, Waits, Runs

\* The rwlock admits one writer or any number of readers.
LEMMA LockStep ==
  ASSUME IInv, [Next]_vars
  PROVE  LockInv'
<1>p. /\ pc \in [Threads -> {"ready", "add_find", "add_alloc", "add_lock", "add_insert",
                             "print", "remove", "purge", "dead"}]
      /\ todo \in [Threads -> Seq(Calls)]
      /\ state \in [Threads -> {"out", "coming", "live", "going"}]
      /\ CallInv
  BY DEF IInv, TypeOK
<1>m. LockInv /\ writer \in Threads \cup {Free} /\ readers \subseteq Threads /\ Free \notin Threads
  BY ListSyncAssumption DEF IInv, TypeOK, Threads
<1>0. UNCHANGED <<pc, writer, readers>> => LockInv'
  BY DEF IInv, LockInv
<1>1. ASSUME NEW t \in Threads,
              Insmod(t) \/ Rmmod(t) \/ EntryReturns(t) \/ PrintEntry(t)
              \/ RemoveEntry(t) \/ KeepEntry(t) \/ PurgeEntry(t)
      PROVE  LockInv'
  BY <1>1, <1>0 DEF Insmod, Rmmod, EntryReturns, PrintEntry, RemoveEntry, KeepEntry,
     PurgeEntry, rwlock, adding, walk
<1>2. CASE Tick
  BY <1>2, <1>0 DEF Tick, rwlock, adding, walk
<1>3. ASSUME NEW t \in Threads, AddLock(t) PROVE LockInv'
  BY <1>3, <1>p, <1>m DEF AddLock, Begins, Goto, write_lock, rwlock, adding, walk,
     LockInv
<1>4. ASSUME NEW t \in Threads, AddLockAgain(t) PROVE LockInv'
  BY <1>4, <1>p, <1>m DEF AddLockAgain, Goto, write_lock, rwlock, adding, walk, LockInv
<1>5. ASSUME NEW t \in Threads, PrintLock(t) PROVE LockInv'
  BY <1>5, <1>p, <1>m DEF PrintLock, Begins, Goto, read_lock, rwlock, adding, walk,
     LockInv
<1>6. ASSUME NEW t \in Threads, RemoveLock(t) PROVE LockInv'
  BY <1>6, <1>p, <1>m DEF RemoveLock, WalkLock, Begins, Goto, write_lock, rwlock,
     adding, walk, LockInv
<1>7. ASSUME NEW t \in Threads, PurgeLock(t) PROVE LockInv'
  BY <1>7, <1>p, <1>m DEF PurgeLock, WalkLock, Begins, Goto, write_lock, rwlock, adding,
     walk, LockInv
<1>8. ASSUME NEW t \in Threads, AddFound(t) PROVE LockInv'
  BY <1>8, <1>p, <1>m DEF AddFound, Returns, write_unlock, rwlock, adding, walk, LockInv
<1>9. ASSUME NEW t \in Threads, AddMiss(t) PROVE LockInv'
  BY <1>9, <1>p, <1>m DEF AddMiss, Goto, write_unlock, rwlock, adding, walk, LockInv
<1>10. ASSUME NEW t \in Threads, task_info_alloc(t) PROVE LockInv'
  BY <1>10, <1>p, <1>m DEF task_info_alloc, Goto, rwlock, adding, walk, LockInv
<1>11. ASSUME NEW t \in Threads, AddInsert(t) PROVE LockInv'
  BY <1>11, <1>p, <1>m DEF AddInsert, Returns, write_unlock, rwlock, adding, walk,
     LockInv
<1>12. ASSUME NEW t \in Threads, AddOops(t) PROVE LockInv'
  BY <1>12, <1>p, <1>m DEF AddOops, Goto, rwlock, adding, walk, LockInv
<1>13. ASSUME NEW t \in Threads, PrintUnlock(t) PROVE LockInv'
  BY <1>13, <1>p, <1>m DEF PrintUnlock, Returns, read_unlock, rwlock, adding, walk,
     LockInv
<1>14. ASSUME NEW t \in Threads, WalkUnlock(t) PROVE LockInv'
  BY <1>14, <1>p, <1>m DEF WalkUnlock, Returns, write_unlock, rwlock, adding, walk,
     LockInv
<1>15. ASSUME NEW t \in Threads, Sleep(t) PROVE LockInv'
  BY <1>15, <1>p, <1>m DEF Sleep, Begins, Returns, rwlock, adding, walk, LockInv
<1>16. ASSUME NEW t \in Threads, Mark(t) PROVE LockInv'
  BY <1>16, <1>p, <1>m DEF Mark, Begins, Returns, rwlock, adding, walk, LockInv
<1>17. CASE UNCHANGED vars
  BY <1>17, <1>0 DEF vars, rwlock, adding, walk
<1> QED
  BY <1>1, <1>2, <1>3, <1>4, <1>5, <1>6, <1>7, <1>8, <1>9, <1>10, <1>11, <1>12, <1>13,
     <1>14, <1>15, <1>16, <1>17 DEF Next, Waits, Runs

\* A new entry has its pid, its time and its count.
LEMMA NewIsEntry ==
  ASSUME IInv, NEW t \in Threads, task_info_alloc(t)
  PROVE  NewEntry(pid[t]) \in Entries
<1>1. pid[t] \in Pids /\ jiffies \in 0..(W - 1)
  BY DEF task_info_alloc, IInv, TypeOK, PidInv, Adding
<1> QED
  BY <1>1, ListSyncAssumption DEF NewEntry, Entries

\* Entries are handed over, from the allocator to a thread to the list and back.
LEMMA OwnStep ==
  ASSUME IInv, [Next]_vars
  PROVE  OwnInv'
<1>p. /\ pc \in [Threads -> {"ready", "add_find", "add_alloc", "add_lock", "add_insert",
                             "print", "remove", "purge", "dead"}]
      /\ todo \in [Threads -> Seq(Calls)]
      /\ state \in [Threads -> {"out", "coming", "live", "going"}]
      /\ CallInv
  BY DEF IInv, TypeOK
<1>m. /\ OwnInv /\ list \in Seq(Nodes) /\ heap \in [Nodes -> Entries \cup {Nil}]
      /\ ti \in [Threads -> Nodes \cup {Nil}] /\ Nil \notin Nodes /\ Linked(list) \subseteq Nodes
  BY ListFacts DEF IInv, TypeOK
<1>0. UNCHANGED <<pc, list, heap, ti>> => OwnInv'
  BY DEF IInv, OwnInv
<1>1. ASSUME NEW t \in Threads,
              Rmmod(t) \/ EntryReturns(t) \/ PrintEntry(t) \/ KeepEntry(t)
      PROVE  OwnInv'
  BY <1>1, <1>0 DEF Rmmod, EntryReturns, PrintEntry, KeepEntry, rwlock, adding, walk
<1>2. ASSUME NEW t \in Threads, Insmod(t) PROVE OwnInv'
  <2>1. list' \in {<<>>, list} /\ (list' # list => state[Sync] = "out") /\ UNCHANGED <<heap, ti, pc>>
    BY <1>2 DEF Insmod, adding
  <2>2. list' = list
    BY <2>1 DEF IInv, UseInv
  <2> QED
    BY <1>0, <2>1, <2>2
<1>3. ASSUME NEW t \in Threads, AddLock(t) PROVE OwnInv'
  BY <1>3, <1>p, <1>m DEF AddLock, Begins, Goto, write_lock, rwlock, adding, walk,
     OwnInv
<1>4. ASSUME NEW t \in Threads, AddLockAgain(t) PROVE OwnInv'
  BY <1>4, <1>p, <1>m DEF AddLockAgain, Goto, write_lock, rwlock, adding, walk, OwnInv
<1>5. ASSUME NEW t \in Threads, PrintLock(t) PROVE OwnInv'
  BY <1>5, <1>p, <1>m DEF PrintLock, Begins, Goto, read_lock, rwlock, adding, walk,
     OwnInv
<1>6. ASSUME NEW t \in Threads, RemoveLock(t) PROVE OwnInv'
  BY <1>6, <1>p, <1>m DEF RemoveLock, WalkLock, Begins, Goto, write_lock, rwlock,
     adding, walk, OwnInv
<1>7. ASSUME NEW t \in Threads, PurgeLock(t) PROVE OwnInv'
  BY <1>7, <1>p, <1>m DEF PurgeLock, WalkLock, Begins, Goto, write_lock, rwlock, adding,
     walk, OwnInv
<1>8. ASSUME NEW t \in Threads, AddFound(t) PROVE OwnInv'
  <2>1. Kept
    BY <1>8, HeapKept
  <2>2. UNCHANGED <<list, ti>>
    BY <1>8 DEF AddFound, Mark, Tick, adding
  <2>3. \A u \in Threads : ti[u] # Nil => pc'[u] \in {"add_lock", "add_insert"}
    BY <1>8, <1>p, <1>m DEF AddFound, Mark, Tick, Begins, Returns, OwnInv
  <2> QED
    BY <1>m, <2>1, <2>2, <2>3 DEF OwnInv, Kept
<1>9. ASSUME NEW t \in Threads, AddMiss(t) PROVE OwnInv'
  BY <1>9, <1>p, <1>m DEF AddMiss, Goto, write_unlock, rwlock, adding, walk, OwnInv
<1>10. ASSUME NEW t \in Threads, task_info_alloc(t) PROVE OwnInv'
  <2>0. UNCHANGED list /\ pc'[t] = "add_lock" /\ \A u \in Threads \ {t} : pc'[u] = pc[u]
    BY <1>10, <1>p DEF task_info_alloc, Goto
  <2>1. CASE UNCHANGED <<heap, ti>>
    BY <1>10, <1>m, <2>0, <2>1 DEF OwnInv, task_info_alloc
  <2>2. CASE \E n \in Nodes : /\ heap[n] = Nil
                              /\ heap' = [heap EXCEPT ![n] = NewEntry(pid[t])]
                              /\ ti' = [ti EXCEPT ![t] = n]
    <3>1. PICK n \in Nodes : /\ heap[n] = Nil
                             /\ heap' = [heap EXCEPT ![n] = NewEntry(pid[t])]
                             /\ ti' = [ti EXCEPT ![t] = n]
      BY <2>2
    <3>2. NewEntry(pid[t]) # Nil
      BY <1>10, NewIsEntry, NilIsNoEntry
    <3>3. ti[t] = Nil
      BY <1>10, <1>m DEF OwnInv, task_info_alloc
    <3>4. \A u \in Threads : ti'[u] = IF u = t THEN n ELSE ti[u]
      BY <1>m, <3>1
    <3>5. \A m \in Nodes : heap'[m] = IF m = n THEN NewEntry(pid[t]) ELSE heap[m]
      BY <1>m, <3>1
    <3>6. n \notin Linked(list) /\ \A u \in Threads : ti[u] # n
      BY <1>m, <3>1 DEF OwnInv
    <3>7. \A m \in Nodes : heap'[m] # Nil <=> m \in Linked(list) \/ \E u \in Threads : ti'[u] = m
      BY <1>m, <3>2, <3>3, <3>4, <3>5 DEF OwnInv
    <3> QED
      BY <1>m, <2>0, <3>4, <3>6, <3>7 DEF OwnInv
  <2> QED
    BY <1>10, <2>1, <2>2 DEF task_info_alloc
<1>11. ASSUME NEW t \in Threads, AddInsert(t) PROVE OwnInv'
  <2>1. /\ ti[t] \in Nodes /\ ti[t] \notin Linked(list)
        /\ Linked(list') = Linked(list) \cup {ti[t]} /\ Distinct(list')
    BY <1>11, InsertList
  <2>2. /\ \A u \in Threads : ti'[u] = IF u = t THEN Nil ELSE ti[u]
        /\ \A u \in Threads \ {t} : pc'[u] = pc[u]
        /\ UNCHANGED heap
    BY <1>11, <1>p, <1>m DEF AddInsert, Returns
  <2>3. \A n \in Nodes : heap'[n] # Nil <=> n \in Linked(list') \/ \E u \in Threads : ti'[u] = n
    BY <1>m, <2>1, <2>2 DEF OwnInv
  <2> QED
    BY <1>m, <2>1, <2>2, <2>3 DEF OwnInv
<1>12. ASSUME NEW t \in Threads, AddOops(t) PROVE OwnInv'
  BY <1>12, <1>p, <1>m DEF AddOops, Goto, rwlock, adding, walk, OwnInv
<1>13. ASSUME NEW t \in Threads, PrintUnlock(t) PROVE OwnInv'
  BY <1>13, <1>p, <1>m DEF PrintUnlock, Returns, read_unlock, rwlock, adding, walk,
     OwnInv
<1>14. ASSUME NEW t \in Threads, RemoveEntry(t) PROVE OwnInv'
  <2>1. /\ p[t] \in Linked(list) /\ p[t] \in Nodes
        /\ heap' = [heap EXCEPT ![p[t]] = Nil]
        /\ Linked(list') = Linked(list) \ {p[t]} /\ Distinct(list')
    BY <1>14, DeleteList
  <2>2. UNCHANGED <<pc, ti>>
    BY <1>14 DEF RemoveEntry, PurgeEntry, adding
  <2> QED
    BY <1>m, <2>1, <2>2 DEF OwnInv
<1>15. ASSUME NEW t \in Threads, PurgeEntry(t) PROVE OwnInv'
  <2>1. /\ p[t] \in Linked(list) /\ p[t] \in Nodes
        /\ heap' = [heap EXCEPT ![p[t]] = Nil]
        /\ Linked(list') = Linked(list) \ {p[t]} /\ Distinct(list')
    BY <1>15, DeleteList
  <2>2. UNCHANGED <<pc, ti>>
    BY <1>15 DEF RemoveEntry, PurgeEntry, adding
  <2> QED
    BY <1>m, <2>1, <2>2 DEF OwnInv
<1>16. ASSUME NEW t \in Threads, WalkUnlock(t) PROVE OwnInv'
  BY <1>16, <1>p, <1>m DEF WalkUnlock, Returns, write_unlock, rwlock, adding, walk,
     OwnInv
<1>17. ASSUME NEW t \in Threads, Sleep(t) PROVE OwnInv'
  BY <1>17, <1>p, <1>m DEF Sleep, Begins, Returns, rwlock, adding, walk, OwnInv
<1>18. ASSUME NEW t \in Threads, Mark(t) PROVE OwnInv'
  <2>1. Kept
    BY <1>18, HeapKept
  <2>2. UNCHANGED <<list, ti>>
    BY <1>18 DEF AddFound, Mark, Tick, adding
  <2>3. \A u \in Threads : ti[u] # Nil => pc'[u] \in {"add_lock", "add_insert"}
    BY <1>18, <1>p, <1>m DEF AddFound, Mark, Tick, Begins, Returns, OwnInv
  <2> QED
    BY <1>m, <2>1, <2>2, <2>3 DEF OwnInv, Kept
<1>19. CASE Tick
  <2>1. Kept
    BY <1>19, HeapKept
  <2>2. UNCHANGED <<list, ti>>
    BY <1>19 DEF AddFound, Mark, Tick, adding
  <2>3. \A u \in Threads : ti[u] # Nil => pc'[u] \in {"add_lock", "add_insert"}
    BY <1>19, <1>p, <1>m DEF AddFound, Mark, Tick, Begins, Returns, OwnInv
  <2> QED
    BY <1>m, <2>1, <2>2, <2>3 DEF OwnInv, Kept
<1>20. CASE UNCHANGED vars
  BY <1>20, <1>0 DEF vars, rwlock, adding, walk
<1> QED
  BY <1>1, <1>2, <1>3, <1>4, <1>5, <1>6, <1>7, <1>8, <1>9, <1>10, <1>11, <1>12, <1>13,
     <1>14, <1>15, <1>16, <1>17, <1>18, <1>19, <1>20 DEF Next, Waits, Runs

\* Each call of list_sync_exit that returns leaves the ones behind it.
LEMMA GoingTails ==
  ASSUME NEW s \in ExitTails, s # <<>>
  PROVE  /\ Tail(s) \in ExitTails
         /\ Tail(s) = <<>> => Head(s) = "purge"
         /\ Tail(s) = <<"remove", "print", "purge">> => Head(s) = "mark"
         /\ Tail(s) = <<"print", "purge">> =>
              Head(s) = "remove" /\ s = <<"remove", "print", "purge">>
<1>1. CASE s = <<"mark", "remove", "print", "purge">>
  BY <1>1 DEF ExitTails
<1>2. CASE s = <<"remove", "print", "purge">>
  BY <1>2 DEF ExitTails
<1>3. CASE s = <<"print", "purge">>
  BY <1>3 DEF ExitTails
<1>4. CASE s = <<"purge">>
  BY <1>4 DEF ExitTails
<1> QED
  BY <1>1, <1>2, <1>3, <1>4 DEF ExitTails

\* While list-sync is being unloaded, whoever is inside a call is list-sync, and
\* the call tells how many are left.
LEMMA GoingHeads ==
  ASSUME IInv, state[Sync] = "going", NEW t \in Threads, todo[t] # <<>>
  PROVE  /\ t = Sync
         /\ Head(todo[t]) \in {"mark", "remove", "print", "purge"}
         /\ Head(todo[t]) = "mark" => todo[t] = <<"mark", "remove", "print", "purge">>
         /\ Head(todo[t]) = "remove" => todo[t] = <<"remove", "print", "purge">>
         /\ Head(todo[t]) = "print" => todo[t] = <<"print", "purge">>
         /\ Head(todo[t]) = "purge" => todo[t] = <<"purge">>
<1>1. t = Sync
  BY AloneInExit
<1>2. todo[Sync] \in ExitTails
  BY DEF IInv, UseInv
<1> QED
  BY <1>1, <1>2 DEF ExitTails

\* An entry is made for the pid that was looked up.
LEMMA PidStep ==
  ASSUME IInv, [Next]_vars
  PROVE  PidInv'
<1>p. /\ pc \in [Threads -> {"ready", "add_find", "add_alloc", "add_lock", "add_insert",
                             "print", "remove", "purge", "dead"}]
      /\ todo \in [Threads -> Seq(Calls)]
      /\ state \in [Threads -> {"out", "coming", "live", "going"}]
      /\ CallInv
  BY DEF IInv, TypeOK
<1>m. /\ PidInv /\ OwnInv /\ heap \in [Nodes -> Entries \cup {Nil}]
      /\ ti \in [Threads -> Nodes \cup {Nil}] /\ pid \in [Threads -> Pids \cup {Nil}]
  BY DEF IInv, TypeOK
<1>0. UNCHANGED <<pc, pid, ti, heap>> => PidInv'
  BY DEF IInv, PidInv
<1>1. ASSUME NEW t \in Threads,
              Insmod(t) \/ Rmmod(t) \/ EntryReturns(t) \/ PrintEntry(t)
              \/ KeepEntry(t)
      PROVE  PidInv'
  BY <1>1, <1>0 DEF Insmod, Rmmod, EntryReturns, PrintEntry, KeepEntry, rwlock, adding,
     walk
<1>2. ASSUME NEW t \in Threads, AddLock(t) PROVE PidInv'
  BY <1>2, <1>p, <1>m DEF AddLock, Begins, Goto, write_lock, rwlock, adding, walk,
     PidInv, Adding, OwnInv
<1>3. ASSUME NEW t \in Threads, AddLockAgain(t) PROVE PidInv'
  BY <1>3, <1>p, <1>m DEF AddLockAgain, Goto, write_lock, rwlock, adding, walk, PidInv,
     Adding, OwnInv
<1>4. ASSUME NEW t \in Threads, PrintLock(t) PROVE PidInv'
  BY <1>4, <1>p, <1>m DEF PrintLock, Begins, Goto, read_lock, rwlock, adding, walk,
     PidInv, Adding, OwnInv
<1>5. ASSUME NEW t \in Threads, RemoveLock(t) PROVE PidInv'
  BY <1>5, <1>p, <1>m DEF RemoveLock, WalkLock, Begins, Goto, write_lock, rwlock,
     adding, walk, PidInv, Adding, OwnInv
<1>6. ASSUME NEW t \in Threads, PurgeLock(t) PROVE PidInv'
  BY <1>6, <1>p, <1>m DEF PurgeLock, WalkLock, Begins, Goto, write_lock, rwlock, adding,
     walk, PidInv, Adding, OwnInv
<1>7. ASSUME NEW t \in Threads, AddFound(t) PROVE PidInv'
  <2>1. Kept
    BY <1>7, HeapKept
  <2>2. \A u \in Threads : ti'[u] = ti[u] /\ (ti[u] # Nil => pid'[u] = pid[u])
    BY <1>7, <1>m DEF AddFound, Mark, Tick, adding, OwnInv
  <2>3. \A u \in Threads : pc'[u] \in Adding \ {"dead"} => pc[u] \in Adding \ {"dead"} /\ pid'[u] = pid[u]
    BY <1>7, <1>p, <1>m DEF AddFound, Mark, Tick, adding, Returns, Adding
  <2>4. \A u \in Threads : ti[u] # Nil => ti[u] \in Nodes /\ heap[ti[u]] # Nil
    BY <1>m DEF OwnInv
  <2> QED
    BY <1>m, <2>1, <2>2, <2>3, <2>4 DEF PidInv, Kept
<1>8. ASSUME NEW t \in Threads, AddMiss(t) PROVE PidInv'
  BY <1>8, <1>p, <1>m DEF AddMiss, Goto, write_unlock, rwlock, adding, walk, PidInv,
     Adding, OwnInv
<1>9. ASSUME NEW t \in Threads, task_info_alloc(t) PROVE PidInv'
  <2>0. pc[t] = "add_alloc" /\ UNCHANGED pid
        /\ \A u \in Threads : pc'[u] = IF u = t THEN "add_lock" ELSE pc[u]
    BY <1>9, <1>p DEF task_info_alloc, Goto
  <2>1. CASE UNCHANGED <<heap, ti>>
    BY <1>m, <2>0, <2>1 DEF PidInv, Adding
  <2>2. CASE \E n \in Nodes : /\ heap[n] = Nil
                              /\ heap' = [heap EXCEPT ![n] = NewEntry(pid[t])]
                              /\ ti' = [ti EXCEPT ![t] = n]
    <3>1. PICK n \in Nodes : /\ heap[n] = Nil
                             /\ heap' = [heap EXCEPT ![n] = NewEntry(pid[t])]
                             /\ ti' = [ti EXCEPT ![t] = n]
      BY <2>2
    <3>2. NewEntry(pid[t]).pid = pid[t]
      BY DEF NewEntry
    <3>3. \A u \in Threads : ti'[u] = IF u = t THEN n ELSE ti[u]
      BY <1>m, <3>1
    <3>4. \A m \in Nodes : heap'[m] = IF m = n THEN NewEntry(pid[t]) ELSE heap[m]
      BY <1>m, <3>1
    <3>5. \A u \in Threads : ti[u] # Nil => ti[u] \in Nodes /\ ti[u] # n
      BY <1>m, <3>1 DEF OwnInv
    <3> QED
      BY <1>m, <2>0, <3>2, <3>3, <3>4, <3>5 DEF PidInv, Adding
  <2> QED
    BY <1>9, <2>1, <2>2 DEF task_info_alloc
<1>10. ASSUME NEW t \in Threads, AddInsert(t) PROVE PidInv'
  BY <1>10, <1>p, <1>m DEF AddInsert, Returns, write_unlock, rwlock, adding, walk,
     PidInv, Adding, OwnInv
<1>11. ASSUME NEW t \in Threads, AddOops(t) PROVE PidInv'
  BY <1>11, <1>p, <1>m DEF AddOops, Goto, rwlock, adding, walk, PidInv, Adding, OwnInv
<1>12. ASSUME NEW t \in Threads, PrintUnlock(t) PROVE PidInv'
  BY <1>12, <1>p, <1>m DEF PrintUnlock, Returns, read_unlock, rwlock, adding, walk,
     PidInv, Adding, OwnInv
<1>13. ASSUME NEW t \in Threads, RemoveEntry(t) PROVE PidInv'
  <2>1. p[t] \in Linked(list) /\ p[t] \in Nodes /\ heap' = [heap EXCEPT ![p[t]] = Nil]
    BY <1>13, DeleteList
  <2>2. UNCHANGED <<pc, pid, ti>>
    BY <1>13 DEF RemoveEntry, PurgeEntry, adding
  <2> QED
    BY <1>m, <2>1, <2>2 DEF PidInv, OwnInv
<1>14. ASSUME NEW t \in Threads, PurgeEntry(t) PROVE PidInv'
  <2>1. p[t] \in Linked(list) /\ p[t] \in Nodes /\ heap' = [heap EXCEPT ![p[t]] = Nil]
    BY <1>14, DeleteList
  <2>2. UNCHANGED <<pc, pid, ti>>
    BY <1>14 DEF RemoveEntry, PurgeEntry, adding
  <2> QED
    BY <1>m, <2>1, <2>2 DEF PidInv, OwnInv
<1>15. ASSUME NEW t \in Threads, WalkUnlock(t) PROVE PidInv'
  BY <1>15, <1>p, <1>m DEF WalkUnlock, Returns, write_unlock, rwlock, adding, walk,
     PidInv, Adding, OwnInv
<1>16. ASSUME NEW t \in Threads, Sleep(t) PROVE PidInv'
  BY <1>16, <1>p, <1>m DEF Sleep, Begins, Returns, rwlock, adding, walk, PidInv, Adding,
     OwnInv
<1>17. ASSUME NEW t \in Threads, Mark(t) PROVE PidInv'
  <2>1. Kept
    BY <1>17, HeapKept
  <2>2. \A u \in Threads : ti'[u] = ti[u] /\ (ti[u] # Nil => pid'[u] = pid[u])
    BY <1>17, <1>m DEF AddFound, Mark, Tick, adding, OwnInv
  <2>3. \A u \in Threads : pc'[u] \in Adding \ {"dead"} => pc[u] \in Adding \ {"dead"} /\ pid'[u] = pid[u]
    BY <1>17, <1>p, <1>m DEF AddFound, Mark, Tick, adding, Returns, Adding
  <2>4. \A u \in Threads : ti[u] # Nil => ti[u] \in Nodes /\ heap[ti[u]] # Nil
    BY <1>m DEF OwnInv
  <2> QED
    BY <1>m, <2>1, <2>2, <2>3, <2>4 DEF PidInv, Kept
<1>18. CASE Tick
  <2>1. Kept
    BY <1>18, HeapKept
  <2>2. \A u \in Threads : ti'[u] = ti[u] /\ (ti[u] # Nil => pid'[u] = pid[u])
    BY <1>18, <1>m DEF AddFound, Mark, Tick, adding, OwnInv
  <2>3. \A u \in Threads : pc'[u] \in Adding \ {"dead"} => pc[u] \in Adding \ {"dead"} /\ pid'[u] = pid[u]
    BY <1>18, <1>p, <1>m DEF AddFound, Mark, Tick, adding, Returns, Adding
  <2>4. \A u \in Threads : ti[u] # Nil => ti[u] \in Nodes /\ heap[ti[u]] # Nil
    BY <1>m DEF OwnInv
  <2> QED
    BY <1>m, <2>1, <2>2, <2>3, <2>4 DEF PidInv, Kept
<1>19. CASE UNCHANGED vars
  BY <1>19, <1>0 DEF vars, rwlock, adding, walk
<1> QED
  BY <1>1, <1>2, <1>3, <1>4, <1>5, <1>6, <1>7, <1>8, <1>9, <1>10, <1>11, <1>12, <1>13,
     <1>14, <1>15, <1>16, <1>17, <1>18, <1>19 DEF Next, Waits, Runs

\* The lock keeps others from a walk's entries; its own deletions it survives.
LEMMA WalkStep ==
  ASSUME IInv, [Next]_vars
  PROVE  WalkInv'
<1>p. /\ pc \in [Threads -> {"ready", "add_find", "add_alloc", "add_lock", "add_insert",
                             "print", "remove", "purge", "dead"}]
      /\ todo \in [Threads -> Seq(Calls)]
      /\ state \in [Threads -> {"out", "coming", "live", "going"}]
      /\ CallInv
  BY DEF IInv, TypeOK
<1>m. /\ WalkInv /\ p \in [Threads -> Nodes \cup {HEAD, Nil}] /\ q \in [Threads -> Nodes \cup {HEAD, Nil}]
      /\ HEAD # Nil
  BY ListSyncAssumption DEF IInv, TypeOK
<1>0. UNCHANGED <<pc, p, q, list>> => WalkInv'
  BY DEF IInv, WalkInv
<1>1. ASSUME NEW t \in Threads,
              Rmmod(t) \/ EntryReturns(t)
      PROVE  WalkInv'
  BY <1>1, <1>0 DEF Rmmod, EntryReturns, rwlock, adding, walk
<1>2. CASE Tick
  BY <1>2, <1>0 DEF Tick, rwlock, adding, walk
<1>3. ASSUME NEW t \in Threads, Insmod(t) PROVE WalkInv'
  <2>1. list' \in {<<>>, list} /\ (list' # list => state[Sync] = "out") /\ UNCHANGED <<pc, p, q>>
    BY <1>3 DEF Insmod, walk
  <2>2. list' = list
    BY <2>1 DEF IInv, UseInv
  <2> QED
    BY <1>0, <2>1, <2>2
<1>4. ASSUME NEW t \in Threads, AddLock(t) PROVE WalkInv'
  BY <1>4, <1>p, <1>m, ListFacts DEF AddLock, Begins, Goto, write_lock, rwlock, adding,
     walk, WalkInv
<1>5. ASSUME NEW t \in Threads, AddLockAgain(t) PROVE WalkInv'
  BY <1>5, <1>p, <1>m, ListFacts DEF AddLockAgain, Goto, write_lock, rwlock, adding,
     walk, WalkInv
<1>6. ASSUME NEW t \in Threads, PrintLock(t) PROVE WalkInv'
  BY <1>6, <1>p, <1>m, ListFacts DEF PrintLock, Begins, Goto, read_lock, rwlock, adding,
     walk, WalkInv
<1>7. ASSUME NEW t \in Threads, RemoveLock(t) PROVE WalkInv'
  BY <1>7, <1>p, <1>m, ListFacts DEF RemoveLock, WalkLock, Begins, Goto, write_lock,
     rwlock, adding, walk, WalkInv
<1>8. ASSUME NEW t \in Threads, PurgeLock(t) PROVE WalkInv'
  BY <1>8, <1>p, <1>m, ListFacts DEF PurgeLock, WalkLock, Begins, Goto, write_lock,
     rwlock, adding, walk, WalkInv
<1>9. ASSUME NEW t \in Threads, AddFound(t) PROVE WalkInv'
  BY <1>9, <1>p, <1>m, ListFacts DEF AddFound, Returns, write_unlock, rwlock, adding,
     walk, WalkInv
<1>10. ASSUME NEW t \in Threads, AddMiss(t) PROVE WalkInv'
  BY <1>10, <1>p, <1>m, ListFacts DEF AddMiss, Goto, write_unlock, rwlock, adding, walk,
     WalkInv
<1>11. ASSUME NEW t \in Threads, task_info_alloc(t) PROVE WalkInv'
  BY <1>11, <1>p, <1>m, ListFacts DEF task_info_alloc, Goto, rwlock, adding, walk,
     WalkInv
<1>12. ASSUME NEW t \in Threads, AddInsert(t) PROVE WalkInv'
  <2>1. \A u \in Threads : pc[u] \notin {"print", "remove", "purge"}
    BY <1>12, <1>p, OneWriter DEF AddInsert
  <2>2. UNCHANGED <<p, q>> /\ \A u \in Threads : pc'[u] = IF u = t THEN "ready" ELSE pc[u]
    BY <1>12, <1>p DEF AddInsert, Returns, walk
  <2> QED
    BY <1>m, <2>1, <2>2 DEF WalkInv
<1>13. ASSUME NEW t \in Threads, AddOops(t) PROVE WalkInv'
  BY <1>13, <1>p, <1>m, ListFacts DEF AddOops, Goto, rwlock, adding, walk, WalkInv
<1>14. ASSUME NEW t \in Threads, PrintEntry(t) PROVE WalkInv'
  BY <1>14, <1>p, <1>m, ListFacts DEF PrintEntry, rwlock, adding, walk, WalkInv
<1>15. ASSUME NEW t \in Threads, PrintUnlock(t) PROVE WalkInv'
  BY <1>15, <1>p, <1>m, ListFacts DEF PrintUnlock, Returns, read_unlock, rwlock, adding,
     walk, WalkInv
<1>16. ASSUME NEW t \in Threads, RemoveEntry(t) PROVE WalkInv'
  <2>1. /\ pc[t] \in {"remove", "purge"}
        /\ p'[t] \in Linked(list') \cup {HEAD} /\ q'[t] = NextOf(list', p'[t])
        /\ p[t] = First(list) => p'[t] = First(list')
    BY <1>16, DeleteList
  <2>2. \A u \in Threads \ {t} : pc[u] \notin {"print", "remove", "purge"}
    BY <2>1, OneWriter
  <2>3. UNCHANGED pc /\ \A u \in Threads \ {t} : p'[u] = p[u] /\ q'[u] = q[u]
    BY <1>16, <1>m DEF RemoveEntry, PurgeEntry, Delete, Advance
  <2> QED
    BY <1>m, <2>1, <2>2, <2>3 DEF WalkInv
<1>17. ASSUME NEW t \in Threads, KeepEntry(t) PROVE WalkInv'
  BY <1>17, <1>p, <1>m, ListFacts DEF KeepEntry, Advance, rwlock, adding, walk, WalkInv
<1>18. ASSUME NEW t \in Threads, PurgeEntry(t) PROVE WalkInv'
  <2>1. /\ pc[t] \in {"remove", "purge"}
        /\ p'[t] \in Linked(list') \cup {HEAD} /\ q'[t] = NextOf(list', p'[t])
        /\ p[t] = First(list) => p'[t] = First(list')
    BY <1>18, DeleteList
  <2>2. \A u \in Threads \ {t} : pc[u] \notin {"print", "remove", "purge"}
    BY <2>1, OneWriter
  <2>3. UNCHANGED pc /\ \A u \in Threads \ {t} : p'[u] = p[u] /\ q'[u] = q[u]
    BY <1>18, <1>m DEF RemoveEntry, PurgeEntry, Delete, Advance
  <2> QED
    BY <1>m, <2>1, <2>2, <2>3 DEF WalkInv
<1>19. ASSUME NEW t \in Threads, WalkUnlock(t) PROVE WalkInv'
  BY <1>19, <1>p, <1>m, ListFacts DEF WalkUnlock, Returns, write_unlock, rwlock, adding,
     walk, WalkInv
<1>20. ASSUME NEW t \in Threads, Sleep(t) PROVE WalkInv'
  BY <1>20, <1>p, <1>m, ListFacts DEF Sleep, Begins, Returns, rwlock, adding, walk,
     WalkInv
<1>21. ASSUME NEW t \in Threads, Mark(t) PROVE WalkInv'
  BY <1>21, <1>p, <1>m, ListFacts DEF Mark, Begins, Returns, rwlock, adding, walk,
     WalkInv
<1>22. CASE UNCHANGED vars
  BY <1>22, <1>0 DEF vars, rwlock, adding, walk
<1> QED
  BY <1>1, <1>2, <1>3, <1>4, <1>5, <1>6, <1>7, <1>8, <1>9, <1>10, <1>11, <1>12, <1>13,
     <1>14, <1>15, <1>16, <1>17, <1>18, <1>19, <1>20, <1>21, <1>22 DEF Next, Waits, Runs

\* Users come and go while list-sync is live; when it goes it is alone.
LEMMA UseStep ==
  ASSUME IInv, [Next]_vars
  PROVE  UseInv'
<1>p. /\ pc \in [Threads -> {"ready", "add_find", "add_alloc", "add_lock", "add_insert",
                             "print", "remove", "purge", "dead"}]
      /\ todo \in [Threads -> Seq(Calls)]
      /\ state \in [Threads -> {"out", "coming", "live", "going"}]
      /\ CallInv
  BY DEF IInv, TypeOK
<1>m. UseInv /\ Sync \in Threads /\ Sync \notin Clients /\ Clients \subseteq Threads
  BY ListSyncAssumption DEF IInv, Threads
<1>0. UNCHANGED <<state, todo, list>> => UseInv'
  BY DEF IInv, UseInv
<1>1. ASSUME NEW t \in Threads,
              AddLock(t) \/ AddLockAgain(t) \/ PrintLock(t) \/ RemoveLock(t)
              \/ PurgeLock(t) \/ AddMiss(t) \/ task_info_alloc(t) \/ AddOops(t)
              \/ PrintEntry(t) \/ KeepEntry(t)
      PROVE  UseInv'
  BY <1>1, <1>0 DEF AddLock, AddLockAgain, PrintLock, RemoveLock, PurgeLock, AddMiss,
     task_info_alloc, AddOops, PrintEntry, KeepEntry, Goto, WalkLock, rwlock, adding,
     walk
<1>2. CASE Tick
  BY <1>2, <1>0 DEF Tick, Goto, WalkLock, rwlock, adding, walk
<1>3. ASSUME NEW t \in Threads, Insmod(t) PROVE UseInv'
  BY <1>3, <1>p, <1>m DEF Insmod, rwlock, adding, walk, UseInv, CallInv
<1>4. ASSUME NEW t \in Threads, Rmmod(t) PROVE UseInv'
  BY <1>4, <1>p, <1>m DEF Rmmod, rwlock, adding, walk, UseInv, CallInv, ExitCalls,
     ExitTails
<1>5. ASSUME NEW t \in Threads, EntryReturns(t) PROVE UseInv'
  BY <1>5, <1>p, <1>m DEF EntryReturns, rwlock, adding, walk, UseInv, CallInv
<1>6. ASSUME NEW t \in Threads, AddFound(t) PROVE UseInv'
  <2>1. UNCHANGED <<state, list>> /\ todo' = [todo EXCEPT ![t] = Tail(todo[t])]
    BY <1>6 DEF AddFound, Returns
  <2>2. todo[t] # <<>> /\ (Head(todo[t]) = "purge" => list = <<>>)
    BY <1>6, <1>p DEF AddFound, Begins, CallInv, Adding
  <2>3. CASE state[Sync] = "going"
    <3>1. t = Sync
      BY <2>2, <2>3, GoingHeads
    <3>2. todo'[Sync] = Tail(todo[Sync])
      BY <1>p, <1>m, <2>1, <3>1
    <3>3. todo'[Sync] \in ExitTails /\ (todo'[Sync] = <<>> => Head(todo[Sync]) = "purge")
      BY <1>m, <2>2, <2>3, <3>1, <3>2, GoingTails DEF UseInv
    <3> QED
      BY <1>m, <2>1, <2>2, <2>3, <3>1, <3>3 DEF UseInv
  <2>4. CASE state[Sync] # "going"
    BY <1>m, <2>1, <2>4 DEF UseInv
  <2> QED
    BY <2>3, <2>4
<1>7. ASSUME NEW t \in Threads, AddInsert(t) PROVE UseInv'
  <2>1. todo[t] # <<>> /\ Head(todo[t]) = "add" /\ UNCHANGED state
    BY <1>7, <1>p DEF AddInsert, CallInv, Adding
  <2>2. state[Sync] # "going"
    BY <2>1, GoingHeads
  <2>3. state[Sync] # "out"
    BY <1>p, <1>m, <2>1, AloneInExit DEF CallInv
  <2> QED
    BY <1>m, <2>1, <2>2, <2>3 DEF UseInv
<1>8. ASSUME NEW t \in Threads, PrintUnlock(t) PROVE UseInv'
  <2>1. UNCHANGED <<state, list>> /\ todo' = [todo EXCEPT ![t] = Tail(todo[t])]
    BY <1>8 DEF PrintUnlock, Returns
  <2>2. todo[t] # <<>> /\ (Head(todo[t]) = "purge" => list = <<>>)
    BY <1>8, <1>p DEF PrintUnlock, Begins, CallInv, Adding
  <2>3. CASE state[Sync] = "going"
    <3>1. t = Sync
      BY <2>2, <2>3, GoingHeads
    <3>2. todo'[Sync] = Tail(todo[Sync])
      BY <1>p, <1>m, <2>1, <3>1
    <3>3. todo'[Sync] \in ExitTails /\ (todo'[Sync] = <<>> => Head(todo[Sync]) = "purge")
      BY <1>m, <2>2, <2>3, <3>1, <3>2, GoingTails DEF UseInv
    <3> QED
      BY <1>m, <2>1, <2>2, <2>3, <3>1, <3>3 DEF UseInv
  <2>4. CASE state[Sync] # "going"
    BY <1>m, <2>1, <2>4 DEF UseInv
  <2> QED
    BY <2>3, <2>4
<1>9. ASSUME NEW t \in Threads, RemoveEntry(t) PROVE UseInv'
  <2>1. list # <<>> /\ UNCHANGED <<state, todo>>
    BY <1>9, DeleteList, LinkedNodes, ListFacts DEF RemoveEntry, PurgeEntry
  <2>2. todo[t] # <<>>
    BY <1>9, <1>p DEF RemoveEntry, PurgeEntry, CallInv
  <2>3. state[Sync] = "going" => todo[Sync] # <<>>
    BY <2>2, GoingHeads
  <2> QED
    BY <1>m, <2>1, <2>3 DEF UseInv
<1>10. ASSUME NEW t \in Threads, PurgeEntry(t) PROVE UseInv'
  <2>1. list # <<>> /\ UNCHANGED <<state, todo>>
    BY <1>10, DeleteList, LinkedNodes, ListFacts DEF RemoveEntry, PurgeEntry
  <2>2. todo[t] # <<>>
    BY <1>10, <1>p DEF RemoveEntry, PurgeEntry, CallInv
  <2>3. state[Sync] = "going" => todo[Sync] # <<>>
    BY <2>2, GoingHeads
  <2> QED
    BY <1>m, <2>1, <2>3 DEF UseInv
<1>11. ASSUME NEW t \in Threads, WalkUnlock(t) PROVE UseInv'
  <2>0. pc[t] = "purge" => list = <<>>
    BY <1>11, ListFacts DEF WalkUnlock, IInv, WalkInv
  <2>1. UNCHANGED <<state, list>> /\ todo' = [todo EXCEPT ![t] = Tail(todo[t])]
    BY <1>11 DEF WalkUnlock, Returns
  <2>2. todo[t] # <<>> /\ (Head(todo[t]) = "purge" => list = <<>>)
    BY <1>11, <1>p, <2>0 DEF WalkUnlock, Begins, CallInv, Adding
  <2>3. CASE state[Sync] = "going"
    <3>1. t = Sync
      BY <2>2, <2>3, GoingHeads
    <3>2. todo'[Sync] = Tail(todo[Sync])
      BY <1>p, <1>m, <2>1, <3>1
    <3>3. todo'[Sync] \in ExitTails /\ (todo'[Sync] = <<>> => Head(todo[Sync]) = "purge")
      BY <1>m, <2>2, <2>3, <3>1, <3>2, GoingTails DEF UseInv
    <3> QED
      BY <1>m, <2>1, <2>2, <2>3, <3>1, <3>3 DEF UseInv
  <2>4. CASE state[Sync] # "going"
    BY <1>m, <2>1, <2>4 DEF UseInv
  <2> QED
    BY <2>3, <2>4
<1>12. ASSUME NEW t \in Threads, Sleep(t) PROVE UseInv'
  <2>1. UNCHANGED <<state, list>> /\ todo' = [todo EXCEPT ![t] = Tail(todo[t])]
    BY <1>12 DEF Sleep, Returns
  <2>2. todo[t] # <<>> /\ (Head(todo[t]) = "purge" => list = <<>>)
    BY <1>12, <1>p DEF Sleep, Begins, CallInv, Adding
  <2>3. CASE state[Sync] = "going"
    <3>1. t = Sync
      BY <2>2, <2>3, GoingHeads
    <3>2. todo'[Sync] = Tail(todo[Sync])
      BY <1>p, <1>m, <2>1, <3>1
    <3>3. todo'[Sync] \in ExitTails /\ (todo'[Sync] = <<>> => Head(todo[Sync]) = "purge")
      BY <1>m, <2>2, <2>3, <3>1, <3>2, GoingTails DEF UseInv
    <3> QED
      BY <1>m, <2>1, <2>2, <2>3, <3>1, <3>3 DEF UseInv
  <2>4. CASE state[Sync] # "going"
    BY <1>m, <2>1, <2>4 DEF UseInv
  <2> QED
    BY <2>3, <2>4
<1>13. ASSUME NEW t \in Threads, Mark(t) PROVE UseInv'
  <2>1. UNCHANGED <<state, list>> /\ todo' = [todo EXCEPT ![t] = Tail(todo[t])]
    BY <1>13 DEF Mark, Returns
  <2>2. todo[t] # <<>> /\ (Head(todo[t]) = "purge" => list = <<>>)
    BY <1>13, <1>p DEF Mark, Begins, CallInv, Adding
  <2>3. CASE state[Sync] = "going"
    <3>1. t = Sync
      BY <2>2, <2>3, GoingHeads
    <3>2. todo'[Sync] = Tail(todo[Sync])
      BY <1>p, <1>m, <2>1, <3>1
    <3>3. todo'[Sync] \in ExitTails /\ (todo'[Sync] = <<>> => Head(todo[Sync]) = "purge")
      BY <1>m, <2>2, <2>3, <3>1, <3>2, GoingTails DEF UseInv
    <3> QED
      BY <1>m, <2>1, <2>2, <2>3, <3>1, <3>3 DEF UseInv
  <2>4. CASE state[Sync] # "going"
    BY <1>m, <2>1, <2>4 DEF UseInv
  <2> QED
    BY <2>3, <2>4
<1>14. CASE UNCHANGED vars
  BY <1>14, <1>0 DEF vars, rwlock, adding, walk
<1> QED
  BY <1>1, <1>2, <1>3, <1>4, <1>5, <1>6, <1>7, <1>8, <1>9, <1>10, <1>11, <1>12, <1>13,
     <1>14 DEF Next, Waits, Runs

\* The marked entry is not removed: it has too many updates.
LEMMA MarkStep ==
  ASSUME IInv, [Next]_vars
  PROVE  MarkInv'
<1>p. /\ pc \in [Threads -> {"ready", "add_find", "add_alloc", "add_lock", "add_insert",
                             "print", "remove", "purge", "dead"}]
      /\ todo \in [Threads -> Seq(Calls)]
      /\ state \in [Threads -> {"out", "coming", "live", "going"}]
      /\ CallInv
  BY DEF IInv, TypeOK
<1>m. /\ MarkInv /\ UseInv /\ OwnInv /\ heap \in [Nodes -> Entries \cup {Nil}]
      /\ Sync \in Threads /\ Sync \notin Clients /\ Clients \subseteq Threads
  BY ListSyncAssumption DEF IInv, TypeOK, Threads
<1>0. UNCHANGED <<state, todo, marked, list, heap>> => MarkInv'
  BY DEF IInv, MarkInv
<1>1. ASSUME NEW t \in Threads,
              AddLock(t) \/ AddLockAgain(t) \/ PrintLock(t) \/ RemoveLock(t)
              \/ PurgeLock(t) \/ AddMiss(t) \/ AddOops(t) \/ PrintEntry(t)
              \/ KeepEntry(t)
      PROVE  MarkInv'
  BY <1>1, <1>0 DEF AddLock, AddLockAgain, PrintLock, RemoveLock, PurgeLock, AddMiss,
     AddOops, PrintEntry, KeepEntry, Goto, WalkLock, rwlock, adding, walk
<1>2. ASSUME NEW t \in Threads, Insmod(t) PROVE MarkInv'
  <2>1. state'[Sync] # "going"
    BY <1>2, <1>p, <1>m DEF Insmod, Threads
  <2> QED
    BY <2>1 DEF MarkInv
<1>3. ASSUME NEW t \in Threads, Rmmod(t) PROVE MarkInv'
  <2>1. CASE t = Sync
    <3>1. todo'[Sync] = <<"mark", "remove", "print", "purge">>
      BY <1>3, <1>p, <1>m, <2>1 DEF Rmmod, ExitCalls
    <3>2. todo'[Sync] \notin {<<"remove", "print", "purge">>, <<"print", "purge">>}
      BY <3>1
    <3> QED
      BY <3>2 DEF MarkInv
  <2>2. CASE t # Sync
    BY <1>3, <1>p, <1>m, <2>2 DEF Rmmod, MarkInv
  <2> QED
    BY <2>1, <2>2
<1>4. ASSUME NEW t \in Threads, EntryReturns(t) PROVE MarkInv'
  <2>1. /\ UNCHANGED <<todo, list, heap>>
        /\ state'[Sync] = "going" => state[Sync] = "going" /\ marked' = marked
    BY <1>4, <1>p, <1>m DEF EntryReturns
  <2> QED
    BY <1>m, <2>1 DEF MarkInv
<1>5. ASSUME NEW t \in Threads, AddFound(t) PROVE MarkInv'
  <2>1. todo[t] # <<>> /\ Head(todo[t]) \in {"add", "sleep"} /\ state' = state
    BY <1>5, <1>p DEF AddFound, CallInv, Adding, Begins
  <2>2. state[Sync] # "going"
    BY <2>1, GoingHeads
  <2> QED
    BY <2>1, <2>2 DEF MarkInv
<1>6. ASSUME NEW t \in Threads, task_info_alloc(t) PROVE MarkInv'
  <2>1. todo[t] # <<>> /\ Head(todo[t]) \in {"add", "sleep"} /\ state' = state
    BY <1>6, <1>p DEF task_info_alloc, CallInv, Adding, Begins
  <2>2. state[Sync] # "going"
    BY <2>1, GoingHeads
  <2> QED
    BY <2>1, <2>2 DEF MarkInv
<1>7. ASSUME NEW t \in Threads, AddInsert(t) PROVE MarkInv'
  <2>1. todo[t] # <<>> /\ Head(todo[t]) \in {"add", "sleep"} /\ state' = state
    BY <1>7, <1>p DEF AddInsert, CallInv, Adding, Begins
  <2>2. state[Sync] # "going"
    BY <2>1, GoingHeads
  <2> QED
    BY <2>1, <2>2 DEF MarkInv
<1>8. ASSUME NEW t \in Threads, PrintUnlock(t) PROVE MarkInv'
  <2> SUFFICES ASSUME state'[Sync] = "going",
                      todo'[Sync] \in {<<"remove", "print", "purge">>, <<"print", "purge">>}, marked' # HEAD
               PROVE  marked' \in Linked(list') /\ heap'[marked'].count >= MinCount
    BY DEF MarkInv
  <2>1. UNCHANGED <<state, list, heap, marked>> /\ todo' = [todo EXCEPT ![t] = Tail(todo[t])]
    BY <1>8 DEF PrintUnlock, Returns
  <2>2. todo[t] # <<>> /\ Head(todo[t]) # "mark"
    BY <1>8, <1>p DEF PrintUnlock, CallInv, Adding
  <2>3. t = Sync /\ todo[Sync] \in ExitTails
    BY <1>m, <2>1, <2>2, GoingHeads DEF UseInv
  <2>4. todo'[Sync] = Tail(todo[Sync])
    BY <1>p, <1>m, <2>1, <2>3
  <2>5. todo[Sync] = <<"remove", "print", "purge">>
    BY <2>2, <2>3, <2>4, GoingTails
  <2> QED
    BY <1>m, <2>1, <2>5 DEF MarkInv
<1>9. ASSUME NEW t \in Threads, RemoveEntry(t) PROVE MarkInv'
  <2> SUFFICES ASSUME state'[Sync] = "going",
                      todo'[Sync] \in {<<"remove", "print", "purge">>, <<"print", "purge">>}, marked' # HEAD
               PROVE  marked' \in Linked(list') /\ heap'[marked'].count >= MinCount
    BY DEF MarkInv
  <2>1. UNCHANGED <<state, todo, marked>> /\ heap[p[t]].count < MinCount
    BY <1>9 DEF RemoveEntry, Expired
  <2>2. /\ Linked(list') = Linked(list) \ {p[t]} /\ heap' = [heap EXCEPT ![p[t]] = Nil]
        /\ p[t] \in Nodes /\ p[t] \in Linked(list) /\ Linked(list) \subseteq Nodes
    BY <1>9, DeleteList, ListFacts
  <2>3. marked \in Linked(list) /\ heap[marked].count >= MinCount /\ marked' = marked
    BY <1>m, <2>1 DEF MarkInv
  <2>4. heap[p[t]].count \in Nat /\ MinCount \in Nat
    <3>1. heap[p[t]] \in Entries
      BY <1>m, <2>2 DEF OwnInv
    <3> QED
      BY <3>1, ListSyncAssumption DEF Entries
  <2>5. marked # p[t]
    BY <2>1, <2>3, <2>4
  <2>6. marked \in Linked(list') /\ heap'[marked] = heap[marked]
    BY <1>m, <2>2, <2>3, <2>5
  <2> QED
    BY <2>3, <2>6
<1>10. ASSUME NEW t \in Threads, PurgeEntry(t) PROVE MarkInv'
  <2>1. todo[t] # <<>> /\ Head(todo[t]) = "purge" /\ UNCHANGED <<state, todo>>
    BY <1>10, <1>p DEF PurgeEntry, CallInv, Adding
  <2>2. state[Sync] = "going" => todo[Sync] = <<"purge">>
    BY <2>1, GoingHeads
  <2>3. <<"purge">> \notin {<<"remove", "print", "purge">>, <<"print", "purge">>}
    OBVIOUS
  <2> QED
    BY <2>1, <2>2, <2>3 DEF MarkInv
<1>11. ASSUME NEW t \in Threads, WalkUnlock(t) PROVE MarkInv'
  <2> SUFFICES ASSUME state'[Sync] = "going",
                      todo'[Sync] \in {<<"remove", "print", "purge">>, <<"print", "purge">>}, marked' # HEAD
               PROVE  marked' \in Linked(list') /\ heap'[marked'].count >= MinCount
    BY DEF MarkInv
  <2>1. UNCHANGED <<state, list, heap, marked>> /\ todo' = [todo EXCEPT ![t] = Tail(todo[t])]
    BY <1>11 DEF WalkUnlock, Returns
  <2>2. todo[t] # <<>> /\ Head(todo[t]) # "mark"
    BY <1>11, <1>p DEF WalkUnlock, CallInv, Adding
  <2>3. t = Sync /\ todo[Sync] \in ExitTails
    BY <1>m, <2>1, <2>2, GoingHeads DEF UseInv
  <2>4. todo'[Sync] = Tail(todo[Sync])
    BY <1>p, <1>m, <2>1, <2>3
  <2>5. todo[Sync] = <<"remove", "print", "purge">>
    BY <2>2, <2>3, <2>4, GoingTails
  <2> QED
    BY <1>m, <2>1, <2>5 DEF MarkInv
<1>12. ASSUME NEW t \in Threads, Sleep(t) PROVE MarkInv'
  <2>1. todo[t] # <<>> /\ Head(todo[t]) \in {"add", "sleep"} /\ state' = state
    BY <1>12, <1>p DEF Sleep, CallInv, Adding, Begins
  <2>2. state[Sync] # "going"
    BY <2>1, GoingHeads
  <2> QED
    BY <2>1, <2>2 DEF MarkInv
<1>13. ASSUME NEW t \in Threads, Mark(t) PROVE MarkInv'
  <2> SUFFICES ASSUME marked' # HEAD
               PROVE  marked' \in Linked(list') /\ heap'[marked'].count >= MinCount
    BY DEF MarkInv
  <2>1. list # <<>> /\ list' = list
    BY <1>13 DEF Mark
  <2>2. PICK n \in Linked(list) : heap'[n].count = MaxCount /\ marked' = n
    BY <1>13, <2>1, MarkEntry
  <2> QED
    BY <2>1, <2>2, ListSyncAssumption
<1>14. CASE Tick
  <2>1. UNCHANGED <<state, todo, marked, list>>
    BY <1>14 DEF Tick
  <2>2. \A n \in Linked(list) : heap'[n].count = heap[n].count
    BY <1>14, <1>m, ListFacts, TickEntries DEF OwnInv
  <2> QED
    BY <1>m, <2>1, <2>2 DEF MarkInv
<1>15. CASE UNCHANGED vars
  BY <1>15, <1>0 DEF vars, rwlock, adding, walk
<1> QED
  BY <1>1, <1>2, <1>3, <1>4, <1>5, <1>6, <1>7, <1>8, <1>9, <1>10, <1>11, <1>12, <1>13,
     <1>14, <1>15 DEF Next, Waits, Runs

\* jiffies goes on by one, or wraps.
LEMMA TickMod ==
  ASSUME NEW a \in 0..(W - 1)
  PROVE  (a + 1) % W = IF a = W - 1 THEN 0 ELSE a + 1
BY ListSyncAssumption

\* The difference of two times modulo W, when less than W has passed.
LEMMA PassedMod ==
  ASSUME NEW a \in 0..(W - 1)
  PROVE  a % W = a /\ (a - W) % W = a
BY ListSyncAssumption

\* Ages and timestamps stay together, also over a wrap-around.
LEMMA AgeStep ==
  ASSUME IInv, [Next]_vars
  PROVE  AgeInv'
<1>m. AgeInv /\ heap \in [Nodes -> Entries \cup {Nil}] /\ jiffies \in 0..(W - 1)
  BY DEF IInv, TypeOK
<1>0. UNCHANGED <<heap, jiffies>> => AgeInv'
  BY DEF IInv, AgeInv
<1>1. ASSUME NEW t \in Threads,
              Insmod(t) \/ Rmmod(t) \/ EntryReturns(t) \/ AddLock(t)
              \/ AddLockAgain(t) \/ PrintLock(t) \/ RemoveLock(t) \/ PurgeLock(t)
              \/ AddMiss(t) \/ AddInsert(t) \/ AddOops(t) \/ PrintEntry(t)
              \/ PrintUnlock(t) \/ KeepEntry(t) \/ WalkUnlock(t) \/ Sleep(t)
      PROVE  AgeInv'
  BY <1>1, <1>0 DEF Insmod, Rmmod, EntryReturns, AddLock, AddLockAgain, PrintLock,
     RemoveLock, PurgeLock, AddMiss, AddInsert, AddOops, PrintEntry, PrintUnlock,
     KeepEntry, WalkUnlock, Sleep, WalkLock, rwlock, adding, walk
<1>2. ASSUME NEW t \in Threads, AddFound(t) PROVE AgeInv'
  <2>1. pid[t] \in Pids /\ Touch(pid[t]) /\ UNCHANGED jiffies
    BY <1>2 DEF AddFound, IInv, PidInv, Adding
  <2>2. PICK n \in Linked(list) :
           /\ n \in Nodes /\ heap' = [heap EXCEPT ![n] = heap'[n]]
           /\ heap'[n].ts = jiffies /\ heap'[n].age = 0
    BY <2>1, TouchEntry
  <2>3. \A m \in Nodes \ {n} : heap'[m] = heap[m]
    BY <1>m, <2>2
  <2> QED
    BY <1>m, <2>1, <2>2, <2>3 DEF AgeInv
<1>3. ASSUME NEW t \in Threads, task_info_alloc(t) PROVE AgeInv'
  <2>1. UNCHANGED jiffies
    BY <1>3 DEF task_info_alloc
  <2>2. CASE UNCHANGED heap
    BY <1>m, <2>1, <2>2 DEF AgeInv
  <2>3. ASSUME NEW n \in Nodes, heap' = [heap EXCEPT ![n] = NewEntry(pid[t])] PROVE AgeInv'
    <3>1. NewEntry(pid[t]).ts = jiffies /\ NewEntry(pid[t]).age = 0
      BY DEF NewEntry
    <3>2. \A m \in Nodes : heap'[m] = IF m = n THEN NewEntry(pid[t]) ELSE heap[m]
      BY <1>m, <2>3
    <3> QED
      BY <1>m, <2>1, <3>1, <3>2 DEF AgeInv
  <2> QED
    BY <1>3, <2>2, <2>3 DEF task_info_alloc
<1>4. ASSUME NEW t \in Threads, RemoveEntry(t) PROVE AgeInv'
  <2>1. p[t] \in Nodes /\ heap' = [heap EXCEPT ![p[t]] = Nil]
    BY <1>4, DeleteList
  <2>2. UNCHANGED jiffies
    BY <1>4 DEF RemoveEntry, PurgeEntry
  <2> QED
    BY <1>m, <2>1, <2>2 DEF AgeInv
<1>5. ASSUME NEW t \in Threads, PurgeEntry(t) PROVE AgeInv'
  <2>1. p[t] \in Nodes /\ heap' = [heap EXCEPT ![p[t]] = Nil]
    BY <1>5, DeleteList
  <2>2. UNCHANGED jiffies
    BY <1>5 DEF RemoveEntry, PurgeEntry
  <2> QED
    BY <1>m, <2>1, <2>2 DEF AgeInv
<1>6. ASSUME NEW t \in Threads, Mark(t) PROVE AgeInv'
  <2>1. UNCHANGED jiffies
    BY <1>6 DEF Mark
  <2>2. CASE list = <<>>
    BY <1>6, <1>0, <2>1, <2>2 DEF Mark
  <2>3. CASE list # <<>>
    <3>1. PICK n \in Linked(list) :
             /\ n \in Nodes /\ heap' = [heap EXCEPT ![n] = heap'[n]] /\ heap[n] \in Entries
             /\ heap'[n].ts = heap[n].ts /\ heap'[n].age = heap[n].age
      BY <1>6, <2>3, MarkEntry
    <3>2. \A m \in Nodes \ {n} : heap'[m] = heap[m]
      BY <1>m, <3>1
    <3> QED
      BY <1>m, <2>1, <3>1, <3>2, NilIsNoEntry DEF AgeInv
  <2> QED
    BY <2>2, <2>3
<1>7. CASE Tick
  <2> SUFFICES ASSUME NEW n \in Nodes, heap'[n] # Nil, heap'[n].age <= Expiry
               PROVE  \/ jiffies' = heap'[n].ts + heap'[n].age
                      \/ jiffies' = heap'[n].ts + heap'[n].age - W
    BY DEF AgeInv
  <2>1. /\ heap[n] # Nil /\ heap'[n].ts = heap[n].ts
        /\ heap'[n].age = heap[n].age + (IF heap[n].age <= Expiry THEN 1 ELSE 0)
    BY <1>7, TickEntries
  <2>2. heap[n].ts \in 0..(W - 1) /\ heap[n].age \in 0..(Expiry + 1)
    <3>1. heap[n] \in Entries
      BY <1>m, <2>1
    <3> QED
      BY <3>1 DEF Entries
  <2>3. heap[n].age <= Expiry /\ heap'[n].age = heap[n].age + 1
    BY <2>1, <2>2, ListSyncAssumption
  <2>4. \/ jiffies = heap[n].ts + heap[n].age
        \/ jiffies = heap[n].ts + heap[n].age - W
    BY <1>m, <2>1, <2>3 DEF AgeInv
  <2>5. jiffies' = IF jiffies = W - 1 THEN 0 ELSE jiffies + 1
    BY <1>7, <1>m, TickMod DEF Tick
  <2> QED
    BY <1>m, <2>1, <2>2, <2>3, <2>4, <2>5, ListSyncAssumption
<1>8. CASE UNCHANGED vars
  BY <1>8, <1>0 DEF vars, rwlock, adding, walk
<1> QED
  BY <1>1, <1>2, <1>3, <1>4, <1>5, <1>6, <1>7, <1>8 DEF Next, Waits, Runs

-----------------------------------------------------------------------------
(* How often a pid is listed *)

\* Lists are finite, and so are the sets that CopiesInv counts.
LEMMA FiniteCopies ==
  ASSUME IInv, NEW i \in Pids
  PROVE  /\ IsFiniteSet(Copies(i)) /\ Cardinality(Copies(i)) \in Nat
         /\ IsFiniteSet(Adders(i)) /\ Cardinality(Adders(i)) \in Nat
         /\ IsFiniteSet(Threads) /\ Cardinality(Threads) \in Nat
<1>1. IsFiniteSet(Linked(list))
  <2>1. list \in Seq(Nodes)
    BY ListFacts
  <2>2. IsFiniteSet(1..Len(list))
    BY <2>1, FS_Interval
  <2>3. list \in Surjection(1..Len(list), Linked(list))
    BY <2>1 DEF Surjection, Linked
  <2> QED
    BY <2>2, <2>3, FS_Surjection
<1>2. IsFiniteSet(Copies(i))
  BY <1>1, FS_Subset DEF Copies
<1>3. IsFiniteSet(Threads)
  BY ListSyncAssumption, FS_AddElement DEF Threads
<1>4. IsFiniteSet(Adders(i))
  BY <1>3, FS_Subset DEF Adders
<1> QED
  BY <1>2, <1>3, <1>4, FS_CardinalityType

\* Where neither copies nor adders are gained, the bound is kept.
LEMMA BoundKept ==
  ASSUME IInv,
         \A i \in Pids : Copies(i)' \subseteq Copies(i) /\ Adders(i)' \subseteq Adders(i)
  PROVE  CopiesInv'
<1> SUFFICES ASSUME NEW i \in Pids
             PROVE  Cardinality(Copies(i)') + Cardinality(Adders(i)') <= Cardinality(Threads)
  BY DEF CopiesInv
<1>1. Cardinality(Copies(i)) + Cardinality(Adders(i)) <= Cardinality(Threads)
  BY DEF IInv, CopiesInv
<1>2. /\ IsFiniteSet(Copies(i)') /\ Cardinality(Copies(i)') <= Cardinality(Copies(i))
      /\ IsFiniteSet(Adders(i)') /\ Cardinality(Adders(i)') <= Cardinality(Adders(i))
  BY FiniteCopies, FS_Subset
<1>3. Cardinality(Copies(i)') \in Nat /\ Cardinality(Adders(i)') \in Nat
  BY <1>2, FS_CardinalityType
<1> QED
  BY <1>1, <1>2, <1>3, FiniteCopies

\* Whoever adds a pid has found no copy, or has taken the place of an adder.
LEMMA BoundStep ==
  ASSUME IInv, [Next]_vars
  PROVE  CopiesInv'
<1>p. /\ pc \in [Threads -> {"ready", "add_find", "add_alloc", "add_lock", "add_insert",
                             "print", "remove", "purge", "dead"}]
      /\ todo \in [Threads -> Seq(Calls)]
      /\ state \in [Threads -> {"out", "coming", "live", "going"}]
      /\ CallInv
  BY DEF IInv, TypeOK
<1>m. /\ OwnInv /\ PidInv /\ heap \in [Nodes -> Entries \cup {Nil}]
      /\ ti \in [Threads -> Nodes \cup {Nil}] /\ pid \in [Threads -> Pids \cup {Nil}]
      /\ Linked(list) \subseteq Nodes
  BY ListFacts DEF IInv, TypeOK
<1>0. UNCHANGED <<list, heap, pid, pc>> => CopiesInv'
  BY DEF IInv, CopiesInv, Copies, Adders
<1>1. ASSUME NEW t \in Threads,
              Rmmod(t) \/ EntryReturns(t) \/ PrintEntry(t) \/ KeepEntry(t)
      PROVE  CopiesInv'
  BY <1>1, <1>0 DEF Rmmod, EntryReturns, PrintEntry, KeepEntry, rwlock, adding, walk
<1>2. ASSUME NEW t \in Threads, Insmod(t) PROVE CopiesInv'
  <2>1. /\ list' \in {<<>>, list} /\ (list' # list => state[Sync] = "out")
        /\ UNCHANGED <<heap, pid, pc>>
    BY <1>2 DEF Insmod, adding
  <2>2. list' = list
    BY <2>1 DEF IInv, UseInv
  <2> QED
    BY <1>0, <2>1, <2>2
<1>3. ASSUME NEW t \in Threads, AddLock(t) PROVE CopiesInv'
  <2>1. list' = list /\ heap' = heap
    BY <1>3 DEF AddLock
  <2>2. \A i \in Pids : Copies(i)' = Copies(i)
    BY <2>1 DEF Copies
  <2>3. \A i \in Pids : Adders(i)' \subseteq Adders(i)
    BY <1>3, <1>p, <1>m DEF AddLock, Begins, Goto, adding, Adders
  <2> QED
    BY <2>2, <2>3, BoundKept
<1>4. ASSUME NEW t \in Threads, AddLockAgain(t) PROVE CopiesInv'
  <2>1. list' = list /\ heap' = heap
    BY <1>4 DEF AddLockAgain
  <2>2. \A i \in Pids : Copies(i)' = Copies(i)
    BY <2>1 DEF Copies
  <2>3. \A i \in Pids : Adders(i)' \subseteq Adders(i)
    BY <1>4, <1>p, <1>m DEF AddLockAgain, Goto, adding, Adders
  <2> QED
    BY <2>2, <2>3, BoundKept
<1>5. ASSUME NEW t \in Threads, PrintLock(t) PROVE CopiesInv'
  <2>1. list' = list /\ heap' = heap
    BY <1>5 DEF PrintLock
  <2>2. \A i \in Pids : Copies(i)' = Copies(i)
    BY <2>1 DEF Copies
  <2>3. \A i \in Pids : Adders(i)' \subseteq Adders(i)
    BY <1>5, <1>p, <1>m DEF PrintLock, Begins, Goto, adding, Adders
  <2> QED
    BY <2>2, <2>3, BoundKept
<1>6. ASSUME NEW t \in Threads, RemoveLock(t) PROVE CopiesInv'
  <2>1. list' = list /\ heap' = heap
    BY <1>6 DEF RemoveLock, WalkLock
  <2>2. \A i \in Pids : Copies(i)' = Copies(i)
    BY <2>1 DEF Copies
  <2>3. \A i \in Pids : Adders(i)' \subseteq Adders(i)
    BY <1>6, <1>p, <1>m DEF RemoveLock, WalkLock, Begins, Goto, adding, Adders
  <2> QED
    BY <2>2, <2>3, BoundKept
<1>7. ASSUME NEW t \in Threads, PurgeLock(t) PROVE CopiesInv'
  <2>1. list' = list /\ heap' = heap
    BY <1>7 DEF PurgeLock, WalkLock
  <2>2. \A i \in Pids : Copies(i)' = Copies(i)
    BY <2>1 DEF Copies
  <2>3. \A i \in Pids : Adders(i)' \subseteq Adders(i)
    BY <1>7, <1>p, <1>m DEF PurgeLock, WalkLock, Begins, Goto, adding, Adders
  <2> QED
    BY <2>2, <2>3, BoundKept
<1>8. ASSUME NEW t \in Threads, AddFound(t) PROVE CopiesInv'
  <2>1. Kept /\ list' = list
    BY <1>8, HeapKept DEF AddFound, Mark, Tick
  <2>2. \A i \in Pids : Copies(i)' = Copies(i)
    BY <1>m, <2>1 DEF Kept, Copies, OwnInv
  <2>3. \A i \in Pids : Adders(i)' \subseteq Adders(i)
    BY <1>8, <1>p, <1>m DEF AddFound, Mark, Tick, Returns, adding, Adders
  <2> QED
    BY <2>2, <2>3, BoundKept
<1>9. ASSUME NEW t \in Threads, AddMiss(t) PROVE CopiesInv'
  <2> SUFFICES ASSUME NEW i \in Pids
               PROVE  Cardinality(Copies(i)') + Cardinality(Adders(i)') <= Cardinality(Threads)
    BY DEF CopiesInv
  <2>1. /\ UNCHANGED <<list, heap, pid>> /\ Matches(pid[t]) = {}
        /\ \A u \in Threads \ {t} : pc'[u] = pc[u]
    BY <1>9, <1>p DEF AddMiss, Goto, adding
  <2>2. Copies(i)' = Copies(i)
    BY <2>1 DEF Copies
  <2>3. CASE pid[t] = i
    <3>1. Copies(i) = {}
      BY <2>1, <2>3 DEF Matches, Copies, Linked
    <3>2. Adders(i)' \subseteq Threads
      BY DEF Adders
    <3>3. Cardinality(Adders(i)') <= Cardinality(Threads) /\ IsFiniteSet(Adders(i)')
      BY <3>2, FiniteCopies, FS_Subset
    <3>4. Cardinality(Copies(i)') = 0 /\ Cardinality(Adders(i)') \in Nat
      BY <2>2, <3>1, <3>3, FS_EmptySet, FS_CardinalityType
    <3> QED
      BY <3>3, <3>4, FiniteCopies
  <2>4. CASE pid[t] # i
    <3>1. Adders(i)' = Adders(i)
      BY <2>1, <2>4 DEF Adders
    <3> QED
      BY <2>2, <3>1 DEF IInv, CopiesInv
  <2> QED
    BY <2>3, <2>4
<1>10. ASSUME NEW t \in Threads, task_info_alloc(t) PROVE CopiesInv'
  <2>1. list' = list /\ \A n \in Linked(list) : heap'[n] = heap[n]
    BY <1>10, <1>m DEF task_info_alloc, OwnInv
  <2>2. \A i \in Pids : Copies(i)' = Copies(i)
    BY <2>1 DEF Copies
  <2>3. \A i \in Pids : Adders(i)' \subseteq Adders(i)
    BY <1>10, <1>p, <1>m DEF task_info_alloc, Goto, Adders
  <2> QED
    BY <2>2, <2>3, BoundKept
<1>11. ASSUME NEW t \in Threads, AddInsert(t) PROVE CopiesInv'
  <2> SUFFICES ASSUME NEW i \in Pids
               PROVE  Cardinality(Copies(i)') + Cardinality(Adders(i)') <= Cardinality(Threads)
    BY DEF CopiesInv
  <2>0. Cardinality(Copies(i)) + Cardinality(Adders(i)) <= Cardinality(Threads)
    BY DEF IInv, CopiesInv
  <2>1. /\ ti[t] \in Nodes /\ ti[t] \notin Linked(list)
        /\ Linked(list') = Linked(list) \cup {ti[t]}
    BY <1>11, InsertList
  <2>2. /\ UNCHANGED heap /\ pc[t] = "add_insert" /\ pc'[t] = "ready"
        /\ \A u \in Threads \ {t} : pc'[u] = pc[u] /\ pid'[u] = pid[u]
    BY <1>11, <1>p, <1>m DEF AddInsert, Returns
  <2>3. heap[ti[t]].pid = pid[t]
    BY <1>11, <1>m DEF PidInv, AddInsert
  <2>4. CASE pid[t] = i
    <3>1. Copies(i)' = Copies(i) \cup {ti[t]} /\ ti[t] \notin Copies(i)
      BY <2>1, <2>2, <2>3, <2>4 DEF Copies
    <3>2. Adders(i)' = Adders(i) \ {t} /\ t \in Adders(i)
      BY <2>2, <2>4 DEF Adders
    <3>3. Cardinality(Copies(i)') = Cardinality(Copies(i)) + 1
      BY <3>1, FiniteCopies, FS_AddElement
    <3>4. Cardinality(Adders(i)') = Cardinality(Adders(i)) - 1
      BY <3>2, FiniteCopies, FS_RemoveElement
    <3> QED
      BY <2>0, <3>3, <3>4, FiniteCopies
  <2>5. CASE pid[t] # i
    <3>1. Copies(i)' = Copies(i)
      BY <2>1, <2>2, <2>3, <2>5 DEF Copies
    <3>2. Adders(i)' = Adders(i)
      BY <2>2, <2>5 DEF Adders
    <3> QED
      BY <2>0, <3>1, <3>2
  <2> QED
    BY <2>4, <2>5
<1>12. ASSUME NEW t \in Threads, AddOops(t) PROVE CopiesInv'
  <2>1. list' = list /\ heap' = heap
    BY <1>12 DEF AddOops
  <2>2. \A i \in Pids : Copies(i)' = Copies(i)
    BY <2>1 DEF Copies
  <2>3. \A i \in Pids : Adders(i)' \subseteq Adders(i)
    BY <1>12, <1>p, <1>m DEF AddOops, Goto, adding, Adders
  <2> QED
    BY <2>2, <2>3, BoundKept
<1>13. ASSUME NEW t \in Threads, PrintUnlock(t) PROVE CopiesInv'
  <2>1. list' = list /\ heap' = heap
    BY <1>13 DEF PrintUnlock
  <2>2. \A i \in Pids : Copies(i)' = Copies(i)
    BY <2>1 DEF Copies
  <2>3. \A i \in Pids : Adders(i)' \subseteq Adders(i)
    BY <1>13, <1>p, <1>m DEF PrintUnlock, Returns, adding, Adders
  <2> QED
    BY <2>2, <2>3, BoundKept
<1>14. ASSUME NEW t \in Threads, RemoveEntry(t) PROVE CopiesInv'
  <2>1. /\ Linked(list') = Linked(list) \ {p[t]} /\ heap' = [heap EXCEPT ![p[t]] = Nil]
        /\ p[t] \in Nodes
    BY <1>14, DeleteList
  <2>2. \A i \in Pids : Copies(i)' \subseteq Copies(i)
    BY <1>m, <2>1 DEF Copies
  <2>3. \A i \in Pids : Adders(i)' = Adders(i)
    BY <1>14 DEF RemoveEntry, PurgeEntry, adding, Adders
  <2> QED
    BY <2>2, <2>3, BoundKept
<1>15. ASSUME NEW t \in Threads, PurgeEntry(t) PROVE CopiesInv'
  <2>1. /\ Linked(list') = Linked(list) \ {p[t]} /\ heap' = [heap EXCEPT ![p[t]] = Nil]
        /\ p[t] \in Nodes
    BY <1>15, DeleteList
  <2>2. \A i \in Pids : Copies(i)' \subseteq Copies(i)
    BY <1>m, <2>1 DEF Copies
  <2>3. \A i \in Pids : Adders(i)' = Adders(i)
    BY <1>15 DEF RemoveEntry, PurgeEntry, adding, Adders
  <2> QED
    BY <2>2, <2>3, BoundKept
<1>16. ASSUME NEW t \in Threads, WalkUnlock(t) PROVE CopiesInv'
  <2>1. list' = list /\ heap' = heap
    BY <1>16 DEF WalkUnlock
  <2>2. \A i \in Pids : Copies(i)' = Copies(i)
    BY <2>1 DEF Copies
  <2>3. \A i \in Pids : Adders(i)' \subseteq Adders(i)
    BY <1>16, <1>p, <1>m DEF WalkUnlock, Returns, adding, Adders
  <2> QED
    BY <2>2, <2>3, BoundKept
<1>17. ASSUME NEW t \in Threads, Sleep(t) PROVE CopiesInv'
  <2>1. list' = list /\ heap' = heap
    BY <1>17 DEF Sleep
  <2>2. \A i \in Pids : Copies(i)' = Copies(i)
    BY <2>1 DEF Copies
  <2>3. \A i \in Pids : Adders(i)' \subseteq Adders(i)
    BY <1>17, <1>p, <1>m DEF Sleep, Begins, Returns, adding, Adders
  <2> QED
    BY <2>2, <2>3, BoundKept
<1>18. ASSUME NEW t \in Threads, Mark(t) PROVE CopiesInv'
  <2>1. Kept /\ list' = list
    BY <1>18, HeapKept DEF AddFound, Mark, Tick
  <2>2. \A i \in Pids : Copies(i)' = Copies(i)
    BY <1>m, <2>1 DEF Kept, Copies, OwnInv
  <2>3. \A i \in Pids : Adders(i)' \subseteq Adders(i)
    BY <1>18, <1>p, <1>m DEF AddFound, Mark, Tick, Returns, adding, Adders
  <2> QED
    BY <2>2, <2>3, BoundKept
<1>19. CASE Tick
  <2>1. Kept /\ list' = list
    BY <1>19, HeapKept DEF AddFound, Mark, Tick
  <2>2. \A i \in Pids : Copies(i)' = Copies(i)
    BY <1>m, <2>1 DEF Kept, Copies, OwnInv
  <2>3. \A i \in Pids : Adders(i)' \subseteq Adders(i)
    BY <1>19, <1>p, <1>m DEF AddFound, Mark, Tick, Returns, adding, Adders
  <2> QED
    BY <2>2, <2>3, BoundKept
<1>20. CASE UNCHANGED vars
  BY <1>20, <1>0 DEF vars, rwlock, adding, walk
<1> QED
  BY <1>1, <1>2, <1>3, <1>4, <1>5, <1>6, <1>7, <1>8, <1>9, <1>10, <1>11, <1>12, <1>13,
     <1>14, <1>15, <1>16, <1>17, <1>18, <1>19, <1>20 DEF Next, Waits, Runs

\* The types: a call returns only to calls that are left.
LEMMA TypeStep ==
  ASSUME IInv, [Next]_vars
  PROVE  TypeOK'
<1>m. /\ TypeOK /\ CallInv /\ LockInv /\ PidInv
  BY DEF IInv
<1>t. \A t \in Threads : todo[t] # <<>> => Tail(todo[t]) \in Seq(Calls)
  BY <1>m DEF TypeOK
<1>c. \A t \in Threads : pc[t] # "ready" => todo[t] # <<>>
  BY <1>m DEF CallInv
<1>0. UNCHANGED <<state, todo, pc, writer, readers, list, heap, jiffies, pid, ti, p, q, marked>> => TypeOK'
  BY DEF IInv, TypeOK
<1>1. ASSUME NEW t \in Threads, Insmod(t) PROVE TypeOK'
  <2>0. /\ task_info_add_for_current \in Seq(Calls)
        /\ <<"print", "sleep">> \in Seq(Calls) /\ <<"print">> \in Seq(Calls)
    <3>1. task_info_add_for_current \in [1..Neighbours -> Calls] /\ Neighbours \in Nat
      BY ListSyncAssumption DEF Calls, task_info_add_for_current
    <3>2. task_info_add_for_current \in Seq(Calls)
      BY <3>1
    <3> QED
      BY <3>2 DEF Calls
  <2>1. InitCalls(t) \in Seq(Calls) /\ <<>> \in Seq(Nodes)
    BY <2>0 DEF InitCalls
  <2> QED
    BY <1>1, <1>m, <2>1 DEF Insmod, TypeOK, rwlock, adding, walk
<1>2. ASSUME NEW t \in Threads, Rmmod(t) PROVE TypeOK'
  <2>0. <<"mark", "remove", "print", "purge">> \in Seq(Calls) /\ <<"remove", "print">> \in Seq(Calls)
    BY DEF Calls
  <2>1. ExitCalls(t) \in Seq(Calls)
    BY <2>0 DEF ExitCalls
  <2> QED
    BY <1>2, <1>m, <2>1 DEF Rmmod, TypeOK, rwlock, adding, walk
<1>3. ASSUME NEW t \in Threads, EntryReturns(t) PROVE TypeOK'
  BY <1>3, <1>m DEF EntryReturns, rwlock, adding, walk, TypeOK
<1>4. ASSUME NEW t \in Threads, AddLock(t) PROVE TypeOK'
  BY <1>4, <1>m DEF AddLock, Begins, Goto, write_lock, rwlock, adding, walk, TypeOK
<1>5. ASSUME NEW t \in Threads, AddLockAgain(t) PROVE TypeOK'
  BY <1>5, <1>m DEF AddLockAgain, Goto, write_lock, rwlock, adding, walk, TypeOK
<1>6. ASSUME NEW t \in Threads, PrintLock(t) PROVE TypeOK'
  <2>1. First(list) \in Nodes \cup {HEAD} /\ NextOf(list, First(list)) \in Nodes \cup {HEAD}
    BY ListFacts
  <2> QED
    BY <1>6, <1>m, <2>1 DEF PrintLock, WalkLock, Begins, Goto, write_lock, read_lock, TypeOK, rwlock, adding, walk
<1>7. ASSUME NEW t \in Threads, RemoveLock(t) PROVE TypeOK'
  <2>1. First(list) \in Nodes \cup {HEAD} /\ NextOf(list, First(list)) \in Nodes \cup {HEAD}
    BY ListFacts
  <2> QED
    BY <1>7, <1>m, <2>1 DEF RemoveLock, WalkLock, Begins, Goto, write_lock, read_lock, TypeOK, rwlock, adding, walk
<1>8. ASSUME NEW t \in Threads, PurgeLock(t) PROVE TypeOK'
  <2>1. First(list) \in Nodes \cup {HEAD} /\ NextOf(list, First(list)) \in Nodes \cup {HEAD}
    BY ListFacts
  <2> QED
    BY <1>8, <1>m, <2>1 DEF PurgeLock, WalkLock, Begins, Goto, write_lock, read_lock, TypeOK, rwlock, adding, walk
<1>9. ASSUME NEW t \in Threads, AddFound(t) PROVE TypeOK'
  <2>1. heap' \in [Nodes -> Entries \cup {Nil}]
    BY <1>9, HeapKept DEF Kept
  <2>2. marked' \in Nodes \cup {HEAD, Nil}
    BY <1>9, <1>m DEF AddFound, TypeOK
  <2>3. todo' \in [Threads -> Seq(Calls)]
    BY <1>9, <1>m, <1>t, <1>c DEF AddFound, TypeOK, Returns
  <2> QED
    BY <1>9, <1>m, <2>1, <2>2, <2>3, ListSyncAssumption DEF AddFound, TypeOK, rwlock, adding, walk, write_unlock, Returns
<1>10. ASSUME NEW t \in Threads, AddMiss(t) PROVE TypeOK'
  BY <1>10, <1>m DEF AddMiss, Goto, write_unlock, rwlock, adding, walk, TypeOK
<1>11. ASSUME NEW t \in Threads, task_info_alloc(t) PROVE TypeOK'
  <2>1. heap' \in [Nodes -> Entries \cup {Nil}] /\ ti' \in [Threads -> Nodes \cup {Nil}]
    <3>1. NewEntry(pid[t]) \in Entries
      BY <1>11, NewIsEntry
    <3>2. \/ UNCHANGED <<heap, ti>>
          \/ \E n \in Nodes : heap' = [heap EXCEPT ![n] = NewEntry(pid[t])] /\ ti' = [ti EXCEPT ![t] = n]
      BY <1>11 DEF task_info_alloc
    <3> QED
      BY <1>m, <3>1, <3>2 DEF TypeOK
  <2> QED
    BY <1>11, <1>m, <2>1 DEF task_info_alloc, Goto, TypeOK, rwlock, walk
<1>12. ASSUME NEW t \in Threads, AddInsert(t) PROVE TypeOK'
  <2>1. todo' \in [Threads -> Seq(Calls)]
    BY <1>12, <1>m, <1>t, <1>c DEF AddInsert, Returns, Begins, TypeOK
  <2> QED
    BY <1>12, <1>m, <2>1, InsertList DEF AddInsert, Returns, write_unlock, read_unlock, TypeOK, rwlock, adding, walk
<1>13. ASSUME NEW t \in Threads, AddOops(t) PROVE TypeOK'
  BY <1>13, <1>m DEF AddOops, Goto, rwlock, adding, walk, TypeOK
<1>14. ASSUME NEW t \in Threads, PrintEntry(t) PROVE TypeOK'
  <2>1. \A m : NextOf(list, m) \in Nodes \cup {HEAD}
    BY ListFacts
  <2> QED
    BY <1>14, <1>m, <2>1 DEF PrintEntry, Advance, TypeOK, rwlock, adding, walk
<1>15. ASSUME NEW t \in Threads, PrintUnlock(t) PROVE TypeOK'
  <2>1. todo' \in [Threads -> Seq(Calls)]
    BY <1>15, <1>m, <1>t, <1>c DEF PrintUnlock, Returns, Begins, TypeOK
  <2> QED
    BY <1>15, <1>m, <2>1 DEF PrintUnlock, Returns, write_unlock, read_unlock, TypeOK, rwlock, adding, walk
<1>16. ASSUME NEW t \in Threads, RemoveEntry(t) PROVE TypeOK'
  <2>1. /\ p[t] \in Nodes /\ heap' = [heap EXCEPT ![p[t]] = Nil]
        /\ list' \in Seq(Nodes) /\ Linked(list') \subseteq Linked(list)
        /\ p'[t] \in Linked(list') \cup {HEAD} /\ q'[t] \in Linked(list') \cup {HEAD}
    BY <1>16, DeleteList
  <2>2. p'[t] \in Nodes \cup {HEAD} /\ q'[t] \in Nodes \cup {HEAD}
    BY <2>1, ListFacts
  <2>3. /\ p' \in [Threads -> Nodes \cup {HEAD, Nil}] /\ q' \in [Threads -> Nodes \cup {HEAD, Nil}]
    BY <1>16, <1>m, <2>2 DEF RemoveEntry, PurgeEntry, Delete, Advance, TypeOK
  <2>4. heap' \in [Nodes -> Entries \cup {Nil}]
    BY <1>m, <2>1 DEF TypeOK
  <2> QED
    BY <1>16, <1>m, <2>1, <2>3, <2>4 DEF RemoveEntry, PurgeEntry, TypeOK, rwlock, adding
<1>17. ASSUME NEW t \in Threads, KeepEntry(t) PROVE TypeOK'
  <2>1. \A m : NextOf(list, m) \in Nodes \cup {HEAD}
    BY ListFacts
  <2> QED
    BY <1>17, <1>m, <2>1 DEF KeepEntry, Advance, TypeOK, rwlock, adding, walk
<1>18. ASSUME NEW t \in Threads, PurgeEntry(t) PROVE TypeOK'
  <2>1. /\ p[t] \in Nodes /\ heap' = [heap EXCEPT ![p[t]] = Nil]
        /\ list' \in Seq(Nodes) /\ Linked(list') \subseteq Linked(list)
        /\ p'[t] \in Linked(list') \cup {HEAD} /\ q'[t] \in Linked(list') \cup {HEAD}
    BY <1>18, DeleteList
  <2>2. p'[t] \in Nodes \cup {HEAD} /\ q'[t] \in Nodes \cup {HEAD}
    BY <2>1, ListFacts
  <2>3. /\ p' \in [Threads -> Nodes \cup {HEAD, Nil}] /\ q' \in [Threads -> Nodes \cup {HEAD, Nil}]
    BY <1>18, <1>m, <2>2 DEF RemoveEntry, PurgeEntry, Delete, Advance, TypeOK
  <2>4. heap' \in [Nodes -> Entries \cup {Nil}]
    BY <1>m, <2>1 DEF TypeOK
  <2> QED
    BY <1>18, <1>m, <2>1, <2>3, <2>4 DEF RemoveEntry, PurgeEntry, TypeOK, rwlock, adding
<1>19. ASSUME NEW t \in Threads, WalkUnlock(t) PROVE TypeOK'
  <2>1. todo' \in [Threads -> Seq(Calls)]
    BY <1>19, <1>m, <1>t, <1>c DEF WalkUnlock, Returns, Begins, TypeOK
  <2> QED
    BY <1>19, <1>m, <2>1 DEF WalkUnlock, Returns, write_unlock, read_unlock, TypeOK, rwlock, adding, walk
<1>20. ASSUME NEW t \in Threads, Sleep(t) PROVE TypeOK'
  <2>1. todo' \in [Threads -> Seq(Calls)]
    BY <1>20, <1>m, <1>t, <1>c DEF Sleep, Returns, Begins, TypeOK
  <2> QED
    BY <1>20, <1>m, <2>1 DEF Sleep, Returns, write_unlock, read_unlock, TypeOK, rwlock, adding, walk
<1>21. ASSUME NEW t \in Threads, Mark(t) PROVE TypeOK'
  <2>1. heap' \in [Nodes -> Entries \cup {Nil}]
    BY <1>21, HeapKept DEF Kept
  <2>2. marked' \in Nodes \cup {HEAD, Nil}
    <3>1. CASE list = <<>>
      BY <1>21, <3>1 DEF Mark
    <3>2. CASE list # <<>>
      BY <1>21, <3>2, MarkEntry
    <3> QED
      BY <3>1, <3>2
  <2>3. todo' \in [Threads -> Seq(Calls)]
    BY <1>21, <1>m, <1>t, <1>c DEF Mark, TypeOK, Returns, Begins
  <2> QED
    BY <1>21, <1>m, <2>1, <2>2, <2>3, ListSyncAssumption DEF Mark, TypeOK, rwlock, adding, walk, write_unlock, Returns, Begins
<1>22. CASE Tick
  <2>1. heap' \in [Nodes -> Entries \cup {Nil}]
    BY <1>22, HeapKept DEF Kept
  <2>2. jiffies' \in 0..(W - 1)
    BY <1>22, <1>m, TickMod, ListSyncAssumption DEF Tick, TypeOK
  <2> QED
    BY <1>22, <1>m, <2>1, <2>2 DEF Tick, TypeOK, rwlock, adding, walk
<1>23. CASE UNCHANGED vars
  BY <1>23, <1>0 DEF vars, rwlock, adding, walk
<1> QED
  BY <1>1, <1>2, <1>3, <1>4, <1>5, <1>6, <1>7, <1>8, <1>9, <1>10, <1>11, <1>12, <1>13,
     <1>14, <1>15, <1>16, <1>17, <1>18, <1>19, <1>20, <1>21, <1>22, <1>23 DEF Next,
     Waits, Runs

-----------------------------------------------------------------------------
(* Theorems *)

\* No module is loaded and nothing is allocated at first.
LEMMA InitInv == Init => IInv
<1> SUFFICES ASSUME Init PROVE IInv
  OBVIOUS
<1> USE ListSyncAssumption DEF Init
<1>0. <<>> \in Seq(Nodes) /\ <<>> \in Seq(Calls) /\ Linked(<<>>) = {} /\ Distinct(<<>>)
  BY DEF Linked, Distinct
<1>1. TypeOK
  <2>0. W \in Nat /\ W > 0 /\ jiffies = 0 /\ marked = Nil
    BY SMT
  <2>1. jiffies \in 0..(W - 1)
    BY ONLY <2>0
  <2>4. marked \in Nodes \cup {HEAD, Nil}
    BY ONLY <2>0
  <2>2. /\ state \in [Threads -> {"out", "coming", "live", "going"}]
        /\ todo \in [Threads -> Seq(Calls)] /\ list \in Seq(Nodes)
    BY <1>0
  <2>3. /\ heap \in [Nodes -> Entries \cup {Nil}]
        /\ p \in [Threads -> Nodes \cup {HEAD, Nil}] /\ q \in [Threads -> Nodes \cup {HEAD, Nil}]
        /\ pid \in [Threads -> Pids \cup {Nil}] /\ ti \in [Threads -> Nodes \cup {Nil}]
    OBVIOUS
  <2> QED
    BY <2>1, <2>2, <2>3, <2>4 DEF TypeOK
<1>2. CallInv /\ LockInv /\ PidInv /\ WalkInv
  BY DEF CallInv, LockInv, PidInv, WalkInv, Threads, Adding
<1>3. OwnInv /\ AgeInv
  BY <1>0 DEF OwnInv, AgeInv
<1>4. UseInv /\ MarkInv
  BY DEF UseInv, MarkInv, Threads
<1>5. CopiesInv
  <2> SUFFICES ASSUME NEW i \in Pids
               PROVE  Cardinality(Copies(i)) + Cardinality(Adders(i)) <= Cardinality(Threads)
    BY DEF CopiesInv
  <2>1. Copies(i) = {} /\ Adders(i) = {}
    BY <1>0 DEF Copies, Adders
  <2>2. Cardinality(Copies(i)) = 0 /\ Cardinality(Adders(i)) = 0
    BY <2>1, FS_EmptySet
  <2>3. Cardinality(Threads) \in Nat
    BY FS_AddElement, FS_CardinalityType DEF Threads
  <2> QED
    BY <2>2, <2>3
<1> QED
  BY <1>1, <1>2, <1>3, <1>4, <1>5 DEF IInv

\* The inductive invariant holds for ever.
THEOREM Invariance == Spec => []IInv
<1>1. IInv /\ [Next]_vars => IInv'
  BY TypeStep, CallStep, LockStep, OwnStep, PidStep, WalkStep, UseStep, MarkStep, AgeStep,
     BoundStep DEF IInv
<1> QED
  BY InitInv, <1>1, PTL DEF Spec

\* Every variable has its type.
THEOREM TypeCorrect == Spec => []TypeOK
<1>1. IInv => TypeOK
  BY DEF IInv
<1> QED
  BY Invariance, <1>1, PTL

\* An allocated entry is linked once or about to be linked by one thread, and a
\* freed one is neither.
THEOREM EntriesOwned == Spec => []OwnedOnce
<1>1. IInv => OwnedOnce
  <2> SUFFICES ASSUME IInv, NEW n \in Nodes
               PROVE  Cardinality({i \in 1..Len(list) : list[i] = n})
                        + Cardinality({t \in Threads : ti[t] = n})
                          = (IF heap[n] = Nil THEN 0 ELSE 1)
    BY DEF OwnedOnce
  <2>1. OwnInv /\ list \in Seq(Nodes) /\ n # Nil
    BY ListSyncAssumption DEF IInv, TypeOK
  <2>2. Cardinality({i \in 1..Len(list) : list[i] = n}) = IF n \in Linked(list) THEN 1 ELSE 0
    BY <2>1, PlaceCount DEF OwnInv
  <2>3. Cardinality({t \in Threads : ti[t] = n}) = IF \E t \in Threads : ti[t] = n THEN 1 ELSE 0
    <3>1. \A t, u \in Threads : ti[t] = n /\ ti[u] = n => t = u
      BY <2>1 DEF OwnInv
    <3> QED
      BY <3>1, HandCount
  <2> QED
    BY <2>1, <2>2, <2>3 DEF OwnInv
<1> QED
  BY Invariance, <1>1, PTL

\* No walk ever stands on an entry that was unlinked, or saves one as its successor.
THEOREM WalksOnLinked == Spec => []WalksSafe
<1>1. IInv => WalksSafe
  <2> SUFFICES ASSUME IInv, NEW t \in Threads
               PROVE  {p[t], q[t]} \subseteq Linked(list) \cup {HEAD, Nil}
    BY DEF WalksSafe
  <2>1. \A n : NextOf(list, n) \in Linked(list) \cup {HEAD}
    BY ListFacts
  <2> QED
    BY <2>1 DEF IInv, WalkInv
<1> QED
  BY Invariance, <1>1, PTL

\* An unloaded list-sync has freed every entry.
THEOREM UnloadsClean == Spec => []CleanUnload
<1>1. IInv => CleanUnload
  <2> SUFFICES ASSUME IInv, state[Sync] = "out", NEW n \in Nodes PROVE heap[n] = Nil
    BY DEF CleanUnload
  <2>1. list = <<>>
    BY DEF IInv, UseInv
  <2>2. Linked(list) = {}
    BY <2>1, LinkedNodes DEF Linked
  <2>3. \A t \in Threads : todo[t] = <<>>
    BY ListSyncAssumption DEF IInv, UseInv, CallInv, Threads
  <2>4. \A t \in Threads : pc[t] = "ready"
    BY <2>3 DEF IInv, CallInv
  <2>5. \A t \in Threads : ti[t] = Nil
    BY <2>4 DEF IInv, OwnInv
  <2> QED
    BY <2>2, <2>5, ListSyncAssumption DEF IInv, OwnInv
<1> QED
  BY Invariance, <1>1, PTL

\* When list_sync_exit prints the list, the entry that it marked, if there was
\* one to mark, is linked: remove_expired did not take it.
THEOREM MarkPrinted == Spec => []MarkedSurvives
<1>1. IInv => MarkedSurvives
  <2> SUFFICES ASSUME IInv, pc[Sync] = "print", state[Sync] = "going", marked # HEAD
               PROVE  marked \in Linked(list)
    BY DEF MarkedSurvives
  <2>1. Sync \in Threads
    BY DEF Threads
  <2>2. todo[Sync] # <<>> /\ Head(todo[Sync]) = "print"
    BY <2>1 DEF IInv, CallInv, Adding
  <2>3. todo[Sync] = <<"print", "purge">>
    BY <2>1, <2>2, GoingHeads
  <2> QED
    BY <2>3 DEF IInv, MarkInv
<1> QED
  BY Invariance, <1>1, PTL

-----------------------------------------------------------------------------
(* The abstract table *)

\* remove_expired frees only entries that were left alone for more than 3 * HZ
\* jiffies, however often jiffies wraps.
LEMMA ExpiresLate ==
  ASSUME IInv, NEW t \in Threads, RemoveEntry(t)
  PROVE  heap[p[t]].age > Expiry
<1> DEFINE e == heap[p[t]]
<1>1. (jiffies - e.ts) % W > Expiry
  BY DEF RemoveEntry, Expired
<1>2. p[t] \in Linked(list) /\ p[t] \in Nodes
  BY DeleteList
<1>3. e \in Entries /\ e # Nil /\ jiffies \in 0..(W - 1)
  BY <1>2 DEF IInv, OwnInv, TypeOK
<1>4. e.ts \in 0..(W - 1) /\ e.age \in 0..(Expiry + 1)
  BY <1>3 DEF Entries
<1>5. CASE e.age <= Expiry
  <2>1. jiffies - e.ts = e.age \/ jiffies - e.ts = e.age - W
    BY <1>2, <1>3, <1>4, <1>5, ListSyncAssumption DEF IInv, AgeInv
  <2>2. e.age \in 0..(W - 1)
    BY <1>4, <1>5, ListSyncAssumption
  <2>3. (jiffies - e.ts) % W = e.age
    BY <2>1, <2>2, PassedMod
  <2> QED
    BY <1>1, <1>4, <1>5, <2>3, ListSyncAssumption
<1> HIDE DEF e
<1> QED
  BY <1>4, <1>5, ListSyncAssumption DEF e

Rows  == [n \in Linked(list) |->
            [pid |-> heap[n].pid, age |-> heap[n].age, count |-> heap[n].count]]
Using == {c \in Clients : state[c] # "out"}
Phase == IF state[Sync] = "out" \/ (state[Sync] = "going" /\ todo[Sync] = <<>>) THEN "out"
         ELSE IF pc[Sync] = "purge" THEN "purging" ELSE "in"

\* The calls that each module makes: only the exit function of list-sync marks
\* and purges.
MayCall(t, s) ==
  IF t # Sync THEN {"add", "print", "remove"}
  ELSE IF s = "coming" THEN {"add", "print", "sleep"} ELSE Calls

RoleInv == \A t \in Threads : \A i \in 1..Len(todo[t]) : todo[t][i] \in MayCall(t, state[t])

\* A module makes the calls of its init and exit functions and no others.
LEMMA RoleStep ==
  ASSUME IInv, RoleInv, [Next]_vars
  PROVE  RoleInv'
<1>t. /\ todo \in [Threads -> Seq(Calls)] /\ state \in [Threads -> {"out", "coming", "live", "going"}]
      /\ Neighbours \in Nat /\ CallInv
  BY ListSyncAssumption DEF IInv, TypeOK
<1>0. UNCHANGED <<todo, state>> => RoleInv'
  BY DEF RoleInv
<1>r. ASSUME NEW t \in Threads, Returns(t), state' = state, todo[t] # <<>> PROVE RoleInv'
  <2> SUFFICES ASSUME NEW u \in Threads, NEW i \in 1..Len(todo'[u])
               PROVE  todo'[u][i] \in MayCall(u, state[u])
    BY <1>r DEF RoleInv
  <2>1. CASE u # t
    BY <1>r, <1>t, <2>1 DEF Returns, RoleInv
  <2>2. CASE u = t
    <3>1. todo'[u] = Tail(todo[u]) /\ todo[u] \in Seq(Calls) /\ todo[u] # <<>>
      BY <1>r, <1>t, <2>2 DEF Returns
    <3>2. i + 1 \in 1..Len(todo[u]) /\ todo'[u][i] = todo[u][i + 1]
      BY <3>1
    <3> QED
      BY <3>2 DEF RoleInv
  <2> QED
    BY <2>1, <2>2
<1>c. ASSUME NEW t \in Threads, NEW s \in {"coming", "going"}, NEW calls,
             \A i \in 1..Len(calls) : calls[i] \in MayCall(t, s),
             state' = [state EXCEPT ![t] = s], todo' = [todo EXCEPT ![t] = calls]
      PROVE  RoleInv'
  BY <1>c, <1>t DEF RoleInv
<1>1. ASSUME NEW t \in Threads, Insmod(t) PROVE RoleInv'
  <2>1. \A i \in 1..Len(InitCalls(t)) : InitCalls(t)[i] \in MayCall(t, "coming")
    <3> DEFINE adds == task_info_add_for_current
    <3>1. adds \in Seq({"add"}) /\ Len(adds) = Neighbours
      BY <1>t DEF task_info_add_for_current
    <3> HIDE DEF adds
    <3>2. CASE t = Sync
      <4>1. InitCalls(t) = adds \o <<"print", "sleep">>
        BY <3>2 DEF InitCalls, adds
      <4>2. adds \o <<"print", "sleep">> \in Seq({"add", "print", "sleep"})
        BY <3>1
      <4> QED
        BY <3>2, <4>1, <4>2 DEF MayCall
    <3>3. CASE t # Sync
      <4>1. InitCalls(t) = adds \o <<"print">>
        BY <3>3 DEF InitCalls, adds
      <4>2. adds \o <<"print">> \in Seq({"add", "print", "remove"})
        BY <3>1
      <4> QED
        BY <3>3, <4>1, <4>2 DEF MayCall
    <3> QED
      BY <3>2, <3>3
  <2> QED
    BY <1>1, <1>c, <2>1 DEF Insmod
<1>2. ASSUME NEW t \in Threads, Rmmod(t) PROVE RoleInv'
  <2>1. \A i \in 1..Len(ExitCalls(t)) : ExitCalls(t)[i] \in MayCall(t, "going")
    <3>1. CASE t = Sync
      <4>1. <<"mark", "remove", "print", "purge">> \in Seq(Calls)
        BY DEF Calls
      <4> QED
        BY <3>1, <4>1 DEF ExitCalls, MayCall
    <3>2. CASE t # Sync
      <4>1. <<"remove", "print">> \in Seq({"add", "print", "remove"})
        OBVIOUS
      <4> QED
        BY <3>2, <4>1 DEF ExitCalls, MayCall
    <3> QED
      BY <3>1, <3>2
  <2> QED
    BY <1>2, <1>c, <2>1 DEF Rmmod
<1>3. ASSUME NEW t \in Threads, EntryReturns(t) PROVE RoleInv'
  <2>1. todo' = todo /\ todo[t] = <<>> /\ \A u \in Threads : u # t => state'[u] = state[u]
    BY <1>3, <1>t DEF EntryReturns
  <2> QED
    BY <2>1 DEF RoleInv
<1>4. ASSUME NEW t \in Threads,
             AddFound(t) \/ AddInsert(t) \/ PrintUnlock(t) \/ WalkUnlock(t) \/ Sleep(t) \/ Mark(t)
      PROVE  RoleInv'
  <2>1. Returns(t) /\ state' = state /\ todo[t] # <<>>
    BY <1>4, <1>t DEF AddFound, AddInsert, PrintUnlock, WalkUnlock, Sleep, Mark, Begins, CallInv
  <2> QED
    BY <1>r, <2>1
<1>5. ASSUME NEW t \in Threads,
             \/ Waits(t) \/ AddMiss(t) \/ task_info_alloc(t) \/ AddOops(t)
             \/ PrintEntry(t) \/ RemoveEntry(t) \/ KeepEntry(t) \/ PurgeEntry(t)
      PROVE  RoleInv'
  BY <1>5, <1>0 DEF Waits, AddLock, AddLockAgain, PrintLock, RemoveLock, PurgeLock, WalkLock, AddMiss,
     task_info_alloc, AddOops, PrintEntry, RemoveEntry, KeepEntry, PurgeEntry, Goto
<1>6. CASE Tick \/ UNCHANGED vars
  BY <1>6, <1>0 DEF Tick, vars
<1> QED
  BY <1>1, <1>2, <1>3, <1>4, <1>5, <1>6 DEF Next, Runs

\* An entry that is not linked yet has not been updated.
FreshInv == \A t \in Threads : ti[t] # Nil => heap[ti[t]].count = 0

\* Updates and marks go to entries that are linked.
LEMMA FreshStep ==
  ASSUME IInv, FreshInv, [Next]_vars
  PROVE  FreshInv'
<1>t. /\ ti \in [Threads -> Nodes \cup {Nil}] /\ heap \in [Nodes -> Entries \cup {Nil}]
      /\ OwnInv /\ Nil \notin Nodes
  BY ListSyncAssumption DEF IInv, TypeOK
<1>0. ASSUME UNCHANGED <<ti, heap>> PROVE FreshInv'
  BY <1>0 DEF FreshInv
<1>l. ASSUME ti' = ti, NEW n \in Linked(list), NEW e, heap' = [heap EXCEPT ![n] = e] PROVE FreshInv'
  BY <1>l, <1>t DEF FreshInv, OwnInv
<1>1. ASSUME NEW t \in Threads, AddFound(t) PROVE FreshInv'
  <2>1. ti' = ti /\ Touch(pid[t]) /\ pid[t] \in Pids
    BY <1>1 DEF AddFound, IInv, PidInv, Adding
  <2> QED
    BY <1>l, <2>1, TouchEntry
<1>2. ASSUME NEW t \in Threads, Mark(t) PROVE FreshInv'
  <2>1. ti' = ti /\ (list = <<>> => heap' = heap)
    BY <1>2 DEF Mark, adding
  <2> QED
    BY <1>0, <1>l, <1>2, <2>1, MarkEntry
<1>3. ASSUME NEW t \in Threads, RemoveEntry(t) \/ PurgeEntry(t) PROVE FreshInv'
  <2>1. ti' = ti
    BY <1>3 DEF RemoveEntry, PurgeEntry, adding
  <2> QED
    BY <1>l, <1>3, <2>1, DeleteList
<1>4. CASE Tick
  <2>1. ti' = ti
    BY <1>4 DEF Tick, adding
  <2> QED
    BY <1>t, <1>4, <2>1, TickEntries DEF FreshInv, OwnInv
<1>5. ASSUME NEW t \in Threads, task_info_alloc(t) PROVE FreshInv'
  <2>1. CASE UNCHANGED <<heap, ti>>
    BY <1>0, <2>1
  <2>2. ASSUME NEW n \in Nodes, heap[n] = Nil, heap' = [heap EXCEPT ![n] = NewEntry(pid[t])],
               ti' = [ti EXCEPT ![t] = n]
        PROVE  FreshInv'
    <3>1. \A u \in Threads : ti[u] # n
      BY <1>t, <2>2 DEF OwnInv
    <3>2. NewEntry(pid[t]).count = 0
      BY DEF NewEntry
    <3> QED
      BY <1>t, <2>2, <3>1, <3>2 DEF FreshInv
  <2> QED
    BY <1>5, <2>1, <2>2 DEF task_info_alloc
<1>6. ASSUME NEW t \in Threads, AddInsert(t) PROVE FreshInv'
  BY <1>t, <1>6 DEF AddInsert, FreshInv
<1>7. ASSUME NEW t \in Threads,
             \/ Insmod(t) \/ Rmmod(t) \/ Waits(t) \/ AddMiss(t) \/ AddOops(t) \/ PrintEntry(t)
             \/ PrintUnlock(t) \/ KeepEntry(t) \/ WalkUnlock(t) \/ Sleep(t) \/ EntryReturns(t)
      PROVE  FreshInv'
  BY <1>7, <1>0 DEF Insmod, Rmmod, Waits, AddLock, AddLockAgain, PrintLock, RemoveLock, PurgeLock,
     WalkLock, AddMiss, AddOops, PrintEntry, PrintUnlock, KeepEntry, WalkUnlock, Sleep, EntryReturns,
     adding
<1>8. CASE UNCHANGED vars
  BY <1>8, <1>0 DEF vars, adding
<1> QED
  BY <1>1, <1>2, <1>3, <1>4, <1>5, <1>6, <1>7, <1>8 DEF Next, Runs

\* Where a thread is tells the phase: list-sync stays in while it is used.
LEMMA PhaseOf ==
  ASSUME IInv, RoleInv, NEW t \in Threads, todo[t] # <<>>
  PROVE  /\ t = Sync => state[Sync] \in {"coming", "going"}
         /\ t # Sync => state[Sync] = "live" /\ todo[Sync] = <<>> /\ pc[Sync] = "ready"
         /\ Head(todo[t]) \in MayCall(t, state[t])
         /\ state[Sync] = "going" => Using = {}
         /\ pc[t] # "purge" => Phase = "in"
         /\ Head(todo[t]) \in {"mark", "purge"} => t = Sync /\ state[Sync] = "going"
<1>1. /\ state \in [Threads -> {"out", "coming", "live", "going"}] /\ todo \in [Threads -> Seq(Calls)]
      /\ CallInv /\ UseInv /\ Sync \in Threads /\ t \in Clients \cup {Sync}
  BY DEF IInv, TypeOK, Threads
<1>2. state[t] \in {"coming", "going"}
  BY <1>1 DEF CallInv
<1>3. t # Sync => state[Sync] = "live" /\ todo[Sync] = <<>> /\ pc[Sync] = "ready"
  BY <1>1, <1>2 DEF CallInv, UseInv
<1>4. Head(todo[t]) \in MayCall(t, state[t])
  <2>1. 1 \in 1..Len(todo[t]) /\ Head(todo[t]) = todo[t][1]
    BY <1>1
  <2> QED
    BY <2>1 DEF RoleInv
<1>5. state[Sync] = "going" => Using = {}
  BY <1>1 DEF UseInv, Using
<1>6. pc[t] # "purge" => Phase = "in"
  BY <1>2, <1>3 DEF Phase
<1>7. Head(todo[t]) \in {"mark", "purge"} => t = Sync /\ state[Sync] = "going"
  BY <1>2, <1>4 DEF MayCall
<1> QED
  BY <1>2, <1>3, <1>4, <1>5, <1>6, <1>7

\* A step inside a call leaves the phase and the users alone, unless it begins
\* to purge.
LEMMA StepKept ==
  ASSUME IInv, RoleInv, NEW t \in Threads, todo[t] # <<>>, state' = state, todo' = todo,
         \/ pc' = pc
         \/ pc[t] # "purge" /\ \E l : l # "purge" /\ pc' = [pc EXCEPT ![t] = l]
  PROVE  Phase' = Phase /\ Using' = Using
<1>1. pc \in [Threads -> {"ready", "add_find", "add_alloc", "add_lock", "add_insert",
                          "print", "remove", "purge", "dead"}] /\ Sync \in Threads
  BY DEF IInv, TypeOK, Threads
<1>2. Using' = Using
  BY DEF Using
<1>3. pc'[Sync] = "purge" <=> pc[Sync] = "purge"
  BY <1>1
<1> QED
  BY <1>2, <1>3 DEF Phase

\* So does a return from a call that does not purge.
LEMMA ReturnKept ==
  ASSUME IInv, RoleInv, NEW t \in Threads, todo[t] # <<>>, state' = state, Returns(t),
         pc[t] # "purge", Head(todo[t]) # "purge"
  PROVE  Phase' = Phase /\ Using' = Using
<1>1. /\ pc \in [Threads -> {"ready", "add_find", "add_alloc", "add_lock", "add_insert",
                             "print", "remove", "purge", "dead"}]
      /\ todo \in [Threads -> Seq(Calls)] /\ UseInv /\ Sync \in Threads
  BY DEF IInv, TypeOK, Threads
<1>2. Using' = Using
  BY DEF Using
<1>3. CASE t # Sync
  <2>1. todo'[Sync] = todo[Sync] /\ pc'[Sync] = pc[Sync]
    BY <1>1, <1>3 DEF Returns
  <2> QED
    BY <1>2, <2>1 DEF Phase
<1>4. CASE t = Sync
  <2>1. state[Sync] \in {"coming", "going"} /\ Phase = "in"
    BY <1>4, PhaseOf
  <2>2. pc'[Sync] = "ready" /\ todo'[Sync] = Tail(todo[Sync])
    BY <1>1, <1>4 DEF Returns
  <2>3. ASSUME state[Sync] = "going" PROVE todo'[Sync] # <<>>
    <3>1. todo[Sync] \in ExitTails /\ todo[Sync] # <<>> /\ Head(todo[Sync]) # "purge"
      BY <1>1, <1>4, <2>3 DEF UseInv
    <3> QED
      BY <2>2, <3>1, GoingTails
  <2> QED
    BY <1>2, <2>1, <2>2, <2>3 DEF Phase
<1> QED
  BY <1>3, <1>4

\* The table is the same as long as linked entries are.
LEMMA TableFrame ==
  ASSUME Phase' = Phase, Using' = Using, list' = list,
         \A n \in Linked(list) : heap'[n] = heap[n]
  PROVE  UNCHANGED Table!all
<1>1. Rows' = Rows
  BY DEF Rows
<1> QED
  BY <1>1 DEF Table!all, Rows, Phase, Using

\* An empty list makes an empty table.
LEMMA NoRows ==
  ASSUME list = <<>>
  PROVE  Rows = <<>>
<1>1. Linked(list) = {}
  BY DEF Linked
<1>2. Rows = [n \in {} |-> Nil]
  BY <1>1 DEF Rows
<1> QED
  BY <1>2

\* The row of an entry that is linked.
LEMMA RowOf ==
  ASSUME NEW n \in Linked(list)
  PROVE  /\ n \in DOMAIN Rows /\ Rows[n].pid = heap[n].pid
         /\ Rows[n].age = heap[n].age /\ Rows[n].count = heap[n].count
BY DEF Rows

\* One entry, which stays linked, changes its age or its count.
LEMMA RowChanges ==
  ASSUME IInv, NEW n \in Linked(list), list' = list, heap' = [heap EXCEPT ![n] = heap'[n]],
         heap'[n].pid = heap[n].pid
  PROVE  Rows' = [Rows EXCEPT ![n] = [pid |-> heap[n].pid, age |-> heap'[n].age,
                                      count |-> heap'[n].count]]
<1>1. \A m \in Linked(list) : m # n => heap'[m] = heap[m]
  BY ListFacts DEF IInv, TypeOK
<1> QED
  BY <1>1 DEF Rows

\* One entry leaves the list.
LEMMA RowGoes ==
  ASSUME IInv, NEW t \in Threads, RemoveEntry(t) \/ PurgeEntry(t)
  PROVE  /\ p[t] \in DOMAIN Rows
         /\ Rows' = [m \in DOMAIN Rows \ {p[t]} |-> Rows[m]]
<1>1. /\ p[t] \in Linked(list) /\ p[t] \in Nodes /\ heap' = [heap EXCEPT ![p[t]] = Nil]
      /\ Linked(list') = Linked(list) \ {p[t]}
  BY DeleteList
<1>2. \A m \in Linked(list') : heap'[m] = heap[m]
  BY <1>1, ListFacts DEF IInv, TypeOK
<1> QED
  BY <1>1, <1>2 DEF Rows

\* touch: the entry found is stamped and counted.
LEMMA FoundStep ==
  ASSUME IInv, RoleInv, NEW t \in Threads, AddFound(t)
  PROVE  Table!Next
<1>1. /\ todo[t] # <<>> /\ Head(todo[t]) = "add" /\ pc[t] = "add_find" /\ pid[t] \in Pids
      /\ Touch(pid[t]) /\ Returns(t) /\ state' = state /\ list' = list
  BY DEF AddFound, IInv, CallInv, PidInv, Adding
<1>2. PICK n \in Linked(list) :
        /\ heap' = [heap EXCEPT ![n] = heap'[n]]
        /\ heap'[n].pid = heap[n].pid /\ heap'[n].age = 0
        /\ heap'[n].count = IF heap[n].count < MaxCount THEN heap[n].count + 1 ELSE heap[n].count
  BY <1>1, TouchEntry
<1>3. Phase' = Phase /\ Using' = Using /\ Phase = "in"
  BY <1>1, ReturnKept, PhaseOf
<1>4. Rows' = [Rows EXCEPT ![n] = [pid |-> heap[n].pid, age |-> heap'[n].age,
                                   count |-> heap'[n].count]]
  BY <1>1, <1>2, RowChanges
<1>5. n \in DOMAIN Rows /\ Rows[n] = [pid |-> heap[n].pid, age |-> heap[n].age, count |-> heap[n].count]
  BY DEF Rows
<1>6. Rows' = [Rows EXCEPT ![n].age = 0,
                           ![n].count = IF @ < MaxCount THEN @ + 1 ELSE @]
  <2> DEFINE f == Rows
             c == heap[n].count
             d == IF c < MaxCount THEN c + 1 ELSE c
             f1 == [f EXCEPT ![n].age = 0]
  <2>1. f1 = [f EXCEPT ![n] = [pid |-> heap[n].pid, age |-> 0, count |-> c]]
    <3>1. [f[n] EXCEPT !.age = 0] = [pid |-> heap[n].pid, age |-> 0, count |-> c]
      <4> HIDE DEF f
      <4> QED
        BY <1>5 DEF f
    <3> HIDE DEF f, c
    <3> QED
      BY <3>1
  <2>2. DOMAIN f1 = DOMAIN f /\ f1[n] = [pid |-> heap[n].pid, age |-> 0, count |-> c]
    <3> HIDE DEF f, c
    <3> QED
      BY <1>5, <2>1 DEF f
  <2>3. [f1[n] EXCEPT !.count = IF @ < MaxCount THEN @ + 1 ELSE @]
          = [pid |-> heap[n].pid, age |-> 0, count |-> d]
    <3> HIDE DEF f1
    <3> QED
      BY <2>2
  <2>4. [f1 EXCEPT ![n].count = IF @ < MaxCount THEN @ + 1 ELSE @]
          = [f1 EXCEPT ![n] = [pid |-> heap[n].pid, age |-> 0, count |-> d]]
    <3> HIDE DEF f1, c
    <3> QED
      BY <2>3
  <2>5. [f1 EXCEPT ![n] = [pid |-> heap[n].pid, age |-> 0, count |-> d]]
          = [f EXCEPT ![n] = [pid |-> heap[n].pid, age |-> 0, count |-> d]]
    <3> HIDE DEF f, d
    <3> QED
      BY <2>1
  <2> QED
    BY <1>2, <1>4, <2>4, <2>5
<1>7. Table!Touch(n)
  BY <1>3, <1>6 DEF Table!Touch, Rows, Phase, Using
<1> QED
  BY <1>5, <1>7 DEF Table!Next, Rows

\* The table counts as FiniteSets does.
LEMMA SameCount ==
  ASSUME NEW S
  PROVE  Table!Cardinality(S) = Cardinality(S)
BY DEF Table!Cardinality, Cardinality

\* insert: the entry was made for a pid that is listed less often than there
\* are modules.
LEMMA InsertStep ==
  ASSUME IInv, RoleInv, FreshInv, NEW t \in Threads, AddInsert(t)
  PROVE  Table!Next
<1>0. PICK n, i : n = ti[t] /\ i = pid[t]
  OBVIOUS
<1>1. /\ todo[t] # <<>> /\ Head(todo[t]) = "add" /\ pc[t] = "add_insert" /\ i \in Pids
      /\ Returns(t) /\ state' = state /\ heap' = heap /\ n # Nil
  BY <1>0 DEF AddInsert, IInv, CallInv, PidInv, Adding
<1>2. n \in Nodes /\ n \notin Linked(list) /\ Linked(list') = Linked(list) \cup {n}
  BY <1>0, InsertList
<1>3. Phase' = Phase /\ Using' = Using /\ Phase = "in"
  BY <1>1, ReturnKept, PhaseOf
<1>4. heap[n] \in Entries /\ heap[n].pid = i
  BY <1>0, <1>1, <1>2 DEF IInv, TypeOK, OwnInv, PidInv
<1>5. heap[n].age \in 0..(Expiry + 1) /\ heap[n].count = 0
  BY <1>0, <1>1, <1>4 DEF Entries, FreshInv
<1>6. Rows' = [m \in DOMAIN Rows \cup {n} |->
                 IF m = n THEN [pid |-> i, age |-> heap[n].age, count |-> 0] ELSE Rows[m]]
  BY <1>1, <1>2, <1>4, <1>5 DEF Rows
<1>7. {m \in DOMAIN Rows : Rows[m].pid = i} = Copies(i)
  BY DEF Rows, Copies
<1>8. Cardinality(Copies(i)) <= Cardinality(Clients)
  <2>1. /\ IsFiniteSet(Adders(i)) /\ Cardinality(Adders(i)) \in Nat /\ Cardinality(Copies(i)) \in Nat
        /\ Cardinality(Copies(i)) + Cardinality(Adders(i)) <= Cardinality(Threads)
    BY <1>1, FiniteCopies DEF IInv, CopiesInv
  <2>2. t \in Adders(i)
    BY <1>0, <1>1 DEF Adders
  <2>3. Cardinality(Adders(i)) # 0
    BY <2>1, <2>2, FS_EmptySet
  <2>4. Cardinality(Threads) = Cardinality(Clients) + 1 /\ Cardinality(Clients) \in Nat
    BY ListSyncAssumption, FS_AddElement, FS_CardinalityType DEF Threads
  <2> QED
    BY <2>1, <2>3, <2>4
<1>9. Table!Insert(n)
  <2>1. n \notin DOMAIN Rows /\ DOMAIN Rows = Linked(list)
    BY <1>2 DEF Rows
  <2>2. \E j \in Pids, a \in 0..(Expiry + 1) :
          /\ Cardinality({m \in DOMAIN Rows : Rows[m].pid = j}) <= Cardinality(Clients)
          /\ Rows' = [m \in DOMAIN Rows \cup {n} |->
                        IF m = n THEN [pid |-> j, age |-> a, count |-> 0] ELSE Rows[m]]
    <3> DEFINE b == heap[n].age
    <3>1. b \in 0..(Expiry + 1) /\ i \in Pids
      BY <1>1, <1>5
    <3>2. Cardinality({m \in DOMAIN Rows : Rows[m].pid = i}) <= Cardinality(Clients)
      BY <1>7, <1>8
    <3>3. Rows' = [m \in DOMAIN Rows \cup {n} |->
                    IF m = n THEN [pid |-> i, age |-> b, count |-> 0] ELSE Rows[m]]
      BY <1>6
    <3> HIDE DEF b
    <3> QED
      BY <3>1, <3>2, <3>3
  <2> QED
    BY <1>3, <2>1, <2>2, SameCount DEF Table!Insert, Rows, Phase, Using
<1> QED
  BY <1>2, <1>9 DEF Table!Next

\* remove_expired: what it deletes has expired.
LEMMA ExpireStep ==
  ASSUME IInv, RoleInv, NEW t \in Threads, RemoveEntry(t)
  PROVE  Table!Next
<1>0. PICK n : n = p[t]
  OBVIOUS
<1>1. pc[t] = "remove" /\ todo[t] # <<>> /\ state' = state /\ todo' = todo /\ pc' = pc
  BY DEF RemoveEntry, IInv, CallInv, Adding
<1>2. n \in DOMAIN Rows /\ n \in Linked(list) /\ Rows' = [m \in DOMAIN Rows \ {n} |-> Rows[m]]
  BY <1>0, RowGoes, DeleteList
<1>3. Phase' = Phase /\ Using' = Using /\ Phase = "in"
  BY <1>1, StepKept, PhaseOf
<1>4. heap[n].age > Expiry /\ heap[n].count < MinCount
  BY <1>0, ExpiresLate DEF RemoveEntry, Expired
<1>5. Rows[n].age > Expiry /\ Rows[n].count < MinCount
  BY <1>2, <1>4, RowOf
<1>6. Table!Remove(n)
  BY <1>2, <1>3 DEF Table!Remove, Rows, Phase, Using
<1>7. Table!Expire(n)
  BY <1>3, <1>5, <1>6 DEF Table!Expire, Rows, Phase
<1> QED
  BY <1>2, <1>7 DEF Table!Next, Rows

\* purge: only list_sync_exit does it.
LEMMA PurgeStep ==
  ASSUME IInv, RoleInv, NEW t \in Threads, PurgeEntry(t)
  PROVE  Table!Next
<1>0. PICK n : n = p[t]
  OBVIOUS
<1>1. /\ pc[t] = "purge" /\ todo[t] # <<>> /\ Head(todo[t]) = "purge"
      /\ state' = state /\ todo' = todo /\ pc' = pc
  BY DEF PurgeEntry, IInv, CallInv, Adding
<1>2. n \in DOMAIN Rows /\ Rows' = [m \in DOMAIN Rows \ {n} |-> Rows[m]]
  BY <1>0, RowGoes
<1>3. Phase' = Phase /\ Using' = Using
  BY <1>1, StepKept
<1>4. t = Sync /\ state[Sync] = "going"
  BY <1>1, PhaseOf
<1>5. Phase = "purging"
  BY <1>1, <1>4 DEF Phase
<1>6. Table!Remove(n)
  BY <1>2, <1>3 DEF Table!Remove, Rows, Phase, Using
<1>7. Table!Purge(n)
  BY <1>5, <1>6 DEF Table!Purge, Phase
<1> QED
  BY <1>2, <1>7 DEF Table!Next, Rows

\* The mark of list_sync_exit, on the last entry or on none.
LEMMA MarkTable ==
  ASSUME IInv, RoleInv, NEW t \in Threads, Mark(t)
  PROVE  [Table!Next]_(Table!all)
<1>1. /\ todo[t] # <<>> /\ Head(todo[t]) = "mark" /\ pc[t] = "ready" /\ Returns(t)
      /\ state' = state /\ list' = list
  BY DEF Mark, Begins
<1>2. Phase' = Phase /\ Using' = Using /\ Phase = "in" /\ Using = {}
  BY <1>1, ReturnKept, PhaseOf
<1>3. CASE list = <<>>
  <2>1. heap' = heap
    BY <1>3 DEF Mark
  <2> QED
    BY <1>1, <1>2, <2>1, TableFrame
<1>4. CASE list # <<>>
  <2>1. PICK n \in Linked(list) :
          /\ heap' = [heap EXCEPT ![n] = heap'[n]]
          /\ heap'[n].pid = heap[n].pid /\ heap'[n].age = heap[n].age
          /\ heap'[n].count = MaxCount
    BY <1>4, MarkEntry
  <2>2. Rows' = [Rows EXCEPT ![n] = [pid |-> heap[n].pid, age |-> heap'[n].age,
                                     count |-> heap'[n].count]]
    BY <1>1, <2>1, RowChanges
  <2>3. n \in DOMAIN Rows /\ Rows[n] = [pid |-> heap[n].pid, age |-> heap[n].age, count |-> heap[n].count]
    BY DEF Rows
  <2>4. Rows' = [Rows EXCEPT ![n].count = MaxCount]
    <3> DEFINE f == Rows
    <3>1. [f[n] EXCEPT !.count = MaxCount]
            = [pid |-> heap[n].pid, age |-> heap[n].age, count |-> MaxCount]
      <4> HIDE DEF f
      <4> QED
        BY <2>3 DEF f
    <3> HIDE DEF f
    <3>2. [f EXCEPT ![n].count = MaxCount]
            = [f EXCEPT ![n] = [pid |-> heap[n].pid, age |-> heap[n].age, count |-> MaxCount]]
      BY <3>1
    <3> QED
      BY <2>1, <2>2, <3>2 DEF f
  <2>5. Table!Mark(n)
    BY <1>2, <2>4 DEF Table!Mark, Rows, Phase, Using
  <2> QED
    BY <2>3, <2>5 DEF Table!Next, Rows
<1> QED
  BY <1>3, <1>4

\* Every entry grows older, linked or not.
LEMMA TickTable ==
  ASSUME IInv, Tick
  PROVE  Table!Next
<1>1. state' = state /\ todo' = todo /\ pc' = pc /\ list' = list
  BY DEF Tick
<1>2. Phase' = Phase /\ Using' = Using
  BY <1>1 DEF Phase, Using
<1>3. ASSUME NEW n \in Linked(list)
      PROVE  [pid |-> heap'[n].pid, age |-> heap'[n].age, count |-> heap'[n].count]
               = IF Rows[n].age <= Expiry THEN [Rows[n] EXCEPT !.age = @ + 1] ELSE Rows[n]
  <2>1. n \in Nodes /\ heap[n] # Nil /\ heap[n] \in Entries
    BY ListFacts DEF IInv, OwnInv, TypeOK
  <2>2. /\ heap'[n].pid = heap[n].pid /\ heap'[n].count = heap[n].count
        /\ heap'[n].age = heap[n].age + (IF heap[n].age <= Expiry THEN 1 ELSE 0)
    BY <2>1, TickEntries
  <2>3. heap[n].age \in Nat
    BY <2>1, ListSyncAssumption DEF Entries
  <2>4. Rows[n] = [pid |-> heap[n].pid, age |-> heap[n].age, count |-> heap[n].count]
    BY DEF Rows
  <2>5. CASE heap[n].age <= Expiry
    <3>1. Rows[n].age = heap[n].age /\ heap'[n].age = heap[n].age + 1
      BY <2>2, <2>4, <2>5
    <3> DEFINE r == Rows[n]
    <3> HIDE DEF r
    <3>2. [r EXCEPT !.age = @ + 1] = [pid |-> heap[n].pid, age |-> heap[n].age + 1, count |-> heap[n].count]
      BY <2>4 DEF r
    <3> QED
      BY <2>2, <2>5, <3>1, <3>2 DEF r
  <2>6. CASE ~(heap[n].age <= Expiry)
    <3>1. Rows[n].age = heap[n].age /\ heap'[n].age = heap[n].age
      BY <2>2, <2>3, <2>4, <2>6
    <3> QED
      BY <2>2, <2>4, <2>6, <3>1
  <2> QED
    BY <2>5, <2>6
<1>4. DOMAIN Rows = Linked(list)
  BY DEF Rows
<1>5. Rows' = [n \in Linked(list) |->
                [pid |-> heap'[n].pid, age |-> heap'[n].age, count |-> heap'[n].count]]
  BY <1>1 DEF Rows
<1>6. Rows' = [n \in DOMAIN Rows |->
                 IF Rows[n].age <= Expiry THEN [Rows[n] EXCEPT !.age = @ + 1] ELSE Rows[n]]
  <2> HIDE DEF Rows
  <2> QED
    BY <1>3, <1>4, <1>5
<1>7. Table!Tick
  BY <1>2, <1>6 DEF Table!Tick, Rows, Phase, Using
<1> QED
  BY <1>7 DEF Table!Next

\* Modules come and go: list-sync's own loading opens the table, that of its
\* users adds a user.
LEMMA ModuleStep ==
  ASSUME IInv, RoleInv, NEW t \in Threads, Insmod(t) \/ Rmmod(t) \/ EntryReturns(t)
  PROVE  [Table!Next]_(Table!all)
<1>1. /\ state \in [Threads -> {"out", "coming", "live", "going"}] /\ todo \in [Threads -> Seq(Calls)]
      /\ CallInv /\ UseInv /\ Sync \in Threads /\ t \in Clients \cup {Sync} /\ Clients \subseteq Threads
      /\ Sync \notin Clients
  BY ListSyncAssumption DEF IInv, TypeOK, Threads
<1>2. /\ pc' = pc /\ heap' = heap
      /\ \A u \in Threads : u # t => state'[u] = state[u] /\ todo'[u] = todo[u]
  BY <1>1 DEF Insmod, Rmmod, EntryReturns
<1>3. list' = list
  BY <1>1 DEF Insmod, Rmmod, EntryReturns, UseInv
<1>4. Rows' = Rows
  BY <1>2, <1>3 DEF Rows
<1>5. CASE t = Sync
  <2>1. Using' = Using
    BY <1>1, <1>2, <1>5 DEF Using
  <2>2. pc[Sync] = "ready"
    <3>1. todo[Sync] = <<>>
      BY <1>1, <1>5 DEF Insmod, Rmmod, EntryReturns, CallInv
    <3> QED
      BY <1>1, <3>1 DEF CallInv
  <2>3. CASE Insmod(t)
    <3>1. Phase = "out" /\ Phase' = "in"
      BY <1>1, <1>2, <1>5, <2>2, <2>3 DEF Insmod, Phase
    <3>2. Table!Load
      BY <1>4, <2>1, <3>1 DEF Table!Load, Rows, Phase, Using
    <3> QED
      BY <3>2 DEF Table!Next
  <2>4. CASE Rmmod(t)
    <3>1. state[Sync] = "live" /\ state'[Sync] = "going" /\ todo'[Sync] # <<>>
      BY <1>1, <1>5, <2>4 DEF Rmmod, ExitCalls
    <3>2. Phase' = Phase
      BY <1>2, <2>2, <3>1 DEF Phase
    <3> QED
      BY <1>2, <1>3, <2>1, <3>2, TableFrame
  <2>5. CASE EntryReturns(t)
    <3>1. /\ todo[Sync] = <<>> /\ todo' = todo
          /\ \/ state[Sync] = "coming" /\ state'[Sync] = "live"
             \/ state[Sync] = "going" /\ state'[Sync] = "out"
      BY <1>1, <1>5, <2>5 DEF EntryReturns
    <3>2. Phase' = Phase
      BY <1>2, <2>2, <3>1 DEF Phase
    <3> QED
      BY <1>2, <1>3, <2>1, <3>2, TableFrame
  <2> QED
    BY <2>3, <2>4, <2>5
<1>6. CASE t # Sync
  <2>1. Phase' = Phase /\ t \in Clients
    BY <1>1, <1>2, <1>6 DEF Phase
  <2>2. CASE Insmod(t)
    <3>1. state[Sync] = "live" /\ todo[Sync] = <<>> /\ pc[Sync] = "ready" /\ state'[t] = "coming"
      BY <1>1, <2>1, <2>2 DEF Insmod, CallInv
    <3>2. Phase = "in" /\ Using' = Using \cup {t}
      BY <1>1, <1>2, <2>1, <3>1 DEF Phase, Using
    <3>3. Table!Join(t)
      BY <1>4, <2>1, <3>2 DEF Table!Join, Rows, Phase, Using
    <3> QED
      BY <2>1, <3>3 DEF Table!Next
  <2>3. CASE Rmmod(t) \/ (EntryReturns(t) /\ state[t] = "coming")
    <3>1. state[t] # "out" /\ state'[t] # "out"
      BY <1>1, <2>3 DEF Rmmod, EntryReturns
    <3>2. Using' = Using
      BY <1>1, <1>2, <3>1 DEF Using
    <3> QED
      BY <1>2, <1>3, <2>1, <3>2, TableFrame
  <2>4. CASE EntryReturns(t) /\ state[t] # "coming"
    <3>1. state'[t] = "out"
      BY <1>1, <2>4 DEF EntryReturns
    <3>2. Using' = Using \ {t}
      BY <1>1, <1>2, <2>1, <3>1 DEF Using
    <3>3. Table!Leave(t)
      BY <1>4, <2>1, <3>2 DEF Table!Leave, Rows, Phase, Using
    <3> QED
      BY <2>1, <3>3 DEF Table!Next
  <2> QED
    BY <2>2, <2>3, <2>4
<1> QED
  BY <1>5, <1>6

\* Purging begins when nobody uses the list, and ends with an empty one.
LEMMA PurgeEnds ==
  ASSUME IInv, RoleInv, NEW t \in Threads, PurgeLock(t) \/ (WalkUnlock(t) /\ pc[t] = "purge")
  PROVE  Table!Next
<1>1. /\ todo[t] # <<>> /\ Head(todo[t]) = "purge" /\ state' = state /\ list' = list /\ heap' = heap
      /\ pc \in [Threads -> {"ready", "add_find", "add_alloc", "add_lock", "add_insert",
                             "print", "remove", "purge", "dead"}]
      /\ todo \in [Threads -> Seq(Calls)]
  BY DEF PurgeLock, WalkLock, Begins, WalkUnlock, IInv, CallInv, TypeOK, Adding
<1>2. t = Sync /\ state[Sync] = "going" /\ Using = {} /\ (pc[t] # "purge" => Phase = "in")
  BY <1>1, PhaseOf
<1>3. Rows' = Rows /\ Using' = Using
  BY <1>1 DEF Rows, Using
<1>4. CASE PurgeLock(t)
  <2>1. pc[Sync] = "ready" /\ pc'[Sync] = "purge" /\ todo' = todo
    BY <1>1, <1>2, <1>4 DEF PurgeLock, WalkLock, Begins, Goto
  <2>2. Phase = "in" /\ Phase' = "purging"
    BY <1>1, <1>2, <2>1 DEF Phase
  <2>3. Table!BeginPurge
    BY <1>2, <1>3, <2>2 DEF Table!BeginPurge, Rows, Phase, Using
  <2> QED
    BY <2>3 DEF Table!Next
<1>5. CASE WalkUnlock(t) /\ pc[t] = "purge"
  <2>1. todo[Sync] = <<"purge">>
    BY <1>1, <1>2, GoingHeads
  <2>2. todo'[Sync] = <<>>
    BY <1>1, <1>2, <1>5, <2>1 DEF WalkUnlock, Returns
  <2>3. Phase = "purging" /\ Phase' = "out"
    BY <1>1, <1>2, <1>5, <2>1, <2>2 DEF Phase
  <2>4. list = <<>>
    <3>1. First(list) = HEAD
      BY <1>5 DEF WalkUnlock, IInv, WalkInv
    <3> QED
      BY <3>1, ListFacts
  <2>5. Rows = <<>>
    BY <2>4, NoRows
  <2>6. Table!Unload
    BY <1>3, <2>3, <2>5 DEF Table!Unload, Rows, Phase, Using
  <2> QED
    BY <2>6 DEF Table!Next
<1> QED
  BY <1>4, <1>5

\* Every step of the module is a step of the table or leaves it alone.
LEMMA TableStep ==
  ASSUME IInv, RoleInv, FreshInv, [Next]_vars
  PROVE  [Table!Next]_(Table!all)
<1>1. ASSUME NEW t \in Threads, Insmod(t) \/ Rmmod(t) \/ EntryReturns(t)
      PROVE  [Table!Next]_(Table!all)
  BY <1>1, ModuleStep
<1>2. ASSUME NEW t \in Threads,
             \/ AddLock(t) \/ AddLockAgain(t) \/ PrintLock(t) \/ RemoveLock(t) \/ AddMiss(t) \/ AddOops(t)
             \/ PrintEntry(t) \/ KeepEntry(t)
      PROVE  [Table!Next]_(Table!all)
  <2>1. todo[t] # <<>> /\ state' = state /\ todo' = todo /\ list' = list /\ heap' = heap
    BY <1>2 DEF AddLock, AddLockAgain, PrintLock, RemoveLock, WalkLock, AddMiss, AddOops, PrintEntry,
       KeepEntry, Begins, Goto, IInv, CallInv
  <2>2. pc' = pc \/ (pc[t] # "purge" /\ \E l : l # "purge" /\ pc' = [pc EXCEPT ![t] = l])
    BY <1>2 DEF AddLock, AddLockAgain, PrintLock, RemoveLock, WalkLock, AddMiss, AddOops, PrintEntry,
       KeepEntry, Begins, Goto
  <2>3. Phase' = Phase /\ Using' = Using
    BY <2>1, <2>2, StepKept
  <2> QED
    BY <2>1, <2>3, TableFrame
<1>3. ASSUME NEW t \in Threads, task_info_alloc(t) PROVE [Table!Next]_(Table!all)
  <2>1. todo[t] # <<>> /\ state' = state /\ todo' = todo /\ list' = list /\ pc[t] # "purge"
        /\ pc' = [pc EXCEPT ![t] = "add_lock"]
    BY <1>3 DEF task_info_alloc, Goto, IInv, CallInv
  <2>2. Phase' = Phase /\ Using' = Using
    BY <2>1, StepKept
  <2>3. \A n \in Linked(list) : heap'[n] = heap[n]
    <3>1. \A n \in Linked(list) : n \in Nodes /\ heap[n] # Nil
      BY ListFacts DEF IInv, OwnInv
    <3> QED
      BY <1>3, <3>1 DEF task_info_alloc, IInv, TypeOK
  <2> QED
    BY <2>1, <2>2, <2>3, TableFrame
<1>4. ASSUME NEW t \in Threads, PrintUnlock(t) \/ Sleep(t) \/ (WalkUnlock(t) /\ pc[t] # "purge")
      PROVE  [Table!Next]_(Table!all)
  <2>1. /\ todo[t] # <<>> /\ state' = state /\ Returns(t) /\ list' = list /\ heap' = heap
        /\ pc[t] # "purge" /\ Head(todo[t]) # "purge"
    BY <1>4 DEF PrintUnlock, Sleep, WalkUnlock, Begins, IInv, CallInv, Adding
  <2>2. Phase' = Phase /\ Using' = Using
    BY <2>1, ReturnKept
  <2> QED
    BY <2>1, <2>2, TableFrame
<1>5. ASSUME NEW t \in Threads, PurgeLock(t) \/ (WalkUnlock(t) /\ pc[t] = "purge")
      PROVE  [Table!Next]_(Table!all)
  BY <1>5, PurgeEnds
<1>6. ASSUME NEW t \in Threads,
             AddFound(t) \/ AddInsert(t) \/ RemoveEntry(t) \/ PurgeEntry(t) \/ Mark(t)
      PROVE  [Table!Next]_(Table!all)
  BY <1>6, FoundStep, InsertStep, ExpireStep, PurgeStep, MarkTable
<1>7. CASE Tick
  BY <1>7, TickTable
<1>8. CASE UNCHANGED vars
  <2>1. UNCHANGED <<state, todo, pc, list, heap>>
    BY <1>8 DEF vars
  <2> QED
    BY <2>1, TableFrame DEF Phase, Using
<1> QED
  BY <1>1, <1>2, <1>3, <1>4, <1>5, <1>6, <1>7, <1>8 DEF Next, Waits, Runs

\* list-sync implements the table of tasks, for any number of users at once:
\* entries change one at a time, and one that is listed stays until it was left
\* alone for more than 3 * HZ jiffies, however often jiffies wraps, or until
\* nobody uses the list and list_sync_exit purges it.
THEOREM TableImplemented == Spec => TableKept
<1>1. Init => Table!Init
  <2> SUFFICES ASSUME Init PROVE Table!Init
    OBVIOUS
  <2>1. Phase = "out" /\ Using = {}
    BY DEF Init, Phase, Using, Threads
  <2>2. Rows = <<>>
    BY NoRows DEF Init
  <2> QED
    BY <2>1, <2>2 DEF Table!Init, Rows, Phase, Using
<1>2. Init => RoleInv /\ FreshInv
  BY DEF Init, RoleInv, FreshInv
<1>3. IInv /\ RoleInv /\ [Next]_vars => RoleInv'
  BY RoleStep
<1>4. IInv /\ FreshInv /\ [Next]_vars => FreshInv'
  BY FreshStep
<1>5. IInv /\ RoleInv /\ FreshInv /\ [Next]_vars => [Table!Next]_(Table!all)
  BY TableStep
<1> QED
  BY Invariance, <1>1, <1>2, <1>3, <1>4, <1>5, PTL DEF Spec, TableKept, Table!Spec

-----------------------------------------------------------------------------
(* The lock is given back *)

\* If kmalloc succeeds, whoever comes back from it has an entry.
HandInv ==
  \A t \in Threads :
    /\ pc[t] # "dead"
    /\ pc[t] \in {"add_lock", "add_insert"} => ti[t] # Nil

\* Whoever holds the rwlock can go on without waiting: it is alive, has the entry
\* that it is about to link, and stands on a linked entry or at the end.
HolderGoesOn ==
  \A t \in Threads : t = writer \/ t \in readers =>
    \/ pc[t] = "add_find"
    \/ pc[t] = "add_insert" /\ ti[t] # Nil
    \/ pc[t] \in {"print", "remove", "purge"} /\ p[t] \in Linked(list) \cup {HEAD}

\* No step of another thread takes the entry away.
LEMMA HandStep ==
  ASSUME ~KmallocMayFail, IInv, HandInv, [Next]_vars
  PROVE  HandInv'
<1>m. /\ pc \in [Threads -> {"ready", "add_find", "add_alloc", "add_lock", "add_insert",
                             "print", "remove", "purge", "dead"}]
      /\ ti \in [Threads -> Nodes \cup {Nil}] /\ Nil \notin Nodes
  BY ListSyncAssumption DEF IInv, TypeOK
<1>0. UNCHANGED <<pc, ti>> => HandInv'
  BY DEF HandInv
<1>1. ASSUME NEW t \in Threads, NEW l, l \notin {"add_lock", "add_insert", "dead"},
             pc' = [pc EXCEPT ![t] = l], ti' = ti \/ ti' = [ti EXCEPT ![t] = Nil]
      PROVE  HandInv'
  BY <1>1, <1>m DEF HandInv
<1>2. ASSUME NEW t \in Threads,
             Insmod(t) \/ Rmmod(t) \/ EntryReturns(t) \/ PrintEntry(t) \/ RemoveEntry(t)
             \/ KeepEntry(t) \/ PurgeEntry(t)
      PROVE  HandInv'
  BY <1>2, <1>0 DEF Insmod, Rmmod, EntryReturns, PrintEntry, RemoveEntry, KeepEntry, PurgeEntry, adding
<1>3. ASSUME NEW t \in Threads,
             AddLock(t) \/ AddMiss(t) \/ PrintLock(t) \/ RemoveLock(t) \/ PurgeLock(t)
      PROVE  HandInv'
  <2>1. /\ \E l \in {"add_find", "add_alloc", "print", "remove", "purge"} : pc' = [pc EXCEPT ![t] = l]
        /\ ti' = ti
    BY <1>3 DEF AddLock, AddMiss, PrintLock, RemoveLock, PurgeLock, WalkLock, Goto, adding
  <2> QED
    BY <1>1, <2>1
<1>4. ASSUME NEW t \in Threads,
             AddFound(t) \/ AddInsert(t) \/ PrintUnlock(t) \/ WalkUnlock(t) \/ Sleep(t) \/ Mark(t)
      PROVE  HandInv'
  <2>1. pc' = [pc EXCEPT ![t] = "ready"] /\ (ti' = ti \/ ti' = [ti EXCEPT ![t] = Nil])
    BY <1>4 DEF AddFound, AddInsert, PrintUnlock, WalkUnlock, Sleep, Mark, Returns, adding
  <2> QED
    BY <1>1, <2>1
<1>5. ASSUME NEW t \in Threads, task_info_alloc(t) PROVE HandInv'
  <2>1. PICK n \in Nodes : ti' = [ti EXCEPT ![t] = n] /\ pc' = [pc EXCEPT ![t] = "add_lock"]
    BY <1>5 DEF task_info_alloc, Goto
  <2> QED
    BY <1>m, <2>1 DEF HandInv
<1>6. ASSUME NEW t \in Threads, AddLockAgain(t) PROVE HandInv'
  BY <1>6, <1>m DEF AddLockAgain, Goto, adding, HandInv
<1>7. ASSUME NEW t \in Threads, AddOops(t) PROVE HandInv'
  BY <1>7 DEF AddOops, HandInv
<1>8. CASE Tick \/ UNCHANGED vars
  BY <1>8, <1>0 DEF Tick, vars, adding
<1> QED
  BY <1>2, <1>3, <1>4, <1>5, <1>6, <1>7, <1>8 DEF Next, Waits, Runs

\* If kmalloc succeeds, nobody who holds the rwlock waits for anything, so that
\* everybody who waits for it waits for a thread that runs: the safety half of
\* CallsReturn.  A failed kmalloc breaks it: list_add on NULL kills the holder.
THEOREM HolderNeverStuck ==
  ASSUME ~KmallocMayFail PROVE Spec => []HolderGoesOn
<1>1. Init => HandInv
  BY DEF Init, HandInv
<1>2. IInv /\ HandInv /\ [Next]_vars => HandInv'
  BY HandStep
<1>3. IInv /\ HandInv => HolderGoesOn
  BY DEF IInv, LockInv, WalkInv, HandInv, HolderGoesOn
<1> QED
  BY Invariance, <1>1, <1>2, <1>3, PTL DEF Spec
=============================================================================
