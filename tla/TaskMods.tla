----------------------------- MODULE TaskMods -----------------------------
(***************************************************************************)
(* The four modules that do nothing but allocate and free, on one kernel   *)
(* heap:                                                                   *)
(*   list  KernelModules/kernel-Lists-mod/list.c                           *)
(*   full  KernelModules/kernel-Lists-full-mod/list-full.c                 *)
(*   mem   KernelModules/kernelMemory-mod/kernelMemory.c                   *)
(*   buf   KernelModules/kernelAlloc-mod/kernelAlloc-mod.c                 *)
(* The first three record the process that loads them and its ancestors.   *)
(* held is what a module's pointers lead to: the list behind head, the     *)
(* local variables of memoryInit, or kMemBuff.  A module's list is used by *)
(* its own init and exit only; what they share is the heap.  Walks that    *)
(* only read and print are part of the step that follows them.             *)
(***************************************************************************)
EXTENDS Integers, Sequences, FiniteSets, SequencesExt

CONSTANTS
  Ancestors,   \* pids of the process, its parent, and so on: 4 in the code
  MaxObjects,  \* bound: kmalloc fails when so many are in use
  MaxLoaded,   \* bound: modules that are loaded at a time
  W,           \* jiffies is an unsigned long: arithmetic modulo W
  Expiry       \* 3 * HZ

ASSUME TaskModsAssumption ==
  /\ Ancestors \in Seq(Nat) /\ Len(Ancestors) >= 3
  /\ MaxObjects \in Nat /\ MaxLoaded \in Nat
  /\ Expiry \in Nat /\ W \in Nat /\ W > Expiry + 1

VARIABLES
  run,       \* where each module's thread is; "dead": it has faulted
  next,      \* the ancestor, or the list entry, that a loop has come to
  held,
  heap,      \* the content of each object, or NoObject
  jiffies,
  missing    \* history: ancestors without an entry, for a reason

taskVars == <<run, next, held, heap, jiffies, missing>>

Lists       == {"list", "full"}
TaskModules == Lists \cup {"mem", "buf"}
Objects     == 1..MaxObjects
NullPtr     == 0
NoObject    == [who |-> 0, ts |-> 0, age |-> 0]

Goes(m, where) == run' = [run EXCEPT ![m] = where]

\* insmod asks for the module and finds it not loaded.
MayLoad(m) ==
  /\ run[m] = "out"
  /\ Cardinality({n \in TaskModules : run[n] # "out"}) < MaxLoaded

-----------------------------------------------------------------------------
(* kmalloc and kfree *)

Unused == {o \in Objects : heap[o] = NoObject}

\* kmalloc returns o, which is then filled.
kmalloc(o, content) ==
  /\ o \in Unused /\ \A x \in Unused : o <= x
  /\ heap' = [heap EXCEPT ![o] = content]

kfree(o) == heap' = [heap EXCEPT ![o] = NoObject]

\* remove_expired of full compares the time of these entries only.
Timed(m, i) == m = "full" /\ Ancestors[i] = Ancestors[3]

\* alloc_task_info: the entry of ancestor i, with its true age.  What is only
\* printed is left out.
Entry(m, i) ==
  [who |-> IF m \in Lists THEN i ELSE 1,
   ts  |-> IF Timed(m, i) THEN jiffies ELSE 0, age |-> 0]

-----------------------------------------------------------------------------
(* init_kernel_list, init_full_kernel_list, memoryInit *)

\* INIT_LIST_HEAD, or locals that are not set yet.  The clock is followed only
\* while full records the time or compares it.
TaskInsmod(m) ==
  /\ m # "buf"
  /\ MayLoad(m)
  /\ Goes(m, "alloc")
  /\ held' = [held EXCEPT ![m] = <<>>]
  /\ jiffies' \in IF m = "full" THEN 0..(W - 1) ELSE {jiffies}
  /\ UNCHANGED <<next, heap, missing>>

\* On to the next ancestor, or behind the last one: list has loaded, full
\* removes expired entries and memoryInit prints.
NextAlloc(m) ==
  IF next[m] < Len(Ancestors)
  THEN next' = [next EXCEPT ![m] = @ + 1] /\ UNCHANGED run
  ELSE /\ next' = [next EXCEPT ![m] = 1]
       /\ Goes(m, CASE m = "list" -> "live" [] m = "full" -> "remove" [] m = "mem" -> "print")

task_info_add_for_current(m) ==
  /\ m \in Lists
  /\ run[m] = "alloc"
  /\ \E o \in Objects :
       /\ kmalloc(o, Entry(m, next[m]))
       /\ held' = [held EXCEPT ![m] = <<o>> \o @]
  /\ NextAlloc(m)
  /\ UNCHANGED <<jiffies, missing>>

\* kmalloc returns NULL, and the list goes on without the entry.
NotAdded(m) ==
  /\ m \in Lists
  /\ run[m] = "alloc"
  /\ NextAlloc(m)
  /\ missing' = [missing EXCEPT ![m] = @ \cup {next[m]}]
  /\ UNCHANGED <<held, heap, jiffies>>

\* memoryInit sets the next of its locals, perhaps to NULL.
MemAlloc ==
  /\ run["mem"] = "alloc"
  /\ \E o \in Objects \cup {NullPtr} :
       /\ IF o = NullPtr THEN UNCHANGED heap ELSE kmalloc(o, Entry("mem", next["mem"]))
       /\ held' = [held EXCEPT !["mem"] = Append(@, o)]
  /\ NextAlloc("mem")
  /\ UNCHANGED <<jiffies, missing>>

\* Seeded fault: the deadline is computed first, and wraps.
DeadlinePassed(e) == Timed("full", e.who) /\ jiffies > (e.ts + Expiry) % W

Expired(e) == Timed("full", e.who) /\ (jiffies - e.ts) % W > Expiry

Current(m) == held[m][next[m]]

\* task_info_remove_expired of full, at one entry of the list: it is unlinked
\* and freed, and the walk is at its successor ...
RemoveEntry ==
  /\ run["full"] = "remove"
  /\ next["full"] <= Len(held["full"])
  /\ LET e == heap[Current("full")] IN
       /\ Expired(e)
       /\ missing' = [missing EXCEPT !["full"] = IF e.age > Expiry THEN @ \cup {e.who} ELSE @]
  /\ kfree(Current("full"))
  /\ held' = [held EXCEPT !["full"] = RemoveAt(@, next["full"])]
  /\ UNCHANGED <<run, next, jiffies>>

\* ... or the entry stays.  An expired one does if its count is not below 5,
\* and the count is whatever kmalloc returned, plus one: nobody has set it.
KeepEntry ==
  /\ run["full"] = "remove"
  /\ next["full"] <= Len(held["full"])
  /\ next' = [next EXCEPT !["full"] = @ + 1]
  /\ UNCHANGED <<run, held, heap, jiffies, missing>>

\* From here on nobody reads the times but to print them.
RemoveEnds ==
  /\ run["full"] = "remove"
  /\ next["full"] > Len(held["full"])
  /\ run'  = [run EXCEPT !["full"] = "live"]
  /\ next' = [next EXCEPT !["full"] = 1]
  /\ heap' = [o \in Objects |-> IF Contains(held["full"], o)
                                THEN Entry("list", heap[o].who) ELSE heap[o]]
  /\ jiffies' = 0
  /\ UNCHANGED <<held, missing>>

\* memoryInit prints its four structures before it looks for NULL.
MemPrint ==
  /\ run["mem"] = "print"
  /\ ~Contains(held["mem"], NullPtr)
  /\ run' = [run EXCEPT !["mem"] = "free"]
  /\ UNCHANGED <<next, held, heap, jiffies, missing>>

\* The first NULL faults; the thread dies with its local variables.
MemOops ==
  /\ run["mem"] = "print"
  /\ Contains(held["mem"], NullPtr)
  /\ run'  = [run EXCEPT !["mem"] = "dead"]
  /\ held' = [held EXCEPT !["mem"] = <<>>]
  /\ UNCHANGED <<next, heap, jiffies, missing>>

-----------------------------------------------------------------------------
(* Freeing: at the end of memoryInit and in the exit functions of the lists *)

\* exit_kernel_list and exit_full_kernel_list: what they print first is theirs.
ExitList(m) ==
  /\ m \in Lists
  /\ run[m] = "live"
  /\ Goes(m, "free")
  /\ UNCHANGED <<next, held, heap, jiffies, missing>>

\* Seeded fault: the object is freed and stays linked.
FreeLinked(m) ==
  /\ run[m] = "free"
  /\ next[m] <= Len(held[m])
  /\ kfree(Current(m))
  /\ next' = [next EXCEPT ![m] = @ + 1]
  /\ UNCHANGED <<run, held, jiffies, missing>>

\* list_del and kfree of the first entry, or kfree of the next local.
FreeFirst(m) ==
  /\ run[m] = "free"
  /\ held[m] # <<>>
  /\ kfree(Head(held[m]))
  /\ held' = [held EXCEPT ![m] = Tail(@)]
  /\ UNCHANGED <<run, next, jiffies, missing>>

FreeEnds(m) ==
  /\ run[m] = "free"
  /\ held[m] = <<>>
  /\ Goes(m, IF m = "mem" THEN "live" ELSE "out")
  /\ missing' = [missing EXCEPT ![m] = {}]
  /\ UNCHANGED <<next, held, heap, jiffies>>

memoryExit ==
  /\ run["mem"] = "live"
  /\ Goes("mem", "out")
  /\ UNCHANGED <<next, held, heap, jiffies, missing>>

-----------------------------------------------------------------------------
(* kernelAlloc-mod *)

\* If kmalloc fails, allocBuff returns -ENOMEM and nothing is loaded.
allocBuff ==
  /\ MayLoad("buf")
  /\ \E o \in Objects :
       /\ kmalloc(o, Entry("buf", 1))
       /\ held' = [held EXCEPT !["buf"] = <<o>>]
  /\ Goes("buf", "live")
  /\ UNCHANGED <<next, jiffies, missing>>

exitKernelAlloc ==
  /\ run["buf"] = "live"
  /\ kfree(held["buf"][1])
  /\ held' = [held EXCEPT !["buf"] = <<>>]
  /\ Goes("buf", "out")
  /\ UNCHANGED <<next, jiffies, missing>>

-----------------------------------------------------------------------------
Tick ==
  /\ run["full"] \in {"alloc", "remove"}
  /\ jiffies' = (jiffies + 1) % W
  /\ heap' = [o \in Objects |->
       IF Contains(held["full"], o) /\ Timed("full", heap[o].who) /\ heap[o].age <= Expiry
       THEN [heap[o] EXCEPT !.age = @ + 1] ELSE heap[o]]
  /\ UNCHANGED <<run, next, held, missing>>

TaskInit ==
  /\ run     = [m \in TaskModules |-> "out"]
  /\ next    = [m \in TaskModules |-> 1]
  /\ held    = [m \in TaskModules |-> <<>>]
  /\ heap    = [o \in Objects |-> NoObject]
  /\ jiffies = 0
  /\ missing = [m \in TaskModules |-> {}]

TaskNext ==
  \/ \E m \in TaskModules :
       \/ TaskInsmod(m) \/ task_info_add_for_current(m) \/ NotAdded(m)
       \/ ExitList(m) \/ FreeFirst(m) \/ FreeEnds(m)
  \/ RemoveEntry \/ KeepEntry \/ RemoveEnds
  \/ MemAlloc \/ MemPrint \/ MemOops \/ memoryExit
  \/ allocBuff \/ exitKernelAlloc
  \/ Tick

-----------------------------------------------------------------------------
Owners(o) == {x \in TaskModules \X (1..Len(Ancestors)) :
                x[2] <= Len(held[x[1]]) /\ held[x[1]][x[2]] = o}

Orphans == {o \in Objects : heap[o] # NoObject /\ Owners(o) = {}}

\* Whatever fails and however the modules interleave, an object in use is
\* reached from exactly one pointer and a freed one from none, so nothing is
\* freed twice or read after it is freed, and what is not freed by an exit
\* function is freed by nobody.  Only memoryInit leaks, when it dies on a NULL
\* before its check (kernelMemory.c, line 67), and then fewer objects than it asked for.
HeapOwned ==
  /\ \A o \in Objects : Cardinality(Owners(o)) <= 1
  /\ \A o \in Unused : Owners(o) = {}
  /\ Orphans # {} => run["mem"] = "dead"
  /\ Cardinality(Orphans) < Len(Ancestors)

\* When init_kernel_list or init_full_kernel_list has returned, every ancestor
\* is listed exactly once, unless kmalloc failed for it or its entry had truly
\* been there for more than 3 * HZ, also if jiffies has wrapped meanwhile and
\* if two ancestors have the same pid, as the children of init do.
Accounted ==
  \A m \in Lists : run[m] = "live" =>
    /\ {heap[o].who : o \in ToSet(held[m])} = (1..Len(Ancestors)) \ missing[m]
    /\ Len(held[m]) + Cardinality(missing[m]) = Len(Ancestors)
=============================================================================
