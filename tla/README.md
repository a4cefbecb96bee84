# TLA+ specifications of the Device-Drivers repository

The repository is a collection of small Linux character drivers (`Drivers/`)
and kernel modules (`KernelModules/`). They share no code, but they share the
kernel: its locks, timers, lists, reference counts, module loader and device
numbers. Nearly everything that can go wrong is in that interaction, and that
is what is modelled.

Paths below are relative to the repository root.

## 1. Inventory

| Component | State | Operations | What is hard | What makes it correct |
|---|---|---|---|---|
| Keyboard driver `Drivers/kbd/kbd.c` | ring buffer (`buff`, `putIdx`, `getIdx`, `cnt`), spinlock | `kbd_open/read/write/release`, `kbd_irq_handler`, `kbd_init/exit` | the handler interrupts a thread that uses the buffer, or runs beside it on another CPU; `cnt` is a read-modify-write in both | mutual exclusion, no self-deadlock, coherent indices and count, keys in order |
| Synchronized list `KernelModules/list-sync-mod/list-sync.c` and its client `list-sym-mod/list-sym.c` | list of `task_info`, rwlock, timestamps, counts | exported `add_for_current`, `print_list`, `remove_expired`; `purge_list`; init and exit of both modules | several modules use one list; the lock is dropped between search and insertion; `jiffies` wraps; allocation fails | no leak, no use after free, no early expiry, everything freed at exit, calls return |
| Deferred timer `Drivers/deferredTimer/kernel/timer.c` | `flag`, timer, work item, list of monitored tasks, spinlock | ioctls SET, ALLOC, MONITOR, CANCEL; `timer_handler`; `work_handler`; init, exit | softirq, worker, several threads and rmmod meet on one flag and one list; task references | references balanced, handler serves the right request, complete sweeps, nothing left after unload |
| Character device `Drivers/so2_cdev/kernel/so2_cdev.c` | message buffer, `msg_len`, `isOpen` | open, read, write, release, init, exit | threads share the one open file, so `strlen` and the copies race; user pages fault half way | no access outside the buffer, one opener, no stale bytes |
| Mapping drivers `Drivers/memory`, `Drivers/nonConMemory` | reserved pages, cdev, `/proc` entry | init, exit, open, mmap, `/proc` show | failure half way through init or mmap; threads that map while `/proc` sums up; removal while mapped (no `.owner`) | mappings show exactly the reserved pages; exact sum; no leaked reference |
| Loading of the five drivers (all register 42:0) | device number, cdevs, I/O ports, IRQ | the five init and five exit functions | failure labels, results that nobody looks at, competition for one number, ports owned by another driver | one live driver, which holds what it registered; no cdev without its number, clean exit |
| Packet filter `KernelModules/packet-mod` with its user program | filter address | netfilter hook, ioctl, init, exit; open, filter, connect | hooks read the address while ioctls copy into it | exactly the connections to the address that is set are reported; nothing enters the freed module |
| Socket modules `tcp-mod`, `udp-mod` | `sock`, `new_sock`, the kernel's sockets | init, exit: create, bind, listen, accept, getname, sendmsg | every call may fail, each with its own label; a socket left behind keeps the port | sockets released exactly once |
| `deferred-mod` | self-arming timer | callback, init, exit | the callback arms the timer while exit deletes it | no callback after unload; ticks while loaded |
| `kernel-Lists-mod`, `kernel-Lists-full-mod`, `kernelMemory-mod`, `kernelAlloc-mod` | lists of `taskInfo`, four locals, a buffer; the shared heap | init, exit, expiry in `list-full` | an allocation fails half way; a wrapping `jiffies`; a count nobody set | freed exactly once; every ancestor listed |
| `sched-spin-mod`, `hello-1`, `multi-mod`, `error-mod`, `cmd-mod`, `proc-info-mod`, `kernel-oops-mod` | none | print, add, fault on purpose | nothing | nothing to state |
| User programs of the drivers | none | one or two system calls each | nothing | they are the inputs of the models |

The drivers interact with each other only through the device number 42:0 and
the keyboard controller's ports; `list-sym` calls `list-sync` through exported
symbols. Everything else is interaction with the kernel: system calls of
several threads, interrupts, softirqs, workers and the module loader.

## 2. Modules

| Module | Models | Proofs | TLC |
|---|---|---|---|
| `Kbd` | `kbd.c`: buffer, lock, handler, file operations | `KbdProofs` | `MCKbd` |
| `KeyStore` | abstract: what the readers of the keyboard driver rely on | `KbdProofs` | through `Kbd` |
| `ListSync` (with `KernelList`) | `list-sync.c` and client modules such as `list-sym.c` | `ListProofs`, `KernelListProofs` | `MCListSync` |
| `TaskTable` | abstract: what the users of list-sync rely on | `ListProofs` | through `ListSync` |
| `DeferredTimer` (with `KernelList`) | `timer.c` | `TimerProofs`, `KernelListProofs` | `MCDeferredTimer` |
| `So2Cdev` | `so2_cdev.c` | `So2Proofs` | `MCSo2Cdev` |
| `DriverLoad` | init and exit of all five drivers, composed | `AllProofs` | `MCAllModules` |
| `TaskMods` | `list.c`, `list-full.c`, `kernelMemory.c`, `kernelAlloc-mod.c` on one heap | `AllProofs` | `MCAllModules` |
| `SocketMods` | `tcpmod.c` and `udpmod.c` | `AllProofs` | `MCAllModules` |
| `DeferredMod` | `deferred.c` | `AllProofs` | `MCAllModules` |
| `AllModules` | the four above, composed | `AllProofs` | `MCAllModules` |
| `MemoryMap` | `memory.c` and `nonMemory.c`: open, mmap, `/proc` | `MemoryProofs` | `MCMemoryMap` |
| `PacketFilter` | `packet.c` and the user program | `PacketProofs` | `MCPacketFilter` |

**Conventions.** Every context that executes code (thread, handler, worker,
rmmod) has a program counter, and a step is what happens between two points at
which another context may be seen. A critical section is still split where the
code reads and writes, so that a missing lock shows. Locals are set back when
they are dead. Operators under the heading *Seeded fault* are mutated versions
of the definition that follows them: substituting one for its definition must
make TLC report the property it was written for, which shows that the property
depends on the code. No specification uses them.

**`Kbd`.** `lock`, `irqsOff` and `cpu` model `spin_lock_irqsave`: a thread
that disables interrupts is bound to a CPU; the handler enters only on a CPU
with interrupts enabled and suspends what runs there (`Runs`). `get_char` and
`put_char` are two steps each: the data and index, then the store of `cnt`.
`put_user` happens outside the lock and may fault (`RdFault`): the character
is then lost. Scancodes are decoded as in `get_ascii` and `is_key_press`. `keys` is a
history variable: the keys stored and neither read nor cleared.

**`KeyStore`** is the abstract specification that `Kbd` implements (`KeysKept`).
Its state is the number of stored keys, the key that is stored alone, and the
key that each reader has in hand. Readers take one key at a time and only what
is there, a key stored alone is the one that is taken, clearing takes effect at
once, and a reader passes on the key in its hand before it takes another. The
mapping takes `cnt` for the number of keys and the local `ch` of `kbd_read` for
`hand`, from the store of `cnt--` in `get_char` to the end of `put_user`. The
fairness of `PassOn` follows from the fairness of the reading thread. Which of
several stored keys is taken is not promised, since `put_char` overwrites
(run `kbd_fifo`).

**`KernelList`.** A `list_head` list as the sequence of its nodes
(`include/linux/list.h`, external).

**`ListSync`.** A thread works through the calls of its module's init or exit
function (`todo`). Walks go entry by entry with the macros' pointers `p`, `q`;
a node carries its true `age` beside the wrapping timestamp. A client can be
loaded only when list-sync is live and pins it, as the module loader does. A
failed `kmalloc` is followed to the fault in `list_add` (`AddOops`), which
kills the thread with the lock held. `marked` is the local `ti` of
`list_sync_exit`: the entry before `head`, or `head` itself when the list is empty.

**`TaskTable`** is the abstract specification that `ListSync` implements
(`TableKept`). Its state is whether list-sync is out, in or purging, which
modules use it, and the table of entries: pid, true age, count. It has no lock,
no pointers, no walks and no wrapping clock. Entries are inserted, updated,
marked and removed one at a time; a pid has at most one copy per client
and one for list-sync itself; an entry leaves the table only when it is truly older than the expiry and
was not updated often, or in the purge, which begins when nobody uses the table
any more and ends with an empty one. The mapping takes the linked nodes for the
entries, the clients that are loaded for the users, and reads the phase off the
state of list-sync and the place it has reached in its exit function.

**`DeferredTimer`.** Flag and timer are written in two steps, `list_add` is a
load and a store, and `deferred_exit` is one step per kernel call. A task is
alive, dead, reaped (its pid is gone) and gone (the kernel's reference is
dropped). `del_timer` does not wait for a handler that has started, and the model
does not either. When a handler is still under way as `deferred_exit` walks the
list and frees it (`Overlap`), what follows is undefined behaviour: freed entries,
work that is queued again, code that is gone. The model follows the code up to
that state and stops there (`Undefined`), so what it says of an unload is said of
those without such a handler. Run `timer_exit` reaches the overlap.

**`So2Cdev`.** `strlen` and both copies go byte by byte; a call may use the
file's position (the VFS reads it before the call and stores it back after a
successful one) or its own, as `pread`/`pwrite` do. `copy_from_user` clears
what it could not copy.

**`DriverLoad`.** An init or exit function is the sequence of its kernel calls;
a failure replaces the rest by what follows the label it jumps to. The results of
`cdev_add` and `proc_create` are ignored by the code, so after their failure the
function goes on as if nothing had happened (`CdevAddFails`, `ProcCreateFails`), and a
driver can come to live without its cdev. Another driver of the keyboard
controller requests and releases ports.

**`TaskMods`.** `held` is what a module's pointers lead to: the list, the local
variables of `memoryInit`, or `kMemBuff`. Every `kmalloc` may fail. The loops
of the init and exit functions go entry by entry; walks that only read and
print, and `find_pid`, whose result is dropped, have no step of their own.
The count of `list-full` is incremented and never set, so whether it is
below 5 where it is read (`list-full.c:151`) is a free choice. Entries carry their true
age beside the wrapping timestamp; the clock is followed only while `list-full`
records or compares it.

**`SocketMods`.** One step per socket call, each with its failure. A socket is
closed, new, bound, listening or connected, and stays so when its module goes.
Nobody has to connect, so `accept` may wait for ever or be ended by a signal.

**`DeferredMod`.** The callback is entered, arms the timer and returns, in three
steps; `del_timer_sync` succeeds only when the callback is not running. An armed
timer stays on the CPU of its running callback, so two callbacks never overlap.

**`AllModules`.** Modules of one family compete (for 42:0, for ports, for
memory, for TCP ports), modules of two families share nothing. A behaviour
therefore picks a family and interleaves its modules, which covers what the
product of all four would show without its size.

**`MemoryMap`.** Which driver is loaded is chosen at insmod. `area` gives the
frame behind each page: consecutive ones for `kmalloc`, any for `vmalloc`.
mmap(2) calls the driver with the mm's lock held for writing and before the VMA
is in the tree (`pend`); `nonMemory.c` fills it page by page and may fail at any
of them. `memory_seq_show` takes a reference to the mm, takes the lock for
reading and walks the VMAs one by one. The process (start, clone, exit, munmap)
is external. Partial munmap and fork are not modelled.

**`PacketFilter`.** The hook runs in the context of its sender and reads the
address twice; `copy_from_user` stores it byte by byte and clears the rest when
it faults. The programs follow `main.cpp`: open, set the filter, connect to that
address, connect to another, close, or stop early when a call throws. `quiet`
and `loyal` are history variables that say whether an ioctl has interfered.

## 3. Runs

Passing runs:

| Run | Bounds | Shows |
|---|---|---|
| `kbd` | 2 threads, 2 CPUs, 2 slots, one press and its release, `cnt` up to 3, reads up to 2 | mutual exclusion, no self-deadlock, coherent indices, calls return, `Kbd` implements `KeyStore` |
| `list` | list-sync, 2 clients, 2 pids, 2 nodes, `jiffies` modulo 2, an expiry of 0, kmalloc may fail | ownership, safe walks, clean unload, the marked entry is still linked when the list is printed, `ListSync` implements `TaskTable` (so nothing expires early), every call returns unless a thread has died with the lock |
| `timer_safety` | 2 threads, 2 tasks, 2 nodes | types (an armed timer has a request type), ownership, balanced references, complete sweeps, living tasks stay monitored, clean unload (up to an overlap) |
| `timer_live` | 1 thread, 1 task, 2 nodes | ioctls, handler and work end, a timer that is not armed again and again is served, unloading ends (or meets an overlap) |
| `so2` | 2 threads, 2 files, 3-byte buffer, sizes up to 3 | memory safety, one opener, no stale tail, position inside |
| `load` | drivers: all five and another owner of the ports; task modules: 4 objects, 3 ancestors, 2 modules loaded at a time, `jiffies` modulo 3; both socket modules with 4 sockets; the self-arming timer | no cdev without its number, clean exit, a live driver holds its number, interrupt and pages and is the only one; objects and sockets owned and released exactly once, apart from the leaks below; every ancestor listed; the timer ticks while loaded, never after, and can be unloaded |
| `memory` | 2 threads and a kernel thread, 2 files, 2 pages, mappings of up to 3, 3 places for VMAs, 4 frames | a mapping shows exactly the area, `/proc` sums up one moment, no reference to the mm is lost |
| `packet` | 2 programs, one other sender, addresses of 2 bytes | hooks report exactly the matching connections, programs see theirs and only theirs, clean unload |

Runs that end in a violation, because the code does not do what a line of the
repository says:

| Run | The repository says | The code |
|---|---|---|
| `kbd_fifo` | `kbd.c:49` "Retrieve the next character from the circular buffer" | `put_char` (`kbd.c:184`) stores at `getIdx`: a second key overwrites the first |
| `list_once` | `list-sync.c:81` "Add a PID to the list, or update its timestamp if already present" | the lock is given up between the search and the insertion (`:101`): two clients both find nothing and both insert the pid |
| `list_mark` | `list-sync.c:211` "marking one entry" | a client's exit can empty the list; `list_sync_exit` (`:217`) then writes through `head.prev` of an empty list |
| `timer_exit` | `timer.c:91` "CRITICAL SECTION" | `del_timer` (`:211`) does not wait for a running handler; the exit function frees the list under it |

**Why the bounds are enough.** Two threads and one handler (or two clients and
list-sync) are the smallest instances in which every pair of contexts
competes while a third is there to disturb. Two slots and `cnt` up to 3
make both indices wrap and the buffer overfill. Two
nodes are enough for two pids, for the same pid twice, and for running out. In
`list`, `jiffies` modulo 2 with an expiry of 0 is the smallest clock that can tell
an expired entry from one that is not, on either side of the wrap; in `load`,
modulo 3 with an expiry of 1 also puts a timestamp and its deadline on different sides of
the wrap; the code's numbers (3·HZ, 2^64, four neighbours, a count of 5 or 10)
only scale it, and `TableImplemented` and `AncestorsAccounted` are proved for every
clock and expiry. `count` stays at `MaxCount`, since the code only compares it.
Three bytes hold an empty, a short and a full message. Areas of two pages and
requests of up to three have one length below, one at and one above the limit,
and two places besides the program's own let VMAs appear before and behind the
walk. Two-byte addresses can be torn; hooks of other senders only read, so one
of them is enough. In `Kbd`, `MaxCnt`
stops keys from arriving; nothing else reads it. Four heap objects hold a
complete list of three ancestors and one more, so that every allocation of a
second module can be the one that fails; the ancestors are `<<1, 0, 0>>`, a
module loaded by init, whose parent is process 0, its own parent, so that
`remove_expired` meets the pid it looks for more than once. Four sockets are one more
than the modules' three pointers, which leaves room for the one that leaks.

**Fairness.** Running code takes its next step (WF), and a context that spins or
needs a CPU gets it if it is available again and again (SF): the kernel's
spinlocks and rwlocks are queued and the scheduler is fair. A pending
timer expires unless it is armed again: `mod_timer` puts its time off, and ioctls
that go on arming it can do so for ever, so only `Expires \/ Arm` is fair (WF)
and `Progress` allows for it. A workqueue runs what is queued. Handler and
`deferred_exit` are fair until they overlap; from there the model says nothing. `del_timer_sync`
retries until it meets an idle callback, and there are two seconds between two
callbacks (SF on `DelTimerSync`). Nobody has to make
a system call, press a key, connect, or load or remove a module.

**Assumptions of the passing runs.**

- `EarlyOpen = FALSE` (`Kbd`): nobody opens the device between `cdev_add` and
  the end of `kbd_init`. The code does not prevent it: `spin_lock_init`
  (`kbd.c:270`) would open a lock that a reader holds. With `TRUE` TLC finds
  `MutualExclusion` violated.
- `DeferredTimer` ends where a handler overlaps with the walk of
  `deferred_exit`; run `timer_exit` shows that the code gets there. It is not an
  assumption about `del_timer`, but `CleanUnload` and the last part of `Progress`
  say nothing of such an unload.
- `LateReap = FALSE` (`DeferredTimer`): a task found by `pid_task` is not freed
  before `get_task_struct`, which the code does after `rcu_read_unlock`
  (`timer.c:47`, `:55`).
- After a failed allocation `list_add(NULL)` faults with the lock held
  (`list-sync.c:105`) and nobody returns any more. `CallsReturn` of `ListSync`
  therefore promises a return or the death of some thread; without a failed
  allocation nobody dies (`HolderNeverStuck`).
- `RemoveInUse = FALSE` (`MemoryMap`): nobody removes the module while a file is
  open or mapped. The code does not prevent it, as its `file_operations` have no
  `.owner` (`memory.c:73`, `nonMemory.c:146`). With `TRUE` TLC finds
  `MapsTheArea` violated: a mapping shows freed pages. Nor is the device opened
  between `cdev_add` and the allocation of the area.
- `DeferredTimer` admits no open before `deferred_init` has set up timer, lock
  and list; in `ListSync` clients are loaded when list-sync's init has returned.
- The softirq runs on another CPU than the thread that holds the timer's lock;
  `spin_lock_bh` (`timer.c:153`) provides it and is not modelled further.

**Further disagreements between code and comments**, seen while modelling and
not made into runs: `cnt` exceeds `BUFF_SIZE`, as `put_char` never checks for a
full buffer (`kbd.c:186`, against `:37` "Number of characters currently stored in
the buffer"); no init function looks at the result of `cdev_add`
(`kbd.c:269`, `so2_cdev.c:170`, `timer.c:188`, `memory.c:103`, `nonMemory.c:182`)
and `driver_initt` not at that of `proc_create` (`nonMemory.c:170`), so a driver can be loaded
and not be reachable, against `timer.c:198` "registered ... success";
`so2_read` and `so2_write` return the size asked for instead of the bytes moved
(`so2_cdev.c:91`, `:117`); `msg_len` stays 0 after init (`so2_cdev.c:171`);
`kbd_init` releases a port that another driver holds when its request for it
fails (`kbd.c:258`), and a `kbd_init` that succeeds runs on into the labels that
release both ports (`kbd.c:278`, against `:255` "request I/O ports" and `:305`
"releasing the I/O ports"); a timer that expires between the flag write
(`timer.c:132`) and `mod_timer` is handled with another request's flag (against
`timer.c:76` "routes the correct flag to trigger"); overlapping ioctls of the
packet filter can leave an address that nobody passed (`packet.c:65`);
the count of a `list-full` entry is one more than what the memory held before
(`list-full.c:78`, against `:58` "to mark the initial reference"), so an expired
entry may stay; `memoryInit` prints through a NULL pointer before its check
(`kernelMemory.c:67`, against `:57` "then frees the memory"), and what it had
allocated is lost; `NEW_SOCKET_FAILED` (`tcpmod.c:68`) releases `new_sock` and
leaves the listening socket open, which keeps the port taken for every later
load, and passes NULL to `sock_release` when `sock_create_lite` has failed;
the user program calls `ioctl` with `ALLOC` and no argument
(`timerDriver.cpp:26`), while `timer.c:144` computes the delay from it.
`HeapOwned` and `SocketsOwned` say exactly which leaks there can be, and that
there are no others.

## 4. Proofs

Every safety invariant that a run checks is proved, and so are the refinement of
`TaskTable`, the safety part of the refinement of `KeyStore`, and a few action
properties and invariants that only the proofs state.
The theorems hold for every value of the constants: any number of threads,
CPUs, slots, clients, pages, sockets, ancestors, heap objects; messages and
addresses of any width; every width of `jiffies`.

**From what.** The constants are constrained by the named assumptions of the
modules that declare them, which TLC evaluates in the runs. Most only keep model
values apart, so that no thread is called `Free` and no entry `Nil`
(`DeferredTimerAssumption`, `DriverLoadAssumption`, `SocketModsAssumption`,
`NoKeyAssumption`). The others say what the code's numbers satisfy: the clock is
wider than the expiry (`ListSyncAssumption`, `TaskModsAssumption`), buffers hold
something (`KbdAssumption`, `So2Assumption`), there are more frames than pages
(`MemoryMapAssumption`), there are at least three ancestors, of which the third
is the one that `list-full.c` looks for, and finitely many client modules. Some
theorems assume in addition what the code does not ensure, and say so in
their statement: `~EarlyOpen` (`KbdProofs`), `~RemoveInUse` (`MapsOnlyTheArea` only) and `~KmallocMayFail`
(`HolderNeverStuck` only). `LateReap` may have either value:
the references are balanced in both cases; that the task is still there when
the first one is taken is not claimed.

None of the properties is inductive by itself. Each module of proofs states an
inductive invariant as a conjunction of named parts, shows for each part that
every action preserves it, and derives the properties from the whole.

**`KbdProofs`**: `IInv` is the conjunction of

- `TypeOK`;
- `PcInv`: threads are at thread locations and the handler at its own; nobody
  is inside the driver before it is live;
- `LockInv`: a context is between lock and unlock exactly when `lock` names it;
- `CpuInv`: a thread with interrupts disabled is bound to a CPU of `irqsOff`
  that it shares with no other context, so the handler cannot be there;
- `DataInv`: `cnt`, the indices and the history agree, with the correction for
  a context that has moved an index and not yet stored `cnt`.

From it follow `TypeCorrect`, `Exclusion`, `SelfDeadlockFree` and
`BufferCoherent`. The ring arithmetic rests on the lemmas `DivMod`,
`ModUnique` and `ModAdd`. `StoreImplemented` is the refinement
`Spec => Store!SafeSpec`, action by action. It needs one more invariant,
`HandInv`: between the two halves of `get_char` the reader already has the key
that it is about to take, if that key is alone.

Two more theorems say what the lock is for. `RingUnderLock`: every step that
changes the ring is a step of the lock's holder, or the removal of the module
with nobody inside. `HolderUndisturbed`: the holder is never suspended by the
handler. It is the safety half of `CallsReturn`: those who spin wait for somebody
who runs.

**`So2Proofs`**: `IInv` is the conjunction of

- `TypeOK`, `PositionInside`, `SingleFile`;
- `Terminated`: the last byte of `msg` is always NUL. No write reaches it with
  anything else, and this is why an unsynchronized `strlen` stops;
- `CallInv`: what each location implies for `lenOfStr`, `n`, `i`, `offset`;
- `TailInv`: as long as no write overlaps, the prefix measured is still there.

From it follow `TypeCorrect`, `MemorySafe`, `Exclusive`, `TailHidden` and
`PositionBounded`.

**`KernelListProofs`** holds lemmas only: what linking in front, unlinking and
stepping to the successor do to the elements, the order and the length of a
list without repetition. `ListProofs` and `TimerProofs` cite them.

**`ListProofs`**:

- `CallInv`, `LockInv`: where a thread can be, and that who is in a critical
  section holds the rwlock, also a thread that has died there;
- `OwnInv`, `PidInv`: an entry is linked once or in the hands of one thread;
- `WalkInv`: the pointers of a walk lead to linked entries, and the saved
  successor is the successor. It holds because a walk that unlinks excludes
  every other;
- `UseInv`: list-sync is loaded as long as a client uses it, and its exit
  function works alone; the last of its calls empties the list;
- `MarkInv`: from marking to printing, the entry that was marked is linked and has
  the count that keeps it from expiring;
- `AgeInv`: up to the expiry, the timestamp tells the true age with at most one
  wrap-around between them. This is what makes a wrapping subtraction sound;
- `CopiesInv`: a pid is listed, or about to be, at most once per thread that can
  add it. A search that fails found no copy, so only threads that add the pid
  count, and an insertion turns one of them into a copy. (That it is listed once
  is false: run `list_once`.)

Theorems: `TypeCorrect`, `EntriesOwned`, `WalksOnLinked`, `UnloadsClean`,
`MarkPrinted`, `TableImplemented`, `HolderNeverStuck`.

`TableImplemented` is the refinement `Spec => Table!Spec`, in which every step is
a step of the table or leaves it alone. It needs two more invariants: `RoleInv`
(which module makes which calls, so that only list-sync marks and purges) and
`FreshInv` (an entry not yet linked has count 0). `AgeInv` is what turns the code's
test on wrapping timestamps into the table's test on true ages, and
`CopiesInv` what gives the table its bound on copies.

`HolderNeverStuck` assumes that `kmalloc` succeeds and says that whoever holds the
rwlock goes on without waiting; its invariant `HandInv` says that a thread that
comes back from the allocation has an entry and that nobody is dead.

**`TimerProofs`**: `ModInv` (how far `deferred_exit` has come tells who can still
be at work), `FlagInv` (whoever is about to arm the timer has written the flag),
`LockInv`, `OwnInv`, `LocalInv`, `HandlerInv` (the saved successor is the
successor, and what was dead when the walk began is still ahead of it), `ExitInv`
and `RefInv` (references are the entries that point to the task, and the
kernel's). Theorems: `TypeCorrect`, `EntriesOwned`, `ReferencesBalanced`,
`SweepsAll`, `UnloadsClean` and the action property `LivingStayMonitored`: the
entry of a living task stays in the list, unchanged, until `deferred_exit` frees
all of it. All are theorems of `Spec`, without an assumption on the handler;
`UnloadsClean` speaks of unloads that no handler overlaps with.

**`PacketProofs`**: `ModInv` (who can be inside in each phase of the module's
life), `ConnectInv`, `HookInv` (what a hook knows between its two reads of the
address), `LoyalInv` (while no other ioctl interferes, the bytes copied so far
are those of the program's address) and `CopyInv`. Theorems: `TypeCorrect`,
`HooksExact`, `OwnConnectionSeen`, `UnloadClean`.

**`MemoryProofs`** has three invariants. That of the mm (`MmTypes`, `AreaInv`,
`LockInv`, `AliveInv`, `UserInv`: `mm_users` counts the threads and those of
them that show the `/proc` file) needs no assumption about removal; it gives
`MmReleased` and the action property `WalkSeesOneMoment`: no step changes the
VMAs under a walk. That of the mappings (`UseInv`, `VmaInv`, `PendInv`: what is
mapped so far is a prefix of the area, in order, and there is at least one page
to go) needs `~RemoveInUse` and gives `MapsOnlyTheArea`. That of the walk (`ShowInv`)
says that what a reader has added up and what is still ahead of it make up the
whole, and gives `WalkSumsUp`, which is `SumExact`. The sum is a fold over a finite
set, whose value the prover cannot compute by induction. The lemmas about it
(`SumUnfolds` to `SumSupport`) take a smallest counterexample instead, from the
library's theorems that strict inclusion of finite sets and `<` on the naturals are
well-founded: a set to which no sum belongs, or two, would have a smaller one.

**`AllProofs`** is about the specification `AllSpec`, in four parts:

- `TimerGone`: `NoLateCallback` of the self-arming timer is inductive as it is;
- `SocketsReleased`, from `PlaceInv` (what each place in the init functions
  says about the pointers), `OwnInv` (no two pointers lead to one socket) and
  `LossInv` (what is lost is a single listening socket, and why no second one
  can be);
- `CdevServesItsOwner`, `ExitLeavesNothing` and `LiveHoldsNumber`, from an invariant
  per driver: which calls can still be ahead of it (`CallsInv`, `OrderInv`) and
  that what it holds is what the calls behind it have acquired (`ComingInv`,
  `GoingInv`, `RestInv`). A step of one driver leaves the invariants of the
  other four alone (`OthersInv`);
- `ObjectsOwned` and `AncestorsAccounted`, from `TaskInv`. `kmalloc` and `kfree`
  come with one pointer more or less (`Grows`, `Shrinks`), whatever module and
  place they happen at, and everything about ownership is derived from these two
  shapes: `UsedInv`, `OnceInv`, `NullInv`, `LostInv`. `LenInv` and `CountInv`
  count entries and missing ancestors, and `ListedInv` says that an entry is
  there for each ancestor that is not missing. `ClockInv` ties an entry's true
  age to the wrapping clock; without it the history `missing` would say nothing
  about what `remove_expired` takes out.

**Only model-checked.** Liveness (`CallsReturn`, `Progress`, `TimerLives`) and
the fairness part of the refinement `KeysKept`, since the prover has no rules for
fairness. `HolderUndisturbed` and `HolderNeverStuck` prove the part of `CallsReturn`
that is about states. The four properties of the violation runs are false of the
code.

## 5. Not modelled

- `sched-spin-mod` sleeps under a spinlock on purpose, to show the kernel's
  warning; it keeps no state.
- `hello-1`, `multi-mod`, `error-mod`, `cmd-mod`, `proc-info-mod` and
  `kernel-oops-mod` print, add two numbers or fault on purpose.
- The user programs of the timer and mapping drivers make a few system calls,
  which are inputs of the models; the program of `so2_cdev` is an empty file.
  (The packet filter's program is modelled.)
- A task freed between `rcu_read_unlock` and `get_task_struct` (`timer.c:55`) is
  in the model of `DeferredTimer` and excluded from its runs by `LateReap`.
- Log messages, formats and device names are left out everywhere.

No part of the repository that keeps state is left.

## 6. What is left

The models cover all parts that keep state; every safety property of the passing
runs is proved. What could still be added:

1. The clock argument of `AgeInv` (`ListSync`) and `ClockInv` (`TaskMods`), stated
   once for both.
2. Abstract specifications for `MemoryMap` (an address space that is read at one
   moment) and `DeferredTimer` (a set of monitored tasks). `WalkSeesOneMoment`,
   `WalkSumsUp`, `SweepsAll` and `LivingStayMonitored` are the facts that their
   refinement would rest on.
3. Runs that follow `EarlyOpen`, `LateReap` and `RemoveInUse` through, if the code
   is changed to exclude what they stand for.
