------------------------------- MODULE Kbd -------------------------------
(***************************************************************************)
(* The keyboard driver, Drivers/kbd/kbd.c: a circular buffer filled by the *)
(* interrupt handler of IRQ 1 and drained by processes that read the       *)
(* character device.                                                       *)
(*                                                                         *)
(* Contexts of execution are the Threads inside read(2)/write(2) and the   *)
(* handler IRQ.  A thread that takes the spinlock with irqsave is bound to *)
(* a CPU until irqrestore; the handler runs on a CPU whose interrupts are  *)
(* enabled and suspends whatever runs there.  The read-modify-writes of    *)
(* cnt are two steps (load, store), so that the lock has something to      *)
(* protect.  A local variable that is dead is set back to its first value. *)
(***************************************************************************)
EXTENDS Naturals, Sequences

CONSTANTS
  BUFF_SIZE,   \* slots of the circular buffer
  Threads,     \* processes that use the device
  CPUs,
  Scancodes,   \* bytes that the keyboard controller delivers
  MaxCnt,      \* bound: no key arrives while cnt >= MaxCnt
  MaxRead,     \* bound: the largest size given to read(2)
  EarlyOpen,   \* may the device be opened before kbd_init has returned?
  IRQ, Free, NoCpu

ASSUME KbdAssumption ==
  /\ BUFF_SIZE \in Nat \ {0}
  /\ MaxCnt \in Nat
  /\ MaxRead \in Nat
  /\ Scancodes \subseteq 0..255
  /\ EarlyOpen \in BOOLEAN
  /\ IRQ \notin Threads
  /\ Free \notin Threads \cup {IRQ}
  /\ NoCpu \notin CPUs

VARIABLES
  mod,       \* how far kbd_init has come
  opened,    \* threads that hold an open file
  buff, putIdx, getIdx, cnt,   \* struct kbd_dev
  lock,      \* the holder of kbd_dev.lock, or Free
  irqsOff,   \* CPUs whose interrupts are disabled
  pc,        \* where each context is
  cpu,       \* the CPU a context is bound to, or NoCpu
  size,      \* remaining bytes of each thread's read(2)
  ch,        \* local variable ch of kbd_read and of kbd_irq_handler
  tmp,       \* register of a context: the loaded cnt, or the scancode
  keys       \* history: the keys stored and neither read nor cleared

dev     == <<buff, putIdx, getIdx, cnt>>
locals  == <<size, ch, tmp>>
vars    == <<mod, opened, dev, lock, irqsOff, pc, cpu, locals, keys>>

Contexts == Threads \cup {IRQ}
Slots    == 0..(BUFF_SIZE - 1)
Nul      == "NUL"   \* the initial byte of a static buffer

-----------------------------------------------------------------------------
(* Scancodes and indices *)

Row1 == <<"1","2","3","4","5","6","7","8","9","0">>
Row2 == <<"q","w","e","r","t","y","u","i","o","p">>
Row3 == <<"a","s","d","f","g","h","j","k","l">>
Row4 == <<"z","x","c","v","b","n","m">>

is_key_press(scancode) == (scancode \div 128) % 2 = 0

get_ascii(scancode) ==
  LET s == scancode % 128   \* scancode &= ~SCANCODE_RELEASED_MASK
  IN  CASE s \in 2..11  -> Row1[s - 1]
        [] s \in 16..25 -> Row2[s - 15]
        [] s \in 30..38 -> Row3[s - 29]
        [] s \in 44..50 -> Row4[s - 43]
        [] s = 57       -> " "
        [] s = 28       -> "\n"
        [] OTHER        -> "?"

Chars == {get_ascii(s) : s \in 0..255} \cup {Nul}

ASSUME NoKeyAssumption == Free \notin Chars

\* Seeded fault: the index runs past the end of the buffer.
AdvanceNoWrap(i) == IF i = BUFF_SIZE THEN 0 ELSE i + 1

Advance(i) == (i + 1) % BUFF_SIZE

-----------------------------------------------------------------------------
(* Spinlocks and interrupts *)

\* A context runs unless the handler has interrupted its CPU.
Runs(x) == x = IRQ \/ cpu[x] = NoCpu \/ cpu[x] # cpu[IRQ]

\* Seeded fault: spin_lock where the code has spin_lock_irqsave.
NoIrqSave(t, next) ==
  \E c \in CPUs :
    /\ \A x \in Contexts : cpu[x] # c
    /\ cpu' = [cpu EXCEPT ![t] = c]
    /\ pc'  = [pc EXCEPT ![t] = next]
    /\ UNCHANGED irqsOff

\* The first half of spin_lock_irqsave: the thread, on whatever CPU it is
\* now, disables preemption and interrupts and starts to spin.
LocalIrqSave(t, next) ==
  \E c \in CPUs :
    /\ \A x \in Contexts : cpu[x] # c
    /\ cpu' = [cpu EXCEPT ![t] = c]
    /\ pc'  = [pc EXCEPT ![t] = next]
    /\ irqsOff' = irqsOff \cup {c}

\* Seeded fault: a lock that lets everybody in.
NoMutex(x, from, to) ==
  /\ pc[x] = from
  /\ Runs(x)
  /\ lock' = x
  /\ pc'   = [pc EXCEPT ![x] = to]
  /\ UNCHANGED <<mod, opened, dev, irqsOff, cpu, locals, keys>>

\* The spinning ends: the context holds the lock.
Acquire(x, from, to) ==
  /\ pc[x] = from
  /\ Runs(x)
  /\ lock = Free
  /\ lock' = x
  /\ pc'   = [pc EXCEPT ![x] = to]
  /\ UNCHANGED <<mod, opened, dev, irqsOff, cpu, locals, keys>>

\* spin_unlock_irqrestore
UnlockIrqRestore(t, next) ==
  /\ lock'    = Free
  /\ irqsOff' = irqsOff \ {cpu[t]}
  /\ cpu'     = [cpu EXCEPT ![t] = NoCpu]
  /\ pc'      = [pc EXCEPT ![t] = next]

-----------------------------------------------------------------------------
(* kbd_open, kbd_release *)

MayOpen == mod = "live" \/ (EarlyOpen /\ mod \in {"added", "lockReady"})

kbd_open(t) ==
  /\ MayOpen
  /\ t \notin opened
  /\ opened' = opened \cup {t}
  /\ UNCHANGED <<mod, dev, lock, irqsOff, pc, cpu, locals, keys>>

kbd_release(t) ==
  /\ t \in opened
  /\ pc[t] = "user"
  /\ opened' = opened \ {t}
  /\ UNCHANGED <<mod, dev, lock, irqsOff, pc, cpu, locals, keys>>

-----------------------------------------------------------------------------
(* kbd_read *)

kbd_read(t) ==
  /\ t \in opened
  /\ pc[t] = "user"
  /\ \E n \in 0..MaxRead : size' = [size EXCEPT ![t] = n]
  /\ pc' = [pc EXCEPT ![t] = "rd_loop"]
  /\ UNCHANGED <<mod, opened, dev, lock, irqsOff, cpu, ch, tmp, keys>>

\* while (size--): nothing is left to read and the call returns ...
RdDone(t) ==
  /\ pc[t] = "rd_loop"
  /\ size[t] = 0
  /\ pc' = [pc EXCEPT ![t] = "user"]
  /\ UNCHANGED <<mod, opened, dev, lock, irqsOff, cpu, locals, keys>>

\* ... or another character is asked for.
RdNext(t) ==
  /\ pc[t] = "rd_loop"
  /\ size[t] > 0
  /\ size' = [size EXCEPT ![t] = @ - 1]
  /\ LocalIrqSave(t, "rd_spin")
  /\ UNCHANGED <<mod, opened, dev, lock, ch, tmp, keys>>

RdLock(t) == Acquire(t, "rd_spin", "rd_get")

\* get_char: the character is fetched and getIdx advanced ...
GetCharTake(t) ==
  /\ pc[t] = "rd_get"
  /\ Runs(t)
  /\ cnt > 0
  /\ ch'     = [ch EXCEPT ![t] = buff[getIdx]]
  /\ getIdx' = Advance(getIdx)
  /\ tmp'    = [tmp EXCEPT ![t] = cnt]
  /\ pc'     = [pc EXCEPT ![t] = "rd_dec"]
  /\ UNCHANGED <<mod, opened, buff, putIdx, cnt, lock, irqsOff, cpu, size, keys>>

\* ... and cnt-- is stored.
GetCharDec(t) ==
  /\ pc[t] = "rd_dec"
  /\ Runs(t)
  /\ cnt'  = tmp[t] - 1
  /\ keys' = IF keys = <<>> THEN keys ELSE Tail(keys)
  /\ pc'   = [pc EXCEPT ![t] = "rd_more"]
  /\ tmp'  = [tmp EXCEPT ![t] = 0]
  /\ UNCHANGED <<mod, opened, buff, putIdx, getIdx, lock, irqsOff, cpu, size, ch>>

\* get_char returned false: unlock, leave the loop and return to user space.
RdEmpty(t) ==
  /\ pc[t] = "rd_get"
  /\ Runs(t)
  /\ cnt = 0
  /\ UnlockIrqRestore(t, "user")
  /\ size' = [size EXCEPT ![t] = 0]
  /\ UNCHANGED <<mod, opened, dev, ch, tmp, keys>>

\* get_char returned true: unlock and go on to put_user.
RdMore(t) ==
  /\ pc[t] = "rd_more"
  /\ Runs(t)
  /\ UnlockIrqRestore(t, "rd_put")
  /\ UNCHANGED <<mod, opened, dev, locals, keys>>

\* put_user, without the lock: the loop continues ...
RdPutUser(t) ==
  /\ pc[t] = "rd_put"
  /\ pc' = [pc EXCEPT ![t] = "rd_loop"]
  /\ ch' = [ch EXCEPT ![t] = Nul]
  /\ UNCHANGED <<mod, opened, dev, lock, irqsOff, cpu, size, tmp, keys>>

\* ... or the user's page is missing: -EFAULT, and the character is gone.
RdFault(t) ==
  /\ pc[t] = "rd_put"
  /\ pc'   = [pc EXCEPT ![t] = "user"]
  /\ ch'   = [ch EXCEPT ![t] = Nul]
  /\ size' = [size EXCEPT ![t] = 0]
  /\ UNCHANGED <<mod, opened, dev, lock, irqsOff, cpu, tmp, keys>>

-----------------------------------------------------------------------------
(* kbd_write *)

kbd_write(t) ==
  /\ t \in opened
  /\ pc[t] = "user"
  /\ LocalIrqSave(t, "wr_spin")
  /\ UNCHANGED <<mod, opened, dev, lock, locals, keys>>

WrLock(t) == Acquire(t, "wr_spin", "wr_reset")

\* Seeded fault: the clear forgets putIdx.
ForgetPutIdx ==
  /\ cnt' = 0
  /\ getIdx' = 0
  /\ UNCHANGED putIdx

reset_buffer ==
  /\ cnt' = 0
  /\ getIdx' = 0
  /\ putIdx' = 0

WrReset(t) ==
  /\ pc[t] = "wr_reset"
  /\ Runs(t)
  /\ reset_buffer
  /\ keys' = <<>>
  /\ pc'   = [pc EXCEPT ![t] = "wr_unlock"]
  /\ UNCHANGED <<mod, opened, buff, lock, irqsOff, cpu, locals>>

WrUnlock(t) ==
  /\ pc[t] = "wr_unlock"
  /\ Runs(t)
  /\ UnlockIrqRestore(t, "user")
  /\ UNCHANGED <<mod, opened, dev, locals, keys>>

-----------------------------------------------------------------------------
(* kbd_irq_handler.  The line is masked while its handler runs, so there is *)
(* one instance of the handler at a time.                                   *)

IrqEnter ==
  /\ mod = "live"
  /\ pc[IRQ] = "idle"
  /\ cnt < MaxCnt
  /\ \E c \in CPUs \ irqsOff : cpu' = [cpu EXCEPT ![IRQ] = c]
  /\ \E s \in Scancodes :   \* i8042_read_data
       /\ tmp' = [tmp EXCEPT ![IRQ] = s]
       /\ ch'  = [ch EXCEPT ![IRQ] = get_ascii(s)]
  /\ pc' = [pc EXCEPT ![IRQ] = "irq_test"]
  /\ UNCHANGED <<mod, opened, dev, lock, irqsOff, size, keys>>

IrqRelease ==
  /\ pc[IRQ] = "irq_test"
  /\ ~is_key_press(tmp[IRQ])
  /\ pc'  = [pc EXCEPT ![IRQ] = "idle"]
  /\ cpu' = [cpu EXCEPT ![IRQ] = NoCpu]
  /\ ch'  = [ch EXCEPT ![IRQ] = Nul]
  /\ tmp' = [tmp EXCEPT ![IRQ] = 0]
  /\ UNCHANGED <<mod, opened, dev, lock, irqsOff, size, keys>>

IrqPress ==
  /\ pc[IRQ] = "irq_test"
  /\ is_key_press(tmp[IRQ])
  /\ pc'  = [pc EXCEPT ![IRQ] = "irq_spin"]
  /\ tmp' = [tmp EXCEPT ![IRQ] = 0]
  /\ UNCHANGED <<mod, opened, dev, lock, irqsOff, cpu, size, ch, keys>>

IrqLock == Acquire(IRQ, "irq_spin", "irq_store")

\* Seeded fault: the character goes into the slot behind getIdx.
StoreBehind == Advance(getIdx)

\* The slot that put_char writes.
PutSlot == getIdx

\* put_char: the character is stored and putIdx advanced ...
PutCharStore ==
  /\ pc[IRQ] = "irq_store"
  /\ buff'   = [buff EXCEPT ![PutSlot] = ch[IRQ]]
  /\ putIdx' = Advance(putIdx)
  /\ tmp'    = [tmp EXCEPT ![IRQ] = cnt]
  /\ pc'     = [pc EXCEPT ![IRQ] = "irq_inc"]
  /\ UNCHANGED <<mod, opened, getIdx, cnt, lock, irqsOff, cpu, size, ch, keys>>

\* ... and cnt++ is stored.
PutCharInc ==
  /\ pc[IRQ] = "irq_inc"
  /\ cnt'  = tmp[IRQ] + 1
  /\ keys' = Append(keys, [ch |-> ch[IRQ], alone |-> tmp[IRQ] = 0])
  /\ pc'   = [pc EXCEPT ![IRQ] = "irq_unlock"]
  /\ ch'   = [ch EXCEPT ![IRQ] = Nul]
  /\ tmp'  = [tmp EXCEPT ![IRQ] = 0]
  /\ UNCHANGED <<mod, opened, buff, putIdx, getIdx, lock, irqsOff, cpu, size>>

IrqUnlock ==
  /\ pc[IRQ] = "irq_unlock"
  /\ lock' = Free
  /\ cpu'  = [cpu EXCEPT ![IRQ] = NoCpu]
  /\ pc'   = [pc EXCEPT ![IRQ] = "idle"]
  /\ UNCHANGED <<mod, opened, dev, irqsOff, locals, keys>>

-----------------------------------------------------------------------------
(* kbd_init and kbd_exit, as far as they touch struct kbd_dev *)

CdevAdd ==
  /\ mod = "unloaded"
  /\ mod' = "added"
  /\ UNCHANGED <<opened, dev, lock, irqsOff, pc, cpu, locals, keys>>

SpinLockInit ==
  /\ mod = "added"
  /\ mod'  = "lockReady"
  /\ lock' = Free
  /\ UNCHANGED <<opened, dev, irqsOff, pc, cpu, locals, keys>>

RequestIrq ==
  /\ mod = "lockReady"
  /\ mod' = "live"
  /\ UNCHANGED <<opened, dev, lock, irqsOff, pc, cpu, locals, keys>>

\* rmmod is refused while a file is open (.owner); free_irq waits for the
\* handler.  The next insmod starts from zeroed static memory.
kbd_exit ==
  /\ mod = "live"
  /\ opened = {}
  /\ pc[IRQ] = "idle"
  /\ mod' = "unloaded"
  /\ buff' = [i \in Slots |-> Nul]
  /\ reset_buffer
  /\ lock' = Free
  /\ keys' = <<>>
  /\ UNCHANGED <<opened, irqsOff, pc, cpu, locals>>

-----------------------------------------------------------------------------
Init ==
  /\ mod = "unloaded"
  /\ opened = {}
  /\ buff = [i \in Slots |-> Nul]
  /\ putIdx = 0
  /\ getIdx = 0
  /\ cnt = 0
  /\ lock = Free
  /\ irqsOff = {}
  /\ pc   = [x \in Contexts |-> IF x = IRQ THEN "idle" ELSE "user"]
  /\ cpu  = [x \in Contexts |-> NoCpu]
  /\ size = [t \in Threads |-> 0]
  /\ ch   = [x \in Contexts |-> Nul]
  /\ tmp  = [x \in Contexts |-> 0]
  /\ keys = <<>>

\* The steps of a system call that is under way.
Syscall(t) ==
  \/ RdDone(t) \/ RdNext(t) \/ RdLock(t) \/ GetCharTake(t) \/ GetCharDec(t)
  \/ RdEmpty(t) \/ RdMore(t) \/ RdPutUser(t) \/ RdFault(t)
  \/ WrLock(t) \/ WrReset(t) \/ WrUnlock(t)

Handler ==
  \/ IrqRelease \/ IrqPress \/ IrqLock
  \/ PutCharStore \/ PutCharInc \/ IrqUnlock

Next ==
  \/ \E t \in Threads :
       kbd_open(t) \/ kbd_release(t) \/ kbd_read(t) \/ kbd_write(t) \/ Syscall(t)
  \/ IrqEnter
  \/ Handler
  \/ CdevAdd \/ SpinLockInit \/ RequestIrq \/ kbd_exit

Spec == Init /\ [][Next]_vars

\* Running code makes progress; a thread or a handler that spins gets the
\* lock (queued spinlocks are FIFO) and a runnable thread gets a CPU again
\* and again, which is strong fairness.  Nobody has to press a key or to
\* make a system call.
FairSpec ==
  Spec /\ (\A t \in Threads : SF_vars(Syscall(t))) /\ SF_vars(Handler)

-----------------------------------------------------------------------------
(* Properties *)

\* Every variable has its type; in particular both indices stay inside buff
\* (lines 57 and 185), which no check in the code ensures.
TypeOK ==
  /\ mod \in {"unloaded", "added", "lockReady", "live"}
  /\ opened \subseteq Threads
  /\ buff \in [Slots -> Chars]
  /\ putIdx \in Slots
  /\ getIdx \in Slots
  /\ cnt \in Nat
  /\ lock \in Contexts \cup {Free}
  /\ irqsOff \subseteq CPUs
  /\ pc \in [Contexts -> {"user", "rd_loop", "rd_spin", "rd_get", "rd_dec",
                          "rd_more", "rd_put", "wr_spin", "wr_reset",
                          "wr_unlock", "idle", "irq_test", "irq_spin",
                          "irq_store", "irq_inc", "irq_unlock"}]
  /\ cpu \in [Contexts -> CPUs \cup {NoCpu}]
  /\ size \in [Threads -> Nat]
  /\ ch \in [Contexts -> Chars]
  /\ tmp \in [Contexts -> Nat]
  /\ keys \in Seq([ch : Chars, alone : BOOLEAN])

\* A context is between spin_lock and spin_unlock.
InCS(x) == pc[x] \in {"rd_get", "rd_dec", "rd_more", "wr_reset", "wr_unlock",
                      "irq_store", "irq_inc", "irq_unlock"}

\* kbd_dev.lock protects the buffer: no two contexts are between lock and
\* unlock, in kbd_read, kbd_write and kbd_irq_handler.
MutualExclusion ==
  \A x, y \in Contexts : InCS(x) /\ InCS(y) => x = y

\* The handler never spins for a lock that the thread it interrupted holds:
\* kbd_read and kbd_write disable interrupts (lines 101, 139) because
\* kbd_irq_handler takes the same lock (line 232).
NoSelfDeadlock ==
  \A t \in Threads : pc[IRQ] = "irq_spin" /\ lock = t => cpu[t] # cpu[IRQ]

\* Whenever the buffer is unlocked the three counters agree.  The write
\* index is as far ahead of the read index as cnt says, around the ring.
IndicesAgree == lock = Free => putIdx = (getIdx + cnt) % BUFF_SIZE

\* A key that arrives at an empty buffer stays intact while it is alone,
\* whatever was stored and cleared before.
LoneKeyIntact ==
  lock = Free /\ Len(keys) = 1 /\ keys[1].alone => buff[getIdx] = keys[1].ch

\* get_char retrieves "the next character" (line 49): the oldest one stored.
FifoOrder ==
  \A t \in Threads : pc[t] = "rd_dec" => ch[t] = Head(keys).ch

\* The abstract store of keys: a reader has a key in its hand from the store
\* of cnt-- to the end of put_user.  A key whose byte was overwritten may show
\* as NUL, so a hand that is empty is Free.
Store == INSTANCE KeyStore WITH
  Readers <- Threads,
  None    <- Free,
  held    <- cnt,
  lone    <- IF Len(keys) = 1 /\ keys[1].alone THEN keys[1].ch ELSE Free,
  hand    <- [t \in Threads |-> IF pc[t] \in {"rd_more", "rd_put"} THEN ch[t] ELSE Free]

\* The driver implements the store of keys, faults of put_user (line 108)
\* included: they lose the key in hand and no other; a key that arrives at an
\* empty buffer and is read before the next one arrives is delivered intact,
\* whatever was stored, read and cleared before; and reads pass on what they take.
KeysKept == Store!Spec

\* Every read(2) and write(2) returns, with or without keys arriving, and
\* the handler always ends.
CallsReturn ==
  /\ \A t \in Threads : pc[t] # "user" ~> pc[t] = "user"
  /\ pc[IRQ] # "idle" ~> pc[IRQ] = "idle"
=============================================================================
