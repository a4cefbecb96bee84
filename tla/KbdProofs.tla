---------------------------- MODULE KbdProofs ----------------------------
(***************************************************************************)
(* Proofs about Kbd, for every BUFF_SIZE, every set of threads and CPUs,   *)
(* and every set of scancodes.                                             *)
(***************************************************************************)
EXTENDS Kbd, Integers, TLAPS

-----------------------------------------------------------------------------
(* The inductive invariant *)

ThreadPcs == {"user", "rd_loop", "rd_spin", "rd_get", "rd_dec", "rd_more",
              "rd_put", "wr_spin", "wr_reset", "wr_unlock"}
IrqPcs    == {"idle", "irq_test", "irq_spin", "irq_store", "irq_inc",
              "irq_unlock"}

\* Threads are in system calls only on open files, and nothing runs before
\* kbd_init has finished.
PcInv ==
  /\ \A t \in Threads : pc[t] \in ThreadPcs /\ (pc[t] # "user" => t \in opened)
  /\ pc[IRQ] \in IrqPcs
  /\ mod # "live" => opened = {} /\ pc[IRQ] = "idle"

\* The lock is held by exactly the context between lock and unlock.
LockInv == \A x \in Contexts : InCS(x) <=> lock = x

\* A thread that spins or holds the lock has a CPU for itself, with
\* interrupts disabled.
CpuInv ==
  /\ \A t \in Threads : cpu[t] = NoCpu <=> pc[t] \in {"user", "rd_loop", "rd_put"}
  /\ \A t \in Threads : cpu[t] # NoCpu => cpu[t] \in irqsOff
  /\ \A x, y \in Contexts : x # y /\ cpu[x] # NoCpu => cpu[x] # cpu[y]

\* Nobody is between the two halves of get_char or put_char.
Settled == /\ \A t \in Threads : pc[t] # "rd_dec"
           /\ pc[IRQ] # "irq_inc"

\* What the lock protects, in every state between the two halves too.
DataInv ==
  /\ cnt = Len(keys)
  /\ \A i \in 2..Len(keys) : ~keys[i].alone
  /\ \A t \in Threads : pc[t] = "rd_dec" =>
       /\ tmp[t] = cnt
       /\ cnt > 0
       /\ putIdx = (getIdx + (cnt - 1)) % BUFF_SIZE
  /\ pc[IRQ] = "irq_inc" =>
       /\ tmp[IRQ] = cnt
       /\ putIdx = (getIdx + (cnt + 1)) % BUFF_SIZE
       /\ buff[getIdx] = ch[IRQ]
  /\ Settled =>
       /\ putIdx = (getIdx + cnt) % BUFF_SIZE
       /\ Len(keys) = 1 /\ keys[1].alone => buff[getIdx] = keys[1].ch

IInv == TypeOK /\ PcInv /\ LockInv /\ CpuInv /\ DataInv

-----------------------------------------------------------------------------
(* Characters and modular arithmetic *)

\* get_ascii yields characters, and NUL is one.
LEMMA CharsFacts == Nul \in Chars /\ \A s \in 0..255 : get_ascii(s) \in Chars
BY DEF Chars

\* Quotient and remainder, which wrap the indices of the ring.
LEMMA DivMod ==
  ASSUME NEW N \in Nat \ {0}, NEW a \in Nat
  PROVE  /\ a % N \in 0..(N - 1)
         /\ a \div N \in Nat
         /\ a = N * (a \div N) + (a % N)
BY SMT

\* The remainder is determined by any such decomposition.
LEMMA ModUnique ==
  ASSUME NEW N \in Nat \ {0}, NEW q \in Nat, NEW r \in 0..(N - 1)
  PROVE  (N * q + r) % N = r
BY SMT

\* An inner reduction can be dropped.
LEMMA ModAdd ==
  ASSUME NEW N \in Nat \ {0}, NEW a \in Nat, NEW b \in Nat
  PROVE  ((a % N) + b) % N = (a + b) % N
<1> DEFINE q  == a \div N
           r  == a % N
           q2 == (r + b) \div N
           r2 == (r + b) % N
<1>1. q \in Nat /\ r \in 0..(N - 1) /\ a = N * q + r
  BY DivMod
<1>2. r + b \in Nat
  BY <1>1
<1>3. q2 \in Nat /\ r2 \in 0..(N - 1) /\ r + b = N * q2 + r2
  BY <1>2, DivMod
<1> HIDE DEF q, r, q2, r2
<1> DEFINE p == q + q2
<1>4. p \in Nat /\ a + b = N * p + r2
  BY <1>1, <1>3
<1> HIDE DEF p
<1>5. (N * p + r2) % N = r2
  BY <1>3, <1>4, ModUnique
<1> QED
  BY <1>4, <1>5 DEF r2, r

-----------------------------------------------------------------------------
(* Each part of the invariant is preserved *)

\* Every action keeps the types.  Only cnt-- needs more than the types: that cnt was positive.
LEMMA TypeOKStep ==
  ASSUME TypeOK, DataInv, [Next]_vars
  PROVE  TypeOK'
<1> USE KbdAssumption DEF Contexts, Slots, dev, locals, TypeOK
<1>1. ASSUME NEW t \in Threads, kbd_open(t) PROVE TypeOK'
  BY <1>1 DEF kbd_open, MayOpen
<1>2. ASSUME NEW t \in Threads, kbd_release(t) PROVE TypeOK'
  BY <1>2 DEF kbd_release
<1>3. ASSUME NEW t \in Threads, kbd_read(t) PROVE TypeOK'
  BY <1>3 DEF kbd_read
<1>4. ASSUME NEW t \in Threads, kbd_write(t) PROVE TypeOK'
  BY <1>4 DEF kbd_write, LocalIrqSave
<1>5. ASSUME NEW t \in Threads, RdDone(t) PROVE TypeOK'
  BY <1>5 DEF RdDone
<1>6. ASSUME NEW t \in Threads, RdNext(t) PROVE TypeOK'
  BY <1>6 DEF RdNext, LocalIrqSave
<1>7. ASSUME NEW t \in Threads, RdLock(t) PROVE TypeOK'
  BY <1>7 DEF RdLock, Acquire
<1>8. ASSUME NEW t \in Threads, GetCharTake(t) PROVE TypeOK'
  BY <1>8 DEF GetCharTake, Advance
<1>9. ASSUME NEW t \in Threads, GetCharDec(t) PROVE TypeOK'
  BY <1>9 DEF GetCharDec, DataInv
<1>10. ASSUME NEW t \in Threads, RdEmpty(t) PROVE TypeOK'
  BY <1>10 DEF RdEmpty, UnlockIrqRestore
<1>11. ASSUME NEW t \in Threads, RdMore(t) PROVE TypeOK'
  BY <1>11 DEF RdMore, UnlockIrqRestore
<1>12. ASSUME NEW t \in Threads, RdPutUser(t) PROVE TypeOK'
  BY <1>12, CharsFacts DEF RdPutUser
<1>13. ASSUME NEW t \in Threads, RdFault(t) PROVE TypeOK'
  BY <1>13, CharsFacts DEF RdFault
<1>14. ASSUME NEW t \in Threads, WrLock(t) PROVE TypeOK'
  BY <1>14 DEF WrLock, Acquire
<1>15. ASSUME NEW t \in Threads, WrReset(t) PROVE TypeOK'
  BY <1>15 DEF WrReset, reset_buffer
<1>16. ASSUME NEW t \in Threads, WrUnlock(t) PROVE TypeOK'
  BY <1>16 DEF WrUnlock, UnlockIrqRestore
<1>17. CASE IrqEnter
  <2>1. PICK c \in CPUs \ irqsOff : cpu' = [cpu EXCEPT ![IRQ] = c]
    BY <1>17 DEF IrqEnter
  <2>2. PICK s \in Scancodes : /\ tmp' = [tmp EXCEPT ![IRQ] = s]
                               /\ ch'  = [ch EXCEPT ![IRQ] = get_ascii(s)]
    BY <1>17 DEF IrqEnter
  <2>3. s \in 0..255 /\ get_ascii(s) \in Chars
    BY <2>2, CharsFacts
  <2> QED
    BY <1>17, <2>1, <2>2, <2>3 DEF IrqEnter
<1>18. CASE IrqRelease
  BY <1>18, CharsFacts DEF IrqRelease
<1>19. CASE IrqPress
  BY <1>19 DEF IrqPress
<1>20. CASE IrqLock
  BY <1>20 DEF IrqLock, Acquire
<1>21. CASE PutCharStore
  BY <1>21 DEF PutCharStore, PutSlot, Advance
<1>22. CASE PutCharInc
  <2> DEFINE key == [ch |-> ch[IRQ], alone |-> tmp[IRQ] = 0]
  <2>1. key \in [ch : Chars, alone : BOOLEAN]
    OBVIOUS
  <2>2. keys' = Append(keys, key)
    BY <1>22 DEF PutCharInc
  <2> HIDE DEF key
  <2>3. keys' \in Seq([ch : Chars, alone : BOOLEAN])
    BY <2>1, <2>2
  <2>4. /\ cnt' = tmp[IRQ] + 1 /\ pc' = [pc EXCEPT ![IRQ] = "irq_unlock"]
        /\ ch' = [ch EXCEPT ![IRQ] = Nul] /\ tmp' = [tmp EXCEPT ![IRQ] = 0]
        /\ UNCHANGED <<mod, opened, buff, putIdx, getIdx, lock, irqsOff, cpu, size>>
    BY <1>22 DEF PutCharInc
  <2>5. cnt' \in Nat /\ tmp' \in [Contexts -> Nat]
    BY <2>4
  <2>6. ch' \in [Contexts -> Chars]
    BY <2>4, CharsFacts
  <2>7. pc' \in [Contexts -> {"user", "rd_loop", "rd_spin", "rd_get", "rd_dec",
                              "rd_more", "rd_put", "wr_spin", "wr_reset",
                              "wr_unlock", "idle", "irq_test", "irq_spin",
                              "irq_store", "irq_inc", "irq_unlock"}]
    BY <2>4
  <2> QED
    BY <2>3, <2>4, <2>5, <2>6, <2>7
<1>23. CASE IrqUnlock
  BY <1>23 DEF IrqUnlock
<1>24. CASE CdevAdd
  BY <1>24 DEF CdevAdd
<1>25. CASE SpinLockInit
  BY <1>25 DEF SpinLockInit
<1>26. CASE RequestIrq
  BY <1>26 DEF RequestIrq
<1>27. CASE kbd_exit
  <2>1. buff' \in [Slots -> Chars]
    BY <1>27, CharsFacts DEF kbd_exit
  <2>2. keys' \in Seq([ch : Chars, alone : BOOLEAN])
    BY <1>27 DEF kbd_exit
  <2>3. /\ mod' = "unloaded" /\ cnt' = 0 /\ getIdx' = 0 /\ putIdx' = 0 /\ lock' = Free
        /\ UNCHANGED <<opened, irqsOff, pc, cpu, size, ch, tmp>>
    BY <1>27 DEF kbd_exit, reset_buffer
  <2> QED
    BY <2>1, <2>2, <2>3
<1>28. CASE UNCHANGED vars
  BY <1>28 DEF vars
<1> QED
  BY <1>1, <1>2, <1>3, <1>4, <1>5, <1>6, <1>7, <1>8, <1>9, <1>10, <1>11, <1>12, <1>13, <1>14, <1>15, <1>16, <1>17, <1>18, <1>19, <1>20, <1>21, <1>22, <1>23, <1>24, <1>25, <1>26, <1>27, <1>28 DEF Next, Syscall, Handler

\* System calls are made on open files of a live module.
LEMMA PcInvStep ==
  ASSUME ~EarlyOpen, TypeOK, PcInv, [Next]_vars
  PROVE  PcInv'
<1> USE KbdAssumption DEF Contexts, Slots, dev, locals, TypeOK, PcInv, ThreadPcs, IrqPcs
<1>1. ASSUME NEW t \in Threads, kbd_open(t) PROVE PcInv'
  BY <1>1 DEF kbd_open, MayOpen
<1>2. ASSUME NEW t \in Threads, kbd_release(t) PROVE PcInv'
  BY <1>2 DEF kbd_release
<1>3. ASSUME NEW t \in Threads, kbd_read(t) PROVE PcInv'
  BY <1>3 DEF kbd_read
<1>4. ASSUME NEW t \in Threads, kbd_write(t) PROVE PcInv'
  BY <1>4 DEF kbd_write, LocalIrqSave
<1>5. ASSUME NEW t \in Threads, RdDone(t) PROVE PcInv'
  BY <1>5 DEF RdDone
<1>6. ASSUME NEW t \in Threads, RdNext(t) PROVE PcInv'
  BY <1>6 DEF RdNext, LocalIrqSave
<1>7. ASSUME NEW t \in Threads, RdLock(t) PROVE PcInv'
  BY <1>7 DEF RdLock, Acquire
<1>8. ASSUME NEW t \in Threads, GetCharTake(t) PROVE PcInv'
  BY <1>8 DEF GetCharTake
<1>9. ASSUME NEW t \in Threads, GetCharDec(t) PROVE PcInv'
  BY <1>9 DEF GetCharDec
<1>10. ASSUME NEW t \in Threads, RdEmpty(t) PROVE PcInv'
  BY <1>10 DEF RdEmpty, UnlockIrqRestore
<1>11. ASSUME NEW t \in Threads, RdMore(t) PROVE PcInv'
  BY <1>11 DEF RdMore, UnlockIrqRestore
<1>12. ASSUME NEW t \in Threads, RdPutUser(t) PROVE PcInv'
  BY <1>12 DEF RdPutUser
<1>13. ASSUME NEW t \in Threads, RdFault(t) PROVE PcInv'
  BY <1>13 DEF RdFault
<1>14. ASSUME NEW t \in Threads, WrLock(t) PROVE PcInv'
  BY <1>14 DEF WrLock, Acquire
<1>15. ASSUME NEW t \in Threads, WrReset(t) PROVE PcInv'
  BY <1>15 DEF WrReset, reset_buffer
<1>16. ASSUME NEW t \in Threads, WrUnlock(t) PROVE PcInv'
  BY <1>16 DEF WrUnlock, UnlockIrqRestore
<1>17. CASE IrqEnter
  BY <1>17 DEF IrqEnter
<1>18. CASE IrqRelease
  BY <1>18 DEF IrqRelease
<1>19. CASE IrqPress
  BY <1>19 DEF IrqPress
<1>20. CASE IrqLock
  BY <1>20 DEF IrqLock, Acquire
<1>21. CASE PutCharStore
  BY <1>21 DEF PutCharStore, PutSlot
<1>22. CASE PutCharInc
  BY <1>22 DEF PutCharInc
<1>23. CASE IrqUnlock
  BY <1>23 DEF IrqUnlock
<1>24. CASE CdevAdd
  BY <1>24 DEF CdevAdd
<1>25. CASE SpinLockInit
  BY <1>25 DEF SpinLockInit
<1>26. CASE RequestIrq
  BY <1>26 DEF RequestIrq
<1>27. CASE kbd_exit
  BY <1>27 DEF kbd_exit, reset_buffer
<1>28. CASE UNCHANGED vars
  BY <1>28 DEF vars
<1> QED
  BY <1>1, <1>2, <1>3, <1>4, <1>5, <1>6, <1>7, <1>8, <1>9, <1>10, <1>11, <1>12, <1>13, <1>14, <1>15, <1>16, <1>17, <1>18, <1>19, <1>20, <1>21, <1>22, <1>23, <1>24, <1>25, <1>26, <1>27, <1>28 DEF Next, Syscall, Handler

\* The holder of the lock is the context in the critical section.
LEMMA LockInvStep ==
  ASSUME TypeOK, PcInv, LockInv, [Next]_vars
  PROVE  LockInv'
<1> USE KbdAssumption DEF Contexts, Slots, dev, locals, TypeOK, PcInv, LockInv, ThreadPcs, IrqPcs, InCS
<1>1. ASSUME NEW t \in Threads, kbd_open(t) PROVE LockInv'
  BY <1>1 DEF kbd_open, MayOpen
<1>2. ASSUME NEW t \in Threads, kbd_release(t) PROVE LockInv'
  BY <1>2 DEF kbd_release
<1>3. ASSUME NEW t \in Threads, kbd_read(t) PROVE LockInv'
  BY <1>3 DEF kbd_read
<1>4. ASSUME NEW t \in Threads, kbd_write(t) PROVE LockInv'
  BY <1>4 DEF kbd_write, LocalIrqSave
<1>5. ASSUME NEW t \in Threads, RdDone(t) PROVE LockInv'
  BY <1>5 DEF RdDone
<1>6. ASSUME NEW t \in Threads, RdNext(t) PROVE LockInv'
  BY <1>6 DEF RdNext, LocalIrqSave
<1>7. ASSUME NEW t \in Threads, RdLock(t) PROVE LockInv'
  BY <1>7 DEF RdLock, Acquire
<1>8. ASSUME NEW t \in Threads, GetCharTake(t) PROVE LockInv'
  BY <1>8 DEF GetCharTake
<1>9. ASSUME NEW t \in Threads, GetCharDec(t) PROVE LockInv'
  BY <1>9 DEF GetCharDec
<1>10. ASSUME NEW t \in Threads, RdEmpty(t) PROVE LockInv'
  BY <1>10 DEF RdEmpty, UnlockIrqRestore
<1>11. ASSUME NEW t \in Threads, RdMore(t) PROVE LockInv'
  BY <1>11 DEF RdMore, UnlockIrqRestore
<1>12. ASSUME NEW t \in Threads, RdPutUser(t) PROVE LockInv'
  BY <1>12 DEF RdPutUser
<1>13. ASSUME NEW t \in Threads, RdFault(t) PROVE LockInv'
  BY <1>13 DEF RdFault
<1>14. ASSUME NEW t \in Threads, WrLock(t) PROVE LockInv'
  BY <1>14 DEF WrLock, Acquire
<1>15. ASSUME NEW t \in Threads, WrReset(t) PROVE LockInv'
  BY <1>15 DEF WrReset, reset_buffer
<1>16. ASSUME NEW t \in Threads, WrUnlock(t) PROVE LockInv'
  BY <1>16 DEF WrUnlock, UnlockIrqRestore
<1>17. CASE IrqEnter
  BY <1>17 DEF IrqEnter
<1>18. CASE IrqRelease
  BY <1>18 DEF IrqRelease
<1>19. CASE IrqPress
  BY <1>19 DEF IrqPress
<1>20. CASE IrqLock
  BY <1>20 DEF IrqLock, Acquire
<1>21. CASE PutCharStore
  BY <1>21 DEF PutCharStore, PutSlot
<1>22. CASE PutCharInc
  BY <1>22 DEF PutCharInc
<1>23. CASE IrqUnlock
  BY <1>23 DEF IrqUnlock
<1>24. CASE CdevAdd
  BY <1>24 DEF CdevAdd
<1>25. CASE SpinLockInit
  BY <1>25 DEF SpinLockInit
<1>26. CASE RequestIrq
  BY <1>26 DEF RequestIrq
<1>27. CASE kbd_exit
  BY <1>27 DEF kbd_exit, reset_buffer
<1>28. CASE UNCHANGED vars
  BY <1>28 DEF vars
<1> QED
  BY <1>1, <1>2, <1>3, <1>4, <1>5, <1>6, <1>7, <1>8, <1>9, <1>10, <1>11, <1>12, <1>13, <1>14, <1>15, <1>16, <1>17, <1>18, <1>19, <1>20, <1>21, <1>22, <1>23, <1>24, <1>25, <1>26, <1>27, <1>28 DEF Next, Syscall, Handler

\* CPUs and interrupts.
LEMMA CpuInvStep ==
  ASSUME TypeOK, PcInv, CpuInv, [Next]_vars
  PROVE  CpuInv'
<1> USE KbdAssumption DEF Contexts, Slots, dev, locals, TypeOK, PcInv, CpuInv, ThreadPcs, IrqPcs
<1>1. ASSUME NEW t \in Threads, kbd_open(t) PROVE CpuInv'
  BY <1>1 DEF kbd_open, MayOpen
<1>2. ASSUME NEW t \in Threads, kbd_release(t) PROVE CpuInv'
  BY <1>2 DEF kbd_release
<1>3. ASSUME NEW t \in Threads, kbd_read(t) PROVE CpuInv'
  BY <1>3 DEF kbd_read
<1>4. ASSUME NEW t \in Threads, kbd_write(t) PROVE CpuInv'
  BY <1>4 DEF kbd_write, LocalIrqSave
<1>5. ASSUME NEW t \in Threads, RdDone(t) PROVE CpuInv'
  BY <1>5 DEF RdDone
<1>6. ASSUME NEW t \in Threads, RdNext(t) PROVE CpuInv'
  BY <1>6 DEF RdNext, LocalIrqSave
<1>7. ASSUME NEW t \in Threads, RdLock(t) PROVE CpuInv'
  BY <1>7 DEF RdLock, Acquire
<1>8. ASSUME NEW t \in Threads, GetCharTake(t) PROVE CpuInv'
  BY <1>8 DEF GetCharTake
<1>9. ASSUME NEW t \in Threads, GetCharDec(t) PROVE CpuInv'
  BY <1>9 DEF GetCharDec
<1>10. ASSUME NEW t \in Threads, RdEmpty(t) PROVE CpuInv'
  BY <1>10 DEF RdEmpty, UnlockIrqRestore
<1>11. ASSUME NEW t \in Threads, RdMore(t) PROVE CpuInv'
  BY <1>11 DEF RdMore, UnlockIrqRestore
<1>12. ASSUME NEW t \in Threads, RdPutUser(t) PROVE CpuInv'
  BY <1>12 DEF RdPutUser
<1>13. ASSUME NEW t \in Threads, RdFault(t) PROVE CpuInv'
  BY <1>13 DEF RdFault
<1>14. ASSUME NEW t \in Threads, WrLock(t) PROVE CpuInv'
  BY <1>14 DEF WrLock, Acquire
<1>15. ASSUME NEW t \in Threads, WrReset(t) PROVE CpuInv'
  BY <1>15 DEF WrReset, reset_buffer
<1>16. ASSUME NEW t \in Threads, WrUnlock(t) PROVE CpuInv'
  BY <1>16 DEF WrUnlock, UnlockIrqRestore
<1>17. CASE IrqEnter
  BY <1>17 DEF IrqEnter
<1>18. CASE IrqRelease
  BY <1>18 DEF IrqRelease
<1>19. CASE IrqPress
  BY <1>19 DEF IrqPress
<1>20. CASE IrqLock
  BY <1>20 DEF IrqLock, Acquire
<1>21. CASE PutCharStore
  BY <1>21 DEF PutCharStore, PutSlot
<1>22. CASE PutCharInc
  BY <1>22 DEF PutCharInc
<1>23. CASE IrqUnlock
  BY <1>23 DEF IrqUnlock
<1>24. CASE CdevAdd
  BY <1>24 DEF CdevAdd
<1>25. CASE SpinLockInit
  BY <1>25 DEF SpinLockInit
<1>26. CASE RequestIrq
  BY <1>26 DEF RequestIrq
<1>27. CASE kbd_exit
  BY <1>27 DEF kbd_exit, reset_buffer
<1>28. CASE UNCHANGED vars
  BY <1>28 DEF vars
<1> QED
  BY <1>1, <1>2, <1>3, <1>4, <1>5, <1>6, <1>7, <1>8, <1>9, <1>10, <1>11, <1>12, <1>13, <1>14, <1>15, <1>16, <1>17, <1>18, <1>19, <1>20, <1>21, <1>22, <1>23, <1>24, <1>25, <1>26, <1>27, <1>28 DEF Next, Syscall, Handler

\* A step that leaves the buffer alone, and nobody between the two halves of
\* get_char or put_char, keeps DataInv.
LEMMA DataFrame ==
  ASSUME DataInv, UNCHANGED <<dev, keys>>,
         \A t \in Threads : pc'[t] = "rd_dec" <=> pc[t] = "rd_dec",
         \A t \in Threads : pc[t] = "rd_dec" => tmp'[t] = tmp[t],
         pc'[IRQ] = "irq_inc" <=> pc[IRQ] = "irq_inc",
         pc[IRQ] = "irq_inc" => tmp'[IRQ] = tmp[IRQ] /\ ch'[IRQ] = ch[IRQ]
  PROVE  DataInv'
BY DEF DataInv, Settled, dev

\* The buffer, its counters and the history agree after every step: this is
\* where mutual exclusion is needed.
LEMMA DataInvStep ==
  ASSUME TypeOK, PcInv, LockInv, DataInv, [Next]_vars
  PROVE  DataInv'
<1> USE KbdAssumption DEF Contexts
<1>1. ASSUME NEW t \in Threads, kbd_open(t) PROVE DataInv'
  BY <1>1, DataFrame DEF kbd_open, TypeOK, locals
<1>2. ASSUME NEW t \in Threads, kbd_release(t) PROVE DataInv'
  BY <1>2, DataFrame DEF kbd_release, TypeOK, locals
<1>3. ASSUME NEW t \in Threads, kbd_read(t) PROVE DataInv'
  BY <1>3, DataFrame DEF kbd_read, TypeOK, locals
<1>4. ASSUME NEW t \in Threads, kbd_write(t) PROVE DataInv'
  BY <1>4, DataFrame DEF kbd_write, LocalIrqSave, TypeOK, locals
<1>5. ASSUME NEW t \in Threads, RdDone(t) PROVE DataInv'
  BY <1>5, DataFrame DEF RdDone, TypeOK, locals
<1>6. ASSUME NEW t \in Threads, RdNext(t) PROVE DataInv'
  BY <1>6, DataFrame DEF RdNext, LocalIrqSave, TypeOK, locals
<1>7. ASSUME NEW t \in Threads, RdLock(t) PROVE DataInv'
  BY <1>7, DataFrame DEF RdLock, Acquire, TypeOK, locals
<1>8. ASSUME NEW t \in Threads, RdEmpty(t) PROVE DataInv'
  BY <1>8, DataFrame DEF RdEmpty, UnlockIrqRestore, TypeOK, locals
<1>9. ASSUME NEW t \in Threads, RdMore(t) PROVE DataInv'
  BY <1>9, DataFrame DEF RdMore, UnlockIrqRestore, TypeOK, locals
<1>10. ASSUME NEW t \in Threads, RdPutUser(t) PROVE DataInv'
  BY <1>10, DataFrame DEF RdPutUser, TypeOK, locals
<1>11. ASSUME NEW t \in Threads, RdFault(t) PROVE DataInv'
  BY <1>11, DataFrame DEF RdFault, TypeOK, locals
<1>12. ASSUME NEW t \in Threads, WrLock(t) PROVE DataInv'
  BY <1>12, DataFrame DEF WrLock, Acquire, TypeOK, locals
<1>13. ASSUME NEW t \in Threads, WrUnlock(t) PROVE DataInv'
  BY <1>13, DataFrame DEF WrUnlock, UnlockIrqRestore, TypeOK, locals
<1>14. CASE IrqEnter
  BY <1>14, DataFrame DEF IrqEnter, TypeOK, locals
<1>15. CASE IrqRelease
  BY <1>15, DataFrame DEF IrqRelease, TypeOK, locals
<1>16. CASE IrqPress
  BY <1>16, DataFrame DEF IrqPress, TypeOK, locals
<1>17. CASE IrqLock
  BY <1>17, DataFrame DEF IrqLock, Acquire, TypeOK, locals
<1>18. CASE IrqUnlock
  BY <1>18, DataFrame DEF IrqUnlock, TypeOK, locals
<1>19. CASE CdevAdd
  BY <1>19, DataFrame DEF CdevAdd, TypeOK, locals
<1>20. CASE SpinLockInit
  BY <1>20, DataFrame DEF SpinLockInit, TypeOK, locals
<1>21. CASE RequestIrq
  BY <1>21, DataFrame DEF RequestIrq, TypeOK, locals
<1>22. ASSUME NEW t \in Threads, GetCharTake(t) PROVE DataInv'
  <2>1. Settled
    BY <1>22 DEF GetCharTake, Settled, LockInv, InCS, TypeOK
  <2>2. pc' = [pc EXCEPT ![t] = "rd_dec"] /\ getIdx' = (getIdx + 1) % BUFF_SIZE
        /\ tmp' = [tmp EXCEPT ![t] = cnt] /\ cnt > 0
        /\ UNCHANGED <<buff, putIdx, cnt, keys>>
    BY <1>22 DEF GetCharTake, Advance
  <2>3. putIdx' = (getIdx' + (cnt - 1)) % BUFF_SIZE
    <3>1. putIdx = (getIdx + cnt) % BUFF_SIZE
      BY <2>1 DEF DataInv
    <3>2. getIdx + 1 \in Nat /\ cnt - 1 \in Nat /\ (getIdx + 1) + (cnt - 1) = getIdx + cnt
      BY <2>2 DEF TypeOK, Slots
    <3>3. (((getIdx + 1) % BUFF_SIZE) + (cnt - 1)) % BUFF_SIZE = ((getIdx + 1) + (cnt - 1)) % BUFF_SIZE
      BY <3>2, ModAdd
    <3> QED
      BY <2>2, <3>1, <3>2, <3>3
  <2>4. ~Settled'
    BY <2>2 DEF Settled, TypeOK
  <2>5. pc'[IRQ] # "irq_inc" /\ \A u \in Threads \ {t} : pc'[u] # "rd_dec"
    BY <2>1, <2>2 DEF Settled, TypeOK
  <2> QED
    BY <2>2, <2>3, <2>4, <2>5 DEF DataInv, TypeOK
<1>23. ASSUME NEW t \in Threads, GetCharDec(t) PROVE DataInv'
  <2>1. /\ pc' = [pc EXCEPT ![t] = "rd_more"] /\ cnt' = tmp[t] - 1
        /\ keys' = IF keys = <<>> THEN keys ELSE Tail(keys)
        /\ UNCHANGED <<buff, putIdx, getIdx>>
        /\ pc[t] = "rd_dec" /\ tmp[t] = cnt /\ cnt > 0 /\ cnt = Len(keys)
        /\ putIdx = (getIdx + (cnt - 1)) % BUFF_SIZE
    BY <1>23 DEF GetCharDec, DataInv
  <2>2. keys \in Seq([ch : Chars, alone : BOOLEAN]) /\ keys # <<>>
    BY <2>1 DEF TypeOK
  <2>3. Len(keys') = cnt - 1 /\ \A k \in 1..Len(keys') : keys'[k] = keys[k + 1]
    BY <2>1, <2>2
  <2>4. \A k \in 1..Len(keys') : ~keys'[k].alone
    BY <2>1, <2>2, <2>3 DEF DataInv
  <2>5. /\ pc'[IRQ] # "irq_inc"
        /\ \A u \in Threads : pc'[u] # "rd_dec"
    BY <2>1 DEF LockInv, InCS, TypeOK
  <2>6. cnt' = Len(keys') /\ \A k \in 2..Len(keys') : ~keys'[k].alone
    <3>1. 2..Len(keys') \subseteq 1..Len(keys')
      BY <2>1, <2>3
    <3> QED
      BY <2>1, <2>3, <2>4, <3>1
  <2>7. Len(keys') = 1 => ~keys'[1].alone
    BY <2>4
  <2>8. putIdx' = (getIdx' + cnt') % BUFF_SIZE
    BY <2>1
  <2> QED
    BY <2>5, <2>6, <2>7, <2>8 DEF DataInv, Settled
<1>24. ASSUME NEW t \in Threads, WrReset(t) PROVE DataInv'
  <2>1. /\ cnt' = 0 /\ getIdx' = 0 /\ putIdx' = 0 /\ keys' = <<>>
        /\ pc[t] = "wr_reset" /\ pc' = [pc EXCEPT ![t] = "wr_unlock"]
    BY <1>24 DEF WrReset, reset_buffer
  <2>2. pc'[IRQ] # "irq_inc" /\ \A u \in Threads : pc'[u] # "rd_dec"
    BY <2>1 DEF LockInv, InCS, TypeOK
  <2>3. 0 = (0 + 0) % BUFF_SIZE /\ Len(<<>>) = 0
    OBVIOUS
  <2> QED
    BY <2>1, <2>2, <2>3 DEF DataInv, Settled
<1>25. CASE PutCharStore
  <2>1. Settled
    BY <1>25 DEF PutCharStore, Settled, LockInv, InCS, TypeOK
  <2>2. /\ pc' = [pc EXCEPT ![IRQ] = "irq_inc"] /\ putIdx' = (putIdx + 1) % BUFF_SIZE
        /\ tmp' = [tmp EXCEPT ![IRQ] = cnt] /\ buff' = [buff EXCEPT ![getIdx] = ch[IRQ]]
        /\ UNCHANGED <<getIdx, cnt, ch, keys>>
    BY <1>25 DEF PutCharStore, PutSlot, Advance
  <2>3. putIdx' = (getIdx + (cnt + 1)) % BUFF_SIZE
    <3>1. putIdx = (getIdx + cnt) % BUFF_SIZE
      BY <2>1 DEF DataInv
    <3>2. getIdx + cnt \in Nat /\ (getIdx + cnt) + 1 = getIdx + (cnt + 1)
      BY DEF TypeOK, Slots
    <3>3. (((getIdx + cnt) % BUFF_SIZE) + 1) % BUFF_SIZE = ((getIdx + cnt) + 1) % BUFF_SIZE
      BY <3>2, ModAdd
    <3> QED
      BY <2>2, <3>1, <3>2, <3>3
  <2>4. pc'[IRQ] = "irq_inc" /\ \A u \in Threads : pc'[u] # "rd_dec"
    BY <2>1, <2>2 DEF Settled, TypeOK
  <2>5. buff'[getIdx'] = ch'[IRQ] /\ tmp'[IRQ] = cnt'
    BY <2>2 DEF TypeOK
  <2> QED
    BY <2>2, <2>3, <2>4, <2>5 DEF DataInv, Settled
<1>26. CASE PutCharInc
  <2> DEFINE key == [ch |-> ch[IRQ], alone |-> tmp[IRQ] = 0]
  <2>1. /\ pc' = [pc EXCEPT ![IRQ] = "irq_unlock"] /\ cnt' = tmp[IRQ] + 1
        /\ keys' = Append(keys, key) /\ UNCHANGED <<buff, putIdx, getIdx>>
        /\ pc[IRQ] = "irq_inc" /\ tmp[IRQ] = cnt /\ cnt = Len(keys)
        /\ putIdx = (getIdx + (cnt + 1)) % BUFF_SIZE /\ buff[getIdx] = ch[IRQ]
    BY <1>26 DEF PutCharInc, DataInv
  <2>2. key.ch = ch[IRQ] /\ (key.alone <=> tmp[IRQ] = 0)
        /\ key \in [ch : Chars, alone : BOOLEAN]
    BY DEF TypeOK
  <2> HIDE DEF key
  <2>3. keys \in Seq([ch : Chars, alone : BOOLEAN]) /\ cnt \in Nat
    BY DEF TypeOK
  <2>4. Len(keys') = cnt + 1 /\ keys'[cnt + 1] = key /\ \A k \in 1..cnt : keys'[k] = keys[k]
    BY <2>1, <2>2, <2>3
  <2>5. \A k \in 2..Len(keys') : ~keys'[k].alone
    <3> SUFFICES ASSUME NEW k \in 2..(cnt + 1) PROVE ~keys'[k].alone
      BY <2>4
    <3>1. CASE k = cnt + 1
      BY <2>1, <2>2, <2>3, <2>4, <3>1
    <3>2. CASE k \in 2..cnt
      BY <2>1, <2>3, <2>4, <3>2 DEF DataInv
    <3> QED
      BY <2>3, <3>1, <3>2
  <2>6. Len(keys') = 1 => buff'[getIdx'] = keys'[1].ch
    BY <2>1, <2>2, <2>3, <2>4
  <2>7. /\ pc'[IRQ] # "irq_inc"
        /\ \A u \in Threads : pc'[u] # "rd_dec"
    BY <2>1 DEF LockInv, InCS, TypeOK
  <2> QED
    BY <2>1, <2>4, <2>5, <2>6, <2>7 DEF DataInv, Settled
<1>27. CASE kbd_exit
  <2>1. /\ cnt' = 0 /\ getIdx' = 0 /\ putIdx' = 0 /\ keys' = <<>>
        /\ pc[IRQ] = "idle" /\ pc' = pc /\ opened = {}
    BY <1>27 DEF kbd_exit, reset_buffer
  <2>2. pc'[IRQ] # "irq_inc" /\ \A u \in Threads : pc'[u] # "rd_dec"
    BY <2>1 DEF PcInv
  <2>3. 0 = (0 + 0) % BUFF_SIZE /\ Len(<<>>) = 0
    OBVIOUS
  <2> QED
    BY <2>1, <2>2, <2>3 DEF DataInv, Settled
<1>28. CASE UNCHANGED vars
  BY <1>28, DataFrame DEF vars, locals
<1> QED
  BY <1>1, <1>2, <1>3, <1>4, <1>5, <1>6, <1>7, <1>8, <1>9, <1>10, <1>11, <1>12, <1>13, <1>14, <1>15, <1>16, <1>17, <1>18, <1>19, <1>20, <1>21, <1>22, <1>23, <1>24, <1>25, <1>26, <1>27, <1>28 DEF Next, Syscall, Handler

-----------------------------------------------------------------------------
(* Theorems *)

\* A freshly loaded module satisfies the invariant.
LEMMA InitInv == Init => IInv
<1> SUFFICES ASSUME Init PROVE IInv
  OBVIOUS
<1> USE KbdAssumption DEF Init, Contexts, Slots
<1>1. TypeOK
  BY CharsFacts DEF TypeOK
<1>2. PcInv
  BY DEF PcInv, ThreadPcs, IrqPcs
<1>3. LockInv
  BY DEF LockInv, InCS
<1>4. CpuInv
  BY DEF CpuInv
<1>5. DataInv
  <2>1. 0 = (0 + 0) % BUFF_SIZE /\ Len(<<>>) = 0
    OBVIOUS
  <2> QED
    BY <2>1 DEF DataInv
<1> QED
  BY <1>1, <1>2, <1>3, <1>4, <1>5 DEF IInv

\* If nobody opens the device before kbd_init has returned, the invariant
\* holds for ever.
THEOREM Invariance ==
  ASSUME ~EarlyOpen PROVE Spec => []IInv
<1>1. IInv /\ [Next]_vars => IInv'
  BY TypeOKStep, PcInvStep, LockInvStep, CpuInvStep, DataInvStep DEF IInv
<1> QED
  BY InitInv, <1>1, PTL DEF Spec

\* The types are respected and both indices stay inside the buffer.
THEOREM TypeCorrect ==
  ASSUME ~EarlyOpen PROVE Spec => []TypeOK
<1>1. IInv => TypeOK
  BY DEF IInv
<1> QED
  BY Invariance, <1>1, PTL

\* kbd_dev.lock gives mutual exclusion between readers, writers and the
\* interrupt handler.
THEOREM Exclusion ==
  ASSUME ~EarlyOpen PROVE Spec => []MutualExclusion
<1>1. IInv => MutualExclusion
  BY DEF IInv, LockInv, MutualExclusion
<1> QED
  BY Invariance, <1>1, PTL

\* The handler never waits for the thread that it has interrupted.
THEOREM SelfDeadlockFree ==
  ASSUME ~EarlyOpen PROVE Spec => []NoSelfDeadlock
<1>1. IInv => NoSelfDeadlock
  <2> SUFFICES ASSUME IInv, NEW t \in Threads, pc[IRQ] = "irq_spin", lock = t
               PROVE  cpu[t] # cpu[IRQ]
    BY DEF NoSelfDeadlock
  <2>1. InCS(t)
    BY DEF IInv, LockInv, Contexts
  <2>2. cpu[t] # NoCpu
    BY <2>1 DEF IInv, CpuInv, InCS
  <2> QED
    BY <2>2, KbdAssumption DEF IInv, CpuInv, Contexts
<1> QED
  BY Invariance, <1>1, PTL

\* The two indices and the counter agree whenever the buffer is unlocked, and
\* a key that is alone in the buffer is intact.
THEOREM BufferCoherent ==
  ASSUME ~EarlyOpen PROVE Spec => [](IndicesAgree /\ LoneKeyIntact)
<1>1. IInv => IndicesAgree /\ LoneKeyIntact
  <2> SUFFICES ASSUME IInv, lock = Free
               PROVE  IndicesAgree /\ LoneKeyIntact
    BY DEF IndicesAgree, LoneKeyIntact
  <2>1. Settled
    BY KbdAssumption DEF IInv, LockInv, InCS, Settled, Contexts
  <2> QED
    BY <2>1 DEF IInv, DataInv, IndicesAgree, LoneKeyIntact
<1> QED
  BY Invariance, <1>1, PTL

\* Whoever holds the lock runs: the handler never suspends it, so that those
\* who spin wait for a context that is at work.
HolderRuns == \A x \in Contexts : lock = x => Runs(x)

\* The ring changes by a step of the context that holds the lock, or when the
\* module goes and nobody is inside.
RingOwned ==
  dev' # dev =>
    \/ /\ lock # Free /\ lock' = lock
       /\ \A y \in Contexts \ {lock} : pc'[y] = pc[y]
    \/ /\ lock = Free /\ mod' = "unloaded"
       /\ \A t \in Threads : pc[t] = "user"

\* A thread that holds kbd_dev.lock cannot be interrupted by the handler,
\* which would otherwise spin for it: the safety half of CallsReturn.
THEOREM HolderUndisturbed ==
  ASSUME ~EarlyOpen PROVE Spec => []HolderRuns
<1>1. IInv => HolderRuns
  <2> SUFFICES ASSUME IInv, NEW x \in Threads, lock = x
               PROVE  cpu[x] # cpu[IRQ]
    BY DEF HolderRuns, Runs, Contexts
  <2>1. InCS(x)
    BY DEF IInv, LockInv, Contexts
  <2>2. cpu[x] # NoCpu
    BY <2>1 DEF IInv, CpuInv, InCS
  <2> QED
    BY <2>2, KbdAssumption DEF IInv, CpuInv, Contexts
<1> QED
  BY Invariance, <1>1, PTL

\* buff, the indices and cnt belong to the holder of the lock, in get_char,
\* put_char and reset_buffer alike.
THEOREM RingUnderLock ==
  ASSUME ~EarlyOpen PROVE Spec => [][RingOwned]_vars
<1>1. ASSUME IInv, [Next]_vars PROVE [RingOwned]_vars
  <2> USE <1>1
  <2>0. UNCHANGED dev => RingOwned
    BY DEF RingOwned
  <2>1. ASSUME NEW t \in Threads,
               kbd_open(t) \/ kbd_release(t) \/ kbd_read(t) \/ kbd_write(t) \/ RdDone(t)
               \/ RdNext(t) \/ RdLock(t) \/ RdEmpty(t) \/ RdMore(t) \/ RdPutUser(t)
               \/ RdFault(t) \/ WrLock(t) \/ WrUnlock(t)
        PROVE  RingOwned
    BY <2>0, <2>1 DEF kbd_open, kbd_release, kbd_read, kbd_write, RdDone, RdNext, RdLock,
       Acquire, RdEmpty, RdMore, RdPutUser, RdFault, WrLock, WrUnlock
  <2>2. CASE IrqEnter \/ IrqRelease \/ IrqPress \/ IrqLock \/ IrqUnlock \/ CdevAdd
               \/ SpinLockInit \/ RequestIrq
    BY <2>0, <2>2 DEF IrqEnter, IrqRelease, IrqPress, IrqLock, Acquire, IrqUnlock, CdevAdd,
       SpinLockInit, RequestIrq
  <2>3. ASSUME NEW x \in Contexts, InCS(x), NEW l, UNCHANGED lock, pc' = [pc EXCEPT ![x] = l]
        PROVE  RingOwned
    BY <2>3, KbdAssumption DEF IInv, TypeOK, LockInv, RingOwned, Contexts
  <2>4. ASSUME NEW t \in Threads, GetCharTake(t) \/ GetCharDec(t) \/ WrReset(t)
        PROVE  RingOwned
    <3>1. InCS(t) /\ t \in Contexts /\ UNCHANGED lock
      BY <2>4 DEF GetCharTake, GetCharDec, WrReset, InCS, Contexts
    <3>2. PICK l : pc' = [pc EXCEPT ![t] = l]
      BY <2>4 DEF GetCharTake, GetCharDec, WrReset
    <3> QED
      BY <2>3, <3>1, <3>2
  <2>5. CASE PutCharStore \/ PutCharInc
    <3>1. InCS(IRQ) /\ IRQ \in Contexts /\ UNCHANGED lock
      BY <2>5 DEF PutCharStore, PutCharInc, InCS, Contexts
    <3>2. PICK l : pc' = [pc EXCEPT ![IRQ] = l]
      BY <2>5 DEF PutCharStore, PutCharInc
    <3> QED
      BY <2>3, <3>1, <3>2
  <2>6. CASE kbd_exit
    <3>1. mod' = "unloaded" /\ \A t \in Threads : pc[t] = "user"
      BY <2>6 DEF kbd_exit, IInv, PcInv
    <3>2. lock = Free
      BY <2>6, <3>1, KbdAssumption DEF kbd_exit, IInv, TypeOK, LockInv, InCS, Contexts
    <3> QED
      BY <3>1, <3>2 DEF RingOwned
  <2>7. CASE UNCHANGED vars
    BY <2>0, <2>7 DEF vars
  <2> QED
    BY <2>1, <2>2, <2>4, <2>5, <2>6, <2>7 DEF Next, Syscall, Handler
<1> QED
  BY Invariance, <1>1, PTL DEF Spec

-----------------------------------------------------------------------------
(* The driver implements the abstract store of keys *)

\* Between the two halves of get_char the reader already holds the key that it
\* takes, if that key is alone.
HandInv ==
  \A t \in Threads :
    pc[t] = "rd_dec" /\ Len(keys) = 1 /\ keys[1].alone => ch[t] = keys[1].ch

\* The lock keeps everybody else from the keys meanwhile.
LEMMA HandInvStep ==
  ASSUME IInv, HandInv, [Next]_vars
  PROVE  HandInv'
<1> USE KbdAssumption DEF IInv, TypeOK, PcInv, Contexts, dev, locals, HandInv
<1>1. ASSUME NEW t \in Threads, kbd_open(t) PROVE HandInv'
  BY <1>1 DEF kbd_open
<1>2. ASSUME NEW t \in Threads, kbd_release(t) PROVE HandInv'
  BY <1>2 DEF kbd_release
<1>3. ASSUME NEW t \in Threads, kbd_read(t) PROVE HandInv'
  BY <1>3 DEF kbd_read
<1>4. ASSUME NEW t \in Threads, kbd_write(t) PROVE HandInv'
  BY <1>4 DEF kbd_write, LocalIrqSave
<1>5. ASSUME NEW t \in Threads, RdDone(t) PROVE HandInv'
  BY <1>5 DEF RdDone
<1>6. ASSUME NEW t \in Threads, RdNext(t) PROVE HandInv'
  BY <1>6 DEF RdNext, LocalIrqSave
<1>7. ASSUME NEW t \in Threads, RdLock(t) PROVE HandInv'
  BY <1>7 DEF RdLock, Acquire
<1>8. ASSUME NEW t \in Threads, GetCharTake(t) PROVE HandInv'
  <2>1. \A u \in Threads : u # t => pc[u] # "rd_dec"
    BY <1>8 DEF GetCharTake, LockInv, InCS
  <2>2. Settled
    BY <1>8, <2>1 DEF GetCharTake, LockInv, InCS, Settled
  <2>3. Len(keys) = 1 /\ keys[1].alone => buff[getIdx] = keys[1].ch
    BY <2>2 DEF DataInv
  <2> QED
    BY <1>8, <2>1, <2>3 DEF GetCharTake
<1>9. ASSUME NEW t \in Threads, GetCharDec(t) PROVE HandInv'
  <2>1. \A u \in Threads : u # t => pc[u] # "rd_dec"
    BY <1>9 DEF GetCharDec, LockInv, InCS
  <2> QED
    BY <1>9, <2>1 DEF GetCharDec
<1>10. ASSUME NEW t \in Threads, RdEmpty(t) PROVE HandInv'
  BY <1>10 DEF RdEmpty, UnlockIrqRestore
<1>11. ASSUME NEW t \in Threads, RdMore(t) PROVE HandInv'
  BY <1>11 DEF RdMore, UnlockIrqRestore
<1>12. ASSUME NEW t \in Threads, RdPutUser(t) PROVE HandInv'
  BY <1>12 DEF RdPutUser
<1>13. ASSUME NEW t \in Threads, RdFault(t) PROVE HandInv'
  BY <1>13 DEF RdFault
<1>14. ASSUME NEW t \in Threads, WrLock(t) PROVE HandInv'
  BY <1>14 DEF WrLock, Acquire
<1>15. ASSUME NEW t \in Threads, WrReset(t) PROVE HandInv'
  <2>1. \A u \in Threads : pc'[u] # "rd_dec"
    BY <1>15 DEF WrReset, LockInv, InCS
  <2> QED
    BY <2>1
<1>16. ASSUME NEW t \in Threads, WrUnlock(t) PROVE HandInv'
  BY <1>16 DEF WrUnlock, UnlockIrqRestore
<1>17. CASE IrqEnter
  BY <1>17 DEF IrqEnter
<1>18. CASE IrqRelease
  BY <1>18 DEF IrqRelease
<1>19. CASE IrqPress
  BY <1>19 DEF IrqPress
<1>20. CASE IrqLock
  BY <1>20 DEF IrqLock, Acquire
<1>21. CASE PutCharStore
  BY <1>21 DEF PutCharStore
<1>22. CASE PutCharInc
  <2>1. \A u \in Threads : pc'[u] # "rd_dec"
    BY <1>22 DEF PutCharInc, LockInv, InCS
  <2> QED
    BY <2>1
<1>23. CASE IrqUnlock
  BY <1>23 DEF IrqUnlock
<1>24. CASE CdevAdd
  BY <1>24 DEF CdevAdd
<1>25. CASE SpinLockInit
  BY <1>25 DEF SpinLockInit
<1>26. CASE RequestIrq
  BY <1>26 DEF RequestIrq
<1>27. CASE kbd_exit
  <2>1. \A u \in Threads : pc'[u] # "rd_dec"
    BY <1>27 DEF kbd_exit
  <2> QED
    BY <2>1
<1>28. CASE UNCHANGED vars
  BY <1>28 DEF vars
<1> QED
  BY <1>1, <1>2, <1>3, <1>4, <1>5, <1>6, <1>7, <1>8, <1>9, <1>10, <1>11, <1>12, <1>13,
     <1>14, <1>15, <1>16, <1>17, <1>18, <1>19, <1>20, <1>21, <1>22, <1>23, <1>24, <1>25,
     <1>26, <1>27, <1>28 DEF Next, Syscall, Handler

\* The lone key and the keys in hand, as Store reads them from the driver.
Lone   == IF Len(keys) = 1 /\ keys[1].alone THEN keys[1].ch ELSE Free
InHand == [t \in Threads |-> IF pc[t] \in {"rd_more", "rd_put"} THEN ch[t] ELSE Free]

\* A step that leaves the keys alone, and the hands, is not seen in the store.
LEMMA StoreFrame ==
  ASSUME UNCHANGED <<cnt, keys>>,
         \A u \in Threads :
           /\ pc[u] \in {"rd_more", "rd_put"} <=> pc'[u] \in {"rd_more", "rd_put"}
           /\ pc[u] \in {"rd_more", "rd_put"} => ch'[u] = ch[u]
  PROVE  UNCHANGED Store!store
<1>1. InHand' = InHand
  BY DEF InHand
<1>2. Lone' = Lone
  BY DEF Lone
<1> QED
  BY <1>1, <1>2 DEF Store!store, InHand, Lone

\* Every step of the driver is a step of the store, or none: get_char takes a
\* key when it stores cnt--, put_char adds one when it stores cnt++, and
\* put_user passes one on, or loses it.
LEMMA StoreStep ==
  ASSUME IInv, HandInv, [Next]_vars
  PROVE  [Store!Next]_(Store!store)
<1> USE KbdAssumption, NoKeyAssumption DEF IInv, TypeOK, Contexts, dev, locals
<1>1. ASSUME NEW t \in Threads, kbd_open(t) PROVE [Store!Next]_(Store!store)
  BY <1>1, StoreFrame DEF kbd_open
<1>2. ASSUME NEW t \in Threads, kbd_release(t) PROVE [Store!Next]_(Store!store)
  BY <1>2, StoreFrame DEF kbd_release
<1>3. ASSUME NEW t \in Threads, kbd_read(t) PROVE [Store!Next]_(Store!store)
  BY <1>3, StoreFrame DEF kbd_read
<1>4. ASSUME NEW t \in Threads, kbd_write(t) PROVE [Store!Next]_(Store!store)
  BY <1>4, StoreFrame DEF kbd_write, LocalIrqSave
<1>5. ASSUME NEW t \in Threads, RdDone(t) PROVE [Store!Next]_(Store!store)
  BY <1>5, StoreFrame DEF RdDone
<1>6. ASSUME NEW t \in Threads, RdNext(t) PROVE [Store!Next]_(Store!store)
  BY <1>6, StoreFrame DEF RdNext, LocalIrqSave
<1>7. ASSUME NEW t \in Threads, RdLock(t) PROVE [Store!Next]_(Store!store)
  BY <1>7, StoreFrame DEF RdLock, Acquire
<1>8. ASSUME NEW t \in Threads, GetCharTake(t) PROVE [Store!Next]_(Store!store)
  BY <1>8, StoreFrame DEF GetCharTake
<1>9. ASSUME NEW t \in Threads, GetCharDec(t) PROVE [Store!Next]_(Store!store)
  <2>1. /\ pc[t] = "rd_dec" /\ pc' = [pc EXCEPT ![t] = "rd_more"]
        /\ tmp[t] = cnt /\ cnt > 0 /\ cnt = Len(keys) /\ cnt' = cnt - 1
        /\ ch' = ch
    BY <1>9 DEF GetCharDec, DataInv
  <2>2. keys # <<>> /\ keys' = Tail(keys)
    BY <1>9, <2>1 DEF GetCharDec
  <2>3. Lone' = Free
    <3> SUFFICES ASSUME Len(keys') = 1 PROVE ~keys'[1].alone
      BY DEF Lone
    <3>1. Len(keys) = 2 /\ keys'[1] = keys[2]
      BY <2>1, <2>2
    <3> QED
      BY <3>1 DEF DataInv
  <2>4. InHand[t] = Free /\ InHand' = [InHand EXCEPT ![t] = ch[t]]
    BY <2>1 DEF InHand
  <2>5. Lone # Free => ch[t] = Lone
    BY <2>1 DEF Lone, HandInv
  <2>6. Store!Take(t)
    <3>1. ch[t] \in Chars
      OBVIOUS
    <3> HIDE DEF IInv, TypeOK
    <3> QED
      BY <2>1, <2>3, <2>4, <2>5, <3>1 DEF Store!Take, Lone, InHand
  <2> QED
    BY <2>6 DEF Store!Next
<1>10. ASSUME NEW t \in Threads, RdEmpty(t) PROVE [Store!Next]_(Store!store)
  BY <1>10, StoreFrame DEF RdEmpty, UnlockIrqRestore
<1>11. ASSUME NEW t \in Threads, RdMore(t) PROVE [Store!Next]_(Store!store)
  BY <1>11, StoreFrame DEF RdMore, UnlockIrqRestore
<1>12. ASSUME NEW t \in Threads, RdPutUser(t) PROVE [Store!Next]_(Store!store)
  <2>1. InHand[t] # Free /\ InHand' = [InHand EXCEPT ![t] = Free]
    <3>1. InHand[t] = ch[t] /\ ch[t] \in Chars
      BY <1>12 DEF RdPutUser, InHand
    <3>2. \A u \in Threads : InHand'[u] = IF u = t THEN Free ELSE InHand[u]
      BY <1>12 DEF RdPutUser, InHand
    <3> QED
      BY <3>1, <3>2 DEF InHand
  <2>2. UNCHANGED <<cnt, keys>>
    BY <1>12 DEF RdPutUser
  <2>3. Store!PassOn(t)
    BY <2>1, <2>2 DEF Store!PassOn, InHand
  <2> QED
    BY <2>3 DEF Store!Next
<1>13. ASSUME NEW t \in Threads, RdFault(t) PROVE [Store!Next]_(Store!store)
  <2>1. InHand[t] # Free /\ InHand' = [InHand EXCEPT ![t] = Free]
    <3>1. InHand[t] = ch[t] /\ ch[t] \in Chars
      BY <1>13 DEF RdFault, InHand
    <3>2. \A u \in Threads : InHand'[u] = IF u = t THEN Free ELSE InHand[u]
      BY <1>13 DEF RdFault, InHand
    <3> QED
      BY <3>1, <3>2 DEF InHand
  <2>2. UNCHANGED <<cnt, keys>>
    BY <1>13 DEF RdFault
  <2>3. Store!PassOn(t)
    BY <2>1, <2>2 DEF Store!PassOn, InHand
  <2> QED
    BY <2>3 DEF Store!Next
<1>14. ASSUME NEW t \in Threads, WrLock(t) PROVE [Store!Next]_(Store!store)
  BY <1>14, StoreFrame DEF WrLock, Acquire
<1>15. ASSUME NEW t \in Threads, WrReset(t) PROVE [Store!Next]_(Store!store)
  <2>1. cnt' = 0 /\ keys' = <<>> /\ InHand' = InHand
    BY <1>15 DEF WrReset, reset_buffer, InHand
  <2>2. Store!Clear
    BY <2>1 DEF Store!Clear, InHand
  <2> QED
    BY <2>2 DEF Store!Next
<1>16. ASSUME NEW t \in Threads, WrUnlock(t) PROVE [Store!Next]_(Store!store)
  BY <1>16, StoreFrame DEF WrUnlock, UnlockIrqRestore
<1>17. CASE IrqEnter
  BY <1>17, StoreFrame DEF IrqEnter
<1>18. CASE IrqRelease
  BY <1>18, StoreFrame DEF IrqRelease
<1>19. CASE IrqPress
  BY <1>19, StoreFrame DEF IrqPress
<1>20. CASE IrqLock
  BY <1>20, StoreFrame DEF IrqLock, Acquire
<1>21. CASE PutCharStore
  BY <1>21, StoreFrame DEF PutCharStore
<1>22. CASE PutCharInc
  <2>1. /\ tmp[IRQ] = cnt /\ cnt = Len(keys) /\ cnt' = cnt + 1
        /\ keys' = Append(keys, [ch |-> ch[IRQ], alone |-> tmp[IRQ] = 0])
        /\ pc' = [pc EXCEPT ![IRQ] = "irq_unlock"]
        /\ ch' = [ch EXCEPT ![IRQ] = Nul]
    BY <1>22 DEF PutCharInc, DataInv
  <2>2. InHand' = InHand
    BY <2>1 DEF InHand
  <2>3. Lone' = IF cnt = 0 THEN ch[IRQ] ELSE Free
    <3> DEFINE key == [ch |-> ch[IRQ], alone |-> tmp[IRQ] = 0]
    <3>1. key.ch = ch[IRQ] /\ (key.alone <=> tmp[IRQ] = 0)
          /\ key \in [ch : Chars, alone : BOOLEAN]
      OBVIOUS
    <3>2. keys' = Append(keys, key)
      BY <2>1
    <3> HIDE DEF key
    <3>3. Len(keys') = cnt + 1 /\ keys'[cnt + 1] = key
      BY <2>1, <3>1, <3>2
    <3> QED
      BY <2>1, <3>1, <3>3 DEF Lone
  <2>4. Store!Press(ch[IRQ])
    BY <2>1, <2>2, <2>3 DEF Store!Press, InHand, Lone
  <2> QED
    BY <2>4 DEF Store!Next
<1>23. CASE IrqUnlock
  BY <1>23, StoreFrame DEF IrqUnlock
<1>24. CASE CdevAdd
  BY <1>24, StoreFrame DEF CdevAdd
<1>25. CASE SpinLockInit
  BY <1>25, StoreFrame DEF SpinLockInit
<1>26. CASE RequestIrq
  BY <1>26, StoreFrame DEF RequestIrq
<1>27. CASE kbd_exit
  <2>1. cnt' = 0 /\ keys' = <<>> /\ InHand' = InHand
    BY <1>27 DEF kbd_exit, reset_buffer, InHand
  <2>2. Store!Clear
    BY <2>1 DEF Store!Clear, InHand
  <2> QED
    BY <2>2 DEF Store!Next
<1>28. CASE UNCHANGED vars
  BY <1>28, StoreFrame DEF vars
<1> QED
  BY <1>1, <1>2, <1>3, <1>4, <1>5, <1>6, <1>7, <1>8, <1>9, <1>10, <1>11, <1>12, <1>13,
     <1>14, <1>15, <1>16, <1>17, <1>18, <1>19, <1>20, <1>21, <1>22, <1>23, <1>24, <1>25,
     <1>26, <1>27, <1>28 DEF Next, Syscall, Handler

\* The driver implements the store of keys: readers take one key at a time and
\* only what is there, a key that is alone is the one that is taken, and a
\* fault of put_user loses the key in hand and no other.
THEOREM StoreImplemented ==
  ASSUME ~EarlyOpen PROVE Spec => Store!SafeSpec
<1>1. Init => Store!Init
  <2> SUFFICES ASSUME Init PROVE Store!Init
    OBVIOUS
  <2>1. cnt = 0 /\ keys = <<>> /\ \A t \in Threads : pc[t] = "user"
    BY KbdAssumption DEF Init, Contexts
  <2> QED
    BY <2>1 DEF Store!Init
<1>2. Init => HandInv
  BY KbdAssumption DEF Init, HandInv, Contexts
<1>3. IInv /\ HandInv /\ [Next]_vars => HandInv'
  BY HandInvStep
<1>4. IInv /\ HandInv /\ [Next]_vars => [Store!Next]_(Store!store)
  BY StoreStep
<1> QED
  BY Invariance, <1>1, <1>2, <1>3, <1>4, PTL DEF Spec, Store!SafeSpec
=============================================================================
