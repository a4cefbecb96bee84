------------------------------ MODULE So2Cdev ------------------------------
(***************************************************************************)
(* The character device Drivers/so2_cdev/kernel/so2_cdev.c: one message,   *)
(* kept as a C string, that read(2) returns and write(2) replaces.         *)
(*                                                                         *)
(* isOpen admits one open file, but the threads of a process share it and  *)
(* nothing orders their calls, so strlen and the copies go byte by byte.   *)
(* The VFS hands the driver a copy of the file position and stores it back *)
(* when the call succeeds; pread and pwrite bring a position of their own. *)
(***************************************************************************)
EXTENDS Naturals, Sequences, FiniteSets

CONSTANTS
  MSG_MAX, MESSAGE,
  Bytes, NUL,
  Threads, Files,
  MaxSize,    \* bound: the largest size given to read(2) and write(2)
  NoFile

ASSUME So2Assumption ==
  /\ MSG_MAX \in Nat \ {0}
  /\ NUL \in Bytes
  /\ MESSAGE \in Seq(Bytes \ {NUL}) /\ Len(MESSAGE) < MSG_MAX
  /\ MaxSize \in Nat
  /\ NoFile \notin Files

VARIABLES
  mod,       \* out, added (cdev_add), live
  isOpen, msg, msg_len,      \* struct so2_device_data
  opened,    \* the open files of the device
  f_pos,     \* position of each file
  pc,
  file, own, \* the file of a thread's call; does it bring its own position?
  size, offset,              \* arguments of the call
  lenOfStr, n,               \* locals of so2_read and so2_write
  i,         \* progress of strlen or of a copy
  torn       \* history: has the message changed since the call began?

device == <<isOpen, msg, msg_len>>
args   == <<file, own, size>>
vars   == <<mod, device, opened, f_pos, pc, args, offset, lenOfStr, n, i, torn>>

Index == 0..(MSG_MAX - 1)
Least(a, b) == IF a < b THEN a ELSE b

-----------------------------------------------------------------------------
(* so2_open, so2_release *)

\* Seeded fault: isOpen is set and never looked at.
OpenUnchecked(f) ==
  /\ mod # "out"
  /\ f \notin opened
  /\ isOpen' = 1
  /\ opened' = opened \cup {f}
  /\ UNCHANGED <<mod, msg, msg_len, f_pos, pc, args, offset, lenOfStr, n, i, torn>>

\* atomic_cmpxchg; a second open fails with -EBUSY and changes nothing.
so2_open(f) ==
  /\ mod # "out"
  /\ f \notin opened
  /\ isOpen = 0
  /\ isOpen' = 1
  /\ opened' = opened \cup {f}
  /\ UNCHANGED <<mod, msg, msg_len, f_pos, pc, args, offset, lenOfStr, n, i, torn>>

\* The last reference to the file goes: no call on it is under way.
so2_release(f) ==
  /\ f \in opened
  /\ \A t \in Threads : file[t] # f
  /\ isOpen' = 0
  /\ opened' = opened \ {f}
  /\ f_pos'  = [f_pos EXCEPT ![f] = 0]
  /\ UNCHANGED <<mod, msg, msg_len, pc, args, offset, lenOfStr, n, i, torn>>

-----------------------------------------------------------------------------
(* Entering and leaving a call *)

Enter(t, first) ==
  /\ pc[t] = "user"
  /\ \E f \in opened, s \in 0..MaxSize :
       /\ file' = [file EXCEPT ![t] = f]
       /\ size' = [size EXCEPT ![t] = s]
       /\ \/ /\ own' = [own EXCEPT ![t] = FALSE]
             /\ offset' = [offset EXCEPT ![t] = f_pos[f]]
          \/ /\ own' = [own EXCEPT ![t] = TRUE]
             /\ \E o \in 0..MSG_MAX : offset' = [offset EXCEPT ![t] = o]
  /\ pc' = [pc EXCEPT ![t] = first]

Leave(t) ==
  /\ pc'   = [pc EXCEPT ![t] = "user"]
  /\ file' = [file EXCEPT ![t] = NoFile]
  /\ own'  = [own EXCEPT ![t] = FALSE]
  /\ size' = [size EXCEPT ![t] = 0]
  /\ offset' = [offset EXCEPT ![t] = 0]
  /\ lenOfStr' = [lenOfStr EXCEPT ![t] = 0]
  /\ n' = [n EXCEPT ![t] = 0]
  /\ i' = [i EXCEPT ![t] = 0]
  /\ torn' = [torn EXCEPT ![t] = FALSE]
  /\ UNCHANGED <<mod, device, opened>>

\* A call that ends with -EFAULT leaves the file position alone ...
Fails(t) == Leave(t) /\ UNCHANGED f_pos

\* ... and one that succeeds stores it back, if it was the file's.
Succeeds(t) ==
  /\ Leave(t)
  /\ f_pos' = IF own[t] THEN f_pos ELSE [f_pos EXCEPT ![file[t]] = offset[t]]

-----------------------------------------------------------------------------
(* so2_read *)

so2_read(t) ==
  /\ Enter(t, "strlen")
  /\ UNCHANGED <<mod, device, opened, f_pos, lenOfStr, n, i, torn>>

StrlenNext(t) ==
  /\ pc[t] = "strlen"
  /\ msg[i[t]] # NUL
  /\ i' = [i EXCEPT ![t] = @ + 1]
  /\ UNCHANGED <<mod, device, opened, f_pos, pc, args, offset, lenOfStr, n, torn>>

StrlenDone(t) ==
  /\ pc[t] = "strlen"
  /\ msg[i[t]] = NUL
  /\ lenOfStr' = [lenOfStr EXCEPT ![t] = i[t]]
  /\ i'  = [i EXCEPT ![t] = 0]
  /\ pc' = [pc EXCEPT ![t] = "check"]
  /\ UNCHANGED <<mod, device, opened, f_pos, args, offset, n, torn>>

ReadEof(t) ==
  /\ pc[t] = "check"
  /\ offset[t] >= lenOfStr[t]
  /\ Succeeds(t)

\* Seeded fault: the position is not taken off.
WholeLength(t) == Least(size[t], lenOfStr[t])

\* The number of bytes to copy.
ReadCount(t) == Least(size[t], lenOfStr[t] - offset[t])

\* Seeded fault: no check for the end of the message, so n underflows.
NoEofCheck(t) ==
  /\ pc[t] = "check"
  /\ n'  = [n EXCEPT ![t] = ReadCount(t)]
  /\ pc' = [pc EXCEPT ![t] = "copy_to"]
  /\ UNCHANGED <<mod, device, opened, f_pos, args, offset, lenOfStr, i, torn>>

ReadSize(t) ==
  /\ pc[t] = "check"
  /\ offset[t] < lenOfStr[t]
  /\ n'  = [n EXCEPT ![t] = ReadCount(t)]
  /\ pc' = [pc EXCEPT ![t] = "copy_to"]
  /\ UNCHANGED <<mod, device, opened, f_pos, args, offset, lenOfStr, i, torn>>

\* copy_to_user moves a byte, or faults.
CopyTo(t) ==
  /\ pc[t] = "copy_to"
  /\ i[t] < n[t]
  /\ i' = [i EXCEPT ![t] = @ + 1]
  /\ UNCHANGED <<mod, device, opened, f_pos, pc, args, offset, lenOfStr, n, torn>>

CopyToFaults(t) ==
  /\ pc[t] = "copy_to"
  /\ i[t] < n[t]
  /\ Fails(t)

\* Seeded fault: the position moves by what was asked for.
AdvancedBySize(t) == offset[t] + size[t]

Advanced(t) == offset[t] + n[t]

ReadAdvance(t) ==
  /\ pc[t] = "copy_to"
  /\ i[t] = n[t]
  /\ offset' = [offset EXCEPT ![t] = Advanced(t)]
  /\ pc' = [pc EXCEPT ![t] = "read_ret"]
  /\ UNCHANGED <<mod, device, opened, f_pos, args, lenOfStr, n, i, torn>>

ReadReturns(t) == pc[t] = "read_ret" /\ Succeeds(t)

-----------------------------------------------------------------------------
(* so2_write *)

\* Seeded fault: no room is left for the terminator.
NoRoom(s) == Least(s, MSG_MAX)

WriteCount(s) == Least(s, MSG_MAX - 1)

so2_write(t) ==
  /\ Enter(t, "copy_from")
  /\ n' = [n EXCEPT ![t] = WriteCount(size'[t])]
  /\ UNCHANGED <<mod, device, opened, f_pos, lenOfStr, i, torn>>

\* Whoever is in a call now sees the message change.
Tears == torn' = [t \in Threads |-> torn[t] \/ pc[t] # "user"]

\* copy_from_user moves a byte ...
CopyFrom(t) ==
  /\ pc[t] = "copy_from"
  /\ i[t] < n[t]
  /\ \E b \in Bytes : msg' = [msg EXCEPT ![i[t]] = b]
  /\ i' = [i EXCEPT ![t] = @ + 1]
  /\ Tears
  /\ UNCHANGED <<mod, isOpen, msg_len, opened, f_pos, pc, args, offset, lenOfStr, n>>

\* ... or faults, and clears the bytes that it could not copy.
CopyFromFaults(t) ==
  /\ pc[t] = "copy_from"
  /\ i[t] < n[t]
  /\ msg' = [k \in Index |-> IF i[t] <= k /\ k < n[t] THEN NUL ELSE msg[k]]
  /\ i' = [i EXCEPT ![t] = n[t]]
  /\ Tears
  /\ pc' = [pc EXCEPT ![t] = "write_fault"]
  /\ UNCHANGED <<mod, isOpen, msg_len, opened, f_pos, args, offset, lenOfStr, n>>

WriteFails(t) == pc[t] = "write_fault" /\ Fails(t)

\* The terminator, msg_len and *offset = 0.
WriteEnd(t) ==
  /\ pc[t] = "copy_from"
  /\ i[t] = n[t]
  /\ msg' = [msg EXCEPT ![n[t]] = NUL]
  /\ msg_len' = n[t]
  /\ offset' = [offset EXCEPT ![t] = 0]
  /\ Tears
  /\ pc' = [pc EXCEPT ![t] = "write_ret"]
  /\ UNCHANGED <<mod, isOpen, opened, f_pos, args, lenOfStr, n, i>>

WriteReturns(t) == pc[t] = "write_ret" /\ Succeeds(t)

-----------------------------------------------------------------------------
(* so2_cdev_init, so2_cdev_exit *)

\* From here on the device can be opened.
CdevAdd ==
  /\ mod = "out"
  /\ mod' = "added"
  /\ UNCHANGED <<device, opened, f_pos, pc, args, offset, lenOfStr, n, i, torn>>

\* strscpy copies MESSAGE and its terminator; msg_len is not set.
StrsCpy ==
  /\ mod = "added"
  /\ mod' = "live"
  /\ msg' = [k \in Index |-> IF k < Len(MESSAGE) THEN MESSAGE[k + 1]
                             ELSE IF k = Len(MESSAGE) THEN NUL ELSE msg[k]]
  /\ Tears
  /\ UNCHANGED <<isOpen, msg_len, opened, f_pos, pc, args, offset, lenOfStr, n, i>>

\* rmmod is refused while the device is open (.owner); the next insmod finds
\* zeroed static memory.
so2_cdev_exit ==
  /\ mod = "live"
  /\ opened = {}
  /\ mod' = "out"
  /\ msg' = [k \in Index |-> NUL]
  /\ msg_len' = 0
  /\ UNCHANGED <<isOpen, opened, f_pos, pc, args, offset, lenOfStr, n, i, torn>>

-----------------------------------------------------------------------------
Init ==
  /\ mod = "out"
  /\ isOpen = 0
  /\ msg = [k \in Index |-> NUL]
  /\ msg_len = 0
  /\ opened = {}
  /\ f_pos = [f \in Files |-> 0]
  /\ pc = [t \in Threads |-> "user"]
  /\ file = [t \in Threads |-> NoFile]
  /\ own = [t \in Threads |-> FALSE]
  /\ size = [t \in Threads |-> 0]
  /\ offset = [t \in Threads |-> 0]
  /\ lenOfStr = [t \in Threads |-> 0]
  /\ n = [t \in Threads |-> 0]
  /\ i = [t \in Threads |-> 0]
  /\ torn = [t \in Threads |-> FALSE]

Read(t) ==
  \/ StrlenNext(t) \/ StrlenDone(t) \/ ReadEof(t) \/ ReadSize(t)
  \/ CopyTo(t) \/ CopyToFaults(t) \/ ReadAdvance(t) \/ ReadReturns(t)

Write(t) ==
  \/ CopyFrom(t) \/ CopyFromFaults(t) \/ WriteFails(t) \/ WriteEnd(t)
  \/ WriteReturns(t)

Next ==
  \/ \E f \in Files : so2_open(f) \/ so2_release(f)
  \/ \E t \in Threads : so2_read(t) \/ so2_write(t) \/ Read(t) \/ Write(t)
  \/ CdevAdd \/ StrsCpy \/ so2_cdev_exit

Spec == Init /\ [][Next]_vars

-----------------------------------------------------------------------------
(* Properties *)

\* Every variable has its type.
TypeOK ==
  /\ mod \in {"out", "added", "live"}
  /\ isOpen \in {0, 1}
  /\ msg \in [Index -> Bytes]
  /\ msg_len \in Index
  /\ opened \subseteq Files
  /\ f_pos \in [Files -> Nat]
  /\ pc \in [Threads -> {"user", "strlen", "check", "copy_to", "read_ret",
                         "copy_from", "write_fault", "write_ret"}]
  /\ file \in [Threads -> Files \cup {NoFile}]
  /\ own \in [Threads -> BOOLEAN]
  /\ size \in [Threads -> Nat]
  /\ offset \in [Threads -> Nat]
  /\ lenOfStr \in [Threads -> Nat]
  /\ n \in [Threads -> Nat]
  /\ i \in [Threads -> Nat]
  /\ torn \in [Threads -> BOOLEAN]

\* No call touches memory outside msg, however reads, writes and faults
\* interleave: strlen always meets a terminator, the length it found is
\* still inside msg when the bytes are copied, and a write has room for '\0'.
NoOverrun ==
  \A t \in Threads :
    /\ pc[t] = "strlen" => i[t] \in Index
    /\ pc[t] = "copy_to" /\ i[t] < n[t] => offset[t] + i[t] \in Index
    /\ pc[t] = "copy_from" => i[t] \in Index /\ n[t] \in Index

\* At most one file is open, and isOpen says whether one is (line 25).
SingleFile ==
  /\ \A f, g \in opened : f = g
  /\ isOpen = 1 <=> opened # {}

\* A read that no write overlaps returns bytes of the message only: nothing
\* at or behind the terminator, left over from a longer message.
NoStaleTail ==
  \A t \in Threads :
    pc[t] = "copy_to" /\ i[t] < n[t] /\ ~torn[t] =>
      \A k \in 0..(offset[t] + i[t]) : msg[k] # NUL

\* The file position never leaves the message buffer.
PositionInside == \A f \in Files : f_pos[f] \in Index
=============================================================================
