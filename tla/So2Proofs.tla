---------------------------- MODULE So2Proofs ----------------------------
(***************************************************************************)
(* Proofs about So2Cdev, for every buffer size, message, set of threads    *)
(* and files, and for calls of any size.                                   *)
(***************************************************************************)
EXTENDS So2Cdev, Integers, TLAPS

-----------------------------------------------------------------------------
(* The inductive invariant *)

\* The last byte of msg is never overwritten: copies stop before it.
Terminated == msg[MSG_MAX - 1] = NUL

\* What a call knows of its locals at each place, and nothing of msg.
CallInv ==
  \A t \in Threads :
    /\ pc[t] = "user" => i[t] = 0
    /\ pc[t] # "user" => file[t] \in opened
    /\ pc[t] = "strlen" => i[t] \in Index
    /\ pc[t] = "check" => i[t] = 0 /\ lenOfStr[t] \in Index
    /\ pc[t] = "copy_to" =>
         lenOfStr[t] \in Index /\ offset[t] + n[t] <= lenOfStr[t] /\ i[t] <= n[t]
    /\ pc[t] = "read_ret" => offset[t] \in Index
    /\ pc[t] = "copy_from" => n[t] \in Index /\ i[t] <= n[t]
    /\ pc[t] = "write_ret" => offset[t] = 0
    /\ pc[t] \in {"strlen", "check"} /\ ~own[t] => offset[t] \in Index

\* What a call that no write has overlapped knows of msg.
TailInv ==
  \A t \in Threads : ~torn[t] =>
    /\ pc[t] = "strlen" => \A k \in Index : k < i[t] => msg[k] # NUL
    /\ pc[t] \in {"check", "copy_to"} => \A k \in Index : k < lenOfStr[t] => msg[k] # NUL

IInv == TypeOK /\ Terminated /\ CallInv /\ PositionInside /\ SingleFile /\ TailInv

-----------------------------------------------------------------------------
(* Each part of the invariant is preserved *)

\* A call starts with arguments of the right types.
LEMMA EnterTypes ==
  ASSUME TypeOK, NEW t \in Threads, NEW first, Enter(t, first)
  PROVE  /\ file' \in [Threads -> Files \cup {NoFile}]
         /\ own' \in [Threads -> BOOLEAN]
         /\ size' \in [Threads -> Nat]
         /\ offset' \in [Threads -> Nat]
         /\ pc' = [pc EXCEPT ![t] = first]
<1> USE So2Assumption DEF TypeOK
<1>1. PICK f \in opened, s \in 0..MaxSize :
        /\ file' = [file EXCEPT ![t] = f]
        /\ size' = [size EXCEPT ![t] = s]
        /\ \/ /\ own' = [own EXCEPT ![t] = FALSE]
              /\ offset' = [offset EXCEPT ![t] = f_pos[f]]
           \/ /\ own' = [own EXCEPT ![t] = TRUE]
              /\ \E o \in 0..MSG_MAX : offset' = [offset EXCEPT ![t] = o]
  BY DEF Enter
<1>2. f \in Files /\ s \in Nat /\ f_pos[f] \in Nat
  BY <1>1
<1>3. file' \in [Threads -> Files \cup {NoFile}] /\ size' \in [Threads -> Nat]
  BY <1>1, <1>2
<1>4. own' \in [Threads -> BOOLEAN]
  BY <1>1
<1>5. offset' \in [Threads -> Nat]
  <2>1. PICK o \in Nat : offset' = [offset EXCEPT ![t] = o]
    BY <1>1, <1>2
  <2> QED
    BY <2>1
<1>6. pc' = [pc EXCEPT ![t] = first]
  BY DEF Enter
<1> QED
  BY <1>3, <1>4, <1>5, <1>6

\* Every action keeps the types.  msg_len and the count of a read need what
\* the call knows: a write stops before the last byte, a read before the end.
LEMMA TypeOKStep ==
  ASSUME TypeOK, CallInv, [Next]_vars
  PROVE  TypeOK'
<1> USE So2Assumption DEF device, args, Index, TypeOK
<1>1. ASSUME NEW f \in Files, so2_open(f) PROVE TypeOK'
  BY <1>1 DEF so2_open
<1>2. ASSUME NEW f \in Files, so2_release(f) PROVE TypeOK'
  BY <1>2 DEF so2_release
<1>3. ASSUME NEW t \in Threads, so2_read(t) PROVE TypeOK'
  <2>1. Enter(t, "strlen")
    BY <1>3 DEF so2_read
  <2>2. /\ file' \in [Threads -> Files \cup {NoFile}]
        /\ own' \in [Threads -> BOOLEAN]
        /\ size' \in [Threads -> Nat]
        /\ offset' \in [Threads -> Nat]
        /\ pc' = [pc EXCEPT ![t] = "strlen"]
    BY <2>1, EnterTypes
  <2> QED
    BY <1>3, <2>2 DEF so2_read
<1>4. ASSUME NEW t \in Threads, so2_write(t) PROVE TypeOK'
  <2>1. Enter(t, "copy_from")
    BY <1>4 DEF so2_write
  <2>2. /\ file' \in [Threads -> Files \cup {NoFile}]
        /\ own' \in [Threads -> BOOLEAN]
        /\ size' \in [Threads -> Nat]
        /\ offset' \in [Threads -> Nat]
        /\ pc' = [pc EXCEPT ![t] = "copy_from"]
    BY <2>1, EnterTypes
  <2>3. WriteCount(size'[t]) \in Nat
    BY <2>2 DEF WriteCount, Least
  <2>4. n' \in [Threads -> Nat]
    BY <1>4, <2>3 DEF so2_write
  <2> QED
    BY <1>4, <2>2, <2>4 DEF so2_write
<1>5. ASSUME NEW t \in Threads, StrlenNext(t) PROVE TypeOK'
  BY <1>5 DEF StrlenNext
<1>6. ASSUME NEW t \in Threads, StrlenDone(t) PROVE TypeOK'
  BY <1>6 DEF StrlenDone
<1>7. ASSUME NEW t \in Threads, ReadEof(t) PROVE TypeOK'
  BY <1>7 DEF ReadEof, Succeeds, Leave
<1>8. ASSUME NEW t \in Threads, ReadSize(t) PROVE TypeOK'
  <2>1. ReadCount(t) \in Nat
    BY <1>8 DEF ReadSize, ReadCount, Least
  <2> QED
    BY <1>8, <2>1 DEF ReadSize
<1>9. ASSUME NEW t \in Threads, CopyTo(t) PROVE TypeOK'
  BY <1>9 DEF CopyTo
<1>10. ASSUME NEW t \in Threads, CopyToFaults(t) PROVE TypeOK'
  BY <1>10 DEF CopyToFaults, Fails, Leave
<1>11. ASSUME NEW t \in Threads, ReadAdvance(t) PROVE TypeOK'
  BY <1>11 DEF ReadAdvance, Advanced
<1>12. ASSUME NEW t \in Threads, ReadReturns(t) PROVE TypeOK'
  BY <1>12 DEF ReadReturns, Succeeds, Leave
<1>13. ASSUME NEW t \in Threads, CopyFrom(t) PROVE TypeOK'
  <2>1. PICK b \in Bytes : msg' = [msg EXCEPT ![i[t]] = b]
    BY <1>13 DEF CopyFrom
  <2>2. msg' \in [Index -> Bytes]
    BY <2>1
  <2>3. torn' \in [Threads -> BOOLEAN]
    BY <1>13 DEF CopyFrom, Tears
  <2>4. i' \in [Threads -> Nat]
    BY <1>13 DEF CopyFrom
  <2> QED
    BY <1>13, <2>2, <2>3, <2>4 DEF CopyFrom
<1>14. ASSUME NEW t \in Threads, CopyFromFaults(t) PROVE TypeOK'
  BY <1>14 DEF CopyFromFaults, Tears
<1>15. ASSUME NEW t \in Threads, WriteFails(t) PROVE TypeOK'
  BY <1>15 DEF WriteFails, Fails, Leave
<1>16. ASSUME NEW t \in Threads, WriteEnd(t) PROVE TypeOK'
  <2>1. n[t] \in Index
    BY <1>16 DEF WriteEnd, CallInv
  <2> QED
    BY <1>16, <2>1 DEF WriteEnd, Tears
<1>17. ASSUME NEW t \in Threads, WriteReturns(t) PROVE TypeOK'
  BY <1>17 DEF WriteReturns, Succeeds, Leave
<1>18. CASE CdevAdd
  BY <1>18 DEF CdevAdd
<1>19. CASE StrsCpy
  <2>1. msg' \in [Index -> Bytes]
    BY <1>19 DEF StrsCpy
  <2> QED
    BY <1>19, <2>1 DEF StrsCpy, Tears
<1>20. CASE so2_cdev_exit
  BY <1>20 DEF so2_cdev_exit
<1>21. CASE UNCHANGED vars
  BY <1>21 DEF vars
<1> QED
  BY <1>1, <1>2, <1>3, <1>4, <1>5, <1>6, <1>7, <1>8, <1>9, <1>10, <1>11, <1>12, <1>13, <1>14, <1>15, <1>16, <1>17, <1>18, <1>19, <1>20, <1>21 DEF Next, Read, Write

\* No step overwrites the last byte of msg with anything but NUL.
LEMMA TerminatedStep ==
  ASSUME TypeOK, CallInv, Terminated, [Next]_vars
  PROVE  Terminated'
<1> USE So2Assumption DEF device, args, Index, TypeOK, Terminated, CallInv
<1>1. ASSUME NEW f \in Files, so2_open(f) PROVE Terminated'
  BY <1>1 DEF so2_open
<1>2. ASSUME NEW f \in Files, so2_release(f) PROVE Terminated'
  BY <1>2 DEF so2_release
<1>3. ASSUME NEW t \in Threads, so2_read(t) PROVE Terminated'
  BY <1>3 DEF so2_read, Enter
<1>4. ASSUME NEW t \in Threads, so2_write(t) PROVE Terminated'
  BY <1>4 DEF so2_write, Enter, WriteCount, Least
<1>5. ASSUME NEW t \in Threads, StrlenNext(t) PROVE Terminated'
  BY <1>5 DEF StrlenNext
<1>6. ASSUME NEW t \in Threads, StrlenDone(t) PROVE Terminated'
  BY <1>6 DEF StrlenDone
<1>7. ASSUME NEW t \in Threads, ReadEof(t) PROVE Terminated'
  BY <1>7 DEF ReadEof, Succeeds, Leave
<1>8. ASSUME NEW t \in Threads, ReadSize(t) PROVE Terminated'
  BY <1>8 DEF ReadSize, ReadCount, Least
<1>9. ASSUME NEW t \in Threads, CopyTo(t) PROVE Terminated'
  BY <1>9 DEF CopyTo
<1>10. ASSUME NEW t \in Threads, CopyToFaults(t) PROVE Terminated'
  BY <1>10 DEF CopyToFaults, Fails, Leave
<1>11. ASSUME NEW t \in Threads, ReadAdvance(t) PROVE Terminated'
  BY <1>11 DEF ReadAdvance, Advanced
<1>12. ASSUME NEW t \in Threads, ReadReturns(t) PROVE Terminated'
  BY <1>12 DEF ReadReturns, Succeeds, Leave
<1>13. ASSUME NEW t \in Threads, CopyFrom(t) PROVE Terminated'
  BY <1>13 DEF CopyFrom, Tears
<1>14. ASSUME NEW t \in Threads, CopyFromFaults(t) PROVE Terminated'
  BY <1>14 DEF CopyFromFaults, Tears
<1>15. ASSUME NEW t \in Threads, WriteFails(t) PROVE Terminated'
  BY <1>15 DEF WriteFails, Fails, Leave
<1>16. ASSUME NEW t \in Threads, WriteEnd(t) PROVE Terminated'
  BY <1>16 DEF WriteEnd, Tears
<1>17. ASSUME NEW t \in Threads, WriteReturns(t) PROVE Terminated'
  BY <1>17 DEF WriteReturns, Succeeds, Leave
<1>18. CASE CdevAdd
  BY <1>18 DEF CdevAdd
<1>19. CASE StrsCpy
  BY <1>19 DEF StrsCpy, Tears
<1>20. CASE so2_cdev_exit
  BY <1>20 DEF so2_cdev_exit
<1>21. CASE UNCHANGED vars
  BY <1>21 DEF vars
<1> QED
  BY <1>1, <1>2, <1>3, <1>4, <1>5, <1>6, <1>7, <1>8, <1>9, <1>10, <1>11, <1>12, <1>13, <1>14, <1>15, <1>16, <1>17, <1>18, <1>19, <1>20, <1>21 DEF Next, Read, Write

\* Every call keeps its knowledge of its own locals.  The terminator is what
\* keeps strlen inside msg.
LEMMA CallInvStep ==
  ASSUME TypeOK, Terminated, CallInv, PositionInside, [Next]_vars
  PROVE  CallInv'
<1> USE So2Assumption DEF device, args, Index, TypeOK, Terminated, CallInv, PositionInside
<1>1. ASSUME NEW f \in Files, so2_open(f) PROVE CallInv'
  BY <1>1 DEF so2_open
<1>2. ASSUME NEW f \in Files, so2_release(f) PROVE CallInv'
  BY <1>2 DEF so2_release
<1>3. ASSUME NEW t \in Threads, so2_read(t) PROVE CallInv'
  BY <1>3 DEF so2_read, Enter
<1>4. ASSUME NEW t \in Threads, so2_write(t) PROVE CallInv'
  BY <1>4 DEF so2_write, Enter, WriteCount, Least
<1>5. ASSUME NEW t \in Threads, StrlenNext(t) PROVE CallInv'
  <2>1. i[t] \in Index /\ i[t] # MSG_MAX - 1
    BY <1>5 DEF StrlenNext
  <2>2. i[t] + 1 \in Index
    BY <2>1
  <2> QED
    BY <1>5, <2>2 DEF StrlenNext
<1>6. ASSUME NEW t \in Threads, StrlenDone(t) PROVE CallInv'
  BY <1>6 DEF StrlenDone
<1>7. ASSUME NEW t \in Threads, ReadEof(t) PROVE CallInv'
  BY <1>7 DEF ReadEof, Succeeds, Leave
<1>8. ASSUME NEW t \in Threads, ReadSize(t) PROVE CallInv'
  BY <1>8 DEF ReadSize, ReadCount, Least
<1>9. ASSUME NEW t \in Threads, CopyTo(t) PROVE CallInv'
  BY <1>9 DEF CopyTo
<1>10. ASSUME NEW t \in Threads, CopyToFaults(t) PROVE CallInv'
  BY <1>10 DEF CopyToFaults, Fails, Leave
<1>11. ASSUME NEW t \in Threads, ReadAdvance(t) PROVE CallInv'
  BY <1>11 DEF ReadAdvance, Advanced
<1>12. ASSUME NEW t \in Threads, ReadReturns(t) PROVE CallInv'
  BY <1>12 DEF ReadReturns, Succeeds, Leave
<1>13. ASSUME NEW t \in Threads, CopyFrom(t) PROVE CallInv'
  BY <1>13 DEF CopyFrom, Tears
<1>14. ASSUME NEW t \in Threads, CopyFromFaults(t) PROVE CallInv'
  BY <1>14 DEF CopyFromFaults, Tears
<1>15. ASSUME NEW t \in Threads, WriteFails(t) PROVE CallInv'
  BY <1>15 DEF WriteFails, Fails, Leave
<1>16. ASSUME NEW t \in Threads, WriteEnd(t) PROVE CallInv'
  BY <1>16 DEF WriteEnd, Tears
<1>17. ASSUME NEW t \in Threads, WriteReturns(t) PROVE CallInv'
  BY <1>17 DEF WriteReturns, Succeeds, Leave
<1>18. CASE CdevAdd
  BY <1>18 DEF CdevAdd
<1>19. CASE StrsCpy
  BY <1>19 DEF StrsCpy, Tears
<1>20. CASE so2_cdev_exit
  BY <1>20 DEF so2_cdev_exit
<1>21. CASE UNCHANGED vars
  BY <1>21 DEF vars
<1> QED
  BY <1>1, <1>2, <1>3, <1>4, <1>5, <1>6, <1>7, <1>8, <1>9, <1>10, <1>11, <1>12, <1>13, <1>14, <1>15, <1>16, <1>17, <1>18, <1>19, <1>20, <1>21 DEF Next, Read, Write

\* The position that a successful call stores is inside the buffer.
LEMMA PositionStep ==
  ASSUME TypeOK, CallInv, PositionInside, [Next]_vars
  PROVE  PositionInside'
<1> USE So2Assumption DEF device, args, Index, TypeOK, CallInv, PositionInside
<1>1. ASSUME NEW f \in Files, so2_open(f) PROVE PositionInside'
  BY <1>1 DEF so2_open
<1>2. ASSUME NEW f \in Files, so2_release(f) PROVE PositionInside'
  BY <1>2 DEF so2_release
<1>3. ASSUME NEW t \in Threads, so2_read(t) PROVE PositionInside'
  BY <1>3 DEF so2_read, Enter
<1>4. ASSUME NEW t \in Threads, so2_write(t) PROVE PositionInside'
  BY <1>4 DEF so2_write, Enter, WriteCount, Least
<1>5. ASSUME NEW t \in Threads, StrlenNext(t) PROVE PositionInside'
  BY <1>5 DEF StrlenNext
<1>6. ASSUME NEW t \in Threads, StrlenDone(t) PROVE PositionInside'
  BY <1>6 DEF StrlenDone
<1>7. ASSUME NEW t \in Threads, ReadEof(t) PROVE PositionInside'
  BY <1>7 DEF ReadEof, Succeeds, Leave
<1>8. ASSUME NEW t \in Threads, ReadSize(t) PROVE PositionInside'
  BY <1>8 DEF ReadSize, ReadCount, Least
<1>9. ASSUME NEW t \in Threads, CopyTo(t) PROVE PositionInside'
  BY <1>9 DEF CopyTo
<1>10. ASSUME NEW t \in Threads, CopyToFaults(t) PROVE PositionInside'
  BY <1>10 DEF CopyToFaults, Fails, Leave
<1>11. ASSUME NEW t \in Threads, ReadAdvance(t) PROVE PositionInside'
  BY <1>11 DEF ReadAdvance, Advanced
<1>12. ASSUME NEW t \in Threads, ReadReturns(t) PROVE PositionInside'
  BY <1>12 DEF ReadReturns, Succeeds, Leave
<1>13. ASSUME NEW t \in Threads, CopyFrom(t) PROVE PositionInside'
  BY <1>13 DEF CopyFrom, Tears
<1>14. ASSUME NEW t \in Threads, CopyFromFaults(t) PROVE PositionInside'
  BY <1>14 DEF CopyFromFaults, Tears
<1>15. ASSUME NEW t \in Threads, WriteFails(t) PROVE PositionInside'
  BY <1>15 DEF WriteFails, Fails, Leave
<1>16. ASSUME NEW t \in Threads, WriteEnd(t) PROVE PositionInside'
  BY <1>16 DEF WriteEnd, Tears
<1>17. ASSUME NEW t \in Threads, WriteReturns(t) PROVE PositionInside'
  BY <1>17 DEF WriteReturns, Succeeds, Leave
<1>18. CASE CdevAdd
  BY <1>18 DEF CdevAdd
<1>19. CASE StrsCpy
  BY <1>19 DEF StrsCpy, Tears
<1>20. CASE so2_cdev_exit
  BY <1>20 DEF so2_cdev_exit
<1>21. CASE UNCHANGED vars
  BY <1>21 DEF vars
<1> QED
  BY <1>1, <1>2, <1>3, <1>4, <1>5, <1>6, <1>7, <1>8, <1>9, <1>10, <1>11, <1>12, <1>13, <1>14, <1>15, <1>16, <1>17, <1>18, <1>19, <1>20, <1>21 DEF Next, Read, Write

\* isOpen and the open file change together.
LEMMA SingleFileStep ==
  ASSUME TypeOK, SingleFile, [Next]_vars
  PROVE  SingleFile'
<1> USE So2Assumption DEF device, args, Index, TypeOK, SingleFile
<1>1. ASSUME NEW f \in Files, so2_open(f) PROVE SingleFile'
  BY <1>1 DEF so2_open
<1>2. ASSUME NEW f \in Files, so2_release(f) PROVE SingleFile'
  BY <1>2 DEF so2_release
<1>3. ASSUME NEW t \in Threads, so2_read(t) PROVE SingleFile'
  BY <1>3 DEF so2_read, Enter
<1>4. ASSUME NEW t \in Threads, so2_write(t) PROVE SingleFile'
  BY <1>4 DEF so2_write, Enter, WriteCount, Least
<1>5. ASSUME NEW t \in Threads, StrlenNext(t) PROVE SingleFile'
  BY <1>5 DEF StrlenNext
<1>6. ASSUME NEW t \in Threads, StrlenDone(t) PROVE SingleFile'
  BY <1>6 DEF StrlenDone
<1>7. ASSUME NEW t \in Threads, ReadEof(t) PROVE SingleFile'
  BY <1>7 DEF ReadEof, Succeeds, Leave
<1>8. ASSUME NEW t \in Threads, ReadSize(t) PROVE SingleFile'
  BY <1>8 DEF ReadSize, ReadCount, Least
<1>9. ASSUME NEW t \in Threads, CopyTo(t) PROVE SingleFile'
  BY <1>9 DEF CopyTo
<1>10. ASSUME NEW t \in Threads, CopyToFaults(t) PROVE SingleFile'
  BY <1>10 DEF CopyToFaults, Fails, Leave
<1>11. ASSUME NEW t \in Threads, ReadAdvance(t) PROVE SingleFile'
  BY <1>11 DEF ReadAdvance, Advanced
<1>12. ASSUME NEW t \in Threads, ReadReturns(t) PROVE SingleFile'
  BY <1>12 DEF ReadReturns, Succeeds, Leave
<1>13. ASSUME NEW t \in Threads, CopyFrom(t) PROVE SingleFile'
  BY <1>13 DEF CopyFrom, Tears
<1>14. ASSUME NEW t \in Threads, CopyFromFaults(t) PROVE SingleFile'
  BY <1>14 DEF CopyFromFaults, Tears
<1>15. ASSUME NEW t \in Threads, WriteFails(t) PROVE SingleFile'
  BY <1>15 DEF WriteFails, Fails, Leave
<1>16. ASSUME NEW t \in Threads, WriteEnd(t) PROVE SingleFile'
  BY <1>16 DEF WriteEnd, Tears
<1>17. ASSUME NEW t \in Threads, WriteReturns(t) PROVE SingleFile'
  BY <1>17 DEF WriteReturns, Succeeds, Leave
<1>18. CASE CdevAdd
  BY <1>18 DEF CdevAdd
<1>19. CASE StrsCpy
  BY <1>19 DEF StrsCpy, Tears
<1>20. CASE so2_cdev_exit
  BY <1>20 DEF so2_cdev_exit
<1>21. CASE UNCHANGED vars
  BY <1>21 DEF vars
<1> QED
  BY <1>1, <1>2, <1>3, <1>4, <1>5, <1>6, <1>7, <1>8, <1>9, <1>10, <1>11, <1>12, <1>13, <1>14, <1>15, <1>16, <1>17, <1>18, <1>19, <1>20, <1>21 DEF Next, Read, Write

\* Whoever changes msg marks every call under way as torn.
LEMMA TailInvStep ==
  ASSUME TypeOK, CallInv, TailInv, [Next]_vars
  PROVE  TailInv'
<1> USE So2Assumption DEF device, args, Index, TypeOK, CallInv, TailInv
<1>1. ASSUME NEW f \in Files, so2_open(f) PROVE TailInv'
  BY <1>1 DEF so2_open
<1>2. ASSUME NEW f \in Files, so2_release(f) PROVE TailInv'
  BY <1>2 DEF so2_release
<1>3. ASSUME NEW t \in Threads, so2_read(t) PROVE TailInv'
  BY <1>3 DEF so2_read, Enter
<1>4. ASSUME NEW t \in Threads, so2_write(t) PROVE TailInv'
  BY <1>4 DEF so2_write, Enter, WriteCount, Least
<1>5. ASSUME NEW t \in Threads, StrlenNext(t) PROVE TailInv'
  BY <1>5 DEF StrlenNext
<1>6. ASSUME NEW t \in Threads, StrlenDone(t) PROVE TailInv'
  BY <1>6 DEF StrlenDone
<1>7. ASSUME NEW t \in Threads, ReadEof(t) PROVE TailInv'
  BY <1>7 DEF ReadEof, Succeeds, Leave
<1>8. ASSUME NEW t \in Threads, ReadSize(t) PROVE TailInv'
  BY <1>8 DEF ReadSize, ReadCount, Least
<1>9. ASSUME NEW t \in Threads, CopyTo(t) PROVE TailInv'
  BY <1>9 DEF CopyTo
<1>10. ASSUME NEW t \in Threads, CopyToFaults(t) PROVE TailInv'
  BY <1>10 DEF CopyToFaults, Fails, Leave
<1>11. ASSUME NEW t \in Threads, ReadAdvance(t) PROVE TailInv'
  BY <1>11 DEF ReadAdvance, Advanced
<1>12. ASSUME NEW t \in Threads, ReadReturns(t) PROVE TailInv'
  BY <1>12 DEF ReadReturns, Succeeds, Leave
<1>13. ASSUME NEW t \in Threads, CopyFrom(t) PROVE TailInv'
  BY <1>13 DEF CopyFrom, Tears
<1>14. ASSUME NEW t \in Threads, CopyFromFaults(t) PROVE TailInv'
  BY <1>14 DEF CopyFromFaults, Tears
<1>15. ASSUME NEW t \in Threads, WriteFails(t) PROVE TailInv'
  BY <1>15 DEF WriteFails, Fails, Leave
<1>16. ASSUME NEW t \in Threads, WriteEnd(t) PROVE TailInv'
  BY <1>16 DEF WriteEnd, Tears
<1>17. ASSUME NEW t \in Threads, WriteReturns(t) PROVE TailInv'
  BY <1>17 DEF WriteReturns, Succeeds, Leave
<1>18. CASE CdevAdd
  BY <1>18 DEF CdevAdd
<1>19. CASE StrsCpy
  BY <1>19 DEF StrsCpy, Tears
<1>20. CASE so2_cdev_exit
  BY <1>20 DEF so2_cdev_exit
<1>21. CASE UNCHANGED vars
  BY <1>21 DEF vars
<1> QED
  BY <1>1, <1>2, <1>3, <1>4, <1>5, <1>6, <1>7, <1>8, <1>9, <1>10, <1>11, <1>12, <1>13, <1>14, <1>15, <1>16, <1>17, <1>18, <1>19, <1>20, <1>21 DEF Next, Read, Write

-----------------------------------------------------------------------------
(* Theorems *)

\* A freshly loaded driver satisfies the invariant: static memory is zero.
LEMMA InitInv == Init => IInv
BY So2Assumption DEF Init, IInv, TypeOK, Terminated, CallInv, PositionInside,
                     SingleFile, TailInv, Index

\* The invariant holds for ever.
THEOREM Invariance == Spec => []IInv
<1>1. IInv /\ [Next]_vars => IInv'
  BY TypeOKStep, TerminatedStep, CallInvStep, PositionStep, SingleFileStep,
     TailInvStep DEF IInv
<1> QED
  BY InitInv, <1>1, PTL DEF Spec

\* The types are respected.
THEOREM TypeCorrect == Spec => []TypeOK
<1>1. IInv => TypeOK
  BY DEF IInv
<1> QED
  BY Invariance, <1>1, PTL

\* No interleaving of so2_read and so2_write leaves the message buffer.
THEOREM MemorySafe == Spec => []NoOverrun
<1>1. IInv => NoOverrun
  BY So2Assumption DEF IInv, TypeOK, CallInv, NoOverrun, Index
<1> QED
  BY Invariance, <1>1, PTL

\* At most one file is open at any time.
THEOREM Exclusive == Spec => []SingleFile
<1>1. IInv => SingleFile
  BY DEF IInv
<1> QED
  BY Invariance, <1>1, PTL

\* A read that no write overlaps stops at the terminator.
THEOREM TailHidden == Spec => []NoStaleTail
<1>1. IInv => NoStaleTail
  BY So2Assumption DEF IInv, TypeOK, CallInv, TailInv, NoStaleTail, Index
<1> QED
  BY Invariance, <1>1, PTL

\* The file position stays inside the buffer.
THEOREM PositionBounded == Spec => []PositionInside
<1>1. IInv => PositionInside
  BY DEF IInv
<1> QED
  BY Invariance, <1>1, PTL
=============================================================================
