--------------------------- MODULE PacketProofs ---------------------------
(***************************************************************************)
(* Proofs about PacketFilter, for every set of programs and other senders, *)
(* every address width and every set of byte values.                       *)
(***************************************************************************)
EXTENDS PacketFilter, TLAPS

-----------------------------------------------------------------------------
(* The inductive invariant *)

\* Who can be where in each phase of the module's life: hooks are entered only
\* while they are registered and are gone when its memory is; a program that
\* has the device open keeps the module live.
ModInv ==
  /\ hooked <=> mod \in {"hooked", "live", "going"}
  /\ registered => mod \in {"live", "going", "unhooked"}
  /\ mod = "out" => \A s \in Senders : pc[s] = "out"
  /\ mod # "live" => \A p \in Programs : st[p] = "off"

\* A program is inside packet_hook exactly during its two connections, the
\* first to the address that it passed to the ioctl, the second to another.
ConnectInv ==
  \A p \in Programs :
    /\ pc[p] # "out" => st[p] \in {"first", "second"}
    /\ st[p] = "first" => pkt[p].daddr = want[p]
    /\ st[p] = "second" => pkt[p].daddr # want[p]

\* What a hook knows at each place: its packet opens a connection, nothing is
\* reported before the comparison, and the address that was found to be set
\* still is, unless an ioctl has written it.
HookInv ==
  \A s \in Senders :
    /\ pc[s] # "out" => Opening(pkt[s])
    /\ pc[s] # "done" => ~hit[s]
    /\ pc[s] = "compare" /\ quiet[s] => ioctl_set_address # Zero

\* While a program is loyal nobody else is writing, the bytes it has copied
\* are those of its address, and after its ioctl they all are.
LoyalInv ==
  \A p \in Programs : loyal[p] =>
    /\ \A q \in Programs : st[q] = "ioctl" => q = p
    /\ st[p] \in {"ioctl", "set", "first", "next", "second", "close"}
    /\ st[p] = "ioctl" =>
         \A b \in 1..Width : b <= copied[p] => ioctl_set_address[b] = want[p][b]
    /\ st[p] # "ioctl" => ioctl_set_address = want[p]
    /\ pc[p] = "compare" => want[p] # Zero

\* Nothing is copied before the ioctl begins.
CopyInv == \A p \in Programs : st[p] # "ioctl" => copied[p] = 0

IInv ==
  /\ TypeOK /\ ModInv /\ CopyInv /\ ConnectInv /\ HookInv /\ LoyalInv
  /\ ExactWhenQuiet /\ ProgramSees

-----------------------------------------------------------------------------
(* Each part of the invariant is preserved *)

\* Every action keeps the types; addresses stay addresses byte by byte.
LEMMA TypeOKStep ==
  ASSUME TypeOK, [Next]_vars
  PROVE  TypeOK'
<1> USE PacketFilterAssumption DEF module, user, hook, Senders, Addr, Zero, Packet, NoPacket, SynTo, TypeOK
<1>1. CASE RegisterHook
  BY <1>1 DEF RegisterHook
<1>2. CASE MiscRegister
  BY <1>2 DEF MiscRegister
<1>3. CASE Rmmod
  BY <1>3 DEF Rmmod
<1>4. CASE UnregisterHook
  BY <1>4 DEF UnregisterHook
<1>5. CASE MiscDeregister
  BY <1>5 DEF MiscDeregister
<1>6. CASE FreeModule
  BY <1>6 DEF FreeModule
<1>7. ASSUME NEW p \in Programs, Open(p) PROVE TypeOK'
  BY <1>7 DEF Open
<1>8. ASSUME NEW p \in Programs, NEW a \in Addr, filter_address(p, a) PROVE TypeOK'
  BY <1>8 DEF filter_address, Writing
<1>9. ASSUME NEW p \in Programs, CopyByte(p) PROVE TypeOK'
  BY <1>9 DEF CopyByte, Stored
<1>10. ASSUME NEW p \in Programs, CopyFaults(p) PROVE TypeOK'
  BY <1>10 DEF CopyFaults, Stored
<1>11. ASSUME NEW p \in Programs, IoctlReturns(p) PROVE TypeOK'
  BY <1>11 DEF IoctlReturns, CopyComplete
<1>12. ASSUME NEW p \in Programs, Connect(p) PROVE TypeOK'
  BY <1>12 DEF Connect, Hook
<1>13. ASSUME NEW p \in Programs, Connected(p) PROVE TypeOK'
  BY <1>13 DEF Connected, Leave
<1>14. ASSUME NEW p \in Programs, NEW a \in Addr, ConnectOther(p, a) PROVE TypeOK'
  BY <1>14 DEF ConnectOther, Hook
<1>15. ASSUME NEW p \in Programs, ConnectedOther(p) PROVE TypeOK'
  BY <1>15 DEF ConnectedOther, Leave
<1>16. ASSUME NEW p \in Programs, Close(p) PROVE TypeOK'
  BY <1>16 DEF Close
<1>17. ASSUME NEW s \in Senders, TestSet(s) PROVE TypeOK'
  BY <1>17 DEF TestSet
<1>18. ASSUME NEW s \in Senders, Compare(s) PROVE TypeOK'
  BY <1>18 DEF Compare
<1>19. ASSUME NEW s \in Senders, Accept(s) PROVE TypeOK'
  BY <1>19 DEF Accept, Leave
<1>20. ASSUME NEW s \in Traffic, NEW k \in Packet, Send(s, k) PROVE TypeOK'
  BY <1>20 DEF Send, Hook
<1>21. CASE UNCHANGED vars
  BY <1>21 DEF vars
<1> QED
  BY <1>1, <1>2, <1>3, <1>4, <1>5, <1>6, <1>7, <1>8, <1>9, <1>10, <1>11, <1>12, <1>13,
     <1>14, <1>15, <1>16, <1>17, <1>18, <1>19, <1>20, <1>21 DEF Next, packet_init,
     packet_exit, Program

\* Loading and unloading keep the module's phases apart.
LEMMA ModInvStep ==
  ASSUME TypeOK, ModInv, ConnectInv, [Next]_vars
  PROVE  ModInv'
<1> USE PacketFilterAssumption DEF module, user, hook, Senders, TypeOK, ModInv, ConnectInv
<1>1. CASE RegisterHook
  BY <1>1 DEF RegisterHook
<1>2. CASE MiscRegister
  BY <1>2 DEF MiscRegister
<1>3. CASE Rmmod
  BY <1>3 DEF Rmmod
<1>4. CASE UnregisterHook
  BY <1>4 DEF UnregisterHook
<1>5. CASE MiscDeregister
  BY <1>5 DEF MiscDeregister
<1>6. CASE FreeModule
  BY <1>6 DEF FreeModule
<1>7. ASSUME NEW p \in Programs, Open(p) PROVE ModInv'
  BY <1>7 DEF Open
<1>8. ASSUME NEW p \in Programs, NEW a \in Addr, filter_address(p, a) PROVE ModInv'
  BY <1>8 DEF filter_address, Writing
<1>9. ASSUME NEW p \in Programs, CopyByte(p) PROVE ModInv'
  BY <1>9 DEF CopyByte, Stored
<1>10. ASSUME NEW p \in Programs, CopyFaults(p) PROVE ModInv'
  BY <1>10 DEF CopyFaults, Stored
<1>11. ASSUME NEW p \in Programs, IoctlReturns(p) PROVE ModInv'
  BY <1>11 DEF IoctlReturns, CopyComplete
<1>12. ASSUME NEW p \in Programs, Connect(p) PROVE ModInv'
  BY <1>12 DEF Connect, Hook
<1>13. ASSUME NEW p \in Programs, Connected(p) PROVE ModInv'
  BY <1>13 DEF Connected, Leave
<1>14. ASSUME NEW p \in Programs, NEW a \in Addr, ConnectOther(p, a) PROVE ModInv'
  BY <1>14 DEF ConnectOther, Hook
<1>15. ASSUME NEW p \in Programs, ConnectedOther(p) PROVE ModInv'
  BY <1>15 DEF ConnectedOther, Leave
<1>16. ASSUME NEW p \in Programs, Close(p) PROVE ModInv'
  BY <1>16 DEF Close
<1>17. ASSUME NEW s \in Senders, TestSet(s) PROVE ModInv'
  BY <1>17 DEF TestSet
<1>18. ASSUME NEW s \in Senders, Compare(s) PROVE ModInv'
  BY <1>18 DEF Compare
<1>19. ASSUME NEW s \in Senders, Accept(s) PROVE ModInv'
  BY <1>19 DEF Accept, Leave
<1>20. ASSUME NEW s \in Traffic, NEW k \in Packet, Send(s, k) PROVE ModInv'
  BY <1>20 DEF Send, Hook
<1>21. CASE UNCHANGED vars
  BY <1>21 DEF vars
<1> QED
  BY <1>1, <1>2, <1>3, <1>4, <1>5, <1>6, <1>7, <1>8, <1>9, <1>10, <1>11, <1>12, <1>13,
     <1>14, <1>15, <1>16, <1>17, <1>18, <1>19, <1>20, <1>21 DEF Next, packet_init,
     packet_exit, Program

\* Every way out of an ioctl resets its count of bytes.
LEMMA CopyInvStep ==
  ASSUME TypeOK, CopyInv, [Next]_vars
  PROVE  CopyInv'
<1> USE PacketFilterAssumption DEF module, user, hook, Senders, TypeOK, CopyInv
<1>1. CASE RegisterHook
  BY <1>1 DEF RegisterHook
<1>2. CASE MiscRegister
  BY <1>2 DEF MiscRegister
<1>3. CASE Rmmod
  BY <1>3 DEF Rmmod
<1>4. CASE UnregisterHook
  BY <1>4 DEF UnregisterHook
<1>5. CASE MiscDeregister
  BY <1>5 DEF MiscDeregister
<1>6. CASE FreeModule
  BY <1>6 DEF FreeModule
<1>7. ASSUME NEW p \in Programs, Open(p) PROVE CopyInv'
  BY <1>7 DEF Open
<1>8. ASSUME NEW p \in Programs, NEW a \in Addr, filter_address(p, a) PROVE CopyInv'
  BY <1>8 DEF filter_address, Writing
<1>9. ASSUME NEW p \in Programs, CopyByte(p) PROVE CopyInv'
  BY <1>9 DEF CopyByte, Stored
<1>10. ASSUME NEW p \in Programs, CopyFaults(p) PROVE CopyInv'
  BY <1>10 DEF CopyFaults, Stored
<1>11. ASSUME NEW p \in Programs, IoctlReturns(p) PROVE CopyInv'
  BY <1>11 DEF IoctlReturns, CopyComplete
<1>12. ASSUME NEW p \in Programs, Connect(p) PROVE CopyInv'
  BY <1>12 DEF Connect, Hook
<1>13. ASSUME NEW p \in Programs, Connected(p) PROVE CopyInv'
  BY <1>13 DEF Connected, Leave
<1>14. ASSUME NEW p \in Programs, NEW a \in Addr, ConnectOther(p, a) PROVE CopyInv'
  BY <1>14 DEF ConnectOther, Hook
<1>15. ASSUME NEW p \in Programs, ConnectedOther(p) PROVE CopyInv'
  BY <1>15 DEF ConnectedOther, Leave
<1>16. ASSUME NEW p \in Programs, Close(p) PROVE CopyInv'
  BY <1>16 DEF Close
<1>17. ASSUME NEW s \in Senders, TestSet(s) PROVE CopyInv'
  BY <1>17 DEF TestSet
<1>18. ASSUME NEW s \in Senders, Compare(s) PROVE CopyInv'
  BY <1>18 DEF Compare
<1>19. ASSUME NEW s \in Senders, Accept(s) PROVE CopyInv'
  BY <1>19 DEF Accept, Leave
<1>20. ASSUME NEW s \in Traffic, NEW k \in Packet, Send(s, k) PROVE CopyInv'
  BY <1>20 DEF Send, Hook
<1>21. CASE UNCHANGED vars
  BY <1>21 DEF vars
<1> QED
  BY <1>1, <1>2, <1>3, <1>4, <1>5, <1>6, <1>7, <1>8, <1>9, <1>10, <1>11, <1>12, <1>13,
     <1>14, <1>15, <1>16, <1>17, <1>18, <1>19, <1>20, <1>21 DEF Next, packet_init,
     packet_exit, Program

\* Programs enter and leave packet_hook through their connections only.
LEMMA ConnectInvStep ==
  ASSUME TypeOK, ConnectInv, [Next]_vars
  PROVE  ConnectInv'
<1> USE PacketFilterAssumption DEF module, user, hook, Senders, Packet, NoPacket, SynTo, TypeOK, ConnectInv
<1>1. CASE RegisterHook
  BY <1>1 DEF RegisterHook
<1>2. CASE MiscRegister
  BY <1>2 DEF MiscRegister
<1>3. CASE Rmmod
  BY <1>3 DEF Rmmod
<1>4. CASE UnregisterHook
  BY <1>4 DEF UnregisterHook
<1>5. CASE MiscDeregister
  BY <1>5 DEF MiscDeregister
<1>6. CASE FreeModule
  BY <1>6 DEF FreeModule
<1>7. ASSUME NEW p \in Programs, Open(p) PROVE ConnectInv'
  BY <1>7 DEF Open
<1>8. ASSUME NEW p \in Programs, NEW a \in Addr, filter_address(p, a) PROVE ConnectInv'
  BY <1>8 DEF filter_address, Writing
<1>9. ASSUME NEW p \in Programs, CopyByte(p) PROVE ConnectInv'
  BY <1>9 DEF CopyByte, Stored
<1>10. ASSUME NEW p \in Programs, CopyFaults(p) PROVE ConnectInv'
  BY <1>10 DEF CopyFaults, Stored
<1>11. ASSUME NEW p \in Programs, IoctlReturns(p) PROVE ConnectInv'
  BY <1>11 DEF IoctlReturns, CopyComplete
<1>12. ASSUME NEW p \in Programs, Connect(p) PROVE ConnectInv'
  BY <1>12 DEF Connect, Hook
<1>13. ASSUME NEW p \in Programs, Connected(p) PROVE ConnectInv'
  BY <1>13 DEF Connected, Leave
<1>14. ASSUME NEW p \in Programs, NEW a \in Addr, ConnectOther(p, a) PROVE ConnectInv'
  BY <1>14 DEF ConnectOther, Hook
<1>15. ASSUME NEW p \in Programs, ConnectedOther(p) PROVE ConnectInv'
  BY <1>15 DEF ConnectedOther, Leave
<1>16. ASSUME NEW p \in Programs, Close(p) PROVE ConnectInv'
  BY <1>16 DEF Close
<1>17. ASSUME NEW s \in Senders, TestSet(s) PROVE ConnectInv'
  BY <1>17 DEF TestSet
<1>18. ASSUME NEW s \in Senders, Compare(s) PROVE ConnectInv'
  BY <1>18 DEF Compare
<1>19. ASSUME NEW s \in Senders, Accept(s) PROVE ConnectInv'
  BY <1>19 DEF Accept, Leave
<1>20. ASSUME NEW s \in Traffic, NEW k \in Packet, Send(s, k) PROVE ConnectInv'
  BY <1>20 DEF Send, Hook
<1>21. CASE UNCHANGED vars
  BY <1>21 DEF vars
<1> QED
  BY <1>1, <1>2, <1>3, <1>4, <1>5, <1>6, <1>7, <1>8, <1>9, <1>10, <1>11, <1>12, <1>13,
     <1>14, <1>15, <1>16, <1>17, <1>18, <1>19, <1>20, <1>21 DEF Next, packet_init,
     packet_exit, Program

\* A new module has no hooks under way, and whoever writes the address ends
\* the quiet of all hooks.
LEMMA HookInvStep ==
  ASSUME TypeOK, ModInv, HookInv, [Next]_vars
  PROVE  HookInv'
<1> USE PacketFilterAssumption DEF module, user, hook, Senders, Packet, NoPacket, SynTo, Opening, TypeOK, ModInv, HookInv
<1>1. CASE RegisterHook
  BY <1>1 DEF RegisterHook
<1>2. CASE MiscRegister
  BY <1>2 DEF MiscRegister
<1>3. CASE Rmmod
  BY <1>3 DEF Rmmod
<1>4. CASE UnregisterHook
  BY <1>4 DEF UnregisterHook
<1>5. CASE MiscDeregister
  BY <1>5 DEF MiscDeregister
<1>6. CASE FreeModule
  BY <1>6 DEF FreeModule
<1>7. ASSUME NEW p \in Programs, Open(p) PROVE HookInv'
  BY <1>7 DEF Open
<1>8. ASSUME NEW p \in Programs, NEW a \in Addr, filter_address(p, a) PROVE HookInv'
  BY <1>8 DEF filter_address, Writing
<1>9. ASSUME NEW p \in Programs, CopyByte(p) PROVE HookInv'
  BY <1>9 DEF CopyByte, Stored
<1>10. ASSUME NEW p \in Programs, CopyFaults(p) PROVE HookInv'
  BY <1>10 DEF CopyFaults, Stored
<1>11. ASSUME NEW p \in Programs, IoctlReturns(p) PROVE HookInv'
  BY <1>11 DEF IoctlReturns, CopyComplete
<1>12. ASSUME NEW p \in Programs, Connect(p) PROVE HookInv'
  BY <1>12 DEF Connect, Hook
<1>13. ASSUME NEW p \in Programs, Connected(p) PROVE HookInv'
  BY <1>13 DEF Connected, Leave
<1>14. ASSUME NEW p \in Programs, NEW a \in Addr, ConnectOther(p, a) PROVE HookInv'
  BY <1>14 DEF ConnectOther, Hook
<1>15. ASSUME NEW p \in Programs, ConnectedOther(p) PROVE HookInv'
  BY <1>15 DEF ConnectedOther, Leave
<1>16. ASSUME NEW p \in Programs, Close(p) PROVE HookInv'
  BY <1>16 DEF Close
<1>17. ASSUME NEW s \in Senders, TestSet(s) PROVE HookInv'
  BY <1>17 DEF TestSet
<1>18. ASSUME NEW s \in Senders, Compare(s) PROVE HookInv'
  BY <1>18 DEF Compare
<1>19. ASSUME NEW s \in Senders, Accept(s) PROVE HookInv'
  BY <1>19 DEF Accept, Leave
<1>20. ASSUME NEW s \in Traffic, NEW k \in Packet, Send(s, k) PROVE HookInv'
  BY <1>20 DEF Send, Hook
<1>21. CASE UNCHANGED vars
  BY <1>21 DEF vars
<1> QED
  BY <1>1, <1>2, <1>3, <1>4, <1>5, <1>6, <1>7, <1>8, <1>9, <1>10, <1>11, <1>12, <1>13,
     <1>14, <1>15, <1>16, <1>17, <1>18, <1>19, <1>20, <1>21 DEF Next, packet_init,
     packet_exit, Program

\* An ioctl that begins ends the loyalty of all others, so a loyal program is
\* the only one that writes.
LEMMA LoyalInvStep ==
  ASSUME TypeOK, ModInv, CopyInv, ConnectInv, LoyalInv, [Next]_vars
  PROVE  LoyalInv'
<1> USE PacketFilterAssumption DEF module, user, hook, Senders, Addr, Zero, TypeOK, ModInv, CopyInv, ConnectInv, LoyalInv
<1>1. CASE RegisterHook
  BY <1>1 DEF RegisterHook
<1>2. CASE MiscRegister
  BY <1>2 DEF MiscRegister
<1>3. CASE Rmmod
  BY <1>3 DEF Rmmod
<1>4. CASE UnregisterHook
  BY <1>4 DEF UnregisterHook
<1>5. CASE MiscDeregister
  BY <1>5 DEF MiscDeregister
<1>6. CASE FreeModule
  BY <1>6 DEF FreeModule
<1>7. ASSUME NEW p \in Programs, Open(p) PROVE LoyalInv'
  BY <1>7 DEF Open
<1>8. ASSUME NEW p \in Programs, NEW a \in Addr, filter_address(p, a) PROVE LoyalInv'
  <2> SUFFICES ASSUME NEW q \in Programs, loyal'[q]
               PROVE  LoyalInv!(q)'
    BY DEF LoyalInv
  <2>1. q = p /\ \A x \in Programs : st[x] # "ioctl"
    BY <1>8 DEF filter_address, Writing
  <2>2. st' = [st EXCEPT ![p] = "ioctl"] /\ copied' = copied /\ pc' = pc
    BY <1>8 DEF filter_address
  <2>3. copied[p] = 0 /\ pc[p] = "out"
    BY <1>8, <2>1 DEF filter_address
  <2> QED
    BY <2>1, <2>2, <2>3
<1>9. ASSUME NEW p \in Programs, CopyByte(p) PROVE LoyalInv'
  BY <1>9 DEF CopyByte, Stored
<1>10. ASSUME NEW p \in Programs, CopyFaults(p) PROVE LoyalInv'
  BY <1>10 DEF CopyFaults, Stored
<1>11. ASSUME NEW p \in Programs, IoctlReturns(p) PROVE LoyalInv'
  BY <1>11 DEF IoctlReturns, CopyComplete
<1>12. ASSUME NEW p \in Programs, Connect(p) PROVE LoyalInv'
  BY <1>12 DEF Connect, Hook
<1>13. ASSUME NEW p \in Programs, Connected(p) PROVE LoyalInv'
  <2>1. UNCHANGED <<ioctl_set_address, want, copied, loyal>>
    BY <1>13 DEF Connected
  <2>2. st' = [st EXCEPT ![p] = "next"] /\ pc' = [pc EXCEPT ![p] = "out"] /\ st[p] = "first"
    BY <1>13 DEF Connected, Leave
  <2> QED
    BY <2>1, <2>2
<1>14. ASSUME NEW p \in Programs, NEW a \in Addr, ConnectOther(p, a) PROVE LoyalInv'
  BY <1>14 DEF ConnectOther, Hook
<1>15. ASSUME NEW p \in Programs, ConnectedOther(p) PROVE LoyalInv'
  <2>1. UNCHANGED <<ioctl_set_address, want, copied, loyal>>
    BY <1>15 DEF ConnectedOther
  <2>2. st' = [st EXCEPT ![p] = "close"] /\ pc' = [pc EXCEPT ![p] = "out"] /\ st[p] = "second"
    BY <1>15 DEF ConnectedOther, Leave
  <2> QED
    BY <2>1, <2>2
<1>16. ASSUME NEW p \in Programs, Close(p) PROVE LoyalInv'
  BY <1>16 DEF Close
<1>17. ASSUME NEW s \in Senders, TestSet(s) PROVE LoyalInv'
  BY <1>17 DEF TestSet
<1>18. ASSUME NEW s \in Senders, Compare(s) PROVE LoyalInv'
  BY <1>18 DEF Compare
<1>19. ASSUME NEW s \in Senders, Accept(s) PROVE LoyalInv'
  BY <1>19 DEF Accept, Leave
<1>20. ASSUME NEW s \in Traffic, NEW k \in Packet, Send(s, k) PROVE LoyalInv'
  BY <1>20 DEF Send, Hook
<1>21. CASE UNCHANGED vars
  BY <1>21 DEF vars
<1> QED
  BY <1>1, <1>2, <1>3, <1>4, <1>5, <1>6, <1>7, <1>8, <1>9, <1>10, <1>11, <1>12, <1>13,
     <1>14, <1>15, <1>16, <1>17, <1>18, <1>19, <1>20, <1>21 DEF Next, packet_init,
     packet_exit, Program

\* The comparison is made with an address that is set, and with the one that
\* is still there.
LEMMA ExactStep ==
  ASSUME TypeOK, ModInv, HookInv, ExactWhenQuiet, [Next]_vars
  PROVE  ExactWhenQuiet'
<1> USE PacketFilterAssumption DEF module, user, hook, Senders, Opening, TypeOK, ModInv, HookInv, ExactWhenQuiet
<1>1. CASE RegisterHook
  BY <1>1 DEF RegisterHook
<1>2. CASE MiscRegister
  BY <1>2 DEF MiscRegister
<1>3. CASE Rmmod
  BY <1>3 DEF Rmmod
<1>4. CASE UnregisterHook
  BY <1>4 DEF UnregisterHook
<1>5. CASE MiscDeregister
  BY <1>5 DEF MiscDeregister
<1>6. CASE FreeModule
  BY <1>6 DEF FreeModule
<1>7. ASSUME NEW p \in Programs, Open(p) PROVE ExactWhenQuiet'
  BY <1>7 DEF Open
<1>8. ASSUME NEW p \in Programs, NEW a \in Addr, filter_address(p, a) PROVE ExactWhenQuiet'
  BY <1>8 DEF filter_address, Writing
<1>9. ASSUME NEW p \in Programs, CopyByte(p) PROVE ExactWhenQuiet'
  BY <1>9 DEF CopyByte, Stored
<1>10. ASSUME NEW p \in Programs, CopyFaults(p) PROVE ExactWhenQuiet'
  BY <1>10 DEF CopyFaults, Stored
<1>11. ASSUME NEW p \in Programs, IoctlReturns(p) PROVE ExactWhenQuiet'
  BY <1>11 DEF IoctlReturns, CopyComplete
<1>12. ASSUME NEW p \in Programs, Connect(p) PROVE ExactWhenQuiet'
  BY <1>12 DEF Connect, Hook
<1>13. ASSUME NEW p \in Programs, Connected(p) PROVE ExactWhenQuiet'
  BY <1>13 DEF Connected, Leave
<1>14. ASSUME NEW p \in Programs, NEW a \in Addr, ConnectOther(p, a) PROVE ExactWhenQuiet'
  BY <1>14 DEF ConnectOther, Hook
<1>15. ASSUME NEW p \in Programs, ConnectedOther(p) PROVE ExactWhenQuiet'
  BY <1>15 DEF ConnectedOther, Leave
<1>16. ASSUME NEW p \in Programs, Close(p) PROVE ExactWhenQuiet'
  BY <1>16 DEF Close
<1>17. ASSUME NEW s \in Senders, TestSet(s) PROVE ExactWhenQuiet'
  BY <1>17 DEF TestSet
<1>18. ASSUME NEW s \in Senders, Compare(s) PROVE ExactWhenQuiet'
  BY <1>18 DEF Compare
<1>19. ASSUME NEW s \in Senders, Accept(s) PROVE ExactWhenQuiet'
  BY <1>19 DEF Accept, Leave
<1>20. ASSUME NEW s \in Traffic, NEW k \in Packet, Send(s, k) PROVE ExactWhenQuiet'
  BY <1>20 DEF Send, Hook
<1>21. CASE UNCHANGED vars
  BY <1>21 DEF vars
<1> QED
  BY <1>1, <1>2, <1>3, <1>4, <1>5, <1>6, <1>7, <1>8, <1>9, <1>10, <1>11, <1>12, <1>13,
     <1>14, <1>15, <1>16, <1>17, <1>18, <1>19, <1>20, <1>21 DEF Next, packet_init,
     packet_exit, Program

\* A loyal program's packet is compared with the address that it has set.
LEMMA SeesStep ==
  ASSUME TypeOK, ModInv, ConnectInv, HookInv, LoyalInv, ProgramSees, [Next]_vars
  PROVE  ProgramSees'
<1> USE PacketFilterAssumption DEF module, user, hook, Senders, TypeOK, ModInv, ConnectInv, HookInv, LoyalInv, ProgramSees
<1>1. CASE RegisterHook
  BY <1>1 DEF RegisterHook
<1>2. CASE MiscRegister
  BY <1>2 DEF MiscRegister
<1>3. CASE Rmmod
  BY <1>3 DEF Rmmod
<1>4. CASE UnregisterHook
  BY <1>4 DEF UnregisterHook
<1>5. CASE MiscDeregister
  BY <1>5 DEF MiscDeregister
<1>6. CASE FreeModule
  BY <1>6 DEF FreeModule
<1>7. ASSUME NEW p \in Programs, Open(p) PROVE ProgramSees'
  BY <1>7 DEF Open
<1>8. ASSUME NEW p \in Programs, NEW a \in Addr, filter_address(p, a) PROVE ProgramSees'
  BY <1>8 DEF filter_address, Writing
<1>9. ASSUME NEW p \in Programs, CopyByte(p) PROVE ProgramSees'
  BY <1>9 DEF CopyByte, Stored
<1>10. ASSUME NEW p \in Programs, CopyFaults(p) PROVE ProgramSees'
  BY <1>10 DEF CopyFaults, Stored
<1>11. ASSUME NEW p \in Programs, IoctlReturns(p) PROVE ProgramSees'
  BY <1>11 DEF IoctlReturns, CopyComplete
<1>12. ASSUME NEW p \in Programs, Connect(p) PROVE ProgramSees'
  BY <1>12 DEF Connect, Hook
<1>13. ASSUME NEW p \in Programs, Connected(p) PROVE ProgramSees'
  BY <1>13 DEF Connected, Leave
<1>14. ASSUME NEW p \in Programs, NEW a \in Addr, ConnectOther(p, a) PROVE ProgramSees'
  BY <1>14 DEF ConnectOther, Hook
<1>15. ASSUME NEW p \in Programs, ConnectedOther(p) PROVE ProgramSees'
  BY <1>15 DEF ConnectedOther, Leave
<1>16. ASSUME NEW p \in Programs, Close(p) PROVE ProgramSees'
  BY <1>16 DEF Close
<1>17. ASSUME NEW s \in Senders, TestSet(s) PROVE ProgramSees'
  BY <1>17 DEF TestSet
<1>18. ASSUME NEW s \in Senders, Compare(s) PROVE ProgramSees'
  BY <1>18 DEF Compare
<1>19. ASSUME NEW s \in Senders, Accept(s) PROVE ProgramSees'
  BY <1>19 DEF Accept, Leave
<1>20. ASSUME NEW s \in Traffic, NEW k \in Packet, Send(s, k) PROVE ProgramSees'
  BY <1>20 DEF Send, Hook
<1>21. CASE UNCHANGED vars
  BY <1>21 DEF vars
<1> QED
  BY <1>1, <1>2, <1>3, <1>4, <1>5, <1>6, <1>7, <1>8, <1>9, <1>10, <1>11, <1>12, <1>13,
     <1>14, <1>15, <1>16, <1>17, <1>18, <1>19, <1>20, <1>21 DEF Next, packet_init,
     packet_exit, Program

-----------------------------------------------------------------------------
(* Theorems *)

\* Nothing is loaded, and nobody does anything.
LEMMA InitInv == Init => IInv
<1> USE PacketFilterAssumption DEF Init
<1>1. Init => TypeOK
  <2>1. Zero \in Addr
    BY DEF Zero, Addr
  <2>2. NoPacket \in Packet
    BY <2>1 DEF NoPacket, Packet
  <2>3. Init => /\ hit \in [Senders -> BOOLEAN]
                /\ quiet \in [Senders -> BOOLEAN]
                /\ loyal \in [Programs -> BOOLEAN]
    OBVIOUS
  <2>4. Init => /\ st \in [Programs -> {"off", "open", "ioctl", "set", "first",
                                         "next", "second", "close"}]
                /\ want \in [Programs -> Addr]
                /\ copied \in [Programs -> 0..Width]
                /\ pc \in [Senders -> {"out", "test", "compare", "done"}]
                /\ pkt \in [Senders -> Packet]
    BY <2>1, <2>2
  <2> QED
    BY <2>1, <2>3, <2>4 DEF TypeOK
<1>2. Init => ModInv /\ CopyInv /\ ConnectInv /\ HookInv /\ LoyalInv
  BY DEF ModInv, CopyInv, ConnectInv, HookInv, LoyalInv, Senders
<1>3. Init => ExactWhenQuiet /\ ProgramSees
  BY DEF ExactWhenQuiet, ProgramSees, Senders
<1> QED
  BY <1>1, <1>2, <1>3 DEF IInv

\* The invariant holds for ever.
THEOREM Invariance == Spec => []IInv
<1>1. IInv /\ [Next]_vars => IInv'
  BY TypeOKStep, ModInvStep, CopyInvStep, ConnectInvStep, HookInvStep, LoyalInvStep,
     ExactStep, SeesStep DEF IInv
<1> QED
  BY InitInv, <1>1, PTL DEF Spec

\* Types are respected: addresses keep their width under overlapping copies.
THEOREM TypeCorrect == Spec => []TypeOK
<1>1. IInv => TypeOK
  BY DEF IInv
<1> QED
  BY Invariance, <1>1, PTL

\* A hook that no ioctl disturbs reports exactly the packets that open a
\* connection to the address that is set.
THEOREM HooksExact == Spec => []ExactWhenQuiet
<1>1. IInv => ExactWhenQuiet
  BY DEF IInv
<1> QED
  BY Invariance, <1>1, PTL

\* A program whose ioctl no other one has disturbed sees its first connection
\* reported and its second not.
THEOREM OwnConnectionSeen == Spec => []ProgramSees
<1>1. IInv => ProgramSees
  BY DEF IInv
<1> QED
  BY Invariance, <1>1, PTL

\* Nothing can enter the module once its memory is freed.
THEOREM UnloadClean == Spec => []UnloadedClean
<1>1. IInv => UnloadedClean
  BY DEF IInv, ModInv, UnloadedClean
<1> QED
  BY Invariance, <1>1, PTL
=============================================================================
