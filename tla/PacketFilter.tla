---------------------------- MODULE PacketFilter ----------------------------
(***************************************************************************)
(* KernelModules/packet-mod: a netfilter hook (kernel/packet.c) that logs  *)
(* the opening of TCP connections to one address, and the programs that    *)
(* set the address by ioctl and then connect (user/main.cpp).              *)
(*                                                                         *)
(* Nothing orders the ioctls and the hooks.  The address is copied from    *)
(* user space byte by byte, and a fault leaves the bytes that were not     *)
(* copied zero; the hook reads it twice, once to see whether it was set    *)
(* and once to compare.  The hook runs in the context of whoever sends: a  *)
(* program that connects, or other traffic.                                *)
(***************************************************************************)
EXTENDS Naturals, FiniteSets

CONSTANTS
  Programs,  \* processes that use PacketDriver
  Traffic,   \* other contexts that send packets
  Bytes,     \* bound: the values of a byte of an address, 0 among them
  Width      \* bytes of an address: sizeof(unsigned int)

ASSUME PacketFilterAssumption ==
  /\ 0 \in Bytes /\ Bytes \subseteq Nat
  /\ Width \in Nat \ {0}
  /\ Programs \cap Traffic = {}

VARIABLES
  mod,        \* out, hooked, live, going, unhooked, gone
  hooked,     \* is packet_ops registered?
  registered, \* is the misc device registered?
  ioctl_set_address,
  st,         \* what a program does
  want,       \* the address its ioctl passes
  copied,     \* bytes its ioctl has copied
  pc,         \* a sender's progress through packet_hook
  pkt, hit,   \* the packet; was it reported?
  quiet,      \* history: no ioctl has written since the hook was entered
  loyal       \* history: the program's ioctl succeeded and no other one has
              \* run beside it or since

module == <<mod, hooked, registered>>
user   == <<st, want, copied, loyal>>
hook   == <<pc, pkt, hit, quiet>>
vars   == <<module, ioctl_set_address, user, hook>>

Senders == Programs \cup Traffic
Addr    == [1..Width -> Bytes]
Zero    == [b \in 1..Width |-> 0]
Packet  == [tcp : BOOLEAN, syn : BOOLEAN, ack : BOOLEAN, daddr : Addr]
NoPacket     == [tcp |-> FALSE, syn |-> FALSE, ack |-> FALSE, daddr |-> Zero]
SynTo(a)     == [tcp |-> TRUE, syn |-> TRUE, ack |-> FALSE, daddr |-> a]
Writing      == {p \in Programs : st[p] = "ioctl"}

-----------------------------------------------------------------------------
(* packet_hook *)

\* Seeded fault: the answer to a connection request is not told from it.
AnySyn(k) == k.tcp /\ k.syn

\* What the early returns let through.
Opening(k) == k.tcp /\ k.syn /\ ~k.ack

\* packet_hook up to the call of test_daddr.  A packet that opens no
\* connection is accepted at once.
Hook(s, k) ==
  /\ hooked
  /\ pc[s] = "out"
  /\ Opening(k)
  /\ pkt'   = [pkt EXCEPT ![s] = k]
  /\ quiet' = [quiet EXCEPT ![s] = TRUE]
  /\ pc'    = [pc EXCEPT ![s] = "test"]
  /\ UNCHANGED hit

\* test_daddr: has an address been set?
TestSet(s) ==
  /\ pc[s] = "test"
  /\ pc' = [pc EXCEPT ![s] = IF ioctl_set_address = Zero THEN "done" ELSE "compare"]
  /\ UNCHANGED <<module, ioctl_set_address, user, pkt, hit, quiet>>

\* test_daddr: is it this one?  If so the packet is reported.
Compare(s) ==
  /\ pc[s] = "compare"
  /\ hit' = [hit EXCEPT ![s] = pkt[s].daddr = ioctl_set_address]
  /\ pc'  = [pc EXCEPT ![s] = "done"]
  /\ UNCHANGED <<module, ioctl_set_address, user, pkt, quiet>>

Leave(s) ==
  /\ pc[s] = "done"
  /\ pc'  = [pc EXCEPT ![s] = "out"]
  /\ pkt' = [pkt EXCEPT ![s] = NoPacket]
  /\ hit' = [hit EXCEPT ![s] = FALSE]
  /\ quiet' = [quiet EXCEPT ![s] = FALSE]

\* NF_ACCEPT: other traffic goes on.
Accept(s) == s \in Traffic /\ Leave(s) /\ UNCHANGED <<module, ioctl_set_address, user>>

Send(s, k) ==
  /\ s \in Traffic
  /\ Hook(s, k)
  /\ UNCHANGED <<module, ioctl_set_address, user>>

-----------------------------------------------------------------------------
(* PacketDriver and packet_ioctl *)

\* PacketDriver(): open, which pins the module (.owner) unless it is going.
Open(p) ==
  /\ registered /\ mod = "live"
  /\ st[p] = "off"
  /\ st' = [st EXCEPT ![p] = "open"]
  /\ UNCHANGED <<module, ioctl_set_address, want, copied, loyal, hook>>

\* filter_address: any address.  Commands other than MY_IOCTL_FILTER_ADDRESS
\* return -EINVAL and change nothing.
filter_address(p, a) ==
  /\ st[p] = "open"
  /\ st'   = [st EXCEPT ![p] = "ioctl"]
  /\ want' = [want EXCEPT ![p] = a]
  /\ loyal' = [q \in Programs |-> q = p /\ Writing = {}]
  /\ UNCHANGED <<module, ioctl_set_address, copied, hook>>

Stored(a) ==
  /\ ioctl_set_address' = a
  /\ quiet' = [s \in Senders |-> FALSE]

\* Seeded fault: sizeof(unsigned long).
CopyTooMany(p) ==
  /\ st[p] = "ioctl" /\ copied[p] <= Width
  /\ LET b == copied[p] + 1 IN
       /\ Stored([x \in 1..Width \cup {b} |->
                  IF x > Width THEN 0 ELSE IF x = b THEN want[p][b] ELSE ioctl_set_address[x]])
       /\ copied' = [copied EXCEPT ![p] = b]
  /\ UNCHANGED <<module, st, want, loyal, pc, pkt, hit>>

CopyByte(p) ==
  /\ st[p] = "ioctl" /\ copied[p] < Width
  /\ LET b == copied[p] + 1 IN
       /\ Stored([ioctl_set_address EXCEPT ![b] = want[p][b]])
       /\ copied' = [copied EXCEPT ![p] = b]
  /\ UNCHANGED <<module, st, want, loyal, pc, pkt, hit>>

\* -EFAULT: copy_from_user clears the rest, filter_address throws.
CopyFaults(p) ==
  /\ st[p] = "ioctl" /\ copied[p] < Width
  /\ Stored([b \in 1..Width |-> IF b <= copied[p] THEN ioctl_set_address[b] ELSE 0])
  /\ copied' = [copied EXCEPT ![p] = 0]
  /\ loyal'  = [loyal EXCEPT ![p] = FALSE]
  /\ st'     = [st EXCEPT ![p] = "close"]
  /\ UNCHANGED <<module, want, pc, pkt, hit>>

\* Seeded fault: the size given to copy_from_user is one byte short.
OneByteShort(p) == copied[p] = Width - 1

CopyComplete(p) == copied[p] = Width

IoctlReturns(p) ==
  /\ st[p] = "ioctl" /\ CopyComplete(p)
  /\ copied' = [copied EXCEPT ![p] = 0]
  /\ st'     = [st EXCEPT ![p] = "set"]
  /\ UNCHANGED <<module, ioctl_set_address, want, loyal, hook>>

-----------------------------------------------------------------------------
(* main: one connection to the address and one to another *)

Connect(p) ==
  /\ st[p] = "set" /\ pc[p] = "out"
  /\ Hook(p, SynTo(want[p]))
  /\ st' = [st EXCEPT ![p] = "first"]
  /\ UNCHANGED <<module, ioctl_set_address, want, copied, loyal>>

Connected(p) ==
  /\ st[p] = "first"
  /\ Leave(p)
  /\ st' = [st EXCEPT ![p] = "next"]
  /\ UNCHANGED <<module, ioctl_set_address, want, copied, loyal>>

ConnectOther(p, a) ==
  /\ st[p] = "next"
  /\ a # want[p]
  /\ Hook(p, SynTo(a))
  /\ st' = [st EXCEPT ![p] = "second"]
  /\ UNCHANGED <<module, ioctl_set_address, want, copied, loyal>>

ConnectedOther(p) ==
  /\ st[p] = "second"
  /\ Leave(p)
  /\ st' = [st EXCEPT ![p] = "close"]
  /\ UNCHANGED <<module, ioctl_set_address, want, copied, loyal>>

\* ~PacketDriver(), or the end of the process: after both connections, or
\* early when inet_pton, the ioctl, socket or connect has thrown.
Close(p) ==
  /\ st[p] \in {"open", "set", "next", "close"}
  /\ st'    = [st EXCEPT ![p] = "off"]
  /\ want'  = [want EXCEPT ![p] = Zero]
  /\ loyal' = [loyal EXCEPT ![p] = FALSE]
  /\ UNCHANGED <<module, ioctl_set_address, copied, hook>>

-----------------------------------------------------------------------------
(* packet_init, packet_exit *)

\* nf_register_net_hook; if it fails the module is not loaded.
RegisterHook ==
  /\ mod = "out"
  /\ mod' = "hooked" /\ hooked' = TRUE
  /\ ioctl_set_address' = Zero
  /\ UNCHANGED <<registered, user, hook>>

\* misc_register, whose result is not looked at.
MiscRegister ==
  /\ mod = "hooked"
  /\ mod' = "live"
  /\ registered' \in BOOLEAN
  /\ UNCHANGED <<hooked, ioctl_set_address, user, hook>>

\* rmmod, refused while a program has the device open.
Rmmod ==
  /\ mod = "live"
  /\ \A p \in Programs : st[p] = "off"
  /\ mod' = "going"
  /\ UNCHANGED <<hooked, registered, ioctl_set_address, user, hook>>

\* Seeded fault: the hook stays registered.
HookStays ==
  /\ mod = "going"
  /\ mod' = "unhooked"
  /\ UNCHANGED <<hooked, registered, ioctl_set_address, user, hook>>

UnregisterHook ==
  /\ mod = "going"
  /\ mod' = "unhooked" /\ hooked' = FALSE
  /\ UNCHANGED <<registered, ioctl_set_address, user, hook>>

MiscDeregister ==
  /\ mod = "unhooked"
  /\ mod' = "gone" /\ registered' = FALSE
  /\ UNCHANGED <<hooked, ioctl_set_address, user, hook>>

\* The module's memory is freed after an RCU grace period: hooks that were
\* entered before have returned.
FreeModule ==
  /\ mod = "gone"
  /\ \A s \in Senders : pc[s] = "out"
  /\ mod' = "out"
  /\ UNCHANGED <<hooked, registered, ioctl_set_address, user, hook>>

-----------------------------------------------------------------------------
Init ==
  /\ mod = "out" /\ hooked = FALSE /\ registered = FALSE
  /\ ioctl_set_address = Zero
  /\ st = [p \in Programs |-> "off"] /\ want = [p \in Programs |-> Zero]
  /\ copied = [p \in Programs |-> 0] /\ loyal = [p \in Programs |-> FALSE]
  /\ pc = [s \in Senders |-> "out"] /\ pkt = [s \in Senders |-> NoPacket]
  /\ hit = [s \in Senders |-> FALSE] /\ quiet = [s \in Senders |-> FALSE]

Program(p) ==
  \/ Open(p) \/ CopyByte(p) \/ CopyFaults(p) \/ IoctlReturns(p)
  \/ \E a \in Addr : filter_address(p, a) \/ ConnectOther(p, a)
  \/ Connect(p) \/ Connected(p) \/ ConnectedOther(p) \/ Close(p)

packet_init == RegisterHook \/ MiscRegister
packet_exit == Rmmod \/ UnregisterHook \/ MiscDeregister \/ FreeModule

Next ==
  \/ packet_init \/ packet_exit
  \/ \E p \in Programs : Program(p)
  \/ \E s \in Senders : TestSet(s) \/ Compare(s) \/ Accept(s)
  \/ \E s \in Traffic, k \in Packet : Send(s, k)

Spec == Init /\ [][Next]_vars

-----------------------------------------------------------------------------
(* Properties *)

\* The type invariant of the filter, its programs and its hooks.
TypeOK ==
  /\ mod \in {"out", "hooked", "live", "going", "unhooked", "gone"}
  /\ hooked \in BOOLEAN /\ registered \in BOOLEAN
  /\ ioctl_set_address \in Addr
  /\ st \in [Programs -> {"off", "open", "ioctl", "set", "first", "next", "second", "close"}]
  /\ want \in [Programs -> Addr] /\ copied \in [Programs -> 0..Width]
  /\ pc \in [Senders -> {"out", "test", "compare", "done"}]
  /\ pkt \in [Senders -> Packet] /\ hit \in [Senders -> BOOLEAN]
  /\ quiet \in [Senders -> BOOLEAN] /\ loyal \in [Programs -> BOOLEAN]

\* A run of packet_hook during which no ioctl writes the address reports its
\* packet exactly if the packet asks for a TCP connection (SYN without ACK) to
\* the address that is set, and an address that was never set matches nothing,
\* not even packets to 0.0.0.0.
ExactWhenQuiet ==
  \A s \in Senders : (pc[s] = "done" /\ quiet[s]) =>
    hit[s] <=> /\ pkt[s].tcp /\ pkt[s].syn /\ ~pkt[s].ack
               /\ pkt[s].daddr = ioctl_set_address
               /\ ioctl_set_address # Zero

\* A program whose ioctl succeeded sees its own connection to the address it
\* set reported and its other connection not, as main.cpp expects, as long as
\* no other program's ioctl ran beside its own or since.
ProgramSees ==
  \A p \in Programs : (pc[p] = "done" /\ loyal[p]) =>
    hit[p] <=> (st[p] = "first" /\ want[p] # Zero)

\* Once the module's memory is freed nothing can enter it: no hook, no device,
\* no open file.
UnloadedClean ==
  mod = "out" => /\ ~hooked /\ ~registered
                 /\ \A s \in Senders : pc[s] = "out"
                 /\ \A p \in Programs : st[p] = "off"
=============================================================================
