---------------------------- MODULE TaskTable ----------------------------
(***************************************************************************)
(* What list-sync promises the modules that use it, without lock, pointers,*)
(* walks and a clock that wraps: a table of entries, changed one entry at a*)
(* time.  An entry stays until it has been left alone for too long and was *)
(* not updated often, or until nobody uses the table any more and all of   *)
(* it is purged.                                                           *)
(***************************************************************************)
EXTENDS Naturals, FiniteSets

CONSTANTS Users, Slots, Pids, Expiry, MinCount, MaxCount

VARIABLES
  phase,   \* out, in, or purging
  users,   \* the modules that use the table
  table    \* the entries: pid, how long ago it was updated, how often

all == <<phase, users, table>>

Init == phase = "out" /\ users = {} /\ table = <<>>

Load == phase = "out" /\ phase' = "in" /\ UNCHANGED <<users, table>>

Join(u)  == phase = "in" /\ users' = users \cup {u} /\ UNCHANGED <<phase, table>>
Leave(u) == users' = users \ {u} /\ UNCHANGED <<phase, table>>

\* The modules insert a pid side by side, each once at a time, so that the table
\* may hold a pid as often as there are modules.  The age counts from when the
\* entry was made, which is before the list is locked for it.
Insert(n) ==
  /\ phase = "in" /\ n \notin DOMAIN table
  /\ \E i \in Pids, a \in 0..(Expiry + 1) :
       /\ Cardinality({m \in DOMAIN table : table[m].pid = i}) <= Cardinality(Users)
       /\ table' = [m \in DOMAIN table \cup {n} |->
                      IF m = n THEN [pid |-> i, age |-> a, count |-> 0] ELSE table[m]]
  /\ UNCHANGED <<phase, users>>

Touch(n) ==
  /\ phase = "in"
  /\ table' = [table EXCEPT ![n].age = 0,
                            ![n].count = IF @ < MaxCount THEN @ + 1 ELSE @]
  /\ UNCHANGED <<phase, users>>

\* The last act of the owner before it removes what has expired.
Mark(n) ==
  /\ phase = "in" /\ users = {}
  /\ table' = [table EXCEPT ![n].count = MaxCount]
  /\ UNCHANGED <<phase, users>>

Remove(n) == table' = [m \in DOMAIN table \ {n} |-> table[m]] /\ UNCHANGED <<phase, users>>

Expire(n) == phase = "in" /\ table[n].age > Expiry /\ table[n].count < MinCount /\ Remove(n)
Purge(n)  == phase = "purging" /\ Remove(n)

BeginPurge ==
  phase = "in" /\ users = {} /\ phase' = "purging" /\ UNCHANGED <<users, table>>

Unload == phase = "purging" /\ table = <<>> /\ phase' = "out" /\ UNCHANGED <<users, table>>

Tick ==
  /\ table' = [n \in DOMAIN table |->
                 IF table[n].age <= Expiry THEN [table[n] EXCEPT !.age = @ + 1] ELSE table[n]]
  /\ UNCHANGED <<phase, users>>

Next ==
  \/ Load \/ BeginPurge \/ Unload \/ Tick
  \/ \E u \in Users : Join(u) \/ Leave(u)
  \/ \E n \in Slots : Insert(n)
  \/ \E n \in DOMAIN table : Touch(n) \/ Mark(n) \/ Expire(n) \/ Purge(n)

Spec == Init /\ [][Next]_all
=============================================================================
