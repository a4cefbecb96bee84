----------------------------- MODULE KeyStore -----------------------------
(***************************************************************************)
(* What the keyboard driver promises the processes that read it, without   *)
(* ring buffer, lock and interrupts: keys are stored and taken one at a    *)
(* time, none is taken that was not stored, a key that is stored alone is  *)
(* the one that is taken, and what a read has taken is in its hand until   *)
(* the user gets it or, when the user's page is missing, it is lost.       *)
(***************************************************************************)
EXTENDS Naturals

CONSTANTS Readers, Chars, None

VARIABLES
  held,   \* the number of keys that are stored
  lone,   \* the key that was stored into an empty buffer and is still alone
  hand    \* the key that each reader has taken and not yet passed on

store == <<held, lone, hand>>

Init ==
  /\ held = 0
  /\ lone = None
  /\ hand = [t \in Readers |-> None]

Press(c) ==
  /\ held' = held + 1
  /\ lone' = IF held = 0 THEN c ELSE None
  /\ UNCHANGED hand

\* Which key is taken is promised only for one that is alone; the bytes of the
\* others may be overwritten.
Take(t) ==
  /\ held > 0
  /\ hand[t] = None
  /\ held' = held - 1
  /\ lone' = None
  /\ \E c \in Chars :
       /\ lone # None => c = lone
       /\ hand' = [hand EXCEPT ![t] = c]

\* The key reaches the user, or is lost in a fault; no other is.
PassOn(t) ==
  /\ hand[t] # None
  /\ hand' = [hand EXCEPT ![t] = None]
  /\ UNCHANGED <<held, lone>>

Clear ==
  /\ held' = 0
  /\ lone' = None
  /\ UNCHANGED hand

Next ==
  \/ \E c \in Chars : Press(c)
  \/ \E t \in Readers : Take(t) \/ PassOn(t)
  \/ Clear

SafeSpec == Init /\ [][Next]_store

\* No reader keeps a key for ever.
Spec == SafeSpec /\ \A t \in Readers : WF_store(PassOn(t))
=============================================================================
