---------------------------- MODULE KernelList ----------------------------
(***************************************************************************)
(* The part of <linux/list.h> that the modules use.  A list is the         *)
(* sequence of the nodes linked from its head, which HEAD stands for.      *)
(***************************************************************************)
EXTENDS Naturals, Sequences

CONSTANT HEAD

Linked(list) == {list[i] : i \in 1..Len(list)}

Position(list, n) == CHOOSE i \in 1..Len(list) : list[i] = n

\* head->next
First(list) == IF list = <<>> THEN HEAD ELSE list[1]

\* n->next.  After a node that has left the list the walk ends: what really
\* follows it is undefined, and the properties ask that nobody gets there.
NextOf(list, n) ==
  IF n \notin Linked(list) \/ Position(list, n) = Len(list)
  THEN HEAD ELSE list[Position(list, n) + 1]

\* list_add
Pushed(list, n) == <<n>> \o list

\* list_del
Without(list, n) ==
  [i \in 1..(Len(list) - 1) |->
     IF i < Position(list, n) THEN list[i] ELSE list[i + 1]]
=============================================================================
