------------------------- MODULE KernelListProofs -------------------------
(***************************************************************************)
(* Facts about the lists of <linux/list.h> that the proofs of the modules  *)
(* rest on: what list_add and list_del leave, where n->next leads, and     *)
(* how list_for_each_safe comes through its own deletions.                 *)
(***************************************************************************)
EXTENDS KernelList, FiniteSets, FiniteSetTheorems, TLAPS

\* No node is linked twice.
Distinct(l) == \A i, j \in 1..Len(l) : l[i] = l[j] => i = j

\* The nodes from n to the end of the list: what a walk at n has yet to visit.
Ahead(l, n) ==
  IF n \in Linked(l) THEN {l[i] : i \in Position(l, n)..Len(l)} ELSE {}

-----------------------------------------------------------------------------
\* Position finds a node that is linked.
LEMMA PositionOf ==
  ASSUME NEW S, NEW l \in Seq(S), NEW n \in Linked(l)
  PROVE  Position(l, n) \in 1..Len(l) /\ l[Position(l, n)] = n
BY DEF Position, Linked

\* It is the only one.
LEMMA PositionAt ==
  ASSUME NEW S, NEW l \in Seq(S), Distinct(l), NEW i \in 1..Len(l)
  PROVE  l[i] \in Linked(l) /\ Position(l, l[i]) = i
<1>1. l[i] \in Linked(l)
  BY DEF Linked
<1> QED
  BY <1>1, PositionOf DEF Distinct

\* Only nodes are linked, an empty list links none, and any other its first.
LEMMA LinkedNodes ==
  ASSUME NEW S, NEW l \in Seq(S)
  PROVE  /\ Linked(l) \subseteq S
         /\ Linked(l) = {} <=> l = <<>>
         /\ l # <<>> => First(l) = l[1] /\ First(l) \in Linked(l)
         /\ l = <<>> => First(l) = HEAD
<1>1. Linked(l) \subseteq S
  BY DEF Linked
<1>2. l # <<>> => 1 \in 1..Len(l)
  OBVIOUS
<1>3. l = <<>> => Linked(l) = {}
  BY DEF Linked
<1> QED
  BY <1>1, <1>2, <1>3 DEF Linked, First

\* list_add: one more node, in front.
LEMMA PushedList ==
  ASSUME NEW S, NEW l \in Seq(S), NEW n \in S, Distinct(l), n \notin Linked(l)
  PROVE  /\ Pushed(l, n) \in Seq(S)
         /\ Linked(Pushed(l, n)) = Linked(l) \cup {n}
         /\ Distinct(Pushed(l, n))
<1> DEFINE m == Pushed(l, n)
<1>1. m \in Seq(S) /\ Len(m) = Len(l) + 1 /\ Len(l) \in Nat
  BY DEF Pushed
<1>2. m[1] = n /\ \A i \in 1..Len(l) : m[i + 1] = l[i]
  BY DEF Pushed
<1>3. \A i \in 2..Len(m) : i - 1 \in 1..Len(l) /\ m[i] = l[i - 1]
  BY <1>1, <1>2
<1> HIDE DEF m
<1>4. Linked(m) = Linked(l) \cup {n}
  <2>1. ASSUME NEW x \in Linked(m) PROVE x \in Linked(l) \cup {n}
    <3>1. PICK i \in 1..Len(m) : m[i] = x
      BY DEF Linked
    <3> QED
      BY <1>1, <1>2, <1>3, <3>1 DEF Linked
  <2>2. ASSUME NEW x \in Linked(l) PROVE x \in Linked(m)
    <3>1. PICK i \in 1..Len(l) : l[i] = x
      BY DEF Linked
    <3>2. i + 1 \in 1..Len(m) /\ m[i + 1] = x
      BY <1>1, <1>2, <3>1
    <3> QED
      BY <3>2 DEF Linked
  <2>3. n \in Linked(m)
    BY <1>1, <1>2 DEF Linked
  <2> QED
    BY <2>1, <2>2, <2>3
<1>5. Distinct(m)
  <2>1. \A i \in 1..Len(l) : l[i] # n
    BY DEF Linked
  <2> SUFFICES ASSUME NEW i \in 1..Len(m), NEW j \in 1..Len(m), m[i] = m[j], i # 1
               PROVE  i = j
    BY DEF Distinct
  <2>2. i \in 2..Len(m) /\ m[i] = l[i - 1] /\ i - 1 \in 1..Len(l)
    BY <1>1, <1>3
  <2>3. j # 1
    BY <1>2, <2>1, <2>2
  <2>4. j \in 2..Len(m) /\ m[j] = l[j - 1] /\ j - 1 \in 1..Len(l)
    BY <1>1, <1>3, <2>3
  <2>5. i - 1 = j - 1
    BY <2>2, <2>4 DEF Distinct
  <2> QED
    BY <2>5
<1> QED
  BY <1>1, <1>4, <1>5 DEF m

\* list_del: the places behind the node move up by one.
LEMMA WithoutPlaces ==
  ASSUME NEW S, NEW l \in Seq(S), Distinct(l), NEW n \in Linked(l)
  PROVE  LET m == Without(l, n)
             k == Position(l, n)
         IN  /\ m \in Seq(S) /\ Len(m) = Len(l) - 1
             /\ Len(l) \in Nat /\ k \in 1..Len(l) /\ l[k] = n
             /\ \A i \in 1..Len(m) : m[i] = IF i < k THEN l[i] ELSE l[i + 1]
<1> DEFINE m == Without(l, n)
           k == Position(l, n)
<1>1. Len(l) \in Nat /\ k \in 1..Len(l) /\ l[k] = n
  BY PositionOf
<1> HIDE DEF k
<1>2. m = [i \in 1..(Len(l) - 1) |-> IF i < k THEN l[i] ELSE l[i + 1]]
  BY DEF Without, k
<1> HIDE DEF m
<1>3. ASSUME NEW i \in 1..(Len(l) - 1) PROVE (IF i < k THEN l[i] ELSE l[i + 1]) \in S
  <2>1. i \in 1..Len(l) /\ i + 1 \in 1..Len(l)
    BY <1>1
  <2> QED
    BY <2>1
<1>4. m \in [1..(Len(l) - 1) -> S]
  BY <1>2, <1>3
<1>5. Len(l) - 1 \in Nat
  BY <1>1
<1>6. m \in Seq(S) /\ Len(m) = Len(l) - 1
  BY <1>4, <1>5
<1> QED
  BY <1>1, <1>2, <1>6 DEF m, k

\* list_del: one node less.
LEMMA WithoutList ==
  ASSUME NEW S, NEW l \in Seq(S), Distinct(l), NEW n \in Linked(l)
  PROVE  /\ Without(l, n) \in Seq(S)
         /\ Linked(Without(l, n)) = Linked(l) \ {n}
         /\ Distinct(Without(l, n))
<1> DEFINE m == Without(l, n)
           k == Position(l, n)
<1>1. /\ m \in Seq(S) /\ Len(m) = Len(l) - 1
      /\ Len(l) \in Nat /\ k \in 1..Len(l) /\ l[k] = n
      /\ \A i \in 1..Len(m) : m[i] = IF i < k THEN l[i] ELSE l[i + 1]
  BY WithoutPlaces
<1> HIDE DEF m, k
<1>2. Linked(m) = Linked(l) \ {n}
  <2>1. ASSUME NEW x \in Linked(m) PROVE x \in Linked(l) \ {n}
    <3>1. PICK i \in 1..Len(m) : m[i] = x
      BY DEF Linked
    <3>2. CASE i < k
      BY <1>1, <3>1, <3>2 DEF Linked, Distinct
    <3>3. CASE ~(i < k)
      <4>1. i + 1 \in 1..Len(l) /\ i + 1 # k /\ l[i + 1] = x
        BY <1>1, <3>1, <3>3
      <4> QED
        BY <1>1, <4>1 DEF Linked, Distinct
    <3> QED
      BY <3>2, <3>3
  <2>2. ASSUME NEW x \in Linked(l) \ {n} PROVE x \in Linked(m)
    <3>1. PICK i \in 1..Len(l) : l[i] = x
      BY DEF Linked
    <3>2. CASE i < k
      <4>1. i \in 1..Len(m) /\ m[i] = x
        BY <1>1, <3>1, <3>2
      <4> QED
        BY <4>1 DEF Linked
    <3>3. CASE ~(i < k)
      <4>1. i # k
        BY <1>1, <2>2, <3>1
      <4>2. i - 1 \in 1..Len(m) /\ m[i - 1] = x
        BY <1>1, <3>1, <3>3, <4>1
      <4> QED
        BY <4>2 DEF Linked
    <3> QED
      BY <3>2, <3>3
  <2> QED
    BY <2>1, <2>2
<1>3. Distinct(m)
  <2> SUFFICES ASSUME NEW i \in 1..Len(m), NEW j \in 1..Len(m), m[i] = m[j] PROVE i = j
    BY DEF Distinct
  <2>1. i \in 1..Len(l) /\ j \in 1..Len(l) /\ i + 1 \in 1..Len(l) /\ j + 1 \in 1..Len(l)
    BY <1>1
  <2>2. m[i] = (IF i < k THEN l[i] ELSE l[i + 1]) /\ m[j] = (IF j < k THEN l[j] ELSE l[j + 1])
    BY <1>1
  <2>3. CASE i < k /\ j < k
    BY <2>1, <2>2, <2>3 DEF Distinct
  <2>4. CASE i < k /\ ~(j < k)
    <3>1. i = j + 1
      BY <2>1, <2>2, <2>4 DEF Distinct
    <3> QED
      BY <1>1, <2>1, <2>4, <3>1
  <2>5. CASE ~(i < k) /\ j < k
    <3>1. j = i + 1
      BY <2>1, <2>2, <2>5 DEF Distinct
    <3> QED
      BY <1>1, <2>1, <2>5, <3>1
  <2>6. CASE ~(i < k) /\ ~(j < k)
    <3>1. i + 1 = j + 1
      BY <2>1, <2>2, <2>6 DEF Distinct
    <3> QED
      BY <3>1
  <2> QED
    BY <2>3, <2>4, <2>5, <2>6
<1> QED
  BY <1>1, <1>2, <1>3 DEF m

\* n->next is a node or the head, and not n again.
LEMMA NextNode ==
  ASSUME NEW S, NEW l \in Seq(S), NEW n, HEAD \notin S
  PROVE  /\ NextOf(l, n) \in Linked(l) \cup {HEAD}
         /\ n \notin Linked(l) => NextOf(l, n) = HEAD
         /\ Distinct(l) /\ n \in Linked(l) => NextOf(l, n) # n
<1>1. CASE n \notin Linked(l)
  BY <1>1 DEF NextOf
<1>2. CASE n \in Linked(l)
  <2>1. Position(l, n) \in 1..Len(l) /\ l[Position(l, n)] = n /\ Len(l) \in Nat /\ n # HEAD
    BY <1>2, PositionOf, LinkedNodes
  <2>2. CASE Position(l, n) = Len(l)
    BY <1>2, <2>1, <2>2 DEF NextOf
  <2>3. CASE Position(l, n) # Len(l)
    <3>1. Position(l, n) + 1 \in 1..Len(l)
      BY <2>1, <2>3
    <3>2. NextOf(l, n) = l[Position(l, n) + 1]
      BY <1>2, <2>3 DEF NextOf
    <3> QED
      BY <1>2, <2>1, <3>1, <3>2 DEF Linked, Distinct
  <2> QED
    BY <2>2, <2>3
<1> QED
  BY <1>1, <1>2

\* The walk has all of the list ahead at first and nothing at the head.
LEMMA AheadEnds ==
  ASSUME NEW S, NEW l \in Seq(S), Distinct(l), HEAD \notin S
  PROVE  /\ Ahead(l, HEAD) = {}
         /\ Ahead(l, First(l)) = Linked(l)
<1>1. Ahead(l, HEAD) = {}
  BY LinkedNodes DEF Ahead
<1>2. CASE l = <<>>
  BY <1>1, <1>2, LinkedNodes
<1>3. CASE l # <<>>
  <2>1. 1 \in 1..Len(l)
    BY <1>3
  <2>2. Position(l, l[1]) = 1 /\ First(l) = l[1] /\ First(l) \in Linked(l)
    BY <1>3, <2>1, PositionAt, LinkedNodes
  <2> QED
    BY <1>1, <2>2 DEF Ahead, Linked
<1> QED
  BY <1>1, <1>2, <1>3

\* One step of a walk leaves one node less ahead.
LEMMA AheadNext ==
  ASSUME NEW S, NEW l \in Seq(S), Distinct(l), HEAD \notin S, NEW n \in Linked(l)
  PROVE  Ahead(l, NextOf(l, n)) = Ahead(l, n) \ {n}
<1> DEFINE k == Position(l, n)
<1>1. k \in 1..Len(l) /\ l[k] = n /\ Len(l) \in Nat
  BY PositionOf
<1>2. Ahead(l, n) = {l[i] : i \in k..Len(l)}
  BY DEF Ahead
<1> HIDE DEF k
<1>3. \A i \in 1..Len(l) : l[i] = n => i = k
  BY <1>1 DEF Distinct
<1>4. CASE k = Len(l)
  <2>1. NextOf(l, n) = HEAD
    BY <1>4 DEF NextOf, k
  <2>2. \A i \in k..Len(l) : l[i] = n
    BY <1>1, <1>4
  <2> QED
    BY <1>2, <2>1, <2>2, AheadEnds
<1>5. CASE k # Len(l)
  <2>1. k + 1 \in 1..Len(l)
    BY <1>1, <1>5
  <2>2. NextOf(l, n) = l[k + 1]
    BY <1>5 DEF NextOf, k
  <2>3. Ahead(l, l[k + 1]) = {l[i] : i \in (k + 1)..Len(l)}
    BY <2>1, PositionAt DEF Ahead
  <2>4. \A i \in (k + 1)..Len(l) : i \in 1..Len(l) /\ i \in k..Len(l) /\ l[i] # n
    BY <1>1, <1>3
  <2>5. \A i \in k..Len(l) : l[i] # n => i \in (k + 1)..Len(l)
    BY <1>1
  <2> QED
    BY <1>2, <2>2, <2>3, <2>4, <2>5
<1> QED
  BY <1>4, <1>5

\* After the deletion of n its successor stands where n stood: everybody behind
\* it is still there, and has the same successor.
LEMMA WithoutNext ==
  ASSUME NEW S, NEW l \in Seq(S), Distinct(l), HEAD \notin S, NEW n \in Linked(l)
  PROVE  LET m == Without(l, n)
             s == NextOf(l, n)
         IN  /\ s \in Linked(m) \cup {HEAD}
             /\ NextOf(m, s) = NextOf(l, s)
             /\ Ahead(m, s) = Ahead(l, s)
             /\ n = First(l) => First(m) = s
<1> DEFINE m == Without(l, n)
           k == Position(l, n)
           s == NextOf(l, n)
<1>1. /\ m \in Seq(S) /\ Len(m) = Len(l) - 1
      /\ Len(l) \in Nat /\ k \in 1..Len(l) /\ l[k] = n
      /\ \A i \in 1..Len(m) : m[i] = IF i < k THEN l[i] ELSE l[i + 1]
  BY WithoutPlaces
<1>2. Linked(m) = Linked(l) \ {n} /\ Distinct(m)
  BY WithoutList
<1>3. s \in Linked(m) \cup {HEAD}
  BY <1>2, NextNode
<1>4. HEAD \notin Linked(l) /\ HEAD \notin Linked(m)
  BY <1>1, LinkedNodes
<1>5. CASE k = Len(l)
  <2>1. s = HEAD
    BY <1>5 DEF NextOf
  <2>2. NextOf(m, HEAD) = HEAD /\ NextOf(l, HEAD) = HEAD
    BY <1>4 DEF NextOf
  <2>3. Ahead(m, HEAD) = {} /\ Ahead(l, HEAD) = {}
    BY <1>4 DEF Ahead
  <2>4. n = First(l) => First(m) = HEAD
    <3> SUFFICES ASSUME n = First(l) PROVE First(m) = HEAD
      OBVIOUS
    <3>0. l # <<>> /\ l[1] = n
      BY LinkedNodes
    <3>1. 1 \in 1..Len(l)
      BY <1>1
    <3>2. k = 1
      BY <1>1, <3>0, <3>1 DEF Distinct
    <3>3. m = <<>>
      BY <1>1, <1>5, <3>2
    <3> QED
      BY <3>3 DEF First
  <2> QED
    BY <1>3, <2>1, <2>2, <2>3, <2>4
<1>6. CASE k # Len(l)
  <2>1. k + 1 \in 1..Len(l) /\ k \in 1..Len(m)
    BY <1>1, <1>6
  <2>2. s = l[k + 1]
    BY <1>6 DEF NextOf
  <2>3. m[k] = s
    BY <1>1, <2>1, <2>2
  <2>4. Position(m, s) = k /\ s \in Linked(m)
    BY <1>1, <1>2, <2>1, <2>3, PositionAt
  <2>5. Position(l, s) = k + 1 /\ s \in Linked(l)
    BY <2>1, <2>2, PositionAt
  <2> HIDE DEF k, s, m
  <2>6. NextOf(m, s) = NextOf(l, s)
    <3>1. CASE k = Len(m)
      BY <1>1, <2>4, <2>5, <3>1 DEF NextOf
    <3>2. CASE k # Len(m)
      <4>1. k + 1 \in 1..Len(m) /\ m[k + 1] = l[(k + 1) + 1]
        BY <1>1, <2>1, <3>2
      <4>2. k + 1 # Len(l)
        BY <1>1, <3>2
      <4> QED
        BY <2>4, <2>5, <3>2, <4>1, <4>2 DEF NextOf
    <3> QED
      BY <3>1, <3>2
  <2>7. Ahead(m, s) = Ahead(l, s)
    <3>1. Ahead(m, s) = {m[i] : i \in k..Len(m)}
      BY <2>4 DEF Ahead
    <3>2. Ahead(l, s) = {l[i] : i \in (k + 1)..Len(l)}
      BY <2>5 DEF Ahead
    <3>3. \A i \in k..Len(m) : i + 1 \in (k + 1)..Len(l) /\ m[i] = l[i + 1]
      BY <1>1
    <3>4. \A i \in (k + 1)..Len(l) : i - 1 \in k..Len(m) /\ m[i - 1] = l[i]
      BY <1>1
    <3> QED
      BY <3>1, <3>2, <3>3, <3>4
  <2>8. n = First(l) => First(m) = s
    <3> SUFFICES ASSUME n = First(l) PROVE First(m) = s
      OBVIOUS
    <3>0. l # <<>> /\ l[1] = n
      BY LinkedNodes
    <3>1. 1 \in 1..Len(l)
      BY <1>1
    <3>2. k = 1
      BY <1>1, <3>0, <3>1 DEF Distinct
    <3>3. m # <<>>
      BY <1>1, <2>1
    <3> QED
      BY <2>3, <3>2, <3>3 DEF First
  <2> QED
    BY <1>3, <2>6, <2>7, <2>8 DEF k, s, m
<1> QED
  BY <1>5, <1>6

\* A node is at one place of the list or at none.
LEMMA PlaceCount ==
  ASSUME NEW S, NEW l \in Seq(S), Distinct(l), NEW n
  PROVE  Cardinality({i \in 1..Len(l) : l[i] = n}) = IF n \in Linked(l) THEN 1 ELSE 0
<1>1. CASE n \in Linked(l)
  <2>1. {i \in 1..Len(l) : l[i] = n} = {Position(l, n)}
    BY <1>1, PositionOf DEF Distinct
  <2>2. Cardinality({Position(l, n)}) = 1
    BY FS_Singleton
  <2> QED
    BY <1>1, <2>1, <2>2
<1>2. CASE n \notin Linked(l)
  <2>1. {i \in 1..Len(l) : l[i] = n} = {}
    BY <1>2 DEF Linked
  <2> QED
    BY <1>2, <2>1, FS_EmptySet
<1> QED
  BY <1>1, <1>2

\* A node is in the hands of one thread or of none.
LEMMA HandCount ==
  ASSUME NEW T, NEW f, NEW n, \A t, u \in T : f[t] = n /\ f[u] = n => t = u
  PROVE  Cardinality({t \in T : f[t] = n}) = IF \E t \in T : f[t] = n THEN 1 ELSE 0
<1>1. CASE \E t \in T : f[t] = n
  <2>1. PICK t \in T : f[t] = n
    BY <1>1
  <2>2. {u \in T : f[u] = n} = {t}
    BY <2>1
  <2>3. Cardinality({t}) = 1
    BY FS_Singleton
  <2> QED
    BY <1>1, <2>2, <2>3
<1>2. CASE ~\E t \in T : f[t] = n
  <2>1. {t \in T : f[t] = n} = {}
    BY <1>2
  <2> QED
    BY <1>2, <2>1, FS_EmptySet
<1> QED
  BY <1>1, <1>2
=============================================================================
