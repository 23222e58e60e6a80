----------------------- MODULE ConnectionList_proofs ------------------------
(***************************************************************************)
(* What the operations on connection_list preserve, and what the search    *)
(* for the first free entry of an array returns.                           *)
(***************************************************************************)
EXTENDS ConnectionList, Naturals, FiniteSetsExt, WellFoundedInduction, FiniteSetTheorems, TLAPS

(* The code's search for the first free entry of an array finds the free   *)
(* entry with the smallest index.                                          *)
LEMMA MinIsLeast ==
    ASSUME NEW S \in SUBSET Nat, S # {}
    PROVE  Min(S) \in S /\ \A y \in S : Min(S) =< y
<1> DEFINE R == {p \in Nat \X Nat : p[1] < p[2]}
<1>1. IsWellFoundedOn(R, Nat)
  BY NatLessThanWellFounded, Zenon DEF OpToRel
<1>2. \A y, z \in Nat : y < z => <<y, z>> \in R
  OBVIOUS
<1> HIDE DEF R
<1>3. PICK x \in S : \A y \in S : ~(<<y, x>> \in R)
  BY <1>1, WFMin
<1>4. ASSUME NEW y \in S PROVE x =< y
  <2>1. x \in Nat /\ y \in Nat
    OBVIOUS
  <2>2. ~(y < x)
    BY <1>2, <1>3, <2>1
  <2> QED
    BY <2>1, <2>2
<1> QED
  BY <1>4 DEF Min

(* The same without the order, for a search that any free entry satisfies. *)
LEMMA MinInSet ==
    ASSUME NEW S \in SUBSET Nat, S # {}
    PROVE  Min(S) \in S
BY MinIsLeast

(* DoublyLinkedListInsertAtHead of an element that is not in the list      *)
(* keeps the list a linear order.                                          *)
LEMMA InsertAtHeadIsList ==
    ASSUME NEW S, NEW l \in ListOf(S), NEW s \in S, s \notin l.members
    PROVE  InsertAtHead(l, s) \in ListOf(S)
<1> DEFINE m == InsertAtHead(l, s)
<1>1. /\ m.members = l.members \cup {s}
      /\ m.newer = l.newer \cup ({s} \X l.members)
      /\ m = [members |-> m.members, newer |-> m.newer]
  BY DEF InsertAtHead
<1>2. /\ l.members \in SUBSET S
      /\ l.newer \subseteq l.members \X l.members
  BY DEF ListOf
<1>3. m \in [members : SUBSET S, newer : SUBSET (S \X S)]
  BY <1>1, <1>2
<1>4. \A t, u \in m.members :
        <<t, u>> \in m.newer <=> (<<t, u>> \in l.newer \/ (t = s /\ u \in l.members))
  BY <1>1
<1>5. m.newer \subseteq m.members \X m.members
  BY <1>1, <1>2
<1>6. \A t \in m.members : <<t, t>> \notin m.newer
  BY <1>1, <1>2, <1>4 DEF ListOf
<1>7. \A t, u \in m.members : t # u => <<t, u>> \in m.newer \/ <<u, t>> \in m.newer
  BY <1>1, <1>2, <1>4 DEF ListOf
<1>8. \A t, u, v \in m.members :
         <<t, u>> \in m.newer /\ <<u, v>> \in m.newer => <<t, v>> \in m.newer
  <2> SUFFICES ASSUME NEW t \in m.members, NEW u \in m.members, NEW v \in m.members,
                      <<t, u>> \in m.newer, <<u, v>> \in m.newer
               PROVE  <<t, v>> \in m.newer
    OBVIOUS
  <2>1. u \in l.members /\ u # s
    BY <1>2, <1>4
  <2>2. <<u, v>> \in l.newer /\ v \in l.members
    BY <1>2, <1>4, <2>1
  <2>3. CASE t = s
    BY <1>4, <2>2, <2>3
  <2>4. CASE t # s
    <3>1. <<t, u>> \in l.newer /\ t \in l.members
      BY <1>2, <1>4, <2>4
    <3> QED
      BY <1>4, <2>1, <2>2, <3>1 DEF ListOf
  <2> QED
    BY <2>3, <2>4
<1> QED
  BY <1>3, <1>5, <1>6, <1>7, <1>8 DEF ListOf

(* Removing connections keeps the list of the others a linear order.       *)
LEMMA RemoveAllIsList ==
    ASSUME NEW S, NEW l \in ListOf(S), NEW V
    PROVE  /\ RemoveAll(l, V) \in ListOf(S)
           /\ RemoveAll(l, V).members = l.members \ V
<1> DEFINE m == RemoveAll(l, V)
<1>1. /\ m.members = l.members \ V
      /\ m.newer = l.newer \cap ((l.members \ V) \X (l.members \ V))
      /\ m = [members |-> m.members, newer |-> m.newer]
  BY DEF RemoveAll
<1>2. /\ l.members \in SUBSET S
      /\ l.newer \subseteq l.members \X l.members
  BY DEF ListOf
<1>3. m \in [members : SUBSET S, newer : SUBSET (S \X S)]
  BY <1>1, <1>2
<1>4. \A t, u \in m.members : <<t, u>> \in m.newer <=> <<t, u>> \in l.newer
  BY <1>1
<1> QED
  BY <1>1, <1>3, <1>4 DEF ListOf
(* A search loop over connection_list finds the member nearest to the head *)
(* of those it looks for: the one with the fewest members before it.       *)
LEMMA FirstInIsFirst ==
    ASSUME NEW S, IsFiniteSet(S), NEW l \in ListOf(S), NEW T, NEW none,
           l.members \cap T # {}
    PROVE  /\ FirstIn(l, T, none) \in l.members \cap T
           /\ \A t \in (l.members \cap T) \ {FirstIn(l, T, none)} :
                 <<FirstIn(l, T, none), t>> \in l.newer
<1> DEFINE M == l.members \cap T
           Before(x) == {t \in M : <<t, x>> \in l.newer}
           Counts == {Cardinality(Before(x)) : x \in M}
<1>1. /\ l.members \in SUBSET S
      /\ \A s \in l.members : <<s, s>> \notin l.newer
      /\ \A s, t \in l.members : s # t => <<s, t>> \in l.newer \/ <<t, s>> \in l.newer
      /\ \A s, t, u \in l.members :
            <<s, t>> \in l.newer /\ <<t, u>> \in l.newer => <<s, u>> \in l.newer
  BY DEF ListOf
<1>2. IsFiniteSet(M)
  BY <1>1, FS_Subset
<1>3. \A x \in M : IsFiniteSet(Before(x)) /\ Cardinality(Before(x)) \in Nat
  BY <1>2, FS_Subset, FS_CardinalityType
<1>4. Counts \in SUBSET Nat /\ Counts # {}
  BY <1>3
<1>5. Min(Counts) \in Counts /\ \A k \in Counts : Min(Counts) =< k
  BY <1>4, MinIsLeast
<1>6. PICK x \in M : Cardinality(Before(x)) = Min(Counts)
  BY <1>5
<1>7. ASSUME NEW t \in M \ {x}, <<x, t>> \notin l.newer PROVE FALSE
  <2>1. <<t, x>> \in l.newer
    BY <1>1, <1>7
  <2>2. Before(t) \in SUBSET Before(x) /\ t \in Before(x) /\ t \notin Before(t)
    BY <1>1, <2>1
  <2>3. Before(t) # Before(x)
    BY <2>2
  <2>4. Cardinality(Before(t)) =< Cardinality(Before(x))
    BY <1>3, <2>2, FS_Subset
  <2>5. Cardinality(Before(t)) # Cardinality(Before(x))
    BY <1>3, <2>2, <2>3, FS_Subset
  <2>6. Min(Counts) =< Cardinality(Before(t))
    BY <1>5, <1>7
  <2>7. Cardinality(Before(t)) \in Nat /\ Cardinality(Before(x)) \in Nat
    BY <1>3, <1>7
  <2> HIDE DEF M, Before, Counts
  <2> QED
    BY <1>6, <2>4, <2>5, <2>6, <2>7
<1>8. \E y \in M : \A t \in M \ {y} : <<y, t>> \in l.newer
  BY <1>6, <1>7
<1> QED
  BY <1>8 DEF FirstIn
=============================================================================
