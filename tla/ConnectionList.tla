--------------------------- MODULE ConnectionList ---------------------------
(***************************************************************************)
(* The operations that the stack uses on connection_list, its global       *)
(* doubly linked list of active connections (utils/doublylinkedlist.c with *)
(* the node allocator of cip/cipconnectionobject.c).                       *)
(*                                                                         *)
(* A list is a value: the set of its members and the pairs <<s, t>> such   *)
(* that s is nearer to the head than t.  Only the order of the members is  *)
(* kept, the pointers that store it are not.                               *)
(***************************************************************************)

(* DoublyLinkedListInitialize: first and last are NULL.                    *)
EmptyList == [members |-> {}, newer |-> {}]

(* DoublyLinkedListInsertAtHead: every member that is there is now behind. *)
InsertAtHead(l, s) ==
    [members |-> l.members \cup {s},
     newer   |-> l.newer \cup ({s} \X l.members)]

(* Mutant: DoublyLinkedListRemoveNode does not relink the neighbours.      *)
RemoveAllKeepingLinks(l, V) == [members |-> l.members \ V, newer |-> l.newer]

(* RemoveFromActiveConnections for every element of the set V: the others  *)
(* keep their order.                                                       *)
RemoveAll(l, V) ==
    [members |-> l.members \ V,
     newer   |-> l.newer \cap ((l.members \ V) \X (l.members \ V))]

(* What every search loop of the stack returns: the member of S that is    *)
(* nearest to the head, or none when S has no member of the list.          *)
FirstIn(l, S, none) ==
    IF l.members \cap S = {} THEN none
    ELSE CHOOSE s \in l.members \cap S :
            \A t \in (l.members \cap S) \ {s} : <<s, t>> \in l.newer

(* A list of elements of S: newer is a strict linear order of its members. *)
ListOf(S) ==
    {l \in [members : SUBSET S, newer : SUBSET (S \X S)] :
        /\ l.newer \subseteq l.members \X l.members
        /\ \A s \in l.members : <<s, s>> \notin l.newer
        /\ \A s, t \in l.members : s # t => <<s, t>> \in l.newer \/ <<t, s>> \in l.newer
        /\ \A s, t, u \in l.members :
              <<s, t>> \in l.newer /\ <<t, u>> \in l.newer => <<s, u>> \in l.newer}
=============================================================================
