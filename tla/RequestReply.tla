---------------------------- MODULE RequestReply ----------------------------
(***************************************************************************)
(* What explicit messaging over a class 3 connection promises to its       *)
(* originators, whatever is repeated or lost in between: a request that an *)
(* originator numbers takes effect at most once, requests take effect in   *)
(* the order of their numbers, and the answer that the originator accepts  *)
(* for a request is the answer to that request and not to an earlier one.  *)
(***************************************************************************)
EXTENDS Naturals, Sequences

CONSTANT Clients

VARIABLES
    issued,     \* the number of the last request of each originator
    executed,   \* the numbers of those that took effect, in that order
    answered    \* the number of the last one whose answer was accepted

vars == <<issued, executed, answered>>

Init ==
    /\ issued = [c \in Clients |-> 0]
    /\ executed = [c \in Clients |-> <<>>]
    /\ answered = [c \in Clients |-> 0]

(* The originator makes its next request; it may give up the one before.   *)
Issue(c) ==
    /\ issued' = [issued EXCEPT ![c] = @ + 1]
    /\ UNCHANGED <<executed, answered>>

LastExecuted(c) == IF executed[c] = <<>> THEN 0 ELSE executed[c][Len(executed[c])]

(* A request takes effect, once and after all earlier ones that ever do.   *)
Execute(c) ==
    /\ \E n \in (LastExecuted(c) + 1)..issued[c] :
          executed' = [executed EXCEPT ![c] = Append(@, n)]
    /\ UNCHANGED <<issued, answered>>

(* The originator accepts the answer to its last request.                  *)
Answer(c) ==
    /\ LastExecuted(c) = issued[c]
    /\ answered' = [answered EXCEPT ![c] = issued[c]]
    /\ UNCHANGED <<issued, executed>>

Next == \E c \in Clients : Issue(c) \/ Execute(c) \/ Answer(c)

Spec == Init /\ [][Next]_vars
=============================================================================
