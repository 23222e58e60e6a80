------------------------------ MODULE MCEncap -------------------------------
(* Instances of Encap for TLC: two sessions and three sockets, so that a   *)
(* client is connected without a session, may find the table full and may  *)
(* get the number of a socket that was closed under another session; two   *)
(* connections, so that a session has one, two or another one's.  No       *)
(* symmetry: the run also checks a liveness property.                      *)
EXTENDS Encap, TLC
=============================================================================
