-------------------------- MODULE MCIoConnections ---------------------------
(* Instances of IoConnections for TLC.  Socket handles and originators are *)
(* only compared for equality, so they are symmetric.                      *)
EXTENDS IoConnections, TLC

Symmetry == Permutations(Fds) \cup Permutations(Originators)
=============================================================================
