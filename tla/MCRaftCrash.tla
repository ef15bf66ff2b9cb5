----------------------------- MODULE MCRaftCrash -----------------------------
(***************************************************************************)
(* A cluster of three nodes, one of which is restarted once.               *)
(***************************************************************************)
EXTENDS RaftCrash, TLC

CONSTANTS n1, n2, n3

Rivals == {<<n1, 1>>, <<n2, 1>>}

AnyOrder == [n \in Node |-> 0]

=============================================================================
