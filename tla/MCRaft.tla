------------------------------- MODULE MCRaft -------------------------------
(***************************************************************************)
(* A cluster of three nodes, as in node_urls.  Which node starts which     *)
(* candidacy is fixed by the constant Contender, so nodes are not          *)
(* permuted; data blocks and thread slots are.                             *)
(***************************************************************************)
EXTENDS Raft, TLC

CONSTANTS n1, n2, n3, d1, d2

\* Two rivals in the first term and a third candidate after them.
Rivals == {<<n1, 1>>, <<n2, 1>>, <<n3, 2>>}

\* A leader, its successor, and the first leader again.
Return == {<<n1, 1>>, <<n2, 2>>, <<n1, 3>>}

\* A leader and nobody after it.
Alone == {<<n1, 1>>}

\* Votes are asked for in the order of node_urls, or in any order.
InOrder == (n1 :> 1) @@ (n2 :> 2) @@ (n3 :> 3)

AnyOrder == [n \in Node |-> 0]

Symmetry == Permutations(Thread)

\* Bound: each leader proposes blocks of its own, so that they can be told apart.
OwnBlocks ==
    \A n \in Node : \A i \in 1..Len(log[n]) :
        log[n][i].data = IF log[n][i].term = 1 THEN d1 ELSE d2

Busy == {th \in Thread : rpc[th] # Idle}

\* Bound: a second block of one leader only while requests go out one by one.
OneBlockEach ==
    \/ \A n \in Node : \A i \in 1..(Len(log[n]) - 1) :
          log[n][i].term < log[n][i + 1].term
    \/ Cardinality(Busy) <= 1 /\ \A n \in Node : currentTerm[n] <= 2

\* Bound: nothing of the earlier terms is under way in the third, whose leader
\* sends one request at a time.
QuietReturn ==
    (\E n \in Node : currentTerm[n] = 3) =>
        /\ Cardinality(Busy) <= 1
        /\ \A th \in Busy : rpc[th].term = 3
        /\ \A n \in Node : \A t \in 1..2 : ~ election[n][t].alive

\* Bound: two requests to one peer at once only from the second leader to the first,
\* whose log may differ from its own.
TwoToFirst ==
    \A x, y \in Busy :
        x # y /\ rpc[x].leader = rpc[y].leader /\ rpc[x].peer = rpc[y].peer
        => rpc[x].term = 2 /\ rpc[x].peer = n1

\* The bounds, and the condition of the properties on durability; TLC checks them also
\* in the first state in which it fails, and does not go on from there.
Handover == OwnBlocks /\ OneBlockEach /\ QuietReturn /\ TwoToFirst /\ NoOvertaking

=============================================================================
