---------------------------- MODULE MCNodeDetail ----------------------------
(***************************************************************************)
(* Two nodes, a history of two ticks, two requests under way.              *)
(***************************************************************************)
EXTENDS NodeDetail, TLC

CONSTANTS nodeA, nodeB

MCFirstRole == nodeA :> "LEADER" @@ nodeB :> "FOLLOWER"

\* A node is heard of in time, late or as offline.  The follower it was, nodeB leads
\* from its first report on.
MCReport ==
    {[status |-> "ONLINE", role |-> "LEADER", tick |-> "ok"],
     [status |-> "ONLINE", role |-> "LEADER", tick |-> "warn"],
     [status |-> "OFFLINE", role |-> "LEADER", tick |-> "missed"]}

\* The nodes that were heard of late within the window of ticks.
Late == {n \in Node : \E i \in 1..Ticks : nodeMap[n].history[i] = "warn"}

\* Bounds: only nodeA is heard of late, and nobody with two openings; two openings, or
\* one and a fault, with every node listed.
Bounds ==
    /\ Late \subseteq IF opens <= 1 THEN {nodeA} ELSE {}
    /\ faults = 0 \/ (opens <= 1 /\ listed = Node)

=============================================================================
