---------------------------- MODULE MCFilePanel -----------------------------
(***************************************************************************)
(* Two nodes, and two files of which the first is on one node and the      *)
(* second on both.                                                         *)
(***************************************************************************)
EXTENDS FilePanel, TLC

CONSTANTS nodeA, nodeB, f1, f2

OnOne == [on |-> {nodeA}, status |-> "REPLICATED"]

OnBoth == [on |-> {nodeA, nodeB}, status |-> "REPLICATED"]

Syncing == [on |-> {nodeA}, status |-> "SYNCING"]

AllOnline == nodeA :> "leader" @@ nodeB :> "follower"

OneOffline == nodeA :> "offline" @@ nodeB :> "leader"

MCListed == {OnOne, OnBoth}

MCListing ==
    {f1 :> OnBoth @@ f2 :> None, f1 :> OnOne @@ f2 :> OnBoth}

MCHeartbeats == {AllOnline, OneOffline}

\* Bound: two requests, or one and a fault and no search.
Acts == faults = 0 \/ (acts <= 1 /\ query = File)

MCQuery == {{f1, f2}, {f1}}

=============================================================================
