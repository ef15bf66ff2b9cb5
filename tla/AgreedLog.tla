------------------------------ MODULE AgreedLog ------------------------------
(***************************************************************************)
(* What the consensus engine promises the applications that read GET       *)
(* /state: there is one sequence of data blocks, it only ever grows at its *)
(* end, and the state machine of every node is a prefix of it that only    *)
(* grows.  Which node extends the sequence, in which order nodes learn of  *)
(* it and how many blocks they learn at once is left open.                 *)
(***************************************************************************)
EXTENDS Naturals, Sequences

CONSTANTS
    Node,
    Data,
    MaxLog      \* bound: blocks agreed upon

VARIABLES
    agreed,     \* the blocks agreed upon so far
    machine     \* the state machine of each node

Init ==
    /\ agreed = <<>>
    /\ machine = [n \in Node |-> <<>>]

\* Sequences of 1 to k blocks.
Batch(k) == UNION {[1..i -> Data] : i \in 1..k}

\* Node n, which has applied all that was agreed upon or catches up with it in
\* the same step, makes more blocks the next ones and applies them.
Agree(n, blocks) ==
    /\ agreed' = agreed \o blocks
    /\ machine' = [machine EXCEPT ![n] = agreed']

\* Node n learns of the blocks up to k.
Learn(n, k) ==
    /\ machine' = [machine EXCEPT ![n] = SubSeq(agreed, 1, k)]
    /\ UNCHANGED agreed

Next ==
    \E n \in Node :
        \/ \E blocks \in Batch(MaxLog - Len(agreed)) : Agree(n, blocks)
        \/ \E k \in (Len(machine[n]) + 1)..Len(agreed) : Learn(n, k)

Spec == Init /\ [][Next]_<<agreed, machine>>

=============================================================================
