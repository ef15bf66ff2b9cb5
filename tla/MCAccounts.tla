----------------------------- MODULE MCAccounts -----------------------------
(***************************************************************************)
(* Two nodes, each with its own users; both sign tokens the other accepts. *)
(***************************************************************************)
EXTENDS Accounts, TLC

CONSTANTS a, b

Symmetry == Permutations(User)

\* Bound: the users of b are changed at time 0 only; failed logins are followed
\* at a only, and only while the users of a were changed at time 0 only.
Profile ==
    /\ \A k \in Source : failures[b][k] = <<>>
    /\ \A u \in User : changedAt[b][u] = 0
    /\ \/ \A u \in User : changedAt[a][u] = 0
       \/ \A k \in Source : failures[a][k] = <<>>

=============================================================================
