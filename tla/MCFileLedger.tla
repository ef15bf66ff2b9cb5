---------------------------- MODULE MCFileLedger ----------------------------
(***************************************************************************)
(* The ledger's intervals as main.ts starts it: 3000 ms, up to 15000 ms,   *)
(* which the backoff reaches at the fourth failure.                        *)
(***************************************************************************)
EXTENDS FileLedger

\* The second of the two deletions that may be under way at once.
CONSTANT d2

Asked == deletions + (IF deleteState.kind = "confirming" THEN 1 ELSE 0)

OneLoop == stops = 0 /\ phase[2] = "idle"

\* At most one deletion is asked for, of file 1.
OneDeletion ==
    /\ Asked <= 1
    /\ 2 \in server
    /\ deleteState = Nothing \/ deleteState.file = 1

\* Bound: a stop of the loop and two other events, without uploads; or, with one loop,
\* two requests of any kind while the backend goes away and comes back, or two deletions,
\* of any files, while it goes away.
Profile ==
    /\ deletion[d2] # None => deletions = 2
    /\ \/ uploads = 0 /\ OneDeletion /\ refreshes + deletions + faults <= 1 + stops
       \/ OneLoop /\ OneDeletion /\ refreshes + deletions + uploads <= 2
       \/ OneLoop /\ refreshes = 0 /\ uploads = 0 /\ faults <= 1

=============================================================================
