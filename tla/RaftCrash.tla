------------------------------ MODULE RaftCrash ------------------------------
(***************************************************************************)
(* Raft with nodes whose process dies and is started again, the scenario   *)
(* of tests/test_node_recovery.py.  Everything a ConsensusService holds    *)
(* lives in memory, the fields that __init__ calls persistent included, so *)
(* a restart runs __init__ again on an empty service.                      *)
(***************************************************************************)
EXTENDS Raft

CONSTANT MaxRestarts   \* bound: restarts in a behaviour

VARIABLE restarts

\* The process of n dies with its threads, the requests they had under way and
\* the answers they waited for, and __init__ builds the service anew.
Restart(n) ==
    /\ restarts < MaxRestarts
    /\ restarts' = restarts + 1
    /\ currentTerm' = [currentTerm EXCEPT ![n] = 0]
    /\ votedFor' = [votedFor EXCEPT ![n] = Nil]
    /\ log' = [log EXCEPT ![n] = <<>>]
    /\ commitIndex' = [commitIndex EXCEPT ![n] = -1]
    /\ stateMachine' = [stateMachine EXCEPT ![n] = <<>>]
    /\ nextIndex' = [nextIndex EXCEPT ![n] = [p \in Peers(n) |-> 0]]
    /\ matchIndex' = [matchIndex EXCEPT ![n] = [p \in Peers(n) |-> -1]]
    /\ state' = [state EXCEPT ![n] = "FOLLOWER"]
    /\ leaderId' = [leaderId EXCEPT ![n] = Nil]
    /\ running' = [running EXCEPT ![n] = TRUE]
    /\ staleRead' = [staleRead EXCEPT ![n] = FALSE]
    /\ election' = [election EXCEPT ![n] = [t \in Term |-> NoElection]]
    /\ votes' = [votes EXCEPT ![n] = [t \in Term |-> {}]]
    /\ spawned' = [spawned EXCEPT ![n] = {}]
    /\ rpc' = [th \in Thread |->
                  IF rpc[th] # Idle /\ rpc[th].leader = n THEN Idle ELSE rpc[th]]
    /\ voteRequests' = {m \in voteRequests : m.candidate # n}
    /\ voteReplies' = {r \in voteReplies : r.candidate # n}
    /\ UNCHANGED won

CrashInit == Init /\ restarts = 0

CrashNext ==
    \/ Next /\ UNCHANGED restarts
    \/ \E n \in Node : Restart(n)

CrashSpec == CrashInit /\ [][CrashNext]_<<vars, restarts>>

=============================================================================
