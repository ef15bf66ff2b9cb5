-------------------------------- MODULE Raft --------------------------------
(***************************************************************************)
(* The consensus engine of app/services/consensus.py and its HTTP routes   *)
(* in app/api/consensus.py.                                                *)
(*                                                                         *)
(* One ConsensusService runs in every node process.  Its threads are the   *)
(* background loop (_run_loop), one election thread per candidacy          *)
(* (_run_election), one short-lived thread per AppendEntries sent to a     *)
(* peer (_send_append_entries_to_peer) and the HTTP handlers.  They share  *)
(* the fields of the service under self.lock, so an action below is what a *)
(* thread does between taking and releasing the lock; everything that may  *)
(* happen in between is another action.                                    *)
(*                                                                         *)
(* Time is abstracted: a timeout may elapse whenever the code tests it.    *)
(* Requests travel over HTTP: each one is delivered at most once, possibly *)
(* late, possibly never, and concurrent requests overtake each other.      *)
(* Log positions are the code's: 0-based, with -1 for "none"; entry i of   *)
(* the Python list is log[n][i + 1].                                       *)
(***************************************************************************)
EXTENDS Integers, Sequences, FiniteSets

CONSTANTS
    Node,         \* the node names, the keys of node_urls
    Rank,         \* the order of the keys; equal ranks leave the order open
    Nil,          \* Python's None
    Data,         \* the data blocks clients propose
    Thread,       \* AppendEntries threads that may be alive at once, cluster-wide
    Stoppable,    \* the nodes whose /fail-leader route may be called
    Unreliable,   \* the nodes whose requests may fail or time out
    MaxTerm,      \* bound: no candidacy beyond this term
    Contender,    \* bound: the <<node, term>> pairs a candidacy may start for
    MaxLog,       \* bound: no proposal to a log of this length
    MaxInFlight,  \* bound: AppendEntries of one leader to one peer alive at once
    MaxLate       \* bound: vote requests that outlive the client's timeout

ASSUME RaftAssumption ==
    /\ IsFiniteSet(Node)
    /\ Nil \notin Node
    /\ Rank \in [Node -> Int]
    /\ Stoppable \subseteq Node
    /\ Unreliable \subseteq Node
    /\ MaxTerm \in Nat
    /\ Contender \subseteq Node \X (1..MaxTerm)
    /\ MaxLog \in Nat
    /\ MaxInFlight \in Nat
    /\ MaxLate \in Nat

VARIABLES
    \* ConsensusService fields, one function per field
    currentTerm, votedFor, log, commitIndex, stateMachine,
    nextIndex, matchIndex, state, leaderId, running,
    \* threads
    staleRead,     \* the loop has read a state other than LEADER, has not yet
                   \* tested the timeout, and since then the node was elected or
                   \* the loop was told to stop
    election,      \* the locals of the election thread of each candidacy
    votes,         \* the peers whose votes that thread has counted (with self)
    won,           \* history: the terms each node was elected in
    spawned,       \* on a node whose loop was stopped: peers for which an
                   \* AppendEntries thread was started that has not yet run
    rpc,           \* AppendEntries threads that have taken their snapshot
    \* network
    voteRequests,  \* RequestVote requests that may still be delivered
    voteReplies    \* RequestVote answers on their way to a waiting thread

raftVars == <<currentTerm, votedFor, state, leaderId>>
logVars == <<log, commitIndex, stateMachine>>
leaderVars == <<nextIndex, matchIndex>>
electionVars == <<election, votes, won, voteRequests, voteReplies>>
appendVars == <<spawned, rpc>>
vars == <<raftVars, logVars, leaderVars, running, staleRead, electionVars, appendVars>>

-----------------------------------------------------------------------------
Term == 1..MaxTerm
Peers(n) == Node \ {n}

Entry == [term : Term, data : Data]
LogPosition == -1..(MaxLog - 1)

\* The locals of _run_election: the peers still to ask, the one whose answer it
\* waits for, and the arguments it was started with.
ElectionThread == [alive : BOOLEAN, unasked : SUBSET Node, asked : Node \cup {Nil},
                   lastLogIndex : LogPosition, lastLogTerm : 0..MaxTerm]

NoElection == [alive |-> FALSE, unasked |-> {}, asked |-> Nil,
               lastLogIndex |-> -1, lastLogTerm |-> 0]

VoteRequest == [candidate : Node, term : Term, peer : Node,
                lastLogIndex : LogPosition, lastLogTerm : 0..MaxTerm]

VoteReply == [candidate : Node, term : Term, peer : Node,
              replyTerm : Term, granted : BOOLEAN]

Idle == [phase |-> "idle"]

\* A thread waiting for the answer, its request not yet handled ...
AppendRequest == [phase : {"sent"}, leader : Node, peer : Node, term : Term,
                  prevLogIndex : LogPosition, prevLogTerm : 0..MaxTerm,
                  entries : Seq(Entry), leaderCommit : LogPosition]

\* ... and one whose answer has come back; sent is len(entries).
AppendReply == [phase : {"replied"}, leader : Node, peer : Node, term : Term,
                prevLogIndex : LogPosition, sent : 0..MaxLog,
                replyTerm : Term, success : BOOLEAN]

-----------------------------------------------------------------------------
\* Mutant of LastLogIndex: the length, not the last index.
LastLogIndexOffByOne(n) == Len(log[n])

\* get_last_log_index
LastLogIndex(n) == Len(log[n]) - 1

\* get_last_log_term, of a log
LastTermOf(entries) == IF entries = <<>> THEN 0 ELSE entries[Len(entries)].term

LastLogTerm(n) == LastTermOf(log[n])

\* votes > len(node_urls) // 2
IsMajority(S) == Cardinality(S) > Cardinality(Node) \div 2

\* _apply_logs: the state machine "applied" once the commit index is c.
\* last_applied is one less than the length of state_machine, because every
\* increment appends a block.
Applied(applied, entries, c) ==
    IF Len(applied) > c THEN applied
    ELSE [i \in 1..(c + 1) |-> IF i <= Len(applied) THEN applied[i] ELSE entries[i].data]

\* current_term = term; state = FOLLOWER; voted_for = None
StepDown(n, term) ==
    /\ currentTerm' = [currentTerm EXCEPT ![n] = term]
    /\ state' = [state EXCEPT ![n] = "FOLLOWER"]
    /\ votedFor' = [votedFor EXCEPT ![n] = Nil]

-----------------------------------------------------------------------------
\* __init__ of every node
Init ==
    /\ currentTerm = [n \in Node |-> 0]
    /\ votedFor = [n \in Node |-> Nil]
    /\ log = [n \in Node |-> <<>>]
    /\ commitIndex = [n \in Node |-> -1]
    /\ stateMachine = [n \in Node |-> <<>>]
    /\ nextIndex = [n \in Node |-> [p \in Peers(n) |-> 0]]
    /\ matchIndex = [n \in Node |-> [p \in Peers(n) |-> -1]]
    /\ state = [n \in Node |-> "FOLLOWER"]
    /\ leaderId = [n \in Node |-> Nil]
    /\ running = [n \in Node |-> TRUE]
    /\ staleRead = [n \in Node |-> FALSE]
    /\ election = [n \in Node |-> [t \in Term |-> NoElection]]
    /\ votes = [n \in Node |-> [t \in Term |-> {}]]
    /\ won = [n \in Node |-> {}]
    /\ spawned = [n \in Node |-> {}]
    /\ rpc = [th \in Thread |-> Idle]
    /\ voteRequests = {}
    /\ voteReplies = {}

-----------------------------------------------------------------------------
(***************************************************************************)
(* The background loop.                                                    *)
(***************************************************************************)

\* _run_loop reads the state under the lock, releases it and, unless the node
\* leads, calls _check_election_timeout, which does not look at the state again.
\* The test finds the timeout elapsed: a candidacy starts, and its thread is
\* handed the term and the last log position.
ElectionTimeout(n) ==
    /\ \/ running[n] /\ state[n] # "LEADER"
       \/ staleRead[n]
    /\ <<n, currentTerm[n] + 1>> \in Contender
    /\ LET t == currentTerm[n] + 1
       IN  /\ currentTerm' = [currentTerm EXCEPT ![n] = t]
           /\ votedFor' = [votedFor EXCEPT ![n] = n]
           /\ election' = [election EXCEPT ![n][t] =
                 [alive |-> TRUE, unasked |-> Peers(n), asked |-> Nil,
                  lastLogIndex |-> LastLogIndex(n),
                  lastLogTerm |-> LastLogTerm(n)]]
           /\ votes' = [votes EXCEPT ![n][t] = {n}]
    /\ state' = [state EXCEPT ![n] = "CANDIDATE"]
    /\ staleRead' = [staleRead EXCEPT ![n] = FALSE]
    /\ UNCHANGED <<leaderId, logVars, leaderVars, running, won,
                   voteRequests, voteReplies, appendVars>>

\* _check_election_timeout after a read that is stale, the timeout not elapsed.
\* (After a read that still holds this changes nothing.)
TimeoutNotElapsed(n) ==
    /\ staleRead[n]
    /\ staleRead' = [staleRead EXCEPT ![n] = FALSE]
    /\ UNCHANGED <<raftVars, logVars, leaderVars, running, electionVars, appendVars>>

\* POST /fail-leader clears the flag the loop tests at its top.  The loop may
\* be on its way to the timeout test, and on a leader the threads of its last
\* round of heartbeats may not have run yet.
FailLeader(n) ==
    /\ n \in Stoppable
    /\ running[n]
    /\ running' = [running EXCEPT ![n] = FALSE]
    /\ \/ staleRead' = staleRead
       \/ state[n] # "LEADER" /\ staleRead' = [staleRead EXCEPT ![n] = TRUE]
    /\ spawned' = [spawned EXCEPT ![n] = IF state[n] = "LEADER" THEN Peers(n) ELSE @]
    /\ UNCHANGED <<raftVars, logVars, leaderVars, electionVars, rpc>>

-----------------------------------------------------------------------------
(***************************************************************************)
(* The election thread of candidacy (n, t).                                *)
(***************************************************************************)

\* _run_election posts the request to the next peer in the order of node_urls
\* and waits.  The thread does not look at the node's state first: it goes on
\* asking for an old term.
AskVote(n, t, p) ==
    /\ election[n][t].alive
    /\ election[n][t].asked = Nil
    /\ p \in election[n][t].unasked
    /\ \A q \in election[n][t].unasked : Rank[p] <= Rank[q]
    /\ election' = [election EXCEPT ![n][t].asked = p, ![n][t].unasked = @ \ {p}]
    /\ voteRequests' = voteRequests \cup
          {[candidate |-> n, term |-> t, peer |-> p,
            lastLogIndex |-> election[n][t].lastLogIndex,
            lastLogTerm |-> election[n][t].lastLogTerm]}
    /\ UNCHANGED <<raftVars, logVars, leaderVars, running, staleRead, votes, won,
                   voteReplies, appendVars>>

\* Mutant of Grants: within a term the vote goes to whoever asks last.
GrantsTwice(m) ==
    LET p == m.peer
    IN  /\ m.term >= currentTerm[p]
        /\ \/ m.lastLogTerm > LastLogTerm(p)
           \/ /\ m.lastLogTerm = LastLogTerm(p)
              /\ m.lastLogIndex >= LastLogIndex(p)

\* Mutant of Grants: the candidate's log is not compared.
GrantsStaleLog(m) ==
    LET p == m.peer
    IN  /\ m.term >= currentTerm[p]
        /\ \/ m.term > currentTerm[p]
           \/ votedFor[p] \in {Nil, m.candidate}

\* handle_request_vote grants: the term is the node's (possibly just adopted),
\* the vote is free or already the candidate's, the candidate's log is not
\* behind.
Grants(m) ==
    LET p == m.peer
    IN  /\ m.term >= currentTerm[p]
        /\ \/ m.term > currentTerm[p]
           \/ votedFor[p] \in {Nil, m.candidate}
        /\ \/ m.lastLogTerm > LastLogTerm(p)
           \/ /\ m.lastLogTerm = LastLogTerm(p)
              /\ m.lastLogIndex >= LastLogIndex(p)

\* handle_request_vote on the peer, a handler of the HTTP server that runs
\* whether or not the background loop does.  The answer reaches the candidate
\* only while its thread still waits for this peer.
HandleRequestVote(m) ==
    /\ m \in voteRequests
    /\ voteRequests' = voteRequests \ {m}
    /\ LET p == m.peer
           newTerm == IF m.term > currentTerm[p] THEN m.term ELSE currentTerm[p]
       IN  /\ currentTerm' = [currentTerm EXCEPT ![p] = newTerm]
           /\ state' = [state EXCEPT ![p] =
                           IF m.term > currentTerm[p] THEN "FOLLOWER" ELSE @]
           /\ votedFor' = [votedFor EXCEPT ![p] =
                              IF Grants(m) THEN m.candidate
                              ELSE IF m.term > currentTerm[p] THEN Nil ELSE @]
           /\ voteReplies' =
                 IF election[m.candidate][m.term].asked = p
                 THEN voteReplies \cup
                        {[candidate |-> m.candidate, term |-> m.term, peer |-> p,
                          replyTerm |-> newTerm, granted |-> Grants(m)]}
                 ELSE voteReplies
    /\ UNCHANGED <<leaderId, logVars, leaderVars, running, staleRead, election, votes,
                   won, appendVars>>

\* The answer the thread of candidacy (n, t) waits for, if it has come.
AnswersTo(n, t) == {r \in voteReplies : r.candidate = n /\ r.term = t}

\* The thread reads an answer with a higher term: the node steps down and the
\* thread returns.
VoteReplyStepsDown(r) ==
    /\ r \in voteReplies
    /\ r.replyTerm > currentTerm[r.candidate]
    /\ StepDown(r.candidate, r.replyTerm)
    /\ voteReplies' = voteReplies \ AnswersTo(r.candidate, r.term)
    /\ election' = [election EXCEPT ![r.candidate][r.term] = NoElection]
    /\ votes' = [votes EXCEPT ![r.candidate][r.term] = {}]
    /\ UNCHANGED <<leaderId, logVars, leaderVars, running, staleRead, won,
                   voteRequests, appendVars>>

\* The thread reads any other answer: it counts the vote if the candidacy is
\* still on.
CountVote(r) ==
    /\ r \in voteReplies
    /\ r.replyTerm <= currentTerm[r.candidate]
    /\ voteReplies' = voteReplies \ AnswersTo(r.candidate, r.term)
    /\ election' = [election EXCEPT ![r.candidate][r.term].asked = Nil]
    /\ votes' = [votes EXCEPT ![r.candidate][r.term] =
                    IF /\ state[r.candidate] = "CANDIDATE"
                       /\ currentTerm[r.candidate] = r.term
                       /\ r.granted
                    THEN @ \cup {r.peer} ELSE @]
    /\ UNCHANGED <<raftVars, logVars, leaderVars, running, staleRead, won,
                   voteRequests, appendVars>>

\* Requests whose thread no longer waits for them.
Late == {m \in voteRequests : election[m.candidate][m.term].asked # m.peer}

\* The request fails or times out (except Exception: pass).  The answer is lost;
\* the request is lost too, or will be handled late.
VoteRequestFails(n, t) ==
    /\ n \in Unreliable
    /\ election[n][t].asked # Nil
    /\ election' = [election EXCEPT ![n][t].asked = Nil]
    /\ voteReplies' = voteReplies \ AnswersTo(n, t)
    /\ \/ voteRequests' = {m \in voteRequests :
             ~ (m.candidate = n /\ m.term = t /\ m.peer = election[n][t].asked)}
       \/ /\ Cardinality(Late) < MaxLate
          /\ UNCHANGED voteRequests
    /\ UNCHANGED <<raftVars, logVars, leaderVars, running, staleRead, votes, won,
                   appendVars>>

\* All peers asked: the thread is about to count.
AllAsked(n, t) ==
    /\ election[n][t].alive
    /\ election[n][t].asked = Nil
    /\ election[n][t].unasked = {}

ElectionWon(n, t) ==
    /\ state[n] = "CANDIDATE"
    /\ currentTerm[n] = t
    /\ IsMajority(votes[n][t])

\* _send_heartbeats_unlocked starts a thread for every peer.  While the loop
\* runs it does so on a leader at any time, and which of the threads is whose
\* makes no difference; only once it is stopped do they have to be counted.
Spawn(n) == IF running[n] THEN {} ELSE Peers(n)

\* The node becomes LEADER and starts a round of heartbeats.  The loop may have
\* read CANDIDATE just before.
WinElection(n, t) ==
    /\ AllAsked(n, t)
    /\ ElectionWon(n, t)
    /\ state' = [state EXCEPT ![n] = "LEADER"]
    /\ leaderId' = [leaderId EXCEPT ![n] = n]
    /\ nextIndex' = [nextIndex EXCEPT ![n] = [p \in Peers(n) |-> LastLogIndex(n) + 1]]
    /\ matchIndex' = [matchIndex EXCEPT ![n] = [p \in Peers(n) |-> -1]]
    /\ won' = [won EXCEPT ![n] = @ \cup {t}]
    /\ election' = [election EXCEPT ![n][t] = NoElection]
    /\ \/ staleRead' = staleRead
       \/ running[n] /\ staleRead' = [staleRead EXCEPT ![n] = TRUE]
    /\ spawned' = [spawned EXCEPT ![n] = Spawn(n)]
    /\ UNCHANGED <<currentTerm, votedFor, logVars, running, votes,
                   voteRequests, voteReplies, rpc>>

\* The thread ends without a result.
LoseElection(n, t) ==
    /\ AllAsked(n, t)
    /\ ~ ElectionWon(n, t)
    /\ election' = [election EXCEPT ![n][t] = NoElection]
    /\ votes' = [votes EXCEPT ![n][t] = {}]
    /\ UNCHANGED <<raftVars, logVars, leaderVars, running, staleRead, won,
                   voteRequests, voteReplies, appendVars>>

-----------------------------------------------------------------------------
(***************************************************************************)
(* Log replication.                                                        *)
(***************************************************************************)

InFlight(n, p) ==
    {th \in Thread : rpc[th] # Idle /\ rpc[th].leader = n /\ rpc[th].peer = p}

\* propose, on the leader; its thread starts one AppendEntries per peer.
Propose(n, d) ==
    /\ state[n] = "LEADER"
    /\ Len(log[n]) < MaxLog
    /\ log' = [log EXCEPT ![n] = Append(@, [term |-> currentTerm[n], data |-> d])]
    /\ spawned' = [spawned EXCEPT ![n] = Spawn(n)]
    /\ UNCHANGED <<raftVars, commitIndex, stateMachine, leaderVars, running, staleRead,
                   electionVars, rpc>>

\* Mutant of MaySend: a candidate sends as well.
MaySendAsCandidate(n, p) ==
    /\ p \in Peers(n)
    /\ running[n] \/ p \in spawned[n]
    /\ state[n] # "FOLLOWER"

\* A thread started by _send_heartbeats in the loop, or by a proposal or an
\* election, gets the lock on a node that leads.
MaySend(n, p) ==
    /\ p \in Peers(n)
    /\ running[n] \/ p \in spawned[n]
    /\ state[n] = "LEADER"

\* _send_append_entries_to_peer copies under the lock what it will send, and
\* posts it.
SendAppend(n, p, th) ==
    /\ MaySend(n, p)
    /\ rpc[th] = Idle
    /\ Cardinality(InFlight(n, p)) < MaxInFlight
    /\ spawned' = [spawned EXCEPT ![n] = @ \ {p}]
    /\ LET prev == nextIndex[n][p] - 1
       IN  rpc' = [rpc EXCEPT ![th] =
              [phase |-> "sent", leader |-> n, peer |-> p, term |-> currentTerm[n],
               prevLogIndex |-> prev,
               prevLogTerm |-> IF prev \in 0..LastLogIndex(n)
                               THEN log[n][prev + 1].term ELSE 0,
               entries |-> SubSeq(log[n], prev + 2, Len(log[n])),
               leaderCommit |-> commitIndex[n]]]
    /\ UNCHANGED <<raftVars, logVars, leaderVars, running, staleRead, electionVars>>

\* _send_append_entries_to_peer takes the lock on a node that no longer leads.
SendAppendReturns(n, p) ==
    /\ p \in spawned[n]
    /\ state[n] # "LEADER"
    /\ spawned' = [spawned EXCEPT ![n] = @ \ {p}]
    /\ UNCHANGED <<raftVars, logVars, leaderVars, running, staleRead, electionVars, rpc>>

\* The answer the thread th gets.
Answer(m, replyTerm, success) ==
    [phase |-> "replied", leader |-> m.leader, peer |-> m.peer, term |-> m.term,
     prevLogIndex |-> m.prevLogIndex, sent |-> Len(m.entries),
     replyTerm |-> replyTerm, success |-> success]

\* handle_append_entries: a request of an older term changes nothing.
RejectStaleAppend(th) ==
    /\ rpc[th].phase = "sent"
    /\ rpc[th].term < currentTerm[rpc[th].peer]
    /\ rpc' = [rpc EXCEPT ![th] = Answer(@, currentTerm[@.peer], FALSE)]
    /\ UNCHANGED <<raftVars, logVars, leaderVars, running, staleRead, electionVars, spawned>>

\* Mutant of Consistent: the term of the previous entry is not compared.
ConsistentByLength(entries, prev, prevTerm) == prev < Len(entries)

\* The log consistency check on previous position prev of term prevTerm.
Consistent(entries, prev, prevTerm) ==
    \/ prev < 0
    \/ prev < Len(entries) /\ entries[prev + 1].term = prevTerm

\* Mutant of NewLog: the entries are acknowledged and dropped.
NewLogKept(old, m) == old

\* Mutant of NewLog: entries go behind the whole log, without truncation.
NewLogAppends(old, m) ==
    IF Consistent(old, m.prevLogIndex, m.prevLogTerm) /\ Len(old) + Len(m.entries) <= MaxLog
    THEN old \o m.entries ELSE old

\* The log after request m: on a conflict at prev_log_index it is cut off from
\* there on, else the entries replace everything behind prev_log_index.
NewLog(old, m) ==
    LET prev == m.prevLogIndex
        ok == Consistent(old, prev, m.prevLogTerm)
    IN  IF prev >= Len(old) \/ (ok /\ m.entries = <<>>) THEN old
        ELSE IF ok THEN SubSeq(old, 1, prev + 1) \o m.entries
        ELSE SubSeq(old, 1, prev)

\* if leader_commit > commit_index: min(leader_commit, last log index)
NewCommitIndex(commit, length, leaderCommit) ==
    IF leaderCommit <= commit THEN commit
    ELSE IF leaderCommit < length THEN leaderCommit ELSE length - 1

\* handle_append_entries otherwise: the node follows the sender, its log is
\* checked and replaced, and after a successful check the commit index follows.
HandleAppendEntries(th) ==
    /\ rpc[th].phase = "sent"
    /\ rpc[th].term >= currentTerm[rpc[th].peer]
    /\ LET m == rpc[th]
           p == m.peer
           ok == Consistent(log[p], m.prevLogIndex, m.prevLogTerm)
           new == NewLog(log[p], m)
           commit == IF ok THEN NewCommitIndex(commitIndex[p], Len(new), m.leaderCommit)
                     ELSE commitIndex[p]
       IN  /\ currentTerm' = [currentTerm EXCEPT ![p] = m.term]
           /\ votedFor' = [votedFor EXCEPT ![p] =
                              IF m.term > currentTerm[p] THEN Nil ELSE @]
           /\ state' = [state EXCEPT ![p] = "FOLLOWER"]
           /\ leaderId' = [leaderId EXCEPT ![p] = m.leader]
           /\ log' = [log EXCEPT ![p] = new]
           /\ commitIndex' = [commitIndex EXCEPT ![p] = commit]
           /\ stateMachine' = [stateMachine EXCEPT ![p] = Applied(@, new, commit)]
           /\ rpc' = [rpc EXCEPT ![th] = Answer(m, m.term, ok)]
    /\ UNCHANGED <<leaderVars, running, staleRead, electionVars, spawned>>

\* _update_commit_index walks down from the end of the log to the first position
\* of the current term that a majority holds; without one, nothing changes.
IsNewCommitIndex(n, match, c) ==
    LET held == {i \in (commitIndex[n] + 1)..LastLogIndex(n) :
                    /\ log[n][i + 1].term = currentTerm[n]
                    /\ IsMajority({n} \cup {p \in Peers(n) : match[p] >= i})}
    IN  \/ held = {} /\ c = commitIndex[n]
        \/ c \in held /\ \A i \in held : i <= c

\* The sender reads the answer but leads no more, or leads another term.
IgnoreAppendReply(th) ==
    /\ rpc[th].phase = "replied"
    /\ \/ state[rpc[th].leader] # "LEADER"
       \/ currentTerm[rpc[th].leader] # rpc[th].term
    /\ rpc' = [rpc EXCEPT ![th] = Idle]
    /\ UNCHANGED <<raftVars, logVars, leaderVars, running, staleRead, electionVars, spawned>>

LeadsTermOf(th) ==
    /\ rpc[th].phase = "replied"
    /\ state[rpc[th].leader] = "LEADER"
    /\ currentTerm[rpc[th].leader] = rpc[th].term

\* The sender learns of a higher term.
AppendReplyStepsDown(th) ==
    /\ LeadsTermOf(th)
    /\ rpc[th].replyTerm > rpc[th].term
    /\ StepDown(rpc[th].leader, rpc[th].replyTerm)
    /\ rpc' = [rpc EXCEPT ![th] = Idle]
    /\ UNCHANGED <<leaderId, logVars, leaderVars, running, staleRead, electionVars, spawned>>

\* The peer took the entries: its indices move, then the commit index may.
AppendSucceeds(th) ==
    /\ LeadsTermOf(th)
    /\ rpc[th].replyTerm <= rpc[th].term
    /\ rpc[th].success
    /\ rpc[th].sent > 0
    /\ LET n == rpc[th].leader
           p == rpc[th].peer
           match == rpc[th].prevLogIndex + rpc[th].sent
       IN  /\ matchIndex' = [matchIndex EXCEPT ![n][p] = match]
           /\ nextIndex' = [nextIndex EXCEPT ![n][p] = match + 1]
           /\ \E c \in LogPosition :
                 /\ IsNewCommitIndex(n, matchIndex'[n], c)
                 /\ commitIndex' = [commitIndex EXCEPT ![n] = c]
                 /\ stateMachine' = [stateMachine EXCEPT ![n] = Applied(@, log[n], c)]
    /\ rpc' = [rpc EXCEPT ![th] = Idle]
    /\ UNCHANGED <<raftVars, log, running, staleRead, electionVars, spawned>>

\* The peer accepted a heartbeat without entries: nothing is recorded.
HeartbeatSucceeds(th) ==
    /\ LeadsTermOf(th)
    /\ rpc[th].replyTerm <= rpc[th].term
    /\ rpc[th].success
    /\ rpc[th].sent = 0
    /\ rpc' = [rpc EXCEPT ![th] = Idle]
    /\ UNCHANGED <<raftVars, logVars, leaderVars, running, staleRead, electionVars, spawned>>

\* The peer's log does not match: next_index goes one back.
AppendBacktracks(th) ==
    /\ LeadsTermOf(th)
    /\ rpc[th].replyTerm <= rpc[th].term
    /\ ~ rpc[th].success
    /\ nextIndex' = [nextIndex EXCEPT ![rpc[th].leader][rpc[th].peer] =
                        IF @ > 0 THEN @ - 1 ELSE 0]
    /\ rpc' = [rpc EXCEPT ![th] = Idle]
    /\ UNCHANGED <<raftVars, logVars, matchIndex, running, staleRead, electionVars, spawned>>

\* The request or its answer is lost, or the client gave up on it.  A request
\* that is handled after the client gave up is one that is handled and whose
\* answer is then lost.
AppendFails(th) ==
    /\ rpc[th] # Idle
    /\ rpc[th].leader \in Unreliable
    /\ rpc' = [rpc EXCEPT ![th] = Idle]
    /\ UNCHANGED <<raftVars, logVars, leaderVars, running, staleRead, electionVars, spawned>>

-----------------------------------------------------------------------------
Next ==
    \/ \E n \in Node : ElectionTimeout(n)
    \/ \E n \in Node : TimeoutNotElapsed(n)
    \/ \E n \in Node : FailLeader(n)
    \/ \E n \in Node, t \in Term, p \in Node : AskVote(n, t, p)
    \/ \E m \in voteRequests : HandleRequestVote(m)
    \/ \E r \in voteReplies : VoteReplyStepsDown(r)
    \/ \E r \in voteReplies : CountVote(r)
    \/ \E n \in Node, t \in Term : VoteRequestFails(n, t)
    \/ \E n \in Node, t \in Term : WinElection(n, t)
    \/ \E n \in Node, t \in Term : LoseElection(n, t)
    \/ \E n \in Node, d \in Data : Propose(n, d)
    \/ \E n \in Node, p \in Node, th \in Thread : SendAppend(n, p, th)
    \/ \E n \in Node, p \in Node : SendAppendReturns(n, p)
    \/ \E th \in Thread : RejectStaleAppend(th)
    \/ \E th \in Thread : HandleAppendEntries(th)
    \/ \E th \in Thread : IgnoreAppendReply(th)
    \/ \E th \in Thread : AppendReplyStepsDown(th)
    \/ \E th \in Thread : AppendSucceeds(th)
    \/ \E th \in Thread : HeartbeatSucceeds(th)
    \/ \E th \in Thread : AppendBacktracks(th)
    \/ \E th \in Thread : AppendFails(th)

Spec == Init /\ [][Next]_vars

-----------------------------------------------------------------------------
NodeTypeOK ==
    /\ currentTerm \in [Node -> 0..MaxTerm]
    /\ votedFor \in [Node -> Node \cup {Nil}]
    /\ state \in [Node -> {"FOLLOWER", "CANDIDATE", "LEADER"}]
    /\ leaderId \in [Node -> Node \cup {Nil}]
    /\ running \in [Node -> BOOLEAN]
    /\ staleRead \in [Node -> BOOLEAN]

LogTypeOK ==
    /\ log \in [Node -> Seq(Entry)]
    /\ \A n \in Node : Len(log[n]) <= MaxLog
    /\ commitIndex \in [Node -> LogPosition]
    /\ stateMachine \in [Node -> Seq(Data)]

LeaderTypeOK ==
    /\ DOMAIN nextIndex = Node
    /\ \A n \in Node : nextIndex[n] \in [Peers(n) -> 0..MaxLog]
    /\ DOMAIN matchIndex = Node
    /\ \A n \in Node : matchIndex[n] \in [Peers(n) -> LogPosition]

ElectionTypeOK ==
    /\ election \in [Node -> [Term -> ElectionThread]]
    /\ votes \in [Node -> [Term -> SUBSET Node]]
    /\ won \in [Node -> SUBSET Term]
    /\ voteRequests \subseteq VoteRequest
    /\ voteReplies \subseteq VoteReply

AppendTypeOK ==
    /\ spawned \in [Node -> SUBSET Node]
    /\ rpc \in [Thread -> {Idle} \cup AppendRequest \cup AppendReply]

\* TypeOK: every field of every ConsensusService, and every thread and message,
\* stays within its type; in particular positions never leave the bounds of the
\* lists they index.
TypeOK ==
    NodeTypeOK /\ LogTypeOK /\ LeaderTypeOK /\ ElectionTypeOK /\ AppendTypeOK

\* ElectionSafety: at most one node is ever elected in a term, although an
\* election thread goes on asking for an old term and the loop may start a
\* candidacy on a node that was elected since the loop read its state.
ElectionSafety ==
    \A m, n \in Node : m # n => won[m] \cap won[n] = {}

\* LogMatching: two logs with an entry of the same term at the same position are
\* the same up to there, whatever handle_append_entries cut off and replaced.
LogMatching ==
    \A m, n \in Node :
        \A i \in 1..Len(log[m]) :
            i <= Len(log[n]) /\ log[m][i].term = log[n][i].term
               => SubSeq(log[m], 1, i) = SubSeq(log[n], 1, i)

\* LeaderIdWasElected: the leader a node shows on GET /leader was elected, in a
\* term the node has reached; it may be out of office, because stepping down
\* leaves leader_id as it is.
LeaderIdWasElected ==
    \A n \in Node : leaderId[n] # Nil =>
        \E t \in won[leaderId[n]] : t <= currentTerm[n]

-----------------------------------------------------------------------------
(***************************************************************************)
(* The order of requests.  A thread per heartbeat and per proposal means   *)
(* that an AppendEntries may arrive behind a newer one of the same leader. *)
(* What follows on durability holds of behaviours in which that does no    *)
(* harm, []NoOvertaking.                                                   *)
(***************************************************************************)
Requests == {rpc[th] : th \in {k \in Thread : rpc[k].phase = "sent"}}

\* Positions counted from 1, as in log[n].
Position == 1..MaxLog

Before(a) == a.prevLogIndex + 1

End(a) == Before(a) + Len(a.entries)

\* The sender of the request still leads the term it was sent in.
Led(m) == state[m.leader] = "LEADER" /\ m.term = currentTerm[m.leader]

\* p has answered n that it holds n's entry i: n has recorded it, or the answer
\* is on its way.
Acked(n, p, i) ==
    \/ i <= matchIndex[n][p] + 1
    \/ \E th \in Thread :
          /\ rpc[th].phase = "replied" /\ rpc[th].success
          /\ rpc[th].leader = n /\ rpc[th].peer = p /\ rpc[th].term = currentTerm[n]
          /\ i <= rpc[th].prevLogIndex + 1 + rpc[th].sent

\* Its receiver has answered its sender, in its term, that it holds position i.
Replied(m, i) ==
    \E th \in Thread :
        /\ rpc[th].phase = "replied" /\ rpc[th].success
        /\ rpc[th].leader = m.leader /\ rpc[th].peer = m.peer /\ rpc[th].term = m.term
        /\ i <= rpc[th].prevLogIndex + 1 + rpc[th].sent

\* NoOvertaking: no request under way ends before a position that its receiver has
\* acknowledged, by an answer under way or one that its sender has recorded.
NoOvertaking ==
    \A m \in Requests : \A i \in Position :
        Replied(m, i) \/ (Led(m) /\ Acked(m.leader, m.peer, i)) => i <= End(m)

\* The longest of the state machines.
LongestMachine ==
    stateMachine[CHOOSE n \in Node : \A m \in Node :
                    Len(stateMachine[m]) <= Len(stateMachine[n])]

Agreement == INSTANCE AgreedLog WITH machine <- stateMachine, agreed <- LongestMachine

\* ImplementsAgreedLog: as long as NoOvertaking holds, the state machines that
\* GET /state shows are prefixes of one sequence that only grows, whoever led when a
\* block was applied.
ImplementsAgreedLog == Agreement!Spec

Holds(n, i, d) == i <= Len(log[n]) /\ log[n][i].data = d

\* CommittedIsDurable: as long as NoOvertaking holds, a block that some node has
\* applied is, at its position, in the logs of a majority.  The condition is needed:
\* handle_append_entries drops what an overtaken request does not reach.
CommittedIsDurable ==
    \A n \in Node : \A i \in 1..Len(stateMachine[n]) :
        IsMajority({m \in Node : Holds(m, i, stateMachine[n][i])})

\* LeaderCompleteness: as long as NoOvertaking holds, a leader no node has moved
\* beyond holds every block any node has applied.
LeaderCompleteness ==
    \A n \in Node :
        (state[n] = "LEADER" /\ \A m \in Node : currentTerm[m] <= currentTerm[n])
            => \A m \in Node : \A i \in 1..Len(stateMachine[m]) :
                    Holds(n, i, stateMachine[m][i])

\* MatchIndexIsTrue: as long as NoOvertaking holds, the log of a peer that has not
\* moved to a later term agrees with the leader's up to the position the leader has
\* recorded for it, so that _update_commit_index counts no peer that lost the entry.
\* Answers may be read in any order, and move the indices back as well as on.
MatchIndexIsTrue ==
    \A n \in Node : state[n] = "LEADER" =>
        \A p \in Peers(n) : currentTerm[p] <= currentTerm[n] =>
            \A i \in 1..(matchIndex[n][p] + 1) :
                i <= Len(log[p]) /\ log[p][i] = log[n][i]

\* AppliedIsStable: as long as NoOvertaking holds, handle_append_entries never cuts
\* off or replaces an entry the node has already applied.
AppliedIsStable ==
    [][\A n \in Node : \A i \in 1..Len(stateMachine[n]) :
            i <= Len(log'[n]) /\ log'[n][i] = log[n][i]]_vars

=============================================================================
