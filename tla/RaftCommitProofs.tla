--------------------------- MODULE RaftCommitProofs ---------------------------
(***************************************************************************)
(* What is committed is never lost, in every cluster and for every bound,  *)
(* in every behaviour in which no AppendEntries is overtaken:              *)
(*                                                                         *)
(*     Spec /\ []NoOvertaking => []CommittedIsDurable, and so on.          *)
(*                                                                         *)
(* NoOvertaking says that no request under way ends before a position its  *)
(* receiver has acknowledged to its sender.  The engine does not see to    *)
(* that, because it starts a thread per heartbeat and per proposal.        *)
(*                                                                         *)
(* In such behaviours the engine also implements AgreedLog.                *)
(***************************************************************************)
EXTENDS RaftProofs

\* What the proofs of this module build on.
BaseInv == TypeInv /\ ElectionInv /\ LeaderInv /\ PieceInv

LEMMA BaseInvariant == Spec => []BaseInv
<1>1. Init => LeaderInv
  BY DEF Init, LeaderInv, RpcFromElected, LeaderIdWasElected
<1>2. TypeInv /\ TypeInv' /\ ElectionInv /\ LeaderInv /\ [Next]_vars => LeaderInv'
  BY LeaderStep
<1>3. TypeInv /\ ElectionInv /\ PieceInv /\ LeaderInv => BaseInv
  BY DEF BaseInv
<1> QED
  BY <1>1, <1>2, <1>3, PieceInvariant, PTL DEF Spec

-----------------------------------------------------------------------------
(***************************************************************************)
(* The steps, as far as logs and their replication are concerned.          *)
(***************************************************************************)
\* An answer that says no, to the thread that waits for it.
Refused(th) ==
    /\ rpc[th].phase = "sent" /\ rpc'[th].phase = "replied"
    /\ rpc'[th].success = FALSE
    /\ rpc'[th].leader = rpc[th].leader /\ rpc'[th].peer = rpc[th].peer

\* Logs and what leaders know stay, threads end or are refused.
Quiet ==
    /\ log' = log /\ commitIndex' = commitIndex /\ stateMachine' = stateMachine
    /\ matchIndex' = matchIndex
    /\ \A n \in Node : \A p \in Peers(n) : nextIndex'[n][p] <= nextIndex[n][p]
    /\ \A th \in Thread : rpc'[th] = rpc[th] \/ rpc'[th] = Idle \/ Refused(th)

\* Every other step is a proposal, an AppendEntries sent, handled or recorded, or
\* the end of an election that was won.
LEMMA StepKinds ==
    ASSUME TypeInv, Next
    PROVE  \/ Quiet
           \/ \E n \in Node, d \in Data : Propose(n, d)
           \/ \E n, p \in Node, th \in Thread : SendAppend(n, p, th)
           \/ \E th \in Thread : HandleAppendEntries(th)
           \/ \E n \in Node, t \in Term : WinElection(n, t)
           \/ \E th \in Thread : AppendSucceeds(th)
<1> USE RaftAssumption
<1>0. AppendTypeOK /\ LeaderTypeOK
  BY DEF TypeInv, AppendInv
<1>1. ASSUME logVars' = logVars, leaderVars' = leaderVars,
             \A th \in Thread : rpc'[th] = rpc[th] \/ rpc'[th] = Idle \/ Refused(th)
      PROVE  Quiet
  <2>1. \A n \in Node : \A p \in Peers(n) : nextIndex[n][p] \in Int
    BY <1>0 DEF LeaderTypeOK
  <2> QED
    BY <1>1, <2>1 DEF Quiet, logVars, leaderVars
<1>2. ASSUME logVars' = logVars, leaderVars' = leaderVars, rpc' = rpc
      PROVE  Quiet
  BY <1>1, <1>2
<1>3. ASSUME logVars' = logVars, leaderVars' = leaderVars, NEW th \in Thread,
             rpc' = [rpc EXCEPT ![th] = Idle]
      PROVE  Quiet
  BY <1>0, <1>1, <1>3 DEF AppendTypeOK
<1>4. ASSUME NEW n \in Node, ElectionTimeout(n) \/ TimeoutNotElapsed(n) \/ FailLeader(n)
      PROVE  Quiet
  BY <1>2, <1>4 DEF ElectionTimeout, TimeoutNotElapsed, FailLeader, appendVars
<1>5. ASSUME NEW n \in Node, NEW t \in Term, VoteRequestFails(n, t) \/ LoseElection(n, t)
      PROVE  Quiet
  BY <1>2, <1>5 DEF VoteRequestFails, LoseElection, appendVars
<1>6. ASSUME NEW n \in Node, NEW t \in Term, NEW p \in Node, AskVote(n, t, p)
      PROVE  Quiet
  BY <1>2, <1>6 DEF AskVote, appendVars
<1>7. ASSUME NEW m \in voteRequests, HandleRequestVote(m)
      PROVE  Quiet
  BY <1>2, <1>7 DEF HandleRequestVote, appendVars
<1>8. ASSUME NEW r \in voteReplies, VoteReplyStepsDown(r) \/ CountVote(r)
      PROVE  Quiet
  BY <1>2, <1>8 DEF VoteReplyStepsDown, CountVote, appendVars
<1>9. ASSUME NEW n \in Node, NEW p \in Node, SendAppendReturns(n, p)
      PROVE  Quiet
  BY <1>2, <1>9 DEF SendAppendReturns
<1>10. ASSUME NEW th \in Thread, RejectStaleAppend(th)
       PROVE  Quiet
  <2>1. /\ logVars' = logVars /\ leaderVars' = leaderVars /\ rpc[th].phase = "sent"
        /\ rpc' = [rpc EXCEPT ![th] = Answer(rpc[th], currentTerm[rpc[th].peer], FALSE)]
    BY <1>0, <1>10 DEF RejectStaleAppend, AppendTypeOK
  <2>2. Refused(th)
    BY <1>0, <2>1 DEF Refused, Answer, AppendTypeOK
  <2> QED
    BY <1>0, <1>1, <2>1, <2>2 DEF AppendTypeOK
<1>11. ASSUME NEW th \in Thread, IgnoreAppendReply(th) \/ AppendReplyStepsDown(th)
       PROVE  Quiet
  BY <1>3, <1>11 DEF IgnoreAppendReply, AppendReplyStepsDown
<1>12. ASSUME NEW th \in Thread, HeartbeatSucceeds(th) \/ AppendFails(th)
       PROVE  Quiet
  BY <1>3, <1>12 DEF HeartbeatSucceeds, AppendFails
<1>13. ASSUME NEW th \in Thread, AppendBacktracks(th)
       PROVE  Quiet
  <2>1. ASSUME NEW n \in Node, NEW p \in Peers(n)
        PROVE  nextIndex'[n][p] <= nextIndex[n][p]
    <3>1. nextIndex[n][p] \in Nat /\ n \in DOMAIN nextIndex /\ p \in DOMAIN nextIndex[n]
      BY <1>0 DEF LeaderTypeOK
    <3>2. \/ nextIndex'[n][p] = nextIndex[n][p]
          \/ nextIndex'[n][p] = IF nextIndex[n][p] > 0 THEN nextIndex[n][p] - 1 ELSE 0
      BY <1>13, <3>1 DEF AppendBacktracks
    <3> QED
      BY <3>1, <3>2
  <2>2. \A k \in Thread : rpc'[k] = rpc[k] \/ rpc'[k] = Idle
    BY <1>0, <1>13 DEF AppendBacktracks, AppendTypeOK
  <2> QED
    BY <1>13, <2>1, <2>2 DEF AppendBacktracks, Quiet, logVars
<1> QED
  BY <1>4, <1>5, <1>6, <1>7, <1>8, <1>9, <1>10, <1>11, <1>12, <1>13 DEF Next
-----------------------------------------------------------------------------
(***************************************************************************)
(* The steps, as far as candidates are concerned.                          *)
(***************************************************************************)
\* Who is a candidate after a step was one before, in the same term and with the
\* same log, or becomes one.
LEMMA CandidatesStay ==
    ASSUME TypeInv, Next, NEW c \in Node, state'[c] = "CANDIDATE"
    PROVE  /\ log'[c] = log[c]
           /\ \/ state[c] = "CANDIDATE" /\ currentTerm'[c] = currentTerm[c]
              \/ ElectionTimeout(c)
<1> USE RaftAssumption
<1>0. NodeTypeOK /\ LogTypeOK /\ ElectionTypeOK /\ AppendTypeOK
  BY DEF TypeInv, AppendInv, LogInv
<1> DEFINE Goal == /\ log'[c] = log[c]
                   /\ \/ state[c] = "CANDIDATE" /\ currentTerm'[c] = currentTerm[c]
                      \/ ElectionTimeout(c)
<1>1. ASSUME raftVars' = raftVars, log' = log
      PROVE  Goal
  BY <1>1 DEF raftVars
<1>2. ASSUME NEW n \in Node, ElectionTimeout(n)
      PROVE  Goal
  BY <1>0, <1>2 DEF ElectionTimeout, NodeTypeOK, logVars
<1>3. ASSUME NEW n \in Node, TimeoutNotElapsed(n) \/ FailLeader(n)
      PROVE  Goal
  BY <1>1, <1>3 DEF TimeoutNotElapsed, FailLeader, logVars
<1>4. ASSUME NEW n \in Node, NEW t \in Term, NEW p \in Node, AskVote(n, t, p)
      PROVE  Goal
  BY <1>1, <1>4 DEF AskVote, logVars
<1>5. ASSUME NEW m \in voteRequests, HandleRequestVote(m)
      PROVE  Goal
  BY <1>0, <1>5 DEF HandleRequestVote, NodeTypeOK, ElectionTypeOK, VoteRequest, logVars
<1>6. ASSUME NEW r \in voteReplies, VoteReplyStepsDown(r)
      PROVE  Goal
  BY <1>0, <1>6 DEF VoteReplyStepsDown, StepDown, NodeTypeOK, ElectionTypeOK, VoteReply, logVars
<1>7. ASSUME NEW r \in voteReplies, CountVote(r)
      PROVE  Goal
  BY <1>1, <1>7 DEF CountVote, logVars
<1>8. ASSUME NEW n \in Node, NEW t \in Term, VoteRequestFails(n, t) \/ LoseElection(n, t)
      PROVE  Goal
  BY <1>1, <1>8 DEF VoteRequestFails, LoseElection, logVars
<1>9. ASSUME NEW n \in Node, NEW t \in Term, WinElection(n, t)
      PROVE  Goal
  BY <1>0, <1>9 DEF WinElection, NodeTypeOK, logVars
<1>10. ASSUME NEW n \in Node, NEW d \in Data, Propose(n, d)
       PROVE  Goal
  BY <1>0, <1>10 DEF Propose, NodeTypeOK, LogTypeOK, raftVars
<1>11. ASSUME NEW n \in Node, NEW p \in Node, NEW th \in Thread, SendAppend(n, p, th)
       PROVE  Goal
  BY <1>1, <1>11 DEF SendAppend, logVars
<1>12. ASSUME NEW n \in Node, NEW p \in Node, SendAppendReturns(n, p)
       PROVE  Goal
  BY <1>1, <1>12 DEF SendAppendReturns, logVars
<1>13. ASSUME NEW th \in Thread, HandleAppendEntries(th)
       PROVE  Goal
  BY <1>0, <1>13, RpcKinds DEF HandleAppendEntries, NodeTypeOK, LogTypeOK, AppendRequest
<1>14. ASSUME NEW th \in Thread, AppendReplyStepsDown(th)
       PROVE  Goal
  BY <1>0, <1>14, RpcKinds DEF AppendReplyStepsDown, LeadsTermOf, StepDown, NodeTypeOK,
     AppendReply, logVars
<1>15. ASSUME NEW th \in Thread, RejectStaleAppend(th) \/ IgnoreAppendReply(th)
                                  \/ AppendFails(th)
       PROVE  Goal
  BY <1>1, <1>15 DEF RejectStaleAppend, IgnoreAppendReply, AppendFails, logVars
<1>16. ASSUME NEW th \in Thread, AppendSucceeds(th) \/ HeartbeatSucceeds(th)
                                  \/ AppendBacktracks(th)
       PROVE  Goal
  BY <1>1, <1>16 DEF AppendSucceeds, HeartbeatSucceeds, AppendBacktracks, logVars
<1> QED
  BY <1>2, <1>3, <1>4, <1>5, <1>6, <1>7, <1>8, <1>9, <1>10, <1>11, <1>12, <1>13, <1>14,
     <1>15, <1>16 DEF Next

\* A vote is given by the candidate to itself or by handle_request_vote.
LEMMA NewGrants ==
    ASSUME TypeInv, Next, NEW p \in Node, NEW c \in Node, NEW t \in Term,
           Granted(p, c, t)', ~ Granted(p, c, t)
    PROVE  \/ ElectionTimeout(c) /\ p = c /\ t = currentTerm[c] + 1
           \/ \E m \in voteRequests : /\ HandleRequestVote(m) /\ Grants(m)
                                       /\ m.candidate = c /\ m.term = t /\ m.peer = p
<1> USE RaftAssumption
<1>0. /\ ElectionTypeOK
      /\ \A d \in Node : /\ election[d] \in [Term -> ElectionThread]
                         /\ votes[d] \in [Term -> SUBSET Node]
  BY DEF TypeInv, ElectionTypeOK
<1> DEFINE Goal == \/ ElectionTimeout(c) /\ p = c /\ t = currentTerm[c] + 1
                   \/ \E m \in voteRequests : /\ HandleRequestVote(m) /\ Grants(m)
                                               /\ m.candidate = c /\ m.term = t /\ m.peer = p
<1>1. ASSUME \A x \in voteReplies' : x \in voteReplies,
             votes'[c][t] \subseteq votes[c][t]
      PROVE  FALSE
  BY <1>1 DEF Granted
<1>2. ASSUME electionVars' = electionVars \/ (votes' = votes /\ voteReplies' = voteReplies)
      PROVE  FALSE
  BY <1>1, <1>2 DEF electionVars
<1>3. ASSUME NEW n \in Node, ElectionTimeout(n)
      PROVE  Goal
  <2>1. voteReplies' = voteReplies /\ votes' = [votes EXCEPT ![n][currentTerm[n] + 1] = {n}]
    BY <1>3 DEF ElectionTimeout
  <2>2. p \in votes'[c][t]
    BY <2>1 DEF Granted
  <2>3. CASE n = c /\ t = currentTerm[n] + 1
    BY <1>0, <1>3, <2>1, <2>2, <2>3 DEF ElectionTypeOK
  <2>4. CASE ~ (n = c /\ t = currentTerm[n] + 1)
    BY <1>0, <2>1, <2>2, <2>4 DEF ElectionTypeOK, Granted
  <2> QED
    BY <2>3, <2>4
<1>4. ASSUME NEW m \in voteRequests, HandleRequestVote(m)
      PROVE  Goal
  <2> DEFINE newTerm == IF m.term > currentTerm[m.peer] THEN m.term ELSE currentTerm[m.peer]
             r == [candidate |-> m.candidate, term |-> m.term, peer |-> m.peer,
                   replyTerm |-> newTerm, granted |-> Grants(m)]
  <2>1. votes' = votes /\ voteReplies' \subseteq voteReplies \cup {r}
    BY <1>4 DEF HandleRequestVote
  <2>2. PICK x \in voteReplies' : x.candidate = c /\ x.term = t /\ x.peer = p /\ x.granted
    BY <2>1 DEF Granted
  <2>3. x = r
    BY <2>1, <2>2 DEF Granted
  <2>4. r.candidate = m.candidate /\ r.term = m.term /\ r.peer = m.peer
    OBVIOUS
  <2>5. r.granted <=> Grants(m)
    OBVIOUS
  <2> HIDE DEF r
  <2> QED
    BY <1>4, <2>2, <2>3, <2>4, <2>5
<1>5. ASSUME NEW r \in voteReplies, CountVote(r)
      PROVE  FALSE
  <2>1. r.candidate \in Node /\ r.term \in Term
    BY <1>0 DEF ElectionTypeOK, VoteReply
  <2>2. \A x \in voteReplies' : x \in voteReplies
    BY <1>5 DEF CountVote
  <2>3. votes' = [votes EXCEPT ![r.candidate][r.term] =
                    IF /\ state[r.candidate] = "CANDIDATE"
                       /\ currentTerm[r.candidate] = r.term
                       /\ r.granted
                    THEN @ \cup {r.peer} ELSE @]
    BY <1>5 DEF CountVote
  <2>4. votes'[c][t] \subseteq votes[c][t]
        \/ (r.candidate = c /\ r.term = t /\ r.granted
             /\ votes'[c][t] \subseteq votes[c][t] \cup {r.peer})
    BY <1>0, <2>1, <2>3 DEF ElectionTypeOK
  <2> QED
    BY <2>2, <2>4 DEF Granted
<1>6. ASSUME NEW r \in voteReplies, VoteReplyStepsDown(r)
      PROVE  FALSE
  <2>1. r.candidate \in Node /\ r.term \in Term
    BY <1>0 DEF ElectionTypeOK, VoteReply
  <2> QED
    BY <1>0, <1>1, <1>6, <2>1 DEF VoteReplyStepsDown, ElectionTypeOK
<1>7. ASSUME NEW n \in Node, NEW u \in Term, LoseElection(n, u)
      PROVE  FALSE
  <2>1. voteReplies' = voteReplies /\ votes' = [votes EXCEPT ![n][u] = {}]
    BY <1>7 DEF LoseElection
  <2>2. votes'[c][t] \subseteq votes[c][t]
    BY <1>0, <2>1 DEF ElectionTypeOK
  <2> QED
    BY <1>1, <2>1, <2>2
<1>8. ASSUME NEW n \in Node, NEW u \in Term, VoteRequestFails(n, u)
       PROVE  FALSE
  BY <1>1, <1>8 DEF VoteRequestFails
<1>9. ASSUME NEW n \in Node, NEW u \in Term, NEW q \in Node, AskVote(n, u, q)
      PROVE  FALSE
  BY <1>2, <1>9 DEF AskVote
<1>10. ASSUME NEW n \in Node, TimeoutNotElapsed(n) \/ FailLeader(n)
      PROVE  FALSE
  BY <1>2, <1>10 DEF TimeoutNotElapsed, FailLeader
<1>11. ASSUME NEW n \in Node, NEW d \in Data, Propose(n, d)
       PROVE  FALSE
  BY <1>2, <1>11 DEF Propose
<1>12. ASSUME NEW n \in Node, NEW q \in Node, NEW th \in Thread,
              SendAppend(n, q, th)
       PROVE  FALSE
  BY <1>2, <1>12 DEF SendAppend
<1>13. ASSUME NEW n \in Node, NEW q \in Node, SendAppendReturns(n, q)
       PROVE  FALSE
  BY <1>2, <1>13 DEF SendAppendReturns
<1>14. ASSUME NEW th \in Thread,
              RejectStaleAppend(th) \/ HandleAppendEntries(th) \/ IgnoreAppendReply(th)
                \/ AppendReplyStepsDown(th)
       PROVE  FALSE
  BY <1>2, <1>14 DEF RejectStaleAppend, HandleAppendEntries, IgnoreAppendReply,
     AppendReplyStepsDown
<1>15. ASSUME NEW th \in Thread,
              AppendSucceeds(th) \/ HeartbeatSucceeds(th) \/ AppendBacktracks(th)
                \/ AppendFails(th)
       PROVE  FALSE
  BY <1>2, <1>15 DEF AppendSucceeds, HeartbeatSucceeds, AppendBacktracks, AppendFails
<1>16. ASSUME NEW n \in Node, NEW u \in Term, WinElection(n, u)
       PROVE  FALSE
  BY <1>2, <1>16 DEF WinElection
<1> QED
  BY <1>3, <1>4, <1>5, <1>6, <1>7, <1>8, <1>9, <1>10, <1>11, <1>12, <1>13, <1>14, <1>15, <1>16
  DEF Next
-----------------------------------------------------------------------------
(***************************************************************************)
(* AppendEntries.                                                          *)
(***************************************************************************)
\* What _send_append_entries_to_peer copies: the log from next_index on, and the
\* term of the entry before.
LEMMA SentRequest ==
    ASSUME TypeInv, TypeInv', NEW n \in Node, NEW p \in Node, NEW th \in Thread,
           SendAppend(n, p, th)
    PROVE  LET m == rpc'[th]
               s == log[n]
           IN  /\ state[n] = "LEADER" /\ p \in Peers(n) /\ rpc[th] = Idle /\ log' = log
               /\ m.phase = "sent" /\ m.leader = n /\ m.peer = p /\ m.term = currentTerm[n]
               /\ m.leaderCommit = commitIndex[n]
               /\ rpc' = [rpc EXCEPT ![th] = m]
               /\ Requests' \subseteq Requests \cup {m} /\ Pieces' \subseteq Pieces \cup {m}
               /\ IsPiece(m) /\ PartOf(m, Whole(s)) /\ Before(m) = nextIndex[n][p]
               /\ Before(m) <= Len(s) => End(m) = Len(s)
               /\ m.prevLogTerm = IF Before(m) \in 1..Len(s) THEN s[Before(m)].term ELSE 0
<1> USE RaftAssumption
<1> DEFINE m == rpc'[th]
           s == log[n]
           k == nextIndex[n][p]
           prev == k - 1
<1>0. /\ AppendTypeOK /\ log \in [Node -> Seq(Entry)] /\ s \in Seq(Entry)
      /\ Len(s) <= MaxLog /\ Len(s) \in Nat
  BY DEF TypeInv, AppendInv, LogInv, LogTypeOK
<1>1. /\ state[n] = "LEADER" /\ p \in Peers(n) /\ rpc[th] = Idle /\ log' = log
      /\ m.phase = "sent" /\ m.leader = n /\ m.peer = p /\ m.term = currentTerm[n]
      /\ m.leaderCommit = commitIndex[n] /\ rpc' = [rpc EXCEPT ![th] = m]
      /\ m.prevLogIndex = prev /\ m.entries = SubSeq(s, prev + 2, Len(s))
      /\ m.prevLogTerm = IF prev \in 0..LastLogIndex(n) THEN s[prev + 1].term ELSE 0
  BY <1>0 DEF SendAppend, MaySend, logVars, AppendTypeOK
<1>2. k \in Nat /\ prev \in Int /\ prev >= -1
  BY <1>1 DEF TypeInv, LeaderTypeOK
<1>3. Before(m) = k
  BY <1>1, <1>2 DEF Before
<1>4. \A x \in Thread : rpc'[x] = rpc[x] \/ rpc'[x] = m
  BY <1>0, <1>1 DEF AppendTypeOK
<1> HIDE DEF m, s, k
<1>5. Requests' \subseteq Requests \cup {m} /\ Pieces' \subseteq Pieces \cup {m}
  BY <1>1, <1>4 DEF Pieces, Requests
<1>6. IsPiece(m)
  <2>1. m \in Pieces'
    BY <1>1 DEF Pieces, Requests, m
  <2> QED
    BY <2>1, PiecesTypedNext DEF AllPieces
<1>7. m.prevLogTerm = IF k \in 1..Len(s) THEN s[k].term ELSE 0
  <2>1. (k \in 1..Len(s) <=> prev \in 0..(Len(s) - 1)) /\ prev + 1 = k
    BY <1>0, <1>2
  <2>2. m.prevLogTerm = IF prev \in 0..(Len(s) - 1) THEN s[prev + 1].term ELSE 0
    BY <1>1 DEF LastLogIndex, s
  <2> QED
    BY <2>1, <2>2
<1>8. PartOf(m, Whole(s))
  <2>1. prev \in 0..(Len(s) - 1) => m.prevLogTerm = s[prev + 1].term
    BY <1>1 DEF LastLogIndex, s
  <2> QED
    BY <1>0, <1>1, <1>2, <2>1, SentPiece
<1>9. k <= Len(s) => End(m) = Len(s)
  <2>1. \A i \in (prev + 2)..Len(s) : s[i] \in Entry
    BY <1>0, <1>2, ElementOfSeq
  <2>2. Len(m.entries) = IF prev + 2 <= Len(s) THEN Len(s) - (prev + 2) + 1 ELSE 0
    BY <1>0, <1>1, <1>2, <2>1, SubSeqProperties
  <2>3. CASE prev + 2 <= Len(s)
    BY <1>0, <1>2, <1>3, <2>2, <2>3 DEF End
  <2>4. CASE ~ (prev + 2 <= Len(s))
    BY <1>0, <1>2, <1>3, <2>2, <2>4 DEF End
  <2> QED
    BY <2>3, <2>4
<1> QED
  BY <1>1, <1>3, <1>5, <1>6, <1>7, <1>8, <1>9 DEF m, s, k

\* What handle_append_entries changes.
LEMMA HandledRequest ==
    ASSUME TypeInv, NEW th \in Thread, HandleAppendEntries(th)
    PROVE  LET m   == rpc[th]
               p   == m.peer
               ok  == Consistent(log[p], m.prevLogIndex, m.prevLogTerm)
               new == NewLog(log[p], m)
           IN  /\ m \in AppendRequest /\ Fits(m) /\ m \in Requests /\ m \in Pieces
               /\ IsPiece(m) /\ p \in Node /\ m.term >= currentTerm[p]
               /\ new \in Seq(Entry) /\ Len(new) <= MaxLog
               /\ log' = [log EXCEPT ![p] = new]
               /\ currentTerm' = [currentTerm EXCEPT ![p] = m.term]
               /\ state' = [state EXCEPT ![p] = "FOLLOWER"]
               /\ rpc' = [rpc EXCEPT ![th] = Answer(m, m.term, ok)]
               /\ Requests' \subseteq Requests /\ Pieces' \subseteq Pieces \cup {Whole(new)}
<1> USE RaftAssumption
<1> DEFINE m == rpc[th]
           p == m.peer
           ok == Consistent(log[p], m.prevLogIndex, m.prevLogTerm)
           new == NewLog(log[p], m)
<1>0. AppendTypeOK /\ log \in [Node -> Seq(Entry)] /\ \A n \in Node : Len(log[n]) <= MaxLog
  BY DEF TypeInv, AppendInv, LogInv, LogTypeOK
<1>1. m.phase = "sent" /\ m \in AppendRequest /\ Fits(m) /\ m \in Requests /\ m \in Pieces
  BY <1>0, RpcKinds DEF HandleAppendEntries, TypeInv, AppendInv, RpcFits, Requests, Pieces
<1>2. IsPiece(m) /\ p \in Node
  BY <1>1, PieceType DEF AppendRequest
<1>3. new \in Seq(Entry) /\ Len(new) <= MaxLog
  BY <1>0, <1>1, <1>2, NewLogType
<1>4. /\ m.term >= currentTerm[p]
      /\ log' = [log EXCEPT ![p] = new]
      /\ currentTerm' = [currentTerm EXCEPT ![p] = m.term]
      /\ state' = [state EXCEPT ![p] = "FOLLOWER"]
      /\ rpc' = [rpc EXCEPT ![th] = Answer(m, m.term, ok)]
  BY DEF HandleAppendEntries
<1>5. \A x \in Thread : rpc'[x].phase = "sent" => rpc'[x] = rpc[x]
  BY <1>0, <1>4 DEF AppendTypeOK, Answer
<1>6. Requests' \subseteq Requests
  BY <1>5 DEF Requests
<1>7. Pieces' \subseteq Pieces \cup {Whole(new)}
  BY <1>0, <1>2, <1>4, <1>5, PiecesFrom
<1> QED
  BY <1>1, <1>2, <1>3, <1>4, <1>6, <1>7
-----------------------------------------------------------------------------
(***************************************************************************)
(* Terms never fall along a piece, because a leader's term is the highest  *)
(* in its log.                                                             *)
(***************************************************************************)
Sorted(a) ==
    \A i, j \in Position :
        i <= j /\ Knows(a, i) /\ Knows(a, j) => TermAt(a, i) <= TermAt(a, j)

PiecesSorted == \A a \in Pieces : Sorted(a)

TermsReached ==
    /\ \A n \in Node : \A j \in Position :
          j <= Len(log[n]) => log[n][j].term <= currentTerm[n]
    /\ \A m \in Requests : \A j \in Position : Knows(m, j) => TermAt(m, j) <= m.term

SortedInv == PiecesSorted /\ TermsReached

\* A position a piece knows has an entry, or is the one before the first.
LEMMA KnowsHas ==
    ASSUME NEW a, IsPiece(a), NEW j \in Position, Knows(a, j)
    PROVE  /\ Has(a, j) \/ j = Before(a)
           /\ TermAt(a, j) \in Nat
<1>1. Before(a) \in Int /\ Len(a.entries) \in Nat /\ j \in Int
  BY PieceBounds DEF Position
<1>2. Has(a, j) \/ j = Before(a)
  BY <1>1 DEF Knows, Has
<1>3. CASE Has(a, j)
  BY <1>1, <1>3, HasKnows, RaftAssumption DEF Entry, Term
<1>4. CASE j = Before(a)
  BY <1>4, RaftAssumption DEF TermAt, IsPiece
<1> QED
  BY <1>2, <1>3, <1>4

\* Parts of sorted pieces are sorted, and so is what is glued of two.
LEMMA PartSorted ==
    ASSUME NEW a, NEW c, IsPiece(c), PartOf(c, a), Sorted(a)
    PROVE  Sorted(c)
<1> USE RaftAssumption
<1> SUFFICES ASSUME NEW i \in Position, NEW j \in Position, i <= j, Knows(c, i), Knows(c, j)
             PROVE  TermAt(c, i) <= TermAt(c, j)
  BY DEF Sorted
<1>1. i \in 1..j /\ j \in 1..j /\ i \in Int /\ j \in Int
  BY DEF Position
<1>2. CASE Has(c, j)
  <2>1. /\ Knows(a, i) /\ TermAt(c, i) = TermAt(a, i)
        /\ Knows(a, j) /\ TermAt(c, j) = TermAt(a, j)
    BY <1>1, <1>2 DEF PartOf
  <2> QED
    BY <2>1 DEF Sorted
<1>3. CASE j = Before(c)
  <2>1. i = j /\ TermAt(c, i) \in Nat
    BY <1>1, <1>3, KnowsHas DEF Knows
  <2> QED
    BY <2>1
<1> QED
  BY <1>2, <1>3, KnowsHas

LEMMA GluedSorted ==
    ASSUME NEW a, NEW m, NEW g, IsPiece(a), IsPiece(m), IsPiece(g), Sorted(a), Sorted(m),
           Glued(g, a, m)
    PROVE  Sorted(g)
<1> USE RaftAssumption
<1> DEFINE k == Before(m)
<1>0. k \in Int /\ k >= 0
  BY PieceBounds
<1>1. ASSUME NEW q \in Position, Knows(g, q)
      PROVE  /\ q \in Int /\ q >= 1
             /\ q <= k => Knows(a, q) /\ TermAt(g, q) = TermAt(a, q) /\ TermAt(g, q) \in Nat
             /\ q > k => Knows(m, q) /\ TermAt(g, q) = TermAt(m, q) /\ TermAt(g, q) \in Nat
  <2>1. q \in Int /\ q >= 1
    BY DEF Position
  <2>2. Has(g, q)
    BY <1>1, <2>1, KnowsHas DEF Glued
  <2>3. q <= k => Has(a, q) /\ At(g, q) = At(a, q)
    BY DEF Glued
  <2>4. q > k => Has(m, q) /\ At(g, q) = At(m, q)
    BY <2>2 DEF Glued
  <2>5. TermAt(g, q) \in Nat
    BY <1>1, KnowsHas
  <2> QED
    BY <2>1, <2>2, <2>3, <2>4, <2>5, HasKnows
<1> SUFFICES ASSUME NEW i \in Position, NEW j \in Position, i <= j, Knows(g, i), Knows(g, j)
             PROVE  TermAt(g, i) <= TermAt(g, j)
  BY DEF Sorted
<1>2. i \in Int /\ i >= 1 /\ j \in Int /\ j >= 1
  BY DEF Position
<1>3. CASE j <= k
  <2>1. i <= k
    BY <1>0, <1>2, <1>3
  <2> QED
    BY <1>1, <1>3, <2>1 DEF Sorted
<1>4. CASE i > k
  <2>1. j > k
    BY <1>0, <1>2, <1>4
  <2> QED
    BY <1>1, <1>4, <2>1 DEF Sorted
<1>5. CASE i <= k /\ j > k
  <2>1. k \in Position /\ j \in Position /\ k <= j
    BY <1>0, <1>2, <1>5 DEF Position
  <2>2. Knows(m, k) /\ TermAt(m, k) = TermAt(a, k) /\ Has(a, k)
    BY <2>1, <1>0 DEF Glued
  <2>3. Knows(a, k) /\ TermAt(a, k) \in Nat
    BY <1>0, <2>1, <2>2, HasKnows, KnowsHas
  <2>4. TermAt(g, i) <= TermAt(a, k)
    BY <1>1, <1>5, <2>1, <2>3 DEF Sorted
  <2>5. TermAt(m, k) <= TermAt(g, j)
    BY <1>1, <1>5, <2>1, <2>2 DEF Sorted
  <2> QED
    BY <1>1, <1>5, <2>2, <2>3, <2>4, <2>5
<1> QED
  BY <1>0, <1>2, <1>3, <1>4, <1>5

\* A log that a leader's term is appended to stays sorted.
LEMMA ExtendedSorted ==
    ASSUME NEW s \in Seq(Entry), NEW e \in Entry, Len(s) < MaxLog, Sorted(Whole(s)),
           \A j \in Position : j <= Len(s) => s[j].term <= e.term
    PROVE  Sorted(Whole(Append(s, e)))
<1> USE RaftAssumption
<1> DEFINE r == Append(s, e)
<1>1. r \in Seq(Entry) /\ Len(r) = Len(s) + 1 /\ Len(r) <= MaxLog /\ Len(s) \in Nat
  BY AppendProperties
<1>2. (\A j \in 1..Len(s) : r[j] = s[j]) /\ r[Len(s) + 1] = e
  BY AppendProperties
<1> HIDE DEF r
<1> SUFFICES ASSUME NEW i \in Position, NEW j \in Position, i <= j,
                    Knows(Whole(r), i), Knows(Whole(r), j)
             PROVE  TermAt(Whole(r), i) <= TermAt(Whole(r), j)
  BY DEF Sorted, r
<1>3. i \in Int /\ i >= 1 /\ j \in Int /\ j >= 1
  BY DEF Position
<1>4. /\ TermAt(Whole(r), i) = r[i].term /\ TermAt(Whole(r), j) = r[j].term
      /\ j <= Len(r)
  BY <1>1, WholeLog
<1>5. /\ Knows(Whole(s), i) <=> i <= Len(s)
      /\ Knows(Whole(s), j) <=> j <= Len(s)
      /\ TermAt(Whole(s), i) = s[i].term /\ TermAt(Whole(s), j) = s[j].term
  BY <1>1, WholeLog
<1>6. CASE j <= Len(s)
  <2>1. i <= Len(s) /\ i \in 1..Len(s) /\ j \in 1..Len(s)
    BY <1>1, <1>3, <1>6
  <2> QED
    BY <1>2, <1>4, <1>5, <1>6, <2>1 DEF Sorted
<1>7. CASE j = Len(s) + 1 /\ i <= Len(s)
  <2>1. i \in 1..Len(s)
    BY <1>1, <1>3, <1>7
  <2> QED
    BY <1>2, <1>4, <1>7, <2>1
<1>8. CASE i = j
  <2>1. r[i].term \in Nat
    <3>1. i \in 1..Len(r)
      BY <1>1, <1>3, <1>4, <1>8
    <3>2. r[i] \in Entry
      BY <1>1, <3>1, ElementOfSeq
    <3> QED
      BY <3>2 DEF Entry, Term
  <2> QED
    BY <1>4, <1>8, <2>1
<1>9. j <= Len(s) \/ (j = Len(s) + 1 /\ i <= Len(s)) \/ i = j
  BY <1>1, <1>3, <1>4
<1> QED
  BY <1>6, <1>7, <1>8, <1>9

\* Each entry of the new log is one of the old log or of the request.
LEMMA NewLogEntry ==
    ASSUME NEW old \in Seq(Entry), NEW m \in AppendRequest,
           NEW j \in Position, j <= Len(NewLog(old, m))
    PROVE  \/ j <= Len(old) /\ NewLog(old, m)[j] = old[j]
           \/ Has(m, j) /\ NewLog(old, m)[j] = At(m, j)
<1> USE RaftAssumption
<1> DEFINE k == Before(m)
           new == NewLog(old, m)
           ok == Consistent(old, m.prevLogIndex, m.prevLogTerm)
<1>0. Len(old) \in Nat /\ Len(m.entries) \in Nat /\ j \in Int /\ j >= 1
  BY DEF AppendRequest, Position
<1>1. /\ k \in Nat
      /\ ok => k <= Len(old)
      /\ \/ new = old
         \/ k <= Len(old) /\ Len(new) = k - 1 /\ \A q \in 1..(k - 1) : new[q] = old[q]
         \/ /\ ok /\ Len(new) = k + Len(m.entries)
            /\ \A q \in 1..k : new[q] = old[q]
            /\ \A q \in (k + 1)..(k + Len(m.entries)) : new[q] = At(m, q)
  BY NewLogForms
<1>2. Has(m, j) <=> k < j /\ j <= k + Len(m.entries)
  BY DEF Has
<1> HIDE DEF k, new, ok
<1>3. j <= Len(new)
  BY DEF new
<1>4. CASE new = old
  BY <1>3, <1>4 DEF new
<1>5. CASE k <= Len(old) /\ Len(new) = k - 1 /\ \A q \in 1..(k - 1) : new[q] = old[q]
  <2>1. j \in 1..(k - 1) /\ j <= Len(old)
    BY <1>0, <1>1, <1>3, <1>5
  <2> QED
    BY <1>5, <2>1 DEF new
<1>6. CASE /\ ok /\ Len(new) = k + Len(m.entries)
           /\ \A q \in 1..k : new[q] = old[q]
           /\ \A q \in (k + 1)..(k + Len(m.entries)) : new[q] = At(m, q)
  <2>1. \/ j \in 1..k /\ j <= Len(old)
        \/ j \in (k + 1)..(k + Len(m.entries)) /\ Has(m, j)
    BY <1>0, <1>1, <1>2, <1>3, <1>6
  <2> QED
    BY <1>6, <2>1 DEF new
<1> QED
  BY <1>1, <1>4, <1>5, <1>6

\* Terms are numbers and never fall.
LEMMA TermsGrow ==
    ASSUME TypeInv, TypeInv', ElectionInv, Next, NEW p \in Node
    PROVE  currentTerm[p] \in Nat /\ currentTerm'[p] \in Nat /\ currentTerm[p] <= currentTerm'[p]
<1>1. currentTerm[p] \in Nat /\ currentTerm'[p] \in Nat
  BY RaftAssumption DEF TypeInv, NodeTypeOK
<1>2. TermsAdvance
  BY VoteSteps
<1> QED
  BY <1>1, <1>2 DEF TermsAdvance

\* A term in a log is a number.
LEMMA LogTerm ==
    ASSUME TypeInv, NEW n \in Node, NEW j \in Position, j <= Len(log[n])
    PROVE  log[n][j] \in Entry /\ log[n][j].term \in Nat
<1>1. log[n] \in Seq(Entry) /\ j \in 1..Len(log[n])
  BY RaftAssumption DEF TypeInv, LogInv, LogTypeOK, Position
<1>2. log[n][j] \in Entry
  BY <1>1, ElementOfSeq
<1> QED
  BY <1>2, RaftAssumption DEF Entry, Term

LEMMA SortedStep ==
    ASSUME BaseInv, BaseInv', SortedInv, Next
    PROVE  SortedInv'
<1> USE RaftAssumption
<1>0. /\ TypeInv /\ TypeInv' /\ ElectionInv /\ AllPieces /\ AllPieces'
      /\ log \in [Node -> Seq(Entry)] /\ \A n \in Node : Len(log[n]) <= MaxLog
      /\ NodeTypeOK
  BY PiecesTyped, PiecesTypedNext DEF BaseInv, TypeInv, LogInv, LogTypeOK
<1>1. PiecesSorted /\ TermsReached
  BY DEF SortedInv
<1>a. \A n \in Node : Whole(log[n]) \in Pieces /\ Sorted(Whole(log[n]))
  BY <1>1 DEF PiecesSorted, Pieces
<1> DEFINE LogsReached == \A n \in Node : \A j \in Position :
                              j <= Len(log'[n]) => log'[n][j].term <= currentTerm'[n]
           RequestsReached == \A m \in Requests' : \A j \in Position :
                              Knows(m, j) => TermAt(m, j) <= m.term
<1>2. ASSUME \A a \in Pieces' : Sorted(a), LogsReached, RequestsReached
      PROVE  SortedInv'
  <2>1. PiecesSorted'
    BY <1>2 DEF PiecesSorted, Sorted, Knows, TermAt, At, Before, Position
  <2>2. TermsReached'
    BY <1>2 DEF TermsReached, Knows, TermAt, At, Before, Position
  <2> QED
    BY <2>1, <2>2 DEF SortedInv
<1>3. ASSUME Requests' \subseteq Requests
      PROVE  RequestsReached
  BY <1>1, <1>3 DEF TermsReached
<1>4. ASSUME NEW n \in Node, log'[n] = log[n], NEW j \in Position, j <= Len(log'[n])
      PROVE  log'[n][j].term <= currentTerm'[n]
  <2>1. log[n][j].term <= currentTerm[n] /\ log[n][j].term \in Nat
    BY <1>0, <1>1, <1>4, LogTerm DEF TermsReached
  <2> QED
    BY <1>0, <1>4, <2>1, TermsGrow
<1>5. CASE NoNewPiece
  <2>1. Requests' \subseteq Requests /\ Pieces' \subseteq Pieces
    BY <1>5 DEF NoNewPiece, Requests, Pieces
  <2>2. \A a \in Pieces' : Sorted(a)
    BY <1>1, <2>1 DEF PiecesSorted
  <2>3. LogsReached
    BY <1>4, <1>5 DEF NoNewPiece
  <2> QED
    BY <1>2, <1>3, <2>1, <2>2, <2>3
<1>6. ASSUME NEW n \in Node, NEW d \in Data, Propose(n, d)
      PROVE  SortedInv'
  <2> DEFINE e == [term |-> currentTerm[n], data |-> d]
             g == Append(log[n], e)
  <2>1. /\ log' = [log EXCEPT ![n] = g] /\ rpc' = rpc /\ currentTerm' = currentTerm
        /\ Len(log[n]) < MaxLog /\ state[n] = "LEADER"
    BY <1>6 DEF Propose, raftVars
  <2>2. currentTerm[n] \in Term
    BY <1>0, <2>1, LeaderHasTerm DEF TypeInv
  <2>3. e \in Entry /\ e.term = currentTerm[n]
    BY <2>2 DEF Entry
  <2> HIDE DEF e
  <2>4. Sorted(Whole(g))
    BY <1>0, <1>1, <1>a, <2>1, <2>3, ExtendedSorted DEF TermsReached
  <2>5. Requests' = Requests /\ Pieces' \subseteq Pieces \cup {Whole(g)}
    BY <1>0, <2>1 DEF Requests, Pieces
  <2>6. \A a \in Pieces' : Sorted(a)
    BY <1>1, <2>4, <2>5 DEF PiecesSorted
  <2>7. LogsReached
    <3> SUFFICES ASSUME NEW k \in Node, NEW j \in Position, j <= Len(log'[k])
                 PROVE  log'[k][j].term <= currentTerm'[k]
      OBVIOUS
    <3>1. CASE k # n
      BY <1>0, <1>4, <2>1, <3>1
    <3>2. CASE k = n
      <4>0. Len(log[n]) \in Nat /\ j \in Int /\ j >= 1 /\ currentTerm[n] \in Nat
        BY <1>0, <2>2 DEF Position, Term
      <4>1. log'[k] = g /\ Len(g) = Len(log[n]) + 1 /\ g[Len(log[n]) + 1] = e
            /\ \A q \in 1..Len(log[n]) : g[q] = log[n][q]
        BY <1>0, <2>1, <2>3, <3>2, AppendProperties
      <4> HIDE DEF g
      <4>2. CASE j <= Len(log[n])
        <5>1. log'[k][j] = log[n][j]
          BY <4>0, <4>1, <4>2
        <5> QED
          BY <1>1, <2>1, <3>2, <4>2, <5>1 DEF TermsReached
      <4>3. CASE j = Len(log[n]) + 1
        BY <2>1, <2>3, <3>2, <4>0, <4>1, <4>3
      <4> QED
        BY <3>2, <4>0, <4>1, <4>2, <4>3
    <3> QED
      BY <3>1, <3>2
  <2> QED
    BY <1>2, <1>3, <2>5, <2>6, <2>7
<1>7. ASSUME NEW n \in Node, NEW p \in Node, NEW th \in Thread, SendAppend(n, p, th)
      PROVE  SortedInv'
  <2> DEFINE m == rpc'[th]
  <2>1. /\ log' = log /\ m.term = currentTerm[n] /\ Requests' \subseteq Requests \cup {m}
        /\ Pieces' \subseteq Pieces \cup {m} /\ IsPiece(m) /\ PartOf(m, Whole(log[n]))
        /\ IF Before(m) \in 1..Len(log[n]) THEN m.prevLogTerm = log[n][Before(m)].term
                                           ELSE m.prevLogTerm = 0
    BY <1>0, <1>7, SentRequest
  <2> HIDE DEF m
  <2>2. \A a \in Pieces' : Sorted(a)
    BY <1>1, <1>a, <2>1, PartSorted DEF PiecesSorted
  <2>3. ASSUME NEW j \in Position, Knows(m, j)
        PROVE  TermAt(m, j) <= m.term
    <3>0. j \in 1..j
      BY DEF Position
    <3>1. CASE Has(m, j)
      <4>1. Has(Whole(log[n]), j) /\ At(m, j) = At(Whole(log[n]), j)
        BY <2>1, <3>0, <3>1 DEF PartOf
      <4>2. j <= Len(log[n]) /\ At(m, j) = log[n][j]
        BY <1>0, <4>1, WholeLog
      <4>3. TermAt(m, j) = At(m, j).term
        BY <2>1, <3>0, <3>1, HasKnows
      <4> QED
        BY <1>1, <2>1, <4>2, <4>3 DEF TermsReached
    <3>2. CASE j = Before(m)
      <4>1. TermAt(m, j) = m.prevLogTerm /\ currentTerm[n] \in Nat
        BY <1>0, <3>2 DEF TermAt, NodeTypeOK
      <4>2. CASE j \in 1..Len(log[n])
        <5>1. j <= Len(log[n]) /\ m.prevLogTerm = log[n][j].term
          BY <1>0, <2>1, <3>2, <4>2
        <5> QED
          BY <1>1, <2>1, <4>1, <5>1 DEF TermsReached
      <4>3. CASE j \notin 1..Len(log[n])
        BY <2>1, <3>2, <4>1, <4>3
      <4> QED
        BY <4>2, <4>3
    <3> QED
      BY <2>1, <2>3, <3>1, <3>2, KnowsHas
  <2>4. RequestsReached
    BY <1>1, <2>1, <2>3 DEF TermsReached
  <2>5. LogsReached
    BY <1>4, <2>1
  <2> QED
    BY <1>2, <2>2, <2>4, <2>5
<1>8. ASSUME NEW th \in Thread, HandleAppendEntries(th)
      PROVE  SortedInv'
  <2> DEFINE m == rpc[th]
             p == m.peer
             new == NewLog(log[p], m)
  <2>1. /\ m \in AppendRequest /\ Fits(m) /\ m \in Requests /\ m \in Pieces
        /\ IsPiece(m) /\ p \in Node /\ m.term >= currentTerm[p]
        /\ new \in Seq(Entry) /\ Len(new) <= MaxLog
        /\ log' = [log EXCEPT ![p] = new]
        /\ currentTerm' = [currentTerm EXCEPT ![p] = m.term]
        /\ Requests' \subseteq Requests /\ Pieces' \subseteq Pieces \cup {Whole(new)}
    BY <1>0, <1>8, HandledRequest
  <2>2. PartOf(Whole(new), Whole(log[p])) \/ Glued(Whole(new), Whole(log[p]), m)
    BY <1>0, <2>1, NewLogPiece
  <2>3. \A j \in Position : j <= Len(new) =>
           \/ j <= Len(log[p]) /\ new[j] = log[p][j]
           \/ Has(m, j) /\ new[j] = At(m, j)
    BY <1>0, <2>1, NewLogEntry
  <2> HIDE DEF m, new
  <2>4. IsPiece(Whole(new)) /\ IsPiece(Whole(log[p])) /\ Sorted(m) /\ Sorted(Whole(log[p]))
    BY <1>0, <1>1, <1>a, <2>1, WholeLog DEF PiecesSorted
  <2>5. Sorted(Whole(new))
    BY <2>1, <2>2, <2>4, PartSorted, GluedSorted
  <2>6. \A a \in Pieces' : Sorted(a)
    BY <1>1, <2>1, <2>5 DEF PiecesSorted
  <2>7. LogsReached
    <3> SUFFICES ASSUME NEW k \in Node, NEW j \in Position, j <= Len(log'[k])
                 PROVE  log'[k][j].term <= currentTerm'[k]
      OBVIOUS
    <3>1. CASE k # p
      BY <1>0, <1>4, <2>1, <3>1
    <3>2. CASE k = p
      <4>1. log'[k] = new /\ currentTerm'[k] = m.term /\ m.term \in Nat /\ currentTerm[p] \in Nat
        BY <1>0, <2>1, <3>2 DEF NodeTypeOK, AppendRequest, Term
      <4>2. CASE j <= Len(log[p]) /\ new[j] = log[p][j]
        <5>1. log[p][j].term <= currentTerm[p] /\ log[p][j].term \in Nat
          BY <1>0, <1>1, <2>1, <4>2, LogTerm DEF TermsReached
        <5>2. m.term >= currentTerm[p] /\ new[j].term = log[p][j].term
          BY <2>1, <4>2
        <5>3. log[p][j].term <= m.term
          BY <4>1, <5>1, <5>2
        <5> QED
          BY <4>1, <5>2, <5>3, Zenon
      <4>3. CASE Has(m, j) /\ new[j] = At(m, j)
        <5>1. Knows(m, j) /\ TermAt(m, j) = At(m, j).term
          BY <2>1, <4>3, HasKnows DEF Position
        <5> QED
          BY <1>1, <2>1, <4>1, <4>3, <5>1 DEF TermsReached
      <4> QED
        BY <2>3, <4>1, <4>2, <4>3
    <3> QED
      BY <3>1, <3>2
  <2> QED
    BY <1>2, <1>3, <2>1, <2>6, <2>7
<1> QED
  BY <1>0, <1>5, <1>6, <1>7, <1>8, PieceSteps
-----------------------------------------------------------------------------
(***************************************************************************)
(* What a leader sends, and what its peers acknowledge.                    *)
(***************************************************************************)
InLog(s, i, t) == i <= Len(s) /\ s[i].term = t

ToPeers == \A th \in Thread : rpc[th] # Idle => rpc[th].peer # rpc[th].leader

IndexFits ==
    \A n \in Node : state[n] = "LEADER" =>
        \A p \in Peers(n) : nextIndex[n][p] <= Len(log[n])

\* A request reaches no further than its sender's log, and ends in an entry of it.
TrueRequests ==
    \A m \in Requests : Led(m) =>
        /\ End(m) <= Len(log[m.leader])
        /\ End(m) >= 1 => TermAt(m, End(m)) = log[m.leader][End(m)].term

AcksFit ==
    \A n \in Node : state[n] = "LEADER" =>
        \A p \in Peers(n) : \A i \in Position : Acked(n, p, i) => i <= Len(log[n])

RequestInv == ToPeers /\ IndexFits /\ TrueRequests /\ AcksFit

\* How a log may change in a step.
LEMMA LogChanges ==
    ASSUME TypeInv, Next, NEW p \in Node
    PROVE  \/ log'[p] = log[p]
           \/ /\ state[p] = "LEADER" /\ raftVars' = raftVars /\ Len(log[p]) < MaxLog
              /\ \E d \in Data : /\ Propose(p, d)
                                 /\ log'[p] = Append(log[p], [term |-> currentTerm[p], data |-> d])
           \/ \E th \in Thread : /\ HandleAppendEntries(th) /\ rpc[th].peer = p
                                 /\ log'[p] = NewLog(log[p], rpc[th])
<1>0. log \in [Node -> Seq(Entry)]
  BY DEF TypeInv, LogInv, LogTypeOK
<1>1. CASE Quiet
  BY <1>1 DEF Quiet
<1>2. ASSUME NEW n \in Node, NEW d \in Data, Propose(n, d)
      PROVE  log'[p] = log[p] \/ (n = p /\ raftVars' = raftVars /\ state[p] = "LEADER"
                /\ Len(log[p]) < MaxLog
                /\ log'[p] = Append(log[p], [term |-> currentTerm[p], data |-> d]))
  BY <1>0, <1>2 DEF Propose, raftVars
<1>3. ASSUME NEW n \in Node, NEW q \in Node, NEW th \in Thread, SendAppend(n, q, th)
      PROVE  log'[p] = log[p]
  BY <1>3 DEF SendAppend, logVars
<1>4. ASSUME NEW th \in Thread, HandleAppendEntries(th)
      PROVE  log'[p] = log[p] \/ (rpc[th].peer = p /\ log'[p] = NewLog(log[p], rpc[th]))
  BY <1>0, <1>4 DEF HandleAppendEntries
<1>5. ASSUME NEW n \in Node, NEW t \in Term, WinElection(n, t)
      PROVE  log'[p] = log[p]
  BY <1>5 DEF WinElection, logVars
<1>6. ASSUME NEW th \in Thread, AppendSucceeds(th)
      PROVE  log'[p] = log[p]
  BY <1>6 DEF AppendSucceeds
<1> QED
  BY <1>1, <1>2, <1>3, <1>4, <1>5, <1>6, StepKinds

\* A log that an entry is appended to keeps the others.
LEMMA AppendKeeps ==
    ASSUME NEW s \in Seq(Entry), NEW e
    PROVE  /\ Len(Append(s, e)) = Len(s) + 1
           /\ \A j \in Position : j <= Len(s) => j <= Len(Append(s, e)) /\ Append(s, e)[j] = s[j]
<1>1. Len(s) \in Nat /\ Len(Append(s, e)) = Len(s) + 1
  OBVIOUS
<1>2. \A j \in 1..Len(s) : Append(s, e)[j] = s[j]
  OBVIOUS
<1>3. \A j \in Position : j <= Len(s) => j \in 1..Len(s) /\ j <= Len(s) + 1
  BY <1>1, RaftAssumption DEF Position
<1> QED
  BY <1>1, <1>2, <1>3

\* Whoever leads after a step has lost nothing in it.
LEMMA LeaderKeepsLog ==
    ASSUME TypeInv, Next, NEW n \in Node, state'[n] = "LEADER"
    PROVE  /\ Len(log[n]) \in Nat /\ Len(log'[n]) \in Nat /\ Len(log[n]) <= Len(log'[n])
           /\ \A j \in Position : j <= Len(log[n]) => j <= Len(log'[n]) /\ log'[n][j] = log[n][j]
<1>0. log[n] \in Seq(Entry) /\ Len(log[n]) \in Nat
  BY DEF TypeInv, LogInv, LogTypeOK
<1>1. CASE log'[n] = log[n]
  BY <1>0, <1>1
<1>2. CASE \E d \in Data : log'[n] = Append(log[n], [term |-> currentTerm[n], data |-> d])
  <2>1. PICK d \in Data : log'[n] = Append(log[n], [term |-> currentTerm[n], data |-> d])
    BY <1>2
  <2> DEFINE r == Append(log[n], [term |-> currentTerm[n], data |-> d])
  <2>2. /\ Len(r) = Len(log[n]) + 1
        /\ \A j \in Position : j <= Len(log[n]) => j <= Len(r) /\ r[j] = log[n][j]
    BY <1>0, AppendKeeps
  <2>3. log'[n] = r
    BY <2>1
  <2> HIDE DEF r
  <2> QED
    BY <1>0, <2>2, <2>3
<1>3. ASSUME NEW th \in Thread, HandleAppendEntries(th), rpc[th].peer = n
      PROVE  FALSE
  BY <1>3 DEF HandleAppendEntries, TypeInv, NodeTypeOK
<1> QED
  BY <1>1, <1>2, <1>3, LogChanges

\* A request that is new after a step was sent in it.
LEMMA NewRequest ==
    ASSUME TypeInv, TypeInv', Next, NEW m \in Requests', m \notin Requests
    PROVE  \E n \in Node, p \in Node, th \in Thread : SendAppend(n, p, th) /\ m = rpc'[th]
<1>1. CASE NoNewPiece
  BY <1>1 DEF NoNewPiece, Requests
<1>2. ASSUME NEW n \in Node, NEW d \in Data, Propose(n, d)
      PROVE  FALSE
  BY <1>2 DEF Propose, Requests
<1>3. ASSUME NEW n \in Node, NEW p \in Node, NEW th \in Thread, SendAppend(n, p, th)
      PROVE  m = rpc'[th]
  BY <1>3, SentRequest
<1>4. ASSUME NEW th \in Thread, HandleAppendEntries(th)
      PROVE  FALSE
  BY <1>4, HandledRequest
<1> QED
  BY <1>1, <1>2, <1>3, <1>4, PieceSteps

\* Requests and answers of a leader's term are the leader's.
LEMMA LeaderOfTerm ==
    ASSUME BaseInv, NEW n \in Node, state[n] = "LEADER", NEW th \in Thread, rpc[th] # Idle,
           rpc[th].term = currentTerm[n]
    PROVE  rpc[th].leader = n
<1>1. rpc[th].leader \in Node
  BY RpcKinds DEF BaseInv, TypeInv, AppendInv, AppendRequest, AppendReply
<1>2. currentTerm[n] \in won[n] /\ rpc[th].term \in won[rpc[th].leader]
  BY DEF BaseInv, TypeInv, LeaderElected, LeaderInv, RpcFromElected
<1>3. ElectionSafety
  BY ElectionInvSafe DEF BaseInv
<1> QED
  BY <1>1, <1>2, <1>3 DEF ElectionSafety

\* No thread is in the term a node is elected in.
LEMMA NoRpcOfWinner ==
    ASSUME BaseInv, BaseInv', Next, NEW n \in Node, NEW t \in Term, WinElection(n, t),
           NEW th \in Thread, rpc[th] # Idle
    PROVE  rpc[th].term # t
<1> SUFFICES ASSUME rpc[th].term = t
             PROVE  FALSE
  OBVIOUS
<1>1. rpc[th].leader \in Node
  BY RpcKinds DEF BaseInv, TypeInv, AppendInv, AppendRequest, AppendReply
<1>2. t \in won[rpc[th].leader]
  BY DEF BaseInv, LeaderInv, RpcFromElected
<1>3. t \notin won[n]
  BY DEF WinElection, AllAsked, BaseInv, ElectionInv, ThreadsOfTerm
<1>4. t \in won'[n] /\ t \in won'[rpc[th].leader]
  BY <1>1, <1>2, LeaderSteps DEF WinElection, WonGrows, BaseInv, TypeInv, ElectionTypeOK
<1>5. ElectionSafety'
  BY ElectionInvSafeNext DEF BaseInv
<1> QED
  BY <1>1, <1>2, <1>3, <1>4, <1>5 DEF ElectionSafety

\* What a leader counts as acknowledged after a step it had before, or the peer
\* has just taken.
LEMMA NewAck ==
    ASSUME BaseInv, BaseInv', Next, NEW n \in Node, state'[n] = "LEADER",
           NEW p \in Peers(n), NEW i \in Position, Acked(n, p, i)'
    PROVE  /\ state[n] = "LEADER" /\ currentTerm'[n] = currentTerm[n]
           /\ \/ Acked(n, p, i)
              \/ \E th \in Thread :
                    /\ HandleAppendEntries(th)
                    /\ rpc[th].leader = n /\ rpc[th].peer = p /\ rpc[th].term = currentTerm[n]
                    /\ Consistent(log[p], rpc[th].prevLogIndex, rpc[th].prevLogTerm)
                    /\ i <= End(rpc[th])
<1> USE RaftAssumption
<1>0. /\ TypeInv /\ TypeInv' /\ AppendTypeOK /\ p \in Node
      /\ DOMAIN matchIndex = Node /\ DOMAIN matchIndex[n] = Peers(n)
  BY DEF BaseInv, TypeInv, AppendInv, LeaderTypeOK, Peers
<1>1. /\ currentTerm'[n] = currentTerm[n]
      /\ state[n] = "LEADER" \/ WinElection(n, currentTerm[n])
  BY <1>0, LeadersStay
<1>2. \/ i <= matchIndex'[n][p] + 1
      \/ \E th \in Thread :
            /\ rpc'[th].phase = "replied" /\ rpc'[th].success
            /\ rpc'[th].leader = n /\ rpc'[th].peer = p /\ rpc'[th].term = currentTerm[n]
            /\ i <= rpc'[th].prevLogIndex + 1 + rpc'[th].sent
  BY <1>1 DEF Acked
<1>3. ~ WinElection(n, currentTerm[n])
  <2> SUFFICES ASSUME WinElection(n, currentTerm[n])
               PROVE  FALSE
    OBVIOUS
  <2>1. matchIndex'[n][p] = -1 /\ rpc' = rpc
    BY <1>0 DEF WinElection
  <2>2. ~ i <= matchIndex'[n][p] + 1
    BY <2>1 DEF Position
  <2>3. PICK th \in Thread : rpc[th].phase = "replied" /\ rpc[th].term = currentTerm[n]
    BY <1>2, <2>1, <2>2
  <2>4. currentTerm[n] \in Term
    BY <1>0, <2>3, RpcKinds DEF AppendReply
  <2> QED
    BY <1>0, <2>3, <2>4, NoRpcOfWinner DEF Idle
<1> DEFINE Taken == \E th \in Thread :
                       /\ HandleAppendEntries(th)
                       /\ rpc[th].leader = n /\ rpc[th].peer = p
                       /\ rpc[th].term = currentTerm[n]
                       /\ Consistent(log[p], rpc[th].prevLogIndex, rpc[th].prevLogTerm)
                       /\ i <= End(rpc[th])
<1>4. ASSUME matchIndex'[n][p] = matchIndex[n][p],
             \A th \in Thread : rpc'[th].phase = "replied" /\ rpc'[th].success
                                   => rpc'[th] = rpc[th]
      PROVE  Acked(n, p, i)
  BY <1>2, <1>4 DEF Acked
<1>5. ASSUME Quiet
      PROVE  Acked(n, p, i)
  <2>1. \A th \in Thread : rpc'[th] = rpc[th] \/ rpc'[th].phase = "idle" \/ rpc'[th].success = FALSE
    BY <1>5 DEF Quiet, Refused, Idle
  <2>2. \A th \in Thread : rpc'[th].phase = "replied" /\ rpc'[th].success => rpc'[th] = rpc[th]
    BY <2>1
  <2>3. matchIndex'[n][p] = matchIndex[n][p]
    BY <1>5 DEF Quiet
  <2> QED
    BY <1>4, <2>2, <2>3
<1>6. ASSUME NEW k \in Node, NEW d \in Data, Propose(k, d)
      PROVE  Acked(n, p, i)
  BY <1>4, <1>6 DEF Propose, leaderVars
<1>7. ASSUME NEW k \in Node, NEW q \in Node, NEW th \in Thread, SendAppend(k, q, th)
      PROVE  Acked(n, p, i)
  <2>1. matchIndex' = matchIndex /\ rpc'[th].phase = "sent" /\ \A x \in Thread : x # th => rpc'[x] = rpc[x]
    BY <1>0, <1>7 DEF SendAppend, leaderVars, AppendTypeOK
  <2> QED
    BY <1>4, <2>1
<1>8. ASSUME NEW th \in Thread, HandleAppendEntries(th)
      PROVE  Acked(n, p, i) \/ Taken
  <2> DEFINE m == rpc[th]
             ok == Consistent(log[m.peer], m.prevLogIndex, m.prevLogTerm)
  <2>1. matchIndex' = matchIndex /\ rpc' = [rpc EXCEPT ![th] = Answer(m, m.term, ok)]
    BY <1>8 DEF HandleAppendEntries, leaderVars
  <2>2. /\ rpc'[th] = Answer(m, m.term, ok)
        /\ \A x \in Thread : x # th => rpc'[x] = rpc[x]
    BY <1>0, <2>1 DEF AppendTypeOK
  <2>3. /\ rpc'[th].success = ok /\ rpc'[th].leader = m.leader /\ rpc'[th].peer = m.peer
        /\ rpc'[th].term = m.term
        /\ rpc'[th].prevLogIndex + 1 + rpc'[th].sent = End(m)
    BY <2>2 DEF Answer, End, Before
  <2> HIDE DEF m, ok
  <2>4. CASE rpc'[th].success /\ rpc'[th].leader = n /\ rpc'[th].peer = p
             /\ rpc'[th].term = currentTerm[n]
             /\ i <= rpc'[th].prevLogIndex + 1 + rpc'[th].sent
    BY <1>8, <2>3, <2>4 DEF m, ok
  <2>5. CASE ~ (rpc'[th].success /\ rpc'[th].leader = n /\ rpc'[th].peer = p
             /\ rpc'[th].term = currentTerm[n]
             /\ i <= rpc'[th].prevLogIndex + 1 + rpc'[th].sent)
    BY <1>2, <2>1, <2>2, <2>5 DEF Acked
  <2> QED
    BY <2>4, <2>5
<1>9. ASSUME NEW k \in Node, NEW t \in Term, WinElection(k, t)
      PROVE  Acked(n, p, i)
  <2>1. rpc' = rpc /\ matchIndex' = [matchIndex EXCEPT ![k] = [q \in Peers(k) |-> -1]]
    BY <1>9 DEF WinElection
  <2>2. k # n
    BY <1>3, <1>9 DEF WinElection, ElectionWon
  <2> QED
    BY <1>0, <1>4, <2>1, <2>2
<1>10. ASSUME NEW th \in Thread, AppendSucceeds(th)
       PROVE  Acked(n, p, i)
  <2>1. /\ rpc' = [rpc EXCEPT ![th] = Idle] /\ LeadsTermOf(th) /\ rpc[th].success
        /\ matchIndex' = [matchIndex EXCEPT ![rpc[th].leader][rpc[th].peer] =
                             rpc[th].prevLogIndex + rpc[th].sent]
    BY <1>10 DEF AppendSucceeds
  <2>2. \A x \in Thread : rpc'[x] = rpc[x] \/ rpc'[x] = Idle
    BY <1>0, <2>1 DEF AppendTypeOK
  <2>3. CASE matchIndex'[n][p] = matchIndex[n][p]
    BY <1>4, <2>2, <2>3 DEF Idle
  <2>4. CASE matchIndex'[n][p] # matchIndex[n][p]
    <3>1. n = rpc[th].leader /\ p = rpc[th].peer
          /\ matchIndex'[n][p] = rpc[th].prevLogIndex + rpc[th].sent
      BY <1>0, <2>1, <2>4
    <3>2. CASE i <= matchIndex'[n][p] + 1
      <4>1. rpc[th].prevLogIndex \in Int /\ rpc[th].sent \in Int
        BY <1>0, <2>1, RpcKinds DEF LeadsTermOf, AppendReply, LogPosition
      <4>2. i <= rpc[th].prevLogIndex + 1 + rpc[th].sent
        BY <3>1, <3>2, <4>1
      <4> QED
        BY <2>1, <3>1, <4>2 DEF LeadsTermOf, Acked
    <3>3. CASE ~ i <= matchIndex'[n][p] + 1
      BY <1>2, <2>2, <3>3 DEF Acked, Idle
    <3> QED
      BY <3>2, <3>3
  <2> QED
    BY <2>3, <2>4
<1>11. Acked(n, p, i) \/ Taken
  BY <1>0, <1>5, <1>6, <1>7, <1>8, <1>9, <1>10, StepKinds
<1> QED
  BY <1>1, <1>3, <1>11

\* The new request of a leader ends where its log ends, unless next_index is
\* beyond it.
LEMMA SentEnd ==
    ASSUME TypeInv, TypeInv', IndexFits, NEW n \in Node, NEW p \in Node, NEW th \in Thread,
           SendAppend(n, p, th)
    PROVE  LET m == rpc'[th]
           IN  /\ End(m) = Len(log[n])
               /\ End(m) >= 1 => TermAt(m, End(m)) = log[n][End(m)].term
<1> USE RaftAssumption
<1> DEFINE m == rpc'[th]
           s == log[n]
<1>1. /\ state[n] = "LEADER" /\ p \in Peers(n)
      /\ IsPiece(m) /\ PartOf(m, Whole(s)) /\ Before(m) = nextIndex[n][p]
      /\ Before(m) <= Len(s) => End(m) = Len(s)
      /\ m.prevLogTerm = IF Before(m) \in 1..Len(s) THEN s[Before(m)].term ELSE 0
  BY SentRequest
<1>2. s \in Seq(Entry) /\ Len(s) <= MaxLog /\ Len(s) \in Nat
  BY DEF TypeInv, LogInv, LogTypeOK
<1>3. End(m) = Len(s)
  BY <1>1 DEF IndexFits
<1>4. Before(m) \in Int /\ Before(m) >= 0 /\ Len(m.entries) \in Nat
  BY <1>1, PieceBounds
<1> HIDE DEF m, s
<1>5. ASSUME End(m) >= 1
      PROVE  TermAt(m, End(m)) = s[End(m)].term
  <2>1. End(m) \in Position /\ End(m) \in 1..End(m) /\ Before(m) <= End(m)
    BY <1>2, <1>3, <1>4, <1>5 DEF Position, End
  <2>2. CASE Before(m) = End(m)
    BY <1>1, <1>3, <2>1, <2>2 DEF TermAt
  <2>3. CASE Before(m) < End(m)
    <3>1. Has(m, End(m)) /\ Knows(m, End(m))
      BY <1>4, <2>3 DEF Has, Knows, End
    <3>2. TermAt(m, End(m)) = TermAt(Whole(s), End(m))
      BY <1>1, <2>1, <3>1 DEF PartOf
    <3> QED
      BY <1>2, <2>1, <3>2, WholeLog
  <2> QED
    BY <1>4, <2>1, <2>2, <2>3 DEF End
<1> QED
  BY <1>3, <1>5 DEF m, s

LEMMA RequestInit == Init => RequestInv
<1> SUFFICES ASSUME Init
             PROVE  RequestInv
  OBVIOUS
<1>1. ToPeers
  BY DEF Init, ToPeers
<1>2. \A n \in Node : state[n] # "LEADER"
  BY DEF Init
<1>3. Requests = {}
  BY DEF Init, Requests, Idle
<1> QED
  BY <1>1, <1>2, <1>3 DEF RequestInv, IndexFits, TrueRequests, AcksFit

LEMMA RequestStep ==
    ASSUME BaseInv, BaseInv', RequestInv, Next
    PROVE  RequestInv'
<1> USE RaftAssumption
<1>0. /\ TypeInv /\ TypeInv' /\ AppendTypeOK
      /\ DOMAIN nextIndex = Node /\ \A n \in Node : nextIndex[n] \in [Peers(n) -> Nat]
  BY DEF BaseInv, TypeInv, AppendInv, LeaderTypeOK
<1>1. ToPeers /\ IndexFits /\ TrueRequests /\ AcksFit
  BY DEF RequestInv
<1>2. ASSUME NEW m \in Requests'
      PROVE  /\ m \in AppendRequest /\ IsPiece(m) /\ m.leader \in Node
             /\ End(m) \in Int
             /\ \E th \in Thread : m = rpc'[th] /\ rpc'[th] # Idle
  <2>1. PICK th \in Thread : rpc'[th].phase = "sent" /\ m = rpc'[th]
    BY DEF Requests
  <2>2. rpc'[th] \in {Idle} \cup AppendRequest \cup AppendReply
    BY <1>0 DEF TypeInv, AppendInv, AppendTypeOK
  <2>3. m \in AppendRequest /\ m # Idle
    BY <2>1, <2>2 DEF Idle, AppendReply
  <2>4. m \in Pieces'
    BY DEF Pieces
  <2>5. IsPiece(m)
    BY <1>0, <2>4, PiecesTypedNext DEF AllPieces
  <2>6. End(m) \in Int
    BY <2>5, PieceBounds DEF End
  <2> QED
    BY <2>1, <2>3, <2>5, <2>6 DEF AppendRequest
<1>3. ToPeers'
  <2>1. ASSUME \A th \in Thread : \/ rpc'[th] = rpc[th] \/ rpc'[th] = Idle
                                  \/ /\ rpc[th].phase = "sent"
                                     /\ rpc'[th].leader = rpc[th].leader
                                     /\ rpc'[th].peer = rpc[th].peer
        PROVE  ToPeers'
    BY <1>1, <2>1 DEF ToPeers, Idle
  <2>2. CASE Quiet
    BY <2>1, <2>2 DEF Quiet, Refused
  <2>3. ASSUME rpc' = rpc
        PROVE  ToPeers'
    BY <2>1, <2>3
  <2>4. ASSUME NEW n \in Node, NEW p \in Node, NEW th \in Thread, SendAppend(n, p, th)
        PROVE  ToPeers'
    <3>1. /\ p \in Peers(n) /\ rpc'[th].leader = n /\ rpc'[th].peer = p
          /\ rpc' = [rpc EXCEPT ![th] = rpc'[th]]
      BY <1>0, <2>4, SentRequest
    <3>2. \A x \in Thread : x # th => rpc'[x] = rpc[x]
      BY <1>0, <3>1 DEF AppendTypeOK
    <3> QED
      BY <1>1, <3>1, <3>2 DEF ToPeers, Peers
  <2>5. ASSUME NEW th \in Thread, HandleAppendEntries(th)
        PROVE  ToPeers'
    <3>1. /\ rpc'[th].leader = rpc[th].leader /\ rpc'[th].peer = rpc[th].peer
          /\ rpc[th].phase = "sent"
          /\ \A x \in Thread : x # th => rpc'[x] = rpc[x]
      BY <1>0, <2>5 DEF HandleAppendEntries, Answer, AppendTypeOK
    <3> QED
      BY <2>1, <3>1
  <2>6. ASSUME NEW th \in Thread, AppendSucceeds(th)
        PROVE  ToPeers'
    <3>1. \A x \in Thread : rpc'[x] = rpc[x] \/ rpc'[x] = Idle
      BY <1>0, <2>6 DEF AppendSucceeds, AppendTypeOK
    <3> QED
      BY <2>1, <3>1
  <2> QED
    BY <1>0, <2>2, <2>3, <2>4, <2>5, <2>6, StepKinds DEF Propose, WinElection
<1>4. IndexFits'
  <2> SUFFICES ASSUME NEW n \in Node, state'[n] = "LEADER", NEW p \in Peers(n)
               PROVE  nextIndex'[n][p] <= Len(log'[n])
    BY DEF IndexFits, Peers
  <2>1. /\ Len(log[n]) \in Nat /\ Len(log'[n]) \in Nat /\ Len(log[n]) <= Len(log'[n])
    BY <1>0, LeaderKeepsLog
  <2>2. currentTerm'[n] = currentTerm[n]
        /\ (state[n] = "LEADER" \/ WinElection(n, currentTerm[n]))
    BY <1>0, LeadersStay
  <2>3. CASE WinElection(n, currentTerm[n])
    <3>1. nextIndex'[n][p] = Len(log[n]) - 1 + 1
      BY <1>0, <2>3 DEF WinElection, LastLogIndex
    <3> QED
      BY <2>1, <3>1
  <2>4. CASE state[n] = "LEADER"
    <3>1. nextIndex[n][p] <= Len(log[n])
      BY <1>1, <2>4 DEF IndexFits
    <3>2. ASSUME nextIndex'[n][p] <= nextIndex[n][p], nextIndex'[n][p] \in Int
          PROVE  nextIndex'[n][p] <= Len(log'[n])
      BY <1>0, <2>1, <3>1, <3>2
    <3>3. nextIndex'[n][p] \in Int
      BY <1>0 DEF TypeInv, LeaderTypeOK
    <3>4. CASE Quiet
      BY <3>2, <3>3, <3>4 DEF Quiet
    <3>5. ASSUME nextIndex'[n][p] = nextIndex[n][p]
          PROVE  nextIndex'[n][p] <= Len(log'[n])
      BY <2>1, <3>1, <3>5, <1>0
    <3>6. ASSUME NEW k \in Node, NEW t \in Term, WinElection(k, t)
          PROVE  nextIndex'[n][p] <= Len(log'[n])
      BY <1>0, <2>3, <3>5, <3>6 DEF WinElection, ElectionWon
    <3>7. ASSUME NEW th \in Thread, AppendSucceeds(th)
          PROVE  nextIndex'[n][p] <= Len(log'[n])
      <4>1. /\ LeadsTermOf(th) /\ rpc[th].success /\ log' = log
            /\ nextIndex' = [nextIndex EXCEPT ![rpc[th].leader][rpc[th].peer] =
                                 rpc[th].prevLogIndex + rpc[th].sent + 1]
        BY <3>7 DEF AppendSucceeds
      <4>2. CASE nextIndex'[n][p] = nextIndex[n][p]
        BY <3>5, <4>2
      <4>3. CASE nextIndex'[n][p] # nextIndex[n][p]
        <5>1. n = rpc[th].leader /\ p = rpc[th].peer
              /\ nextIndex'[n][p] = rpc[th].prevLogIndex + rpc[th].sent + 1
          BY <1>0, <4>1, <4>3
        <5> DEFINE i == rpc[th].prevLogIndex + 1 + rpc[th].sent
        <5>2. i \in Nat /\ i <= MaxLog /\ nextIndex'[n][p] = i
          <6>1. rpc[th] \in AppendReply /\ Fits(rpc[th])
            BY <1>0, <4>1, RpcKinds DEF LeadsTermOf, TypeInv, AppendInv, RpcFits
          <6>2. rpc[th].prevLogIndex \in Int /\ rpc[th].sent \in Nat /\ rpc[th].prevLogIndex >= -1
            BY <6>1 DEF AppendReply, LogPosition
          <6>3. i <= MaxLog
            BY <4>1, <6>1 DEF Fits, LeadsTermOf
          <6> QED
            BY <5>1, <6>2, <6>3
        <5>3. CASE i \in Position
          <6>1. Acked(n, p, i)
            BY <4>1, <5>1, <5>2 DEF Acked, LeadsTermOf
          <6> QED
            BY <1>1, <2>4, <4>1, <5>2, <5>3, <6>1 DEF AcksFit
        <5>4. CASE i \notin Position
          <6>1. i = 0
            BY <5>2, <5>4 DEF Position
          <6> QED
            BY <2>1, <5>2, <6>1
        <5> QED
          BY <5>3, <5>4
      <4> QED
        BY <4>2, <4>3
    <3> QED
      BY <1>0, <3>4, <3>5, <3>6, <3>7, StepKinds
      DEF Propose, SendAppend, HandleAppendEntries, leaderVars
  <2> QED
    BY <2>2, <2>3, <2>4
<1>5. TrueRequests'
  <2> SUFFICES ASSUME NEW m \in Requests', state'[m.leader] = "LEADER",
                      m.term = currentTerm'[m.leader]
               PROVE  /\ End(m) <= Len(log'[m.leader])
                      /\ End(m) >= 1 => TermAt(m, End(m)) = log'[m.leader][End(m)].term
    BY DEF TrueRequests, Led, End, TermAt, At, Before
  <2> DEFINE n == m.leader
  <2>1. /\ n \in Node /\ IsPiece(m) /\ End(m) \in Int
    BY <1>2
  <2>2. /\ Len(log[n]) \in Nat /\ Len(log'[n]) \in Nat /\ Len(log[n]) <= Len(log'[n])
        /\ \A j \in Position : j <= Len(log[n]) => j <= Len(log'[n]) /\ log'[n][j] = log[n][j]
    BY <1>0, <2>1, LeaderKeepsLog
  <2>3. /\ currentTerm'[n] = currentTerm[n]
        /\ state[n] = "LEADER" \/ WinElection(n, currentTerm[n])
    BY <1>0, <2>1, LeadersStay
  <2>4. ASSUME End(m) <= Len(log[n]),
               End(m) >= 1 => TermAt(m, End(m)) = log[n][End(m)].term
        PROVE  /\ End(m) <= Len(log'[m.leader])
               /\ End(m) >= 1 => TermAt(m, End(m)) = log'[m.leader][End(m)].term
    <3>1. End(m) <= MaxLog
      BY <2>1 DEF IsPiece, End
    <3>2. End(m) >= 1 => End(m) \in Position
      BY <2>1, <3>1 DEF Position
    <3> QED
      BY <2>1, <2>2, <2>4, <3>2
  <2>5. CASE m \in Requests
    <3>1. PICK th \in Thread : rpc[th].phase = "sent" /\ m = rpc[th]
      BY <2>5 DEF Requests
    <3>2. m.term \in Term
      BY <1>2 DEF AppendRequest
    <3>3. ~ WinElection(n, currentTerm[n])
      BY <2>1, <2>3, <3>1, <3>2, NoRpcOfWinner DEF Idle
    <3> QED
      BY <1>1, <2>3, <2>4, <2>5, <3>3 DEF TrueRequests, Led
  <2>6. CASE m \notin Requests
    <3>1. PICK k \in Node, p \in Node, th \in Thread : SendAppend(k, p, th) /\ m = rpc'[th]
      BY <1>0, <2>6, NewRequest
    <3>2. m.leader = k
      BY <1>0, <3>1, SentRequest
    <3> QED
      BY <1>0, <1>1, <2>1, <2>4, <3>1, <3>2, SentEnd
  <2> QED
    BY <2>5, <2>6
<1>6. AcksFit'
  <2> SUFFICES ASSUME NEW n \in Node, state'[n] = "LEADER", NEW p \in Peers(n),
                      NEW i \in Position, Acked(n, p, i)'
               PROVE  i <= Len(log'[n])
    BY DEF AcksFit, Peers, Position, Acked
  <2>1. /\ Len(log[n]) \in Nat
        /\ \A j \in Position : j <= Len(log[n]) => j <= Len(log'[n])
    BY <1>0, LeaderKeepsLog
  <2>2. /\ state[n] = "LEADER"
        /\ \/ Acked(n, p, i)
           \/ \E th \in Thread :
                 /\ HandleAppendEntries(th)
                 /\ rpc[th].leader = n /\ rpc[th].term = currentTerm[n]
                 /\ i <= End(rpc[th])
    BY NewAck
  <2>3. CASE Acked(n, p, i)
    BY <1>1, <2>1, <2>2, <2>3 DEF AcksFit
  <2>4. ASSUME NEW th \in Thread, HandleAppendEntries(th),
               rpc[th].leader = n, rpc[th].term = currentTerm[n], i <= End(rpc[th])
        PROVE  i <= Len(log'[n])
    <3>1. rpc[th] \in Requests /\ IsPiece(rpc[th])
      BY <1>0, <2>4, HandledRequest
    <3>2. End(rpc[th]) <= Len(log[n]) /\ End(rpc[th]) \in Int
      BY <1>1, <2>2, <2>4, <3>1, PieceBounds DEF TrueRequests, Led, End
    <3>3. i <= Len(log[n])
      BY <2>1, <2>4, <3>2 DEF Position
    <3> QED
      BY <2>1, <3>3
  <2> QED
    BY <2>2, <2>3, <2>4
<1> QED
  BY <1>3, <1>4, <1>5, <1>6 DEF RequestInv

LEMMA RequestInvariant == Spec => [](BaseInv /\ RequestInv)
<1>1. BaseInv /\ BaseInv' /\ RequestInv /\ [Next]_vars => RequestInv'
  <2>1. CASE Next
    BY <2>1, RequestStep
  <2>2. CASE UNCHANGED vars
    BY <2>2 DEF vars, raftVars, logVars, leaderVars, electionVars, appendVars, RequestInv,
       ToPeers, IndexFits, TrueRequests, AcksFit, Acked, Led, Requests
  <2> QED
    BY <2>1, <2>2
<1> QED
  BY <1>1, BaseInvariant, RequestInit, PTL DEF Spec

-----------------------------------------------------------------------------
(***************************************************************************)
(* Entries that requests carry.                                            *)
(***************************************************************************)
\* A log that holds entry i, of term t, still does after request a, and a log that
\* lacks it but takes a has it then.  A request that begins behind i tells so by
\* the term of the entry before: terms never fall.
Carries(a, i, t) ==
    IF Before(a) > i THEN a.prevLogTerm >= t ELSE Knows(a, i) /\ TermAt(a, i) = t

\* A request that ends in an entry of a log knows the terms of its entries.
LEMMA KnownTerms ==
    ASSUME NEW s \in Seq(Entry), Len(s) <= MaxLog, NEW m, IsPiece(m), Agree(m, Whole(s)),
           End(m) <= Len(s), End(m) >= 1 => TermAt(m, End(m)) = s[End(m)].term,
           NEW j \in Position, Knows(m, j)
    PROVE  TermAt(m, j) = s[j].term
<1> USE RaftAssumption
<1>0. /\ Before(m) \in Int /\ Before(m) >= 0 /\ Len(m.entries) \in Nat /\ Len(s) \in Nat
      /\ j \in Int /\ j >= 1
  BY PieceBounds DEF Position
<1>1. /\ End(m) \in Position /\ j \in 1..End(m) /\ j <= Len(s)
      /\ End(m) = Before(m) + Len(m.entries)
  BY <1>0 DEF End, Knows, Position
<1>2. CASE j = End(m)
  BY <1>0, <1>2
<1>3. CASE j # End(m)
  <2>1. Has(m, End(m)) /\ End(m) \in Int
    BY <1>0, <1>1, <1>3 DEF Has, Knows, Position
  <2>2. /\ Has(Whole(s), End(m)) /\ At(Whole(s), End(m)) = s[End(m)]
        /\ Knows(Whole(s), j) /\ TermAt(Whole(s), j) = s[j].term
    BY <1>1, WholeLog
  <2>3. At(m, End(m)).term = s[End(m)].term
    BY <1>0, <1>1, <2>1, HasKnows DEF Position
  <2>4. SameAt(m, Whole(s), j)
    BY <1>1, <2>1, <2>2, <2>3 DEF Agree
  <2> QED
    BY <2>2, <2>4 DEF SameAt
<1> QED
  BY <1>2, <1>3

\* So it carries the entries of that log up to its end.
LEMMA TrueCarries ==
    ASSUME NEW s \in Seq(Entry), Len(s) <= MaxLog, Sorted(Whole(s)), NEW m, IsPiece(m),
           Agree(m, Whole(s)), End(m) <= Len(s),
           End(m) >= 1 => TermAt(m, End(m)) = s[End(m)].term,
           NEW i \in Position, i <= End(m)
    PROVE  /\ i <= Len(s) /\ Carries(m, i, s[i].term)
           /\ Before(m) > i => /\ Before(m) \in Position /\ Before(m) <= Len(s)
                               /\ m.prevLogTerm = s[Before(m)].term
<1> USE RaftAssumption
<1>0. /\ Before(m) \in Int /\ Before(m) >= 0 /\ Len(m.entries) \in Nat /\ Len(s) \in Nat
      /\ i \in Int /\ i >= 1 /\ End(m) = Before(m) + Len(m.entries) /\ i <= Len(s)
  BY PieceBounds DEF Position, End
<1>1. CASE Before(m) > i
  <2> DEFINE k == Before(m)
  <2>1. k \in Position /\ k <= Len(s) /\ Knows(m, k) /\ TermAt(m, k) = m.prevLogTerm
    BY <1>0, <1>1 DEF Position, Knows, TermAt
  <2>2. m.prevLogTerm = s[k].term
    BY <2>1, KnownTerms
  <2>3. /\ Knows(Whole(s), i) /\ TermAt(Whole(s), i) = s[i].term
        /\ Knows(Whole(s), k) /\ TermAt(Whole(s), k) = s[k].term
    BY <1>0, <2>1, WholeLog
  <2>4. s[i].term <= s[k].term
    BY <1>0, <1>1, <2>1, <2>3 DEF Sorted
  <2>5. s[i].term \in Int /\ s[k].term \in Int
    BY <1>0, <2>1, <2>3, KnowsHas, WholeLog
  <2> QED
    BY <1>0, <1>1, <2>1, <2>2, <2>4, <2>5 DEF Carries
<1>2. CASE ~ Before(m) > i
  <2>1. Knows(m, i)
    BY <1>0, <1>2 DEF Knows
  <2>2. TermAt(m, i) = s[i].term
    BY <2>1, KnownTerms
  <2> QED
    BY <1>0, <1>2, <2>1, <2>2 DEF Carries
<1> QED
  BY <1>1, <1>2

\* A request that carries an entry leaves it where it is.
LEMMA KeepsEntry ==
    ASSUME NEW old \in Seq(Entry), Len(old) <= MaxLog, NEW m \in AppendRequest, IsPiece(m),
           Agree(m, Whole(old)), NEW i \in Position, NEW t, InLog(old, i, t), Carries(m, i, t)
    PROVE  InLog(NewLog(old, m), i, t)
<1> USE RaftAssumption
<1> DEFINE k == Before(m)
           new == NewLog(old, m)
           ok == Consistent(old, m.prevLogIndex, m.prevLogTerm)
           l == Len(m.entries)
<1>0. /\ Len(old) \in Nat /\ l \in Nat /\ i \in Int /\ i >= 1
      /\ i <= Len(old) /\ old[i].term = t
  BY PieceBounds DEF Position, InLog
<1>1. /\ k \in Nat
      /\ \/ new = old
         \/ /\ k >= 1 /\ k <= Len(old) /\ old[k].term # m.prevLogTerm
            /\ Len(new) = k - 1 /\ \A q \in 1..(k - 1) : new[q] = old[q]
         \/ /\ Len(new) = k + l
            /\ \A q \in 1..k : new[q] = old[q]
            /\ \A q \in (k + 1)..(k + l) : new[q] = At(m, q)
  BY NewLogForms
<1>2. k <= i => Knows(m, i) /\ TermAt(m, i) = t
  BY <1>0, <1>1 DEF Carries
<1>3. k < i => Has(m, i) /\ At(m, i).term = t /\ i <= k + l
  <2> SUFFICES ASSUME k < i
               PROVE  Has(m, i) /\ At(m, i).term = t /\ i <= k + l
    OBVIOUS
  <2>1. Has(m, i)
    BY <1>0, <1>1, <1>2 DEF Has, Knows
  <2> QED
    BY <1>0, <1>1, <1>2, <2>1, HasKnows DEF Has
<1>4. ASSUME k >= 1, k <= i
      PROVE  old[k].term = m.prevLogTerm
  <2>0. k \in Position /\ k \in 1..i /\ Knows(m, k) /\ TermAt(m, k) = m.prevLogTerm
    BY <1>0, <1>1, <1>4 DEF Position, Knows, TermAt
  <2>1. CASE k = i
    BY <1>0, <1>2, <1>4, <2>0, <2>1
  <2>2. CASE k < i
    <3>1. /\ Has(Whole(old), i) /\ At(Whole(old), i) = old[i]
          /\ Knows(Whole(old), k) /\ TermAt(Whole(old), k) = old[k].term
      <4>1. k <= Len(old)
        BY <1>0, <1>1, <1>4
      <4> QED
        BY <1>0, <2>0, <4>1, WholeLog
    <3>2. SameAt(m, Whole(old), k)
      BY <1>0, <1>3, <2>0, <2>2, <3>1 DEF Agree
    <3> QED
      BY <2>0, <3>1, <3>2 DEF SameAt
  <2> QED
    BY <1>0, <1>1, <1>4, <2>1, <2>2
<1> HIDE DEF k, new, l
<1>5. CASE new = old
  BY <1>0, <1>5 DEF InLog, new
<1>6. CASE /\ k >= 1 /\ k <= Len(old) /\ old[k].term # m.prevLogTerm
           /\ Len(new) = k - 1 /\ \A q \in 1..(k - 1) : new[q] = old[q]
  <2>1. i < k
    BY <1>0, <1>1, <1>4, <1>6
  <2>2. i \in 1..(k - 1) /\ i <= Len(new)
    BY <1>0, <1>1, <1>6, <2>1
  <2> QED
    BY <1>0, <1>6, <2>2 DEF InLog, new
<1>7. CASE /\ Len(new) = k + l
           /\ \A q \in 1..k : new[q] = old[q]
           /\ \A q \in (k + 1)..(k + l) : new[q] = At(m, q)
  <2>1. CASE i <= k
    <3>1. i \in 1..k /\ i <= Len(new)
      BY <1>0, <1>1, <1>7, <2>1
    <3> QED
      BY <1>0, <1>7, <3>1 DEF InLog, new
  <2>2. CASE k < i
    <3>1. i \in (k + 1)..(k + l) /\ i <= Len(new)
      BY <1>0, <1>1, <1>3, <1>7, <2>2
    <3> QED
      BY <1>3, <1>7, <2>2, <3>1 DEF InLog, new
  <2> QED
    BY <1>0, <1>1, <2>1, <2>2
<1> QED
  BY <1>1, <1>5, <1>6, <1>7

\* A log that takes a request has what it carries, as far as it reaches back.
LEMMA TakesEntry ==
    ASSUME NEW old \in Seq(Entry), Len(old) <= MaxLog, NEW m \in AppendRequest, IsPiece(m),
           Consistent(old, m.prevLogIndex, m.prevLogTerm),
           NEW i \in Position, NEW t, i <= End(m), Carries(m, i, t),
           Before(m) > i => InLog(old, i, t)
    PROVE  InLog(NewLog(old, m), i, t)
<1> USE RaftAssumption
<1> DEFINE k == Before(m)
           new == NewLog(old, m)
           l == Len(m.entries)
<1>0. /\ Len(old) \in Nat /\ l \in Nat /\ i \in Int /\ i >= 1 /\ i <= k + l
  BY PieceBounds DEF Position, End
<1>1. /\ k \in Nat /\ k <= Len(old) /\ (k >= 1 => old[k].term = m.prevLogTerm)
      /\ \/ new = old /\ l = 0
         \/ /\ Len(new) = k + l
            /\ \A q \in 1..k : new[q] = old[q]
            /\ \A q \in (k + 1)..(k + l) : new[q] = At(m, q)
  BY NewLogForms
<1>2. k <= i => Knows(m, i) /\ TermAt(m, i) = t
  BY <1>0, <1>1 DEF Carries
<1>3. i <= k => i <= Len(old) /\ old[i].term = t
  <2>1. CASE i = k
    BY <1>0, <1>1, <1>2, <2>1 DEF TermAt
  <2>2. CASE i < k
    BY <1>0, <1>1, <2>2 DEF InLog
  <2> QED
    BY <1>0, <1>1, <2>1, <2>2
<1>4. k < i => At(m, i).term = t
  BY <1>0, <1>1, <1>2, HasKnows DEF Has
<1> HIDE DEF k, new, l
<1>5. CASE i <= k
  <2>1. new[i] = old[i] /\ i <= Len(new)
    <3>1. i \in 1..k
      BY <1>0, <1>1, <1>5
    <3> QED
      BY <1>0, <1>1, <1>3, <1>5, <3>1
  <2> QED
    BY <1>3, <1>5, <2>1 DEF InLog, new
<1>6. CASE k < i
  <2>1. l # 0 /\ i \in (k + 1)..(k + l)
    BY <1>0, <1>1, <1>6
  <2>2. new[i] = At(m, i) /\ i <= Len(new)
    BY <1>0, <1>1, <2>1
  <2> QED
    BY <1>4, <1>6, <2>2 DEF InLog, new
<1> QED
  BY <1>0, <1>1, <1>5, <1>6

\* A log keeps an entry in a step in which the request handled carries it.
LEMMA EntryStays ==
    ASSUME BaseInv, Next, NEW p \in Node, NEW i \in Position, NEW t, InLog(log[p], i, t),
           \A th \in Thread : HandleAppendEntries(th) /\ rpc[th].peer = p
                                  => Carries(rpc[th], i, t)
    PROVE  InLog(log'[p], i, t)
<1>0. TypeInv /\ log[p] \in Seq(Entry) /\ Len(log[p]) <= MaxLog
  BY DEF BaseInv, TypeInv, LogInv, LogTypeOK
<1>1. CASE log'[p] = log[p]
  BY <1>1
<1>2. ASSUME NEW d \in Data, log'[p] = Append(log[p], [term |-> currentTerm[p], data |-> d])
      PROVE  InLog(log'[p], i, t)
  <2> DEFINE r == Append(log[p], [term |-> currentTerm[p], data |-> d])
  <2>1. i <= Len(r) /\ r[i] = log[p][i]
    BY <1>0, AppendKeeps DEF InLog
  <2>2. log'[p] = r
    BY <1>2
  <2> HIDE DEF r
  <2> QED
    BY <2>1, <2>2 DEF InLog
<1>3. ASSUME NEW th \in Thread, HandleAppendEntries(th), rpc[th].peer = p,
             log'[p] = NewLog(log[p], rpc[th])
      PROVE  InLog(log'[p], i, t)
  <2>1. /\ rpc[th] \in AppendRequest /\ IsPiece(rpc[th]) /\ rpc[th] \in Pieces
    BY <1>0, <1>3, HandledRequest
  <2>2. Agree(rpc[th], Whole(log[p]))
    BY <2>1 DEF BaseInv, PieceInv, PiecesAgree, Pieces
  <2>3. InLog(NewLog(log[p], rpc[th]), i, t)
    BY <1>0, <1>3, <2>1, <2>2, KeepsEntry
  <2> QED
    BY <1>3, <2>3
<1> QED
  BY <1>0, <1>1, <1>2, <1>3, LogChanges

\* A request of who still leads carries the leader's entries up to its end.
LEMMA LeaderCarries ==
    ASSUME BaseInv, SortedInv, RequestInv, NEW m \in Requests, Led(m),
           NEW i \in Position, i <= End(m)
    PROVE  LET s == log[m.leader]
           IN  /\ i <= Len(s) /\ Carries(m, i, s[i].term)
               /\ Before(m) > i => /\ Before(m) \in Position /\ Before(m) <= Len(s)
                                   /\ m.prevLogTerm = s[Before(m)].term
<1> DEFINE s == log[m.leader]
<1>0. TypeInv
  BY DEF BaseInv
<1>1. IsPiece(m) /\ m \in Pieces
  BY <1>0, PieceType DEF Pieces
<1>2. m.leader \in Node
  <2>1. PICK th \in Thread : rpc[th].phase = "sent" /\ m = rpc[th]
    BY DEF Requests
  <2> QED
    BY <1>0, <2>1, RpcKinds DEF AppendRequest, TypeInv, AppendInv
<1>3. s \in Seq(Entry) /\ Len(s) <= MaxLog
  BY <1>0, <1>2 DEF TypeInv, LogInv, LogTypeOK
<1>4. Whole(s) \in Pieces
  BY <1>2 DEF Pieces
<1>5. Agree(m, Whole(s)) /\ Sorted(Whole(s))
  BY <1>1, <1>4 DEF BaseInv, PieceInv, PiecesAgree, SortedInv, PiecesSorted
<1>6. End(m) <= Len(s) /\ (End(m) >= 1 => TermAt(m, End(m)) = s[End(m)].term)
  BY DEF RequestInv, TrueRequests
<1> HIDE DEF s
<1>7. /\ i <= Len(s) /\ Carries(m, i, s[i].term)
      /\ Before(m) > i => /\ Before(m) \in Position /\ Before(m) <= Len(s)
                          /\ m.prevLogTerm = s[Before(m)].term
  BY <1>1, <1>3, <1>5, <1>6, TrueCarries
<1> QED
  BY <1>7 DEF s

-----------------------------------------------------------------------------
(***************************************************************************)
(* What a peer has acknowledged it keeps, until it moves to a later term,  *)
(* because no request to it ends before.                                   *)
(***************************************************************************)
AckTrue ==
    \A n \in Node : state[n] = "LEADER" =>
        \A p \in Peers(n) : \A i \in Position : Acked(n, p, i) =>
            /\ currentTerm[p] >= currentTerm[n]
            /\ currentTerm[p] = currentTerm[n] => InLog(log[p], i, log[n][i].term)

CommonInv == BaseInv /\ SortedInv /\ RequestInv

LEMMA AckStep ==
    ASSUME CommonInv, CommonInv', NoOvertaking, AckTrue, Next
    PROVE  AckTrue'
<1> USE RaftAssumption
<1>0. /\ BaseInv /\ BaseInv' /\ SortedInv /\ RequestInv /\ TypeInv /\ TypeInv' /\ ElectionInv
      /\ \A k \in Node : log[k] \in Seq(Entry) /\ Len(log[k]) <= MaxLog
      /\ \A a, b \in Pieces : Agree(a, b)
  BY DEF CommonInv, BaseInv, TypeInv, LogInv, LogTypeOK, PieceInv, PiecesAgree
<1> SUFFICES ASSUME NEW n \in Node, state'[n] = "LEADER", NEW p \in Peers(n),
                    NEW i \in Position, Acked(n, p, i)'
             PROVE  /\ currentTerm'[p] >= currentTerm'[n]
                    /\ currentTerm'[p] = currentTerm'[n] => InLog(log'[p], i, log'[n][i].term)
  BY DEF AckTrue, Peers, Position, Acked, InLog
<1> DEFINE t == log[n][i].term
<1>1. /\ state[n] = "LEADER" /\ currentTerm'[n] = currentTerm[n]
      /\ \/ Acked(n, p, i)
         \/ \E th \in Thread :
               /\ HandleAppendEntries(th)
               /\ rpc[th].leader = n /\ rpc[th].peer = p /\ rpc[th].term = currentTerm[n]
               /\ Consistent(log[p], rpc[th].prevLogIndex, rpc[th].prevLogTerm)
               /\ i <= End(rpc[th])
  BY <1>0, NewAck
<1>2. p \in Node /\ p # n
  BY DEF Peers
<1>3. i <= Len(log[n]) => log'[n][i] = log[n][i]
  BY <1>0, LeaderKeepsLog
<1>4. /\ currentTerm[p] \in Nat /\ currentTerm'[p] \in Nat /\ currentTerm[p] <= currentTerm'[p]
      /\ currentTerm[n] \in Nat
  BY <1>0, <1>2, TermsGrow
<1>5. CASE Acked(n, p, i)
  <2>1. /\ i <= Len(log[n]) /\ currentTerm[p] >= currentTerm[n]
        /\ currentTerm[p] = currentTerm[n] => InLog(log[p], i, t)
    BY <1>0, <1>1, <1>5 DEF AckTrue, RequestInv, AcksFit
  <2>2. ASSUME currentTerm'[p] = currentTerm'[n]
        PROVE  InLog(log'[p], i, log'[n][i].term)
    <3>1. currentTerm[p] = currentTerm[n]
      BY <1>1, <1>4, <2>1, <2>2
    <3>2. ASSUME NEW th \in Thread, HandleAppendEntries(th), rpc[th].peer = p
          PROVE  Carries(rpc[th], i, t)
      <4>1. rpc[th] \in Requests /\ currentTerm'[p] = rpc[th].term
        BY <1>0, <1>2, <3>2, HandledRequest DEF TypeInv, NodeTypeOK
      <4>a. rpc[th] # Idle
        BY <3>2 DEF HandleAppendEntries, Idle
      <4>b. rpc[th].term = currentTerm[n]
        BY <1>1, <2>2, <4>1
      <4>2. rpc[th].leader = n
        BY <1>0, <1>1, <4>a, <4>b, LeaderOfTerm
      <4>3. Led(rpc[th])
        BY <1>1, <2>2, <4>1, <4>2 DEF Led
      <4>4. i <= End(rpc[th])
        BY <1>5, <3>2, <4>1, <4>2, <4>3 DEF NoOvertaking
      <4> QED
        BY <1>0, <4>1, <4>2, <4>3, <4>4, LeaderCarries
    <3>3. InLog(log'[p], i, t)
      BY <1>0, <1>2, <2>1, <3>1, <3>2, EntryStays
    <3> QED
      BY <1>3, <2>1, <3>3
  <2> QED
    BY <1>1, <1>4, <2>1, <2>2
<1>6. ASSUME NEW th \in Thread, HandleAppendEntries(th), rpc[th].leader = n,
             rpc[th].peer = p, rpc[th].term = currentTerm[n],
             Consistent(log[p], rpc[th].prevLogIndex, rpc[th].prevLogTerm),
             i <= End(rpc[th])
      PROVE  /\ currentTerm'[p] >= currentTerm'[n]
             /\ currentTerm'[p] = currentTerm'[n] => InLog(log'[p], i, log'[n][i].term)
  <2> DEFINE m == rpc[th]
             k == Before(m)
  <2>1. /\ m \in Requests /\ m \in AppendRequest /\ IsPiece(m)
        /\ log'[p] = NewLog(log[p], m) /\ currentTerm'[p] = currentTerm[n]
    <3>1. /\ m \in Requests /\ m \in AppendRequest /\ IsPiece(m)
          /\ log' = [log EXCEPT ![p] = NewLog(log[p], m)]
          /\ currentTerm' = [currentTerm EXCEPT ![p] = currentTerm[n]]
      BY <1>0, <1>6, HandledRequest
    <3>2. DOMAIN log = Node /\ DOMAIN currentTerm = Node
      BY <1>0 DEF TypeInv, NodeTypeOK, LogInv, LogTypeOK
    <3> HIDE DEF m
    <3> QED
      BY <1>2, <3>1, <3>2
  <2>2. Led(m)
    BY <1>1, <1>6 DEF Led
  <2>3. /\ i <= Len(log[n]) /\ Carries(m, i, t)
        /\ k > i => k \in Position /\ k <= Len(log[n]) /\ m.prevLogTerm = log[n][k].term
    BY <1>0, <1>6, <2>1, <2>2, LeaderCarries
  <2>4. k > i => InLog(log[p], i, t)
    <3> SUFFICES ASSUME k > i
                 PROVE  InLog(log[p], i, t)
      OBVIOUS
    <3>1. k <= Len(log[p]) /\ log[p][k].term = m.prevLogTerm
      <4>1. k <= Len(log[p]) /\ (k >= 1 => log[p][k].term = m.prevLogTerm)
        BY <1>0, <1>2, <1>6, <2>1, NewLogForms
      <4> QED
        BY <2>3, <4>1 DEF Position
    <3> HIDE DEF m, k
    <3>2. k \in Position /\ i \in 1..k /\ i <= Len(log[p])
      <4>1. k \in Int /\ i \in Int /\ i >= 1
        BY <2>3 DEF Position
      <4>2. Len(log[p]) \in Nat
        BY <1>0, <1>2
      <4> QED
        BY <2>3, <3>1, <4>1, <4>2
    <3>3. /\ Has(Whole(log[p]), k) /\ At(Whole(log[p]), k) = log[p][k]
          /\ Knows(Whole(log[p]), i) /\ TermAt(Whole(log[p]), i) = log[p][i].term
          /\ Has(Whole(log[n]), k) /\ At(Whole(log[n]), k) = log[n][k]
          /\ Knows(Whole(log[n]), i) /\ TermAt(Whole(log[n]), i) = log[n][i].term
      BY <1>0, <1>2, <2>3, <3>1, <3>2, WholeLog
    <3>4. Agree(Whole(log[p]), Whole(log[n]))
      BY <1>0, <1>2 DEF Pieces
    <3>5. SameAt(Whole(log[p]), Whole(log[n]), i)
      BY <2>3, <3>1, <3>2, <3>3, <3>4 DEF Agree
    <3> QED
      BY <3>2, <3>3, <3>5 DEF SameAt, InLog
  <2>5. InLog(NewLog(log[p], m), i, t)
    BY <1>0, <1>2, <1>6, <2>1, <2>3, <2>4, TakesEntry
  <2> QED
    BY <1>1, <1>3, <1>4, <2>1, <2>3, <2>5
<1> QED
  BY <1>1, <1>5, <1>6

\* The position a peer's log agrees up to is the one the leader has recorded.
LEMMA AcksMatch == CommonInv /\ AckTrue => MatchIndexIsTrue
<1> SUFFICES ASSUME CommonInv, AckTrue, NEW n \in Node, state[n] = "LEADER",
                    NEW p \in Peers(n), currentTerm[p] <= currentTerm[n],
                    NEW i \in 1..(matchIndex[n][p] + 1)
             PROVE  i <= Len(log[p]) /\ log[p][i] = log[n][i]
  BY DEF MatchIndexIsTrue
<1> USE RaftAssumption
<1>1. /\ p \in Node /\ currentTerm[p] \in Nat /\ currentTerm[n] \in Nat
      /\ \A k \in Node : log[k] \in Seq(Entry) /\ Len(log[k]) <= MaxLog
  BY DEF CommonInv, BaseInv, TypeInv, NodeTypeOK, LogInv, LogTypeOK, Peers
<1>a. matchIndex[n][p] \in LogPosition
  BY DEF CommonInv, BaseInv, TypeInv, LeaderTypeOK
<1>2. i \in Position /\ i \in 1..i /\ i <= matchIndex[n][p] + 1
  BY <1>a DEF LogPosition, Position
<1>3. Acked(n, p, i)
  BY <1>2 DEF Acked
<1>4. InLog(log[p], i, log[n][i].term) /\ i <= Len(log[n])
  BY <1>1, <1>2, <1>3 DEF AckTrue, CommonInv, RequestInv, AcksFit
<1>5. /\ Has(Whole(log[p]), i) /\ At(Whole(log[p]), i) = log[p][i]
      /\ Has(Whole(log[n]), i) /\ At(Whole(log[n]), i) = log[n][i]
  BY <1>1, <1>2, <1>4, WholeLog DEF InLog
<1>6. Agree(Whole(log[p]), Whole(log[n]))
  BY <1>1 DEF CommonInv, BaseInv, PieceInv, PiecesAgree, Pieces
<1>7. SameAt(Whole(log[p]), Whole(log[n]), i)
  BY <1>2, <1>4, <1>5, <1>6 DEF Agree, InLog
<1> QED
  BY <1>4, <1>5, <1>7 DEF SameAt, InLog

LEMMA CommonInvariant == Spec => []CommonInv
<1>1. Init => SortedInv
  <2> SUFFICES ASSUME Init
               PROVE  SortedInv
    OBVIOUS
  <2>1. Requests = {} /\ \A n \in Node : log[n] = << >>
    BY DEF Init, Requests, Idle
  <2>2. ASSUME NEW a \in Pieces, NEW j \in Position, Knows(a, j)
        PROVE  FALSE
    <3>1. Before(a) = 0 /\ Len(a.entries) = 0
      BY <2>1, EmptySeq DEF Pieces, Whole, Before
    <3> QED
      BY <2>2, <3>1, RaftAssumption DEF Knows, Position
  <2>3. PiecesSorted
    BY <2>2 DEF PiecesSorted, Sorted
  <2>4. TermsReached
    BY <2>1, EmptySeq, RaftAssumption DEF TermsReached, Position
  <2> QED
    BY <2>3, <2>4 DEF SortedInv
<1>2. BaseInv /\ BaseInv' /\ SortedInv /\ [Next]_vars => SortedInv'
  <2>1. CASE Next
    BY <2>1, SortedStep
  <2>2. CASE UNCHANGED vars
    BY <2>2 DEF vars, raftVars, logVars, appendVars, SortedInv, PiecesSorted, TermsReached,
       Pieces, Requests
  <2> QED
    BY <2>1, <2>2
<1>3. BaseInv /\ SortedInv /\ RequestInv => CommonInv
  BY DEF CommonInv
<1> QED
  BY <1>1, <1>2, <1>3, RequestInvariant, PTL DEF Spec

LEMMA AckInvariant == Spec /\ []NoOvertaking => []AckTrue
<1>1. Init => AckTrue
  BY DEF Init, AckTrue
<1>2. CommonInv /\ CommonInv' /\ NoOvertaking /\ AckTrue /\ [Next]_vars => AckTrue'
  <2>1. CASE Next
    BY <2>1, AckStep
  <2>2. CASE UNCHANGED vars
    BY <2>2 DEF vars, raftVars, logVars, leaderVars, appendVars, AckTrue, Acked
  <2> QED
    BY <2>1, <2>2
<1> QED
  BY <1>1, <1>2, CommonInvariant, PTL DEF Spec

\* A peer that has not moved to a later term agrees with the leader up to the
\* position recorded for it, so that the leader counts nobody who lost an entry.
THEOREM MatchIndexTrue == Spec /\ []NoOvertaking => []MatchIndexIsTrue
  BY AckInvariant, CommonInvariant, AcksMatch, PTL

-----------------------------------------------------------------------------
(***************************************************************************)
(* What a candidate tells its voters about its log stays true while it is  *)
(* a candidate.                                                            *)
(***************************************************************************)
AsksFrom(x, n) == x.lastLogIndex = LastLogIndex(n) /\ x.lastLogTerm = LastLogTerm(n)

CandidateAsks ==
    /\ \A m \in voteRequests : m.term <= currentTerm[m.candidate]
    /\ \A n \in Node : state[n] = "CANDIDATE" =>
          /\ currentTerm[n] \in Term
          /\ election[n][currentTerm[n]].alive => AsksFrom(election[n][currentTerm[n]], n)
          /\ \A m \in voteRequests :
                m.candidate = n /\ m.term = currentTerm[n] => AsksFrom(m, n)

\* Threads keep what they were started with, and requests repeat it.
LEMMA ThreadsKeep ==
    ASSUME TypeInv, Next, NEW n \in Node, NEW t \in Term, election'[n][t].alive,
           ~ ElectionTimeout(n)
    PROVE  /\ election[n][t].alive
           /\ election'[n][t].lastLogIndex = election[n][t].lastLogIndex
           /\ election'[n][t].lastLogTerm = election[n][t].lastLogTerm
<1> DEFINE Same == /\ election[n][t].alive
                   /\ election'[n][t].lastLogIndex = election[n][t].lastLogIndex
                   /\ election'[n][t].lastLogTerm = election[n][t].lastLogTerm
<1>0. /\ election \in [Node -> [Term -> ElectionThread]]
      /\ \A k \in Node : election[k] \in [Term -> ElectionThread]
      /\ voteReplies \subseteq VoteReply
  BY DEF TypeInv, ElectionTypeOK
<1>1. ASSUME election' = election
      PROVE  Same
  BY <1>1
<1>2. ASSUME NEW k \in Node, NEW u \in Term, election' = [election EXCEPT ![k][u] = NoElection]
      PROVE  Same
  BY <1>0, <1>2 DEF NoElection
<1>3. ASSUME NEW k \in Node, ElectionTimeout(k)
      PROVE  Same
  BY <1>0, <1>3 DEF ElectionTimeout
<1>4. ASSUME NEW k \in Node, TimeoutNotElapsed(k) \/ FailLeader(k)
      PROVE  Same
  BY <1>1, <1>4 DEF TimeoutNotElapsed, FailLeader, electionVars
<1>5. ASSUME NEW k \in Node, NEW u \in Term, NEW p \in Node, AskVote(k, u, p)
      PROVE  Same
  BY <1>0, <1>5 DEF AskVote, ElectionThread
<1>6. ASSUME NEW m \in voteRequests, HandleRequestVote(m)
      PROVE  Same
  BY <1>1, <1>6 DEF HandleRequestVote
<1>7. ASSUME NEW r \in voteReplies, VoteReplyStepsDown(r)
      PROVE  Same
  <2>1. r.candidate \in Node /\ r.term \in Term
    BY <1>0 DEF VoteReply
  <2> QED
    BY <1>2, <1>7, <2>1 DEF VoteReplyStepsDown
<1>8. ASSUME NEW r \in voteReplies, CountVote(r)
      PROVE  Same
  <2>1. r.candidate \in Node /\ r.term \in Term
    BY <1>0 DEF VoteReply
  <2>2. election' = [election EXCEPT ![r.candidate][r.term].asked = Nil]
    BY <1>8 DEF CountVote
  <2>3. election[r.candidate][r.term] \in ElectionThread
    BY <1>0, <2>1
  <2>4. /\ election'[n][t].alive = election[n][t].alive
        /\ election'[n][t].lastLogIndex = election[n][t].lastLogIndex
        /\ election'[n][t].lastLogTerm = election[n][t].lastLogTerm
    BY <1>0, <2>1, <2>2, <2>3 DEF ElectionThread
  <2> QED
    BY <2>4
<1>9. ASSUME NEW k \in Node, NEW u \in Term, VoteRequestFails(k, u)
      PROVE  Same
  BY <1>0, <1>9 DEF VoteRequestFails, ElectionThread
<1>10. ASSUME NEW k \in Node, NEW u \in Term, WinElection(k, u) \/ LoseElection(k, u)
       PROVE  Same
  BY <1>2, <1>10 DEF WinElection, LoseElection
<1>11. ASSUME NEW k \in Node, NEW d \in Data, Propose(k, d)
       PROVE  Same
  BY <1>1, <1>11 DEF Propose, electionVars
<1>12. ASSUME NEW k \in Node, NEW p \in Node, NEW th \in Thread, SendAppend(k, p, th)
       PROVE  Same
  BY <1>1, <1>12 DEF SendAppend, electionVars
<1>13. ASSUME NEW k \in Node, NEW p \in Node, SendAppendReturns(k, p)
       PROVE  Same
  BY <1>1, <1>13 DEF SendAppendReturns, electionVars
<1>14. ASSUME NEW th \in Thread,
              RejectStaleAppend(th) \/ HandleAppendEntries(th) \/ IgnoreAppendReply(th)
                \/ AppendReplyStepsDown(th)
       PROVE  Same
  BY <1>1, <1>14 DEF RejectStaleAppend, HandleAppendEntries, IgnoreAppendReply,
     AppendReplyStepsDown, electionVars
<1>15. ASSUME NEW th \in Thread,
              AppendSucceeds(th) \/ HeartbeatSucceeds(th) \/ AppendBacktracks(th)
                \/ AppendFails(th)
       PROVE  Same
  BY <1>1, <1>15 DEF AppendSucceeds, HeartbeatSucceeds, AppendBacktracks, AppendFails,
     electionVars
<1> QED
  BY <1>3, <1>4, <1>5, <1>6, <1>7, <1>8, <1>9, <1>10, <1>11, <1>12, <1>13, <1>14, <1>15
  DEF Next

LEMMA NewVoteRequest ==
    ASSUME TypeInv, Next, NEW m \in voteRequests', m \notin voteRequests
    PROVE  /\ m.candidate \in Node /\ m.term \in Term
           /\ currentTerm' = currentTerm
           /\ election[m.candidate][m.term].alive
           /\ m.lastLogIndex = election[m.candidate][m.term].lastLogIndex
           /\ m.lastLogTerm = election[m.candidate][m.term].lastLogTerm
<1>1. PICK n \in Node, t \in Term, p \in Node : AskVote(n, t, p)
  BY DEF Next, ElectionTimeout, TimeoutNotElapsed, FailLeader, HandleRequestVote,
     VoteReplyStepsDown, CountVote, VoteRequestFails, WinElection, LoseElection, Propose,
     SendAppend, SendAppendReturns, RejectStaleAppend, HandleAppendEntries,
     IgnoreAppendReply, AppendReplyStepsDown, AppendSucceeds, HeartbeatSucceeds,
     AppendBacktracks, AppendFails, electionVars
<1> DEFINE r == [candidate |-> n, term |-> t, peer |-> p,
                 lastLogIndex |-> election[n][t].lastLogIndex,
                 lastLogTerm |-> election[n][t].lastLogTerm]
<1>2. /\ voteRequests' = voteRequests \cup {r} /\ currentTerm' = currentTerm
      /\ election[n][t].alive
  BY <1>1 DEF AskVote, raftVars
<1>3. m = r
  BY <1>2
<1> QED
  BY <1>2, <1>3

LEMMA CandidateStep ==
    ASSUME CommonInv, CommonInv', CandidateAsks, Next
    PROVE  CandidateAsks'
<1> USE RaftAssumption
<1>0. /\ TypeInv /\ TypeInv' /\ ElectionInv /\ NodeTypeOK /\ voteRequests \subseteq VoteRequest
      /\ voteRequests' \subseteq VoteRequest
      /\ DOMAIN election = Node /\ \A n \in Node : DOMAIN election[n] = Term
  BY DEF CommonInv, BaseInv, TypeInv, ElectionTypeOK
<1>1. ASSUME NEW m \in voteRequests'
      PROVE  m.term <= currentTerm'[m.candidate]
  <2>1. m.candidate \in Node /\ m.term \in Int
    BY <1>0 DEF VoteRequest, Term
  <2>2. CASE m \in voteRequests
    <3>1. m.term <= currentTerm[m.candidate]
      BY <2>2 DEF CandidateAsks
    <3> QED
      BY <1>0, <2>1, <3>1, TermsGrow
  <2>3. CASE m \notin voteRequests
    BY <1>0, <1>1, <2>1, <2>3, NewVoteRequest DEF ElectionInv, ThreadsOfTerm
  <2> QED
    BY <2>2, <2>3
<1>2. ASSUME NEW n \in Node, state'[n] = "CANDIDATE"
      PROVE  LET t == currentTerm'[n]
             IN  /\ t \in Term
                 /\ election'[n][t].alive =>
                       /\ election'[n][t].lastLogIndex = Len(log'[n]) - 1
                       /\ election'[n][t].lastLogTerm = LastTermOf(log'[n])
                 /\ \A m \in voteRequests' : m.candidate = n /\ m.term = t =>
                       /\ m.lastLogIndex = Len(log'[n]) - 1
                       /\ m.lastLogTerm = LastTermOf(log'[n])
  <2> DEFINE t == currentTerm'[n]
  <2>1. /\ log'[n] = log[n]
        /\ \/ state[n] = "CANDIDATE" /\ currentTerm'[n] = currentTerm[n]
           \/ ElectionTimeout(n)
    BY <1>0, <1>2, CandidatesStay
  <2>2. CASE ElectionTimeout(n)
    <3>1. /\ t = currentTerm[n] + 1 /\ t \in Term /\ voteRequests' = voteRequests
          /\ currentTerm[n] \in Nat
      BY <1>0, <2>2 DEF ElectionTimeout, NodeTypeOK, Term
    <3>2. election' = [election EXCEPT ![n][t] =
                 [alive |-> TRUE, unasked |-> Peers(n), asked |-> Nil,
                  lastLogIndex |-> LastLogIndex(n), lastLogTerm |-> LastLogTerm(n)]]
      BY <2>2, <3>1 DEF ElectionTimeout
    <3>3. /\ election'[n][t].lastLogIndex = LastLogIndex(n)
          /\ election'[n][t].lastLogTerm = LastLogTerm(n)
      BY <1>0, <3>1, <3>2
    <3>4. ASSUME NEW m \in voteRequests', m.candidate = n, m.term = t
          PROVE  FALSE
      <4>1. m.term <= currentTerm[n]
        BY <3>1, <3>4 DEF CandidateAsks
      <4> QED
        BY <3>1, <3>4, <4>1
    <3> QED
      BY <2>1, <3>1, <3>3, <3>4 DEF LastLogIndex, LastLogTerm
  <2>3. CASE state[n] = "CANDIDATE" /\ currentTerm'[n] = currentTerm[n] /\ ~ ElectionTimeout(n)
    <3>1. t \in Term /\ t = currentTerm[n]
      BY <2>3 DEF CandidateAsks
    <3>2. election[n][t].alive => AsksFrom(election[n][t], n)
      BY <2>3 DEF CandidateAsks
    <3>3. election'[n][t].alive => /\ election'[n][t].lastLogIndex = LastLogIndex(n)
                                   /\ election'[n][t].lastLogTerm = LastLogTerm(n)
      BY <1>0, <2>3, <3>1, <3>2, ThreadsKeep DEF AsksFrom
    <3>4. ASSUME NEW m \in voteRequests', m.candidate = n, m.term = t
          PROVE  AsksFrom(m, n)
      <4>1. CASE m \in voteRequests
        BY <2>3, <3>4, <4>1 DEF CandidateAsks
      <4>2. CASE m \notin voteRequests
        BY <1>0, <3>2, <3>4, <4>2, NewVoteRequest DEF AsksFrom
      <4> QED
        BY <4>1, <4>2
    <3> QED
      BY <2>1, <3>1, <3>3, <3>4 DEF LastLogIndex, LastLogTerm, AsksFrom
  <2> QED
    BY <2>1, <2>2, <2>3
<1> QED
  BY <1>1, <1>2 DEF CandidateAsks, AsksFrom, LastLogIndex, LastLogTerm, LastTermOf

LEMMA CandidateInvariant == Spec => []CandidateAsks
<1>1. Init => CandidateAsks
  BY DEF Init, CandidateAsks
<1>2. CommonInv /\ CommonInv' /\ CandidateAsks /\ [Next]_vars => CandidateAsks'
  <2>1. CASE Next
    BY <2>1, CandidateStep
  <2>2. CASE UNCHANGED vars
    BY <2>2 DEF vars, raftVars, logVars, electionVars, CandidateAsks, AsksFrom, LastLogIndex,
       LastLogTerm
  <2> QED
    BY <2>1, <2>2
<1> QED
  BY <1>1, <1>2, CommonInvariant, PTL DEF Spec

-----------------------------------------------------------------------------
(***************************************************************************)
(* Entries that cannot be lost.  Entry i, proposed in term t, is secured   *)
(* by the nodes Q when whatever is newer carries it, the nodes in Q have   *)
(* it and keep it, and who leads a later term has it, or will: a candidate *)
(* that one of Q votes for is as new as the voter.                         *)
(***************************************************************************)
Newer(a, i, t) ==
    \E j \in Position : Has(a, j) /\ (At(a, j).term > t \/ (At(a, j).term = t /\ j >= i))

\* p has the entry, and no request of term t will cut it off.
Follows(p, i, t) ==
    /\ InLog(log[p], i, t)
    /\ currentTerm[p] >= t
    /\ \A m \in Requests : m.peer = p /\ m.term = t /\ currentTerm[p] = t => i <= End(m)

NewerCarry(i, t) == \A a \in Pieces : Newer(a, i, t) => Carries(a, i, t)

RequestsCarry(i, t) ==
    \A m \in Requests : m.term > t \/ (m.term = t /\ i <= End(m)) => Carries(m, i, t)

LeadersHave(i, t) ==
    \A c \in Node : state[c] = "LEADER" /\ currentTerm[c] > t => InLog(log[c], i, t)

VotedHave(i, t, Q) ==
    \A c \in Node : state[c] = "CANDIDATE" /\ currentTerm[c] > t =>
        \A p \in Q : Granted(p, c, currentTerm[c]) => Newer(Whole(log[c]), i, t)

Secured(i, t, Q) ==
    /\ NewerCarry(i, t)
    /\ RequestsCarry(i, t)
    /\ LeadersHave(i, t)
    /\ VotedHave(i, t, Q)
    /\ \A p \in Q : Follows(p, i, t)

\* A log is newer than an entry it has, and carries the entry only if it has it.
LEMMA WholeHas ==
    ASSUME NEW s \in Seq(Entry), Len(s) <= MaxLog, NEW i \in Position, NEW t \in Int
    PROVE  /\ InLog(s, i, t) => Newer(Whole(s), i, t)
           /\ Carries(Whole(s), i, t) <=> InLog(s, i, t)
<1> USE RaftAssumption
<1>1. i \in Int /\ i >= 1 /\ i >= i
  BY DEF Position
<1>2. /\ Before(Whole(s)) = 0
      /\ Has(Whole(s), i) <=> i <= Len(s)
      /\ Knows(Whole(s), i) <=> i <= Len(s)
      /\ At(Whole(s), i) = s[i]
      /\ TermAt(Whole(s), i) = s[i].term
  BY WholeLog
<1> QED
  BY <1>1, <1>2 DEF InLog, Newer, Carries

\* An entry of a log is an entry.
LEMMA EntryAt ==
    ASSUME NEW s \in Seq(Entry), NEW j \in Position, j <= Len(s)
    PROVE  s[j] \in Entry /\ s[j].term \in Int /\ s[j].term >= 1
<1>1. j \in 1..Len(s)
  BY RaftAssumption DEF Position
<1>2. s[j] \in Entry
  BY <1>1, ElementOfSeq
<1> QED
  BY <1>2, RaftAssumption DEF Entry, Term

\* Terms never fall along a log.
LEMMA SortedLog ==
    ASSUME NEW s \in Seq(Entry), Len(s) <= MaxLog, Sorted(Whole(s)),
           NEW i \in Position, NEW j \in Position, i <= j, j <= Len(s)
    PROVE  s[i].term <= s[j].term
<1>1. i <= Len(s)
  BY RaftAssumption DEF Position
<1> QED
  BY <1>1, WholeLog DEF Sorted

\* The new log of a node is newer only by what it had or by the request, and has
\* the entry if they carry it.
LEMMA NewerFrom ==
    ASSUME NEW old \in Seq(Entry), Len(old) <= MaxLog, NEW m \in AppendRequest, IsPiece(m),
           Fits(m), Sorted(Whole(old)), NEW i \in Position, NEW t \in Int,
           Newer(Whole(old), i, t) => InLog(old, i, t),
           Newer(m, i, t) => Carries(m, i, t),
           Newer(Whole(NewLog(old, m)), i, t)
    PROVE  InLog(NewLog(old, m), i, t)
<1> USE RaftAssumption
<1> DEFINE k == Before(m)
           new == NewLog(old, m)
           ok == Consistent(old, m.prevLogIndex, m.prevLogTerm)
           l == Len(m.entries)
<1>0. /\ Len(old) \in Nat /\ l \in Nat /\ i \in Int /\ i >= 1 /\ End(m) = k + l
      /\ new \in Seq(Entry) /\ Len(new) <= MaxLog
  BY NewLogType DEF Position, AppendRequest, End
<1>1. /\ k \in Nat
      /\ ok => k <= Len(old) /\ (k >= 1 => old[k].term = m.prevLogTerm)
      /\ \/ new = old
         \/ k <= Len(old) /\ Len(new) = k - 1 /\ \A q \in 1..(k - 1) : new[q] = old[q]
         \/ /\ ok /\ Len(new) = k + l
            /\ \A q \in 1..k : new[q] = old[q]
            /\ \A q \in (k + 1)..(k + l) : new[q] = At(m, q)
  BY NewLogForms
<1> HIDE DEF k, new, ok, l
<1>2. PICK j \in Position : j <= Len(new) /\ (new[j].term > t \/ (new[j].term = t /\ j >= i))
  BY <1>0, WholeLog DEF Newer, new
<1>3. j \in Int /\ j >= 1 /\ new[j].term \in Int
  BY <1>0, <1>2, EntryAt DEF Position
\* The old log is newer by an entry that the new log kept: the new log reaches i.
<1>4. ASSUME new[j] = old[j], j <= Len(old)
      PROVE  InLog(old, i, t) /\ i <= j
  <2>1. Has(Whole(old), j) /\ At(Whole(old), j) = old[j]
    BY <1>4, WholeLog
  <2>2. InLog(old, i, t)
    BY <1>2, <1>4, <2>1 DEF Newer
  <2>3. CASE j < i
    <3>1. i <= Len(old) /\ old[i].term = t
      BY <2>2 DEF InLog
    <3>2. old[j].term <= old[i].term
      BY <1>3, <1>0, <2>3, <3>1, SortedLog
    <3> QED
      BY <1>2, <1>3, <1>4, <2>3, <3>1, <3>2
  <2> QED
    BY <1>0, <1>3, <2>2, <2>3
<1>5. CASE new = old
  BY <1>2, <1>4, <1>5 DEF new
<1>6. CASE k <= Len(old) /\ Len(new) = k - 1 /\ \A q \in 1..(k - 1) : new[q] = old[q]
  <2>1. j \in 1..(k - 1) /\ j <= Len(old)
    BY <1>0, <1>1, <1>2, <1>3, <1>6
  <2>2. InLog(old, i, t) /\ i <= j
    BY <1>4, <1>6, <2>1
  <2>3. i \in 1..(k - 1) /\ i <= Len(new)
    BY <1>0, <1>1, <1>6, <2>1, <2>2
  <2> QED
    BY <1>6, <2>2, <2>3 DEF InLog, new
<1>7. CASE /\ ok /\ Len(new) = k + l
           /\ \A q \in 1..k : new[q] = old[q]
           /\ \A q \in (k + 1)..(k + l) : new[q] = At(m, q)
  <2>1. CASE j <= k
    <3>1. j \in 1..k /\ j <= Len(old)
      BY <1>0, <1>1, <1>3, <1>7, <2>1
    <3>2. InLog(old, i, t) /\ i <= j
      BY <1>4, <1>7, <3>1
    <3>3. i \in 1..k /\ i <= Len(new)
      BY <1>0, <1>1, <1>7, <2>1, <3>1, <3>2
    <3> QED
      BY <1>7, <3>2, <3>3 DEF InLog, new
  <2>2. CASE j > k
    <3>1. j \in (k + 1)..(k + l)
      BY <1>0, <1>1, <1>2, <1>3, <1>7, <2>2
    <3>2. Has(m, j) /\ new[j] = At(m, j)
      <4>1. Has(m, j)
        BY <1>0, <1>1, <3>1 DEF Has, k, l
      <4> QED
        BY <1>7, <3>1, <4>1
    <3>3. Carries(m, i, t)
      BY <1>2, <3>2 DEF Newer
    <3>4. k > i => InLog(old, i, t)
      <4> SUFFICES ASSUME k > i
                   PROVE  InLog(old, i, t)
        OBVIOUS
      <4>1. k \in Position /\ k <= Len(old) /\ old[k].term = m.prevLogTerm
        BY <1>0, <1>1, <1>7, <3>1, <1>2 DEF Position
      <4>2. m.prevLogTerm >= t
        BY <3>3 DEF Carries, k
      <4>3. Has(Whole(old), k) /\ At(Whole(old), k) = old[k] /\ old[k].term \in Int
        BY <4>1, WholeLog, EntryAt
      <4>4. Newer(Whole(old), i, t)
        BY <1>0, <1>1, <4>1, <4>2, <4>3 DEF Newer
      <4> QED
        BY <4>4
    <3>5. i <= End(m)
      <4>1. CASE k > i
        BY <1>0, <1>1, <4>1
      <4>2. CASE ~ k > i
        BY <1>0, <3>3, <4>2 DEF Carries, Knows, k, l
      <4> QED
        BY <4>1, <4>2
    <3> QED
      BY <1>7, <3>3, <3>4, <3>5, TakesEntry DEF k, ok, new
  <2> QED
    BY <1>1, <1>3, <2>1, <2>2
<1> QED
  BY <1>1, <1>5, <1>6, <1>7

\* Logs that have the same entry i are the same up to there.
LEMMA SameUpTo ==
    ASSUME NEW s \in Seq(Entry), Len(s) <= MaxLog, NEW r \in Seq(Entry), Len(r) <= MaxLog,
           Agree(Whole(s), Whole(r)), NEW i \in Position, NEW t, InLog(s, i, t),
           InLog(r, i, t), NEW j \in 1..i
    PROVE  j \in Position /\ j <= Len(s) /\ j <= Len(r) /\ s[j] = r[j]
<1>1. j \in Position /\ j <= Len(s) /\ j <= Len(r)
  BY RaftAssumption DEF Position, InLog
<1>2. /\ Has(Whole(s), i) /\ At(Whole(s), i) = s[i] /\ Has(Whole(r), i) /\ At(Whole(r), i) = r[i]
      /\ Has(Whole(s), j) /\ At(Whole(s), j) = s[j] /\ Has(Whole(r), j) /\ At(Whole(r), j) = r[j]
  BY <1>1, WholeLog DEF InLog
<1>3. SameAt(Whole(s), Whole(r), j)
  BY <1>2 DEF Agree, InLog
<1> QED
  BY <1>1, <1>2, <1>3 DEF SameAt

\* A log that keeps an entry keeps all before it.
LEMMA PrefixStays ==
    ASSUME BaseInv, Next, NEW p \in Node, NEW i \in Position, NEW t,
           InLog(log[p], i, t), InLog(log'[p], i, t), NEW j \in 1..i
    PROVE  j <= Len(log[p]) /\ j <= Len(log'[p]) /\ log'[p][j] = log[p][j]
<1> USE RaftAssumption
<1>0. TypeInv /\ log[p] \in Seq(Entry) /\ Len(log[p]) <= MaxLog
  BY DEF BaseInv, TypeInv, LogInv, LogTypeOK
<1>1. j \in Position /\ j <= Len(log[p]) /\ j <= Len(log'[p])
  BY DEF InLog, Position
<1>2. CASE log'[p] = log[p]
  BY <1>1, <1>2
<1>3. ASSUME NEW d \in Data, log'[p] = Append(log[p], [term |-> currentTerm[p], data |-> d])
      PROVE  log'[p][j] = log[p][j]
  <2> DEFINE r == Append(log[p], [term |-> currentTerm[p], data |-> d])
  <2>1. r[j] = log[p][j]
    BY <1>0, <1>1, AppendKeeps
  <2>2. log'[p] = r
    BY <1>3
  <2> QED
    BY <2>1, <2>2
<1>4. ASSUME NEW th \in Thread, HandleAppendEntries(th), rpc[th].peer = p,
             log'[p] = NewLog(log[p], rpc[th])
      PROVE  log'[p][j] = log[p][j]
  <2> DEFINE m == rpc[th]
             new == NewLog(log[p], m)
  <2>1. /\ m \in AppendRequest /\ IsPiece(m) /\ m \in Pieces /\ Fits(m)
        /\ new \in Seq(Entry) /\ Len(new) <= MaxLog
    BY <1>0, <1>4, HandledRequest
  <2>2. PartOf(Whole(new), Whole(log[p])) \/ Glued(Whole(new), Whole(log[p]), m)
    BY <1>0, <2>1, NewLogPiece
  <2> HIDE DEF new, m
  <2>3. IsPiece(Whole(new)) /\ IsPiece(Whole(log[p])) /\ Agree(Whole(log[p]), Whole(log[p]))
    BY <1>0, <2>1, WholeLog, AgreeSelf
  <2>4. Agree(m, Whole(log[p]))
    BY <2>1 DEF BaseInv, PieceInv, PiecesAgree, Pieces
  <2>5. Agree(Whole(new), Whole(log[p]))
    BY <2>1, <2>2, <2>3, <2>4, PartAgrees, GlueAgrees
  <2>6. InLog(new, i, t) /\ log'[p] = new
    BY <1>4 DEF new, m
  <2>7. new[j] = log[p][j]
    BY <1>0, <2>1, <2>5, <2>6, SameUpTo
  <2> QED
    BY <2>6, <2>7
<1> QED
  BY <1>0, <1>1, <1>2, <1>3, <1>4, LogChanges

\* A leader sends on what it has.
LEMMA SendCarries ==
    ASSUME CommonInv, CommonInv', NEW n \in Node, NEW p \in Node, NEW th \in Thread,
           SendAppend(n, p, th), NEW i \in Position, NEW t, InLog(log[n], i, t)
    PROVE  Carries(rpc'[th], i, t) /\ i <= End(rpc'[th])
<1> DEFINE m == rpc'[th]
           s == log[n]
<1>0. /\ TypeInv /\ TypeInv' /\ IndexFits /\ s \in Seq(Entry) /\ Len(s) <= MaxLog
      /\ Len(s) \in Nat
  BY DEF CommonInv, BaseInv, RequestInv, TypeInv, LogInv, LogTypeOK
<1>1. IsPiece(m) /\ PartOf(m, Whole(s))
  BY <1>0, SentRequest
<1>2. End(m) = Len(s) /\ (End(m) >= 1 => TermAt(m, End(m)) = s[End(m)].term)
  BY <1>0, SentEnd
<1>3. Sorted(Whole(s)) /\ Agree(m, Whole(s))
  BY <1>1, AgreeSelf, PartAgrees DEF CommonInv, SortedInv, PiecesSorted, Pieces
<1> HIDE DEF m, s
<1>4. i <= End(m) /\ s[i].term = t
  BY <1>2 DEF InLog, s
<1>5. Carries(m, i, s[i].term)
  BY <1>0, <1>1, <1>2, <1>3, <1>4, TrueCarries
<1> QED
  BY <1>4, <1>5 DEF m

\* Whoever leads the term of an entry has it.
LEMMA LeaderHas ==
    ASSUME CommonInv, NEW n \in Node, state[n] = "LEADER", NEW p \in Node, NEW i \in Position,
           NEW t, t = currentTerm[n], InLog(log[p], i, t)
    PROVE  InLog(log[n], i, t)
<1>1. log[p] \in Seq(Entry) /\ Len(log[p]) <= MaxLog /\ Whole(log[p]) \in Pieces
  BY DEF CommonInv, BaseInv, TypeInv, LogInv, LogTypeOK, Pieces
<1>2. Has(Whole(log[p]), i) /\ At(Whole(log[p]), i).term = currentTerm[n]
  BY <1>1, WholeLog DEF InLog
<1> QED
  BY <1>1, <1>2 DEF CommonInv, BaseInv, PieceInv, LeaderHoldsTerm, InLog

\* A candidate whose log is not behind a log that has the entry is as new.
LEMMA GrantNewer ==
    ASSUME NEW s \in Seq(Entry), Len(s) <= MaxLog, NEW r \in Seq(Entry), Len(r) <= MaxLog,
           Sorted(Whole(s)), NEW i \in Position, NEW t \in Term, InLog(s, i, t),
           \/ LastTermOf(r) > LastTermOf(s)
           \/ LastTermOf(r) = LastTermOf(s) /\ Len(r) >= Len(s)
    PROVE  Newer(Whole(r), i, t)
<1> USE RaftAssumption
<1> DEFINE k == Len(s)
           l == Len(r)
<1>0. k \in Nat /\ l \in Nat /\ i \in Int /\ i >= 1 /\ i <= k /\ s[i].term = t /\ t \in Int /\ t >= 1
  BY DEF Position, InLog, Term
<1>1. k \in Position /\ s # << >>
  BY <1>0, EmptySeq DEF Position
<1>2. LastTermOf(s) = s[k].term
  BY <1>1 DEF LastTermOf
<1>3. s[i].term <= s[k].term /\ s[k].term \in Int
  BY <1>0, <1>1, SortedLog, EntryAt
<1>4. r # << >> /\ l >= 1
  <2>1. CASE r = << >>
    BY <1>0, <1>2, <1>3, <2>1 DEF LastTermOf
  <2>2. CASE r # << >>
    BY <1>0, <2>2, EmptySeq
  <2> QED
    BY <2>1, <2>2
<1>5. l \in Position /\ LastTermOf(r) = r[l].term
  BY <1>0, <1>4 DEF LastTermOf, Position
<1>6. Has(Whole(r), l) /\ At(Whole(r), l) = r[l] /\ r[l].term \in Int
  BY <1>0, <1>5, WholeLog, EntryAt
<1> HIDE DEF k, l
<1>7. r[l].term > t \/ (r[l].term = t /\ l >= i)
  BY <1>0, <1>2, <1>3, <1>5, <1>6 DEF k, l
<1> QED
  BY <1>5, <1>6, <1>7 DEF Newer

\* Who follows an entry goes on following it.
LEMMA FollowsStep ==
    ASSUME CommonInv, CommonInv', Next, NEW p \in Node, NEW i \in Position, NEW t \in Term,
           RequestsCarry(i, t), Follows(p, i, t)
    PROVE  Follows(p, i, t)'
<1> USE RaftAssumption
<1>0. /\ BaseInv /\ BaseInv' /\ TypeInv /\ TypeInv' /\ ElectionInv /\ t \in Int /\ NodeTypeOK
      /\ \A k \in Node : currentTerm[k] \in Nat
  BY DEF CommonInv, BaseInv, TypeInv, NodeTypeOK, Term
<1>1. /\ currentTerm[p] \in Nat /\ currentTerm'[p] \in Nat /\ currentTerm[p] <= currentTerm'[p]
      /\ InLog(log[p], i, t) /\ currentTerm[p] >= t
  BY <1>0, TermsGrow DEF Follows
<1>2. ASSUME NEW th \in Thread, HandleAppendEntries(th), rpc[th].peer = p
      PROVE  Carries(rpc[th], i, t)
  <2> DEFINE m == rpc[th]
  <2>1. m \in Requests /\ m.term >= currentTerm[p] /\ m.term \in Int
    BY <1>0, <1>2, HandledRequest DEF AppendRequest, Term
  <2>2. CASE m.term > t
    BY <2>1, <2>2 DEF RequestsCarry
  <2>3. CASE m.term = t
    <3>1. currentTerm[p] = t
      BY <1>0, <1>1, <2>1, <2>3
    <3>2. i <= End(m)
      BY <1>2, <2>1, <2>3, <3>1 DEF Follows
    <3> QED
      BY <2>1, <2>3, <3>2 DEF RequestsCarry
  <2> QED
    BY <1>0, <1>1, <2>1, <2>2, <2>3
<1>3. InLog(log'[p], i, t)
  BY <1>0, <1>1, <1>2, EntryStays
<1>4. ASSUME NEW m \in Requests', m.peer = p, m.term = t, currentTerm'[p] = t
      PROVE  i <= End(m)
  <2>1. currentTerm[p] = t
    BY <1>0, <1>1, <1>4
  <2>2. CASE m \in Requests
    BY <1>4, <2>1, <2>2 DEF Follows
  <2>3. CASE m \notin Requests
    <3>1. PICK n \in Node, q \in Node, th \in Thread : SendAppend(n, q, th) /\ m = rpc'[th]
      BY <1>0, <2>3, NewRequest
    <3>2. state[n] = "LEADER" /\ m.term = currentTerm[n]
      BY <1>0, <3>1, SentRequest
    <3>3. InLog(log[n], i, t)
      BY <1>1, <1>4, <3>2, LeaderHas
    <3> QED
      BY <3>1, <3>3, SendCarries
  <2> QED
    BY <2>2, <2>3
<1> QED
  BY <1>0, <1>1, <1>3, <1>4 DEF Follows, InLog, End, Before

\* No new piece is newer without the entry.
LEMMA NewerStep ==
    ASSUME CommonInv, CommonInv', Next, NEW p \in Node, NEW i \in Position, NEW t \in Term,
           NewerCarry(i, t), LeadersHave(i, t), InLog(log[p], i, t)
    PROVE  \A a \in Pieces' : Newer(a, i, t) => Carries(a, i, t)
<1> USE RaftAssumption
<1>0. /\ BaseInv /\ TypeInv /\ TypeInv' /\ t \in Int
      /\ \A k \in Node : log[k] \in Seq(Entry) /\ Len(log[k]) <= MaxLog
      /\ log \in [Node -> Seq(Entry)]
      /\ \A k \in Node : currentTerm[k] \in Nat
  <2>1. BaseInv /\ TypeInv /\ TypeInv'
    BY DEF CommonInv, BaseInv
  <2>2. t \in Int
    BY DEF Term
  <2>3. LogTypeOK /\ NodeTypeOK
    BY <2>1 DEF TypeInv, LogInv
  <2>4. /\ \A k \in Node : log[k] \in Seq(Entry) /\ Len(log[k]) <= MaxLog
        /\ log \in [Node -> Seq(Entry)]
    BY <2>3 DEF LogTypeOK
  <2>5. \A k \in Node : currentTerm[k] \in Nat
    BY <2>3 DEF NodeTypeOK
  <2> QED
    BY <2>1, <2>2, <2>4, <2>5, Zenon
<1>1. ASSUME NEW k \in Node, Newer(Whole(log[k]), i, t)
      PROVE  InLog(log[k], i, t)
  BY <1>0, <1>1, WholeHas DEF NewerCarry, Pieces
<1>2. CASE NoNewPiece
  <2>1. Pieces' \subseteq Pieces
    BY <1>2 DEF NoNewPiece, Pieces, Requests
  <2> QED
    BY <2>1 DEF NewerCarry
<1>3. ASSUME NEW n \in Node, NEW d \in Data, Propose(n, d)
      PROVE  \A a \in Pieces' : Newer(a, i, t) => Carries(a, i, t)
  <2> DEFINE e == [term |-> currentTerm[n], data |-> d]
             g == Append(log[n], e)
             l == Len(log[n])
  <2>1. /\ log' = [log EXCEPT ![n] = g] /\ rpc' = rpc /\ l < MaxLog /\ state[n] = "LEADER"
    BY <1>3 DEF Propose
  <2>2. e \in Entry /\ e.term = currentTerm[n]
    BY <1>0, <2>1, LeaderHasTerm DEF TypeInv, Entry
  <2>3. Pieces' \subseteq Pieces \cup {Whole(g)}
    BY <1>0, <2>1 DEF Requests, Pieces
  <2> HIDE DEF e
  <2>4. /\ g \in Seq(Entry) /\ Len(g) = l + 1 /\ l \in Nat /\ g[l + 1] = e
        /\ \A j \in 1..l : g[j] = log[n][j]
    BY <1>0, <2>2, AppendProperties
  <2> HIDE DEF g, l
  <2>5. Len(g) <= MaxLog
    BY <2>1, <2>4
  <2>6. ASSUME Newer(Whole(g), i, t)
        PROVE  InLog(g, i, t)
    <3>0. i \in Int /\ i >= 1
      BY DEF Position
    <3>1. PICK j \in Position : j <= Len(g) /\ (g[j].term > t \/ (g[j].term = t /\ j >= i))
      BY <2>4, <2>5, <2>6, WholeLog DEF Newer
    <3>2. j \in Int /\ j >= 1
      BY DEF Position
    <3>3. CASE j <= l
      <4>1. g[j] = log[n][j] /\ Has(Whole(log[n]), j) /\ At(Whole(log[n]), j) = log[n][j]
        <5>1. j \in 1..l
          BY <2>4, <3>2, <3>3
        <5> QED
          BY <1>0, <2>4, <3>3, <5>1, WholeLog DEF l
      <4>2. InLog(log[n], i, t)
        BY <1>1, <3>1, <4>1 DEF Newer
      <4>3. i \in 1..l /\ i <= Len(g)
        BY <2>4, <3>0, <4>2 DEF InLog, l
      <4> QED
        BY <2>4, <4>2, <4>3 DEF InLog
    <3>4. CASE j = l + 1
      <4>1. currentTerm[n] > t \/ (currentTerm[n] = t /\ i <= l + 1)
        BY <2>2, <2>4, <3>1, <3>4
      <4>2. InLog(log[n], i, t)
        BY <2>1, <4>1, LeaderHas DEF LeadersHave
      <4>3. i \in 1..l /\ i <= Len(g)
        BY <2>4, <3>0, <4>2 DEF InLog, l
      <4> QED
        BY <2>4, <4>2, <4>3 DEF InLog
    <3> QED
      BY <2>4, <3>1, <3>2, <3>3, <3>4
  <2>7. Newer(Whole(g), i, t) => Carries(Whole(g), i, t)
    BY <1>0, <2>4, <2>5, <2>6, WholeHas
  <2> QED
    BY <2>3, <2>7 DEF NewerCarry
<1>4. ASSUME NEW n \in Node, NEW q \in Node, NEW th \in Thread, SendAppend(n, q, th)
      PROVE  \A a \in Pieces' : Newer(a, i, t) => Carries(a, i, t)
  <2> DEFINE m == rpc'[th]
  <2>1. Pieces' \subseteq Pieces \cup {m} /\ IsPiece(m) /\ PartOf(m, Whole(log[n]))
    BY <1>0, <1>4, SentRequest
  <2>2. ASSUME Newer(m, i, t)
        PROVE  Carries(m, i, t)
    <3>1. PICK j \in Position : Has(m, j) /\ (At(m, j).term > t \/ (At(m, j).term = t /\ j >= i))
      BY <2>2 DEF Newer
    <3>2. j \in 1..j
      BY DEF Position
    <3>3. Has(Whole(log[n]), j) /\ At(m, j) = At(Whole(log[n]), j)
      BY <2>1, <3>1, <3>2 DEF PartOf
    <3>4. InLog(log[n], i, t)
      BY <1>1, <3>1, <3>3 DEF Newer
    <3> QED
      BY <1>4, <3>4, SendCarries
  <2> QED
    BY <2>1, <2>2 DEF NewerCarry
<1>5. ASSUME NEW th \in Thread, HandleAppendEntries(th)
      PROVE  \A a \in Pieces' : Newer(a, i, t) => Carries(a, i, t)
  <2> DEFINE m == rpc[th]
             old == log[m.peer]
             new == NewLog(old, m)
  <2>1. /\ m \in AppendRequest /\ Fits(m) /\ m \in Pieces /\ IsPiece(m) /\ m.peer \in Node
        /\ new \in Seq(Entry) /\ Len(new) <= MaxLog
        /\ Pieces' \subseteq Pieces \cup {Whole(new)}
    BY <1>0, <1>5, HandledRequest
  <2>2. old \in Seq(Entry) /\ Len(old) <= MaxLog /\ Sorted(Whole(old))
    BY <1>0, <2>1 DEF CommonInv, SortedInv, PiecesSorted, Pieces
  <2>3. /\ Newer(Whole(old), i, t) => InLog(old, i, t)
        /\ Newer(m, i, t) => Carries(m, i, t)
    BY <1>1, <2>1 DEF NewerCarry
  <2> HIDE DEF m, old
  <2>4. Newer(Whole(new), i, t) => InLog(new, i, t)
    BY <1>0, <2>1, <2>2, <2>3, NewerFrom
  <2> HIDE DEF new
  <2> QED
    BY <1>0, <2>1, <2>4, WholeHas DEF NewerCarry
<1> QED
  BY <1>0, <1>2, <1>3, <1>4, <1>5, PieceSteps

\* No new request of a later term, or that reaches the entry, is sent without it.
LEMMA RequestsStep ==
    ASSUME CommonInv, CommonInv', Next, NEW p \in Node, NEW i \in Position, NEW t \in Term,
           RequestsCarry(i, t), LeadersHave(i, t), InLog(log[p], i, t), NEW m \in Requests',
           m.term > t \/ (m.term = t /\ i <= End(m))
    PROVE  Carries(m, i, t)
<1>0. TypeInv /\ TypeInv'
  BY DEF CommonInv, BaseInv
<1>1. CASE m \in Requests
  BY <1>1 DEF RequestsCarry
<1>2. CASE m \notin Requests
  <2>1. PICK n \in Node, q \in Node, th \in Thread : SendAppend(n, q, th) /\ m = rpc'[th]
    BY <1>0, <1>2, NewRequest
  <2>2. state[n] = "LEADER" /\ m.term = currentTerm[n]
    BY <1>0, <2>1, SentRequest
  <2>3. InLog(log[n], i, t)
    <3>1. CASE m.term > t
      BY <2>2, <3>1 DEF LeadersHave
    <3>2. CASE m.term = t
      BY <2>2, <3>2, LeaderHas
    <3> QED
      BY <3>1, <3>2
  <2> QED
    BY <2>1, <2>3, SendCarries
<1> QED
  BY <1>1, <1>2

\* Nobody wins a later term without the vote of one of Q, and so without the entry.
LEMMA LeadersStep ==
    ASSUME CommonInv, CommonInv', Next, NEW i \in Position, NEW t \in Term,
           NEW Q \in SUBSET Node, NewerCarry(i, t), LeadersHave(i, t), VotedHave(i, t, Q),
           \A d \in Node, u \in Term :
              WinElection(d, u) /\ u > t => \E p \in Q : Granted(p, d, u),
           NEW c \in Node, state'[c] = "LEADER", currentTerm'[c] > t
    PROVE  InLog(log'[c], i, t)
<1> USE RaftAssumption
<1>0. /\ TypeInv /\ log[c] \in Seq(Entry) /\ Len(log[c]) <= MaxLog /\ t \in Int /\ t >= 1
      /\ currentTerm[c] \in 0..MaxTerm
  BY DEF CommonInv, BaseInv, TypeInv, LogInv, LogTypeOK, NodeTypeOK, Term
<1>1. /\ currentTerm'[c] = currentTerm[c]
      /\ state[c] = "LEADER" \/ WinElection(c, currentTerm[c])
  BY <1>0, LeadersStay
<1>2. currentTerm[c] > t /\ currentTerm[c] \in Term
  BY <1>0, <1>1 DEF Term
<1>3. InLog(log[c], i, t)
  <2>1. CASE state[c] = "LEADER"
    BY <1>2, <2>1 DEF LeadersHave
  <2>2. CASE WinElection(c, currentTerm[c])
    <3>1. state[c] = "CANDIDATE"
      BY <2>2 DEF WinElection, ElectionWon
    <3>2. Newer(Whole(log[c]), i, t)
      BY <1>2, <2>2, <3>1 DEF VotedHave
    <3>3. Carries(Whole(log[c]), i, t)
      BY <3>2 DEF NewerCarry, Pieces
    <3> QED
      BY <1>0, <3>3, WholeHas
  <2> QED
    BY <1>1, <2>1, <2>2
<1> QED
  BY <1>0, <1>3, LeaderKeepsLog DEF InLog

\* Whoever of Q votes for a candidate of a later term compares the logs first.
LEMMA VotedStep ==
    ASSUME CommonInv, CommonInv', CandidateAsks, Next, NEW i \in Position, NEW t \in Term,
           NEW Q \in SUBSET Node, VotedHave(i, t, Q), \A q \in Q : InLog(log[q], i, t),
           NEW c \in Node, state'[c] = "CANDIDATE", NEW u \in Term, u = currentTerm'[c], u > t,
           NEW p \in Q, Granted(p, c, u)'
    PROVE  Newer(Whole(log'[c]), i, t)
<1> USE RaftAssumption
<1>0. /\ TypeInv /\ ElectionInv /\ SortedInv /\ t \in Int /\ p \in Node
      /\ \A k \in Node : log[k] \in Seq(Entry) /\ Len(log[k]) <= MaxLog
      /\ NodeTypeOK /\ ElectionTypeOK
  BY DEF CommonInv, BaseInv, TypeInv, LogInv, LogTypeOK, Term
<1>1. /\ log'[c] = log[c]
      /\ \/ state[c] = "CANDIDATE" /\ currentTerm'[c] = currentTerm[c]
         \/ ElectionTimeout(c)
  BY <1>0, CandidatesStay
<1>2. CASE ElectionTimeout(c)
  <2>1. u = currentTerm[c] + 1 /\ currentTerm[c] \in Int
    BY <1>0, <1>2 DEF ElectionTimeout, NodeTypeOK
  <2>2. votes'[c][u] = {c} /\ voteReplies' = voteReplies
    BY <1>0, <1>2, <2>1 DEF ElectionTimeout, ElectionTypeOK
  <2>3. ASSUME NEW r \in voteReplies, r.candidate = c, r.term = u
        PROVE  FALSE
    <3>1. election[c][u].asked = r.peer /\ r.peer \in Node
      BY <1>0, <2>3 DEF ElectionInv, AnswersAwaited, ElectionTypeOK, VoteReply
    <3>2. u <= currentTerm[c]
      BY <1>0, <3>1 DEF ElectionInv, ThreadsOfTerm
    <3> QED
      BY <2>1, <3>2
  <2>4. p = c
    BY <2>2, <2>3 DEF Granted
  <2> QED
    BY <1>0, <1>1, <2>4, WholeHas
<1>3. CASE state[c] = "CANDIDATE" /\ currentTerm'[c] = currentTerm[c]
  <2>1. CASE Granted(p, c, u)
    BY <1>1, <1>3, <2>1 DEF VotedHave
  <2>2. CASE ~ Granted(p, c, u)
    <3>0. currentTerm[c] \in Int
      BY <1>0 DEF NodeTypeOK
    <3>1. PICK m \in voteRequests : /\ Grants(m) /\ m.candidate = c /\ m.term = u /\ m.peer = p
      BY <1>0, <1>3, <2>2, <3>0, NewGrants
    <3>2. m.lastLogIndex = Len(log[c]) - 1 /\ m.lastLogTerm = LastTermOf(log[c])
      BY <1>3, <3>1 DEF CandidateAsks, AsksFrom, LastLogIndex, LastLogTerm
    <3>3. \/ m.lastLogTerm > LastTermOf(log[p])
          \/ m.lastLogTerm = LastTermOf(log[p]) /\ m.lastLogIndex >= Len(log[p]) - 1
      BY <3>1 DEF Grants, LastLogIndex, LastLogTerm
    <3>4. Len(log[c]) \in Nat /\ Len(log[p]) \in Nat
      BY <1>0
    <3>5. \/ LastTermOf(log[c]) > LastTermOf(log[p])
          \/ LastTermOf(log[c]) = LastTermOf(log[p]) /\ Len(log[c]) >= Len(log[p])
      BY <3>2, <3>3, <3>4
    <3>6. Sorted(Whole(log[p]))
      BY <1>0 DEF SortedInv, PiecesSorted, Pieces
    <3> QED
      BY <1>0, <1>1, <3>5, <3>6, GrantNewer
  <2> QED
    BY <2>1, <2>2
<1> QED
  BY <1>1, <1>2, <1>3

\* A secured entry stays secured, as long as nobody wins a later term without Q.
LEMMA SecuredStep ==
    ASSUME CommonInv, CommonInv', CandidateAsks, Next, NEW i \in Position, NEW t \in Term,
           NEW Q \in SUBSET Node, Q # {}, Secured(i, t, Q),
           \A d \in Node, u \in Term :
              WinElection(d, u) /\ u > t => \E p \in Q : Granted(p, d, u)
    PROVE  Secured(i, t, Q)'
<1>0. /\ NewerCarry(i, t) /\ RequestsCarry(i, t) /\ LeadersHave(i, t) /\ VotedHave(i, t, Q)
      /\ \A p \in Q : p \in Node /\ Follows(p, i, t) /\ InLog(log[p], i, t)
  BY DEF Secured, Follows
<1>1. PICK w \in Q : TRUE
  OBVIOUS
<1>2. NewerCarry(i, t)'
  <2>1. \A a \in Pieces' : Newer(a, i, t) => Carries(a, i, t)
    BY <1>0, <1>1, NewerStep
  <2> QED
    BY <2>1 DEF NewerCarry, Newer, Carries, Has, Knows, TermAt, At, Before, Position
<1>3. RequestsCarry(i, t)'
  <2>1. \A m \in Requests' : m.term > t \/ (m.term = t /\ i <= End(m)) => Carries(m, i, t)
    BY <1>0, <1>1, RequestsStep
  <2> QED
    BY <2>1 DEF RequestsCarry, Carries, Knows, TermAt, At, Before, End
<1>4. LeadersHave(i, t)'
  <2>1. \A c \in Node : state'[c] = "LEADER" /\ currentTerm'[c] > t => InLog(log'[c], i, t)
    BY <1>0, LeadersStep
  <2> QED
    BY <2>1 DEF LeadersHave, InLog
<1>5. VotedHave(i, t, Q)'
  <2>1. ASSUME NEW c \in Node, state'[c] = "CANDIDATE", currentTerm'[c] > t, NEW p \in Q,
               Granted(p, c, currentTerm[c])'
        PROVE  Newer(Whole(log'[c]), i, t)
    <3>1. currentTerm'[c] \in Term
      BY <2>1, RaftAssumption DEF CommonInv, BaseInv, TypeInv, NodeTypeOK, Term
    <3>2. PICK u \in Term : u = currentTerm'[c]
      BY <3>1
    <3>3. u > t /\ Granted(p, c, u)'
      BY <2>1, <3>2 DEF Granted
    <3> QED
      BY <1>0, <2>1, <3>2, <3>3, VotedStep
  <2> QED
    BY <2>1 DEF VotedHave, Newer, Whole, Has, At, Before, Position
<1>6. \A p \in Q : Follows(p, i, t)'
  BY <1>0, FollowsStep
<1> QED
  BY <1>2, <1>3, <1>4, <1>5, <1>6 DEF Secured

-----------------------------------------------------------------------------
(***************************************************************************)
(* A leader's entry of its own term is secured by those who acknowledged   *)
(* it, unless a majority without them has gone on to later terms: then it  *)
(* will not be committed by this leader.                                   *)
(***************************************************************************)
Acks(n, i) == {n} \cup {p \in Peers(n) : Acked(n, p, i)}

Skipped(n, i) ==
    \E V \in SUBSET Node :
        /\ IsMajority(V)
        /\ \A p \in V : currentTerm[p] > currentTerm[n] /\ p \notin Acks(n, i)

Promises ==
    \A n \in Node, i \in Position, t \in Term, Q \in SUBSET Node :
        state[n] = "LEADER" /\ currentTerm[n] = t /\ InLog(log[n], i, t) /\ Q = Acks(n, i)
            => Skipped(n, i) \/ Secured(i, t, Q)

\* Who acknowledges an entry in a step is in the leader's term after it.
LEMMA NewAcks ==
    ASSUME CommonInv, CommonInv', Next, NEW n \in Node, state'[n] = "LEADER",
           NEW i \in Position, NEW p \in Node, p \in Acks(n, i)', p \notin Acks(n, i)
    PROVE  /\ state[n] = "LEADER" /\ currentTerm'[n] = currentTerm[n]
           /\ currentTerm[p] <= currentTerm[n] /\ currentTerm'[p] = currentTerm[n]
           /\ p \in Peers(n) /\ Acked(n, p, i)' /\ Requests' \subseteq Requests
<1>0. BaseInv /\ BaseInv' /\ TypeInv
  BY DEF CommonInv, BaseInv
<1>1. p \in Peers(n) /\ Acked(n, p, i)' /\ ~ Acked(n, p, i)
  BY DEF Acks, Peers
<1>2. /\ state[n] = "LEADER" /\ currentTerm'[n] = currentTerm[n]
      /\ \E th \in Thread :
            /\ HandleAppendEntries(th) /\ rpc[th].peer = p /\ rpc[th].term = currentTerm[n]
  BY <1>0, <1>1, NewAck
<1>3. PICK th \in Thread : /\ HandleAppendEntries(th) /\ rpc[th].peer = p
                           /\ rpc[th].term = currentTerm[n]
  BY <1>2
<1>4. /\ currentTerm[p] <= currentTerm[n] /\ currentTerm'[p] = currentTerm[n]
      /\ Requests' \subseteq Requests
  <2>1. /\ rpc[th].term >= currentTerm[p] /\ Requests' \subseteq Requests
        /\ currentTerm' = [currentTerm EXCEPT ![p] = rpc[th].term]
    BY <1>0, <1>3, HandledRequest
  <2>2. currentTerm \in [Node -> Nat] /\ rpc[th].term \in Nat
    BY <1>0, <1>3, RaftAssumption DEF TypeInv, NodeTypeOK
  <2> QED
    BY <1>3, <2>1, <2>2
<1> QED
  BY <1>1, <1>2, <1>4

\* A request of the leader's term to someone who acknowledged the entry reaches it.
LEMMA AckerFollows ==
    ASSUME CommonInv, CommonInv', AckTrue', NoOvertaking', Next,
           NEW n \in Node, NEW i \in Position, NEW t \in Term, NEW p \in Node,
           state'[n] = "LEADER", currentTerm'[n] = t, InLog(log'[n], i, t),
           p \in Acks(n, i)', p \notin Acks(n, i)
    PROVE  Follows(p, i, t)'
<1>1. /\ state[n] = "LEADER" /\ currentTerm'[n] = currentTerm[n]
      /\ currentTerm[p] <= currentTerm[n] /\ currentTerm'[p] = t
      /\ p \in Peers(n) /\ Acked(n, p, i)' /\ Requests' \subseteq Requests
  BY NewAcks
<1>2. currentTerm'[p] >= t
  <2>1. t \in Int /\ t >= t
    BY RaftAssumption DEF Term
  <2>2. currentTerm'[p] = t
    BY <1>1
  <2> QED
    BY <2>1, <2>2
<1>3. InLog(log'[p], i, t)
  <2>1. InLog(log'[p], i, log'[n][i].term)
    BY <1>1 DEF AckTrue, Peers, Position, Acked, InLog
  <2> QED
    BY <2>1 DEF InLog
<1>4. ASSUME NEW m \in Requests', m.peer = p, m.term = t
      PROVE  i <= End(m)
  <2>1. PICK th \in Thread : rpc[th].phase = "sent" /\ m = rpc[th]
    BY <1>1 DEF Requests
  <2>2. rpc[th] # Idle
    BY <2>1 DEF Idle
  <2>3. m.leader = n
    BY <1>1, <1>4, <2>1, <2>2, LeaderOfTerm DEF CommonInv
  <2>4. Led(m)' /\ Acked(m.leader, m.peer, i)'
    BY <1>1, <1>4, <2>3 DEF Led, Acked
  <2> QED
    BY <1>4, <2>4 DEF NoOvertaking, End, Before, Position
<1> QED
  BY <1>2, <1>3, <1>4 DEF Follows, InLog, End, Before

\* What was promised of an entry is so after a step.
LEMMA PromiseKept ==
    ASSUME CommonInv, CommonInv', CandidateAsks, AckTrue', NoOvertaking', Promises, Next,
           NEW n \in Node, NEW i \in Position, NEW t \in Term, NEW Q \in SUBSET Node,
           state[n] = "LEADER", state'[n] = "LEADER", currentTerm[n] = t, currentTerm'[n] = t,
           InLog(log[n], i, t), InLog(log'[n], i, t), Q = Acks(n, i)'
    PROVE  Skipped(n, i)' \/ Secured(i, t, Q)'
<1>0. /\ TypeInv /\ TypeInv' /\ ElectionInv /\ ElectionInv' /\ t \in Int
      /\ \A p \in Node : currentTerm[p] \in Nat
  BY RaftAssumption DEF CommonInv, BaseInv, TypeInv, NodeTypeOK, Term
<1>1. PICK P \in SUBSET Node : P = Acks(n, i)
  BY DEF Acks, Peers
<1>2. ASSUME NEW p \in Node, currentTerm[p] > t, p \notin P
      PROVE  currentTerm'[p] > t /\ p \notin Q
  <2>1. currentTerm'[p] \in Nat /\ currentTerm[p] <= currentTerm'[p]
    BY <1>0, TermsGrow
  <2>2. p \notin Q
    BY <1>0, <1>1, <1>2, NewAcks
  <2> QED
    BY <1>0, <1>2, <2>1, <2>2
<1>3. ASSUME NEW V \in SUBSET Node, IsMajority(V),
             \A p \in V : currentTerm[p] > t /\ p \notin P
      PROVE  Skipped(n, i)'
  <2>1. \A p \in V : currentTerm'[p] > currentTerm'[n] /\ p \notin Acks(n, i)'
    BY <1>2, <1>3
  <2> QED
    BY <1>3, <2>1 DEF Skipped, IsMajority
<1>4. CASE Skipped(n, i)
  BY <1>1, <1>3, <1>4 DEF Skipped
<1>5. CASE Secured(i, t, P)
  <2>1. ASSUME NEW d \in Node, NEW u \in Term, WinElection(d, u), u > t,
               \A p \in P : ~ Granted(p, d, u)
        PROVE  Skipped(n, i)'
    <3>1. votes[d][u] \in SUBSET Node /\ IsMajority(votes[d][u])
      BY <1>0, <2>1 DEF WinElection, ElectionWon, TypeInv, ElectionTypeOK
    <3>2. ASSUME NEW p \in votes[d][u]
          PROVE  currentTerm[p] > t /\ p \notin P
      <4>1. Granted(p, d, u) /\ p \in Node
        BY <3>1, <3>2 DEF Granted
      <4>2. currentTerm[p] >= u /\ u \in Int
        BY <1>0, <4>1, RaftAssumption DEF ElectionInv, VoteKept, Term
      <4> QED
        BY <1>0, <2>1, <4>1, <4>2
    <3> QED
      BY <1>3, <3>1, <3>2
  <2>2. CASE \A d \in Node, u \in Term :
                WinElection(d, u) /\ u > t => \E p \in P : Granted(p, d, u)
    <3>1. Secured(i, t, P)'
      <4>1. P # {}
        BY <1>1 DEF Acks
      <4> QED
        BY <1>5, <2>2, <4>1, SecuredStep
    <3>2. ASSUME NEW p \in Q, p \notin P
          PROVE  p \in Node /\ Follows(p, i, t)' /\ currentTerm'[p] = t
      BY <1>1, <3>2, AckerFollows, NewAcks
    <3>3. \A p \in Q : Follows(p, i, t)'
      BY <3>1, <3>2 DEF Secured
    <3>4. ASSUME NEW c \in Node, state'[c] = "CANDIDATE", currentTerm'[c] > t, NEW p \in Q,
                 Granted(p, c, currentTerm[c])'
          PROVE  Newer(Whole(log[c]), i, t)'
      <4>1. CASE p \in P
        BY <3>1, <3>4, <4>1 DEF Secured, VotedHave
      <4>2. CASE p \notin P
        <5>1. p \in Node /\ currentTerm'[p] = t
          BY <3>2, <4>2
        <5>2. currentTerm'[c] \in Term /\ currentTerm'[c] \in Int
          BY <1>0, <3>4, RaftAssumption DEF TypeInv, NodeTypeOK, Term
        <5>3. PICK u \in Term : u = currentTerm'[c]
          BY <5>2
        <5>4. Granted(p, c, u)'
          BY <3>4, <5>3 DEF Granted
        <5>5. currentTerm'[p] > u \/ currentTerm'[p] = u
          BY <1>0, <5>1, <5>4 DEF ElectionInv, VoteKept, Granted
        <5> QED
          BY <1>0, <3>4, <5>1, <5>2, <5>3, <5>5
      <4> QED
        BY <4>1, <4>2
    <3> QED
      BY <3>1, <3>3, <3>4 DEF Secured, VotedHave
  <2> QED
    BY <2>1, <2>2
<1> QED
  BY <1>1, <1>4, <1>5 DEF Promises

\* A proposed entry is secured by its leader, unless a later term has begun.
LEMMA NewPromise ==
    ASSUME CommonInv, CommonInv', Next, NEW n \in Node, NEW i \in Position, NEW t \in Term,
           NEW Q \in SUBSET Node, NEW d \in Data, Propose(n, d), currentTerm[n] = t,
           ~ InLog(log[n], i, t), InLog(log'[n], i, t), Q = Acks(n, i)'
    PROVE  Skipped(n, i)' \/ Secured(i, t, Q)'
<1> USE RaftAssumption
<1>0. /\ BaseInv /\ BaseInv' /\ TypeInv /\ TypeInv' /\ ElectionInv /\ ElectionInv' /\ t \in Int
      /\ RequestInv /\ AllPieces' /\ Len(log[n]) \in Nat /\ i \in Int
      /\ log \in [Node -> Seq(Entry)] /\ NodeTypeOK /\ ElectionTypeOK
      /\ \A p \in Node : currentTerm[p] \in Nat
  BY PiecesTypedNext DEF CommonInv, BaseInv, TypeInv, LogInv, LogTypeOK, NodeTypeOK, Term,
     Position
<1>1. /\ state[n] = "LEADER" /\ state' = state /\ currentTerm' = currentTerm /\ rpc' = rpc
      /\ votes' = votes /\ won' = won /\ matchIndex' = matchIndex
      /\ log' = [log EXCEPT ![n] = Append(@, [term |-> currentTerm[n], data |-> d])]
  BY DEF Propose, raftVars, leaderVars, electionVars
<1>2. i = Len(log[n]) + 1 /\ Len(log'[n]) = i
  <2> DEFINE g == Append(log[n], [term |-> currentTerm[n], data |-> d])
  <2>1. /\ Len(g) = Len(log[n]) + 1
        /\ \A j \in Position : j <= Len(log[n]) => g[j] = log[n][j]
    BY <1>0, AppendKeeps
  <2>2. log'[n] = g
    BY <1>0, <1>1
  <2> HIDE DEF g
  <2>3. CASE i <= Len(log[n])
    BY <2>1, <2>2, <2>3 DEF InLog
  <2> QED
    BY <1>0, <2>1, <2>2, <2>3 DEF InLog
<1>3. Q = {n}
  <2>1. ASSUME NEW p \in Peers(n), Acked(n, p, i)'
        PROVE  FALSE
    <3>1. Acked(n, p, i)
      BY <1>1, <2>1 DEF Acked
    <3> QED
      BY <1>0, <1>1, <1>2, <3>1 DEF RequestInv, AcksFit
  <2> QED
    BY <2>1 DEF Acks, Peers
<1>4. CASE \E k \in Node : \E u \in won[k] : u > t
  <2>0. PICK k \in Node : \E u \in won[k] : u > t
    BY <1>4
  <2>1. PICK u \in won[k] : u > t
    BY <2>0
  <2>2. u \in Term /\ votes[k][u] \in SUBSET Node /\ IsMajority(votes[k][u])
    BY <1>0 DEF ElectionTypeOK, ElectionInv, WonByMajority
  <2>3. ASSUME NEW p \in votes[k][u]
        PROVE  currentTerm'[p] > currentTerm'[n] /\ p \notin Acks(n, i)'
    <3>1. Granted(p, k, u) /\ p \in Node
      BY <2>2, <2>3 DEF Granted
    <3>2. currentTerm[p] >= u /\ u \in Int
      BY <1>0, <2>2, <3>1 DEF ElectionInv, VoteKept, Term
    <3>3. currentTerm[p] > t
      BY <1>0, <2>1, <3>1, <3>2
    <3> QED
      BY <1>0, <1>1, <1>3, <3>3
  <2> QED
    BY <2>2, <2>3 DEF Skipped, IsMajority
<1>5. CASE \A k \in Node : \A u \in won[k] : ~ u > t
  <2>1. NewerCarry(i, t)'
    <3>1. ASSUME NEW a \in Pieces', Newer(a, i, t)
          PROVE  Carries(a, i, t)
      <4>1. PICK j \in Position : Has(a, j) /\ (At(a, j).term > t \/ (At(a, j).term = t /\ j >= i))
        BY <3>1 DEF Newer
      <4>2. PICK k \in Node : At(a, j).term \in won'[k]
        BY <1>0, <4>1 DEF BaseInv, PieceInv, TermsFromElected, Has, At, Before, Position
      <4>3. At(a, j).term = t /\ j >= i
        BY <1>1, <1>5, <4>1, <4>2
      <4>4. j <= Len(log'[n])
        BY <1>0, <1>1, <4>1, <4>3 DEF BaseInv, PieceInv, LeaderHoldsTerm, Has, At, Before, Position
      <4>5. j = i
        BY <1>0, <1>2, <4>3, <4>4 DEF Position
      <4>6. IsPiece(a)
        BY <1>0 DEF AllPieces, IsPiece, Before
      <4>7. Knows(a, i) /\ TermAt(a, i) = t
        BY <1>0, <4>1, <4>3, <4>5, <4>6, HasKnows
      <4>8. ~ Before(a) > i
        BY <1>0, <4>6, <4>7, PieceBounds DEF Knows
      <4> QED
        BY <4>7, <4>8 DEF Carries
    <3> QED
      BY <3>1 DEF NewerCarry, Newer, Carries, Has, Knows, TermAt, At, Before, Position
  <2>2. ASSUME NEW m \in Requests'
        PROVE  /\ m \in Requests /\ ~ m.term > t
               /\ m.term = t => m.leader = n /\ m.peer # n
    <3>1. PICK th \in Thread : rpc[th].phase = "sent" /\ m = rpc[th]
      BY <1>1, <2>2 DEF Requests
    <3>2. rpc[th] # Idle /\ m \in Requests /\ m.leader \in Node
      BY <1>0, <3>1, RpcKinds DEF Idle, Requests, AppendRequest, TypeInv, AppendInv
    <3>3. m.term \in won[m.leader]
      BY <1>0, <3>1, <3>2 DEF BaseInv, LeaderInv, RpcFromElected
    <3>4. m.term = t => m.leader = n
      BY <1>0, <1>1, <3>1, <3>2, LeaderOfTerm
    <3>5. m.peer # m.leader
      BY <1>0, <3>1, <3>2 DEF RequestInv, ToPeers
    <3> QED
      BY <1>5, <3>2, <3>3, <3>4, <3>5
  <2>3. RequestsCarry(i, t)'
    <3>1. ASSUME NEW m \in Requests', m.term = t, i <= End(m)
          PROVE  FALSE
      <4>1. m \in Requests /\ m.leader = n
        BY <2>2, <3>1
      <4>2. End(m) <= Len(log[n])
        BY <1>0, <1>1, <3>1, <4>1 DEF RequestInv, TrueRequests, Led
      <4>3. End(m) \in Int
        <5>1. IsPiece(m)
          BY <1>0, <4>1, PieceType DEF Pieces
        <5> QED
          BY <5>1, PieceBounds DEF End
      <4> QED
        BY <1>0, <1>2, <3>1, <4>2, <4>3
    <3> QED
      BY <2>2, <3>1 DEF RequestsCarry, End, Before
  <2>4. LeadersHave(i, t)'
    <3>1. ASSUME NEW c \in Node, state'[c] = "LEADER", currentTerm'[c] > t
          PROVE  FALSE
      BY <1>0, <1>1, <1>5, <3>1 DEF TypeInv, LeaderElected
    <3> QED
      BY <3>1 DEF LeadersHave
  <2>5. VotedHave(i, t, Q)'
    <3>1. ASSUME NEW c \in Node, currentTerm'[c] > t, Granted(n, c, currentTerm[c])'
          PROVE  FALSE
      <4>1. currentTerm'[c] \in Term /\ currentTerm'[c] \in Int
        BY <1>0, <3>1 DEF TypeInv, NodeTypeOK, Term
      <4>2. PICK u \in Term : u = currentTerm'[c]
        BY <4>1
      <4>3. Granted(n, c, u)'
        BY <3>1, <4>2 DEF Granted
      <4>4. currentTerm'[n] > u \/ currentTerm'[n] = u
        BY <1>0, <4>3 DEF ElectionInv, VoteKept, Granted
      <4> QED
        BY <1>0, <1>1, <3>1, <4>1, <4>2, <4>4
    <3> QED
      BY <1>3, <3>1 DEF VotedHave
  <2>6. Follows(n, i, t)'
    <3>1. \A m \in Requests' : m.peer = n /\ m.term = t => i <= End(m)
      BY <2>2
    <3>2. currentTerm'[n] >= t
      BY <1>0, <1>1
    <3> QED
      BY <3>1, <3>2 DEF Follows, InLog, End, Before
  <2> QED
    BY <1>3, <2>1, <2>3, <2>4, <2>5, <2>6 DEF Secured
<1> QED
  BY <1>4, <1>5

LEMMA PromisesStep ==
    ASSUME CommonInv, CommonInv', CandidateAsks, AckTrue', NoOvertaking', Promises, Next
    PROVE  Promises'
<1> USE RaftAssumption
<1>0. /\ BaseInv /\ BaseInv' /\ TypeInv /\ TypeInv' /\ ElectionInv /\ ElectionInv'
      /\ \A k \in Node : log[k] \in Seq(Entry) /\ Len(log[k]) <= MaxLog
  BY DEF CommonInv, BaseInv, TypeInv, LogInv, LogTypeOK
<1> SUFFICES ASSUME NEW n \in Node, NEW i \in Position, NEW t \in Term, NEW Q \in SUBSET Node,
                    state'[n] = "LEADER", currentTerm'[n] = t, InLog(log'[n], i, t),
                    Q = Acks(n, i)'
             PROVE  Skipped(n, i)' \/ Secured(i, t, Q)'
  BY DEF Promises, InLog, Position
<1>1. /\ currentTerm[n] = t
      /\ state[n] = "LEADER" \/ WinElection(n, t)
  BY <1>0, LeadersStay
<1>2. CASE WinElection(n, t)
  <2>1. log' = log
    BY <1>2 DEF WinElection, logVars
  <2>2. Has(Whole(log[n]), i) /\ At(Whole(log[n]), i).term = t
    BY <1>0, <2>1, WholeLog DEF InLog
  <2>3. WonGrows /\ TermsFromElected /\ Whole(log[n]) \in Pieces
    BY <1>0, LeaderSteps DEF BaseInv, PieceInv, Pieces
  <2> QED
    BY <1>0, <1>2, <2>2, <2>3, TermIsNew
<1>3. CASE state[n] = "LEADER" /\ InLog(log[n], i, t)
  BY <1>1, <1>3, PromiseKept
<1>4. CASE state[n] = "LEADER" /\ ~ InLog(log[n], i, t)
  <2>1. ASSUME NEW th \in Thread, HandleAppendEntries(th), rpc[th].peer = n
        PROVE  FALSE
    BY <1>0, <2>1 DEF HandleAppendEntries, TypeInv, NodeTypeOK
  <2>2. \E d \in Data : Propose(n, d)
    BY <1>0, <1>4, <2>1, LogChanges
  <2> QED
    BY <1>1, <1>4, <2>2, NewPromise
<1> QED
  BY <1>1, <1>2, <1>3, <1>4

-----------------------------------------------------------------------------
(***************************************************************************)
(* Commitment: what a node has applied ends before an entry that a         *)
(* majority has secured and the node follows.                              *)
(***************************************************************************)
Committed(i, t) == \E Q \in SUBSET Node : IsMajority(Q) /\ Secured(i, t, Q)

\* What node n has applied is its log up to its commit index.
Known(n) ==
    /\ Len(stateMachine[n]) = commitIndex[n] + 1
    /\ commitIndex[n] >= 0 =>
          \E i \in Position, t \in Term :
              commitIndex[n] < i /\ Committed(i, t) /\ Follows(n, i, t)
    /\ \A j \in 1..Len(stateMachine[n]) : stateMachine[n][j] = log[n][j].data

CommitKnown == \A n \in Node : Known(n)

CommitSent ==
    \A m \in Requests : m.leaderCommit >= 0 =>
        \E i \in Position, t \in Term :
            m.leaderCommit < i /\ Committed(i, t) /\ m.term >= t /\ Carries(m, i, t)

\* Whoever is elected has a vote of every majority.
LEMMA CommittedStep ==
    ASSUME CommonInv, CommonInv', CandidateAsks, Next, NEW i \in Position, NEW t \in Term,
           Committed(i, t)
    PROVE  Committed(i, t)'
<1>1. PICK Q \in SUBSET Node : IsMajority(Q) /\ Secured(i, t, Q)
  BY DEF Committed
<1>2. Q # {}
  BY <1>1, MajoritiesMeet
<1>3. ASSUME NEW d \in Node, NEW u \in Term, WinElection(d, u)
      PROVE  \E p \in Q : Granted(p, d, u)
  <2>1. votes[d][u] \in SUBSET Node /\ IsMajority(votes[d][u])
    BY <1>3 DEF WinElection, ElectionWon, CommonInv, BaseInv, TypeInv, ElectionTypeOK
  <2>2. votes[d][u] \cap Q # {}
    BY <1>1, <2>1, MajoritiesMeet
  <2> QED
    BY <2>2 DEF Granted
<1>4. Secured(i, t, Q)'
  BY <1>1, <1>2, <1>3, SecuredStep
<1> QED
  BY <1>1, <1>4 DEF Committed, IsMajority

\* The blocks a node has applied stay in its log, and stay committed.
LEMMA KeptBlocks ==
    ASSUME CommonInv, CommonInv', CandidateAsks, CommitKnown, Next, NEW n \in Node
    PROVE  /\ commitIndex[n] >= 0 =>
                 \E i \in Position, t \in Term :
                    commitIndex[n] < i /\ Committed(i, t)' /\ Follows(n, i, t)'
           /\ \A j \in 1..Len(stateMachine[n]) :
                 /\ j <= Len(log[n]) /\ j <= Len(log'[n]) /\ log'[n][j] = log[n][j]
                 /\ stateMachine[n][j] = log'[n][j].data
<1> USE RaftAssumption
<1>0. commitIndex[n] \in Int /\ commitIndex[n] >= -1 /\ Known(n)
  BY DEF CommonInv, BaseInv, TypeInv, LogInv, LogTypeOK, LogPosition, CommitKnown
<1>1. CASE commitIndex[n] >= 0
  <2>1. PICK i \in Position, t \in Term :
           commitIndex[n] < i /\ Committed(i, t) /\ Follows(n, i, t)
    BY <1>0, <1>1 DEF Known
  <2>2. Committed(i, t)'
    BY <2>1, CommittedStep
  <2>3. Follows(n, i, t)'
    <3>1. RequestsCarry(i, t)
      BY <2>1 DEF Committed, Secured
    <3> QED
      BY <2>1, <3>1, FollowsStep
  <2>4. InLog(log[n], i, t) /\ InLog(log'[n], i, t)
    BY <2>1, <2>3 DEF Follows, InLog
  <2>5. ASSUME NEW j \in 1..Len(stateMachine[n])
        PROVE  /\ j <= Len(log[n]) /\ j <= Len(log'[n]) /\ log'[n][j] = log[n][j]
               /\ stateMachine[n][j] = log'[n][j].data
    <3>1. j \in 1..i
      BY <1>0, <2>1 DEF Known, Position
    <3>2. j <= Len(log[n]) /\ j <= Len(log'[n]) /\ log'[n][j] = log[n][j]
      BY <2>4, <3>1, PrefixStays DEF CommonInv
    <3>3. stateMachine[n][j] = log[n][j].data
      BY <1>0 DEF Known
    <3> QED
      BY <3>2, <3>3
  <2> QED
    BY <2>1, <2>2, <2>3, <2>5
<1>2. CASE ~ commitIndex[n] >= 0
  <2>1. 1..Len(stateMachine[n]) = {}
    BY <1>0, <1>2 DEF Known
  <2> QED
    BY <1>2, <2>1
<1> QED
  BY <1>1, <1>2

LEMMA KnownStays ==
    ASSUME CommonInv, CommonInv', CandidateAsks, CommitKnown, Next, NEW n \in Node,
           commitIndex'[n] = commitIndex[n], stateMachine'[n] = stateMachine[n]
    PROVE  Known(n)'
<1>1. Known(n)
  BY DEF CommitKnown
<1> QED
  BY <1>1, KeptBlocks DEF Known

\* Nothing is left to apply when the entries up to position c are applied.
LEMMA AppliedAlready ==
    ASSUME NEW s, NEW entries, NEW c \in Int, Len(s) = c + 1
    PROVE  Applied(s, entries, c) = s
<1>1. Len(s) > c
  OBVIOUS
<1> QED
  BY <1>1 DEF Applied

\* Applying the entries up to position c of a log that begins with the applied ones.
LEMMA AppliedBlocks ==
    ASSUME NEW s \in Seq(Data), NEW entries \in Seq(Entry), NEW c \in Int, c >= -1,
           c < Len(entries), Len(s) <= c + 1, \A j \in 1..Len(s) : s[j] = entries[j].data
    PROVE  /\ Len(Applied(s, entries, c)) = c + 1
           /\ \A j \in 1..(c + 1) : Applied(s, entries, c)[j] = entries[j].data
<1>0. Len(s) \in Nat /\ c + 1 \in Nat
  OBVIOUS
<1>1. CASE Len(s) > c
  BY <1>0, <1>1 DEF Applied
<1>2. CASE ~ (Len(s) > c)
  <2> DEFINE f == [i \in 1..(c + 1) |-> IF i <= Len(s) THEN s[i] ELSE entries[i].data]
  <2>1. Applied(s, entries, c) = f
    BY <1>2 DEF Applied
  <2>2. f \in Seq(Data) /\ DOMAIN f = 1..(c + 1)
    BY <2>1, AppliedType
  <2>3. Len(f) = c + 1
    BY <1>0, <2>2, LenProperties
  <2>4. ASSUME NEW j \in 1..(c + 1)
        PROVE  f[j] = entries[j].data
    <3>1. CASE j <= Len(s)
      <4>1. j \in 1..Len(s)
        BY <1>0, <3>1
      <4> QED
        BY <3>1, <4>1
    <3>2. CASE ~ (j <= Len(s))
      BY <3>2
    <3> QED
      BY <3>1, <3>2
  <2> QED
    BY <2>1, <2>3, <2>4
<1> QED
  BY <1>1, <1>2

\* Fewer nodes secure no more.
LEMMA SecuredByFewer ==
    ASSUME NEW i, NEW t, NEW Q, NEW S, S \subseteq Q, Secured(i, t, Q)
    PROVE  Secured(i, t, S)
BY DEF Secured, VotedHave

\* Only handling an AppendEntries, or recording an answer, commits.
LEMMA CommitChanges ==
    ASSUME TypeInv, Next, NEW n \in Node
    PROVE  \/ commitIndex'[n] = commitIndex[n] /\ stateMachine'[n] = stateMachine[n]
           \/ \E th \in Thread : HandleAppendEntries(th) /\ rpc[th].peer = n
           \/ \E th \in Thread : AppendSucceeds(th) /\ rpc[th].leader = n
<1> DEFINE Same == commitIndex'[n] = commitIndex[n] /\ stateMachine'[n] = stateMachine[n]
<1>0. DOMAIN commitIndex = Node /\ DOMAIN stateMachine = Node
  BY DEF TypeInv, LogInv, LogTypeOK
<1>1. CASE Quiet
  BY <1>1 DEF Quiet
<1>2. ASSUME NEW k \in Node, NEW d \in Data, Propose(k, d)
      PROVE  Same
  BY <1>2 DEF Propose
<1>3. ASSUME NEW k \in Node, NEW q \in Node, NEW th \in Thread, SendAppend(k, q, th)
      PROVE  Same
  BY <1>3 DEF SendAppend, logVars
<1>4. ASSUME NEW th \in Thread, HandleAppendEntries(th), rpc[th].peer # n
      PROVE  Same
  BY <1>0, <1>4 DEF HandleAppendEntries
<1>5. ASSUME NEW k \in Node, NEW u \in Term, WinElection(k, u)
      PROVE  Same
  BY <1>5 DEF WinElection, logVars
<1>6. ASSUME NEW th \in Thread, AppendSucceeds(th), rpc[th].leader # n
      PROVE  Same
  BY <1>0, <1>6 DEF AppendSucceeds
<1> QED
  BY <1>1, <1>2, <1>3, <1>4, <1>5, <1>6, StepKinds

\* A follower that accepts a request holds whatever its sender has committed.
LEMMA AcceptedHolds ==
    ASSUME CommonInv, NEW th \in Thread, HandleAppendEntries(th),
           Consistent(log[rpc[th].peer], rpc[th].prevLogIndex, rpc[th].prevLogTerm),
           NEW i \in Position, NEW t \in Term, NewerCarry(i, t), Carries(rpc[th], i, t)
    PROVE  InLog(NewLog(log[rpc[th].peer], rpc[th]), i, t) /\ i <= End(rpc[th])
<1> USE RaftAssumption
<1> DEFINE m == rpc[th]
           old == log[m.peer]
           k == Before(m)
<1>1. /\ m \in AppendRequest /\ IsPiece(m) /\ m.peer \in Node
  BY HandledRequest DEF CommonInv, BaseInv
<1>2. /\ old \in Seq(Entry) /\ Len(old) <= MaxLog /\ Whole(old) \in Pieces
      /\ Len(old) \in Nat /\ t \in Int
  BY <1>1 DEF CommonInv, BaseInv, TypeInv, LogInv, LogTypeOK, Pieces, Term
<1>3. /\ k \in Int /\ k >= 0 /\ Len(m.entries) \in Nat /\ i \in Int /\ i >= 1
      /\ m.prevLogTerm \in Int
  BY <1>1, PieceBounds DEF Position, IsPiece
<1>4. k <= Len(old) /\ (k >= 1 => old[k].term = m.prevLogTerm)
  BY <1>1, <1>2, NewLogForms
<1> HIDE DEF m, old, k
<1>5. ASSUME k > i
      PROVE  InLog(old, i, t)
  <2>1. k \in Position /\ k >= i
    BY <1>2, <1>3, <1>4, <1>5 DEF Position
  <2>2. old[k].term >= t
    BY <1>3, <1>4, <1>5 DEF Carries, k, m
  <2>3. Has(Whole(old), k) /\ At(Whole(old), k) = old[k] /\ old[k].term \in Int
    BY <1>2, <1>4, <2>1, WholeLog, EntryAt
  <2>4. Newer(Whole(old), i, t)
    BY <1>2, <2>1, <2>2, <2>3 DEF Newer
  <2> QED
    BY <1>2, <2>4, WholeHas DEF NewerCarry
<1>6. i <= End(m)
  <2>1. CASE k > i
    BY <1>3, <2>1 DEF End, k
  <2>2. CASE ~ k > i
    BY <1>3, <2>2 DEF Carries, Knows, End, k, m
  <2> QED
    BY <2>1, <2>2
<1>7. InLog(NewLog(old, m), i, t)
  BY <1>1, <1>2, <1>5, <1>6, TakesEntry DEF k, old, m
<1> QED
  BY <1>6, <1>7 DEF old, m

\* The answer to a request says that no request of its term ends before it.
LEMMA AnswerFollows ==
    ASSUME CommonInv, CommonInv', NoOvertaking', Next, NEW th \in Thread,
           HandleAppendEntries(th),
           Consistent(log[rpc[th].peer], rpc[th].prevLogIndex, rpc[th].prevLogTerm),
           NEW i \in Position, i <= End(rpc[th]), NEW x \in Requests',
           x.peer = rpc[th].peer, x.term = rpc[th].term
    PROVE  i <= End(x)
<1> USE RaftAssumption
<1> DEFINE m == rpc[th]
           r == Answer(m, m.term, TRUE)
<1>0. BaseInv /\ TypeInv /\ AppendTypeOK
  BY DEF CommonInv, BaseInv, TypeInv, AppendInv
<1>1. /\ m.phase = "sent" /\ m \in AppendRequest /\ IsPiece(m) /\ Requests' \subseteq Requests
      /\ rpc'[th] = r
  BY <1>0, HandledRequest DEF HandleAppendEntries, AppendTypeOK
<1>2. PICK y \in Thread : rpc[y].phase = "sent" /\ x = rpc[y]
  BY <1>1 DEF Requests
<1>3. x.leader = m.leader
  <2>1. rpc[y] # Idle /\ rpc[th] # Idle
    BY <1>1, <1>2 DEF Idle
  <2>2. rpc[y].leader \in Node /\ m.leader \in Node
    BY <1>0, <1>1, <1>2, RpcKinds DEF AppendRequest, TypeInv, AppendInv
  <2>3. x.term \in won[x.leader] /\ m.term \in won[m.leader]
    BY <1>0, <1>2, <2>1 DEF BaseInv, LeaderInv, RpcFromElected
  <2>4. ElectionSafety
    BY <1>0, ElectionInvSafe DEF BaseInv
  <2> QED
    BY <1>2, <2>2, <2>3, <2>4 DEF ElectionSafety
<1>4. /\ r.phase = "replied" /\ r.success /\ r.leader = m.leader /\ r.peer = m.peer
      /\ r.term = m.term /\ r.prevLogIndex = m.prevLogIndex /\ r.sent = Len(m.entries)
  BY DEF Answer
<1> HIDE DEF r
<1>5. i <= rpc'[th].prevLogIndex + 1 + rpc'[th].sent
  BY <1>1, <1>4 DEF End, Before
<1>6. Replied(x, i)'
  BY <1>1, <1>3, <1>4, <1>5 DEF Replied
<1> QED
  BY <1>6 DEF NoOvertaking, End, Before, Position

\* A follower that accepts a request commits what its sender had committed.
LEMMA HandleKnown ==
    ASSUME CommonInv, CommonInv', CandidateAsks, NoOvertaking', CommitKnown, CommitSent, Next,
           NEW th \in Thread, HandleAppendEntries(th), NEW p \in Node, p = rpc[th].peer
    PROVE  Known(p)'
<1> USE RaftAssumption
<1> DEFINE m == rpc[th]
           old == log[m.peer]
           new == NewLog(old, m)
           ok == Consistent(old, m.prevLogIndex, m.prevLogTerm)
           commit == IF ok THEN NewCommitIndex(commitIndex[m.peer], Len(new), m.leaderCommit)
                     ELSE commitIndex[m.peer]
<1>0. /\ TypeInv /\ LogTypeOK /\ NodeTypeOK
      /\ m \in AppendRequest /\ IsPiece(m) /\ m \in Requests /\ m.peer \in Node
      /\ new \in Seq(Entry) /\ Len(new) <= MaxLog
  BY HandledRequest DEF CommonInv, BaseInv, TypeInv, LogInv
<1>1. p = m.peer
  OBVIOUS
<1>2. /\ commitIndex[p] \in Int /\ commitIndex[p] >= -1 /\ Known(p) /\ stateMachine[p] \in Seq(Data)
      /\ m.leaderCommit \in Int /\ Len(new) \in Nat
  <2>1. commitIndex[p] \in LogPosition /\ stateMachine[p] \in Seq(Data)
    BY <1>0 DEF LogTypeOK
  <2>2. commitIndex[p] \in Int /\ commitIndex[p] >= -1
    BY <2>1 DEF LogPosition
  <2>3. Known(p)
    BY DEF CommitKnown
  <2>4. m.leaderCommit \in LogPosition
    BY <1>0 DEF AppendRequest
  <2>5. m.leaderCommit \in Int
    BY <2>4 DEF LogPosition
  <2>6. Len(new) \in Nat
    BY <1>0
  <2> QED
    BY <2>1, <2>2, <2>3, <2>5, <2>6
<1>3. /\ log'[p] = new /\ commitIndex'[p] = commit /\ currentTerm'[p] = m.term
      /\ stateMachine'[p] = Applied(stateMachine[p], new, commit)
  BY <1>0, <1>1 DEF HandleAppendEntries, LogTypeOK, NodeTypeOK
<1>4. CASE commit = commitIndex[p]
  <2>1. stateMachine'[p] = stateMachine[p]
    <3>1. Len(stateMachine[p]) = commit + 1 /\ commit \in Int
      BY <1>2, <1>4 DEF Known
    <3>2. Applied(stateMachine[p], new, commit) = stateMachine[p]
      BY <3>1, AppliedAlready
    <3> QED
      BY <1>3, <3>2
  <2> QED
    BY <1>1, <1>3, <1>4, <2>1, KnownStays
<1>5. CASE commit # commitIndex[p]
  <2>1. ok /\ m.leaderCommit > commitIndex[p]
    BY <1>1, <1>2, <1>5 DEF NewCommitIndex
  <2>2. PICK i \in Position, t \in Term :
           m.leaderCommit < i /\ Committed(i, t) /\ m.term >= t /\ Carries(m, i, t)
    <3>1. m \in Requests /\ m.leaderCommit \in Int /\ commitIndex[p] \in Int
          /\ commitIndex[p] >= -1
      BY <1>0, <1>2
    <3> HIDE DEF m
    <3>2. m.leaderCommit >= 0
      BY <2>1, <3>1
    <3> QED
      BY <3>1, <3>2 DEF CommitSent
  <2>3. InLog(new, i, t) /\ i <= End(m)
    BY <2>1, <2>2, AcceptedHolds DEF Committed, Secured
  <2>4. commit = m.leaderCommit /\ commit < Len(new) /\ commit < i
    BY <1>1, <1>2, <2>1, <2>2, <2>3 DEF NewCommitIndex, InLog, Position
  <2>5. Committed(i, t)'
    BY <2>2, CommittedStep
  <2>6. Follows(p, i, t)'
    <3>1. \A x \in Requests' : x.peer = p /\ x.term = t /\ currentTerm'[p] = t => i <= End(x)
      BY <1>1, <1>3, <2>1, <2>3, AnswerFollows
    <3> QED
      BY <1>3, <2>2, <2>3, <3>1 DEF Follows, InLog, End, Before
  <2>7. \A j \in 1..Len(stateMachine[p]) : stateMachine[p][j] = new[j].data
    BY <1>3, KeptBlocks
  <2> HIDE DEF commit, new
  <2>8. /\ Len(stateMachine'[p]) = commit + 1
        /\ \A j \in 1..(commit + 1) : stateMachine'[p][j] = new[j].data
    <3>1. commit \in Int /\ commit >= -1 /\ Len(stateMachine[p]) <= commit + 1
      BY <1>2, <2>1, <2>4 DEF Known
    <3>2. stateMachine[p] \in Seq(Data) /\ new \in Seq(Entry) /\ commit < Len(new)
      BY <1>0, <1>2, <2>4
    <3>3. /\ Len(Applied(stateMachine[p], new, commit)) = commit + 1
          /\ \A j \in 1..(commit + 1) :
                Applied(stateMachine[p], new, commit)[j] = new[j].data
      BY <2>7, <3>1, <3>2, AppliedBlocks
    <3> QED
      BY <1>3, <3>3
  <2> QED
    BY <1>3, <2>4, <2>5, <2>6, <2>8 DEF Known
<1> QED
  BY <1>4, <1>5

\* What a leader commits is held by a majority that has not gone on without it.
LEMMA SucceedsKnown ==
    ASSUME CommonInv, CommonInv', CandidateAsks, CommitKnown, Promises', Next,
           NEW th \in Thread, AppendSucceeds(th), NEW n \in Node, n = rpc[th].leader
    PROVE  Known(n)'
<1> USE RaftAssumption
<1>0. /\ TypeInv /\ LogTypeOK /\ NodeTypeOK /\ rpc[th].leader \in Node /\ LeaderTypeOK
      /\ TypeInv' /\ LeaderTypeOK'
  BY RpcKinds DEF CommonInv, BaseInv, TypeInv, AppendInv, AppendRequest, AppendReply,
     AppendSucceeds, LeadsTermOf, Idle, LogInv
<1>1. n = rpc[th].leader
  OBVIOUS
<1>2. PICK c \in LogPosition :
         /\ IsNewCommitIndex(n, matchIndex'[n], c)
         /\ commitIndex' = [commitIndex EXCEPT ![n] = c]
         /\ stateMachine' = [stateMachine EXCEPT ![n] = Applied(@, log[n], c)]
  BY <1>1 DEF AppendSucceeds
<1>3. /\ commitIndex[n] \in Int /\ commitIndex[n] >= -1 /\ Known(n) /\ stateMachine[n] \in Seq(Data)
      /\ c \in Int /\ log[n] \in Seq(Entry) /\ Len(log[n]) \in Nat /\ Len(log[n]) <= MaxLog
      /\ currentTerm[n] \in 0..MaxTerm
  BY <1>0 DEF LogTypeOK, LogPosition, CommitKnown, NodeTypeOK
<1>4. /\ commitIndex'[n] = c /\ stateMachine'[n] = Applied(stateMachine[n], log[n], c)
      /\ log' = log /\ currentTerm' = currentTerm /\ state' = state /\ state[n] = "LEADER"
  BY <1>0, <1>1, <1>2 DEF LogTypeOK, AppendSucceeds, raftVars, LeadsTermOf
<1>5. CASE c = commitIndex[n]
  <2>1. stateMachine'[n] = stateMachine[n]
    <3>1. Len(stateMachine[n]) = c + 1
      BY <1>3, <1>5 DEF Known
    <3>2. Applied(stateMachine[n], log[n], c) = stateMachine[n]
      BY <1>3, <3>1, AppliedAlready
    <3> QED
      BY <1>4, <3>2
  <2> QED
    BY <1>1, <1>4, <1>5, <2>1, KnownStays
<1>6. CASE c # commitIndex[n]
  <2> DEFINE S == {n} \cup {p \in Peers(n) : matchIndex'[n][p] >= c}
  <2>1. /\ c \in (commitIndex[n] + 1)..(Len(log[n]) - 1)
        /\ log[n][c + 1].term = currentTerm[n] /\ IsMajority(S)
    BY <1>2, <1>6 DEF IsNewCommitIndex, LastLogIndex
  <2>2. PICK i \in Position : i = c + 1
    <3> DEFINE l == Len(log[n])
               k == commitIndex[n]
    <3>1. k \in Int /\ k >= -1 /\ l \in Nat /\ l <= MaxLog /\ c \in (k + 1)..(l - 1)
      BY <1>3, <2>1
    <3> HIDE DEF k, l
    <3>2. c + 1 \in 1..MaxLog
      BY <3>1
    <3> QED
      BY <3>2 DEF Position
  <2>3. /\ c > commitIndex[n] /\ c >= 0 /\ c < Len(log[n]) /\ c < i /\ i <= Len(log[n])
        /\ i \in 1..Len(log[n])
    <3> DEFINE l == Len(log[n])
               k == commitIndex[n]
    <3>1. k \in Int /\ k >= -1 /\ l \in Nat /\ c \in (k + 1)..(l - 1)
      BY <1>3, <2>1
    <3> HIDE DEF k, l
    <3>2. /\ c > k /\ c >= 0 /\ c < l /\ c < i /\ i <= l
          /\ i \in 1..l
      BY <2>2, <3>1
    <3> QED
      BY <3>2 DEF k, l
  <2>4. PICK t \in Term : t = currentTerm[n]
    <3>1. log[n][i] \in Entry
      BY <1>3, <2>3, ElementOfSeq
    <3> QED
      BY <2>1, <2>2, <3>1 DEF Entry
  <2>5. InLog(log'[n], i, t)
    BY <1>4, <2>1, <2>2, <2>3, <2>4 DEF InLog
  <2>6. PICK Q \in SUBSET Node : Q = Acks(n, i)'
    BY DEF Acks, Peers
  <2>7. S \subseteq Q
    <3>1. ASSUME NEW p \in Peers(n), matchIndex'[n][p] >= c
          PROVE  Acked(n, p, i)'
      <4>1. matchIndex'[n][p] \in LogPosition
        BY <1>0 DEF LeaderTypeOK
      <4>2. i <= matchIndex'[n][p] + 1
        BY <1>3, <2>2, <3>1, <4>1 DEF LogPosition
      <4> QED
        BY <4>2 DEF Acked
    <3> QED
      BY <2>6, <3>1 DEF Acks, Peers
  <2> HIDE DEF S
  <2>8. Secured(i, t, Q)'
    <3>1. Skipped(n, i)' \/ Secured(i, t, Q)'
      BY <1>4, <2>4, <2>5, <2>6 DEF Promises, InLog
    <3>2. ASSUME NEW V \in SUBSET Node, IsMajority(V), \A p \in V : p \notin Q
          PROVE  FALSE
      <4>1. V \cap S # {}
        BY <2>1, <2>6, <2>7, <3>2, MajoritiesMeet
      <4> QED
        BY <2>7, <3>2, <4>1
    <3> QED
      BY <2>6, <3>1, <3>2 DEF Skipped, IsMajority
  <2>9. PICK W \in SUBSET Node : W = S
    BY <2>6, <2>7
  <2>10. Committed(i, t)'
    <3>1. Secured(i, t, W)'
      BY <2>7, <2>8, <2>9 DEF Secured, VotedHave
    <3>2. IsMajority(W)
      BY <2>1, <2>9
    <3> QED
      BY <3>1, <3>2 DEF Committed, IsMajority
  <2>11. Follows(n, i, t)'
    <3>1. n \in Q
      BY <2>6 DEF Acks
    <3> QED
      BY <2>8, <3>1 DEF Secured
  <2>12. \A j \in 1..Len(stateMachine[n]) : stateMachine[n][j] = log[n][j].data
    BY <1>3 DEF Known
  <2>13. /\ Len(stateMachine'[n]) = c + 1
         /\ \A j \in 1..(c + 1) : stateMachine'[n][j] = log[n][j].data
    <3>1. c >= -1 /\ Len(stateMachine[n]) <= c + 1
      BY <1>3, <2>3 DEF Known
    <3>2. stateMachine[n] \in Seq(Data) /\ log[n] \in Seq(Entry) /\ c \in Int /\ c < Len(log[n])
      BY <1>3, <2>3
    <3> DEFINE s == stateMachine[n]
               e == log[n]
    <3>3. /\ s \in Seq(Data) /\ e \in Seq(Entry) /\ c \in Int /\ c >= -1 /\ c < Len(e)
          /\ Len(s) <= c + 1 /\ \A j \in 1..Len(s) : s[j] = e[j].data
      BY <2>12, <3>1, <3>2
    <3>4. stateMachine'[n] = Applied(s, e, c)
      BY <1>4
    <3> HIDE DEF s, e
    <3>5. /\ Len(Applied(s, e, c)) = c + 1
          /\ \A j \in 1..(c + 1) : Applied(s, e, c)[j] = e[j].data
      BY <3>3, AppliedBlocks
    <3> QED
      BY <3>4, <3>5 DEF e
  <2> QED
    BY <1>4, <2>3, <2>10, <2>11, <2>13 DEF Known
<1> QED
  BY <1>5, <1>6

CommitInv == AckTrue /\ Promises /\ CommitKnown /\ CommitSent

LEMMA CommitStep ==
    ASSUME CommonInv, CommonInv', CandidateAsks, NoOvertaking, NoOvertaking', CommitInv, Next
    PROVE  CommitInv'
<1>0. TypeInv /\ TypeInv' /\ AckTrue /\ Promises /\ CommitKnown /\ CommitSent
  BY DEF CommonInv, BaseInv, CommitInv
<1>1. AckTrue'
  BY <1>0, AckStep
<1>2. Promises'
  BY <1>0, <1>1, PromisesStep
<1>3. CommitKnown'
  <2>1. ASSUME NEW n \in Node
        PROVE  Known(n)'
    BY <1>0, <1>2, CommitChanges, KnownStays, HandleKnown, SucceedsKnown
  <2> QED
    BY <2>1 DEF CommitKnown
<1>4. CommitSent'
  <2>1. ASSUME NEW m \in Requests', m.leaderCommit >= 0
        PROVE  \E i \in Position, t \in Term :
                  m.leaderCommit < i /\ Committed(i, t)' /\ m.term >= t /\ Carries(m, i, t)
    <3>1. CASE m \in Requests
      BY <1>0, <2>1, <3>1, CommittedStep DEF CommitSent
    <3>2. CASE m \notin Requests
      <4>1. PICK n \in Node, p \in Node, th \in Thread : SendAppend(n, p, th) /\ m = rpc'[th]
        BY <1>0, <3>2, NewRequest
      <4>2. m.leaderCommit = commitIndex[n] /\ m.term = currentTerm[n]
        BY <1>0, <4>1, SentRequest
      <4>3. PICK i \in Position, t \in Term :
               commitIndex[n] < i /\ Committed(i, t) /\ Follows(n, i, t)
        BY <1>0, <2>1, <4>2 DEF CommitKnown, Known
      <4>4. InLog(log[n], i, t) /\ currentTerm[n] >= t
        BY <4>3 DEF Follows
      <4>5. Carries(m, i, t)
        BY <4>1, <4>4, SendCarries
      <4> QED
        BY <4>2, <4>3, <4>4, <4>5, CommittedStep
    <3> QED
      BY <3>1, <3>2
  <2> QED
    BY <2>1 DEF CommitSent, Carries, Knows, TermAt, At, Before
<1> QED
  BY <1>1, <1>2, <1>3, <1>4 DEF CommitInv

LEMMA CommitInvariant == Spec /\ []NoOvertaking => []CommitInv
<1>1. Init => CommitInv
  <2> SUFFICES ASSUME Init
               PROVE  CommitInv
    OBVIOUS
  <2>1. Requests = {}
    BY DEF Init, Requests, Idle
  <2>2. Promises /\ AckTrue
    BY DEF Init, Promises, AckTrue
  <2>3. CommitKnown
    <3>1. ASSUME NEW n \in Node
          PROVE  commitIndex[n] = -1 /\ Len(stateMachine[n]) = 0
      BY EmptySeq DEF Init
    <3> QED
      BY <3>1 DEF CommitKnown, Known
  <2> QED
    BY <2>1, <2>2, <2>3 DEF CommitInv, CommitSent
<1>2. CommonInv /\ CommonInv' /\ CandidateAsks /\ NoOvertaking /\ NoOvertaking' /\ CommitInv
        /\ [Next]_vars => CommitInv'
  <2> SUFFICES ASSUME CommonInv, CommonInv', CandidateAsks, NoOvertaking, NoOvertaking',
                      CommitInv, [Next]_vars
               PROVE  CommitInv'
    OBVIOUS
  <2>1. CASE Next
    BY <2>1, CommitStep
  <2>2. CASE UNCHANGED vars
    <3>1. /\ log' = log /\ currentTerm' = currentTerm /\ state' = state /\ rpc' = rpc
          /\ votes' = votes /\ voteReplies' = voteReplies /\ matchIndex' = matchIndex
          /\ commitIndex' = commitIndex /\ stateMachine' = stateMachine
      BY <2>2 DEF vars, raftVars, logVars, leaderVars, electionVars, appendVars
    <3>2. Requests' = Requests /\ Pieces' = Pieces
      BY <3>1 DEF Requests, Pieces
    <3>3. \A n \in Node, i \in Position : Acks(n, i)' = Acks(n, i)
      BY <3>1 DEF Acks, Acked
    <3>4. ASSUME NEW i \in Position, NEW t \in Term, NEW p \in Node, Follows(p, i, t)
          PROVE  Follows(p, i, t)'
      BY <3>1, <3>2, <3>4 DEF Follows, InLog, End, Before
    <3>5. ASSUME NEW i \in Position, NEW t \in Term, NEW Q \in SUBSET Node, Secured(i, t, Q)
          PROVE  Secured(i, t, Q)'
      BY <3>1, <3>2, <3>4, <3>5 DEF Secured, NewerCarry, RequestsCarry, LeadersHave, VotedHave,
         Newer, Carries, Has, Knows, TermAt, At, Before, End, Position, InLog, Granted, Whole
    <3>6. AckTrue' /\ Promises'
      BY <3>1, <3>3, <3>5 DEF CommitInv, AckTrue, Acked, Promises, Skipped, IsMajority, InLog, Position
    <3>7. CommitKnown' /\ CommitSent'
      BY <3>1, <3>2, <3>4, <3>5 DEF CommitInv, CommitKnown, Known, CommitSent, Committed,
         IsMajority, Position, Carries, Knows, TermAt, At, Before
    <3> QED
      BY <3>6, <3>7 DEF CommitInv
  <2> QED
    BY <2>1, <2>2
<1> QED
  BY <1>1, <1>2, CommonInvariant, CandidateInvariant, PTL DEF Spec

-----------------------------------------------------------------------------
(***************************************************************************)
(* What the engine promises.                                               *)
(***************************************************************************)
LEMMA MajorityGrows ==
    ASSUME NEW S \in SUBSET Node, NEW T \in SUBSET Node, S \subseteq T, IsMajority(S)
    PROVE  IsMajority(T)
<1>1. IsFiniteSet(T) /\ IsFiniteSet(S) /\ Cardinality(S) <= Cardinality(T)
  BY RaftAssumption, FS_Subset
<1>2. Cardinality(S) \in Nat /\ Cardinality(T) \in Nat /\ Cardinality(Node) \in Nat
  BY <1>1, RaftAssumption, FS_CardinalityType
<1> QED
  BY <1>1, <1>2 DEF IsMajority

\* The blocks a node has applied are those of every log with the entry they end before.
LEMMA AppliedIn ==
    ASSUME CommonInv, NEW n \in Node, NEW p \in Node, Known(n), NEW i \in Position, NEW t,
           commitIndex[n] < i, InLog(log[n], i, t), InLog(log[p], i, t),
           NEW j \in 1..Len(stateMachine[n])
    PROVE  Holds(p, j, stateMachine[n][j])
<1> USE RaftAssumption
<1>1. /\ log[n] \in Seq(Entry) /\ Len(log[n]) <= MaxLog
      /\ log[p] \in Seq(Entry) /\ Len(log[p]) <= MaxLog
      /\ commitIndex[n] \in Int
  BY DEF CommonInv, BaseInv, TypeInv, LogInv, LogTypeOK, LogPosition
<1>2. Agree(Whole(log[p]), Whole(log[n]))
  BY DEF CommonInv, BaseInv, PieceInv, PiecesAgree, Pieces
<1>3. j \in 1..i /\ stateMachine[n][j] = log[n][j].data
  BY <1>1 DEF Known, Position
<1>4. j <= Len(log[p]) /\ log[p][j] = log[n][j]
  BY <1>1, <1>2, <1>3, SameUpTo
<1> QED
  BY <1>3, <1>4 DEF Holds

\* Blocks exist only up to a committed entry.
LEMMA KnownEntry ==
    ASSUME CommonInv, CommitInv, NEW n \in Node, NEW j \in 1..Len(stateMachine[n])
    PROVE  Known(n) /\ \E i \in Position, t \in Term :
              commitIndex[n] < i /\ Committed(i, t) /\ Follows(n, i, t)
<1>1. commitIndex[n] \in Int /\ Known(n)
  BY RaftAssumption
  DEF CommonInv, BaseInv, TypeInv, LogInv, LogTypeOK, LogPosition, CommitInv, CommitKnown
<1>2. commitIndex[n] >= 0
  BY <1>1 DEF Known
<1> QED
  BY <1>1, <1>2 DEF Known

LEMMA CommitDurable == CommonInv /\ CommitInv => CommittedIsDurable
<1> SUFFICES ASSUME CommonInv, CommitInv, NEW n \in Node, NEW j \in 1..Len(stateMachine[n])
             PROVE  IsMajority({p \in Node : Holds(p, j, stateMachine[n][j])})
  BY DEF CommittedIsDurable
<1>1. PICK i \in Position, t \in Term :
         commitIndex[n] < i /\ Committed(i, t) /\ Follows(n, i, t)
  BY KnownEntry
<1>2. PICK Q \in SUBSET Node : IsMajority(Q) /\ Secured(i, t, Q)
  BY <1>1 DEF Committed
<1>3. \A p \in Q : p \in Node /\ Holds(p, j, stateMachine[n][j])
  BY <1>1, <1>2, KnownEntry, AppliedIn DEF Secured, Follows
<1> QED
  BY <1>2, <1>3, MajorityGrows

LEMMA LeadersComplete == CommonInv /\ CommitInv => LeaderCompleteness
<1> SUFFICES ASSUME CommonInv, CommitInv, NEW n \in Node, state[n] = "LEADER",
                    \A k \in Node : currentTerm[k] <= currentTerm[n],
                    NEW k \in Node, NEW j \in 1..Len(stateMachine[k])
             PROVE  Holds(n, j, stateMachine[k][j])
  BY DEF LeaderCompleteness
<1>1. PICK i \in Position, t \in Term :
         commitIndex[k] < i /\ Committed(i, t) /\ Follows(k, i, t)
  BY KnownEntry
<1>2. InLog(log[k], i, t) /\ currentTerm[k] >= t /\ LeadersHave(i, t)
  BY <1>1 DEF Follows, Committed, Secured
<1>3. InLog(log[n], i, t)
  <2>1. /\ currentTerm[k] \in Nat /\ currentTerm[n] \in Nat /\ t \in Int
        /\ currentTerm[k] <= currentTerm[n]
    BY RaftAssumption DEF CommonInv, BaseInv, TypeInv, NodeTypeOK, Term
  <2>2. CASE currentTerm[n] > t
    BY <1>2, <2>2 DEF LeadersHave
  <2>3. CASE currentTerm[n] = t
    BY <1>2, <2>3, LeaderHas
  <2> QED
    BY <1>2, <2>1, <2>2, <2>3
<1> QED
  BY <1>1, <1>2, <1>3, KnownEntry, AppliedIn

\* Blocks that some node has applied are in the logs of a majority, in every
\* behaviour in which no request is overtaken.
THEOREM CommittedDurable == Spec /\ []NoOvertaking => []CommittedIsDurable
  BY CommitInvariant, CommonInvariant, CommitDurable, PTL

\* A leader no node has moved beyond holds every block any node has applied.
THEOREM LeaderComplete == Spec /\ []NoOvertaking => []LeaderCompleteness
  BY CommitInvariant, CommonInvariant, LeadersComplete, PTL

\* No request cuts off or replaces an entry its receiver has applied.
THEOREM AppliedStable == Spec /\ []NoOvertaking => AppliedIsStable
<1>1. CommonInv /\ CommonInv' /\ CandidateAsks /\ CommitInv /\ [Next]_vars
        => [\A n \in Node : \A i \in 1..Len(stateMachine[n]) :
               i <= Len(log'[n]) /\ log'[n][i] = log[n][i]]_vars
  BY KeptBlocks DEF CommitInv
<1> QED
  BY <1>1, CommitInvariant, CommonInvariant, CandidateInvariant, PTL DEF Spec, AppliedIsStable

-----------------------------------------------------------------------------
(***************************************************************************)
(* The state machines implement AgreedLog: there is one sequence of        *)
(* blocks, that of the longest state machine, and it only grows.           *)
(***************************************************************************)
LEMMA LessWellFounded == IsWellFoundedOn({q \in Nat \X Nat : q[1] < q[2]}, Nat)
  BY NatLessThanWellFounded DEF OpToRel

\* Some member of a bounded set of numbers is the largest.
LEMMA Maximum ==
    ASSUME NEW S, S # {}, NEW b \in Nat, \A x \in S : x \in Nat /\ x <= b
    PROVE  \E x \in S : \A y \in S : y <= x
<1> DEFINE R == {q \in Nat \X Nat : q[1] < q[2]}
           T == {b - x : x \in S}
<1>1. T \subseteq Nat /\ T # {}
  <2>1. \A x \in S : b - x \in Nat
    OBVIOUS
  <2> QED
    BY <2>1
<1>2. IsWellFoundedOn(R, Nat)
  BY LessWellFounded
<1> HIDE DEF R, T
<1>3. PICK y \in T : \A z \in T : ~ (<<z, y>> \in R)
  BY <1>1, <1>2, WFMin
<1>4. PICK x \in S : y = b - x
  BY DEF T
<1>5. ASSUME NEW z \in S
      PROVE  z <= x
  <2>1. b - z \in T /\ b - z \in Nat /\ y \in Nat
    BY <1>1 DEF T
  <2>2. ~ (b - z < y)
    BY <1>3, <2>1 DEF R
  <2> QED
    BY <1>4, <2>2
<1> QED
  BY <1>5

\* The machine LongestMachine chooses is one of the machines, and none is longer.
LEMMA LongestOf ==
    ASSUME NEW f \in [Node -> Seq(Data)], \A n \in Node : Len(f[n]) <= MaxLog, Node # {}
    PROVE  LET k == CHOOSE n \in Node : \A m \in Node : Len(f[m]) <= Len(f[n])
           IN  k \in Node /\ \A m \in Node : Len(f[m]) <= Len(f[k])
<1> DEFINE S == {Len(f[n]) : n \in Node}
<1>1. S # {} /\ MaxLog \in Nat
  <2>1. PICK k \in Node : TRUE
    OBVIOUS
  <2>2. Len(f[k]) \in S
    OBVIOUS
  <2> QED
    BY <2>2, RaftAssumption
<1>2. \A x \in S : x \in Nat /\ x <= MaxLog
  OBVIOUS
<1> HIDE DEF S
<1>3. PICK x \in S : \A y \in S : y <= x
  BY <1>1, <1>2, Maximum
<1>4. \E n \in Node : \A m \in Node : Len(f[m]) <= Len(f[n])
  BY <1>3 DEF S
<1> QED
  BY <1>4

\* What two nodes have applied is the same, as far as both have applied.
LEMMA MachinesAgree ==
    ASSUME CommonInv, CommitInv, NEW m \in Node, NEW n \in Node,
           NEW j \in 1..Len(stateMachine[m]), j \in 1..Len(stateMachine[n])
    PROVE  stateMachine[m][j] = stateMachine[n][j]
<1>1. PICK i \in Position, t \in Term :
         commitIndex[m] < i /\ Committed(i, t) /\ Follows(m, i, t)
  BY KnownEntry
<1>2. PICK k \in Position, u \in Term :
         commitIndex[n] < k /\ Committed(k, u) /\ Follows(n, k, u)
  BY KnownEntry
<1>3. PICK P \in SUBSET Node : IsMajority(P) /\ Secured(i, t, P)
  BY <1>1 DEF Committed
<1>4. PICK Q \in SUBSET Node : IsMajority(Q) /\ Secured(k, u, Q)
  BY <1>2 DEF Committed
<1>5. PICK p \in P : p \in Q
  BY <1>3, <1>4, MajoritiesMeet
<1>6. /\ InLog(log[m], i, t) /\ InLog(log[p], i, t) /\ InLog(log[n], k, u) /\ InLog(log[p], k, u)
      /\ p \in Node /\ Known(m) /\ Known(n)
  BY <1>1, <1>2, <1>3, <1>4, <1>5, KnownEntry DEF Secured, Follows
<1>7. Holds(p, j, stateMachine[m][j])
  BY <1>1, <1>6, AppliedIn
<1>8. Holds(p, j, stateMachine[n][j])
  BY <1>2, <1>6, AppliedIn
<1> QED
  BY <1>7, <1>8 DEF Holds

\* Any two state machines hold the same block wherever both hold one, within the bounds.
MachinesAlike ==
    /\ stateMachine \in [Node -> Seq(Data)]
    /\ \A n \in Node : Len(stateMachine[n]) <= MaxLog
    /\ \A m, n \in Node : \A j \in 1..Len(stateMachine[m]) :
          j \in 1..Len(stateMachine[n]) => stateMachine[m][j] = stateMachine[n][j]

LEMMA MachinesAgreeNow == CommonInv /\ CommitInv => MachinesAlike
<1> SUFFICES ASSUME CommonInv, CommitInv
             PROVE  MachinesAlike
  OBVIOUS
<1>1. /\ stateMachine \in [Node -> Seq(Data)]
      /\ \A n \in Node : Len(stateMachine[n]) <= MaxLog
  BY RaftAssumption DEF CommonInv, BaseInv, TypeInv, LogInv, LogTypeOK, LogPosition, CommitInv,
     CommitKnown, Known
<1>2. \A m, n \in Node : \A j \in 1..Len(stateMachine[m]) :
         j \in 1..Len(stateMachine[n]) => stateMachine[m][j] = stateMachine[n][j]
  BY MachinesAgree
<1> QED
  BY <1>1, <1>2 DEF MachinesAlike

LEMMA MachinesAgreeNext == CommonInv' /\ CommitInv' => MachinesAlike'
  BY MachinesAgreeNow, PTL

\* A step extends at most one state machine.
MachineStep ==
    \/ stateMachine' = stateMachine
    \/ \E n \in Node, s \in Seq(Data) :
          stateMachine' = [stateMachine EXCEPT ![n] = s] /\ Len(s) > Len(stateMachine[n])

LEMMA MachineSteps ==
    ASSUME CommonInv, CommonInv', CommitInv, CommitInv', CandidateAsks, Next
    PROVE  /\ MachineStep
           /\ \A n \in Node : \A j \in 1..Len(stateMachine[n]) :
                 j \in 1..Len(stateMachine'[n]) /\ stateMachine'[n][j] = stateMachine[n][j]
<1> USE RaftAssumption
<1>0. /\ TypeInv /\ LogTypeOK /\ LogTypeOK' /\ CommitKnown /\ CommitKnown'
      /\ stateMachine \in [Node -> Seq(Data)]
  BY DEF CommonInv, BaseInv, TypeInv, LogInv, CommitInv, LogTypeOK
<1>1. ASSUME NEW n \in Node, NEW c \in Int, NEW e,
             stateMachine' = [stateMachine EXCEPT ![n] = Applied(@, e, c)]
      PROVE  MachineStep
  <2> DEFINE s == Applied(stateMachine[n], e, c)
  <2>1. s = stateMachine'[n] /\ s \in Seq(Data)
    BY <1>0, <1>1 DEF LogTypeOK
  <2>2. CASE Len(stateMachine[n]) > c
    <3>1. stateMachine'[n] = stateMachine[n]
      BY <1>0, <1>1, <2>2 DEF Applied
    <3>2. stateMachine' = stateMachine
      BY <1>0, <1>1, <3>1
    <3> QED
      BY <3>2 DEF MachineStep
  <2>3. CASE ~ (Len(stateMachine[n]) > c)
    <3>1. DOMAIN s = 1..(c + 1)
      BY <2>3 DEF Applied
    <3>2. Len(s) = c + 1
      <4>1. Len(stateMachine[n]) \in Nat /\ c + 1 \in Nat
        BY <1>0, <2>3
      <4> HIDE DEF s
      <4> QED
        BY <2>1, <3>1, <4>1, LenProperties
    <3>3. stateMachine' = [stateMachine EXCEPT ![n] = s] /\ Len(s) > Len(stateMachine[n])
      BY <1>0, <1>1, <2>3, <3>2
    <3> QED
      BY <2>1, <3>3 DEF MachineStep
  <2> QED
    BY <2>2, <2>3
<1>2. ASSUME stateMachine' = stateMachine
      PROVE  MachineStep
  BY <1>2 DEF MachineStep
<1>3. MachineStep
  <2>1. CASE Quiet
    BY <1>2, <2>1 DEF Quiet
  <2>2. ASSUME NEW k \in Node, NEW d \in Data, Propose(k, d)
        PROVE  MachineStep
    BY <1>2, <2>2 DEF Propose
  <2>3. ASSUME NEW k \in Node, NEW q \in Node, NEW th \in Thread, SendAppend(k, q, th)
        PROVE  MachineStep
    BY <1>2, <2>3 DEF SendAppend, logVars
  <2>4. ASSUME NEW th \in Thread, HandleAppendEntries(th)
        PROVE  MachineStep
    <3> DEFINE m == rpc[th]
               new == NewLog(log[m.peer], m)
               c == IF Consistent(log[m.peer], m.prevLogIndex, m.prevLogTerm)
                    THEN NewCommitIndex(commitIndex[m.peer], Len(new), m.leaderCommit)
                    ELSE commitIndex[m.peer]
    <3>1. m.peer \in Node
      BY <1>0, <2>4, HandledRequest
    <3>2. /\ stateMachine' = [stateMachine EXCEPT ![m.peer] = Applied(@, new, c)]
          /\ commitIndex' = [commitIndex EXCEPT ![m.peer] = c]
      BY <2>4 DEF HandleAppendEntries
    <3> HIDE DEF m, new, c
    <3>3. c \in Int
      BY <1>0, <3>1, <3>2 DEF LogTypeOK, LogPosition
    <3> QED
      BY <1>1, <3>1, <3>2, <3>3
  <2>5. ASSUME NEW k \in Node, NEW u \in Term, WinElection(k, u)
        PROVE  MachineStep
    BY <1>2, <2>5 DEF WinElection, logVars
  <2>6. ASSUME NEW th \in Thread, AppendSucceeds(th)
        PROVE  MachineStep
    <3>1. rpc[th].leader \in Node
      BY <1>0, <2>6, RpcKinds DEF TypeInv, AppendInv, AppendRequest, AppendReply, AppendSucceeds,
         LeadsTermOf, Idle
    <3>2. PICK c \in LogPosition :
             stateMachine' = [stateMachine EXCEPT ![rpc[th].leader] =
                                 Applied(@, log[rpc[th].leader], c)]
      BY <2>6 DEF AppendSucceeds
    <3>3. c \in Int
      BY DEF LogPosition
    <3> QED
      BY <1>1, <3>1, <3>2, <3>3
  <2> QED
    BY <1>0, <2>1, <2>2, <2>3, <2>4, <2>5, <2>6, StepKinds
<1>4. ASSUME NEW n \in Node, NEW j \in 1..Len(stateMachine[n])
      PROVE  j \in 1..Len(stateMachine'[n]) /\ stateMachine'[n][j] = stateMachine[n][j]
  <2>1. Len(stateMachine[n]) <= Len(stateMachine'[n]) /\ Len(stateMachine'[n]) \in Nat
    <3>1. stateMachine'[n] \in Seq(Data)
      BY <1>0 DEF LogTypeOK
    <3>2. Len(stateMachine'[n]) \in Nat
      BY <3>1, LenProperties
    <3>3. stateMachine \in [Node -> Seq(Data)] /\ Len(stateMachine[n]) \in Nat
      <4>1. stateMachine \in [Node -> Seq(Data)]
        BY <1>0 DEF LogTypeOK
      <4>2. stateMachine[n] \in Seq(Data)
        BY <4>1
      <4> QED
        BY <4>1, <4>2, LenProperties
    <3>4. Len(stateMachine[n]) <= Len(stateMachine'[n])
      <4>1. CASE stateMachine' = stateMachine
        BY <3>3, <4>1
      <4>2. CASE stateMachine' # stateMachine
        <5>1. PICK k \in Node, s \in Seq(Data) :
                 /\ stateMachine' = [stateMachine EXCEPT ![k] = s]
                 /\ Len(s) > Len(stateMachine[k])
          BY <1>3, <4>2 DEF MachineStep
        <5> QED
          BY <3>2, <3>3, <5>1
      <4> QED
        BY <4>1, <4>2
    <3> QED
      BY <3>2, <3>4
  <2>2. j \in 1..Len(stateMachine'[n])
    BY <1>0, <2>1
  <2>3. stateMachine'[n][j] = log'[n][j].data
    BY <1>0, <2>2 DEF CommitKnown, Known
  <2>4. stateMachine[n][j] = log'[n][j].data
    BY <1>0, KeptBlocks
  <2> QED
    BY <2>2, <2>3, <2>4
<1> QED
  BY <1>3, <1>4

\* A state machine that grows learns blocks that are agreed upon, or agrees upon more.
LEMMA AgreedStep ==
    ASSUME CommonInv, CommonInv', CommitInv, CommitInv', CandidateAsks, Next, Node # {},
           stateMachine' # stateMachine
    PROVE  Agreement!Next
<1> USE RaftAssumption
<1> DEFINE k == CHOOSE n \in Node : \A m \in Node : Len(stateMachine[m]) <= Len(stateMachine[n])
           l == CHOOSE n \in Node : \A m \in Node : Len(stateMachine'[m]) <= Len(stateMachine'[n])
           L == stateMachine[k]
           M == stateMachine'[l]
<1>1. LongestMachine = L /\ LongestMachine' = M
  BY DEF LongestMachine
<1>2. /\ stateMachine \in [Node -> Seq(Data)] /\ stateMachine' \in [Node -> Seq(Data)]
      /\ \A n \in Node : Len(stateMachine[n]) <= MaxLog
      /\ \A n \in Node : Len(stateMachine'[n]) <= MaxLog
  <2>1. MachinesAlike /\ MachinesAlike'
    BY MachinesAgreeNow, MachinesAgreeNext
  <2> QED
    BY <2>1 DEF MachinesAlike
<1>3. k \in Node /\ \A m \in Node : Len(stateMachine[m]) <= Len(L)
  BY <1>2, LongestOf
<1>4. l \in Node /\ \A m \in Node : Len(stateMachine'[m]) <= Len(M)
  BY <1>2, LongestOf
<1> HIDE DEF k, l
<1>5. L \in Seq(Data) /\ M \in Seq(Data) /\ Len(L) \in Nat /\ Len(M) \in Nat /\ Len(M) <= MaxLog
  BY <1>2, <1>3, <1>4
<1>6. PICK n \in Node, s \in Seq(Data) :
         stateMachine' = [stateMachine EXCEPT ![n] = s] /\ Len(s) > Len(stateMachine[n])
  BY MachineSteps DEF MachineStep
<1>7. s = stateMachine'[n] /\ Len(s) \in Nat /\ Len(stateMachine[n]) \in Nat
  BY <1>2, <1>6
\* The longest machine is extended, and whatever a machine shares with it stays.
<1>8. \A j \in 1..Len(L) : j \in 1..Len(stateMachine'[k]) /\ stateMachine'[k][j] = L[j]
  BY <1>3, MachineSteps
<1>9. ASSUME NEW p \in Node, NEW j \in 1..Len(L), j \in 1..Len(stateMachine'[p])
      PROVE  stateMachine'[p][j] = L[j]
  <2>1. j \in 1..Len(stateMachine'[k]) /\ stateMachine'[k][j] = L[j]
    BY <1>8
  <2> QED
    BY <1>3, <1>9, <2>1, MachinesAgreeNext DEF MachinesAlike
<1>10. CASE Len(s) <= Len(L)
  <2>1. k # n /\ stateMachine'[k] = L
    BY <1>2, <1>3, <1>6, <1>7, <1>10
  <2>2. Len(M) = Len(L)
    <3>1. Len(M) >= Len(L)
      BY <1>3, <1>4, <2>1
    <3>2. CASE l = n
      BY <1>5, <1>7, <1>10, <3>1, <3>2
    <3>3. CASE l # n
      <4>1. M = stateMachine[l]
        BY <1>2, <1>4, <1>6, <3>3
      <4> QED
        BY <1>3, <1>4, <1>5, <3>1, <4>1
    <3> QED
      BY <3>2, <3>3
  <2>3. M = L
    <3>1. \A j \in 1..Len(M) : M[j] = L[j]
      BY <1>4, <1>9, <2>2
    <3> HIDE DEF L, M
    <3> QED
      BY <1>5, <2>2, <3>1, SeqEqual
  <2>4. s = SubSeq(L, 1, Len(s))
    <3> DEFINE r == SubSeq(L, 1, Len(s))
    <3>1. \A j \in 1..Len(s) : j \in 1..Len(L) /\ s[j] = L[j]
      BY <1>5, <1>6, <1>7, <1>9, <1>10
    <3>2. \A j \in 1..Len(s) : L[j] \in Data
      BY <1>5, <3>1, ElementOfSeq
    <3>3. /\ r \in Seq(Data)
          /\ Len(r) = IF 1 <= Len(s) THEN Len(s) - 1 + 1 ELSE 0
          /\ \A j \in 1..(Len(s) - 1 + 1) : r[j] = L[1 + j - 1]
      BY <1>7, <3>2, SubSeqProperties
    <3> HIDE DEF r, L
    <3>4. Len(r) = Len(s) /\ Len(s) >= 1
      BY <1>6, <1>7, <3>3
    <3>5. ASSUME NEW j \in 1..Len(s)
          PROVE  s[j] = r[j]
      BY <1>7, <3>1, <3>3
    <3>6. s = r
      BY <1>6, <3>3, <3>4, <3>5, SeqEqual
    <3> QED
      BY <3>6 DEF r
  <2>5. Len(s) \in (Len(stateMachine[n]) + 1)..Len(L)
    BY <1>5, <1>6, <1>7, <1>10
  <2>6. Agreement!Learn(n, Len(s))
    BY <1>1, <1>6, <2>3, <2>4 DEF Agreement!Learn
  <2> QED
    BY <1>1, <2>5, <2>6 DEF Agreement!Next
<1>11. CASE Len(s) > Len(L)
  <2>1. M = s
    <3>1. CASE l # n
      <4>1. M = stateMachine[l]
        BY <1>2, <1>4, <1>6, <3>1
      <4>2. Len(M) <= Len(L) /\ Len(s) <= Len(M)
        BY <1>3, <1>4, <1>7, <4>1
      <4> QED
        BY <1>5, <1>7, <1>11, <4>2
    <3>2. CASE l = n
      BY <1>7, <3>2
    <3> QED
      BY <3>1, <3>2
  <2> DEFINE i == Len(s) - Len(L)
             blocks == [j \in 1..i |-> s[Len(L) + j]]
  <2>2. i \in Nat /\ i >= 1 /\ i \in 1..(MaxLog - Len(L))
    BY <1>5, <1>7, <1>11, <2>1
  <2>3. blocks \in [1..i -> Data] /\ blocks \in Seq(Data) /\ Len(blocks) = i
    <3>1. \A j \in 1..i : Len(L) + j \in 1..Len(s) /\ s[Len(L) + j] \in Data
      <4>1. \A j \in 1..i : Len(L) + j \in 1..Len(s)
        BY <1>5, <1>7, <1>11
      <4> QED
        BY <1>6, <4>1, ElementOfSeq
    <3>2. blocks \in [1..i -> Data]
      BY <3>1
    <3> QED
      BY <2>2, <3>2
  <2>4. s = L \o blocks
    <3> DEFINE r == L \o blocks
    <3>1. /\ r \in Seq(Data) /\ Len(r) = Len(L) + i
          /\ \A j \in 1..(Len(L) + i) : r[j] = IF j <= Len(L) THEN L[j] ELSE blocks[j - Len(L)]
      <4>1. L \in Seq(Data) /\ blocks \in Seq(Data)
        BY <1>5, <2>3
      <4>2. Len(blocks) = i
        BY <2>3
      <4> HIDE DEF L, blocks, i
      <4>3. /\ r \in Seq(Data) /\ Len(r) = Len(L) + Len(blocks)
            /\ \A j \in 1..(Len(L) + Len(blocks)) :
                  r[j] = IF j <= Len(L) THEN L[j] ELSE blocks[j - Len(L)]
        BY <4>1, ConcatProperties
      <4> QED
        BY <4>2, <4>3
    <3> HIDE DEF r
    <3>2. Len(r) = Len(s)
      BY <1>5, <1>7, <3>1
    <3>3. ASSUME NEW j \in 1..Len(s)
          PROVE  s[j] = r[j]
      <4>1. r[j] = IF j <= Len(L) THEN L[j] ELSE blocks[j - Len(L)]
        BY <3>1, <3>2
      <4>2. CASE j <= Len(L)
        <5>1. j \in 1..Len(L)
          BY <1>5, <4>2
        <5>2. s[j] = L[j]
          BY <1>7, <1>9, <5>1
        <5> QED
          BY <4>1, <4>2, <5>2
      <4>3. CASE ~ j <= Len(L)
        <5>1. j - Len(L) \in 1..i /\ Len(L) + (j - Len(L)) = j
          BY <1>5, <1>7, <4>3
        <5>2. blocks[j - Len(L)] = s[j]
          BY <5>1
        <5> QED
          BY <4>1, <4>3, <5>2
      <4> QED
        BY <4>2, <4>3
    <3>4. s = r
      BY <1>6, <3>1, <3>2, <3>3, SeqEqual
    <3> QED
      BY <3>4 DEF r
  <2> HIDE DEF blocks, i
  <2>5. blocks \in Agreement!Batch(MaxLog - Len(LongestMachine))
    BY <1>1, <2>2, <2>3 DEF Agreement!Batch
  <2>6. Agreement!Agree(n, blocks)
    BY <1>1, <1>6, <2>1, <2>4 DEF Agreement!Agree
  <2> QED
    BY <2>5, <2>6 DEF Agreement!Next
<1> QED
  BY <1>5, <1>7, <1>10, <1>11

\* The state machines that GET /state shows are prefixes of one sequence of blocks that
\* only grows, in every behaviour in which no request is overtaken.
THEOREM AgreedLogImplemented == ASSUME Node # {}
                                PROVE  Spec /\ []NoOvertaking => ImplementsAgreedLog
<1>1. Init => Agreement!Init
  <2> SUFFICES ASSUME Init
               PROVE  Agreement!Init
    OBVIOUS
  <2>1. stateMachine = [n \in Node |-> << >>]
    BY DEF Init
  <2>2. stateMachine \in [Node -> Seq(Data)] /\ \A n \in Node : Len(stateMachine[n]) <= MaxLog
    BY <2>1, EmptySeq, RaftAssumption
  <2>3. LongestMachine = << >>
    BY <2>1, <2>2, LongestOf DEF LongestMachine
  <2> QED
    BY <2>1, <2>3 DEF Agreement!Init
<1>2. CommonInv /\ CommonInv' /\ CommitInv /\ CommitInv' /\ CandidateAsks /\ [Next]_vars
        => [Agreement!Next]_<<LongestMachine, stateMachine>>
  <2> SUFFICES ASSUME CommonInv, CommonInv', CommitInv, CommitInv', CandidateAsks, [Next]_vars
               PROVE  [Agreement!Next]_<<LongestMachine, stateMachine>>
    OBVIOUS
  <2>1. CASE stateMachine' = stateMachine
    BY <2>1 DEF LongestMachine
  <2>2. CASE stateMachine' # stateMachine
    <3>1. Next
      BY <2>2 DEF vars, logVars
    <3> QED
      BY <2>2, <3>1, AgreedStep
  <2> QED
    BY <2>1, <2>2
<1> QED
  BY <1>1, <1>2, CommitInvariant, CommonInvariant, CandidateInvariant, PTL
  DEF Spec, ImplementsAgreedLog, Agreement!Spec

=============================================================================
