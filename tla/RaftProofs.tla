----------------------------- MODULE RaftProofs -----------------------------
(***************************************************************************)
(* Theorems about Raft for every cluster, every bound and every number of  *)
(* threads: type correctness, at most one leader elected per term, that    *)
(* the leader a node reports was elected, and that logs match.             *)
(***************************************************************************)
EXTENDS Raft, TLAPS, FiniteSetTheorems, SequenceTheorems

-----------------------------------------------------------------------------
(***************************************************************************)
(* Type correctness.  TypeOK is not inductive: that a log stays within     *)
(* MaxLog depends on the AppendEntries under way, and that _apply_logs     *)
(* stays within the log depends on the state machine being ahead of the    *)
(* commit index whenever the commit index does not move.  A leader's term  *)
(* is one it was elected in, hence not 0, which makes it an entry's term.  *)
(***************************************************************************)
Fits(v) ==
    /\ v.phase = "sent" => v.prevLogIndex + 1 + Len(v.entries) <= MaxLog
    /\ v.phase = "replied" => v.prevLogIndex + 1 + v.sent <= MaxLog

RpcFits == \A th \in Thread : Fits(rpc[th])

AppliedToCommit == \A n \in Node : Len(stateMachine[n]) > commitIndex[n]

LogInv == LogTypeOK /\ AppliedToCommit

AppendInv == AppendTypeOK /\ RpcFits

LeaderElected == \A n \in Node : state[n] = "LEADER" => currentTerm[n] \in won[n]

TypeInv ==
    NodeTypeOK /\ LogInv /\ LeaderTypeOK /\ ElectionTypeOK /\ AppendInv /\ LeaderElected

\* Applied(s, entries, c) is a sequence of data blocks longer than c, provided
\* that the entries up to c exist.
LEMMA AppliedType ==
    ASSUME NEW s \in Seq(Data), NEW entries \in Seq(Entry), NEW c \in Int, c >= -1,
           c < Len(entries) \/ c < Len(s)
    PROVE  /\ Applied(s, entries, c) \in Seq(Data)
           /\ Len(Applied(s, entries, c)) > c
<1>1. CASE Len(s) > c
  BY <1>1 DEF Applied
<1>2. CASE ~ (Len(s) > c)
  <2> DEFINE f == [i \in 1..(c + 1) |-> IF i <= Len(s) THEN s[i] ELSE entries[i].data]
  <2>1. Applied(s, entries, c) = f
    BY <1>2 DEF Applied
  <2>2. c < Len(entries) /\ Len(s) \in Nat /\ c + 1 \in Nat
    BY <1>2
  <2>3. ASSUME NEW i \in 1..(c + 1)
        PROVE  f[i] \in Data
    <3>1. CASE i <= Len(s)
      BY <2>2, <3>1, ElementOfSeq
    <3>2. CASE ~ (i <= Len(s))
      <4>1. i \in 1..Len(entries)
        BY <2>2, LenProperties
      <4>2. entries[i] \in Entry
        BY <4>1, ElementOfSeq
      <4> QED
        BY <3>2, <4>2 DEF Entry
    <3> QED
      BY <3>1, <3>2
  <2>4. f \in [1..(c + 1) -> Data]
    BY <2>3
  <2>5. f \in Seq(Data) /\ Len(f) = c + 1
    BY <2>2, <2>4
  <2> QED
    BY <2>1, <2>2, <2>5
<1> QED
  BY <1>1, <1>2

\* What is left of a log behind a position ends within the bound the log has.
LEMMA TailFits ==
    ASSUME NEW length \in Int, NEW prev \in Int, NEW bound \in Int, NEW rest,
           length <= bound, prev + 1 <= bound,
           rest = IF prev + 2 <= length THEN length - (prev + 2) + 1 ELSE 0
    PROVE  prev + 1 + rest <= bound
OBVIOUS

\* The term of the last entry of a log is a term, or 0.
LEMMA LastTermType ==
    ASSUME NEW entries \in Seq(Entry), MaxTerm \in Nat
    PROVE  LastTermOf(entries) \in 0..MaxTerm
<1>1. CASE entries = <<>>
  BY <1>1 DEF LastTermOf
<1>2. CASE entries # <<>>
  <2>1. Len(entries) \in 1..Len(entries)
    BY <1>2, EmptySeq
  <2>2. entries[Len(entries)] \in Entry
    BY <2>1, ElementOfSeq
  <2> QED
    BY <1>2, <2>2 DEF LastTermOf, Entry, Term
<1> QED
  BY <1>1, <1>2

\* What a thread of each phase holds.
LEMMA RpcKinds ==
    ASSUME AppendTypeOK, NEW th \in Thread
    PROVE  /\ rpc[th].phase = "sent" => rpc[th] \in AppendRequest
           /\ rpc[th].phase = "replied" => rpc[th] \in AppendReply
           /\ rpc[th] # Idle => rpc[th] \in AppendRequest \cup AppendReply
  BY DEF AppendTypeOK, Idle, AppendRequest, AppendReply

\* A thread takes a snapshot, gets an answer or ends: the others are as before.
LEMMA RpcUpdate ==
    ASSUME AppendInv, NEW th \in Thread, NEW v \in {Idle} \cup AppendRequest \cup AppendReply,
           Fits(v), rpc' = [rpc EXCEPT ![th] = v], spawned' \in [Node -> SUBSET Node]
    PROVE  AppendInv'
<1>1. AppendTypeOK'
  BY DEF AppendInv, AppendTypeOK
<1>2. ASSUME NEW k \in Thread
      PROVE  Fits(rpc'[k])
  <2>1. CASE k = th
    BY <2>1 DEF AppendInv, AppendTypeOK
  <2>2. CASE k # th
    <3>1. rpc'[k] = rpc[k]
      BY <2>2 DEF AppendInv, AppendTypeOK
    <3> QED
      BY <3>1 DEF AppendInv, RpcFits
  <2> QED
    BY <2>1, <2>2
<1>3. RpcFits'
  BY <1>2 DEF RpcFits, Fits
<1> QED
  BY <1>1, <1>3 DEF AppendInv

\* A finished thread has no position.
LEMMA IdleFits == Fits(Idle)
  BY DEF Fits, Idle

\* The answer to a request that fits is an answer that fits.
LEMMA AnswerType ==
    ASSUME NEW m \in AppendRequest, Fits(m), NEW replyTerm \in Term, NEW success \in BOOLEAN
    PROVE  Answer(m, replyTerm, success) \in AppendReply /\ Fits(Answer(m, replyTerm, success))
<1> USE RaftAssumption
<1>1. /\ m.phase = "sent" /\ m.leader \in Node /\ m.peer \in Node /\ m.term \in Term
      /\ m.prevLogIndex \in LogPosition /\ m.entries \in Seq(Entry)
  BY DEF AppendRequest
<1>2. Len(m.entries) \in Nat /\ m.prevLogIndex + 1 + Len(m.entries) <= MaxLog
  BY <1>1 DEF Fits
<1>3. Len(m.entries) \in 0..MaxLog
  BY <1>1, <1>2 DEF LogPosition
<1> QED
  BY <1>1, <1>2, <1>3 DEF Answer, AppendReply, Fits

\* handle_append_entries leaves a log of entries within the bound.
LEMMA NewLogType ==
    ASSUME NEW old \in Seq(Entry), Len(old) <= MaxLog, NEW m \in AppendRequest, Fits(m)
    PROVE  NewLog(old, m) \in Seq(Entry) /\ Len(NewLog(old, m)) <= MaxLog
<1> USE RaftAssumption
<1> DEFINE prev == m.prevLogIndex
<1>1. /\ prev \in Int /\ prev >= -1 /\ m.entries \in Seq(Entry) /\ Len(m.entries) \in Nat
      /\ prev + 1 + Len(m.entries) <= MaxLog /\ Len(old) \in Nat
  BY DEF AppendRequest, Fits, LogPosition
<1>2. CASE NewLog(old, m) = old
  BY <1>2
<1>3. CASE prev < Len(old) /\ NewLog(old, m) = SubSeq(old, 1, prev + 1) \o m.entries
  <2>1. \A i \in 1..(prev + 1) : old[i] \in Entry
    BY <1>1, <1>3, ElementOfSeq
  <2>2. SubSeq(old, 1, prev + 1) \in Seq(Entry) /\ Len(SubSeq(old, 1, prev + 1)) = prev + 1
    BY <1>1, <2>1, SubSeqProperties
  <2>3. /\ SubSeq(old, 1, prev + 1) \o m.entries \in Seq(Entry)
        /\ Len(SubSeq(old, 1, prev + 1) \o m.entries) = prev + 1 + Len(m.entries)
    BY <1>1, <2>2, ConcatProperties
  <2> QED
    BY <1>1, <1>3, <2>3
<1>4. CASE prev >= 0 /\ prev < Len(old) /\ NewLog(old, m) = SubSeq(old, 1, prev)
  <2>1. \A i \in 1..prev : old[i] \in Entry
    BY <1>1, <1>4, ElementOfSeq
  <2>2. SubSeq(old, 1, prev) \in Seq(Entry) /\ Len(SubSeq(old, 1, prev)) = prev
    BY <1>1, <1>4, <2>1, SubSeqProperties
  <2> QED
    BY <1>1, <1>4, <2>2
<1> QED
  BY <1>1, <1>2, <1>3, <1>4 DEF NewLog, Consistent

\* A leader's term is a term.
LEMMA LeaderHasTerm ==
    ASSUME ElectionTypeOK, LeaderElected, NEW n \in Node, state[n] = "LEADER"
    PROVE  currentTerm[n] \in Term
  BY DEF ElectionTypeOK, LeaderElected

\* __init__ establishes the invariant.
LEMMA TypeInit == Init => TypeInv
  BY RaftAssumption, EmptySeq
     DEF Init, TypeInv, NodeTypeOK, LogInv, LogTypeOK, AppliedToCommit, LeaderTypeOK,
         ElectionTypeOK, AppendInv, AppendTypeOK, RpcFits, Fits,
         LeaderElected, NoElection, ElectionThread, LogPosition, Term, Idle

\* Every step of every thread keeps it.
LEMMA TypeStep == TypeInv /\ [Next]_vars => TypeInv'
<1> SUFFICES ASSUME TypeInv, [Next]_vars
             PROVE  TypeInv'
  OBVIOUS
<1> USE RaftAssumption
<1>0. NodeTypeOK /\ LogInv /\ LeaderTypeOK /\ ElectionTypeOK /\ AppendInv /\ LeaderElected
  BY DEF TypeInv
<1>1. ASSUME NEW n \in Node, ElectionTimeout(n)
      PROVE  TypeInv'
  <2>1. NodeTypeOK'
    BY <1>0, <1>1
       DEF NodeTypeOK, ElectionTimeout, raftVars, Term
  <2>2. ElectionTypeOK'
    <3>1. currentTerm[n] + 1 \in Term
      BY <1>0, <1>1 DEF ElectionTimeout, Term
    <3>2. LastLogIndex(n) \in LogPosition /\ LastLogTerm(n) \in 0..MaxTerm
      BY <1>0, LastTermType, LenProperties
         DEF LogInv, LogTypeOK, LogPosition, LastLogIndex, LastLogTerm
    <3>3. [alive |-> TRUE, unasked |-> Peers(n), asked |-> Nil,
           lastLogIndex |-> LastLogIndex(n), lastLogTerm |-> LastLogTerm(n)]
             \in ElectionThread
      BY <3>2 DEF ElectionThread, Peers
    <3>4. election' \in [Node -> [Term -> ElectionThread]]
      BY <1>0, <1>1, <3>1, <3>3 DEF ElectionTypeOK, ElectionTimeout
    <3>5. votes' \in [Node -> [Term -> SUBSET Node]]
      BY <1>0, <1>1, <3>1 DEF ElectionTypeOK, ElectionTimeout
    <3> QED
      BY <1>0, <1>1, <3>4, <3>5 DEF ElectionTypeOK, ElectionTimeout
  <2>3. LogInv' /\ LeaderTypeOK' /\ AppendInv'
    BY <1>0, <1>1 DEF ElectionTimeout, LogInv, LogTypeOK, AppliedToCommit, logVars, LeaderTypeOK, leaderVars, AppendInv, AppendTypeOK, RpcFits, appendVars
  <2>4. LeaderElected'
    BY <1>0, <1>1 DEF LeaderElected, NodeTypeOK, ElectionTimeout
  <2> QED
    BY <2>1, <2>2, <2>3, <2>4 DEF TypeInv
<1>2. ASSUME NEW n \in Node, TimeoutNotElapsed(n)
      PROVE  TypeInv'
  <2>1. NodeTypeOK'
    BY <1>0, <1>2
       DEF NodeTypeOK, TimeoutNotElapsed, raftVars
  <2>2. LogInv' /\ LeaderTypeOK' /\ ElectionTypeOK' /\ AppendInv' /\ LeaderElected'
    BY <1>0, <1>2 DEF TimeoutNotElapsed, LeaderElected, raftVars, electionVars, LogInv, LogTypeOK, AppliedToCommit, logVars, LeaderTypeOK, leaderVars, ElectionTypeOK, AppendInv, AppendTypeOK, RpcFits, appendVars
  <2> QED
    BY <2>1, <2>2 DEF TypeInv
<1>3. ASSUME NEW n \in Node, FailLeader(n)
      PROVE  TypeInv'
  <2>1. NodeTypeOK'
    BY <1>0, <1>3
       DEF NodeTypeOK, FailLeader, raftVars
  <2>2. AppendInv'
    BY <1>0, <1>3
       DEF AppendInv, AppendTypeOK, RpcFits, FailLeader, appendVars, Peers
  <2>3. LogInv' /\ LeaderTypeOK' /\ ElectionTypeOK' /\ LeaderElected'
    BY <1>0, <1>3 DEF FailLeader, LeaderElected, raftVars, electionVars, LogInv, LogTypeOK, AppliedToCommit, logVars, LeaderTypeOK, leaderVars, ElectionTypeOK
  <2> QED
    BY <2>1, <2>2, <2>3 DEF TypeInv
<1>4. ASSUME NEW n \in Node, NEW t \in Term, NEW p \in Node, AskVote(n, t, p)
      PROVE  TypeInv'
  <2>1. ElectionTypeOK'
    <3>1. election[n][t] \in ElectionThread
      BY <1>0 DEF ElectionTypeOK
    <3>2. [election[n][t] EXCEPT !.asked = p, !.unasked = @ \ {p}] \in ElectionThread
      BY <3>1 DEF ElectionThread
    <3>3. election' = [election EXCEPT ![n][t] =
                          [election[n][t] EXCEPT !.asked = p, !.unasked = @ \ {p}]]
      BY <1>0, <1>4 DEF AskVote, ElectionTypeOK
    <3>4. election' \in [Node -> [Term -> ElectionThread]]
      BY <1>0, <3>2, <3>3 DEF ElectionTypeOK
    <3>5. [candidate |-> n, term |-> t, peer |-> p,
           lastLogIndex |-> election[n][t].lastLogIndex,
           lastLogTerm |-> election[n][t].lastLogTerm] \in VoteRequest
      BY <3>1 DEF ElectionThread, VoteRequest
    <3> QED
      BY <1>0, <1>4, <3>4, <3>5 DEF ElectionTypeOK, AskVote
  <2>2. NodeTypeOK' /\ LogInv' /\ LeaderTypeOK' /\ AppendInv' /\ LeaderElected'
    BY <1>0, <1>4 DEF AskVote, LeaderElected, raftVars, electionVars, NodeTypeOK, LogInv, LogTypeOK, AppliedToCommit, logVars, LeaderTypeOK, leaderVars, AppendInv, AppendTypeOK, RpcFits, appendVars
  <2> QED
    BY <2>1, <2>2 DEF TypeInv
<1>5. ASSUME NEW m \in voteRequests, HandleRequestVote(m)
      PROVE  TypeInv'
  <2>1. NodeTypeOK'
    BY <1>0, <1>5
       DEF NodeTypeOK, HandleRequestVote, raftVars, ElectionTypeOK, VoteRequest, Term
  <2>2. ElectionTypeOK'
    <3> DEFINE newTerm == IF m.term > currentTerm[m.peer] THEN m.term
                          ELSE currentTerm[m.peer]
               reply == [candidate |-> m.candidate, term |-> m.term, peer |-> m.peer,
                         replyTerm |-> newTerm, granted |-> Grants(m)]
    <3>1. m.candidate \in Node /\ m.term \in Term /\ m.peer \in Node
      BY <1>0, <1>5 DEF ElectionTypeOK, VoteRequest
    <3>2. newTerm \in Term
      BY <1>0, <3>1 DEF NodeTypeOK, Term
    <3>3. Grants(m) \in BOOLEAN
      BY DEF Grants
    <3>4. reply \in VoteReply
      BY <3>1, <3>2, <3>3 DEF VoteReply
    <3>5. voteReplies' = voteReplies \/ voteReplies' = voteReplies \cup {reply}
      BY <1>5 DEF HandleRequestVote
    <3>6. voteRequests' \subseteq voteRequests /\ UNCHANGED <<election, votes, won>>
      BY <1>5 DEF HandleRequestVote
    <3> QED
      BY <1>0, <3>4, <3>5, <3>6 DEF ElectionTypeOK
  <2>3. LogInv' /\ LeaderTypeOK' /\ AppendInv'
    BY <1>0, <1>5 DEF HandleRequestVote, LogInv, LogTypeOK, AppliedToCommit, logVars, LeaderTypeOK, leaderVars, AppendInv, AppendTypeOK, RpcFits, appendVars
  <2>4. LeaderElected'
    BY <1>0, <1>5 DEF LeaderElected, NodeTypeOK, HandleRequestVote, ElectionTypeOK, VoteRequest, Term
  <2> QED
    BY <2>1, <2>2, <2>3, <2>4 DEF TypeInv
<1>6. ASSUME NEW r \in voteReplies, VoteReplyStepsDown(r)
      PROVE  TypeInv'
  <2>1. NodeTypeOK'
    BY <1>0, <1>6
       DEF NodeTypeOK, VoteReplyStepsDown, raftVars, StepDown, ElectionTypeOK, VoteReply, Term
  <2>2. ElectionTypeOK'
    BY <1>0, <1>6
       DEF ElectionTypeOK, VoteReplyStepsDown, electionVars, NoElection, ElectionThread, LogPosition, VoteReply
  <2>3. LogInv' /\ LeaderTypeOK' /\ AppendInv'
    BY <1>0, <1>6 DEF VoteReplyStepsDown, LogInv, LogTypeOK, AppliedToCommit, logVars, LeaderTypeOK, leaderVars, AppendInv, AppendTypeOK, RpcFits, appendVars
  <2>4. LeaderElected'
    BY <1>0, <1>6 DEF LeaderElected, NodeTypeOK, VoteReplyStepsDown, StepDown, ElectionTypeOK, VoteReply
  <2> QED
    BY <2>1, <2>2, <2>3, <2>4 DEF TypeInv
<1>7. ASSUME NEW r \in voteReplies, CountVote(r)
      PROVE  TypeInv'
  <2>1. ElectionTypeOK'
    <3>1. r.candidate \in Node /\ r.term \in Term /\ r.peer \in Node
      BY <1>0, <1>7 DEF ElectionTypeOK, VoteReply
    <3>2. election[r.candidate][r.term] \in ElectionThread
      BY <1>0, <3>1 DEF ElectionTypeOK
    <3>3. [election[r.candidate][r.term] EXCEPT !.asked = Nil] \in ElectionThread
      BY <3>2 DEF ElectionThread
    <3>4. election' = [election EXCEPT ![r.candidate][r.term] =
                          [election[r.candidate][r.term] EXCEPT !.asked = Nil]]
      BY <1>0, <1>7, <3>1 DEF CountVote, ElectionTypeOK
    <3>5. election' \in [Node -> [Term -> ElectionThread]]
      BY <1>0, <3>1, <3>3, <3>4 DEF ElectionTypeOK
    <3>6. votes' \in [Node -> [Term -> SUBSET Node]]
      BY <1>0, <1>7, <3>1 DEF ElectionTypeOK, CountVote
    <3> QED
      BY <1>0, <1>7, <3>5, <3>6 DEF ElectionTypeOK, CountVote
  <2>2. NodeTypeOK' /\ LogInv' /\ LeaderTypeOK' /\ AppendInv' /\ LeaderElected'
    BY <1>0, <1>7 DEF CountVote, LeaderElected, raftVars, electionVars, NodeTypeOK, LogInv, LogTypeOK, AppliedToCommit, logVars, LeaderTypeOK, leaderVars, AppendInv, AppendTypeOK, RpcFits, appendVars
  <2> QED
    BY <2>1, <2>2 DEF TypeInv
<1>8. ASSUME NEW n \in Node, NEW t \in Term, VoteRequestFails(n, t)
      PROVE  TypeInv'
  <2>1. ElectionTypeOK'
    <3>1. election[n][t] \in ElectionThread
      BY <1>0 DEF ElectionTypeOK
    <3>2. [election[n][t] EXCEPT !.asked = Nil] \in ElectionThread
      BY <3>1 DEF ElectionThread
    <3>3. election' = [election EXCEPT ![n][t] = [election[n][t] EXCEPT !.asked = Nil]]
      BY <1>0, <1>8 DEF VoteRequestFails, ElectionTypeOK
    <3>4. election' \in [Node -> [Term -> ElectionThread]]
      BY <1>0, <3>2, <3>3 DEF ElectionTypeOK
    <3>5. voteRequests' \subseteq voteRequests /\ voteReplies' \subseteq voteReplies
      BY <1>8 DEF VoteRequestFails
    <3> QED
      BY <1>0, <1>8, <3>4, <3>5 DEF ElectionTypeOK, VoteRequestFails
  <2>2. NodeTypeOK' /\ LogInv' /\ LeaderTypeOK' /\ AppendInv' /\ LeaderElected'
    BY <1>0, <1>8 DEF VoteRequestFails, LeaderElected, raftVars, electionVars, NodeTypeOK, LogInv, LogTypeOK, AppliedToCommit, logVars, LeaderTypeOK, leaderVars, AppendInv, AppendTypeOK, RpcFits, appendVars
  <2> QED
    BY <2>1, <2>2 DEF TypeInv
<1>9. ASSUME NEW n \in Node, NEW t \in Term, WinElection(n, t)
      PROVE  TypeInv'
  <2>1. NodeTypeOK'
    BY <1>0, <1>9
       DEF NodeTypeOK, WinElection, raftVars
  <2>2. LeaderTypeOK'
    <3> DEFINE next == [p \in Peers(n) |-> LastLogIndex(n) + 1]
               match == [p \in Peers(n) |-> -1]
    <3>1. nextIndex' = [nextIndex EXCEPT ![n] = next] /\ matchIndex' = [matchIndex EXCEPT ![n] = match]
      BY <1>9 DEF WinElection
    <3>2. LastLogIndex(n) + 1 \in 0..MaxLog /\ -1 \in LogPosition
      BY <1>0 DEF LogInv, LogTypeOK, LogPosition, LastLogIndex
    <3>3. next \in [Peers(n) -> 0..MaxLog] /\ match \in [Peers(n) -> LogPosition]
      BY <3>2
    <3> HIDE DEF next, match
    <3> QED
      BY <1>0, <3>1, <3>3 DEF LeaderTypeOK
  <2>3. ElectionTypeOK'
    BY <1>0, <1>9
       DEF ElectionTypeOK, WinElection, electionVars, NoElection, ElectionThread, LogPosition
  <2>4. AppendInv'
    BY <1>0, <1>9
       DEF AppendInv, AppendTypeOK, RpcFits, WinElection, appendVars, Spawn, Peers
  <2>5. LogInv'
    BY <1>0, <1>9 DEF WinElection, LogInv, LogTypeOK, AppliedToCommit, logVars
  <2>6. LeaderElected'
    BY <1>0, <1>9 DEF LeaderElected, NodeTypeOK, ElectionTypeOK, WinElection, ElectionWon
  <2> QED
    BY <2>1, <2>2, <2>3, <2>4, <2>5, <2>6 DEF TypeInv
<1>10. ASSUME NEW n \in Node, NEW t \in Term, LoseElection(n, t)
      PROVE  TypeInv'
  <2>1. ElectionTypeOK'
    BY <1>0, <1>10
       DEF ElectionTypeOK, LoseElection, electionVars, NoElection, ElectionThread, LogPosition
  <2>2. NodeTypeOK' /\ LogInv' /\ LeaderTypeOK' /\ AppendInv' /\ LeaderElected'
    BY <1>0, <1>10 DEF LoseElection, LeaderElected, raftVars, electionVars, NodeTypeOK, LogInv, LogTypeOK, AppliedToCommit, logVars, LeaderTypeOK, leaderVars, AppendInv, AppendTypeOK, RpcFits, appendVars
  <2> QED
    BY <2>1, <2>2 DEF TypeInv
<1>11. ASSUME NEW n \in Node, NEW d \in Data, Propose(n, d)
      PROVE  TypeInv'
  <2>1. LogInv'
    <3> DEFINE e == [term |-> currentTerm[n], data |-> d]
    <3>1. currentTerm[n] \in Term
      BY <1>0, <1>11, LeaderHasTerm DEF Propose
    <3>2. e \in Entry
      BY <3>1 DEF Entry
    <3>3. Append(log[n], e) \in Seq(Entry) /\ Len(Append(log[n], e)) = Len(log[n]) + 1
      BY <1>0, <3>2 DEF LogInv, LogTypeOK
    <3>4. log' \in [Node -> Seq(Entry)]
      BY <1>0, <1>11, <3>3 DEF LogInv, LogTypeOK, Propose
    <3>5. \A k \in Node : Len(log'[k]) <= MaxLog
      BY <1>0, <1>11, <3>3 DEF LogInv, LogTypeOK, Propose
    <3> QED
      BY <1>0, <1>11, <3>4, <3>5 DEF LogInv, LogTypeOK, AppliedToCommit, Propose
  <2>2. AppendInv'
    BY <1>0, <1>11
       DEF AppendInv, AppendTypeOK, RpcFits, Propose, appendVars, Spawn, Peers
  <2>3. NodeTypeOK' /\ LeaderTypeOK' /\ ElectionTypeOK' /\ LeaderElected'
    BY <1>0, <1>11 DEF Propose, LeaderElected, raftVars, electionVars, NodeTypeOK, LeaderTypeOK, leaderVars, ElectionTypeOK
  <2> QED
    BY <2>1, <2>2, <2>3 DEF TypeInv
<1>12. ASSUME NEW n \in Node, NEW p \in Node, NEW th \in Thread, SendAppend(n, p, th)
      PROVE  TypeInv'
  <2>1. AppendInv'
    <3> DEFINE prev == nextIndex[n][p] - 1
               prevTerm == IF prev \in 0..LastLogIndex(n) THEN log[n][prev + 1].term ELSE 0
               entries == SubSeq(log[n], prev + 2, Len(log[n]))
               m == [phase |-> "sent", leader |-> n, peer |-> p, term |-> currentTerm[n],
                     prevLogIndex |-> prev, prevLogTerm |-> prevTerm,
                     entries |-> entries, leaderCommit |-> commitIndex[n]]
    <3>1. currentTerm[n] \in Term
      BY <1>0, <1>12, LeaderHasTerm DEF SendAppend, MaySend
    <3>2. log[n] \in Seq(Entry) /\ Len(log[n]) \in Nat /\ Len(log[n]) <= MaxLog
      BY <1>0 DEF LogInv, LogTypeOK
    <3>3. nextIndex[n][p] \in 0..MaxLog
      BY <1>0, <1>12 DEF SendAppend, MaySend, LeaderTypeOK
    <3>4. prev \in LogPosition
      BY <3>3 DEF LogPosition
    <3>5. prevTerm \in 0..MaxTerm
      <4>1. CASE prev \in 0..LastLogIndex(n)
        <5>1. log[n][prev + 1] \in Entry
          BY <3>2, <4>1, ElementOfSeq DEF LastLogIndex
        <5> QED
          BY <4>1, <5>1 DEF Entry, Term
      <4> QED
        BY <4>1
    <3>6. /\ entries \in Seq(Entry)
          /\ Len(entries) = IF prev + 2 <= Len(log[n]) THEN Len(log[n]) - (prev + 2) + 1 ELSE 0
      <4>1. \A i \in (prev + 2)..Len(log[n]) : log[n][i] \in Entry
        BY <3>2, <3>3, ElementOfSeq
      <4>2. prev + 2 \in Int /\ Len(log[n]) \in Int
        BY <3>2, <3>3
      <4> QED
        BY <4>1, <4>2, SubSeqProperties
    <3>7. commitIndex[n] \in LogPosition
      BY <1>0 DEF LogInv, LogTypeOK
    <3>8. m \in AppendRequest
      BY <3>1, <3>4, <3>5, <3>6, <3>7 DEF AppendRequest
    <3>9. Fits(m)
      <4>1. prev + 1 + Len(entries) <= MaxLog
        <5>1. prev \in Int /\ prev + 1 <= MaxLog /\ MaxLog \in Int
          BY <3>3
        <5>2. Len(log[n]) \in Int /\ Len(log[n]) <= MaxLog
          BY <3>2
        <5> HIDE DEF prev, entries, m, prevTerm
        <5> QED
          BY ONLY <5>1, <5>2, <3>6, TailFits
      <4> HIDE DEF prev, prevTerm, entries
      <4> QED
        BY <4>1 DEF Fits
    <3>10. rpc' = [rpc EXCEPT ![th] = m]
      BY <1>12 DEF SendAppend
    <3>11. spawned' \in [Node -> SUBSET Node]
      BY <1>0, <1>12 DEF SendAppend, MaySend, AppendInv, AppendTypeOK
    <3> HIDE DEF m
    <3> QED
      BY <1>0, <3>8, <3>9, <3>10, <3>11, RpcUpdate
  <2>2. NodeTypeOK' /\ LogInv' /\ LeaderTypeOK' /\ ElectionTypeOK' /\ LeaderElected'
    BY <1>0, <1>12 DEF SendAppend, MaySend, LeaderElected, raftVars, electionVars, NodeTypeOK, LogInv, LogTypeOK, AppliedToCommit, logVars, LeaderTypeOK, leaderVars, ElectionTypeOK
  <2> QED
    BY <2>1, <2>2 DEF TypeInv
<1>13. ASSUME NEW n \in Node, NEW p \in Node, SendAppendReturns(n, p)
      PROVE  TypeInv'
  <2>1. AppendInv'
    BY <1>0, <1>13
       DEF AppendInv, AppendTypeOK, RpcFits, SendAppendReturns, appendVars
  <2>2. NodeTypeOK' /\ LogInv' /\ LeaderTypeOK' /\ ElectionTypeOK' /\ LeaderElected'
    BY <1>0, <1>13 DEF SendAppendReturns, LeaderElected, raftVars, electionVars, NodeTypeOK, LogInv, LogTypeOK, AppliedToCommit, logVars, LeaderTypeOK, leaderVars, ElectionTypeOK
  <2> QED
    BY <2>1, <2>2 DEF TypeInv
<1>14. ASSUME NEW th \in Thread, RejectStaleAppend(th)
      PROVE  TypeInv'
  <2>1. AppendInv'
    <3> DEFINE m == rpc[th]
    <3>1. m \in AppendRequest /\ Fits(m)
      BY <1>0, <1>14, RpcKinds DEF RejectStaleAppend, AppendInv, RpcFits
    <3>2. currentTerm[m.peer] \in Term
      BY <1>0, <1>14, <3>1 DEF RejectStaleAppend, AppendRequest, NodeTypeOK, Term
    <3>3. rpc' = [rpc EXCEPT ![th] = Answer(m, currentTerm[m.peer], FALSE)]
      BY <1>14 DEF RejectStaleAppend
    <3>4. spawned' \in [Node -> SUBSET Node]
      BY <1>0, <1>14 DEF RejectStaleAppend, AppendInv, AppendTypeOK
    <3> QED
      BY <1>0, <3>1, <3>2, <3>3, <3>4, AnswerType, RpcUpdate
  <2>2. NodeTypeOK' /\ LogInv' /\ LeaderTypeOK' /\ ElectionTypeOK' /\ LeaderElected'
    BY <1>0, <1>14 DEF RejectStaleAppend, LeaderElected, raftVars, electionVars, NodeTypeOK, LogInv, LogTypeOK, AppliedToCommit, logVars, LeaderTypeOK, leaderVars, ElectionTypeOK
  <2> QED
    BY <2>1, <2>2 DEF TypeInv
<1>15. ASSUME NEW th \in Thread, HandleAppendEntries(th)
      PROVE  TypeInv'
  <2>1. NodeTypeOK'
    BY <1>0, <1>15, RpcKinds
       DEF NodeTypeOK, HandleAppendEntries, raftVars, AppendInv, AppendRequest, Term
  <2>2. LogInv'
    <3> DEFINE m == rpc[th]
               q == m.peer
               ok == Consistent(log[q], m.prevLogIndex, m.prevLogTerm)
               new == NewLog(log[q], m)
               commit == IF ok THEN NewCommitIndex(commitIndex[q], Len(new), m.leaderCommit)
                         ELSE commitIndex[q]
    <3>1. m \in AppendRequest /\ Fits(m) /\ q \in Node /\ m.leaderCommit \in LogPosition
      BY <1>0, <1>15, RpcKinds DEF HandleAppendEntries, AppendInv, RpcFits, AppendRequest
    <3>2. /\ log[q] \in Seq(Entry) /\ Len(log[q]) <= MaxLog
          /\ commitIndex[q] \in LogPosition /\ stateMachine[q] \in Seq(Data)
          /\ commitIndex[q] < Len(stateMachine[q])
      BY <1>0, <3>1 DEF LogInv, LogTypeOK, AppliedToCommit
    <3>3. new \in Seq(Entry) /\ Len(new) <= MaxLog /\ Len(new) \in Nat
      BY <3>1, <3>2, NewLogType
    <3> HIDE DEF m, q, ok, new
    <3>4. commit \in LogPosition /\ (commit < Len(new) \/ commit < Len(stateMachine[q]))
      BY <3>1, <3>2, <3>3 DEF NewCommitIndex, LogPosition
    <3>5. commit \in Int /\ commit >= -1
      BY <3>4 DEF LogPosition
    <3> HIDE DEF commit
    <3>6. /\ Applied(stateMachine[q], new, commit) \in Seq(Data)
          /\ Len(Applied(stateMachine[q], new, commit)) > commit
      BY <3>2, <3>3, <3>4, <3>5, AppliedType
    <3>7. /\ log' = [log EXCEPT ![q] = new]
          /\ commitIndex' = [commitIndex EXCEPT ![q] = commit]
          /\ stateMachine' = [stateMachine EXCEPT ![q] = Applied(stateMachine[q], new, commit)]
      BY <1>15 DEF HandleAppendEntries, m, q, ok, new, commit
    <3> QED
      BY <1>0, <3>1, <3>3, <3>4, <3>6, <3>7 DEF LogInv, LogTypeOK, AppliedToCommit
  <2>3. AppendInv'
    <3> DEFINE m == rpc[th]
               ok == Consistent(log[m.peer], m.prevLogIndex, m.prevLogTerm)
    <3>1. m \in AppendRequest /\ Fits(m) /\ m.term \in Term
      BY <1>0, <1>15, RpcKinds DEF HandleAppendEntries, AppendInv, RpcFits, AppendRequest
    <3>2. ok \in BOOLEAN
      BY DEF Consistent
    <3>3. rpc' = [rpc EXCEPT ![th] = Answer(m, m.term, ok)]
      BY <1>15 DEF HandleAppendEntries
    <3>4. spawned' \in [Node -> SUBSET Node]
      BY <1>0, <1>15 DEF HandleAppendEntries, AppendInv, AppendTypeOK
    <3> QED
      BY <1>0, <3>1, <3>2, <3>3, <3>4, AnswerType, RpcUpdate
  <2>4. LeaderTypeOK' /\ ElectionTypeOK'
    BY <1>0, <1>15 DEF HandleAppendEntries, LeaderTypeOK, leaderVars, ElectionTypeOK, electionVars
  <2>5. LeaderElected'
    BY <1>0, <1>15, RpcKinds
       DEF LeaderElected, NodeTypeOK, HandleAppendEntries, electionVars, AppendInv, AppendRequest, AppendReply
  <2> QED
    BY <2>1, <2>2, <2>3, <2>4, <2>5 DEF TypeInv
<1>16. ASSUME NEW th \in Thread, IgnoreAppendReply(th)
      PROVE  TypeInv'
  <2>1. AppendInv'
    BY <1>0, <1>16, IdleFits, RpcUpdate DEF IgnoreAppendReply, AppendInv, AppendTypeOK
  <2>2. NodeTypeOK' /\ LogInv' /\ LeaderTypeOK' /\ ElectionTypeOK' /\ LeaderElected'
    BY <1>0, <1>16 DEF IgnoreAppendReply, LeaderElected, raftVars, electionVars, NodeTypeOK, LogInv, LogTypeOK, AppliedToCommit, logVars, LeaderTypeOK, leaderVars, ElectionTypeOK
  <2> QED
    BY <2>1, <2>2 DEF TypeInv
<1>17. ASSUME NEW th \in Thread, AppendReplyStepsDown(th)
      PROVE  TypeInv'
  <2>1. NodeTypeOK'
    BY <1>0, <1>17, RpcKinds
       DEF NodeTypeOK, AppendReplyStepsDown, raftVars, AppendInv, AppendReply, LeadsTermOf, StepDown, Term
  <2>2. AppendInv'
    BY <1>0, <1>17, IdleFits, RpcUpdate DEF AppendReplyStepsDown, AppendInv, AppendTypeOK
  <2>3. LogInv' /\ LeaderTypeOK' /\ ElectionTypeOK'
    BY <1>0, <1>17 DEF AppendReplyStepsDown, LogInv, LogTypeOK, AppliedToCommit, logVars, LeaderTypeOK, leaderVars, ElectionTypeOK, electionVars
  <2>4. LeaderElected'
    BY <1>0, <1>17, RpcKinds
       DEF LeaderElected, NodeTypeOK, AppendReplyStepsDown, electionVars, AppendInv, StepDown, LeadsTermOf, AppendRequest, AppendReply
  <2> QED
    BY <2>1, <2>2, <2>3, <2>4 DEF TypeInv
<1>18. ASSUME NEW th \in Thread, AppendSucceeds(th)
      PROVE  TypeInv'
  <2>1. LogInv'
    <3> DEFINE n == rpc[th].leader
    <3>1. n \in Node
      BY <1>0, <1>18, RpcKinds DEF AppendSucceeds, LeadsTermOf, AppendInv, AppendReply
    <3>2. PICK c \in LogPosition :
            /\ IsNewCommitIndex(n, matchIndex'[n], c)
            /\ commitIndex' = [commitIndex EXCEPT ![n] = c]
            /\ stateMachine' = [stateMachine EXCEPT ![n] = Applied(stateMachine[n], log[n], c)]
      BY <1>18 DEF AppendSucceeds
    <3>3. /\ log[n] \in Seq(Entry) /\ commitIndex[n] \in LogPosition
          /\ stateMachine[n] \in Seq(Data) /\ commitIndex[n] < Len(stateMachine[n])
          /\ log' = log
      BY <1>0, <1>18, <3>1 DEF LogInv, LogTypeOK, AppliedToCommit, AppendSucceeds
    <3>4. c \in Int /\ c >= -1 /\ (c < Len(log[n]) \/ c < Len(stateMachine[n]))
      BY <3>2, <3>3 DEF IsNewCommitIndex, LastLogIndex, LogPosition
    <3>5. /\ Applied(stateMachine[n], log[n], c) \in Seq(Data)
          /\ Len(Applied(stateMachine[n], log[n], c)) > c
      BY <3>3, <3>4, AppliedType
    <3> QED
      BY <1>0, <3>1, <3>2, <3>3, <3>5 DEF LogInv, LogTypeOK, AppliedToCommit
  <2>2. LeaderTypeOK'
    <3> DEFINE n == rpc[th].leader
               q == rpc[th].peer
               match == rpc[th].prevLogIndex + rpc[th].sent
    <3>1. /\ n \in Node /\ rpc[th] \in AppendReply /\ Fits(rpc[th])
      BY <1>0, <1>18, RpcKinds
         DEF AppendSucceeds, LeadsTermOf, AppendInv, RpcFits, AppendReply
    <3>2. match \in LogPosition /\ match + 1 \in 0..MaxLog
      <4>1. /\ rpc[th].prevLogIndex \in LogPosition /\ rpc[th].sent \in 0..MaxLog
            /\ rpc[th].prevLogIndex + 1 + rpc[th].sent <= MaxLog
        BY <3>1 DEF AppendReply, Fits
      <4> QED
        BY <4>1 DEF LogPosition
    <3>3. /\ matchIndex' = [matchIndex EXCEPT ![n][q] = match]
          /\ nextIndex' = [nextIndex EXCEPT ![n][q] = match + 1]
      BY <1>18 DEF AppendSucceeds
    <3> HIDE DEF n, q, match
    <3> QED
      BY <1>0, <3>1, <3>2, <3>3 DEF LeaderTypeOK
  <2>3. AppendInv'
    BY <1>0, <1>18, IdleFits, RpcUpdate DEF AppendSucceeds, AppendInv, AppendTypeOK
  <2>4. NodeTypeOK' /\ ElectionTypeOK' /\ LeaderElected'
    BY <1>0, <1>18 DEF AppendSucceeds, LeaderElected, raftVars, electionVars, NodeTypeOK, ElectionTypeOK
  <2> QED
    BY <2>1, <2>2, <2>3, <2>4 DEF TypeInv
<1>19. ASSUME NEW th \in Thread, HeartbeatSucceeds(th)
      PROVE  TypeInv'
  <2>1. AppendInv'
    BY <1>0, <1>19, IdleFits, RpcUpdate DEF HeartbeatSucceeds, AppendInv, AppendTypeOK
  <2>2. NodeTypeOK' /\ LogInv' /\ LeaderTypeOK' /\ ElectionTypeOK' /\ LeaderElected'
    BY <1>0, <1>19 DEF HeartbeatSucceeds, LeaderElected, raftVars, electionVars, NodeTypeOK, LogInv, LogTypeOK, AppliedToCommit, logVars, LeaderTypeOK, leaderVars, ElectionTypeOK
  <2> QED
    BY <2>1, <2>2 DEF TypeInv
<1>20. ASSUME NEW th \in Thread, AppendBacktracks(th)
      PROVE  TypeInv'
  <2>1. LeaderTypeOK'
    <3> DEFINE n == rpc[th].leader
               q == rpc[th].peer
    <3>1. n \in Node
      BY <1>0, <1>20, RpcKinds DEF AppendBacktracks, LeadsTermOf, AppendInv, AppendReply
    <3>2. /\ nextIndex' = [nextIndex EXCEPT ![n][q] = IF @ > 0 THEN @ - 1 ELSE 0]
          /\ matchIndex' = matchIndex
      BY <1>20 DEF AppendBacktracks
    <3> HIDE DEF n, q
    <3>3. nextIndex[n] \in [Peers(n) -> 0..MaxLog]
      BY <1>0, <3>1 DEF LeaderTypeOK
    <3>4. [nextIndex[n] EXCEPT ![q] = IF @ > 0 THEN @ - 1 ELSE 0] \in [Peers(n) -> 0..MaxLog]
      <4>1. CASE q \in Peers(n)
        <5>1. nextIndex[n][q] \in 0..MaxLog
          BY <3>3, <4>1
        <5>2. (IF nextIndex[n][q] > 0 THEN nextIndex[n][q] - 1 ELSE 0) \in 0..MaxLog
          BY <5>1
        <5> QED
          BY <3>3, <4>1, <5>2
      <4>2. CASE q \notin Peers(n)
        BY <3>3, <4>2
      <4> QED
        BY <4>1, <4>2
    <3> QED
      BY <1>0, <3>1, <3>2, <3>4 DEF LeaderTypeOK
  <2>2. AppendInv'
    BY <1>0, <1>20, IdleFits, RpcUpdate DEF AppendBacktracks, AppendInv, AppendTypeOK
  <2>3. NodeTypeOK' /\ LogInv' /\ ElectionTypeOK' /\ LeaderElected'
    BY <1>0, <1>20 DEF AppendBacktracks, LeaderElected, raftVars, electionVars, NodeTypeOK, LogInv, LogTypeOK, AppliedToCommit, logVars, ElectionTypeOK
  <2> QED
    BY <2>1, <2>2, <2>3 DEF TypeInv
<1>21. ASSUME NEW th \in Thread, AppendFails(th)
      PROVE  TypeInv'
  <2>1. AppendInv'
    BY <1>0, <1>21, IdleFits, RpcUpdate DEF AppendFails, AppendInv, AppendTypeOK
  <2>2. NodeTypeOK' /\ LogInv' /\ LeaderTypeOK' /\ ElectionTypeOK' /\ LeaderElected'
    BY <1>0, <1>21 DEF AppendFails, LeaderElected, raftVars, electionVars, NodeTypeOK, LogInv, LogTypeOK, AppliedToCommit, logVars, LeaderTypeOK, leaderVars, ElectionTypeOK
  <2> QED
    BY <2>1, <2>2 DEF TypeInv
<1>22. CASE UNCHANGED vars
  BY <1>0, <1>22 DEF TypeInv, NodeTypeOK, LogInv, LogTypeOK, AppliedToCommit, LeaderTypeOK,
     ElectionTypeOK, AppendInv, AppendTypeOK, RpcFits, LeaderElected, vars, raftVars, logVars, leaderVars,
     electionVars, appendVars
<1> QED
  BY <1>1, <1>2, <1>3, <1>4, <1>5, <1>6, <1>7, <1>8, <1>9, <1>10, <1>11, <1>12, <1>13, <1>14, <1>15, <1>16, <1>17, <1>18, <1>19, <1>20, <1>21, <1>22 DEF Next

\* Type correctness of the consensus engine, for every cluster and every bound.
THEOREM TypeCorrect == Spec => []TypeOK
<1>1. Spec => []TypeInv
  BY TypeInit, TypeStep, PTL DEF Spec
<1>2. TypeInv => TypeOK
  BY DEF TypeInv, TypeOK, LogInv, AppendInv
<1> QED
  BY <1>1, <1>2, PTL

-----------------------------------------------------------------------------
(***************************************************************************)
(* Elections.  The argument is the usual one about majorities, with the    *)
(* votes where the code keeps them: a vote exists as an answer under way   *)
(* to an election thread, then as one the thread has counted.  A node that *)
(* has voted stays in that term with that vote, or is in a later term      *)
(* (VoteKept), so it votes once per term (VoteOnce); who won holds the     *)
(* votes of a majority for good (WonByMajority), because its thread has    *)
(* ended and nothing else touches them (ThreadsOfTerm, AnswersAwaited).    *)
(***************************************************************************)
Granted(p, c, t) ==
    \/ p \in votes[c][t]
    \/ \E r \in voteReplies : r.candidate = c /\ r.term = t /\ r.peer = p /\ r.granted

VoteKept ==
    \A p, c \in Node, t \in Term : Granted(p, c, t) =>
        \/ currentTerm[p] > t
        \/ currentTerm[p] = t /\ votedFor[p] = c

VoteOnce ==
    \A p, c, d \in Node, t \in Term : Granted(p, c, t) /\ Granted(p, d, t) => c = d

ThreadsOfTerm ==
    \A c \in Node, t \in Term :
        /\ election[c][t].asked # Nil => election[c][t].alive
        /\ election[c][t].alive => t <= currentTerm[c] /\ t \notin won[c]

AnswersAwaited ==
    \A r \in voteReplies : election[r.candidate][r.term].asked = r.peer

WonByMajority ==
    \A n \in Node : \A t \in won[n] : t <= currentTerm[n] /\ IsMajority(votes[n][t])

ElectionInv ==
    VoteKept /\ VoteOnce /\ ThreadsOfTerm /\ AnswersAwaited /\ WonByMajority

-----------------------------------------------------------------------------
\* How a step may change terms and votes: a term never goes back, and within a
\* term a vote once given is not taken back.
TermsAdvance ==
    \A p \in Node :
        \/ currentTerm'[p] > currentTerm[p]
        \/ /\ currentTerm'[p] = currentTerm[p]
           /\ votedFor'[p] = votedFor[p] \/ votedFor[p] = Nil

\* A vote that p gives c in this step.
FreshVote(p, c, t) ==
    /\ currentTerm'[p] = t
    /\ votedFor'[p] = c
    /\ \/ currentTerm[p] < t
       \/ currentTerm[p] = t /\ votedFor[p] \in {Nil, c}

VotesGrow ==
    \A p, c \in Node, t \in Term :
        Granted(p, c, t)' => Granted(p, c, t) \/ FreshVote(p, c, t)

\* Steps that advance terms and only add votes given in the step keep what is
\* said about votes.
LEMMA VotesStayUnique ==
    ASSUME NodeTypeOK, NodeTypeOK', VoteKept, VoteOnce, TermsAdvance, VotesGrow
    PROVE  VoteKept' /\ VoteOnce'
<1> USE RaftAssumption
<1>1. ASSUME NEW p \in Node, NEW c \in Node, NEW t \in Term, Granted(p, c, t)'
      PROVE  currentTerm'[p] > t \/ (currentTerm'[p] = t /\ votedFor'[p] = c)
  <2>1. CASE Granted(p, c, t)
    <3>1. currentTerm[p] > t \/ (currentTerm[p] = t /\ votedFor[p] = c)
      BY <2>1 DEF VoteKept
    <3>2. currentTerm[p] \in Nat /\ currentTerm'[p] \in Nat /\ t \in Nat
      BY DEF NodeTypeOK, Term
    <3> QED
      BY <3>1, <3>2 DEF TermsAdvance
  <2>2. CASE FreshVote(p, c, t)
    BY <2>2 DEF FreshVote
  <2> QED
    BY <1>1, <2>1, <2>2 DEF VotesGrow
<1>2. ASSUME NEW p \in Node, NEW c \in Node, NEW d \in Node, NEW t \in Term,
             Granted(p, c, t)', Granted(p, d, t)'
      PROVE  c = d
  <2>0. currentTerm[p] \in Nat /\ t \in Nat
    BY DEF NodeTypeOK, Term
  <2>1. CASE Granted(p, c, t) /\ Granted(p, d, t)
    BY <2>1 DEF VoteOnce
  <2>2. CASE FreshVote(p, c, t) /\ FreshVote(p, d, t)
    BY <2>2 DEF FreshVote
  <2>3. ASSUME NEW x \in Node, NEW y \in Node, Granted(p, x, t), FreshVote(p, y, t)
        PROVE  x = y
    <3>1. currentTerm[p] > t \/ (currentTerm[p] = t /\ votedFor[p] = x)
      BY <2>3 DEF VoteKept
    <3> QED
      BY <2>0, <2>3, <3>1 DEF FreshVote
  <2> QED
    BY <1>2, <2>1, <2>2, <2>3 DEF VotesGrow
<1>3. VoteKept'
  BY <1>1 DEF VoteKept
<1>4. VoteOnce'
  BY <1>2 DEF VoteOnce
<1> QED
  BY <1>3, <1>4

\* Every step advances terms, and adds only votes given in it.
LEMMA VoteSteps ==
    ASSUME TypeInv, ElectionInv, Next
    PROVE  TermsAdvance /\ VotesGrow
<1> USE RaftAssumption
<1>0. NodeTypeOK /\ ElectionTypeOK /\ AppendTypeOK /\ LeaderElected
  BY DEF TypeInv, AppendInv
<1>1. ASSUME NEW n \in Node, ElectionTimeout(n)
      PROVE  TermsAdvance /\ VotesGrow
  <2>1. TermsAdvance
    BY <1>0, <1>1 DEF TermsAdvance, NodeTypeOK, ElectionTimeout
  <2>2. VotesGrow
    <3> SUFFICES ASSUME NEW p \in Node, NEW c \in Node, NEW t \in Term, Granted(p, c, t)'
                 PROVE  Granted(p, c, t) \/ FreshVote(p, c, t)
      BY DEF VotesGrow
    <3>1. voteReplies' = voteReplies
      BY <1>1 DEF ElectionTimeout
    <3>2. votes' = [votes EXCEPT ![n][currentTerm[n] + 1] = {n}]
      BY <1>1 DEF ElectionTimeout
    <3>3. CASE c = n /\ t = currentTerm[n] + 1 /\ p = n
      <4>1. currentTerm'[n] = t /\ votedFor'[n] = n
        BY <1>0, <1>1, <3>3 DEF ElectionTimeout, NodeTypeOK
      <4> QED
        BY <1>0, <3>3, <4>1 DEF FreshVote, NodeTypeOK
    <3>4. CASE ~ (c = n /\ t = currentTerm[n] + 1 /\ p = n)
      <4>1. p \in votes'[c][t] => p \in votes[c][t]
        BY <1>0, <3>2, <3>4 DEF ElectionTypeOK
      <4> QED
        BY <3>1, <4>1 DEF Granted
    <3> QED
      BY <3>3, <3>4
  <2> QED
    BY <2>1, <2>2
<1>2. ASSUME NEW n \in Node, TimeoutNotElapsed(n)
      PROVE  TermsAdvance /\ VotesGrow
  <2>1. TermsAdvance
    BY <1>0, <1>2 DEF TermsAdvance, NodeTypeOK, TimeoutNotElapsed, raftVars
  <2>2. VotesGrow
    BY <1>2 DEF VotesGrow, Granted, TimeoutNotElapsed, electionVars
  <2> QED
    BY <2>1, <2>2
<1>3. ASSUME NEW n \in Node, FailLeader(n)
      PROVE  TermsAdvance /\ VotesGrow
  <2>1. TermsAdvance
    BY <1>0, <1>3 DEF TermsAdvance, NodeTypeOK, FailLeader, raftVars
  <2>2. VotesGrow
    BY <1>3 DEF VotesGrow, Granted, FailLeader, electionVars
  <2> QED
    BY <2>1, <2>2
<1>4. ASSUME NEW n \in Node, NEW t \in Term, NEW p \in Node, AskVote(n, t, p)
      PROVE  TermsAdvance /\ VotesGrow
  <2>1. TermsAdvance
    BY <1>0, <1>4 DEF TermsAdvance, NodeTypeOK, AskVote, raftVars
  <2>2. VotesGrow
    BY <1>4 DEF VotesGrow, Granted, AskVote, electionVars
  <2> QED
    BY <2>1, <2>2
<1>5. ASSUME NEW m \in voteRequests, HandleRequestVote(m)
      PROVE  TermsAdvance /\ VotesGrow
  <2>1. TermsAdvance
    BY <1>0, <1>5 DEF TermsAdvance, NodeTypeOK, HandleRequestVote, Grants, ElectionTypeOK, VoteRequest, Term
  <2>2. VotesGrow
    <3> SUFFICES ASSUME NEW p \in Node, NEW c \in Node, NEW t \in Term, Granted(p, c, t)',
                        ~ Granted(p, c, t)
                 PROVE  FreshVote(p, c, t)
      BY DEF VotesGrow
    <3>1. m.candidate \in Node /\ m.term \in Term /\ m.peer \in Node
      BY <1>0, <1>5 DEF ElectionTypeOK, VoteRequest
    <3>2. p = m.peer /\ c = m.candidate /\ t = m.term /\ Grants(m)
      <4>1. PICK r \in voteReplies' : r.candidate = c /\ r.term = t /\ r.peer = p /\ r.granted
        BY <1>5 DEF Granted, HandleRequestVote
      <4>2. r \notin voteReplies
        BY <4>1 DEF Granted
      <4> QED
        BY <1>5, <4>1, <4>2 DEF HandleRequestVote
    <3>3. currentTerm'[p] = t /\ votedFor'[p] = c
      BY <1>0, <1>5, <3>1, <3>2 DEF HandleRequestVote, Grants, NodeTypeOK, Term
    <3> QED
      BY <1>0, <3>1, <3>2, <3>3 DEF FreshVote, Grants, NodeTypeOK, Term
  <2> QED
    BY <2>1, <2>2
<1>6. ASSUME NEW r \in voteReplies, VoteReplyStepsDown(r)
      PROVE  TermsAdvance /\ VotesGrow
  <2>1. TermsAdvance
    BY <1>0, <1>6 DEF TermsAdvance, NodeTypeOK, VoteReplyStepsDown, AnswersTo, StepDown, ElectionTypeOK, VoteReply, Term
  <2>2. VotesGrow
    BY <1>0, <1>6 DEF VotesGrow, Granted, VoteReplyStepsDown, AnswersTo, ElectionTypeOK, VoteReply
  <2> QED
    BY <2>1, <2>2
<1>7. ASSUME NEW r \in voteReplies, CountVote(r)
      PROVE  TermsAdvance /\ VotesGrow
  <2>1. TermsAdvance
    BY <1>0, <1>7 DEF TermsAdvance, NodeTypeOK, CountVote, AnswersTo, raftVars
  <2>2. VotesGrow
    BY <1>0, <1>7 DEF VotesGrow, Granted, CountVote, AnswersTo, ElectionTypeOK, VoteReply
  <2> QED
    BY <2>1, <2>2
<1>8. ASSUME NEW n \in Node, NEW t \in Term, VoteRequestFails(n, t)
      PROVE  TermsAdvance /\ VotesGrow
  <2>1. TermsAdvance
    BY <1>0, <1>8 DEF TermsAdvance, NodeTypeOK, VoteRequestFails, AnswersTo, raftVars
  <2>2. VotesGrow
    BY <1>0, <1>8 DEF VotesGrow, Granted, VoteRequestFails, AnswersTo, ElectionTypeOK, VoteReply
  <2> QED
    BY <2>1, <2>2
<1>9. ASSUME NEW n \in Node, NEW t \in Term, WinElection(n, t)
      PROVE  TermsAdvance /\ VotesGrow
  <2>1. TermsAdvance
    BY <1>0, <1>9 DEF TermsAdvance, NodeTypeOK, WinElection, raftVars
  <2>2. VotesGrow
    BY <1>9 DEF VotesGrow, Granted, WinElection, electionVars
  <2> QED
    BY <2>1, <2>2
<1>10. ASSUME NEW n \in Node, NEW t \in Term, LoseElection(n, t)
      PROVE  TermsAdvance /\ VotesGrow
  <2>1. TermsAdvance
    BY <1>0, <1>10 DEF TermsAdvance, NodeTypeOK, LoseElection, raftVars
  <2>2. VotesGrow
    BY <1>0, <1>10 DEF VotesGrow, Granted, LoseElection, ElectionTypeOK, VoteReply
  <2> QED
    BY <2>1, <2>2
<1>11. ASSUME NEW n \in Node, NEW d \in Data, Propose(n, d)
      PROVE  TermsAdvance /\ VotesGrow
  <2>1. TermsAdvance
    BY <1>0, <1>11 DEF TermsAdvance, NodeTypeOK, Propose, raftVars
  <2>2. VotesGrow
    BY <1>11 DEF VotesGrow, Granted, Propose, electionVars
  <2> QED
    BY <2>1, <2>2
<1>12. ASSUME NEW n \in Node, NEW p \in Node, NEW th \in Thread, SendAppend(n, p, th)
      PROVE  TermsAdvance /\ VotesGrow
  <2>1. TermsAdvance
    BY <1>0, <1>12 DEF TermsAdvance, NodeTypeOK, SendAppend, MaySend, raftVars
  <2>2. VotesGrow
    BY <1>12 DEF VotesGrow, Granted, SendAppend, MaySend, electionVars
  <2> QED
    BY <2>1, <2>2
<1>13. ASSUME NEW n \in Node, NEW p \in Node, SendAppendReturns(n, p)
      PROVE  TermsAdvance /\ VotesGrow
  <2>1. TermsAdvance
    BY <1>0, <1>13 DEF TermsAdvance, NodeTypeOK, SendAppendReturns, raftVars
  <2>2. VotesGrow
    BY <1>13 DEF VotesGrow, Granted, SendAppendReturns, electionVars
  <2> QED
    BY <2>1, <2>2
<1>14. ASSUME NEW th \in Thread, RejectStaleAppend(th)
      PROVE  TermsAdvance /\ VotesGrow
  <2>1. TermsAdvance
    BY <1>0, <1>14 DEF TermsAdvance, NodeTypeOK, RejectStaleAppend, raftVars
  <2>2. VotesGrow
    BY <1>14 DEF VotesGrow, Granted, RejectStaleAppend, electionVars
  <2> QED
    BY <2>1, <2>2
<1>15. ASSUME NEW th \in Thread, HandleAppendEntries(th)
      PROVE  TermsAdvance /\ VotesGrow
  <2>1. TermsAdvance
    BY <1>0, <1>15, RpcKinds DEF TermsAdvance, NodeTypeOK, HandleAppendEntries, AppendRequest, AppendReply, Term
  <2>2. VotesGrow
    BY <1>15 DEF VotesGrow, Granted, HandleAppendEntries, electionVars
  <2> QED
    BY <2>1, <2>2
<1>16. ASSUME NEW th \in Thread, IgnoreAppendReply(th)
      PROVE  TermsAdvance /\ VotesGrow
  <2>1. TermsAdvance
    BY <1>0, <1>16 DEF TermsAdvance, NodeTypeOK, IgnoreAppendReply, raftVars
  <2>2. VotesGrow
    BY <1>16 DEF VotesGrow, Granted, IgnoreAppendReply, electionVars
  <2> QED
    BY <2>1, <2>2
<1>17. ASSUME NEW th \in Thread, AppendReplyStepsDown(th)
      PROVE  TermsAdvance /\ VotesGrow
  <2>1. TermsAdvance
    BY <1>0, <1>17, RpcKinds DEF TermsAdvance, NodeTypeOK, AppendReplyStepsDown, StepDown, LeadsTermOf, AppendRequest, AppendReply, Term
  <2>2. VotesGrow
    BY <1>17 DEF VotesGrow, Granted, AppendReplyStepsDown, electionVars
  <2> QED
    BY <2>1, <2>2
<1>18. ASSUME NEW th \in Thread, AppendSucceeds(th)
      PROVE  TermsAdvance /\ VotesGrow
  <2>1. TermsAdvance
    BY <1>0, <1>18 DEF TermsAdvance, NodeTypeOK, AppendSucceeds, raftVars
  <2>2. VotesGrow
    BY <1>18 DEF VotesGrow, Granted, AppendSucceeds, electionVars
  <2> QED
    BY <2>1, <2>2
<1>19. ASSUME NEW th \in Thread, HeartbeatSucceeds(th)
      PROVE  TermsAdvance /\ VotesGrow
  <2>1. TermsAdvance
    BY <1>0, <1>19 DEF TermsAdvance, NodeTypeOK, HeartbeatSucceeds, raftVars
  <2>2. VotesGrow
    BY <1>19 DEF VotesGrow, Granted, HeartbeatSucceeds, electionVars
  <2> QED
    BY <2>1, <2>2
<1>20. ASSUME NEW th \in Thread, AppendBacktracks(th)
      PROVE  TermsAdvance /\ VotesGrow
  <2>1. TermsAdvance
    BY <1>0, <1>20 DEF TermsAdvance, NodeTypeOK, AppendBacktracks, raftVars
  <2>2. VotesGrow
    BY <1>20 DEF VotesGrow, Granted, AppendBacktracks, electionVars
  <2> QED
    BY <2>1, <2>2
<1>21. ASSUME NEW th \in Thread, AppendFails(th)
      PROVE  TermsAdvance /\ VotesGrow
  <2>1. TermsAdvance
    BY <1>0, <1>21 DEF TermsAdvance, NodeTypeOK, AppendFails, raftVars
  <2>2. VotesGrow
    BY <1>21 DEF VotesGrow, Granted, AppendFails, electionVars
  <2> QED
    BY <2>1, <2>2
<1> QED
  BY <1>1, <1>2, <1>3, <1>4, <1>5, <1>6, <1>7, <1>8, <1>9, <1>10, <1>11, <1>12, <1>13, <1>14, <1>15, <1>16, <1>17, <1>18, <1>19, <1>20, <1>21 DEF Next

\* Every step keeps what is said about election threads, their answers and the
\* elections won.
LEMMA ThreadSteps ==
    ASSUME TypeInv, TypeInv', ElectionInv, Next, TermsAdvance
    PROVE  ThreadsOfTerm' /\ AnswersAwaited' /\ WonByMajority'
<1> USE RaftAssumption
<1>0. /\ NodeTypeOK /\ ElectionTypeOK /\ AppendTypeOK
      /\ NodeTypeOK' /\ ThreadsOfTerm /\ AnswersAwaited /\ WonByMajority
  BY DEF TypeInv, AppendInv, ElectionInv
<1>a. \A p \in Node, t \in Term : t <= currentTerm[p] => t <= currentTerm'[p]
  BY <1>0 DEF TermsAdvance, NodeTypeOK, Term
<1>1. ASSUME NEW n \in Node, ElectionTimeout(n)
      PROVE  ThreadsOfTerm' /\ AnswersAwaited' /\ WonByMajority'
  <2>1. ThreadsOfTerm'
    <3> SUFFICES ASSUME NEW c \in Node, NEW t \in Term
                 PROVE  /\ election'[c][t].asked # Nil => election'[c][t].alive
                        /\ election'[c][t].alive => t <= currentTerm'[c] /\ t \notin won'[c]
      BY DEF ThreadsOfTerm
    <3>1. won' = won
      BY <1>1 DEF ElectionTimeout
    <3>2. CASE c = n /\ t = currentTerm[n] + 1
      <4>1. currentTerm'[c] = t /\ election'[c][t].alive
        BY <1>0, <1>1, <3>2 DEF ElectionTimeout, NodeTypeOK, ElectionTypeOK
      <4>2. t \notin won[c]
        BY <1>0, <3>2 DEF WonByMajority, NodeTypeOK
      <4> QED
        BY <3>1, <4>1, <4>2 DEF Term
    <3>3. CASE ~ (c = n /\ t = currentTerm[n] + 1)
      <4>1. election'[c][t] = election[c][t]
        BY <1>0, <1>1, <3>3 DEF ElectionTimeout, ElectionTypeOK
      <4> QED
        BY <1>0, <1>a, <3>1, <4>1 DEF ThreadsOfTerm
    <3> QED
      BY <3>2, <3>3
  <2>2. AnswersAwaited'
    BY <1>0, <1>1 DEF AnswersAwaited, ThreadsOfTerm, ElectionTypeOK, NodeTypeOK, VoteReply, ElectionTimeout
  <2>3. WonByMajority'
    BY <1>0, <1>a, <1>1 DEF WonByMajority, ThreadsOfTerm, AnswersAwaited, NodeTypeOK, ElectionTypeOK, ElectionTimeout
  <2> QED
    BY <2>1, <2>2, <2>3
<1>2. ASSUME NEW n \in Node, TimeoutNotElapsed(n)
      PROVE  ThreadsOfTerm' /\ AnswersAwaited' /\ WonByMajority'
  BY <1>0, <1>a, <1>2 DEF ThreadsOfTerm, AnswersAwaited, WonByMajority, ElectionTypeOK, TimeoutNotElapsed, electionVars
<1>3. ASSUME NEW n \in Node, FailLeader(n)
      PROVE  ThreadsOfTerm' /\ AnswersAwaited' /\ WonByMajority'
  BY <1>0, <1>a, <1>3 DEF ThreadsOfTerm, AnswersAwaited, WonByMajority, ElectionTypeOK, FailLeader, electionVars
<1>4. ASSUME NEW n \in Node, NEW t \in Term, NEW p \in Node, AskVote(n, t, p)
      PROVE  ThreadsOfTerm' /\ AnswersAwaited' /\ WonByMajority'
  <2>1. ThreadsOfTerm'
    BY <1>0, <1>a, <1>4 DEF ThreadsOfTerm, NodeTypeOK, ElectionTypeOK, AskVote, ElectionThread
  <2>2. AnswersAwaited'
    BY <1>0, <1>4 DEF AnswersAwaited, ThreadsOfTerm, ElectionTypeOK, NodeTypeOK, VoteReply, AskVote, ElectionThread
  <2>3. WonByMajority'
    BY <1>0, <1>a, <1>4 DEF WonByMajority, ThreadsOfTerm, AnswersAwaited, NodeTypeOK, ElectionTypeOK, AskVote, ElectionThread
  <2> QED
    BY <2>1, <2>2, <2>3
<1>5. ASSUME NEW m \in voteRequests, HandleRequestVote(m)
      PROVE  ThreadsOfTerm' /\ AnswersAwaited' /\ WonByMajority'
  <2>1. ThreadsOfTerm'
    BY <1>0, <1>a, <1>5 DEF ThreadsOfTerm, NodeTypeOK, ElectionTypeOK, HandleRequestVote, VoteRequest
  <2>2. AnswersAwaited'
    BY <1>0, <1>5 DEF AnswersAwaited, ThreadsOfTerm, ElectionTypeOK, NodeTypeOK, VoteReply, HandleRequestVote, VoteRequest
  <2>3. WonByMajority'
    BY <1>0, <1>a, <1>5 DEF WonByMajority, ThreadsOfTerm, AnswersAwaited, NodeTypeOK, ElectionTypeOK, HandleRequestVote, VoteRequest
  <2> QED
    BY <2>1, <2>2, <2>3
<1>6. ASSUME NEW r \in voteReplies, VoteReplyStepsDown(r)
      PROVE  ThreadsOfTerm' /\ AnswersAwaited' /\ WonByMajority'
  <2>1. ThreadsOfTerm'
    BY <1>0, <1>a, <1>6 DEF ThreadsOfTerm, NodeTypeOK, ElectionTypeOK, VoteReplyStepsDown, AnswersTo, NoElection, VoteReply
  <2>2. AnswersAwaited'
    BY <1>0, <1>6 DEF AnswersAwaited, ThreadsOfTerm, ElectionTypeOK, NodeTypeOK, VoteReply, VoteReplyStepsDown, AnswersTo, NoElection
  <2>3. WonByMajority'
    <3>1. r.candidate \in Node /\ r.term \in Term /\ r.peer \in Node
      BY <1>0, <1>6 DEF ElectionTypeOK, VoteReply
    <3>2. election[r.candidate][r.term].asked # Nil
      BY <1>0, <1>6, <3>1 DEF AnswersAwaited
    <3>3. r.term \notin won[r.candidate]
      BY <1>0, <3>1, <3>2 DEF ThreadsOfTerm
    <3>4. ASSUME NEW n \in Node, NEW t \in won[n]
          PROVE  votes'[n][t] = votes[n][t] /\ t \in Term
      BY <1>0, <1>6, <3>1, <3>3, <3>4 DEF VoteReplyStepsDown, ElectionTypeOK
    <3>5. won' = won
      BY <1>6 DEF VoteReplyStepsDown
    <3> QED
      BY <1>0, <1>a, <3>4, <3>5 DEF WonByMajority
  <2> QED
    BY <2>1, <2>2, <2>3
<1>7. ASSUME NEW r \in voteReplies, CountVote(r)
      PROVE  ThreadsOfTerm' /\ AnswersAwaited' /\ WonByMajority'
  <2>1. ThreadsOfTerm'
    <3>1. r.candidate \in Node /\ r.term \in Term
      BY <1>0, <1>7 DEF ElectionTypeOK, VoteReply
    <3>2. election[r.candidate][r.term] \in ElectionThread
      BY <1>0, <3>1 DEF ElectionTypeOK
    <3>3. ASSUME NEW c \in Node, NEW t \in Term
          PROVE  /\ election'[c][t].alive = election[c][t].alive
                 /\ election'[c][t].asked \in {Nil, election[c][t].asked}
      BY <1>0, <1>7, <3>1, <3>2 DEF CountVote, ElectionTypeOK, ElectionThread
    <3>4. won' = won
      BY <1>7 DEF CountVote
    <3> QED
      BY <1>0, <1>a, <3>3, <3>4 DEF ThreadsOfTerm
  <2>2. AnswersAwaited'
    BY <1>0, <1>7 DEF AnswersAwaited, ThreadsOfTerm, ElectionTypeOK, NodeTypeOK, VoteReply, CountVote, AnswersTo, ElectionThread
  <2>3. WonByMajority'
    BY <1>0, <1>a, <1>7 DEF WonByMajority, ThreadsOfTerm, AnswersAwaited, NodeTypeOK, ElectionTypeOK, CountVote, AnswersTo, ElectionThread, VoteReply
  <2> QED
    BY <2>1, <2>2, <2>3
<1>8. ASSUME NEW n \in Node, NEW t \in Term, VoteRequestFails(n, t)
      PROVE  ThreadsOfTerm' /\ AnswersAwaited' /\ WonByMajority'
  <2>1. ThreadsOfTerm'
    BY <1>0, <1>a, <1>8 DEF ThreadsOfTerm, NodeTypeOK, ElectionTypeOK, VoteRequestFails, AnswersTo, ElectionThread
  <2>2. AnswersAwaited'
    BY <1>0, <1>8 DEF AnswersAwaited, ThreadsOfTerm, ElectionTypeOK, NodeTypeOK, VoteReply, VoteRequestFails, AnswersTo, ElectionThread
  <2>3. WonByMajority'
    BY <1>0, <1>a, <1>8 DEF WonByMajority, ThreadsOfTerm, AnswersAwaited, NodeTypeOK, ElectionTypeOK, VoteRequestFails, AnswersTo, ElectionThread
  <2> QED
    BY <2>1, <2>2, <2>3
<1>9. ASSUME NEW n \in Node, NEW t \in Term, WinElection(n, t)
      PROVE  ThreadsOfTerm' /\ AnswersAwaited' /\ WonByMajority'
  <2>1. ThreadsOfTerm'
    BY <1>0, <1>a, <1>9 DEF ThreadsOfTerm, NodeTypeOK, ElectionTypeOK, WinElection, AllAsked, ElectionWon, NoElection
  <2>2. AnswersAwaited'
    BY <1>0, <1>9 DEF AnswersAwaited, ThreadsOfTerm, ElectionTypeOK, NodeTypeOK, VoteReply, WinElection, AllAsked, ElectionWon, NoElection
  <2>3. WonByMajority'
    BY <1>0, <1>a, <1>9 DEF WonByMajority, ThreadsOfTerm, AnswersAwaited, NodeTypeOK, ElectionTypeOK, WinElection, AllAsked, ElectionWon, NoElection
  <2> QED
    BY <2>1, <2>2, <2>3
<1>10. ASSUME NEW n \in Node, NEW t \in Term, LoseElection(n, t)
      PROVE  ThreadsOfTerm' /\ AnswersAwaited' /\ WonByMajority'
  <2>1. ThreadsOfTerm'
    BY <1>0, <1>a, <1>10 DEF ThreadsOfTerm, NodeTypeOK, ElectionTypeOK, LoseElection, AllAsked, NoElection
  <2>2. AnswersAwaited'
    BY <1>0, <1>10 DEF AnswersAwaited, ThreadsOfTerm, ElectionTypeOK, NodeTypeOK, VoteReply, LoseElection, AllAsked, NoElection
  <2>3. WonByMajority'
    BY <1>0, <1>a, <1>10 DEF WonByMajority, ThreadsOfTerm, AnswersAwaited, NodeTypeOK, ElectionTypeOK, LoseElection, AllAsked, NoElection
  <2> QED
    BY <2>1, <2>2, <2>3
<1>11. ASSUME NEW n \in Node, NEW d \in Data, Propose(n, d)
      PROVE  ThreadsOfTerm' /\ AnswersAwaited' /\ WonByMajority'
  BY <1>0, <1>a, <1>11 DEF ThreadsOfTerm, AnswersAwaited, WonByMajority, ElectionTypeOK, Propose, electionVars
<1>12. ASSUME NEW n \in Node, NEW p \in Node, NEW th \in Thread, SendAppend(n, p, th)
      PROVE  ThreadsOfTerm' /\ AnswersAwaited' /\ WonByMajority'
  BY <1>0, <1>a, <1>12 DEF ThreadsOfTerm, AnswersAwaited, WonByMajority, ElectionTypeOK, SendAppend, MaySend, electionVars
<1>13. ASSUME NEW n \in Node, NEW p \in Node, SendAppendReturns(n, p)
      PROVE  ThreadsOfTerm' /\ AnswersAwaited' /\ WonByMajority'
  BY <1>0, <1>a, <1>13 DEF ThreadsOfTerm, AnswersAwaited, WonByMajority, ElectionTypeOK, SendAppendReturns, electionVars
<1>14. ASSUME NEW th \in Thread, RejectStaleAppend(th)
      PROVE  ThreadsOfTerm' /\ AnswersAwaited' /\ WonByMajority'
  BY <1>0, <1>a, <1>14 DEF ThreadsOfTerm, AnswersAwaited, WonByMajority, ElectionTypeOK, RejectStaleAppend, electionVars
<1>15. ASSUME NEW th \in Thread, HandleAppendEntries(th)
      PROVE  ThreadsOfTerm' /\ AnswersAwaited' /\ WonByMajority'
  BY <1>0, <1>a, <1>15 DEF ThreadsOfTerm, AnswersAwaited, WonByMajority, ElectionTypeOK, HandleAppendEntries, electionVars
<1>16. ASSUME NEW th \in Thread, IgnoreAppendReply(th)
      PROVE  ThreadsOfTerm' /\ AnswersAwaited' /\ WonByMajority'
  BY <1>0, <1>a, <1>16 DEF ThreadsOfTerm, AnswersAwaited, WonByMajority, ElectionTypeOK, IgnoreAppendReply, electionVars
<1>17. ASSUME NEW th \in Thread, AppendReplyStepsDown(th)
      PROVE  ThreadsOfTerm' /\ AnswersAwaited' /\ WonByMajority'
  BY <1>0, <1>a, <1>17 DEF ThreadsOfTerm, AnswersAwaited, WonByMajority, ElectionTypeOK, AppendReplyStepsDown, electionVars
<1>18. ASSUME NEW th \in Thread, AppendSucceeds(th)
      PROVE  ThreadsOfTerm' /\ AnswersAwaited' /\ WonByMajority'
  BY <1>0, <1>a, <1>18 DEF ThreadsOfTerm, AnswersAwaited, WonByMajority, ElectionTypeOK, AppendSucceeds, electionVars
<1>19. ASSUME NEW th \in Thread, HeartbeatSucceeds(th)
      PROVE  ThreadsOfTerm' /\ AnswersAwaited' /\ WonByMajority'
  BY <1>0, <1>a, <1>19 DEF ThreadsOfTerm, AnswersAwaited, WonByMajority, ElectionTypeOK, HeartbeatSucceeds, electionVars
<1>20. ASSUME NEW th \in Thread, AppendBacktracks(th)
      PROVE  ThreadsOfTerm' /\ AnswersAwaited' /\ WonByMajority'
  BY <1>0, <1>a, <1>20 DEF ThreadsOfTerm, AnswersAwaited, WonByMajority, ElectionTypeOK, AppendBacktracks, electionVars
<1>21. ASSUME NEW th \in Thread, AppendFails(th)
      PROVE  ThreadsOfTerm' /\ AnswersAwaited' /\ WonByMajority'
  BY <1>0, <1>a, <1>21 DEF ThreadsOfTerm, AnswersAwaited, WonByMajority, ElectionTypeOK, AppendFails, electionVars
<1> QED
  BY <1>1, <1>2, <1>3, <1>4, <1>5, <1>6, <1>7, <1>8, <1>9, <1>10, <1>11, <1>12, <1>13, <1>14, <1>15, <1>16, <1>17, <1>18, <1>19, <1>20, <1>21 DEF Next

-----------------------------------------------------------------------------
\* At the start no vote is given and no election thread lives.
LEMMA ElectionInit == Init => ElectionInv
<1> SUFFICES ASSUME Init
             PROVE  ElectionInv
  OBVIOUS
<1>1. VoteKept /\ VoteOnce
  BY DEF Init, VoteKept, VoteOnce, Granted
<1>2. ThreadsOfTerm /\ AnswersAwaited /\ WonByMajority
  BY DEF Init, ThreadsOfTerm, AnswersAwaited, WonByMajority, NoElection
<1> QED
  BY <1>1, <1>2 DEF ElectionInv

\* Every step of the consensus engine keeps the election invariant.
LEMMA ElectionStep == TypeInv /\ TypeInv' /\ ElectionInv /\ [Next]_vars => ElectionInv'
<1> SUFFICES ASSUME TypeInv, TypeInv', ElectionInv, [Next]_vars
             PROVE  ElectionInv'
  OBVIOUS
<1>1. CASE Next
  <2>1. TermsAdvance /\ VotesGrow
    BY <1>1, VoteSteps
  <2>2. NodeTypeOK /\ NodeTypeOK' /\ VoteKept /\ VoteOnce
    BY DEF TypeInv, ElectionInv
  <2>3. VoteKept' /\ VoteOnce'
    BY <2>1, <2>2, VotesStayUnique
  <2>4. ThreadsOfTerm' /\ AnswersAwaited' /\ WonByMajority'
    BY <1>1, <2>1, ThreadSteps
  <2> QED
    BY <2>3, <2>4 DEF ElectionInv
<1>2. CASE UNCHANGED vars
  BY <1>2 DEF ElectionInv, VoteKept, VoteOnce, Granted, ThreadsOfTerm, AnswersAwaited,
     WonByMajority, IsMajority, vars, raftVars, electionVars
<1> QED
  BY <1>1, <1>2

\* Two majorities of the cluster have a node in common: the reason _run_election
\* demands votes > len(node_urls) // 2.
LEMMA MajoritiesMeet ==
    ASSUME NEW S \in SUBSET Node, NEW T \in SUBSET Node, IsMajority(S), IsMajority(T)
    PROVE  S \cap T # {}
<1>1. IsFiniteSet(Node) /\ IsFiniteSet(S) /\ IsFiniteSet(T)
  BY RaftAssumption, FS_Subset
<1>2. Cardinality(Node) \in Nat /\ Cardinality(S) \in Nat /\ Cardinality(T) \in Nat
  BY <1>1, FS_CardinalityType
<1>3. Cardinality(S) + Cardinality(T) > Cardinality(Node)
  BY <1>2 DEF IsMajority
<1> QED
  BY <1>1, <1>3, FS_MajoritiesIntersect

\* Every node that is counted in two elections of a term voted twice.
LEMMA ElectionInvSafe == TypeInv /\ ElectionInv => ElectionSafety
<1> SUFFICES ASSUME TypeInv, ElectionInv, NEW m \in Node, NEW n \in Node, m # n,
                    NEW t \in won[m], t \in won[n]
             PROVE  FALSE
  BY DEF ElectionSafety
<1>1. t \in Term /\ votes[m][t] \in SUBSET Node /\ votes[n][t] \in SUBSET Node
  BY DEF TypeInv, ElectionTypeOK
<1>2. IsMajority(votes[m][t]) /\ IsMajority(votes[n][t])
  BY DEF ElectionInv, WonByMajority
<1>3. PICK p \in votes[m][t] : p \in votes[n][t]
  BY <1>1, <1>2, MajoritiesMeet
<1>4. p \in Node /\ Granted(p, m, t) /\ Granted(p, n, t)
  BY <1>1, <1>3 DEF Granted
<1> QED
  BY <1>1, <1>4 DEF ElectionInv, VoteOnce

\* The type and the election invariant hold in every reachable state.
LEMMA ElectionInvariant == Spec => [](TypeInv /\ ElectionInv)
<1>1. Init => TypeInv /\ ElectionInv
  BY TypeInit, ElectionInit
<1>2. TypeInv /\ ElectionInv /\ [Next]_vars => (TypeInv /\ ElectionInv)'
  BY TypeStep, ElectionStep
<1> QED
  BY <1>1, <1>2, PTL DEF Spec

\* At most one node is elected in a term, for every cluster size, number of
\* threads and interleaving of _run_election, handle_request_vote and the loop.
THEOREM ElectionSafe == Spec => []ElectionSafety
  BY ElectionInvariant, ElectionInvSafe, PTL

-----------------------------------------------------------------------------
(***************************************************************************)
(* The leader a node reports.  It comes from an AppendEntries, so the      *)
(* requests under way are part of the invariant: each was sent in a term   *)
(* its sender was elected in.                                              *)
(***************************************************************************)
RpcFromElected ==
    \A th \in Thread : rpc[th] # Idle => rpc[th].term \in won[rpc[th].leader]

LeaderInv == RpcFromElected /\ LeaderIdWasElected

\* How a step may change the threads and the leader a node reports.
WonGrows == \A n \in Node : won[n] \subseteq won'[n]

RpcSteps ==
    \A th \in Thread : rpc'[th] # Idle =>
        \/ /\ rpc[th] # Idle
           /\ rpc'[th].leader = rpc[th].leader /\ rpc'[th].term = rpc[th].term
        \/ \E n \in Node : /\ rpc'[th].leader = n /\ rpc'[th].term = currentTerm[n]
                            /\ state[n] = "LEADER"

LeaderIdSteps ==
    \A n \in Node :
        \/ leaderId'[n] = leaderId[n]
        \/ leaderId'[n] = n /\ currentTerm'[n] \in won'[n]
        \/ \E th \in Thread : /\ rpc[th] # Idle /\ leaderId'[n] = rpc[th].leader
                               /\ currentTerm'[n] = rpc[th].term

\* A node takes its leader from its own election or from an AppendEntries, and a
\* thread takes its term from a node that leads.
LEMMA LeaderSteps ==
    ASSUME TypeInv, Next
    PROVE  WonGrows /\ RpcSteps /\ LeaderIdSteps
<1> USE RaftAssumption
<1>0. NodeTypeOK /\ ElectionTypeOK /\ AppendTypeOK
  BY DEF TypeInv, AppendInv
<1>1. ASSUME NEW n \in Node, ElectionTimeout(n)
      PROVE  WonGrows /\ RpcSteps /\ LeaderIdSteps
  <2>1. WonGrows
    BY <1>0, <1>1 DEF WonGrows, ElectionTimeout, electionVars, appendVars, raftVars, NodeTypeOK, ElectionTypeOK, AppendTypeOK
  <2>2. RpcSteps
    BY <1>0, <1>1 DEF RpcSteps, ElectionTimeout, electionVars, appendVars, raftVars, NodeTypeOK, ElectionTypeOK, AppendTypeOK
  <2>3. LeaderIdSteps
    BY <1>0, <1>1 DEF LeaderIdSteps, ElectionTimeout, electionVars, appendVars, raftVars, NodeTypeOK, ElectionTypeOK, AppendTypeOK
  <2> QED
    BY <2>1, <2>2, <2>3
<1>2. ASSUME NEW n \in Node, TimeoutNotElapsed(n)
      PROVE  WonGrows /\ RpcSteps /\ LeaderIdSteps
  <2>1. WonGrows
    BY <1>0, <1>2 DEF WonGrows, TimeoutNotElapsed, electionVars, appendVars, raftVars, NodeTypeOK, ElectionTypeOK, AppendTypeOK
  <2>2. RpcSteps
    BY <1>0, <1>2 DEF RpcSteps, TimeoutNotElapsed, electionVars, appendVars, raftVars, NodeTypeOK, ElectionTypeOK, AppendTypeOK
  <2>3. LeaderIdSteps
    BY <1>0, <1>2 DEF LeaderIdSteps, TimeoutNotElapsed, electionVars, appendVars, raftVars, NodeTypeOK, ElectionTypeOK, AppendTypeOK
  <2> QED
    BY <2>1, <2>2, <2>3
<1>3. ASSUME NEW n \in Node, FailLeader(n)
      PROVE  WonGrows /\ RpcSteps /\ LeaderIdSteps
  <2>1. WonGrows
    BY <1>0, <1>3 DEF WonGrows, FailLeader, electionVars, appendVars, raftVars, NodeTypeOK, ElectionTypeOK, AppendTypeOK
  <2>2. RpcSteps
    BY <1>0, <1>3 DEF RpcSteps, FailLeader, electionVars, appendVars, raftVars, NodeTypeOK, ElectionTypeOK, AppendTypeOK
  <2>3. LeaderIdSteps
    BY <1>0, <1>3 DEF LeaderIdSteps, FailLeader, electionVars, appendVars, raftVars, NodeTypeOK, ElectionTypeOK, AppendTypeOK
  <2> QED
    BY <2>1, <2>2, <2>3
<1>4. ASSUME NEW n \in Node, NEW t \in Term, NEW p \in Node, AskVote(n, t, p)
      PROVE  WonGrows /\ RpcSteps /\ LeaderIdSteps
  <2>1. WonGrows
    BY <1>0, <1>4 DEF WonGrows, AskVote, electionVars, appendVars, raftVars, NodeTypeOK, ElectionTypeOK, AppendTypeOK
  <2>2. RpcSteps
    BY <1>0, <1>4 DEF RpcSteps, AskVote, electionVars, appendVars, raftVars, NodeTypeOK, ElectionTypeOK, AppendTypeOK
  <2>3. LeaderIdSteps
    BY <1>0, <1>4 DEF LeaderIdSteps, AskVote, electionVars, appendVars, raftVars, NodeTypeOK, ElectionTypeOK, AppendTypeOK
  <2> QED
    BY <2>1, <2>2, <2>3
<1>5. ASSUME NEW m \in voteRequests, HandleRequestVote(m)
      PROVE  WonGrows /\ RpcSteps /\ LeaderIdSteps
  <2>1. WonGrows
    BY <1>0, <1>5 DEF WonGrows, HandleRequestVote, electionVars, appendVars, raftVars, NodeTypeOK, ElectionTypeOK, AppendTypeOK
  <2>2. RpcSteps
    BY <1>0, <1>5 DEF RpcSteps, HandleRequestVote, electionVars, appendVars, raftVars, NodeTypeOK, ElectionTypeOK, AppendTypeOK
  <2>3. LeaderIdSteps
    BY <1>0, <1>5 DEF LeaderIdSteps, HandleRequestVote, electionVars, appendVars, raftVars, NodeTypeOK, ElectionTypeOK, AppendTypeOK
  <2> QED
    BY <2>1, <2>2, <2>3
<1>6. ASSUME NEW r \in voteReplies, VoteReplyStepsDown(r)
      PROVE  WonGrows /\ RpcSteps /\ LeaderIdSteps
  <2>1. WonGrows
    BY <1>0, <1>6 DEF WonGrows, VoteReplyStepsDown, electionVars, appendVars, raftVars, NodeTypeOK, ElectionTypeOK, AppendTypeOK
  <2>2. RpcSteps
    BY <1>0, <1>6 DEF RpcSteps, VoteReplyStepsDown, electionVars, appendVars, raftVars, NodeTypeOK, ElectionTypeOK, AppendTypeOK
  <2>3. LeaderIdSteps
    BY <1>0, <1>6 DEF LeaderIdSteps, VoteReplyStepsDown, electionVars, appendVars, raftVars, NodeTypeOK, ElectionTypeOK, AppendTypeOK
  <2> QED
    BY <2>1, <2>2, <2>3
<1>7. ASSUME NEW r \in voteReplies, CountVote(r)
      PROVE  WonGrows /\ RpcSteps /\ LeaderIdSteps
  <2>1. WonGrows
    BY <1>0, <1>7 DEF WonGrows, CountVote, electionVars, appendVars, raftVars, NodeTypeOK, ElectionTypeOK, AppendTypeOK
  <2>2. RpcSteps
    BY <1>0, <1>7 DEF RpcSteps, CountVote, electionVars, appendVars, raftVars, NodeTypeOK, ElectionTypeOK, AppendTypeOK
  <2>3. LeaderIdSteps
    BY <1>0, <1>7 DEF LeaderIdSteps, CountVote, electionVars, appendVars, raftVars, NodeTypeOK, ElectionTypeOK, AppendTypeOK
  <2> QED
    BY <2>1, <2>2, <2>3
<1>8. ASSUME NEW n \in Node, NEW t \in Term, VoteRequestFails(n, t)
      PROVE  WonGrows /\ RpcSteps /\ LeaderIdSteps
  <2>1. WonGrows
    BY <1>0, <1>8 DEF WonGrows, VoteRequestFails, electionVars, appendVars, raftVars, NodeTypeOK, ElectionTypeOK, AppendTypeOK
  <2>2. RpcSteps
    BY <1>0, <1>8 DEF RpcSteps, VoteRequestFails, electionVars, appendVars, raftVars, NodeTypeOK, ElectionTypeOK, AppendTypeOK
  <2>3. LeaderIdSteps
    BY <1>0, <1>8 DEF LeaderIdSteps, VoteRequestFails, electionVars, appendVars, raftVars, NodeTypeOK, ElectionTypeOK, AppendTypeOK
  <2> QED
    BY <2>1, <2>2, <2>3
<1>9. ASSUME NEW n \in Node, NEW t \in Term, WinElection(n, t)
      PROVE  WonGrows /\ RpcSteps /\ LeaderIdSteps
  <2>1. WonGrows
    BY <1>0, <1>9 DEF WonGrows, WinElection, ElectionWon, electionVars, appendVars, raftVars, NodeTypeOK, ElectionTypeOK, AppendTypeOK
  <2>2. RpcSteps
    BY <1>0, <1>9 DEF RpcSteps, WinElection, ElectionWon, electionVars, appendVars, raftVars, NodeTypeOK, ElectionTypeOK, AppendTypeOK
  <2>3. LeaderIdSteps
    BY <1>0, <1>9 DEF LeaderIdSteps, WinElection, ElectionWon, electionVars, appendVars, raftVars, NodeTypeOK, ElectionTypeOK, AppendTypeOK
  <2> QED
    BY <2>1, <2>2, <2>3
<1>10. ASSUME NEW n \in Node, NEW t \in Term, LoseElection(n, t)
      PROVE  WonGrows /\ RpcSteps /\ LeaderIdSteps
  <2>1. WonGrows
    BY <1>0, <1>10 DEF WonGrows, LoseElection, electionVars, appendVars, raftVars, NodeTypeOK, ElectionTypeOK, AppendTypeOK
  <2>2. RpcSteps
    BY <1>0, <1>10 DEF RpcSteps, LoseElection, electionVars, appendVars, raftVars, NodeTypeOK, ElectionTypeOK, AppendTypeOK
  <2>3. LeaderIdSteps
    BY <1>0, <1>10 DEF LeaderIdSteps, LoseElection, electionVars, appendVars, raftVars, NodeTypeOK, ElectionTypeOK, AppendTypeOK
  <2> QED
    BY <2>1, <2>2, <2>3
<1>11. ASSUME NEW n \in Node, NEW d \in Data, Propose(n, d)
      PROVE  WonGrows /\ RpcSteps /\ LeaderIdSteps
  <2>1. WonGrows
    BY <1>0, <1>11 DEF WonGrows, Propose, electionVars, appendVars, raftVars, NodeTypeOK, ElectionTypeOK, AppendTypeOK
  <2>2. RpcSteps
    BY <1>0, <1>11 DEF RpcSteps, Propose, electionVars, appendVars, raftVars, NodeTypeOK, ElectionTypeOK, AppendTypeOK
  <2>3. LeaderIdSteps
    BY <1>0, <1>11 DEF LeaderIdSteps, Propose, electionVars, appendVars, raftVars, NodeTypeOK, ElectionTypeOK, AppendTypeOK
  <2> QED
    BY <2>1, <2>2, <2>3
<1>12. ASSUME NEW n \in Node, NEW p \in Node, NEW th \in Thread, SendAppend(n, p, th)
      PROVE  WonGrows /\ RpcSteps /\ LeaderIdSteps
  <2>1. WonGrows
    BY <1>0, <1>12 DEF WonGrows, SendAppend, MaySend, electionVars, appendVars, raftVars, NodeTypeOK, ElectionTypeOK, AppendTypeOK
  <2>2. RpcSteps
    BY <1>0, <1>12 DEF RpcSteps, SendAppend, MaySend, electionVars, appendVars, raftVars, NodeTypeOK, ElectionTypeOK, AppendTypeOK
  <2>3. LeaderIdSteps
    BY <1>0, <1>12 DEF LeaderIdSteps, SendAppend, MaySend, electionVars, appendVars, raftVars, NodeTypeOK, ElectionTypeOK, AppendTypeOK
  <2> QED
    BY <2>1, <2>2, <2>3
<1>13. ASSUME NEW n \in Node, NEW p \in Node, SendAppendReturns(n, p)
      PROVE  WonGrows /\ RpcSteps /\ LeaderIdSteps
  <2>1. WonGrows
    BY <1>0, <1>13 DEF WonGrows, SendAppendReturns, electionVars, appendVars, raftVars, NodeTypeOK, ElectionTypeOK, AppendTypeOK
  <2>2. RpcSteps
    BY <1>0, <1>13 DEF RpcSteps, SendAppendReturns, electionVars, appendVars, raftVars, NodeTypeOK, ElectionTypeOK, AppendTypeOK
  <2>3. LeaderIdSteps
    BY <1>0, <1>13 DEF LeaderIdSteps, SendAppendReturns, electionVars, appendVars, raftVars, NodeTypeOK, ElectionTypeOK, AppendTypeOK
  <2> QED
    BY <2>1, <2>2, <2>3
<1>14. ASSUME NEW th \in Thread, RejectStaleAppend(th)
      PROVE  WonGrows /\ RpcSteps /\ LeaderIdSteps
  <2>1. WonGrows
    BY <1>0, <1>14 DEF WonGrows, RejectStaleAppend, Answer, Idle, electionVars, appendVars, raftVars, NodeTypeOK, ElectionTypeOK, AppendTypeOK
  <2>2. RpcSteps
    BY <1>0, <1>14 DEF RpcSteps, RejectStaleAppend, Answer, Idle, electionVars, appendVars, raftVars, NodeTypeOK, ElectionTypeOK, AppendTypeOK
  <2>3. LeaderIdSteps
    BY <1>0, <1>14 DEF LeaderIdSteps, RejectStaleAppend, Answer, Idle, electionVars, appendVars, raftVars, NodeTypeOK, ElectionTypeOK, AppendTypeOK
  <2> QED
    BY <2>1, <2>2, <2>3
<1>15. ASSUME NEW th \in Thread, HandleAppendEntries(th)
      PROVE  WonGrows /\ RpcSteps /\ LeaderIdSteps
  <2>1. WonGrows
    BY <1>0, <1>15 DEF WonGrows, HandleAppendEntries, Answer, Idle, electionVars, appendVars, raftVars, NodeTypeOK, ElectionTypeOK, AppendTypeOK
  <2>2. RpcSteps
    BY <1>0, <1>15 DEF RpcSteps, HandleAppendEntries, Answer, Idle, electionVars, appendVars, raftVars, NodeTypeOK, ElectionTypeOK, AppendTypeOK
  <2>3. LeaderIdSteps
    BY <1>0, <1>15 DEF LeaderIdSteps, HandleAppendEntries, Answer, Idle, electionVars, appendVars, raftVars, NodeTypeOK, ElectionTypeOK, AppendTypeOK
  <2> QED
    BY <2>1, <2>2, <2>3
<1>16. ASSUME NEW th \in Thread, IgnoreAppendReply(th)
      PROVE  WonGrows /\ RpcSteps /\ LeaderIdSteps
  <2>1. WonGrows
    BY <1>0, <1>16 DEF WonGrows, IgnoreAppendReply, electionVars, appendVars, raftVars, NodeTypeOK, ElectionTypeOK, AppendTypeOK
  <2>2. RpcSteps
    BY <1>0, <1>16 DEF RpcSteps, IgnoreAppendReply, electionVars, appendVars, raftVars, NodeTypeOK, ElectionTypeOK, AppendTypeOK
  <2>3. LeaderIdSteps
    BY <1>0, <1>16 DEF LeaderIdSteps, IgnoreAppendReply, electionVars, appendVars, raftVars, NodeTypeOK, ElectionTypeOK, AppendTypeOK
  <2> QED
    BY <2>1, <2>2, <2>3
<1>17. ASSUME NEW th \in Thread, AppendReplyStepsDown(th)
      PROVE  WonGrows /\ RpcSteps /\ LeaderIdSteps
  <2>1. WonGrows
    BY <1>0, <1>17 DEF WonGrows, AppendReplyStepsDown, LeadsTermOf, electionVars, appendVars, raftVars, NodeTypeOK, ElectionTypeOK, AppendTypeOK
  <2>2. RpcSteps
    BY <1>0, <1>17 DEF RpcSteps, AppendReplyStepsDown, LeadsTermOf, electionVars, appendVars, raftVars, NodeTypeOK, ElectionTypeOK, AppendTypeOK
  <2>3. LeaderIdSteps
    BY <1>0, <1>17 DEF LeaderIdSteps, AppendReplyStepsDown, LeadsTermOf, electionVars, appendVars, raftVars, NodeTypeOK, ElectionTypeOK, AppendTypeOK
  <2> QED
    BY <2>1, <2>2, <2>3
<1>18. ASSUME NEW th \in Thread, AppendSucceeds(th)
      PROVE  WonGrows /\ RpcSteps /\ LeaderIdSteps
  <2>1. WonGrows
    BY <1>0, <1>18 DEF WonGrows, AppendSucceeds, LeadsTermOf, electionVars, appendVars, raftVars, NodeTypeOK, ElectionTypeOK, AppendTypeOK
  <2>2. RpcSteps
    BY <1>0, <1>18 DEF RpcSteps, AppendSucceeds, LeadsTermOf, electionVars, appendVars, raftVars, NodeTypeOK, ElectionTypeOK, AppendTypeOK
  <2>3. LeaderIdSteps
    BY <1>0, <1>18 DEF LeaderIdSteps, AppendSucceeds, LeadsTermOf, electionVars, appendVars, raftVars, NodeTypeOK, ElectionTypeOK, AppendTypeOK
  <2> QED
    BY <2>1, <2>2, <2>3
<1>19. ASSUME NEW th \in Thread, HeartbeatSucceeds(th)
      PROVE  WonGrows /\ RpcSteps /\ LeaderIdSteps
  <2>1. WonGrows
    BY <1>0, <1>19 DEF WonGrows, HeartbeatSucceeds, LeadsTermOf, electionVars, appendVars, raftVars, NodeTypeOK, ElectionTypeOK, AppendTypeOK
  <2>2. RpcSteps
    BY <1>0, <1>19 DEF RpcSteps, HeartbeatSucceeds, LeadsTermOf, electionVars, appendVars, raftVars, NodeTypeOK, ElectionTypeOK, AppendTypeOK
  <2>3. LeaderIdSteps
    BY <1>0, <1>19 DEF LeaderIdSteps, HeartbeatSucceeds, LeadsTermOf, electionVars, appendVars, raftVars, NodeTypeOK, ElectionTypeOK, AppendTypeOK
  <2> QED
    BY <2>1, <2>2, <2>3
<1>20. ASSUME NEW th \in Thread, AppendBacktracks(th)
      PROVE  WonGrows /\ RpcSteps /\ LeaderIdSteps
  <2>1. WonGrows
    BY <1>0, <1>20 DEF WonGrows, AppendBacktracks, LeadsTermOf, electionVars, appendVars, raftVars, NodeTypeOK, ElectionTypeOK, AppendTypeOK
  <2>2. RpcSteps
    BY <1>0, <1>20 DEF RpcSteps, AppendBacktracks, LeadsTermOf, electionVars, appendVars, raftVars, NodeTypeOK, ElectionTypeOK, AppendTypeOK
  <2>3. LeaderIdSteps
    BY <1>0, <1>20 DEF LeaderIdSteps, AppendBacktracks, LeadsTermOf, electionVars, appendVars, raftVars, NodeTypeOK, ElectionTypeOK, AppendTypeOK
  <2> QED
    BY <2>1, <2>2, <2>3
<1>21. ASSUME NEW th \in Thread, AppendFails(th)
      PROVE  WonGrows /\ RpcSteps /\ LeaderIdSteps
  <2>1. WonGrows
    BY <1>0, <1>21 DEF WonGrows, AppendFails, electionVars, appendVars, raftVars, NodeTypeOK, ElectionTypeOK, AppendTypeOK
  <2>2. RpcSteps
    BY <1>0, <1>21 DEF RpcSteps, AppendFails, electionVars, appendVars, raftVars, NodeTypeOK, ElectionTypeOK, AppendTypeOK
  <2>3. LeaderIdSteps
    BY <1>0, <1>21 DEF LeaderIdSteps, AppendFails, electionVars, appendVars, raftVars, NodeTypeOK, ElectionTypeOK, AppendTypeOK
  <2> QED
    BY <2>1, <2>2, <2>3
<1> QED
  BY <1>1, <1>2, <1>3, <1>4, <1>5, <1>6, <1>7, <1>8, <1>9, <1>10, <1>11, <1>12, <1>13, <1>14, <1>15, <1>16, <1>17, <1>18, <1>19, <1>20, <1>21 DEF Next

\* Every step keeps the leader invariant.
LEMMA LeaderStep == TypeInv /\ TypeInv' /\ ElectionInv /\ LeaderInv /\ [Next]_vars => LeaderInv'
<1> SUFFICES ASSUME TypeInv, TypeInv', ElectionInv, LeaderInv, [Next]_vars
             PROVE  LeaderInv'
  OBVIOUS
<1> USE RaftAssumption
<1>0. NodeTypeOK /\ NodeTypeOK' /\ ElectionTypeOK /\ LeaderElected /\ AppendTypeOK
  BY DEF TypeInv, AppendInv
<1>1. CASE Next
  <2>1. WonGrows /\ RpcSteps /\ LeaderIdSteps /\ TermsAdvance
    BY <1>1, LeaderSteps, VoteSteps
  <2>2. \A th \in Thread : rpc[th] # Idle => rpc[th].leader \in Node
    BY <1>0 DEF AppendTypeOK, AppendRequest, AppendReply
  <2>3. RpcFromElected'
    BY <1>0, <2>1, <2>2 DEF LeaderInv, RpcFromElected, RpcSteps, WonGrows, LeaderElected
  <2>4. LeaderIdWasElected'
    <3> SUFFICES ASSUME NEW n \in Node, leaderId'[n] # Nil
                 PROVE  \E t \in won'[leaderId'[n]] : t <= currentTerm'[n]
      BY DEF LeaderIdWasElected
    <3>0. currentTerm[n] \in Nat /\ currentTerm'[n] \in Nat
      BY <1>0 DEF NodeTypeOK
    <3>1. CASE leaderId'[n] = leaderId[n]
      <4>1. PICK t \in won[leaderId[n]] : t <= currentTerm[n]
        BY <3>1 DEF LeaderInv, LeaderIdWasElected
      <4>2. leaderId[n] \in Node /\ t \in won'[leaderId[n]]
        BY <1>0, <2>1, <3>1, <4>1 DEF WonGrows, NodeTypeOK
      <4>3. t \in Nat
        BY <1>0, <4>1, <4>2 DEF ElectionTypeOK, Term
      <4>4. currentTerm[n] <= currentTerm'[n]
        BY <2>1, <3>0 DEF TermsAdvance
      <4>5. t <= currentTerm'[n]
        BY <3>0, <4>1, <4>3, <4>4
      <4> QED
        BY <3>1, <4>2, <4>5
    <3>2. CASE leaderId'[n] = n /\ currentTerm'[n] \in won'[n]
      BY <3>0, <3>2
    <3>3. ASSUME NEW th \in Thread, rpc[th] # Idle, leaderId'[n] = rpc[th].leader,
                 currentTerm'[n] = rpc[th].term
          PROVE  \E t \in won'[leaderId'[n]] : t <= currentTerm'[n]
      <4>1. currentTerm'[n] \in won'[leaderId'[n]]
        BY <2>1, <2>2, <3>3 DEF LeaderInv, RpcFromElected, WonGrows
      <4> QED
        BY <3>0, <4>1
    <3> QED
      BY <2>1, <3>1, <3>2, <3>3 DEF LeaderIdSteps
  <2> QED
    BY <2>3, <2>4 DEF LeaderInv
<1>2. CASE UNCHANGED vars
  BY <1>2 DEF LeaderInv, RpcFromElected, LeaderIdWasElected, vars, raftVars, electionVars, appendVars
<1> QED
  BY <1>1, <1>2

\* The leader a node shows on GET /leader was elected in a term the node has
\* reached, in every cluster.
THEOREM LeaderIdCorrect == Spec => []LeaderIdWasElected
<1>1. Init => LeaderInv
  BY DEF Init, LeaderInv, RpcFromElected, LeaderIdWasElected
<1>2. LeaderInv => LeaderIdWasElected
  BY DEF LeaderInv
<1> QED
  BY <1>1, <1>2, ElectionInvariant, LeaderStep, PTL DEF Spec

-----------------------------------------------------------------------------
(***************************************************************************)
(* What the replicated logs have in common, for every cluster and every    *)
(* bound, however AppendEntries requests overtake each other.              *)
(*                                                                         *)
(* A log grows in two ways: a leader appends, or a node glues the entries  *)
(* of a request behind a prefix of its log.  So log matching is stated of  *)
(* pieces of log, which are the logs and the requests under way, a request *)
(* knowing the term of the entry before its first one as well.  Two pieces *)
(* agree when an entry of the same term at the same position makes them    *)
(* the same up to there, as far as both reach (PiecesAgree).  A proposal   *)
(* keeps this because the position it fills is new for its term: entries   *)
(* of a term stem from the one node elected in it (TermsFromElected), and  *)
(* while that node leads no piece holds more of them than its log          *)
(* (LeaderHoldsTerm).                                                      *)
(***************************************************************************)
Whole(entries) == [prevLogIndex |-> -1, prevLogTerm |-> 0, entries |-> entries]

Pieces == {Whole(log[n]) : n \in Node} \cup Requests

Has(a, j) == Before(a) < j /\ j <= Before(a) + Len(a.entries)

At(a, j) == a.entries[j - Before(a)]

\* A piece knows the term of the entry before its first one.
Knows(a, j) == Before(a) <= j /\ j <= Before(a) + Len(a.entries)

TermAt(a, j) == IF j = Before(a) THEN a.prevLogTerm ELSE At(a, j).term

SameAt(a, b, q) ==
    /\ Knows(a, q) /\ Knows(b, q) => TermAt(a, q) = TermAt(b, q)
    /\ Has(a, q) /\ Has(b, q) => At(a, q) = At(b, q)

Agree(a, b) ==
    \A j \in Position :
        Has(a, j) /\ Has(b, j) /\ At(a, j).term = At(b, j).term
            => \A q \in 1..j : SameAt(a, b, q)

PiecesAgree == \A a, b \in Pieces : Agree(a, b)

TermsFromElected ==
    \A a \in Pieces : \A j \in Position :
        Has(a, j) => \E n \in Node : At(a, j).term \in won[n]

LeaderHoldsTerm ==
    \A n \in Node : state[n] = "LEADER" =>
        \A a \in Pieces : \A j \in Position :
            Has(a, j) /\ At(a, j).term = currentTerm[n]
                => j <= Len(log[n]) /\ log[n][j].term = currentTerm[n]

PieceInv == PiecesAgree /\ TermsFromElected /\ LeaderHoldsTerm

-----------------------------------------------------------------------------
(***************************************************************************)
(* Pieces.                                                                 *)
(***************************************************************************)
IsPiece(a) ==
    /\ a.prevLogIndex \in LogPosition
    /\ a.prevLogTerm \in 0..MaxTerm
    /\ a.entries \in Seq(Entry)
    /\ Before(a) + Len(a.entries) <= MaxLog

\* Logs and requests are pieces.
LEMMA PieceType ==
    ASSUME TypeInv, NEW a \in Pieces
    PROVE  IsPiece(a)
<1> USE RaftAssumption
<1>1. CASE \E n \in Node : a = Whole(log[n])
  <2>1. PICK n \in Node : a = Whole(log[n])
    BY <1>1
  <2>2. log[n] \in Seq(Entry) /\ Len(log[n]) <= MaxLog /\ Len(log[n]) \in Nat
    BY DEF TypeInv, LogInv, LogTypeOK
  <2>3. a.prevLogIndex = -1 /\ a.prevLogTerm = 0 /\ a.entries = log[n]
    BY <2>1 DEF Whole
  <2> QED
    BY <2>2, <2>3 DEF IsPiece, Before, LogPosition
<1>2. CASE a \in Requests
  <2>1. PICK th \in Thread : rpc[th].phase = "sent" /\ a = rpc[th]
    BY <1>2 DEF Requests
  <2>2. a \in AppendRequest /\ Fits(a)
    BY <2>1, RpcKinds DEF TypeInv, AppendInv, RpcFits
  <2> QED
    BY <2>1, <2>2 DEF IsPiece, Before, AppendRequest, Fits
<1> QED
  BY <1>1, <1>2 DEF Pieces

\* A piece begins behind a natural number of positions and has a length.
LEMMA PieceBounds ==
    ASSUME NEW a, IsPiece(a)
    PROVE  Before(a) \in Int /\ Before(a) >= 0 /\ Len(a.entries) \in Nat
<1>1. a.prevLogIndex \in Int /\ a.prevLogIndex >= -1
  BY RaftAssumption DEF IsPiece, LogPosition
<1>2. Len(a.entries) \in Nat
  BY LenProperties DEF IsPiece
<1> QED
  BY <1>1, <1>2 DEF Before

\* Where a piece has an entry it knows its term.
LEMMA HasKnows ==
    ASSUME NEW a, IsPiece(a), NEW j \in Int, Has(a, j)
    PROVE  Knows(a, j) /\ TermAt(a, j) = At(a, j).term /\ At(a, j) \in Entry
<1>1. Before(a) \in Int /\ Len(a.entries) \in Nat /\ a.entries \in Seq(Entry)
  BY DEF IsPiece, Before, LogPosition
<1>2. j - Before(a) \in 1..Len(a.entries)
  BY <1>1 DEF Has
<1>3. At(a, j) \in Entry
  BY <1>1, <1>2, ElementOfSeq DEF At
<1> QED
  BY <1>1, <1>3 DEF Has, Knows, TermAt

\* Agreement is symmetric, and a piece agrees with itself.
LEMMA AgreeSymmetric ==
    ASSUME NEW a, NEW b, Agree(a, b)
    PROVE  Agree(b, a)
  BY DEF Agree, SameAt

LEMMA AgreeSelf ==
    ASSUME NEW a
    PROVE  Agree(a, a)
  BY DEF Agree, SameAt

\* A piece c that has entries is a part of a: what it knows, a knows.
PartOf(c, a) ==
    \A j \in Position : Has(c, j) => \A q \in 1..j :
        /\ Has(c, q) => Has(a, q) /\ At(c, q) = At(a, q)
        /\ Knows(c, q) => Knows(a, q) /\ TermAt(c, q) = TermAt(a, q)

\* A part agrees with what the whole agrees with.
LEMMA PartAgrees ==
    ASSUME NEW a, NEW b, NEW c, Agree(a, b), PartOf(c, a)
    PROVE  Agree(c, b)
<1> SUFFICES ASSUME NEW j \in Position, Has(c, j), Has(b, j), At(c, j).term = At(b, j).term,
                    NEW q \in 1..j
             PROVE  SameAt(c, b, q)
  BY DEF Agree
<1>1. j \in 1..j
  BY RaftAssumption DEF Position
<1>2. Has(a, j) /\ At(c, j) = At(a, j)
  BY <1>1 DEF PartOf
<1>3. SameAt(a, b, q)
  BY <1>2 DEF Agree
<1> QED
  BY <1>3 DEF PartOf, SameAt

\* g is the log a up to the position before m, and m from there on; m knows the
\* term of the last entry it shares with a.
Glued(g, a, m) ==
    /\ \A q \in Position : q <= Before(m) =>
          /\ Has(a, q) /\ Has(g, q) /\ At(g, q) = At(a, q)
    /\ \A q \in Position : q > Before(m) =>
          /\ Has(g, q) <=> Has(m, q)
          /\ Has(m, q) => At(g, q) = At(m, q)
    /\ Before(m) \in Position =>
          Knows(m, Before(m)) /\ TermAt(m, Before(m)) = TermAt(a, Before(m))
    /\ Before(g) = 0 /\ Before(a) = 0

\* Gluing what agrees with b to what agrees with b agrees with b.
LEMMA GlueAgrees ==
    ASSUME NEW a, NEW m, NEW g, NEW b, IsPiece(a), IsPiece(m), IsPiece(g), IsPiece(b),
           Agree(a, b), Agree(m, b), Glued(g, a, m)
    PROVE  Agree(g, b)
<1> USE RaftAssumption
<1> DEFINE k == Before(m)
<1>0. k \in Int /\ k >= 0 /\ Before(b) \in Int /\ Len(b.entries) \in Nat /\ Len(g.entries) \in Nat
  BY PieceBounds
<1> SUFFICES ASSUME NEW j \in Position, Has(g, j), Has(b, j), At(g, j).term = At(b, j).term,
                    NEW q \in 1..j
             PROVE  SameAt(g, b, q)
  BY DEF Agree
<1>1. j \in 1..j /\ j \in Int /\ q \in Position /\ q \in Int /\ q >= 1 /\ q <= j
  BY DEF Position
<1>2. ASSUME NEW i \in Position
      PROVE  /\ Has(g, i) => Knows(g, i) /\ TermAt(g, i) = At(g, i).term
             /\ Has(a, i) => Knows(a, i) /\ TermAt(a, i) = At(a, i).term
             /\ Has(b, i) => Knows(b, i) /\ TermAt(b, i) = At(b, i).term
             /\ Has(m, i) => Knows(m, i) /\ TermAt(m, i) = At(m, i).term
             /\ Knows(g, i) => Has(g, i)
             /\ i \in Int
  <2>1. i \in Int /\ i >= 1
    BY DEF Position
  <2>2. Knows(g, i) => Has(g, i)
    BY <1>0, <2>1 DEF Glued, Knows, Has
  <2> QED
    BY <2>1, <2>2, HasKnows
<1>3. CASE j <= k
  <2>1. Has(a, j) /\ At(g, j) = At(a, j)
    BY <1>3 DEF Glued
  <2>2. SameAt(a, b, q)
    BY <2>1 DEF Agree
  <2>3. q <= k
    BY <1>0, <1>1, <1>3
  <2>4. Has(a, q) /\ At(g, q) = At(a, q)
    BY <1>1, <2>3 DEF Glued
  <2> QED
    BY <1>1, <1>2, <2>2, <2>4 DEF SameAt
<1>4. CASE j > k
  <2>1. Has(m, j) /\ At(g, j) = At(m, j)
    BY <1>4 DEF Glued
  <2>2. \A i \in 1..j : SameAt(m, b, i)
    BY <2>1 DEF Agree
  <2>3. CASE q > k
    <3>1. /\ Has(g, q) <=> Has(m, q)
          /\ Has(m, q) => At(g, q) = At(m, q)
      BY <1>1, <2>3 DEF Glued
    <3> QED
      BY <1>1, <1>2, <2>2, <3>1 DEF SameAt
  <2>4. CASE q <= k
    <3>1. k \in Position /\ k \in 1..j
      BY <1>0, <1>1, <1>4, <2>4 DEF Position
    <3>2. SameAt(m, b, k)
      BY <2>2, <3>1
    <3>3. /\ Has(a, q) /\ Has(g, q) /\ At(g, q) = At(a, q)
          /\ Has(a, k) /\ Knows(m, k) /\ TermAt(m, k) = TermAt(a, k)
      BY <1>0, <1>1, <2>4, <3>1 DEF Glued
    <3>4. Knows(b, k) => TermAt(a, k) = TermAt(b, k)
      BY <3>2, <3>3 DEF SameAt
    <3>5. CASE Has(b, k)
      <4>1. At(a, k).term = At(b, k).term
        BY <1>2, <3>1, <3>3, <3>4, <3>5
      <4>2. q \in 1..k
        BY <1>0, <1>1, <2>4
      <4>3. SameAt(a, b, q)
        BY <3>1, <3>3, <3>5, <4>1, <4>2 DEF Agree
      <4> QED
        BY <1>1, <1>2, <3>3, <4>3 DEF SameAt
    <3>6. CASE ~ Has(b, k)
      <4>1. k <= Before(b)
        <5>1. j <= Before(b) + Len(b.entries)
          BY DEF Has
        <5> HIDE DEF k
        <5> QED
          BY <1>0, <1>1, <1>4, <3>6, <5>1 DEF Has
      <4>2. CASE q = k
        <5>1. ~ Has(b, q) /\ TermAt(g, q) = TermAt(a, q)
          BY <1>1, <1>2, <3>3, <3>6, <4>2
        <5> QED
          BY <3>4, <4>2, <5>1 DEF SameAt
      <4>3. CASE q # k
        <5>1. ~ Has(b, q) /\ ~ Knows(b, q)
          <6> HIDE DEF k
          <6> QED
            BY <1>0, <1>1, <2>4, <4>1, <4>3 DEF Has, Knows
        <5> QED
          BY <5>1 DEF SameAt
      <4> QED
        BY <4>2, <4>3
    <3> QED
      BY <3>5, <3>6
  <2> QED
    BY <1>0, <1>1, <2>3, <2>4
<1> QED
  BY <1>0, <1>1, <1>3, <1>4

\* g is the log a with one entry more, at position last.
Extended(g, a, last) ==
    /\ Before(g) = 0 /\ Before(a) = 0
    /\ \A q \in Position :
          /\ Has(a, q) => q < last
          /\ Has(g, q) <=> Has(a, q) \/ q = last
          /\ Has(a, q) => At(g, q) = At(a, q)

\* The log with an entry more agrees with what has no entry of that term there.
LEMMA ExtendAgrees ==
    ASSUME NEW a, NEW g, NEW b, NEW last \in Position, IsPiece(a), IsPiece(g), IsPiece(b),
           Agree(a, b), Extended(g, a, last),
           ~ (Has(b, last) /\ At(b, last).term = At(g, last).term)
    PROVE  Agree(g, b)
<1> USE RaftAssumption
<1> SUFFICES ASSUME NEW j \in Position, Has(g, j), Has(b, j), At(g, j).term = At(b, j).term,
                    NEW q \in 1..j
             PROVE  SameAt(g, b, q)
  BY DEF Agree
<1>1. j # last
  OBVIOUS
<1>2. Has(a, j) /\ At(g, j) = At(a, j) /\ j < last
  BY <1>1 DEF Extended
<1>3. SameAt(a, b, q)
  BY <1>2 DEF Agree
<1>4. q \in Position /\ q \in Int /\ q >= 1 /\ q # last
  BY <1>2 DEF Position
<1>5. (Has(g, q) <=> Has(a, q)) /\ (Has(a, q) => At(g, q) = At(a, q))
  BY <1>4 DEF Extended
<1>6. /\ Has(g, q) => Knows(g, q) /\ TermAt(g, q) = At(g, q).term
      /\ Has(a, q) => Knows(a, q) /\ TermAt(a, q) = At(a, q).term
  BY <1>4, HasKnows
<1>7. Knows(g, q) => Has(g, q)
  <2>1. Before(g) = 0 /\ Len(g.entries) \in Nat
    BY DEF Extended, IsPiece
  <2> QED
    BY <1>4, <2>1 DEF Knows, Has
<1> QED
  BY <1>3, <1>5, <1>6, <1>7 DEF SameAt

-----------------------------------------------------------------------------
(***************************************************************************)
(* Which steps change pieces or leaders.                                   *)
(***************************************************************************)
\* No log changes and no request is new.
NoNewPiece ==
    /\ log' = log
    /\ \A th \in Thread : rpc'[th].phase = "sent" => rpc'[th] = rpc[th]

\* Only propose, the snapshot of a sender and handle_append_entries make pieces.
LEMMA PieceSteps ==
    ASSUME TypeInv, Next
    PROVE  \/ NoNewPiece
           \/ \E n \in Node, d \in Data : Propose(n, d)
           \/ \E n, p \in Node, th \in Thread : SendAppend(n, p, th)
           \/ \E th \in Thread : HandleAppendEntries(th)
<1>0. AppendTypeOK
  BY DEF TypeInv, AppendInv
<1>1. ASSUME NEW n \in Node, ElectionTimeout(n)
      PROVE  NoNewPiece
  BY <1>0, <1>1 DEF NoNewPiece, AppendTypeOK, ElectionTimeout, logVars, appendVars
<1>2. ASSUME NEW n \in Node, TimeoutNotElapsed(n)
      PROVE  NoNewPiece
  BY <1>0, <1>2 DEF NoNewPiece, AppendTypeOK, TimeoutNotElapsed, logVars, appendVars
<1>3. ASSUME NEW n \in Node, FailLeader(n)
      PROVE  NoNewPiece
  BY <1>0, <1>3 DEF NoNewPiece, AppendTypeOK, FailLeader, logVars, appendVars
<1>4. ASSUME NEW n \in Node, NEW t \in Term, NEW p \in Node, AskVote(n, t, p)
      PROVE  NoNewPiece
  BY <1>0, <1>4 DEF NoNewPiece, AppendTypeOK, AskVote, logVars, appendVars
<1>5. ASSUME NEW m \in voteRequests, HandleRequestVote(m)
      PROVE  NoNewPiece
  BY <1>0, <1>5 DEF NoNewPiece, AppendTypeOK, HandleRequestVote, logVars, appendVars
<1>6. ASSUME NEW r \in voteReplies, VoteReplyStepsDown(r)
      PROVE  NoNewPiece
  BY <1>0, <1>6 DEF NoNewPiece, AppendTypeOK, VoteReplyStepsDown, StepDown, logVars, appendVars
<1>7. ASSUME NEW r \in voteReplies, CountVote(r)
      PROVE  NoNewPiece
  BY <1>0, <1>7 DEF NoNewPiece, AppendTypeOK, CountVote, logVars, appendVars
<1>8. ASSUME NEW n \in Node, NEW t \in Term, VoteRequestFails(n, t)
      PROVE  NoNewPiece
  BY <1>0, <1>8 DEF NoNewPiece, AppendTypeOK, VoteRequestFails, logVars, appendVars
<1>9. ASSUME NEW n \in Node, NEW t \in Term, WinElection(n, t)
      PROVE  NoNewPiece
  BY <1>0, <1>9 DEF NoNewPiece, AppendTypeOK, WinElection, ElectionWon, logVars, appendVars
<1>10. ASSUME NEW n \in Node, NEW t \in Term, LoseElection(n, t)
      PROVE  NoNewPiece
  BY <1>0, <1>10 DEF NoNewPiece, AppendTypeOK, LoseElection, logVars, appendVars
<1>13. ASSUME NEW n \in Node, NEW p \in Node, SendAppendReturns(n, p)
      PROVE  NoNewPiece
  BY <1>0, <1>13 DEF NoNewPiece, AppendTypeOK, SendAppendReturns, logVars, appendVars
<1>14. ASSUME NEW th \in Thread, RejectStaleAppend(th)
      PROVE  NoNewPiece
  BY <1>0, <1>14 DEF NoNewPiece, AppendTypeOK, RejectStaleAppend, Answer, logVars, appendVars
<1>16. ASSUME NEW th \in Thread, IgnoreAppendReply(th)
      PROVE  NoNewPiece
  BY <1>0, <1>16 DEF NoNewPiece, AppendTypeOK, IgnoreAppendReply, Idle, logVars, appendVars
<1>17. ASSUME NEW th \in Thread, AppendReplyStepsDown(th)
      PROVE  NoNewPiece
  BY <1>0, <1>17 DEF NoNewPiece, AppendTypeOK, AppendReplyStepsDown, StepDown, LeadsTermOf, Idle, logVars, appendVars
<1>18. ASSUME NEW th \in Thread, AppendSucceeds(th)
      PROVE  NoNewPiece
  BY <1>0, <1>18 DEF NoNewPiece, AppendTypeOK, AppendSucceeds, Idle, logVars, appendVars
<1>19. ASSUME NEW th \in Thread, HeartbeatSucceeds(th)
      PROVE  NoNewPiece
  BY <1>0, <1>19 DEF NoNewPiece, AppendTypeOK, HeartbeatSucceeds, Idle, logVars, appendVars
<1>20. ASSUME NEW th \in Thread, AppendBacktracks(th)
      PROVE  NoNewPiece
  BY <1>0, <1>20 DEF NoNewPiece, AppendTypeOK, AppendBacktracks, Idle, logVars, appendVars
<1>21. ASSUME NEW th \in Thread, AppendFails(th)
      PROVE  NoNewPiece
  BY <1>0, <1>21 DEF NoNewPiece, AppendTypeOK, AppendFails, Idle, logVars, appendVars
<1> QED
  BY <1>1, <1>2, <1>3, <1>4, <1>5, <1>6, <1>7, <1>8, <1>9, <1>10, <1>13, <1>14, <1>16, <1>17, <1>18, <1>19, <1>20, <1>21 DEF Next

\* Who leads after a step led before it, in the same term, or wins its election.
LEMMA LeadersStay ==
    ASSUME TypeInv, Next, NEW k \in Node, state'[k] = "LEADER"
    PROVE  /\ currentTerm'[k] = currentTerm[k]
           /\ state[k] = "LEADER" \/ WinElection(k, currentTerm[k])
<1> USE RaftAssumption
<1>0. NodeTypeOK /\ ElectionTypeOK /\ AppendTypeOK
  BY DEF TypeInv, AppendInv
<1> DEFINE Goal == /\ currentTerm'[k] = currentTerm[k]
                   /\ state[k] = "LEADER" \/ WinElection(k, currentTerm[k])
<1>1. ASSUME NEW n \in Node, ElectionTimeout(n)
      PROVE  Goal
  BY <1>0, <1>1 DEF NodeTypeOK, ElectionTimeout, raftVars
<1>2. ASSUME NEW n \in Node, TimeoutNotElapsed(n)
      PROVE  Goal
  BY <1>0, <1>2 DEF NodeTypeOK, TimeoutNotElapsed, raftVars
<1>3. ASSUME NEW n \in Node, FailLeader(n)
      PROVE  Goal
  BY <1>0, <1>3 DEF NodeTypeOK, FailLeader, raftVars
<1>4. ASSUME NEW n \in Node, NEW t \in Term, NEW p \in Node, AskVote(n, t, p)
      PROVE  Goal
  BY <1>0, <1>4 DEF NodeTypeOK, AskVote, raftVars
<1>5. ASSUME NEW m \in voteRequests, HandleRequestVote(m)
      PROVE  Goal
  BY <1>0, <1>5 DEF NodeTypeOK, HandleRequestVote, ElectionTypeOK, VoteRequest, raftVars
<1>6. ASSUME NEW r \in voteReplies, VoteReplyStepsDown(r)
      PROVE  Goal
  BY <1>0, <1>6 DEF NodeTypeOK, VoteReplyStepsDown, StepDown, ElectionTypeOK, VoteReply, raftVars
<1>7. ASSUME NEW r \in voteReplies, CountVote(r)
      PROVE  Goal
  BY <1>0, <1>7 DEF NodeTypeOK, CountVote, raftVars
<1>8. ASSUME NEW n \in Node, NEW t \in Term, VoteRequestFails(n, t)
      PROVE  Goal
  BY <1>0, <1>8 DEF NodeTypeOK, VoteRequestFails, raftVars
<1>9. ASSUME NEW n \in Node, NEW t \in Term, WinElection(n, t)
      PROVE  Goal
  <2>1. currentTerm' = currentTerm /\ t = currentTerm[n]
    BY <1>9 DEF WinElection, ElectionWon
  <2>2. k # n => state[k] = "LEADER"
    BY <1>0, <1>9 DEF WinElection, NodeTypeOK
  <2> QED
    BY <1>9, <2>1, <2>2
<1>10. ASSUME NEW n \in Node, NEW t \in Term, LoseElection(n, t)
      PROVE  Goal
  BY <1>0, <1>10 DEF NodeTypeOK, LoseElection, raftVars
<1>11. ASSUME NEW n \in Node, NEW d \in Data, Propose(n, d)
      PROVE  Goal
  BY <1>0, <1>11 DEF NodeTypeOK, Propose, raftVars
<1>12. ASSUME NEW n \in Node, NEW p \in Node, NEW th \in Thread, SendAppend(n, p, th)
      PROVE  Goal
  BY <1>0, <1>12 DEF NodeTypeOK, SendAppend, MaySend, raftVars
<1>13. ASSUME NEW n \in Node, NEW p \in Node, SendAppendReturns(n, p)
      PROVE  Goal
  BY <1>0, <1>13 DEF NodeTypeOK, SendAppendReturns, raftVars
<1>14. ASSUME NEW th \in Thread, RejectStaleAppend(th)
      PROVE  Goal
  BY <1>0, <1>14, RpcKinds DEF NodeTypeOK, RejectStaleAppend, raftVars
<1>15. ASSUME NEW th \in Thread, HandleAppendEntries(th)
      PROVE  Goal
  BY <1>0, <1>15, RpcKinds DEF NodeTypeOK, HandleAppendEntries, AppendRequest, raftVars
<1>16. ASSUME NEW th \in Thread, IgnoreAppendReply(th)
      PROVE  Goal
  BY <1>0, <1>16, RpcKinds DEF NodeTypeOK, IgnoreAppendReply, raftVars
<1>17. ASSUME NEW th \in Thread, AppendReplyStepsDown(th)
      PROVE  Goal
  BY <1>0, <1>17, RpcKinds DEF NodeTypeOK, AppendReplyStepsDown, StepDown, LeadsTermOf, AppendReply, raftVars
<1>18. ASSUME NEW th \in Thread, AppendSucceeds(th)
      PROVE  Goal
  BY <1>0, <1>18, RpcKinds DEF NodeTypeOK, AppendSucceeds, raftVars
<1>19. ASSUME NEW th \in Thread, HeartbeatSucceeds(th)
      PROVE  Goal
  BY <1>0, <1>19, RpcKinds DEF NodeTypeOK, HeartbeatSucceeds, raftVars
<1>20. ASSUME NEW th \in Thread, AppendBacktracks(th)
      PROVE  Goal
  BY <1>0, <1>20, RpcKinds DEF NodeTypeOK, AppendBacktracks, raftVars
<1>21. ASSUME NEW th \in Thread, AppendFails(th)
      PROVE  Goal
  BY <1>0, <1>21, RpcKinds DEF NodeTypeOK, AppendFails, raftVars
<1> QED
  BY <1>1, <1>2, <1>3, <1>4, <1>5, <1>6, <1>7, <1>8, <1>9, <1>10, <1>11, <1>12, <1>13, <1>14, <1>15, <1>16, <1>17, <1>18, <1>19, <1>20, <1>21 DEF Next

-----------------------------------------------------------------------------
(***************************************************************************)
(* The pieces the three steps make.                                        *)
(***************************************************************************)
\* A log as a piece.
LEMMA WholeLog ==
    ASSUME NEW s \in Seq(Entry), Len(s) <= MaxLog
    PROVE  /\ IsPiece(Whole(s)) /\ Before(Whole(s)) = 0
           /\ \A j \in Position :
                 /\ Has(Whole(s), j) <=> j <= Len(s)
                 /\ Knows(Whole(s), j) <=> j <= Len(s)
                 /\ At(Whole(s), j) = s[j]
                 /\ TermAt(Whole(s), j) = s[j].term
<1> USE RaftAssumption
<1>1. /\ Whole(s).prevLogIndex = -1 /\ Whole(s).prevLogTerm = 0 /\ Whole(s).entries = s
      /\ Before(Whole(s)) = 0 /\ Len(s) \in Nat
  BY DEF Whole, Before
<1>2. IsPiece(Whole(s))
  BY <1>1 DEF IsPiece, LogPosition
<1>3. \A j \in Position : j \in Int /\ j >= 1
  BY DEF Position
<1> QED
  BY <1>1, <1>2, <1>3 DEF Has, Knows, At, TermAt

\* A prefix of a log is a part of it.
LEMMA PrefixIsPart ==
    ASSUME NEW s \in Seq(Entry), NEW r \in Seq(Entry), Len(r) <= Len(s), Len(s) <= MaxLog,
           \A i \in 1..Len(r) : r[i] = s[i]
    PROVE  PartOf(Whole(r), Whole(s))
<1> USE RaftAssumption
<1>1. Len(r) \in Nat /\ Len(s) \in Nat /\ Len(r) <= MaxLog
  OBVIOUS
<1> SUFFICES ASSUME NEW j \in Position, Has(Whole(r), j), NEW q \in 1..j
             PROVE  /\ Has(Whole(s), q) /\ At(Whole(r), q) = At(Whole(s), q)
                    /\ Knows(Whole(s), q) /\ TermAt(Whole(r), q) = TermAt(Whole(s), q)
  BY DEF PartOf
<1>2. j <= Len(r)
  BY <1>1, WholeLog
<1>3. q \in Position /\ q \in 1..Len(r) /\ q <= Len(s)
  BY <1>1, <1>2 DEF Position
<1>4. r[q] = s[q]
  BY <1>3
<1> QED
  BY <1>1, <1>3, <1>4, WholeLog

\* What handle_append_entries makes of a log: the same one, a prefix cut off at a
\* conflict, or the prefix up to the position before the request and its entries.
LEMMA NewLogForms ==
    ASSUME NEW old \in Seq(Entry), NEW m \in AppendRequest
    PROVE  LET k   == Before(m)
               new == NewLog(old, m)
               ok  == Consistent(old, m.prevLogIndex, m.prevLogTerm)
           IN  /\ k \in Nat
               /\ ok => k <= Len(old) /\ (k >= 1 => old[k].term = m.prevLogTerm)
               /\ \/ new = old /\ (ok => Len(m.entries) = 0)
                  \/ /\ ~ ok /\ k >= 1 /\ k <= Len(old) /\ old[k].term # m.prevLogTerm
                     /\ Len(new) = k - 1 /\ \A q \in 1..(k - 1) : new[q] = old[q]
                  \/ /\ ok /\ Len(new) = k + Len(m.entries)
                     /\ \A q \in 1..k : new[q] = old[q]
                     /\ \A q \in (k + 1)..(k + Len(m.entries)) : new[q] = At(m, q)
<1> USE RaftAssumption
<1> DEFINE k == Before(m)
           new == NewLog(old, m)
           ok == Consistent(old, m.prevLogIndex, m.prevLogTerm)
<1>0. /\ m.prevLogIndex = k - 1 /\ k \in Nat /\ Len(old) \in Nat
      /\ m.entries \in Seq(Entry) /\ Len(m.entries) \in Nat
  BY DEF AppendRequest, LogPosition, Before
<1>1. ok <=> (k < 1 \/ (k <= Len(old) /\ old[k].term = m.prevLogTerm))
  <2> HIDE DEF k
  <2>1. (k - 1) + 1 = k /\ (k - 1 < 0 <=> k < 1) /\ (k - 1 < Len(old) <=> k <= Len(old))
    BY <1>0
  <2> QED
    BY <1>0, <2>1 DEF Consistent
<1>2. ok => k <= Len(old) /\ (k >= 1 => old[k].term = m.prevLogTerm)
  <2> HIDE DEF k, ok
  <2> QED
    BY <1>0, <1>1
<1>3. new = IF k - 1 >= Len(old) \/ (ok /\ m.entries = <<>>) THEN old
            ELSE IF ok THEN SubSeq(old, 1, (k - 1) + 1) \o m.entries
            ELSE SubSeq(old, 1, k - 1)
  BY <1>0 DEF NewLog
<1>4. CASE k - 1 >= Len(old) \/ (ok /\ m.entries = <<>>)
  <2>1. new = old
    BY <1>3, <1>4
  <2>2. ok => Len(m.entries) = 0
    <3> HIDE DEF k, ok
    <3> QED
      BY <1>0, <1>2, <1>4, EmptySeq
  <2> QED
    BY <1>0, <1>2, <2>1, <2>2
<1>5. CASE ok /\ ~ (k - 1 >= Len(old) \/ m.entries = <<>>)
  <2>1. new = SubSeq(old, 1, k) \o m.entries
    <3>1. (k - 1) + 1 = k
      BY <1>0
    <3> HIDE DEF new, ok, k
    <3>2. new = SubSeq(old, 1, (k - 1) + 1) \o m.entries
      BY <1>3, <1>5, Zenon
    <3> QED
      BY <3>1, <3>2, Zenon
  <2>2. \A i \in 1..k : old[i] \in Entry
    BY <1>0, <1>2, <1>5, ElementOfSeq
  <2>3. /\ SubSeq(old, 1, k) \in Seq(Entry) /\ Len(SubSeq(old, 1, k)) = k
        /\ \A i \in 1..k : SubSeq(old, 1, k)[i] = old[i]
    BY <1>0, <2>2, SubSeqProperties
  <2>4. /\ Len(new) = k + Len(m.entries)
        /\ \A i \in 1..(k + Len(m.entries)) :
              new[i] = IF i <= k THEN old[i] ELSE m.entries[i - k]
    BY <1>0, <2>1, <2>3, ConcatProperties
  <2> HIDE DEF new
  <2>5. \A q \in 1..k : q \in 1..(k + Len(m.entries)) /\ q <= k
    BY <1>0
  <2>6. \A q \in (k + 1)..(k + Len(m.entries)) : q \in 1..(k + Len(m.entries)) /\ ~ (q <= k)
    BY <1>0
  <2>7. /\ \A q \in 1..k : new[q] = old[q]
        /\ \A q \in (k + 1)..(k + Len(m.entries)) : new[q] = At(m, q)
    BY <2>4, <2>5, <2>6 DEF At
  <2> QED
    BY <1>0, <1>2, <1>5, <2>4, <2>7 DEF new
<1>6. CASE ~ ok /\ ~ (k - 1 >= Len(old))
  <2>1. new = SubSeq(old, 1, k - 1)
    BY <1>3, <1>6
  <2>2. k >= 1 /\ k <= Len(old) /\ old[k].term # m.prevLogTerm /\ k - 1 \in Nat
    <3> HIDE DEF k, ok
    <3> QED
      BY <1>0, <1>1, <1>6
  <2>3. \A i \in 1..(k - 1) : old[i] \in Entry
    BY <1>0, <2>2, ElementOfSeq
  <2>4. Len(new) = k - 1 /\ \A q \in 1..(k - 1) : new[q] = old[q]
    BY <1>0, <2>1, <2>2, <2>3, SubSeqProperties
  <2> QED
    BY <1>0, <1>2, <1>6, <2>2, <2>4
<1> QED
  BY <1>4, <1>5, <1>6

\* handle_append_entries leaves a part of the log, or glues the request to it.
LEMMA NewLogPiece ==
    ASSUME NEW old \in Seq(Entry), Len(old) <= MaxLog, NEW m \in AppendRequest, Fits(m)
    PROVE  \/ PartOf(Whole(NewLog(old, m)), Whole(old))
           \/ Glued(Whole(NewLog(old, m)), Whole(old), m)
<1> USE RaftAssumption
<1> DEFINE k == Before(m)
           new == NewLog(old, m)
           ok == Consistent(old, m.prevLogIndex, m.prevLogTerm)
<1>0. /\ k \in Nat /\ m.entries \in Seq(Entry) /\ Len(m.entries) \in Nat /\ Len(old) \in Nat
      /\ new \in Seq(Entry) /\ Len(new) <= MaxLog
  <2>1. m.prevLogIndex \in LogPosition /\ m.entries \in Seq(Entry)
    BY DEF AppendRequest
  <2>2. k \in Nat
    BY <2>1 DEF LogPosition, Before
  <2>3. Len(m.entries) \in Nat /\ Len(old) \in Nat
    BY <2>1, LenProperties
  <2>4. new \in Seq(Entry) /\ Len(new) <= MaxLog
    <3> HIDE DEF new
    <3> QED
      BY NewLogType DEF new
  <2> QED
    BY <2>1, <2>2, <2>3, <2>4
<1>1. /\ ok => k <= Len(old) /\ (k >= 1 => old[k].term = m.prevLogTerm)
      /\ \/ new = old
         \/ k <= Len(old) /\ Len(new) = k - 1 /\ \A q \in 1..(k - 1) : new[q] = old[q]
         \/ /\ ok /\ Len(new) = k + Len(m.entries)
            /\ \A q \in 1..k : new[q] = old[q]
            /\ \A q \in (k + 1)..(k + Len(m.entries)) : new[q] = At(m, q)
  BY NewLogForms
<1>2. CASE new = old
  BY <1>0, <1>2, PrefixIsPart
<1>3. CASE k <= Len(old) /\ Len(new) = k - 1 /\ \A q \in 1..(k - 1) : new[q] = old[q]
  <2>1. Len(new) <= Len(old) /\ \A i \in 1..Len(new) : new[i] = old[i]
    BY <1>0, <1>3
  <2> QED
    BY <1>0, <2>1, PrefixIsPart
<1>4. CASE /\ ok /\ Len(new) = k + Len(m.entries)
           /\ \A q \in 1..k : new[q] = old[q]
           /\ \A q \in (k + 1)..(k + Len(m.entries)) : new[q] = At(m, q)
  <2> HIDE DEF k, new, ok
  <2>1. ASSUME NEW q \in Position
        PROVE  /\ q <= k => /\ Has(Whole(old), q) /\ Has(Whole(new), q)
                            /\ At(Whole(new), q) = At(Whole(old), q)
               /\ q > k => /\ Has(Whole(new), q) <=> Has(m, q)
                           /\ Has(m, q) => At(Whole(new), q) = At(m, q)
    <3>1. q \in Int /\ q >= 1
      BY DEF Position
    <3>2. /\ Has(Whole(new), q) <=> q <= Len(new)
          /\ At(Whole(new), q) = new[q]
          /\ Has(Whole(old), q) <=> q <= Len(old)
          /\ At(Whole(old), q) = old[q]
      BY <1>0, WholeLog
    <3>3. Has(m, q) <=> k < q /\ q <= k + Len(m.entries)
      BY DEF Has, k
    <3>4. q <= k => q \in 1..k /\ q <= Len(old) /\ q <= Len(new)
      BY <1>0, <1>1, <1>4, <3>1
    <3>5. k < q /\ q <= k + Len(m.entries) => q \in (k + 1)..(k + Len(m.entries))
      BY <1>0, <3>1
    <3> QED
      BY <1>0, <1>4, <3>1, <3>2, <3>3, <3>4, <3>5
  <2>2. k \in Position => Knows(m, k) /\ TermAt(m, k) = TermAt(Whole(old), k)
    <3>1. k \in Position => k >= 1 /\ TermAt(Whole(old), k) = old[k].term
      BY <1>0, WholeLog DEF Position
    <3>2. Knows(m, k) /\ TermAt(m, k) = m.prevLogTerm
      BY <1>0 DEF Knows, TermAt, k
    <3> QED
      BY <1>1, <1>4, <3>1, <3>2
  <2>3. Before(Whole(new)) = 0 /\ Before(Whole(old)) = 0
    BY DEF Whole, Before
  <2>4. Glued(Whole(new), Whole(old), m)
    BY <2>1, <2>2, <2>3 DEF Glued, k
  <2> QED
    BY <2>4 DEF new
<1> QED
  BY <1>1, <1>2, <1>3, <1>4

\* What _send_append_entries_to_peer copies is a part of the log.
LEMMA SentPiece ==
    ASSUME NEW s \in Seq(Entry), Len(s) <= MaxLog, NEW m, NEW prev \in Int, prev >= -1,
           m.prevLogIndex = prev, m.entries = SubSeq(s, prev + 2, Len(s)),
           prev \in 0..(Len(s) - 1) => m.prevLogTerm = s[prev + 1].term
    PROVE  PartOf(m, Whole(s))
<1> USE RaftAssumption
<1>1. Len(s) \in Nat /\ prev + 2 \in Int /\ Before(m) = prev + 1
  BY DEF Before
<1>2. \A i \in (prev + 2)..Len(s) : s[i] \in Entry
  BY <1>1, ElementOfSeq
<1>3. /\ Len(m.entries) = IF prev + 2 <= Len(s) THEN Len(s) - (prev + 2) + 1 ELSE 0
      /\ \A i \in 1..(Len(s) - (prev + 2) + 1) : m.entries[i] = s[(prev + 2) + i - 1]
  BY <1>1, <1>2, SubSeqProperties
<1> SUFFICES ASSUME NEW j \in Position, Has(m, j), NEW q \in 1..j
             PROVE  /\ Has(m, q) => Has(Whole(s), q) /\ At(m, q) = At(Whole(s), q)
                    /\ Knows(m, q) => Knows(Whole(s), q) /\ TermAt(m, q) = TermAt(Whole(s), q)
  BY DEF PartOf
<1>4. j \in Int /\ j <= Len(s) /\ prev + 1 < j
  <2>1. j \in Int
    BY DEF Position
  <2>2. prev + 1 < j /\ j <= prev + 1 + Len(m.entries)
    BY <1>1 DEF Has
  <2>3. CASE prev + 2 <= Len(s)
    BY <1>1, <1>3, <2>1, <2>2, <2>3
  <2>4. CASE ~ (prev + 2 <= Len(s))
    BY <1>1, <1>3, <2>1, <2>2, <2>4
  <2> QED
    BY <2>3, <2>4
<1>5. q \in Position /\ q \in Int /\ q >= 1 /\ q <= Len(s)
  BY <1>1, <1>4 DEF Position
<1>6. /\ Has(Whole(s), q) /\ Knows(Whole(s), q) /\ At(Whole(s), q) = s[q]
      /\ TermAt(Whole(s), q) = s[q].term
  BY <1>5, WholeLog
<1>7. prev + 1 < q => At(m, q) = s[q]
  <2>1. prev + 1 < q => q - (prev + 1) \in 1..(Len(s) - (prev + 2) + 1)
    BY <1>1, <1>5
  <2>2. prev + 1 < q => (prev + 2) + (q - (prev + 1)) - 1 = q
    BY <1>5
  <2> QED
    BY <1>1, <1>3, <2>1, <2>2 DEF At
<1>8. Has(m, q) => prev + 1 < q
  BY <1>1 DEF Has
<1>9. CASE q = prev + 1
  <2>1. m.prevLogTerm = s[q].term
    BY <1>1, <1>5, <1>9
  <2> QED
    BY <1>1, <1>6, <1>8, <1>9, <2>1 DEF TermAt
<1>10. CASE q # prev + 1
  <2>1. Knows(m, q) => prev + 1 < q
    BY <1>1, <1>5, <1>10 DEF Knows
  <2> QED
    BY <1>1, <1>6, <1>7, <1>8, <1>10, <2>1 DEF TermAt
<1> QED
  BY <1>9, <1>10

\* A proposal extends the log.
LEMMA ProposedPiece ==
    ASSUME NEW s \in Seq(Entry), NEW e \in Entry, Len(s) < MaxLog
    PROVE  /\ Append(s, e) \in Seq(Entry) /\ Len(Append(s, e)) = Len(s) + 1
           /\ Len(s) + 1 \in Position
           /\ Extended(Whole(Append(s, e)), Whole(s), Len(s) + 1)
           /\ At(Whole(Append(s, e)), Len(s) + 1) = e
<1> USE RaftAssumption
<1> DEFINE g == Append(s, e)
<1>1. /\ g \in Seq(Entry) /\ Len(g) = Len(s) + 1 /\ Len(s) \in Nat
      /\ \A i \in 1..Len(s) : g[i] = s[i]
      /\ g[Len(s) + 1] = e
  BY AppendProperties
<1>2. Len(s) + 1 \in Position /\ Len(g) <= MaxLog /\ Len(s) <= MaxLog
  BY <1>1 DEF Position
<1> HIDE DEF g
<1>3. ASSUME NEW q \in Position
      PROVE  /\ Has(Whole(s), q) => q < Len(s) + 1
             /\ Has(Whole(g), q) <=> Has(Whole(s), q) \/ q = Len(s) + 1
             /\ Has(Whole(s), q) => At(Whole(g), q) = At(Whole(s), q)
  <2>1. q \in Int /\ q >= 1
    BY DEF Position
  <2>2. /\ Has(Whole(s), q) <=> q <= Len(s)
        /\ Has(Whole(g), q) <=> q <= Len(g)
    BY <1>1, <1>2, WholeLog
  <2>3. At(Whole(s), q) = s[q] /\ At(Whole(g), q) = g[q]
    BY <1>1, <1>2, WholeLog
  <2>4. CASE q <= Len(s)
    BY <1>1, <2>1, <2>2, <2>3, <2>4
  <2>5. CASE q > Len(s)
    BY <1>1, <2>1, <2>2, <2>5
  <2> QED
    BY <1>1, <2>1, <2>4, <2>5
<1>4. Before(Whole(g)) = 0 /\ Before(Whole(s)) = 0
  BY DEF Whole, Before
<1>5. At(Whole(g), Len(s) + 1) = e
  BY <1>1, <1>2, WholeLog
<1> QED
  BY <1>1, <1>2, <1>3, <1>4, <1>5 DEF Extended, g

AllPieces == \A a \in Pieces : IsPiece(a)

\* All pieces are pieces, after a step as well.
LEMMA PiecesTyped == TypeInv => AllPieces
  BY PieceType DEF AllPieces

LEMMA PiecesTypedNext == TypeInv' => AllPieces'
  BY PiecesTyped, PTL

\* What a step turns a log or a thread into comes from g or was there before.
LEMMA PiecesFrom ==
    ASSUME NEW g,
           \A n \in Node : log'[n] = log[n] \/ Whole(log'[n]) = g,
           \A th \in Thread : rpc'[th].phase = "sent" => rpc'[th] = rpc[th] \/ rpc'[th] = g
    PROVE  Pieces' \subseteq Pieces \cup {g}
  BY DEF Pieces, Requests

\* Where the entries of a new piece come from.
Sourced(g) ==
    \A j \in Position : Has(g, j) => \E a \in Pieces : Has(a, j) /\ At(g, j) = At(a, j)

\* A step that only makes pieces of pieces: the new one agrees with the old ones
\* and has its entries from them.
Derived(g) == IsPiece(g) /\ Sourced(g) /\ \A b \in Pieces : Agree(g, b)

LEMMA PartDerived ==
    ASSUME PiecesAgree, NEW a \in Pieces, NEW g, IsPiece(g), PartOf(g, a)
    PROVE  Derived(g)
<1>1. \A j \in Position : j \in 1..j
  BY RaftAssumption DEF Position
<1>2. Sourced(g)
  BY <1>1 DEF Sourced, PartOf
<1>3. \A b \in Pieces : Agree(g, b)
  BY PartAgrees DEF PiecesAgree
<1> QED
  BY <1>2, <1>3 DEF Derived

LEMMA GlueDerived ==
    ASSUME TypeInv, PiecesAgree, NEW a \in Pieces, NEW m \in Pieces, NEW g, IsPiece(g),
           Glued(g, a, m)
    PROVE  Derived(g)
<1>1. Sourced(g)
  <2> SUFFICES ASSUME NEW j \in Position, Has(g, j)
               PROVE  \E x \in Pieces : Has(x, j) /\ At(g, j) = At(x, j)
    BY DEF Sourced
  <2>1. j \in Int /\ Before(m) \in Int
    BY PieceType, PieceBounds DEF Position
  <2>2. j <= Before(m) \/ j > Before(m)
    BY <2>1
  <2> QED
    BY <2>2 DEF Glued
<1>2. ASSUME NEW b \in Pieces
      PROVE  Agree(g, b)
  <2>1. IsPiece(a) /\ IsPiece(m) /\ IsPiece(b)
    BY PieceType
  <2>2. Agree(a, b) /\ Agree(m, b)
    BY DEF PiecesAgree
  <2> QED
    BY <2>1, <2>2, GlueAgrees
<1> QED
  BY <1>1, <1>2 DEF Derived

\* Every step but a proposal only derives pieces.
DerivingStep ==
    /\ \E g : Derived(g) /\ Pieces' \subseteq Pieces \cup {g}
    /\ \A n \in Node : state'[n] = "LEADER" => log'[n] = log[n]

LEMMA DerivingSteps ==
    ASSUME TypeInv, TypeInv', PiecesAgree, Next, ~ \E n \in Node, d \in Data : Propose(n, d)
    PROVE  DerivingStep
<1> USE RaftAssumption
<1>0. /\ log \in [Node -> Seq(Entry)] /\ \A n \in Node : Len(log[n]) <= MaxLog
      /\ AppendTypeOK /\ RpcFits /\ NodeTypeOK /\ LeaderTypeOK
  BY DEF TypeInv, LogInv, LogTypeOK, AppendInv
<1>b. \A a \in Pieces' : IsPiece(a)
  BY PiecesTypedNext DEF AllPieces
<1>a. \A n \in Node : Whole(log[n]) \in Pieces
  BY DEF Pieces
<1>1. CASE NoNewPiece
  <2>0. PICK s \in Seq(Entry) : Len(s) = 0
    BY EmptySeq
  <2> DEFINE none == Whole(s)
  <2>1. IsPiece(none) /\ \A j \in Position : ~ Has(none, j)
    <3>1. Len(s) = 0 /\ Len(s) <= MaxLog
      BY <2>0
    <3>2. \A j \in Position : j \in Int /\ j >= 1
      BY DEF Position
    <3>3. IsPiece(none) /\ \A j \in Position : Has(none, j) <=> j <= Len(s)
      BY <3>1, WholeLog
    <3> HIDE DEF none
    <3> QED
      BY <3>1, <3>2, <3>3
  <2>2. Derived(none)
    BY <2>1 DEF Derived, Sourced, Agree
  <2>3. Pieces' \subseteq Pieces
    BY <1>1 DEF NoNewPiece, Pieces, Requests
  <2> HIDE DEF none
  <2> QED
    BY <1>1, <2>2, <2>3 DEF DerivingStep, NoNewPiece
<1>2. ASSUME NEW n \in Node, NEW p \in Node, NEW th \in Thread, SendAppend(n, p, th)
      PROVE  DerivingStep
  <2> DEFINE m == rpc'[th]
             prev == nextIndex[n][p] - 1
  <2>1. /\ rpc' = [rpc EXCEPT ![th] = m] /\ log' = log
        /\ m.prevLogIndex = prev /\ m.entries = SubSeq(log[n], prev + 2, Len(log[n]))
        /\ m.prevLogTerm = IF prev \in 0..LastLogIndex(n) THEN log[n][prev + 1].term ELSE 0
        /\ m.phase = "sent"
    BY <1>0, <1>2 DEF SendAppend, logVars, AppendTypeOK
  <2>2. prev \in Int /\ prev >= -1
    BY <1>0, <1>2 DEF SendAppend, MaySend, LeaderTypeOK
  <2>3. IsPiece(m)
    <3>1. m \in Requests'
      BY <2>1 DEF Requests
    <3>2. m \in Pieces'
      BY <3>1 DEF Pieces
    <3> QED
      BY <1>b, <3>2
  <2>4. PartOf(m, Whole(log[n]))
    <3>1. prev \in 0..(Len(log[n]) - 1) => m.prevLogTerm = log[n][prev + 1].term
      BY <2>1 DEF LastLogIndex
    <3> HIDE DEF m, prev
    <3> QED
      BY <1>0, <2>1, <2>2, <3>1, SentPiece
  <2>5. Derived(m)
    BY <1>a, <2>3, <2>4, PartDerived
  <2>6. Pieces' \subseteq Pieces \cup {m}
    <3>1. \A k \in Thread : rpc'[k] = rpc[k] \/ rpc'[k] = m
      BY <1>0, <2>1 DEF AppendTypeOK
    <3> HIDE DEF m
    <3> QED
      BY <2>1, <3>1, PiecesFrom
  <2> QED
    BY <2>1, <2>5, <2>6 DEF DerivingStep
<1>3. ASSUME NEW th \in Thread, HandleAppendEntries(th)
      PROVE  DerivingStep
  <2> DEFINE m == rpc[th]
             p == m.peer
             new == NewLog(log[p], m)
             g == Whole(new)
  <2>1. m \in AppendRequest /\ Fits(m) /\ p \in Node /\ m \in Pieces
    <3>1. m \in AppendRequest /\ Fits(m) /\ m.phase = "sent"
      BY <1>0, <1>3, RpcKinds DEF HandleAppendEntries, RpcFits
    <3> QED
      BY <3>1 DEF AppendRequest, Pieces, Requests
  <2>2. /\ log' = [log EXCEPT ![p] = new]
        /\ state' = [state EXCEPT ![p] = "FOLLOWER"]
        /\ \A k \in Thread : rpc'[k].phase = "sent" => rpc'[k] = rpc[k]
    BY <1>0, <1>3 DEF HandleAppendEntries, Answer, AppendTypeOK
  <2>3. new \in Seq(Entry) /\ Len(new) <= MaxLog
    BY <1>0, <2>1, NewLogType
  <2>4. IsPiece(g)
    BY <2>3, WholeLog
  <2>5. PartOf(g, Whole(log[p])) \/ Glued(g, Whole(log[p]), m)
    BY <1>0, <2>1, NewLogPiece
  <2> HIDE DEF m, new, g
  <2>6. Derived(g)
    BY <1>a, <2>1, <2>4, <2>5, PartDerived, GlueDerived
  <2>7. Pieces' \subseteq Pieces \cup {g}
    <3>1. \A n \in Node : log'[n] = log[n] \/ Whole(log'[n]) = g
      BY <1>0, <2>1, <2>2 DEF g
    <3> QED
      BY <2>2, <3>1, PiecesFrom
  <2>8. \A n \in Node : state'[n] = "LEADER" => log'[n] = log[n]
    BY <1>0, <2>1, <2>2 DEF NodeTypeOK
  <2> QED
    BY <2>6, <2>7, <2>8 DEF DerivingStep
<1> QED
  BY <1>1, <1>2, <1>3, PieceSteps

-----------------------------------------------------------------------------
(***************************************************************************)
(* Log matching.                                                           *)
(***************************************************************************)
\* Pieces that agree with a new one and with each other all agree.
LEMMA NewPieceAgrees ==
    ASSUME PiecesAgree, NEW g, Pieces' \subseteq Pieces \cup {g},
           \A b \in Pieces : Agree(g, b)
    PROVE  PiecesAgree'
<1> SUFFICES ASSUME NEW a \in Pieces', NEW b \in Pieces'
             PROVE  Agree(a, b)
  BY DEF PiecesAgree, Agree, SameAt, Has, Knows, TermAt, At, Before, Position
<1>1. CASE a \in Pieces /\ b \in Pieces
  BY <1>1 DEF PiecesAgree
<1>2. CASE a = g /\ b = g
  BY <1>2, AgreeSelf
<1>3. CASE a = g /\ b \in Pieces
  BY <1>3
<1>4. CASE a \in Pieces /\ b = g
  BY <1>4, AgreeSymmetric
<1> QED
  BY <1>1, <1>2, <1>3, <1>4

\* One node is elected in a term, after a step as well.
LEMMA ElectionInvSafeNext == TypeInv' /\ ElectionInv' => ElectionSafety'
  BY ElectionInvSafe, PTL

\* No entry of a term exists before a node has won the term.
LEMMA TermIsNew ==
    ASSUME TypeInv, TypeInv', ElectionInv, ElectionInv', WonGrows, TermsFromElected,
           NEW n \in Node, NEW t \in Term, WinElection(n, t),
           NEW a \in Pieces, NEW j \in Position, Has(a, j)
    PROVE  At(a, j).term # t
<1> SUFFICES ASSUME At(a, j).term = t
             PROVE  FALSE
  OBVIOUS
<1>1. PICK k \in Node : t \in won[k]
  BY DEF TermsFromElected
<1>2. t \notin won[n]
  BY DEF WinElection, AllAsked, ElectionInv, ThreadsOfTerm
<1>3. t \in won'[n] /\ t \in won'[k]
  BY <1>1 DEF WinElection, WonGrows, TypeInv, ElectionTypeOK
<1>4. ElectionSafety'
  BY ElectionInvSafeNext
<1> QED
  BY <1>1, <1>2, <1>3, <1>4 DEF ElectionSafety

\* Steps that derive pieces keep the invariant.
LEMMA DerivingKeeps ==
    ASSUME TypeInv, TypeInv', ElectionInv, ElectionInv', PieceInv, Next, DerivingStep
    PROVE  PieceInv'
<1> USE RaftAssumption
<1>1. PICK g : Derived(g) /\ Pieces' \subseteq Pieces \cup {g}
  BY DEF DerivingStep
<1>2. PiecesAgree'
  BY <1>1, NewPieceAgrees DEF Derived, PieceInv
<1>3. ASSUME NEW a \in Pieces', NEW j \in Position, Has(a, j)
      PROVE  \E b \in Pieces : Has(b, j) /\ At(a, j) = At(b, j)
  BY <1>1, <1>3 DEF Derived, Sourced
<1>4. WonGrows
  BY LeaderSteps
<1>5. TermsFromElected'
  <2> SUFFICES ASSUME NEW a \in Pieces', NEW j \in Position, Has(a, j)
               PROVE  \E n \in Node : At(a, j).term \in won'[n]
    BY DEF TermsFromElected, Has, At, Before, Position
  <2>1. PICK b \in Pieces : Has(b, j) /\ At(a, j) = At(b, j)
    BY <1>3
  <2>2. PICK n \in Node : At(b, j).term \in won[n]
    BY <2>1 DEF PieceInv, TermsFromElected
  <2> QED
    BY <1>4, <2>1, <2>2 DEF WonGrows
<1>6. LeaderHoldsTerm'
  <2> SUFFICES ASSUME NEW n \in Node, state'[n] = "LEADER", NEW a \in Pieces',
                      NEW j \in Position, Has(a, j), At(a, j).term = currentTerm'[n]
               PROVE  j <= Len(log'[n]) /\ log'[n][j].term = currentTerm'[n]
    BY DEF LeaderHoldsTerm, Has, At, Before, Position
  <2>1. PICK b \in Pieces : Has(b, j) /\ At(a, j) = At(b, j)
    BY <1>3
  <2>2. /\ currentTerm'[n] = currentTerm[n]
        /\ state[n] = "LEADER" \/ WinElection(n, currentTerm[n])
    BY LeadersStay
  <2>3. ~ WinElection(n, currentTerm[n])
    <3>1. At(b, j).term \in Term
      BY <2>1, PieceType, HasKnows DEF Entry, Position
    <3> QED
      BY <1>4, <2>1, <2>2, <3>1, TermIsNew DEF PieceInv
  <2>4. j <= Len(log[n]) /\ log[n][j].term = currentTerm[n]
    BY <2>1, <2>2, <2>3 DEF PieceInv, LeaderHoldsTerm
  <2> QED
    BY <2>2, <2>4 DEF DerivingStep
<1> QED
  BY <1>2, <1>5, <1>6 DEF PieceInv

\* A proposal keeps the invariant: its position is new for its term.
LEMMA ProposeKeeps ==
    ASSUME TypeInv, TypeInv', ElectionInv, ElectionInv', PieceInv, Next,
           NEW n \in Node, NEW d \in Data, Propose(n, d)
    PROVE  PieceInv'
<1> USE RaftAssumption
<1> DEFINE e == [term |-> currentTerm[n], data |-> d]
           s == log[n]
           last == Len(s) + 1
           g == Whole(Append(s, e))
<1>0. /\ log \in [Node -> Seq(Entry)] /\ s \in Seq(Entry) /\ Len(s) < MaxLog
      /\ state[n] = "LEADER" /\ currentTerm[n] \in Term /\ e \in Entry
  <2>1. state[n] = "LEADER" /\ currentTerm[n] \in Term
    BY LeaderHasTerm DEF Propose, TypeInv
  <2>2. e \in Entry
    BY <2>1 DEF Entry
  <2> QED
    BY <2>1, <2>2 DEF Propose, TypeInv, LogInv, LogTypeOK
<1>1. /\ log' = [log EXCEPT ![n] = Append(s, e)]
      /\ rpc' = rpc /\ won' = won /\ state' = state /\ currentTerm' = currentTerm
  BY DEF Propose, raftVars, electionVars
<1> HIDE DEF e, s
<1>2. /\ Append(s, e) \in Seq(Entry) /\ Len(Append(s, e)) = last /\ last \in Position
      /\ Extended(g, Whole(s), last) /\ At(g, last) = e
  BY <1>0, ProposedPiece
<1>3. IsPiece(g) /\ Whole(s) \in Pieces /\ last \in Int
  <2>1. Len(Append(s, e)) <= MaxLog
    BY <1>2 DEF Position
  <2>2. IsPiece(g)
    BY <1>2, <2>1, WholeLog
  <2>3. Whole(s) \in Pieces
    BY DEF Pieces, s
  <2> QED
    BY <1>2, <2>2, <2>3 DEF Position
<1>4. Pieces' \subseteq Pieces \cup {g}
  <2>1. \A k \in Node : log'[k] = log[k] \/ Whole(log'[k]) = g
    BY <1>0, <1>1
  <2> QED
    BY <1>1, <2>1, PiecesFrom
<1> HIDE DEF g, last
<1>5. e.term = currentTerm[n]
  BY DEF e
<1>6. ASSUME NEW b \in Pieces
      PROVE  ~ (Has(b, last) /\ At(b, last).term = At(g, last).term)
  <2>1. Has(b, last) /\ At(b, last).term = currentTerm[n] => last <= Len(log[n])
    BY <1>0, <1>2 DEF PieceInv, LeaderHoldsTerm
  <2>2. ~ (last <= Len(log[n]))
    BY <1>0 DEF last, s
  <2> QED
    BY <1>2, <1>5, <2>1, <2>2
<1>7. ASSUME NEW b \in Pieces
      PROVE  Agree(g, b)
  <2>1. IsPiece(b) /\ IsPiece(Whole(s)) /\ Agree(Whole(s), b)
    BY <1>3, PieceType DEF PieceInv, PiecesAgree
  <2> QED
    BY <1>2, <1>3, <1>6, <2>1, ExtendAgrees
<1>8. PiecesAgree'
  BY <1>4, <1>7, NewPieceAgrees DEF PieceInv
<1>9. ASSUME NEW a \in Pieces', NEW j \in Position, Has(a, j)
      PROVE  \/ \E b \in Pieces : Has(b, j) /\ At(a, j) = At(b, j)
             \/ j = last /\ At(a, j) = e
  <2>1. CASE a \in Pieces
    BY <1>9, <2>1
  <2>2. CASE a = g
    <3>1. Has(Whole(s), j) \/ j = last
      BY <1>2, <1>9, <2>2 DEF Extended
    <3>2. Has(Whole(s), j) => At(g, j) = At(Whole(s), j)
      BY <1>2 DEF Extended
    <3> QED
      BY <1>2, <1>3, <2>2, <3>1, <3>2
  <2> QED
    BY <1>4, <2>1, <2>2
<1>10. TermsFromElected'
  <2> SUFFICES ASSUME NEW a \in Pieces', NEW j \in Position, Has(a, j)
               PROVE  \E k \in Node : At(a, j).term \in won'[k]
    BY DEF TermsFromElected, Has, At, Before, Position
  <2>1. currentTerm[n] \in won[n]
    BY <1>0 DEF TypeInv, LeaderElected
  <2> QED
    BY <1>1, <1>5, <1>9, <2>1 DEF PieceInv, TermsFromElected
<1>11. LeaderHoldsTerm'
  <2> SUFFICES ASSUME NEW k \in Node, state'[k] = "LEADER", NEW a \in Pieces',
                      NEW j \in Position, Has(a, j), At(a, j).term = currentTerm'[k]
               PROVE  j <= Len(log'[k]) /\ log'[k][j].term = currentTerm'[k]
    BY DEF LeaderHoldsTerm, Has, At, Before, Position
  <2>1. j \in Int
    BY DEF Position
  <2>2. Len(log[k]) \in Nat /\ Len(log[k]) <= Len(log'[k])
    BY <1>0, <1>1, <1>2 DEF last, s
  <2>3. CASE \E b \in Pieces : Has(b, j) /\ At(a, j) = At(b, j)
    <3>1. j <= Len(log[k]) /\ log[k][j].term = currentTerm[k]
      BY <1>1, <2>3 DEF PieceInv, LeaderHoldsTerm
    <3>2. log'[k][j] = log[k][j]
      <4>1. CASE k = n
        <5>1. j \in 1..Len(s)
          BY <1>0, <3>1, <4>1 DEF Position, s
        <5>2. log'[n] = Append(s, e) /\ log[n] = s
          BY <1>0, <1>1 DEF s
        <5> QED
          BY <1>0, <4>1, <5>1, <5>2, AppendProperties
      <4> QED
        BY <1>0, <1>1, <4>1
    <3>3. j <= Len(log'[k])
      <4>1. Len(log'[k]) \in Nat
        BY <1>0, <1>1, <1>2
      <4> QED
        BY <2>1, <2>2, <3>1, <4>1
    <3> QED
      BY <1>1, <3>1, <3>2, <3>3
  <2>4. CASE j = last /\ At(a, j) = e
    <3>1. currentTerm[k] = currentTerm[n] /\ state[k] = "LEADER"
      BY <1>1, <1>5, <2>4
    <3>2. k = n
      <4>1. currentTerm[k] \in won[k] /\ currentTerm[n] \in won[n]
        BY <1>0, <3>1 DEF TypeInv, LeaderElected
      <4> QED
        BY <3>1, <4>1, ElectionInvSafe DEF ElectionSafety
    <3>3. Len(log'[n]) = last /\ log'[n][last] = e
      <4>1. log'[n] = Append(s, e)
        BY <1>0, <1>1
      <4> QED
        BY <1>0, <1>2, <4>1, AppendProperties DEF last
    <3> QED
      BY <1>1, <1>3, <1>5, <2>1, <2>4, <3>1, <3>2, <3>3
  <2> QED
    BY <1>9, <2>3, <2>4
<1> QED
  BY <1>8, <1>10, <1>11 DEF PieceInv

\* Every step keeps the invariant about pieces.
LEMMA PieceStep ==
    TypeInv /\ TypeInv' /\ ElectionInv /\ ElectionInv' /\ PieceInv /\ [Next]_vars => PieceInv'
<1> SUFFICES ASSUME TypeInv, TypeInv', ElectionInv, ElectionInv', PieceInv, [Next]_vars
             PROVE  PieceInv'
  OBVIOUS
<1>1. CASE Next /\ \E n \in Node, d \in Data : Propose(n, d)
  BY <1>1, ProposeKeeps
<1>2. CASE Next /\ ~ \E n \in Node, d \in Data : Propose(n, d)
  BY <1>2, DerivingSteps, DerivingKeeps DEF PieceInv
<1>3. CASE UNCHANGED vars
  <2>1. /\ log' = log /\ rpc' = rpc /\ state' = state /\ currentTerm' = currentTerm
        /\ won' = won
    BY <1>3 DEF vars, raftVars, logVars, electionVars, appendVars
  <2>2. Pieces' = Pieces
    BY <2>1 DEF Pieces, Requests
  <2> QED
    BY <2>1, <2>2 DEF PieceInv, PiecesAgree, TermsFromElected, LeaderHoldsTerm, Agree, SameAt,
       Has, Knows, TermAt, At, Before, Position
<1> QED
  BY <1>1, <1>2, <1>3

\* __init__ leaves every log empty and no request under way.
LEMMA PieceInit == Init => PieceInv
<1> SUFFICES ASSUME Init
             PROVE  PieceInv
  OBVIOUS
<1>1. ASSUME NEW a \in Pieces, NEW j \in Position
      PROVE  ~ Has(a, j)
  <2>1. PICK n \in Node : a = Whole(log[n])
    BY <1>1 DEF Init, Pieces, Requests, Idle
  <2>2. Before(a) = 0 /\ Len(a.entries) = 0
    BY <2>1, EmptySeq DEF Init, Whole, Before
  <2>3. j \in Int /\ j >= 1
    BY RaftAssumption DEF Position
  <2> QED
    BY <2>2, <2>3 DEF Has
<1> QED
  BY <1>1 DEF PieceInv, PiecesAgree, TermsFromElected, LeaderHoldsTerm, Agree

\* Type, election and piece invariant hold in every reachable state.
LEMMA PieceInvariant == Spec => [](TypeInv /\ ElectionInv /\ PieceInv)
  BY ElectionInvariant, PieceInit, PieceStep, PTL DEF Spec

\* Logs that agree as pieces match.
LEMMA PiecesMatch == TypeInv /\ PieceInv => LogMatching
<1> SUFFICES ASSUME TypeInv, PieceInv, NEW m \in Node, NEW n \in Node,
                    NEW i \in 1..Len(log[m]), i <= Len(log[n]),
                    log[m][i].term = log[n][i].term
             PROVE  SubSeq(log[m], 1, i) = SubSeq(log[n], 1, i)
  BY DEF LogMatching
<1> USE RaftAssumption
<1> DEFINE s == log[m]
           r == log[n]
<1>0. /\ s \in Seq(Entry) /\ Len(s) <= MaxLog /\ Len(s) \in Nat
      /\ r \in Seq(Entry) /\ Len(r) <= MaxLog /\ Len(r) \in Nat
  BY DEF TypeInv, LogInv, LogTypeOK
<1>1. Agree(Whole(s), Whole(r))
  BY DEF PieceInv, PiecesAgree, Pieces
<1>2. i \in Position /\ i \in Int /\ i >= 1 /\ i <= Len(s)
  BY <1>0 DEF Position
<1> HIDE DEF s, r
<1>3. Has(Whole(s), i) /\ Has(Whole(r), i) /\ At(Whole(s), i) = s[i] /\ At(Whole(r), i) = r[i]
  BY <1>0, <1>2, WholeLog DEF r
<1>4. \A q \in 1..i : SameAt(Whole(s), Whole(r), q)
  BY <1>1, <1>2, <1>3 DEF Agree, s, r
<1>5. ASSUME NEW q \in 1..i
      PROVE  s[q] = r[q] /\ s[q] \in Entry /\ r[q] \in Entry
  <2>1. q \in Position /\ q \in 1..Len(s) /\ q \in 1..Len(r)
    BY <1>0, <1>2 DEF Position, r
  <2>2. Has(Whole(s), q) /\ Has(Whole(r), q) /\ At(Whole(s), q) = s[q] /\ At(Whole(r), q) = r[q]
    BY <1>0, <2>1, WholeLog
  <2> QED
    BY <1>0, <1>4, <2>1, <2>2, ElementOfSeq DEF SameAt
<1>6. /\ SubSeq(s, 1, i) \in Seq(Entry) /\ SubSeq(r, 1, i) \in Seq(Entry)
      /\ Len(SubSeq(s, 1, i)) = i /\ Len(SubSeq(r, 1, i)) = i
      /\ \A q \in 1..i : SubSeq(s, 1, i)[q] = s[q] /\ SubSeq(r, 1, i)[q] = r[q]
  BY <1>2, <1>5, SubSeqProperties
<1>7. SubSeq(s, 1, i) = SubSeq(r, 1, i)
  BY <1>5, <1>6, SeqEqual
<1> QED
  BY <1>7 DEF s, r

\* Two logs with an entry of the same term at the same position are the same up
\* to there, in every cluster and however many requests overtake each other.
THEOREM LogsMatch == Spec => []LogMatching
  BY PieceInvariant, PiecesMatch, PTL

=============================================================================
