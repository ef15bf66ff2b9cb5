---------------------------- MODULE LedgerProofs ----------------------------
(***************************************************************************)
(* The polling loop of the dashboard's services lives as long as it        *)
(* should, for every number of restarts and refreshes, and keeps its       *)
(* interval within bounds for every number of failures; the file ledger is *)
(* an implementation of it, and its total is the number of its rows.       *)
(***************************************************************************)
EXTENDS FileLedger, FiniteSetTheorems, SequenceTheorems, NaturalsInduction,
        WellFoundedInduction, TLAPS

\* What the steps of the loop need to know of its fields.
LoopFields ==
    /\ isPolling \in BOOLEAN
    /\ phase \in [Call -> {"idle", "fetching", "waiting", "ended"}]
    /\ timer \in Loop \cup {None}

LoopInv == LoopFields /\ LoopLives

-----------------------------------------------------------------------------
\* Clearing the known timer keeps phase within its type.
LEMMA ClearedPhase ==
    ASSUME LoopFields
    PROVE  Cleared \in [Call -> {"idle", "fetching", "waiting", "ended"}]
  BY DEF LoopFields, Cleared, Call

\* No step of the loop ends the last loop while isPolling is set.
LEMMA LoopStep ==
    ASSUME LoopInv, [PollerNext]_pollerVars
    PROVE  LoopInv'
  <1> USE DEF LoopInv, LoopFields
  <1>1. ASSUME NEW l \in Loop, StartPolling(l)
        PROVE  LoopInv'
    <2>1. phase' = [Cleared EXCEPT ![l] = "fetching"] /\ timer' = None /\ isPolling' = TRUE
      BY <1>1 DEF StartPolling
    <2>2. l \in Call
      BY DEF Call
    <2>3. phase' \in [Call -> {"idle", "fetching", "waiting", "ended"}] /\ phase'[l] = "fetching"
      BY <2>1, <2>2, ClearedPhase
    <2> QED
      BY <2>1, <2>3 DEF LoopLives, Alive
  <1>2. ASSUME Stopped
        PROVE  LoopInv'
    BY <1>2, ClearedPhase DEF Stopped, LoopLives
  <1>3. ASSUME NEW l \in Loop, Tick(l)
        PROVE  LoopInv'
    <2>1. l \in Call
      BY DEF Call
    <2>2. CASE isPolling
      BY <1>3, <2>1, <2>2 DEF Tick, GoesOn, LoopLives, Alive
    <2>3. CASE ~ isPolling
      BY <1>3, <2>1, <2>3 DEF Tick, GoesOn, LoopLives
    <2> QED
      BY <2>2, <2>3
  <1>4. ASSUME NEW r \in Refresh, BeginRefresh(r)
        PROVE  LoopInv'
    <2>1. r \in Call /\ r \notin Loop
      BY PollerAssumption DEF Call
    <2>2. \A l \in Loop : phase'[l] = phase[l]
      BY <1>4, <2>1 DEF BeginRefresh, Call
    <2>3. LoopFields'
      BY <1>4, <2>1 DEF BeginRefresh
    <2> QED
      BY <1>4, <2>2, <2>3 DEF BeginRefresh, LoopLives, Alive
  <1>5. ASSUME NEW x \in Call, EndFetch(x)
        PROVE  LoopInv'
    <2>1. phase' = [phase EXCEPT ![x] = AfterFetch(x)] /\ isPolling' = isPolling
      BY <1>5 DEF EndFetch
    <2>2. AfterFetch(x) \in {"idle", "waiting", "ended"}
      BY DEF AfterFetch
    <2>3. timer' \in Loop \cup {None}
      <3>1. CASE x \in Loop
        BY <1>5, <3>1 DEF EndFetch
      <3>2. CASE x \notin Loop
        <4>1. AfterFetch(x) = "idle"
          BY <3>2 DEF AfterFetch, Call
        <4> QED
          BY <1>5, <2>1, <4>1 DEF EndFetch
      <3> QED
        BY <3>1, <3>2
    <2>4. LoopFields'
      BY <2>1, <2>2, <2>3
    <2>5. ASSUME isPolling
          PROVE  Alive' # {}
      <3>1. CASE x \in Loop
        <4>1. AfterFetch(x) = "waiting"
          BY <2>5, <3>1, PollerAssumption DEF AfterFetch, GoesOn
        <4> QED
          BY <2>1, <3>1, <4>1 DEF Alive
      <3>2. CASE x \notin Loop
        BY <2>1, <2>5, <3>2 DEF Alive, LoopLives, Call
      <3> QED
        BY <3>1, <3>2
    <2> QED
      BY <2>1, <2>4, <2>5 DEF LoopLives
  <1>6. ASSUME UNCHANGED loopVars
        PROVE  LoopInv'
    BY <1>6 DEF loopVars, LoopLives, Alive
  <1> QED
    BY <1>1, <1>2, <1>3, <1>4, <1>5, <1>6
    DEF PollerNext, StopPolling, ResetPolling, FetchSucceeds, FetchFails, BackendChanges,
        pollerVars

\* PollingSurvives: a loop that startPolling began goes on until stopPolling, for
\* every number of restarts and of refreshes that take its fields from it.
THEOREM PollingSurvives == PollerSpec => []LoopLives
  <1>1. PollerInit => LoopInv
    BY DEF PollerInit, LoopInv, LoopFields, LoopLives
  <1>2. LoopInv /\ [PollerNext]_pollerVars => LoopInv'
    BY LoopStep
  <1>3. LoopInv => LoopLives
    BY DEF LoopInv
  <1> QED
    BY <1>1, <1>2, <1>3, PTL DEF PollerSpec

\* One step of the loop keeps what is shown of a reachable backend.
LEMMA FastStep ==
    ASSUME HealthyPollsFast, [PollerNext]_pollerVars
    PROVE  HealthyPollsFast'
  <1> USE DEF HealthyPollsFast
  <1>1. ASSUME NEW l \in Loop, StartPolling(l)
        PROVE  HealthyPollsFast'
    BY <1>1 DEF StartPolling
  <1>2. CASE StopPolling
    BY <1>2 DEF StopPolling, resultVars
  <1>3. CASE ResetPolling
    BY <1>3 DEF ResetPolling
  <1>4. ASSUME NEW l \in Loop, Tick(l)
        PROVE  HealthyPollsFast'
    BY <1>4 DEF Tick, resultVars
  <1>5. ASSUME NEW r \in Refresh, BeginRefresh(r)
        PROVE  HealthyPollsFast'
    BY <1>5 DEF BeginRefresh
  <1>6. ASSUME NEW x \in Call, FetchSucceeds(x)
        PROVE  HealthyPollsFast'
    BY <1>6 DEF FetchSucceeds, IntervalAfterSuccess
  <1>7. ASSUME NEW x \in Call, FetchFails(x)
        PROVE  HealthyPollsFast'
    BY <1>7 DEF FetchFails
  <1>8. CASE BackendChanges
    BY <1>8 DEF BackendChanges, resultVars
  <1>9. CASE UNCHANGED pollerVars
    BY <1>9 DEF pollerVars, resultVars
  <1> QED
    BY <1>1, <1>2, <1>3, <1>4, <1>5, <1>6, <1>7, <1>8, <1>9 DEF PollerNext

\* HealthyIsFast: while the backend is reachable no backoff is left over.
THEOREM HealthyIsFast == PollerSpec => []HealthyPollsFast
  <1>1. PollerInit => HealthyPollsFast
    BY DEF PollerInit, HealthyPollsFast
  <1>2. HealthyPollsFast /\ [PollerNext]_pollerVars => HealthyPollsFast'
    BY FastStep
  <1> QED
    BY <1>1, <1>2, PTL DEF PollerSpec

-----------------------------------------------------------------------------
\* A step of the ledger is a step of its loop, or leaves the loop alone.
LEMMA LedgerStep ==
    ASSUME [Next]_vars
    PROVE  [PollerNext]_pollerVars
  <1>1. ASSUME NEW x \in Call, LoadFiles(x)
        PROVE  PollerNext
    BY <1>1 DEF LoadFiles, PollerNext
  <1>2. ASSUME NEW x \in Call, LoadFails(x)
        PROVE  PollerNext
    BY <1>2 DEF LoadFails, PollerNext
  <1>3. CASE Reset
    BY <1>3 DEF Reset, PollerNext
  <1>4. ASSUME NEW r \in Refresh, BeginRefresh(r)
        PROVE  PollerNext
    BY <1>4 DEF PollerNext
  <1>5. ASSUME UNCHANGED otherVars
        PROVE  UNCHANGED pollerVars
    BY <1>5 DEF otherVars
  <1>6. ASSUME NEW l \in Loop, StartPolling(l) \/ Tick(l)
        PROVE  PollerNext
    BY <1>6 DEF PollerNext
  <1>7. CASE StopPolling \/ BackendChanges
    BY <1>7 DEF PollerNext
  <1>8. CASE UNCHANGED vars
    BY <1>8 DEF vars
  <1> QED
    BY <1>1, <1>2, <1>3, <1>4, <1>5, <1>6, <1>7, <1>8
    DEF Next, ServeList, RefreshFiles, SetConfirmingDelete, DismissDelete, DeletePaused,
        DeleteFile, ServeDelete, DeleteSucceeds, DeleteFails, UploadFile, BeginUpload,
        UploadPaused, RetryLastUpload, DismissUploadError, ServeUpload, RefuseUpload,
        UploadSucceeds, ClearUpload, UploadFails

\* LedgerImplementsPoller: the file ledger, with the refreshes that its uploads and
\* deletions begin, is a polling loop.
THEOREM LedgerImplementsPoller == Spec => PollerSpec
  <1>1. Init => PollerInit
    BY DEF Init
  <1>2. [Next]_vars => [PollerNext]_pollerVars
    BY LedgerStep
  <1> QED
    BY <1>1, <1>2, PTL DEF Spec, PollerSpec

\* LedgerLoopLives: the ledger's loop, too, goes on until it is stopped.
THEOREM LedgerLoopLives == Spec => []LoopLives
  BY LedgerImplementsPoller, PollingSurvives, PTL

\* LedgerIsFast: the ledger of a reachable backend is fetched at the base interval.
THEOREM LedgerIsFast == Spec => []HealthyPollsFast
  BY LedgerImplementsPoller, HealthyIsFast, PTL

-----------------------------------------------------------------------------
(***************************************************************************)
(* The lists the server sends and the rows of the ledger are sequences of  *)
(* files, and a row is added or taken out at a time.                       *)
(***************************************************************************)
\* A finite set of numbers can be listed in ascending order.
LEMMA SortedEnumeration ==
    ASSUME NEW S \in SUBSET Nat, IsFiniteSet(S)
    PROVE  \E list \in [1..Cardinality(S) -> S] :
               \A i, j \in 1..Cardinality(S) : i < j => list[i] < list[j]
  <1> DEFINE n == Cardinality(S)
             UpTo(x) == {y \in S : y <= x}
             rank == [x \in S |-> Cardinality(UpTo(x))]
             list == [k \in 1..n |-> CHOOSE x \in S : rank[x] = k]
  <1>1. n \in Nat
    BY FS_CardinalityType
  <1>2. ASSUME NEW x \in S
        PROVE  /\ IsFiniteSet(UpTo(x))
               /\ Cardinality(UpTo(x)) \in 1..n
    <2>1. UpTo(x) \in SUBSET S /\ x \in UpTo(x)
      OBVIOUS
    <2> HIDE DEF UpTo
    <2>2. IsFiniteSet(UpTo(x)) /\ Cardinality(UpTo(x)) <= n
      BY <2>1, FS_Subset
    <2>3. Cardinality(UpTo(x)) \in Nat
      BY <2>2, FS_CardinalityType
    <2>4. Cardinality(UpTo(x)) # 0
      BY <2>1, <2>2, FS_EmptySet
    <2> QED
      BY <1>1, <2>2, <2>3, <2>4
  <1>3. ASSUME NEW x \in S, NEW y \in S, x < y
        PROVE  Cardinality(UpTo(x)) < Cardinality(UpTo(y))
    <2>1. UpTo(x) \in SUBSET UpTo(y) /\ y \in UpTo(y) /\ y \notin UpTo(x)
      <3>1. x \in Nat /\ y \in Nat
        OBVIOUS
      <3>2. ASSUME NEW z \in S, z <= x
            PROVE  z <= y
        <4>1. z \in Nat
          OBVIOUS
        <4> QED
          BY <1>3, <3>1, <3>2, <4>1
      <3>3. y <= y /\ ~ y <= x
        BY <1>3, <3>1
      <3> QED
        BY <3>2, <3>3
    <2>2. UpTo(x) # UpTo(y)
      BY <2>1
    <2> HIDE DEF UpTo
    <2>3. IsFiniteSet(UpTo(y))
      BY <1>2
    <2>4. /\ Cardinality(UpTo(x)) <= Cardinality(UpTo(y))
          /\ Cardinality(UpTo(x)) # Cardinality(UpTo(y))
      BY <2>1, <2>2, <2>3, FS_Subset
    <2>5. Cardinality(UpTo(x)) \in Nat /\ Cardinality(UpTo(y)) \in Nat
      BY <1>2
    <2> QED
      BY <2>4, <2>5
  <1> HIDE DEF UpTo, n
  <1>4. rank \in Injection(S, 1..n)
    <2>1. rank \in [S -> 1..n]
      BY <1>2
    <2>2. ASSUME NEW x \in S, NEW y \in S, rank[x] = rank[y]
          PROVE  x = y
      <3>1. x \in Nat /\ y \in Nat /\ rank[x] \in 1..n
        BY <2>1
      <3>2. ~ x < y /\ ~ y < x
        BY <1>1, <1>3, <2>2, <3>1
      <3> QED
        BY <3>1, <3>2
    <2> HIDE DEF rank
    <2> QED
      BY <2>1, <2>2 DEF Injection, IsInjective
  <1>5. IsFiniteSet(1..n) /\ Cardinality(1..n) = n
    BY <1>1, FS_Interval
  <1>6. rank \in Surjection(S, 1..n)
    <2> HIDE DEF rank
    <2> QED
      BY <1>4, <1>5, FS_Injection DEF n
  <1>7. ASSUME NEW k \in 1..n
        PROVE  list[k] \in S /\ rank[list[k]] = k
    <2> HIDE DEF rank
    <2>1. \E x \in S : rank[x] = k
      BY <1>6 DEF Surjection
    <2> QED
      BY <2>1
  <1>8. ASSUME NEW i \in 1..n, NEW j \in 1..n, i < j
        PROVE  list[i] < list[j]
    <2>1. /\ list[i] \in S /\ Cardinality(UpTo(list[i])) = i
          /\ list[j] \in S /\ Cardinality(UpTo(list[j])) = j
      BY <1>7
    <2> HIDE DEF list
    <2> HIDE <1>7
    <2>2. i \in Nat /\ j \in Nat /\ list[i] \in Nat /\ list[j] \in Nat
      <3>1. i \in Nat /\ j \in Nat
        BY <1>1
      <3>2. \A x \in S : x \in Nat
        OBVIOUS
      <3> QED
        BY <2>1, <3>1, <3>2
    <2>3. list[i] # list[j]
      BY <1>8, <2>1, <2>2
    <2>4. ASSUME list[j] < list[i]
          PROVE  FALSE
      <3>1. Cardinality(UpTo(list[j])) < Cardinality(UpTo(list[i]))
        BY <1>3, <2>1, <2>4
      <3> QED
        BY <1>8, <2>1, <2>2, <3>1
    <2> QED
      BY <2>2, <2>3, <2>4
  <1>9. list \in [1..n -> S]
    BY <1>7
  <1> HIDE DEF list
  <1> QED
    BY <1>8, <1>9 DEF n

\* GET /files sends a list of files.
LEMMA ListingIsList ==
    ASSUME server \subseteq File
    PROVE  Listing \in Seq(File)
  <1>1. server \in SUBSET Nat /\ IsFiniteSet(server)
    BY LedgerAssumption, FS_Subset
  <1>2. Cardinality(server) \in Nat
    BY <1>1, FS_CardinalityType
  <1>3. Listing \in [1..Cardinality(server) -> server]
    BY <1>1, SortedEnumeration DEF Listing
  <1> QED
    BY <1>2, <1>3
\* The row of a deleted file is taken out ...
LEMMA RowRemoved ==
    ASSUME NEW s \in Seq(File), NEW i \in 1..Len(s)
    PROVE  /\ RemoveAt(s, i) \in Seq(File)
           /\ Len(RemoveAt(s, i)) = Len(s) - 1
  <1>1. Len(s) \in Nat /\ \A k \in 1..Len(s) : s[k] \in File
    BY ElementOfSeq, LenProperties
  <1>2. /\ SubSeq(s, 1, i - 1) \in Seq(File)
        /\ Len(SubSeq(s, 1, i - 1)) = i - 1
    <2>1. 1 \in Int /\ i - 1 \in Int /\ \A k \in 1..(i - 1) : s[k] \in File
      BY <1>1
    <2>2. /\ SubSeq(s, 1, i - 1) \in Seq(File)
          /\ Len(SubSeq(s, 1, i - 1)) = IF 1 <= i - 1 THEN (i - 1) - 1 + 1 ELSE 0
      BY <2>1, SubSeqProperties
    <2> QED
      BY <1>1, <2>2
  <1>3. /\ SubSeq(s, i + 1, Len(s)) \in Seq(File)
        /\ Len(SubSeq(s, i + 1, Len(s))) = Len(s) - i
    <2>1. i + 1 \in Int /\ Len(s) \in Int /\ \A k \in (i + 1)..Len(s) : s[k] \in File
      BY <1>1
    <2>2. /\ SubSeq(s, i + 1, Len(s)) \in Seq(File)
          /\ Len(SubSeq(s, i + 1, Len(s))) =
                 IF i + 1 <= Len(s) THEN Len(s) - (i + 1) + 1 ELSE 0
      BY <2>1, SubSeqProperties
    <2> QED
      BY <1>1, <2>2
  <1>4. /\ RemoveAt(s, i) \in Seq(File)
        /\ Len(RemoveAt(s, i)) =
               Len(SubSeq(s, 1, i - 1)) + Len(SubSeq(s, i + 1, Len(s)))
    BY <1>2, <1>3, ConcatProperties DEF RemoveAt
  <1>5. Len(RemoveAt(s, i)) = (i - 1) + (Len(s) - i)
    BY <1>2, <1>3, <1>4, Zenon
  <1>6. Len(s) \in Nat /\ i \in Nat
    BY <1>1
  <1>7. (i - 1) + (Len(s) - i) = Len(s) - 1
    BY <1>6
  <1> QED
    BY <1>4, <1>5, <1>7, Zenon

\* ... and put back when its deletion fails.
LEMMA RowInserted ==
    ASSUME NEW s \in Seq(File), NEW i \in 1..(Len(s) + 1), NEW f \in File
    PROVE  /\ InsertAt(s, i, f) \in Seq(File)
           /\ Len(InsertAt(s, i, f)) = Len(s) + 1
  <1> DEFINE before == SubSeq(s, 1, i - 1)
             after == SubSeq(s, i, Len(s))
  <1>1. Len(s) \in Nat /\ \A k \in 1..Len(s) : s[k] \in File
    BY ElementOfSeq, LenProperties
  <1>2. before \in Seq(File) /\ Len(before) = i - 1
    <2>1. 1 \in Int /\ i - 1 \in Int /\ \A k \in 1..(i - 1) : s[k] \in File
      BY <1>1
    <2>2. before \in Seq(File) /\ Len(before) = IF 1 <= i - 1 THEN (i - 1) - 1 + 1 ELSE 0
      BY <2>1, SubSeqProperties
    <2> QED
      BY <1>1, <2>2
  <1>3. after \in Seq(File) /\ Len(after) = Len(s) - i + 1
    <2>1. i \in Int /\ Len(s) \in Int /\ \A k \in i..Len(s) : s[k] \in File
      BY <1>1
    <2>2. after \in Seq(File) /\ Len(after) = IF i <= Len(s) THEN Len(s) - i + 1 ELSE 0
      BY <2>1, SubSeqProperties
    <2> QED
      BY <1>1, <2>2
  <1>4. <<f>> \in Seq(File) /\ Len(<<f>>) = 1
    OBVIOUS
  <1> HIDE DEF before, after
  <1>5. before \o <<f>> \in Seq(File) /\ Len(before \o <<f>>) = Len(before) + 1
    BY <1>2, <1>4, ConcatProperties
  <1>6. /\ (before \o <<f>>) \o after \in Seq(File)
        /\ Len((before \o <<f>>) \o after) = Len(before \o <<f>>) + Len(after)
    BY <1>3, <1>5, ConcatProperties
  <1>7. InsertAt(s, i, f) = (before \o <<f>>) \o after
    BY DEF InsertAt, before, after
  <1>8. Len(InsertAt(s, i, f)) = ((i - 1) + 1) + (Len(s) - i + 1)
    BY <1>2, <1>3, <1>5, <1>6, <1>7, Zenon
  <1>9. Len(s) \in Nat /\ i \in Nat
    BY <1>1
  <1>10. ((i - 1) + 1) + (Len(s) - i + 1) = Len(s) + 1
    BY <1>9
  <1> QED
    BY <1>6, <1>7, <1>8, <1>10, Zenon

\* A set of numbers that is not empty has a least member.
LEMMA LeastNumber ==
    ASSUME NEW S \in SUBSET Nat, S # {}
    PROVE  \E x \in S : \A y \in S : x <= y
  <1> DEFINE R == {q \in Nat \X Nat : q[1] < q[2]}
  <1>1. IsWellFoundedOn(R, Nat)
    BY NatLessThanWellFounded DEF OpToRel
  <1> HIDE DEF R
  <1>2. PICK x \in S : \A y \in S : ~ (<<y, x>> \in R)
    BY <1>1, WFMin
  <1>3. ASSUME NEW y \in S
        PROVE  x <= y
    <2>1. x \in Nat /\ y \in Nat
      OBVIOUS
    <2>2. ~ y < x
      BY <1>2, <2>1 DEF R
    <2> QED
      BY <2>1, <2>2
  <1> QED
    BY <1>3

\* The row of a file in the ledger is found.
LEMMA RowFound ==
    ASSUME NEW s \in Seq(File), NEW f \in ToSet(s)
    PROVE  SelectInSeq(s, LAMBDA g : g = f) \in 1..Len(s)
  <1> DEFINE I == {i \in 1..Len(s) : s[i] = f}
  <1>1. Len(s) \in Nat /\ DOMAIN s = 1..Len(s)
    BY LenProperties
  <1>2. I \in SUBSET Nat /\ I # {}
    BY <1>1 DEF ToSet
  <1>3. SelectInSeq(s, LAMBDA g : g = f) = CHOOSE x \in I : \A y \in I : x <= y
    BY <1>2 DEF SelectInSeq, Min
  <1>4. \E x \in I : \A y \in I : x <= y
    <2> HIDE DEF I
    <2> QED
      BY <1>2, LeastNumber
  <1>5. SelectInSeq(s, LAMBDA g : g = f) \in I
    <2> HIDE DEF I
    <2> QED
      BY <1>3, <1>4
  <1> QED
    BY <1>5
-----------------------------------------------------------------------------
(***************************************************************************)
(* The interval after a number of failures.                                *)
(***************************************************************************)
\* g begins with a and takes a step from one value to the next.
Iterates(g, S, a, step) ==
    /\ g \in [Nat -> S]
    /\ g[0] = a
    /\ \A n \in Nat : g[n + 1] = step[g[n]]

\* There is such a function on the naturals.
LEMMA DefinedByStep ==
    ASSUME NEW S, NEW a \in S, NEW step \in [S -> S]
    PROVE  \E g : Iterates(g, S, a, step)
  <1> DEFINE Upto(n, h) ==
                 /\ h \in [0..n -> S]
                 /\ h[0] = a
                 /\ \A k \in 0..n : k + 1 \in 0..n => h[k + 1] = step[h[k]]
             missing == {n \in Nat : ~ \E h : Upto(n, h)}
             first(n) == CHOOSE h : Upto(n, h)
             g == [n \in Nat |-> first(n)[n]]
  <1>1. missing = {}
    <2>1. SUFFICES ASSUME NEW n \in missing, \A m \in missing : n <= m
                   PROVE  FALSE
      BY LeastNumber
    <2>2. n \in Nat /\ ~ \E h : Upto(n, h)
      OBVIOUS
    <2>3. n # 0
      <3>1. Upto(0, [k \in 0..0 |-> a])
        OBVIOUS
      <3> QED
        BY <2>2, <3>1
    <2>4. n - 1 \in Nat /\ n - 1 \notin missing
      <3> HIDE DEF missing
      <3> QED
        BY <2>1, <2>2, <2>3
    <2>5. PICK h : Upto(n - 1, h)
      <3> HIDE DEF Upto
      <3> QED
        BY <2>4
    <2> DEFINE longer == [k \in 0..n |-> IF k = n THEN step[h[n - 1]] ELSE h[k]]
    <2>6. longer \in [0..n -> S]
      BY <2>2, <2>4, <2>5
    <2>7. longer[0] = a
      BY <2>2, <2>3, <2>5
    <2>8. ASSUME NEW k \in 0..n, k + 1 \in 0..n
          PROVE  longer[k + 1] = step[longer[k]]
      <3>1. k \in 0..(n - 1) /\ longer[k] = h[k]
        BY <2>2, <2>8
      <3>2. CASE k + 1 = n
        BY <2>2, <3>1, <3>2
      <3>3. CASE k + 1 # n
        <4>1. k + 1 \in 0..(n - 1) /\ longer[k + 1] = h[k + 1]
          BY <2>2, <2>8, <3>3
        <4> QED
          BY <2>5, <3>1, <4>1
      <3> QED
        BY <3>2, <3>3
    <2> HIDE DEF longer
    <2>9. Upto(n, longer)
      BY <2>6, <2>7, <2>8
    <2> QED
      BY <2>2, <2>9
  <1>2. ASSUME NEW n \in Nat, NEW m \in Nat, NEW h, NEW i, Upto(n, h), Upto(m, i)
        PROVE  \A k \in 0..n : k \in 0..m => h[k] = i[k]
    <2> DEFINE apart == {k \in 0..n : k \in 0..m /\ h[k] # i[k]}
    <2>1. SUFFICES apart = {}
      OBVIOUS
    <2>2. SUFFICES ASSUME NEW k \in apart, \A j \in apart : k <= j
                   PROVE  FALSE
      <3>1. apart \in SUBSET Nat
        OBVIOUS
      <3> HIDE DEF apart
      <3> QED
        BY <3>1, LeastNumber
    <2>3. k \in 0..n /\ k \in 0..m /\ h[k] # i[k]
      OBVIOUS
    <2>4. k # 0
      BY <1>2, <2>3
    <2>5. k - 1 \in 0..n /\ k - 1 \in 0..m /\ (k - 1) + 1 = k
      BY <2>3, <2>4
    <2>6. h[k - 1] = i[k - 1]
      BY <2>2, <2>5
    <2>7. h[k] = step[h[k - 1]] /\ i[k] = step[i[k - 1]]
      BY <1>2, <2>3, <2>5
    <2> QED
      BY <2>3, <2>6, <2>7
  <1>3. ASSUME NEW n \in Nat
        PROVE  Upto(n, first(n))
    <2>1. \E h : Upto(n, h)
      BY <1>1
    <2> HIDE DEF Upto
    <2> QED
      BY <2>1
  <1> HIDE DEF first
  <1>4. g \in [Nat -> S]
    BY <1>3
  <1>5. g[0] = a
    BY <1>3
  <1>6. ASSUME NEW n \in Nat
        PROVE  g[n + 1] = step[g[n]]
    <2> DEFINE h == first(n)
               j == first(n + 1)
    <2>1. Upto(n, h) /\ Upto(n + 1, j) /\ n + 1 \in Nat
      <3> HIDE DEF Upto
      <3> QED
        BY <1>3
    <2>2. g[n] = h[n] /\ g[n + 1] = j[n + 1]
      OBVIOUS
    <2> HIDE DEF h, j, g
    <2>3. h[n] = j[n]
      <3> HIDE DEF Upto
      <3>1. \A k \in 0..n : k \in 0..(n + 1) => h[k] = j[k]
        BY <1>2, <2>1
      <3> QED
        BY <3>1
    <2>4. j[n + 1] = step[j[n]]
      BY <2>1
    <2> QED
      BY <2>2, <2>3, <2>4
  <1> HIDE DEF g
  <1> QED
    BY <1>4, <1>5, <1>6 DEF Iterates

\* The definition of Growth has a solution.
LEMMA GrowthRule ==
    Growth = [n \in Nat |-> IF n = 0 THEN <<1, 1>>
                            ELSE <<3 * Growth[n - 1][1], 2 * Growth[n - 1][2]>>]
  <1> DEFINE S == Nat \X Nat
             step == [q \in S |-> <<3 * q[1], 2 * q[2]>>]
             Body(f) == [n \in Nat |-> IF n = 0 THEN <<1, 1>>
                                       ELSE <<3 * f[n - 1][1], 2 * f[n - 1][2]>>]
  <1>1. <<1, 1>> \in S /\ step \in [S -> S]
    OBVIOUS
  <1>2. PICK f \in [Nat -> S] : f[0] = <<1, 1>> /\ \A n \in Nat : f[n + 1] = step[f[n]]
    <2> DEFINE one == <<1, 1>>
    <2>1. one \in S
      BY <1>1
    <2> HIDE DEF S, step, one
    <2>2. PICK f : Iterates(f, S, one, step)
      BY <1>1, <2>1, DefinedByStep
    <2> QED
      BY <2>2 DEF one, Iterates
  <1>3. ASSUME NEW n \in Nat
        PROVE  f[n] = Body(f)[n]
    <2>1. CASE n = 0
      BY <1>2, <2>1
    <2>2. CASE n # 0
      <3>1. n - 1 \in Nat /\ (n - 1) + 1 = n /\ f[n - 1] \in S
        BY <2>2
      <3>2. f[n] = step[f[n - 1]]
        BY <1>2, <3>1
      <3> QED
        BY <2>2, <3>1, <3>2
    <2> QED
      BY <2>1, <2>2
  <1>4. f = Body(f)
    BY <1>3
  <1>5. Growth = CHOOSE e : e = Body(e)
    BY DEF Growth
  <1> HIDE DEF Body
  <1>6. Growth = Body(Growth)
    BY <1>4, <1>5
  <1> QED
    BY <1>6 DEF Body
\* The factor is a fraction, and never less than 1.
LEMMA GrowthRises ==
    ASSUME NEW n \in Nat
    PROVE  /\ Growth[n][1] \in Nat
           /\ Growth[n][2] \in Nat \ {0}
           /\ Growth[n][2] <= Growth[n][1]
  <1> DEFINE Rises(k) == /\ Growth[k][1] \in Nat
                         /\ Growth[k][2] \in Nat \ {0}
                         /\ Growth[k][2] <= Growth[k][1]
             falling == {k \in Nat : ~ Rises(k)}
  <1>1. SUFFICES falling = {}
    OBVIOUS
  <1>2. SUFFICES ASSUME NEW k \in falling, \A j \in falling : k <= j
                 PROVE  FALSE
    <2>1. falling \in SUBSET Nat
      OBVIOUS
    <2> HIDE DEF falling
    <2> QED
      BY <2>1, LeastNumber
  <1>3. k \in Nat /\ ~ Rises(k)
    OBVIOUS
  <1>4. k # 0
    <2>1. Growth[0] = <<1, 1>>
      BY GrowthRule
    <2> QED
      BY <1>3, <2>1
  <1>5. k - 1 \in Nat /\ k - 1 \notin falling
    <2> HIDE DEF falling
    <2> QED
      BY <1>2, <1>3, <1>4
  <1>6. Rises(k - 1)
    BY <1>5
  <1>7. Growth[k] = <<3 * Growth[k - 1][1], 2 * Growth[k - 1][2]>>
    BY <1>3, <1>4, GrowthRule
  <1> QED
    BY <1>3, <1>6, <1>7

\* A quotient is at least as large as a number that fits into the dividend.
LEMMA QuotientBound ==
    ASSUME NEW x \in Nat, NEW y \in Nat \ {0}, NEW b \in Nat, b * y <= x
    PROVE  x \div y \in Nat /\ b <= x \div y
  OBVIOUS

\* A backoff is at least the base interval and at most the maximum.
LEMMA BackoffBounded ==
    ASSUME NEW n \in Nat
    PROVE  Backoff(n) \in Base..MaxInterval
  <1> DEFINE p == Growth[n][1]
             q == Growth[n][2]
  <1>1. p \in Nat /\ q \in Nat \ {0} /\ q <= p
    BY GrowthRises
  <1>2. Base \in Nat /\ MaxInterval \in Nat /\ Base <= MaxInterval
    BY PollerAssumption
  <1>3. Delay(n) = (2 * Base * p + q) \div (2 * q)
    BY DEF Delay
  <1> HIDE DEF p, q
  <1>4. 2 * Base * p + q \in Nat /\ 2 * q \in Nat \ {0} /\ Base * (2 * q) <= 2 * Base * p + q
    <2>1. Base * q <= Base * p
      BY <1>1, <1>2
    <2>2. Base * q \in Nat /\ Base * p \in Nat
      BY <1>1, <1>2
    <2>3. 2 * Base * p = 2 * (Base * p) /\ Base * (2 * q) = 2 * (Base * q)
      BY <1>1, <1>2
    <2> QED
      BY <1>1, <2>1, <2>2, <2>3
  <1>5. Delay(n) \in Nat /\ Base <= Delay(n)
    BY <1>2, <1>3, <1>4, QuotientBound
  <1> QED
    BY <1>2, <1>5 DEF Backoff

-----------------------------------------------------------------------------
(***************************************************************************)
(* The fields of the loop.                                                 *)
(***************************************************************************)
\* Clearing the known timer ends a loop that was waiting, and nothing else.
LEMMA ClearedLoop ==
    ASSUME PollerTypeOK
    PROVE  /\ Cleared \in [Call -> {"idle", "fetching", "waiting", "ended"}]
           /\ \A r \in Refresh : Cleared[r] \in {"idle", "fetching"}
           /\ \A x \in Call : Cleared[x] = "fetching" <=> phase[x] = "fetching"
           /\ AbortedNow \subseteq Fetching
  <1>1. \A r \in Refresh : r \in Call /\ r \notin Loop
    BY PollerAssumption DEF Call
  <1>2. timer # None => timer \in Loop /\ timer \in Call
    BY DEF PollerTypeOK, Call
  <1>3. AbortedNow \subseteq Fetching
    BY DEF PollerTypeOK, AbortedNow
  <1> QED
    BY <1>1, <1>2, <1>3 DEF PollerTypeOK, Cleared

\* The fields of the loop stay within their types.
LEMMA LoopTypeStep ==
    ASSUME PollerTypeOK, [PollerNext]_pollerVars
    PROVE  PollerTypeOK'
  <1>1. ASSUME NEW l \in Loop, StartPolling(l)
        PROVE  PollerTypeOK'
    <2>1. l \in Call /\ \A r \in Refresh : r # l /\ r \in Call
      BY PollerAssumption DEF Call
    <2>2. phase' = [Cleared EXCEPT ![l] = "fetching"]
      BY <1>1 DEF StartPolling
    <2>3. /\ phase' \in [Call -> {"idle", "fetching", "waiting", "ended"}]
          /\ \A r \in Refresh : phase'[r] \in {"idle", "fetching"}
      BY <2>1, <2>2, ClearedLoop
    <2>4. l \in Fetching' /\ Fetching \subseteq Fetching'
      BY <2>1, <2>2, ClearedLoop DEF Fetching
    <2>5. controller' \in Fetching' \cup {None} /\ aborted' \subseteq Fetching'
      BY <1>1, <2>4, ClearedLoop DEF StartPolling
    <2>6. interval' \in Base..MaxInterval
      BY <1>1, PollerAssumption DEF StartPolling
    <2> QED
      BY <1>1, <2>3, <2>5, <2>6 DEF StartPolling, PollerTypeOK, boundVars
  <1>2. ASSUME Stopped
        PROVE  /\ isPolling' \in BOOLEAN
               /\ phase' \in [Call -> {"idle", "fetching", "waiting", "ended"}]
               /\ \A r \in Refresh : phase'[r] \in {"idle", "fetching"}
               /\ timer' \in Loop \cup {None}
               /\ controller' \in Fetching' \cup {None}
               /\ aborted' \subseteq Fetching'
    <2>1. Fetching' = Fetching
      BY <1>2, ClearedLoop DEF Stopped, Fetching
    <2> QED
      BY <1>2, <2>1, ClearedLoop DEF Stopped
  <1>3. CASE StopPolling
    <2>1. stops' \in 0..MaxStops
      BY <1>3, PollerAssumption DEF StopPolling, PollerTypeOK
    <2> QED
      BY <1>2, <1>3, <2>1 DEF StopPolling, PollerTypeOK, resultVars
  <1>4. CASE ResetPolling
    <2>1. /\ stops' \in 0..MaxStops /\ failures' \in 0..MaxFailures
          /\ interval' \in Base..MaxInterval
      BY <1>4, PollerAssumption DEF ResetPolling, PollerTypeOK
    <2> QED
      BY <1>2, <1>4, <2>1 DEF ResetPolling, PollerTypeOK
  <1>5. ASSUME NEW l \in Loop, Tick(l)
        PROVE  PollerTypeOK'
    <2>1. l \in Call /\ \A r \in Refresh : r # l /\ r \in Call
      BY PollerAssumption DEF Call
    <2>2. /\ phase' \in [Call -> {"idle", "fetching", "waiting", "ended"}]
          /\ \A r \in Refresh : phase'[r] \in {"idle", "fetching"}
      BY <1>5, <2>1 DEF Tick, PollerTypeOK
    <2>3. Fetching \subseteq Fetching' /\ (GoesOn => l \in Fetching')
      BY <1>5, <2>1 DEF Tick, PollerTypeOK, Fetching
    <2>4. controller' \in Fetching' \cup {None} /\ aborted' \subseteq Fetching'
      BY <1>5, <2>3 DEF Tick, PollerTypeOK
    <2> QED
      BY <1>5, <2>2, <2>4 DEF Tick, PollerTypeOK, resultVars, boundVars
  <1>6. ASSUME NEW r \in Refresh, BeginRefresh(r)
        PROVE  PollerTypeOK'
    <2>1. r \in Call /\ \A s \in Refresh : s \in Call
      BY DEF Call
    <2>2. /\ phase' \in [Call -> {"idle", "fetching", "waiting", "ended"}]
          /\ \A s \in Refresh : phase'[s] \in {"idle", "fetching"}
      BY <1>6, <2>1 DEF BeginRefresh, PollerTypeOK
    <2>3. Fetching \subseteq Fetching' /\ r \in Fetching'
      BY <1>6, <2>1 DEF BeginRefresh, PollerTypeOK, Fetching
    <2>4. failures' \in 0..MaxFailures /\ interval' \in Base..MaxInterval
      BY <1>6, PollerAssumption DEF BeginRefresh
    <2> QED
      BY <1>6, <2>2, <2>3, <2>4 DEF BeginRefresh, PollerTypeOK, boundVars
  <1>7. ASSUME NEW x \in Call, EndFetch(x)
        PROVE  /\ isPolling' \in BOOLEAN
               /\ phase' \in [Call -> {"idle", "fetching", "waiting", "ended"}]
               /\ \A r \in Refresh : phase'[r] \in {"idle", "fetching"}
               /\ timer' \in Loop \cup {None}
               /\ controller' \in Fetching' \cup {None}
               /\ aborted' \subseteq Fetching'
    <2>1. phase' = [phase EXCEPT ![x] = AfterFetch(x)]
      BY <1>7 DEF EndFetch
    <2>2. /\ AfterFetch(x) \in {"idle", "waiting", "ended"}
          /\ x \in Refresh => AfterFetch(x) = "idle"
      BY DEF AfterFetch
    <2>3. phase' \in [Call -> {"idle", "fetching", "waiting", "ended"}]
      BY <2>1, <2>2 DEF PollerTypeOK
    <2>4. \A r \in Refresh : phase'[r] \in {"idle", "fetching"}
      BY <2>1, <2>2 DEF PollerTypeOK, Call
    <2>5. timer' \in Loop \cup {None}
      BY <1>7, <2>1, <2>2 DEF EndFetch, PollerTypeOK, Call
    <2>6. Fetching \ {x} \subseteq Fetching'
      BY <2>1 DEF PollerTypeOK, Fetching
    <2> QED
      BY <1>7, <2>3, <2>4, <2>5, <2>6 DEF EndFetch, PollerTypeOK
  <1>8. ASSUME NEW x \in Call, FetchSucceeds(x)
        PROVE  PollerTypeOK'
    <2>1. failures' \in 0..MaxFailures /\ interval' \in Base..MaxInterval
      BY <1>8, PollerAssumption DEF FetchSucceeds, IntervalAfterSuccess
    <2> QED
      BY <1>7, <1>8, <2>1 DEF FetchSucceeds, EndFetch, PollerTypeOK, boundVars
  <1>9. ASSUME NEW x \in Call, FetchFails(x)
        PROVE  PollerTypeOK'
    <2>1. failures' \in 0..MaxFailures
      BY <1>9, PollerAssumption DEF FetchFails, PollerTypeOK
    <2>2. interval' \in Base..MaxInterval
      <3>1. failures' \in Nat
        BY <2>1
      <3> QED
        BY <1>9, <3>1, BackoffBounded DEF FetchFails
    <2> QED
      BY <1>7, <1>9, <2>1, <2>2 DEF FetchFails, EndFetch, PollerTypeOK, boundVars
  <1>10. CASE BackendChanges
    <2>1. faults' \in 0..MaxFaults
      BY <1>10, PollerAssumption DEF BackendChanges, PollerTypeOK
    <2> QED
      BY <1>10, <2>1 DEF BackendChanges, PollerTypeOK, loopVars, resultVars, Fetching
  <1>11. CASE UNCHANGED pollerVars
    BY <1>11 DEF PollerTypeOK, pollerVars, loopVars, resultVars, boundVars, Fetching
  <1> QED
    BY <1>1, <1>3, <1>4, <1>5, <1>6, <1>8, <1>9, <1>10, <1>11 DEF PollerNext

\* PollerTyped: a loop's fields stay within their types, the abort controller belongs
\* to a request under way and the interval is between base and maximum, for every
\* number of restarts, refreshes and failures.
THEOREM PollerTyped == PollerSpec => []PollerTypeOK
  <1>1. PollerInit => PollerTypeOK
    <2>1. /\ Base \in Base..MaxInterval /\ 0 \in 0..MaxFailures
          /\ 0 \in 0..MaxStops /\ 0 \in 0..MaxFaults
      BY PollerAssumption
    <2>2. \A r \in Refresh : r \in Call
      BY DEF Call
    <2> QED
      BY <2>1, <2>2 DEF PollerInit, PollerTypeOK
  <1>2. PollerTypeOK /\ [PollerNext]_pollerVars => PollerTypeOK'
    BY LoopTypeStep
  <1> QED
    BY <1>1, <1>2, PTL DEF PollerSpec

-----------------------------------------------------------------------------
(***************************************************************************)
(* The rows of the ledger, and the requests that change them.              *)
(***************************************************************************)
\* A list is under way to a request only.
AnswersTyped ==
    /\ server \subseteq File
    /\ DOMAIN answer = Call
    /\ \A x \in Call : answer[x] = None \/ (x \in Fetching /\ answer[x] \in Seq(File))

\* The total goes with the rows.
RowsTyped ==
    /\ files \in Seq(File)
    /\ totalFiles = Len(files)

\* A deletion under way remembers the row it took out.
DeletionsTyped ==
    /\ DOMAIN deletion = Deletion
    /\ \A d \in Deletion :
          deletion[d] = None \/ deletion[d] \in
              [file : File, row : Nat \ {0}, answer : {"none", "ok", "refused"}]

\* An upload that is shown as done waits for a fetch.
UploadsTyped ==
    /\ DOMAIN upload = Upload
    /\ \A u \in Upload :
          \/ upload[u] = None
          \/ upload[u] \in [file : File, at : {"sent", "stored", "refused"}]
          \/ upload[u] \in [file : File, at : {"shown"}, after : Refresh]

\* What the panel shows.
PanelTyped ==
    /\ deleteState \in {Nothing} \cup
          [kind : {"confirming", "deleting", "error"}, file : File]
    /\ uploadState \in {Nothing} \cup
          [kind : {"uploading", "done", "error", "paused"}, file : File]

CountsTyped ==
    /\ refreshes \in 0..MaxRefreshes
    /\ deletions \in 0..MaxDeletions
    /\ uploads \in 0..MaxUploads

LedgerInv == /\ PollerTypeOK
             /\ AnswersTyped
             /\ RowsTyped
             /\ DeletionsTyped
             /\ UploadsTyped
             /\ PanelTyped
             /\ CountsTyped

\* A step that ends no request leaves those under way.
LEMMA FetchesGoOn ==
    ASSUME PollerTypeOK,
           \/ \E l \in Loop : StartPolling(l) \/ Tick(l)
           \/ Stopped
           \/ \E r \in Refresh : BeginRefresh(r)
           \/ BackendChanges
           \/ UNCHANGED pollerVars
    PROVE  Fetching \subseteq Fetching'
  <1>1. ASSUME NEW l \in Loop, StartPolling(l)
        PROVE  Fetching \subseteq Fetching'
    <2>1. phase' = [Cleared EXCEPT ![l] = "fetching"] /\ l \in Call
      BY <1>1 DEF StartPolling, Call
    <2> QED
      BY <2>1, ClearedLoop DEF Fetching
  <1>2. ASSUME NEW l \in Loop, Tick(l)
        PROVE  Fetching \subseteq Fetching'
    BY <1>2 DEF Tick, PollerTypeOK, Fetching
  <1>3. CASE Stopped
    BY <1>3, ClearedLoop DEF Stopped, Fetching
  <1>4. ASSUME NEW r \in Refresh, BeginRefresh(r)
        PROVE  Fetching \subseteq Fetching'
    BY <1>4 DEF BeginRefresh, PollerTypeOK, Fetching
  <1>5. CASE BackendChanges \/ UNCHANGED pollerVars
    BY <1>5 DEF BackendChanges, pollerVars, loopVars, Fetching
  <1> QED
    BY <1>1, <1>2, <1>3, <1>4, <1>5

\* Lists go to requests that are under way.
LEMMA AnswersStep ==
    ASSUME LedgerInv, [Next]_vars
    PROVE  AnswersTyped'
  <1> USE DEF LedgerInv
  <1>1. ASSUME Fetching \subseteq Fetching', answer' = answer, server' \subseteq File
        PROVE  AnswersTyped'
    BY <1>1 DEF AnswersTyped
  <1>2. ASSUME NEW x \in Call, ServeList(x)
        PROVE  AnswersTyped'
    <2>1. Fetching' = Fetching /\ server' = server /\ x \in Fetching
      BY <1>2 DEF ServeList, otherVars, pollerVars, loopVars, Fetching
    <2>2. Listing \in Seq(File)
      BY ListingIsList DEF AnswersTyped
    <2>3. answer' = [answer EXCEPT ![x] = Listing]
      BY <1>2 DEF ServeList
    <2> QED
      BY <2>1, <2>2, <2>3 DEF AnswersTyped
  <1>3. ASSUME NEW x \in Call, EndFetch(x), answer' = [answer EXCEPT ![x] = None],
               server' = server
        PROVE  AnswersTyped'
    <2>1. Fetching \ {x} \subseteq Fetching'
      BY <1>3 DEF EndFetch, Fetching, PollerTypeOK
    <2> QED
      BY <1>3, <2>1 DEF AnswersTyped
  <1>4. ASSUME NEW x \in Call, LoadFiles(x) \/ LoadFails(x)
        PROVE  AnswersTyped'
    <2>1. EndFetch(x) /\ answer' = [answer EXCEPT ![x] = None] /\ server' = server
      BY <1>4 DEF LoadFiles, LoadFails, FetchSucceeds, FetchFails
    <2> QED
      BY <1>3, <2>1
  <1>5. ASSUME NEW d \in Deletion, ServeDelete(d)
        PROVE  AnswersTyped'
    <2>1. answer' = answer /\ server' \subseteq server /\ UNCHANGED pollerVars
      BY <1>5 DEF ServeDelete, otherVars
    <2> QED
      BY <1>1, <2>1, FetchesGoOn DEF AnswersTyped
  <1>6. ASSUME NEW u \in Upload, ServeUpload(u)
        PROVE  AnswersTyped'
    <2>1. answer' = answer /\ server' = server \cup {upload[u].file} /\ UNCHANGED pollerVars
      BY <1>6 DEF ServeUpload, otherVars
    <2>2. upload[u].file \in File
      BY <1>6 DEF ServeUpload, UploadsTyped
    <2> QED
      BY <1>1, <2>1, <2>2, FetchesGoOn DEF AnswersTyped
  <1>7. ASSUME UNCHANGED <<answer, server>>,
               \/ \E l \in Loop : StartPolling(l) \/ Tick(l)
               \/ Stopped
               \/ \E r \in Refresh : BeginRefresh(r)
               \/ BackendChanges
               \/ UNCHANGED pollerVars
        PROVE  AnswersTyped'
    <2>1. Fetching \subseteq Fetching'
      BY <1>7, FetchesGoOn
    <2> QED
      BY <1>1, <1>7, <2>1 DEF AnswersTyped
  <1>8. ASSUME UNCHANGED <<answer, server>>, UNCHANGED otherVars
        PROVE  AnswersTyped'
    BY <1>7, <1>8 DEF otherVars
  <1>9. CASE \E l \in Loop : StartPolling(l) /\ UNCHANGED ledgerVars
    BY <1>7, <1>9 DEF ledgerVars, dataVars
  <1>10. CASE StopPolling /\ UNCHANGED ledgerVars
    BY <1>7, <1>10 DEF StopPolling, ledgerVars, dataVars
  <1>11. CASE Reset
    BY <1>7, <1>11 DEF Reset, ResetPolling
  <1>12. CASE \E l \in Loop : Tick(l) /\ UNCHANGED ledgerVars
    BY <1>7, <1>12 DEF ledgerVars, dataVars
  <1>13. CASE BackendChanges /\ UNCHANGED ledgerVars
    BY <1>7, <1>13 DEF ledgerVars, dataVars
  <1>14. ASSUME NEW r \in Refresh, BeginRefresh(r), UNCHANGED <<answer, server>>
         PROVE  AnswersTyped'
    BY <1>7, <1>14
  <1>15. CASE UNCHANGED vars
    BY <1>7, <1>15 DEF vars, ledgerVars, dataVars
  <1> QED
    BY <1>2, <1>4, <1>5, <1>6, <1>8, <1>9, <1>10, <1>11, <1>12, <1>13, <1>14, <1>15
    DEF Next, RefreshFiles, dataVars, SetConfirmingDelete, DismissDelete, DeletePaused,
        DeleteFile, DeleteSucceeds, DeleteFails, UploadFile, BeginUpload, UploadPaused,
        RetryLastUpload, DismissUploadError, RefuseUpload, UploadSucceeds, ClearUpload,
        UploadFails

\* The total follows the rows.
LEMMA RowsStep ==
    ASSUME LedgerInv, [Next]_vars
    PROVE  RowsTyped'
  <1> USE DEF LedgerInv
  <1>1. ASSUME NEW x \in Call, LoadFiles(x)
        PROVE  RowsTyped'
    <2>1. files' = answer[x] /\ totalFiles' = Len(files') /\ answer[x] # None
      BY <1>1 DEF LoadFiles, Loaded
    <2> QED
      BY <2>1 DEF AnswersTyped, RowsTyped
  <1>2. CASE Reset
    <2>1. files' = <<>> /\ totalFiles' = 0
      BY <1>2 DEF Reset
    <2> QED
      BY <2>1, EmptySeq DEF RowsTyped
  <1>3. ASSUME NEW d \in Deletion, DeleteFile(d)
        PROVE  RowsTyped'
    <2> DEFINE row == SelectInSeq(files, LAMBDA g : g = deleteState.file)
    <2>1. /\ files' = RemoveAt(files, row)
          /\ totalFiles' = IF totalFiles > 0 THEN totalFiles - 1 ELSE 0
          /\ deleteState.file \in ToSet(files)
      BY <1>3 DEF DeleteFile
    <2>2. files \in Seq(File) /\ totalFiles = Len(files) /\ Len(files) \in Nat
      BY LenProperties DEF RowsTyped
    <2>3. row \in 1..Len(files)
      BY <2>1, <2>2, RowFound
    <2> HIDE DEF row
    <2>4. files' \in Seq(File) /\ Len(files') = Len(files) - 1
      BY <2>1, <2>2, <2>3, RowRemoved
    <2>5. Len(files) > 0
      BY <2>2, <2>3
    <2> QED
      BY <2>1, <2>2, <2>4, <2>5 DEF RowsTyped
  <1>4. ASSUME NEW d \in Deletion, DeleteFails(d)
        PROVE  RowsTyped'
    <2> DEFINE place == Least(deletion[d].row, Len(files) + 1)
    <2>1. /\ files' = InsertAt(files, place, deletion[d].file)
          /\ totalFiles' = totalFiles + 1
          /\ deletion[d] # None
      BY <1>4 DEF DeleteFails, TotalAfterRollback
    <2>2. files \in Seq(File) /\ totalFiles = Len(files) /\ Len(files) \in Nat
      BY LenProperties DEF RowsTyped
    <2>3. deletion[d].row \in Nat \ {0} /\ deletion[d].file \in File
      BY <2>1 DEF DeletionsTyped
    <2>4. place \in 1..(Len(files) + 1)
      BY <2>2, <2>3 DEF Least
    <2> HIDE DEF place
    <2>5. files' \in Seq(File) /\ Len(files') = Len(files) + 1
      BY <2>1, <2>2, <2>3, <2>4, RowInserted
    <2> QED
      BY <2>1, <2>2, <2>5 DEF RowsTyped
  <1>5. ASSUME UNCHANGED rowVars
        PROVE  RowsTyped'
    BY <1>5 DEF rowVars, RowsTyped
  <1>6. ASSUME UNCHANGED ledgerVars
        PROVE  UNCHANGED rowVars
    BY <1>6 DEF ledgerVars, dataVars
  <1>7. ASSUME NEW r \in Refresh, RefreshFiles(r)
        PROVE  RowsTyped'
    BY <1>5, <1>7 DEF RefreshFiles, dataVars
  <1>8. CASE UNCHANGED vars
    BY <1>5, <1>6, <1>8 DEF vars
  <1> QED
    BY <1>1, <1>2, <1>3, <1>4, <1>5, <1>6, <1>7, <1>8
    DEF Next, ServeList, LoadFails, SetConfirmingDelete, DismissDelete, DeletePaused,
        ServeDelete, DeleteSucceeds, UploadFile, BeginUpload, UploadPaused,
        RetryLastUpload, DismissUploadError, ServeUpload, RefuseUpload, UploadSucceeds,
        ClearUpload, UploadFails

\* A deletion begins with a row and the server answers it once.
LEMMA DeletionsStep ==
    ASSUME LedgerInv, [Next]_vars
    PROVE  DeletionsTyped'
  <1> USE DEF LedgerInv
  <1>1. ASSUME NEW d \in Deletion, DeleteFile(d)
        PROVE  DeletionsTyped'
    <2> DEFINE row == SelectInSeq(files, LAMBDA g : g = deleteState.file)
    <2>1. /\ deletion' = [deletion EXCEPT ![d] =
                 [file |-> deleteState.file, row |-> row, answer |-> "none"]]
          /\ deleteState.kind = "confirming"
          /\ deleteState.file \in ToSet(files)
      BY <1>1 DEF DeleteFile
    <2>2. files \in Seq(File) /\ Len(files) \in Nat
      BY LenProperties DEF RowsTyped
    <2>3. row \in 1..Len(files)
      BY <2>1, <2>2, RowFound
    <2> HIDE DEF row
    <2>4. row \in Nat \ {0} /\ deleteState.file \in File
      BY <2>1, <2>2, <2>3 DEF PanelTyped, Nothing
    <2> QED
      BY <2>1, <2>4 DEF DeletionsTyped
  <1>2. ASSUME NEW d \in Deletion, ServeDelete(d)
        PROVE  DeletionsTyped'
    <2>1. PICK a \in {"ok", "refused"} : deletion' = [deletion EXCEPT ![d].answer = a]
      BY <1>2 DEF ServeDelete
    <2>2. deletion[d] # None
      BY <1>2 DEF ServeDelete
    <2> QED
      BY <2>1, <2>2 DEF DeletionsTyped
  <1>3. ASSUME NEW d \in Deletion, deletion' = [deletion EXCEPT ![d] = None]
        PROVE  DeletionsTyped'
    BY <1>3 DEF DeletionsTyped
  <1>4. ASSUME UNCHANGED deletion
        PROVE  DeletionsTyped'
    BY <1>4 DEF DeletionsTyped
  <1>5. ASSUME UNCHANGED deleteVars
        PROVE  DeletionsTyped'
    BY <1>4, <1>5 DEF deleteVars
  <1>6. ASSUME UNCHANGED ledgerVars
        PROVE  UNCHANGED deleteVars
    BY <1>6 DEF ledgerVars, dataVars
  <1>7. ASSUME NEW r \in Refresh, RefreshFiles(r)
        PROVE  DeletionsTyped'
    BY <1>5, <1>7 DEF RefreshFiles, dataVars
  <1>8. CASE Reset
    BY <1>4, <1>8 DEF Reset
  <1>9. CASE UNCHANGED vars
    BY <1>5, <1>6, <1>9 DEF vars
  <1> QED
    BY <1>1, <1>2, <1>3, <1>4, <1>5, <1>6, <1>7, <1>8, <1>9
    DEF Next, ServeList, LoadFiles, LoadFails, SetConfirmingDelete, DismissDelete,
        DeletePaused, DeleteSucceeds, DeleteFails, UploadFile, BeginUpload, UploadPaused,
        RetryLastUpload, DismissUploadError, ServeUpload, RefuseUpload, UploadSucceeds,
        ClearUpload, UploadFails

\* An upload is sent, stored or refused, and shown as done until a fetch has ended.
LEMMA UploadsStep ==
    ASSUME LedgerInv, [Next]_vars
    PROVE  UploadsTyped'
  <1> USE DEF LedgerInv
  <1>1. ASSUME NEW u \in Upload, NEW f \in File, BeginUpload(u, f)
        PROVE  UploadsTyped'
    BY <1>1 DEF BeginUpload, UploadsTyped
  <1>2. ASSUME NEW u \in Upload, NEW f \in Local, UploadFile(u, f)
        PROVE  UploadsTyped'
    BY <1>1, <1>2, LedgerAssumption DEF UploadFile
  <1>3. ASSUME NEW u \in Upload, RetryLastUpload(u)
        PROVE  UploadsTyped'
    <2>1. uploadState.file \in File
      BY <1>3 DEF RetryLastUpload, PanelTyped, Nothing
    <2> QED
      BY <1>1, <1>3, <2>1 DEF RetryLastUpload
  <1>4. ASSUME NEW u \in Upload, ServeUpload(u) \/ RefuseUpload(u)
        PROVE  UploadsTyped'
    <2>1. PICK a \in {"stored", "refused"} : upload' = [upload EXCEPT ![u].at = a]
      BY <1>4 DEF ServeUpload, RefuseUpload
    <2>2. upload[u] \in [file : File, at : {"sent", "stored", "refused"}]
      BY <1>4 DEF ServeUpload, RefuseUpload, UploadsTyped
    <2> QED
      BY <2>1, <2>2 DEF UploadsTyped
  <1>5. ASSUME NEW u \in Upload, NEW r \in Refresh, UploadSucceeds(u, r)
        PROVE  UploadsTyped'
    <2>1. upload' = [upload EXCEPT ![u] =
              [file |-> upload[u].file, at |-> "shown", after |-> r]]
      BY <1>5 DEF UploadSucceeds
    <2>2. upload[u].file \in File
      BY <1>5 DEF UploadSucceeds, UploadsTyped
    <2> QED
      BY <2>1, <2>2 DEF UploadsTyped
  <1>6. ASSUME NEW u \in Upload, ClearUpload(u) \/ UploadFails(u)
        PROVE  UploadsTyped'
    BY <1>6 DEF ClearUpload, UploadFails, UploadsTyped
  <1>7. ASSUME UNCHANGED upload
        PROVE  UploadsTyped'
    BY <1>7 DEF UploadsTyped
  <1>8. ASSUME UNCHANGED uploadVars
        PROVE  UploadsTyped'
    BY <1>7, <1>8 DEF uploadVars
  <1>9. ASSUME UNCHANGED ledgerVars
        PROVE  UNCHANGED uploadVars
    BY <1>9 DEF ledgerVars, dataVars
  <1>10. ASSUME NEW r \in Refresh, RefreshFiles(r)
         PROVE  UploadsTyped'
    BY <1>8, <1>10 DEF RefreshFiles, dataVars
  <1>11. CASE Reset
    BY <1>7, <1>11 DEF Reset
  <1>12. CASE UNCHANGED vars
    BY <1>8, <1>9, <1>12 DEF vars
  <1> QED
    BY <1>2, <1>3, <1>4, <1>5, <1>6, <1>7, <1>8, <1>9, <1>10, <1>11, <1>12
    DEF Next, ServeList, LoadFiles, LoadFails, SetConfirmingDelete, DismissDelete,
        DeletePaused, DeleteFile, ServeDelete, DeleteSucceeds, DeleteFails,
        UploadPaused, DismissUploadError

\* The panel shows nothing or the state of one file.
LEMMA PanelStep ==
    ASSUME LedgerInv, [Next]_vars
    PROVE  PanelTyped'
  <1> USE DEF LedgerInv
  <1> DEFINE DeleteShown(s) == s \in {Nothing} \cup
                 [kind : {"confirming", "deleting", "error"}, file : File]
             UploadShown(s) == s \in {Nothing} \cup
                 [kind : {"uploading", "done", "error", "paused"}, file : File]
  <1>1. DeleteShown(Nothing) /\ UploadShown(Nothing)
    OBVIOUS
  <1>2. ASSUME NEW f \in File
        PROVE  /\ \A k \in {"confirming", "deleting", "error"} : DeleteShown(Shown(k, f))
               /\ \A k \in {"uploading", "done", "error", "paused"} : UploadShown(Shown(k, f))
    BY DEF Shown
  <1>3. DeleteShown(deleteState) /\ UploadShown(uploadState)
    BY DEF PanelTyped
  <1>4. deleteState.kind = "confirming" => deleteState.file \in File
    BY <1>3 DEF Nothing
  <1>5. uploadState.kind = "error" => uploadState.file \in File
    BY <1>3 DEF Nothing
  <1>6. SUFFICES DeleteShown(deleteState') /\ UploadShown(uploadState')
    BY DEF PanelTyped
  <1> HIDE DEF DeleteShown, UploadShown
  <1>7. ASSUME UNCHANGED <<deleteState, uploadState>>
        PROVE  DeleteShown(deleteState') /\ UploadShown(uploadState')
    BY <1>3, <1>7
  <1>8. ASSUME UNCHANGED ledgerVars
        PROVE  UNCHANGED <<deleteState, uploadState>>
    BY <1>8 DEF ledgerVars, dataVars, deleteVars, uploadVars
  <1>9. ASSUME NEW x \in Call, ServeList(x) \/ LoadFiles(x) \/ LoadFails(x)
        PROVE  UNCHANGED <<deleteState, uploadState>>
    BY <1>9 DEF ServeList, LoadFiles, LoadFails, deleteVars, uploadVars
  <1>10. ASSUME NEW r \in Refresh, RefreshFiles(r)
         PROVE  UNCHANGED <<deleteState, uploadState>>
    BY <1>10 DEF RefreshFiles, dataVars, deleteVars, uploadVars
  <1>11. CASE Reset
    BY <1>1, <1>11 DEF Reset
  <1>12. ASSUME NEW f \in File, SetConfirmingDelete(f)
         PROVE  DeleteShown(deleteState') /\ UploadShown(uploadState')
    BY <1>2, <1>3, <1>12 DEF SetConfirmingDelete, uploadVars
  <1>13. CASE DismissDelete
    BY <1>1, <1>3, <1>13 DEF DismissDelete, uploadVars
  <1>14. CASE DeletePaused
    BY <1>2, <1>3, <1>4, <1>14 DEF DeletePaused, uploadVars
  <1>15. ASSUME NEW d \in Deletion, DeleteFile(d)
         PROVE  DeleteShown(deleteState') /\ UploadShown(uploadState')
    <2>1. /\ deleteState.kind = "confirming" /\ uploadState' = uploadState
          /\ deleteState' = Shown("deleting", deleteState.file)
      BY <1>15 DEF DeleteFile, uploadVars
    <2> QED
      BY <1>2, <1>3, <1>4, <2>1
  <1>16. ASSUME NEW d \in Deletion, ServeDelete(d)
         PROVE  UNCHANGED <<deleteState, uploadState>>
    BY <1>16 DEF ServeDelete, uploadVars
  <1>17. ASSUME NEW d \in Deletion, NEW r \in Refresh, DeleteSucceeds(d, r)
         PROVE  DeleteShown(deleteState') /\ UploadShown(uploadState')
    BY <1>1, <1>3, <1>17 DEF DeleteSucceeds, uploadVars
  <1>18. ASSUME NEW d \in Deletion, DeleteFails(d)
         PROVE  DeleteShown(deleteState') /\ UploadShown(uploadState')
    <2>1. /\ deletion[d] # None /\ uploadState' = uploadState
          /\ deleteState' = Shown("error", deletion[d].file)
      BY <1>18 DEF DeleteFails, uploadVars
    <2>2. deletion[d].file \in File
      BY <2>1 DEF DeletionsTyped
    <2> QED
      BY <1>2, <1>3, <2>1, <2>2
  <1>19. ASSUME NEW u \in Upload, NEW f \in File, BeginUpload(u, f)
         PROVE  DeleteShown(deleteState') /\ UploadShown(uploadState')
    BY <1>2, <1>3, <1>19 DEF BeginUpload, deleteVars
  <1>20. ASSUME NEW u \in Upload, NEW f \in Local, UploadFile(u, f)
         PROVE  DeleteShown(deleteState') /\ UploadShown(uploadState')
    BY <1>19, <1>20, LedgerAssumption DEF UploadFile
  <1>21. ASSUME NEW f \in Local, UploadPaused(f)
         PROVE  DeleteShown(deleteState') /\ UploadShown(uploadState')
    BY <1>2, <1>3, <1>21, LedgerAssumption DEF UploadPaused, deleteVars
  <1>22. ASSUME NEW u \in Upload, RetryLastUpload(u)
         PROVE  DeleteShown(deleteState') /\ UploadShown(uploadState')
    BY <1>5, <1>19, <1>22 DEF RetryLastUpload
  <1>23. CASE DismissUploadError
    BY <1>1, <1>3, <1>23 DEF DismissUploadError, deleteVars
  <1>24. ASSUME NEW u \in Upload, ServeUpload(u) \/ RefuseUpload(u)
         PROVE  UNCHANGED <<deleteState, uploadState>>
    BY <1>24 DEF ServeUpload, RefuseUpload, deleteVars
  <1>25. ASSUME NEW u \in Upload, NEW r \in Refresh, UploadSucceeds(u, r)
         PROVE  DeleteShown(deleteState') /\ UploadShown(uploadState')
    <2>1. /\ upload[u] # None /\ deleteState' = deleteState
          /\ uploadState' = Shown("done", upload[u].file)
      BY <1>25 DEF UploadSucceeds, deleteVars
    <2>2. upload[u].file \in File
      BY <2>1 DEF UploadsTyped
    <2> QED
      BY <1>2, <1>3, <2>1, <2>2
  <1>26. ASSUME NEW u \in Upload, ClearUpload(u)
         PROVE  DeleteShown(deleteState') /\ UploadShown(uploadState')
    BY <1>1, <1>3, <1>26 DEF ClearUpload, deleteVars
  <1>27. ASSUME NEW u \in Upload, UploadFails(u)
         PROVE  DeleteShown(deleteState') /\ UploadShown(uploadState')
    <2>1. /\ upload[u] # None /\ deleteState' = deleteState
          /\ uploadState' = Shown("error", upload[u].file)
      BY <1>27 DEF UploadFails, deleteVars
    <2>2. upload[u].file \in File
      BY <2>1 DEF UploadsTyped
    <2> QED
      BY <1>2, <1>3, <2>1, <2>2
  <1>28. CASE UNCHANGED vars
    BY <1>7, <1>8, <1>28 DEF vars
  <1> QED
    BY <1>7, <1>8, <1>9, <1>10, <1>11, <1>12, <1>13, <1>14, <1>15, <1>16, <1>17, <1>18,
       <1>20, <1>21, <1>22, <1>23, <1>24, <1>25, <1>26, <1>27, <1>28
    DEF Next

\* The counters stay within the bounds.
LEMMA CountsStep ==
    ASSUME LedgerInv, [Next]_vars
    PROVE  CountsTyped'
  <1> USE DEF LedgerInv, CountsTyped
  <1>1. ASSUME UNCHANGED <<refreshes, deletions, uploads>>
        PROVE  CountsTyped'
    BY <1>1
  <1>2. ASSUME UNCHANGED ledgerVars
        PROVE  CountsTyped'
    BY <1>2 DEF ledgerVars, dataVars, deleteVars, uploadVars
  <1>3. ASSUME NEW x \in Call, ServeList(x) \/ LoadFiles(x) \/ LoadFails(x)
        PROVE  CountsTyped'
    BY <1>3 DEF ServeList, LoadFiles, LoadFails, otherVars, deleteVars, uploadVars
  <1>4. ASSUME NEW r \in Refresh, RefreshFiles(r)
        PROVE  CountsTyped'
    BY <1>4, LedgerAssumption DEF RefreshFiles, dataVars, deleteVars, uploadVars
  <1>5. CASE Reset \/ DismissDelete \/ \E f \in File : SetConfirmingDelete(f)
    BY <1>5 DEF Reset, DismissDelete, SetConfirmingDelete, otherVars, uploadVars
  <1>6. ASSUME NEW d \in Deletion, DeletePaused \/ DeleteFile(d)
        PROVE  CountsTyped'
    BY <1>6, LedgerAssumption DEF DeletePaused, DeleteFile, otherVars, uploadVars
  <1>7. CASE DeletePaused
    BY <1>7, LedgerAssumption DEF DeletePaused, otherVars, uploadVars
  <1>8. ASSUME NEW d \in Deletion,
               ServeDelete(d) \/ DeleteFails(d) \/ \E r \in Refresh : DeleteSucceeds(d, r)
        PROVE  CountsTyped'
    BY <1>8 DEF ServeDelete, DeleteFails, DeleteSucceeds, otherVars, uploadVars
  <1>9. ASSUME NEW u \in Upload, NEW f, BeginUpload(u, f)
        PROVE  CountsTyped'
    BY <1>9, LedgerAssumption DEF BeginUpload, otherVars, deleteVars
  <1>10. ASSUME NEW f \in Local, UploadPaused(f)
         PROVE  CountsTyped'
    BY <1>10 DEF UploadPaused, otherVars, deleteVars
  <1>11. CASE DismissUploadError
    BY <1>11 DEF DismissUploadError, otherVars, deleteVars
  <1>12. ASSUME NEW u \in Upload,
                \/ ServeUpload(u) \/ RefuseUpload(u) \/ ClearUpload(u) \/ UploadFails(u)
                \/ \E r \in Refresh : UploadSucceeds(u, r)
         PROVE  CountsTyped'
    BY <1>12 DEF ServeUpload, RefuseUpload, ClearUpload, UploadFails, UploadSucceeds,
                 otherVars, deleteVars
  <1>13. CASE UNCHANGED vars
    BY <1>2, <1>13 DEF vars
  <1> QED
    BY <1>2, <1>3, <1>4, <1>5, <1>6, <1>7, <1>8, <1>9, <1>10, <1>11, <1>12, <1>13
    DEF Next, UploadFile, RetryLastUpload

-----------------------------------------------------------------------------
\* The ledger's rows, requests and panel go together in every reachable state.
LEMMA LedgerInvariant == Spec => []LedgerInv
  <1>1. Init => LedgerInv
    <2>1. ASSUME Init
          PROVE  PollerTypeOK
      <3>1. /\ Base \in Base..MaxInterval /\ 0 \in 0..MaxFailures
            /\ 0 \in 0..MaxStops /\ 0 \in 0..MaxFaults
        BY PollerAssumption
      <3>2. \A r \in Refresh : r \in Call
        BY DEF Call
      <3> QED
        BY <2>1, <3>1, <3>2 DEF Init, PollerInit, PollerTypeOK
    <2>2. ASSUME Init
          PROVE  AnswersTyped /\ DeletionsTyped /\ UploadsTyped /\ PanelTyped
      BY <2>2, LedgerAssumption
      DEF Init, AnswersTyped, DeletionsTyped, UploadsTyped, PanelTyped
    <2>3. ASSUME Init
          PROVE  RowsTyped
      BY <2>3, EmptySeq DEF Init, RowsTyped
    <2>4. ASSUME Init
          PROVE  CountsTyped
      BY <2>4, LedgerAssumption DEF Init, CountsTyped
    <2> QED
      BY <2>1, <2>2, <2>3, <2>4 DEF LedgerInv
  <1>2. ASSUME LedgerInv, [Next]_vars
        PROVE  LedgerInv'
    <2>1. PollerTypeOK'
      BY <1>2, LedgerStep, LoopTypeStep DEF LedgerInv
    <2> QED
      BY <1>2, <2>1, AnswersStep, RowsStep, DeletionsStep, UploadsStep, PanelStep,
         CountsStep
      DEF LedgerInv
  <1>3. LedgerInv /\ [Next]_vars => LedgerInv'
    BY <1>2
  <1> QED
    BY <1>1, <1>3, PTL DEF Spec

\* LedgerTyped: the ledger's rows, requests and states stay within their types, lists
\* of the server, rollbacks and records of uploads included, for all numbers of files,
\* requests and failures.
THEOREM LedgerTyped == Spec => []TypeOK
  <1>1. LedgerInv => TypeOK
    <2>1. ASSUME LedgerInv
          PROVE  totalFiles \in Nat
      BY <2>1, LenProperties DEF LedgerInv, RowsTyped
    <2>2. ASSUME LedgerInv, NEW u \in Upload
          PROVE  upload[u] = None \/ upload[u].file \in File
      BY <2>2 DEF LedgerInv, UploadsTyped
    <2> QED
      BY <2>1, <2>2
      DEF LedgerInv, TypeOK, AnswersTyped, RowsTyped, DeletionsTyped, PanelTyped,
          CountsTyped
  <1> QED
    BY <1>1, LedgerInvariant, PTL

\* TotalsMatch: whatever rows are taken out before an answer, put back after one or
\* replaced as a whole in between, the total shown is the number of rows.
THEOREM TotalsMatch == Spec => []TotalMatchesRows
  <1>1. LedgerInv => TotalMatchesRows
    BY DEF LedgerInv, RowsTyped, TotalMatchesRows
  <1> QED
    BY <1>1, LedgerInvariant, PTL

=============================================================================
