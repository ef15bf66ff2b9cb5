--------------------------- MODULE AccountsProofs ---------------------------
(***************************************************************************)
(* Theorems about RateLimiter and Accounts for any number of nodes,        *)
(* sources, users, roles and sessions and any settings.                    *)
(***************************************************************************)
EXTENDS Accounts, TLAPS, FiniteSetTheorems

-----------------------------------------------------------------------------
(***************************************************************************)
(* The limiter.  Its list may have dropped failures, but only such as lie  *)
(* before every window that is still to come (Forgotten): it prunes what   *)
(* is older than a window, and it forgets everything only after a lockout, *)
(* by when all of it is as old, provided a cooldown is not shorter than a  *)
(* window.  So a failure finds in the list exactly the failures of its own *)
(* window, and locks when they are enough.  A lockout is always that of    *)
(* the last failure (LockedByLast), because no failure is recorded during  *)
(* a lockout (NotLockedInCheck); without one no cooldown is running        *)
(* (NoneRuns).                                                             *)
(***************************************************************************)
\* The limiter's tables keep their types.
LEMMA LimiterTyped == LimiterSpec => []LimiterTypeOK
<1> USE LimiterAssumption
<1>1. LimiterInit => LimiterTypeOK
  BY DEF LimiterInit, LimiterTypeOK
<1>2. LimiterTypeOK /\ [LimiterNext]_limiterVars => LimiterTypeOK'
  <2> SUFFICES ASSUME LimiterTypeOK, [LimiterNext]_limiterVars PROVE LimiterTypeOK'
    OBVIOUS
  <2>1. CASE UNCHANGED limiterVars
    BY <2>1 DEF limiterVars, LimiterTypeOK
  <2>2. ASSUME NEW n \in Node, NEW k \in Source, IsRateLimited(n, k) PROVE LimiterTypeOK'
    BY <2>2 DEF IsRateLimited, Recent, LimiterTypeOK
  <2>3. ASSUME NEW n \in Node, RecordFailedAttempt(n) PROVE LimiterTypeOK'
    <3> DEFINE k == busy[n]
               existing == Recent(n, k) \cup {Len(failures[n][k]) + 1}
    <3>1. k \in Source /\ now \in 0..MaxTime /\ failures[n][k] \in Seq(0..MaxTime)
      BY <2>3 DEF RecordFailedAttempt, LimiterTypeOK
    <3>2. /\ Len(failures[n][k]) \in Nat
          /\ Append(failures[n][k], now) \in Seq(0..MaxTime)
          /\ Len(Append(failures[n][k], now)) = Len(failures[n][k]) + 1
      BY <3>1
    <3>3. existing \subseteq 1..(Len(failures[n][k]) + 1)
      BY <3>1, <3>2 DEF Recent, LimiterTypeOK
    <3>4. /\ now' = now
          /\ busy' = [busy EXCEPT ![n] = None]
          /\ failures' = [failures EXCEPT ![n][k] = Append(failures[n][k], now)]
          /\ attempts' = [attempts EXCEPT ![n][k] = existing]
          /\ lockouts' = [lockouts EXCEPT ![n][k] =
                IF Cardinality(existing) >= MaxAttempts THEN now + Cooldown ELSE lockouts[n][k]]
      BY <2>3, <3>1 DEF RecordFailedAttempt, LimiterTypeOK
    <3> HIDE DEF k, existing
    <3>5. now' \in 0..MaxTime /\ busy' \in [Node -> Source \cup {None}]
      BY <3>4 DEF LimiterTypeOK
    <3>6. failures' \in [Node -> [Source -> Seq(0..MaxTime)]]
      BY <3>1, <3>2, <3>4 DEF LimiterTypeOK
    <3>7. lockouts' \in [Node -> [Source -> Nat \cup {None}]]
      BY <3>1, <3>4 DEF LimiterTypeOK
    <3>8. ASSUME NEW m \in Node, NEW q \in Source
          PROVE  attempts'[m][q] \subseteq 1..Len(failures'[m][q])
      <4>1. CASE m = n /\ q = k
        BY <4>1, <3>1, <3>2, <3>3, <3>4 DEF LimiterTypeOK
      <4>2. CASE ~ (m = n /\ q = k)
        <5>1. attempts'[m][q] = attempts[m][q] /\ failures'[m][q] = failures[m][q]
          BY <4>2, <3>1, <3>4 DEF LimiterTypeOK
        <5> QED
          BY <5>1 DEF LimiterTypeOK
      <4> QED
        BY <4>1, <4>2
    <3>9. DOMAIN attempts' = Node /\ \A m \in Node : DOMAIN attempts'[m] = Source
      BY <3>4 DEF LimiterTypeOK
    <3> QED
      BY <3>5, <3>6, <3>7, <3>8, <3>9 DEF LimiterTypeOK
  <2>4. ASSUME NEW n \in Node, RecordSuccessfulAttempt(n) PROVE LimiterTypeOK'
    BY <2>4 DEF RecordSuccessfulAttempt, LimiterTypeOK
  <2>5. ASSUME NEW n \in Node, RecordNothing(n) PROVE LimiterTypeOK'
    BY <2>5 DEF RecordNothing, LimiterTypeOK
  <2>6. ASSUME NEW n \in Node, ForgetAttempts(n) PROVE LimiterTypeOK'
    BY <2>6 DEF ForgetAttempts, LimiterTypeOK
  <2>7. CASE ClockTicks
    BY <2>7 DEF ClockTicks, LimiterTypeOK
  <2> QED
    BY <2>1, <2>2, <2>3, <2>4, <2>5, <2>6, <2>7 DEF LimiterNext
<1> QED
  BY <1>1, <1>2, PTL DEF LimiterSpec

\* The failures of a source lie in the past and in order ...
InOrder(n, k) ==
    \A i \in 1..Len(failures[n][k]) :
        /\ failures[n][k][i] <= now
        /\ \A j \in 1..i : failures[n][k][j] <= failures[n][k][i]

\* ... and those the list does not hold any more before every window to come.
Forgotten(n, k) ==
    \A i \in 1..Len(failures[n][k]) :
        i \notin attempts[n][k] => failures[n][k][i] <= now - Window

LockedByLast(n, k) ==
    lockouts[n][k] # None =>
        LET last == Len(failures[n][k])
        IN  /\ last > 0
            /\ lockouts[n][k] = failures[n][k][last] + Cooldown
            /\ Cardinality(InWindow(n, k, last)) >= MaxAttempts

NoneRuns(n, k) ==
    lockouts[n][k] = None =>
        /\ Cardinality(attempts[n][k]) < MaxAttempts
        /\ \A i \in 1..Len(failures[n][k]) :
              now < failures[n][k][i] + Cooldown
                 => Cardinality(InWindow(n, k, i)) < MaxAttempts

NotLockedInCheck(n, k) == busy[n] = k => lockouts[n][k] = None

AtMostMax(n, k) ==
    \A i \in 1..Len(failures[n][k]) : Cardinality(InWindow(n, k, i)) <= MaxAttempts

SourceInv(n, k) ==
    /\ InOrder(n, k)
    /\ Forgotten(n, k)
    /\ LockedByLast(n, k)
    /\ NoneRuns(n, k)
    /\ NotLockedInCheck(n, k)
    /\ AtMostMax(n, k)

LimiterInv == \A n \in Node, k \in Source : SourceInv(n, k)

\* A step that leaves the limiter's entries for a source alone, the clock stopped.
LEMMA SourceLeftAlone ==
  ASSUME NEW n \in Node, NEW k \in Source, SourceInv(n, k), now' = now,
         failures'[n][k] = failures[n][k], attempts'[n][k] = attempts[n][k],
         lockouts'[n][k] = lockouts[n][k], busy'[n] = busy[n] \/ busy'[n] # k
  PROVE  SourceInv(n, k)'
BY DEF SourceInv, InOrder, Forgotten, LockedByLast, NoneRuns, NotLockedInCheck, AtMostMax,
       InWindow

\* A step after which nothing is known of a source: a success or a restart.
LEMMA SourceForgotten ==
  ASSUME NEW n \in Node, NEW k \in Source, failures'[n][k] = <<>>, attempts'[n][k] = {},
         lockouts'[n][k] = None
  PROVE  SourceInv(n, k)'
<1>1. Cardinality({}) = 0
  BY FS_EmptySet
<1> QED
  BY <1>1, LimiterAssumption
  DEF SourceInv, InOrder, Forgotten, LockedByLast, NoneRuns, NotLockedInCheck, AtMostMax

\* The list, and every part of it, is finite.
LEMMA ListFinite ==
  ASSUME LimiterTypeOK, NEW n \in Node, NEW k \in Source, NEW S, S \subseteq attempts[n][k]
  PROVE  /\ IsFiniteSet(S)
         /\ Cardinality(S) \in Nat
         /\ IsFiniteSet(attempts[n][k])
         /\ Cardinality(S) <= Cardinality(attempts[n][k])
<1>1. ASSUME NEW b \in Nat PROVE IsFiniteSet(1..b)
  BY FS_Interval
<1>2. IsFiniteSet(1..Len(failures[n][k]))
  BY <1>1 DEF LimiterTypeOK
<1>3. IsFiniteSet(attempts[n][k])
  BY <1>2, FS_Subset DEF LimiterTypeOK
<1> QED
  BY <1>3, FS_Subset, FS_CardinalityType

\* is_rate_limited on source k, without the source being locked out.
LEMMA CheckKeeps ==
  ASSUME Cooldown >= Window, LimiterTypeOK, NEW n \in Node, NEW k \in Source,
         SourceInv(n, k), IsRateLimited(n, k)
  PROVE  SourceInv(n, k)'
<1> USE LimiterAssumption
<1> DEFINE kept == IF lockouts[n][k] = None THEN Recent(n, k) ELSE {}
<1>1. kept \subseteq attempts[n][k]
  BY DEF Recent
<1>2. Cardinality(kept) < MaxAttempts /\ Cardinality(kept) \in Nat
  <2>1. CASE lockouts[n][k] = None
    BY <2>1, <1>1, ListFinite DEF SourceInv, NoneRuns
  <2>2. CASE lockouts[n][k] # None
    BY <2>2, FS_EmptySet
  <2> QED
    BY <2>1, <2>2
<1>3. /\ now' = now
      /\ failures' = failures
      /\ attempts'[n][k] = kept
      /\ lockouts'[n][k] = None
  <2>1. ~ (Cardinality(kept) >= MaxAttempts)
    BY <1>2
  <2> QED
    BY <2>1 DEF IsRateLimited, LimiterTypeOK
<1>4. failures[n][k] \in Seq(0..MaxTime) /\ now \in Nat
  BY DEF LimiterTypeOK
<1>5. ASSUME lockouts[n][k] # None, NEW i \in 1..Len(failures[n][k])
      PROVE  failures[n][k][i] + Cooldown <= now
  <2> DEFINE last == Len(failures[n][k])
  <2>1. lockouts[n][k] = failures[n][k][last] + Cooldown /\ last > 0
    BY <1>5 DEF SourceInv, LockedByLast
  <2>2. failures[n][k][i] <= failures[n][k][last]
    BY <2>1, <1>4, <1>5 DEF SourceInv, InOrder
  <2>3. lockouts[n][k] <= now
    BY <1>5, <2>1, <1>4 DEF IsRateLimited, Locked
  <2> QED
    BY <2>1, <2>2, <2>3, <1>4
<1>6. Forgotten(n, k)'
  <2> SUFFICES ASSUME NEW i \in 1..Len(failures[n][k]), i \notin kept
               PROVE  failures[n][k][i] <= now - Window
    BY <1>3 DEF Forgotten
  <2>1. CASE lockouts[n][k] = None
    BY <2>1, <1>4 DEF Recent, SourceInv, Forgotten
  <2>2. CASE lockouts[n][k] # None
    BY <2>2, <1>5, <1>4
  <2> QED
    BY <2>1, <2>2
<1>7. NoneRuns(n, k)'
  <2> SUFFICES ASSUME NEW i \in 1..Len(failures[n][k]), now < failures[n][k][i] + Cooldown
               PROVE  Cardinality(InWindow(n, k, i)) < MaxAttempts
    BY <1>2, <1>3 DEF NoneRuns, InWindow
  <2>1. lockouts[n][k] = None
    BY <1>5, <1>4
  <2> QED
    BY <2>1 DEF SourceInv, NoneRuns
<1> QED
  BY <1>3, <1>6, <1>7
  DEF SourceInv, InOrder, LockedByLast, NotLockedInCheck, AtMostMax, InWindow

\* The positions of a sequence that grew by one.
LEMMA IntervalGrows ==
  ASSUME NEW m \in Nat
  PROVE  m + 1 \in 1..(m + 1) /\ 1..(m + 1) = 1..m \cup {m + 1}
OBVIOUS

\* Appending the time t to the failures F adds the window that ends at t and
\* changes no other.
WindowOf(F, i) == {j \in 1..i : F[j] > F[i] - Window}

LEMMA WindowGrows ==
  ASSUME NEW F \in Seq(Nat), NEW t \in Nat, NEW last, last = Len(F) + 1
  PROVE  /\ WindowOf(Append(F, t), last) = {j \in 1..Len(F) : F[j] > t - Window} \cup {last}
         /\ \A i \in 1..Len(F) : WindowOf(Append(F, t), i) = WindowOf(F, i)
<1> USE LimiterAssumption
<1> DEFINE G == Append(F, t)
<1>1. G[last] = t /\ \A i \in 1..Len(F) : G[i] = F[i]
  OBVIOUS
<1>2. Len(F) \in Nat
  OBVIOUS
<1>3. 1..last = 1..Len(F) \cup {last}
  BY <1>2, IntervalGrows
<1>4. last \notin 1..Len(F)
  BY <1>2
<1>5. t > t - Window
  OBVIOUS
<1> HIDE DEF G
<1>6. WindowOf(G, last) = {j \in 1..Len(F) : F[j] > t - Window} \cup {last}
  <2>1. WindowOf(G, last) = {j \in 1..last : G[j] > t - Window}
    BY <1>1 DEF WindowOf
  <2>2. ASSUME NEW j \in 1..Len(F) PROVE G[j] > t - Window <=> F[j] > t - Window
    BY <1>1
  <2>3. G[last] > t - Window
    BY <1>1, <1>5
  <2> QED
    BY <2>1, <2>2, <2>3, <1>3, <1>4
<1>7. ASSUME NEW i \in 1..Len(F) PROVE WindowOf(G, i) = WindowOf(F, i)
  <2>1. 1..i \subseteq 1..Len(F)
    BY <1>2
  <2> QED
    BY <2>1, <1>1 DEF WindowOf
<1> QED
  BY <1>6, <1>7 DEF G

\* record_failed_attempt for source k finds in the list exactly the failures of
\* the window that ends now.
LEMMA FailureKeeps ==
  ASSUME LimiterTypeOK, NEW n \in Node, NEW k \in Source, busy[n] = k,
         SourceInv(n, k), RecordFailedAttempt(n)
  PROVE  SourceInv(n, k)'
<1> USE LimiterAssumption
<1> DEFINE F == failures[n][k]
           G == failures'[n][k]
           last == Len(F) + 1
           existing == Recent(n, k) \cup {last}
           locks == Cardinality(existing) >= MaxAttempts
<1>1. F \in Seq(Nat) /\ now \in Nat /\ attempts[n][k] \subseteq 1..Len(F)
  BY DEF LimiterTypeOK
<1>2. /\ now' = now
      /\ G = Append(F, now)
      /\ attempts'[n][k] = existing
      /\ lockouts'[n][k] = IF locks THEN now + Cooldown ELSE None
      /\ busy'[n] = None
  BY DEF RecordFailedAttempt, LimiterTypeOK, SourceInv, NotLockedInCheck
<1>3. /\ Len(G) = last
      /\ G[last] = now
      /\ \A i \in 1..Len(F) : G[i] = F[i]
  BY <1>1, <1>2
<1>4. Len(F) \in Nat /\ last \in Nat /\ last > 0 /\ \A i \in 1..Len(F) : F[i] \in Nat
  <2>1. Len(F) \in Nat /\ \A i \in 1..Len(F) : F[i] \in Nat
    BY <1>1
  <2> QED
    BY <2>1
<1>5. last \in 1..last /\ 1..last = 1..Len(F) \cup {last}
  BY <1>4, IntervalGrows
<1>6. Recent(n, k) = {j \in 1..Len(F) : F[j] > now - Window}
  <2>1. ASSUME NEW j \in 1..Len(F), F[j] > now - Window PROVE j \in attempts[n][k]
    BY <2>1, <1>1, <1>4 DEF SourceInv, Forgotten
  <2> QED
    BY <2>1, <1>1 DEF Recent
<1>7. /\ WindowOf(G, last) = existing
      /\ \A i : InWindow(n, k, i) = WindowOf(F, i)
      /\ \A i \in 1..Len(F) : WindowOf(G, i) = WindowOf(F, i)
  <2>1. \A i : InWindow(n, k, i) = WindowOf(F, i)
    BY DEF InWindow, WindowOf
  <2>2. /\ WindowOf(G, last) = {j \in 1..Len(F) : F[j] > now - Window} \cup {last}
        /\ \A i \in 1..Len(F) : WindowOf(G, i) = WindowOf(F, i)
    BY <1>1, <1>2, WindowGrows
  <2> QED
    BY <2>1, <2>2, <1>6
<1>8. Cardinality(existing) \in Nat /\ Cardinality(existing) <= MaxAttempts
  <2>1. Recent(n, k) \subseteq attempts[n][k]
    BY DEF Recent
  <2>2. Cardinality(attempts[n][k]) < MaxAttempts
    BY DEF SourceInv, NotLockedInCheck, NoneRuns
  <2>3. /\ IsFiniteSet(Recent(n, k))
        /\ Cardinality(Recent(n, k)) \in Nat
        /\ Cardinality(Recent(n, k)) <= Cardinality(attempts[n][k])
    BY <2>1, ListFinite
  <2>4. Cardinality(attempts[n][k]) \in Nat
    BY ListFinite
  <2>5. Cardinality(existing) = IF last \in Recent(n, k) THEN Cardinality(Recent(n, k))
                                ELSE Cardinality(Recent(n, k)) + 1
    BY <2>3, FS_AddElement
  <2> HIDE DEF existing, last
  <2> QED
    BY <2>2, <2>3, <2>4, <2>5
<1>9. \A i \in 1..Len(F) :
        /\ F[i] <= now
        /\ \A j \in 1..i : F[j] <= F[i]
        /\ i \notin attempts[n][k] => F[i] <= now - Window
  BY DEF SourceInv, InOrder, Forgotten
<1> HIDE DEF F, last, existing
<1>10. InOrder(n, k)'
  <2> SUFFICES ASSUME NEW i \in 1..last
               PROVE  G[i] <= now /\ \A j \in 1..i : G[j] <= G[i]
    BY <1>2, <1>3 DEF InOrder
  <2>1. \A j \in 1..last : G[j] <= now
    <3>1. ASSUME NEW j \in 1..Len(F) PROVE G[j] <= now
      BY <1>3, <1>9
    <3>2. G[last] <= now
      BY <1>3, <1>1
    <3> QED
      BY <3>1, <3>2, <1>5
  <2>2. CASE i = last
    BY <2>1, <2>2, <1>3
  <2>3. CASE i \in 1..Len(F)
    <3>1. 1..i \subseteq 1..Len(F)
      BY <2>3, <1>4
    <3> QED
      BY <2>1, <2>3, <3>1, <1>3, <1>9
  <2> QED
    BY <2>2, <2>3, <1>5
<1>11. Forgotten(n, k)'
  <2> SUFFICES ASSUME NEW i \in 1..last, i \notin existing
               PROVE  G[i] <= now - Window
    BY <1>2, <1>3 DEF Forgotten
  <2>1. i \in 1..Len(F)
    BY <1>5 DEF existing
  <2>2. ~ (F[i] > now - Window)
    BY <2>1, <1>6 DEF existing
  <2> QED
    BY <2>1, <2>2, <1>1, <1>3, <1>4
<1>12. LockedByLast(n, k)'
  <2> SUFFICES ASSUME lockouts'[n][k] # None
               PROVE  /\ last > 0
                      /\ lockouts'[n][k] = G[last] + Cooldown
                      /\ Cardinality(WindowOf(G, last)) >= MaxAttempts
    BY <1>3 DEF LockedByLast, InWindow, WindowOf
  <2>1. locks
    BY <1>2
  <2> QED
    BY <2>1, <1>2, <1>3, <1>4, <1>7
<1>13. NoneRuns(n, k)'
  <2> SUFFICES ASSUME ~ locks
               PROVE  /\ Cardinality(existing) < MaxAttempts
                      /\ \A i \in 1..last : now < G[i] + Cooldown
                            => Cardinality(WindowOf(G, i)) < MaxAttempts
    <3>1. now + Cooldown # None
      BY <1>1
    <3> QED
      BY <1>2, <1>3, <3>1 DEF NoneRuns, InWindow, WindowOf
  <2>1. Cardinality(existing) < MaxAttempts
    BY <1>8
  <2>2. ASSUME NEW i \in 1..Len(F), now < G[i] + Cooldown
        PROVE  Cardinality(WindowOf(G, i)) < MaxAttempts
    <3>1. now < F[i] + Cooldown
      BY <2>2, <1>3
    <3>2. Cardinality(InWindow(n, k, i)) < MaxAttempts
      BY <3>1 DEF F, SourceInv, NotLockedInCheck, NoneRuns
    <3> QED
      BY <3>2, <1>7
  <2> QED
    BY <2>1, <2>2, <1>5, <1>7
<1>14. NotLockedInCheck(n, k)'
  BY <1>2 DEF NotLockedInCheck
<1>15. AtMostMax(n, k)'
  <2> SUFFICES ASSUME NEW i \in 1..last
               PROVE  Cardinality(WindowOf(G, i)) <= MaxAttempts
    BY <1>3 DEF AtMostMax, InWindow, WindowOf
  <2>1. ASSUME NEW j \in 1..Len(F) PROVE Cardinality(WindowOf(G, j)) <= MaxAttempts
    BY <1>7 DEF F, SourceInv, AtMostMax
  <2>2. Cardinality(WindowOf(G, last)) <= MaxAttempts
    BY <1>7, <1>8
  <2> QED
    BY <2>1, <2>2, <1>5
<1> QED
  BY <1>10, <1>11, <1>12, <1>13, <1>14, <1>15 DEF SourceInv

\* Time passing moves failures out of windows to come and cooldowns to their end.
LEMMA TickKeeps ==
  ASSUME LimiterTypeOK, NEW n \in Node, NEW k \in Source, SourceInv(n, k), ClockTicks
  PROVE  SourceInv(n, k)'
<1> USE LimiterAssumption
<1>1. /\ now' = now + 1
      /\ now \in Nat
      /\ UNCHANGED <<busy, attempts, lockouts, failures>>
      /\ \A i \in 1..Len(failures[n][k]) : failures[n][k][i] \in Nat
  BY DEF ClockTicks, LimiterTypeOK
<1>2. InOrder(n, k)'
  <2>1. ASSUME NEW i \in 1..Len(failures[n][k])
        PROVE  /\ failures[n][k][i] <= now
               /\ \A j \in 1..i : failures[n][k][j] <= failures[n][k][i]
    BY DEF SourceInv, InOrder
  <2>2. ASSUME NEW i \in 1..Len(failures[n][k]) PROVE failures[n][k][i] <= now + 1
    BY <2>1, <1>1
  <2> QED
    BY <2>1, <2>2, <1>1 DEF InOrder
<1>3. Forgotten(n, k)'
  <2> SUFFICES ASSUME NEW i \in 1..Len(failures[n][k]), i \notin attempts[n][k]
               PROVE  failures[n][k][i] <= now + 1 - Window
    BY <1>1 DEF Forgotten
  <2>1. failures[n][k][i] <= now - Window
    BY DEF SourceInv, Forgotten
  <2> QED
    BY <2>1, <1>1
<1>4. NoneRuns(n, k)'
  <2>1. \A i : InWindow(n, k, i)' = InWindow(n, k, i)
    BY <1>1 DEF InWindow
  <2>2. ASSUME NEW i \in 1..Len(failures[n][k]), now + 1 < failures[n][k][i] + Cooldown
        PROVE  now < failures[n][k][i] + Cooldown
    BY <2>2, <1>1
  <2> QED
    BY <1>1, <2>1, <2>2 DEF SourceInv, NoneRuns
<1>5. LockedByLast(n, k)' /\ NotLockedInCheck(n, k)' /\ AtMostMax(n, k)'
  BY <1>1 DEF SourceInv, LockedByLast, NotLockedInCheck, AtMostMax, InWindow
<1> QED
  BY <1>2, <1>3, <1>4, <1>5 DEF SourceInv

\* Every step of the limiter keeps the invariant of every source.
LEMMA LimiterStep ==
  ASSUME Cooldown >= Window, LimiterTypeOK, LimiterInv, [LimiterNext]_limiterVars
  PROVE  LimiterInv'
<1> SUFFICES ASSUME NEW n \in Node, NEW k \in Source PROVE SourceInv(n, k)'
  BY DEF LimiterInv
<1> USE DEF LimiterTypeOK
<1>1. SourceInv(n, k)
  BY DEF LimiterInv
<1>2. CASE UNCHANGED limiterVars
  BY <1>1, <1>2, SourceLeftAlone DEF limiterVars
<1>3. ASSUME NEW m \in Node, NEW q \in Source, IsRateLimited(m, q) PROVE SourceInv(n, k)'
  <2>1. CASE m = n /\ q = k
    BY <2>1, <1>1, <1>3, CheckKeeps
  <2>2. CASE ~ (m = n /\ q = k)
    <3>1. /\ now' = now
          /\ failures'[n][k] = failures[n][k]
          /\ attempts'[n][k] = attempts[n][k]
          /\ lockouts'[n][k] = lockouts[n][k]
          /\ busy'[n] = busy[n] \/ busy'[n] # k
      BY <2>2, <1>3, LimiterAssumption DEF IsRateLimited
    <3> QED
      BY <3>1, <1>1, SourceLeftAlone
  <2> QED
    BY <2>1, <2>2
<1>4. ASSUME NEW m \in Node, RecordFailedAttempt(m) PROVE SourceInv(n, k)'
  <2>1. CASE m = n /\ busy[n] = k
    BY <2>1, <1>1, <1>4, FailureKeeps
  <2>2. CASE ~ (m = n /\ busy[n] = k)
    <3>1. /\ now' = now
          /\ failures'[n][k] = failures[n][k]
          /\ attempts'[n][k] = attempts[n][k]
          /\ lockouts'[n][k] = lockouts[n][k]
          /\ busy'[n] = busy[n] \/ busy'[n] # k
      BY <2>2, <1>4, LimiterAssumption DEF RecordFailedAttempt
    <3> QED
      BY <3>1, <1>1, SourceLeftAlone
  <2> QED
    BY <2>1, <2>2
<1>5. ASSUME NEW m \in Node, RecordSuccessfulAttempt(m) PROVE SourceInv(n, k)'
  <2>1. CASE m = n /\ busy[n] = k
    BY <2>1, <1>5, SourceForgotten DEF RecordSuccessfulAttempt
  <2>2. CASE ~ (m = n /\ busy[n] = k)
    <3>1. /\ now' = now
          /\ failures'[n][k] = failures[n][k]
          /\ attempts'[n][k] = attempts[n][k]
          /\ lockouts'[n][k] = lockouts[n][k]
          /\ busy'[n] = busy[n] \/ busy'[n] # k
      BY <2>2, <1>5, LimiterAssumption DEF RecordSuccessfulAttempt
    <3> QED
      BY <3>1, <1>1, SourceLeftAlone
  <2> QED
    BY <2>1, <2>2
<1>6. ASSUME NEW m \in Node, RecordNothing(m) PROVE SourceInv(n, k)'
  <2>1. busy'[n] = busy[n] \/ busy'[n] # k
    BY <1>6, LimiterAssumption DEF RecordNothing
  <2> QED
    BY <2>1, <1>1, <1>6, SourceLeftAlone DEF RecordNothing
<1>7. ASSUME NEW m \in Node, ForgetAttempts(m) PROVE SourceInv(n, k)'
  <2>1. CASE m = n
    BY <2>1, <1>7, SourceForgotten DEF ForgetAttempts
  <2>2. CASE m # n
    BY <2>2, <1>1, <1>7, SourceLeftAlone DEF ForgetAttempts
  <2> QED
    BY <2>1, <2>2
<1>8. CASE ClockTicks
  BY <1>1, <1>8, TickKeeps
<1> QED
  BY <1>2, <1>3, <1>4, <1>5, <1>6, <1>7, <1>8 DEF LimiterNext

\* A limiter that knows nothing satisfies the invariant.
LEMMA LimiterStarts == LimiterInit => LimiterInv
<1> SUFFICES ASSUME LimiterInit, NEW n \in Node, NEW k \in Source PROVE SourceInv(n, k)
  BY DEF LimiterInv
<1>1. Cardinality({}) = 0
  BY FS_EmptySet
<1> QED
  BY <1>1, LimiterAssumption
  DEF LimiterInit, SourceInv, InOrder, Forgotten, LockedByLast, NoneRuns, NotLockedInCheck,
      AtMostMax

\* A lockout that is on is that of the last failure; one that is over was the
\* last to run; without one none runs.
LEMMA LimiterExact == LimiterTypeOK /\ LimiterInv => LockoutIsExact
<1> SUFFICES ASSUME LimiterTypeOK, NEW n \in Node, NEW k \in Source, SourceInv(n, k)
             PROVE  Locked(n, k) <=>
                       \E i \in 1..Len(failures[n][k]) :
                           /\ now < failures[n][k][i] + Cooldown
                           /\ Cardinality(InWindow(n, k, i)) >= MaxAttempts
  BY DEF LimiterInv, LockoutIsExact
<1> USE LimiterAssumption
<1> DEFINE F == failures[n][k]
           last == Len(F)
<1>1. now \in Nat /\ last \in Nat /\ \A i \in 1..last : F[i] \in Nat
  BY DEF LimiterTypeOK
<1>2. CASE lockouts[n][k] = None
  <2>1. ASSUME NEW i \in 1..last, now < F[i] + Cooldown
        PROVE  ~ (Cardinality(InWindow(n, k, i)) >= MaxAttempts)
    <3>1. Cardinality(InWindow(n, k, i)) < MaxAttempts
      BY <1>2, <2>1 DEF SourceInv, NoneRuns
    <3>2. Cardinality(InWindow(n, k, i)) \in Nat
      <4>1. ASSUME NEW b \in Nat PROVE IsFiniteSet(1..b)
        BY FS_Interval
      <4>2. IsFiniteSet(1..i)
        BY <4>1, <1>1
      <4>3. InWindow(n, k, i) \subseteq 1..i
        BY DEF InWindow
      <4> QED
        BY <4>2, <4>3, FS_Subset, FS_CardinalityType
    <3> QED
      BY <3>1, <3>2
  <2> QED
    BY <1>2, <2>1 DEF Locked
<1>3. CASE lockouts[n][k] # None
  <2>1. /\ last > 0
        /\ lockouts[n][k] = F[last] + Cooldown
        /\ Cardinality(InWindow(n, k, last)) >= MaxAttempts
    BY <1>3 DEF SourceInv, LockedByLast
  <2>2. last \in 1..last
    BY <2>1, <1>1
  <2>3. ASSUME NEW i \in 1..last PROVE F[i] <= F[last]
    BY <2>2, <2>3 DEF SourceInv, InOrder
  <2>4. Locked(n, k) <=> now < F[last] + Cooldown
    BY <1>3, <2>1 DEF Locked
  <2>5. ASSUME NEW i \in 1..last, now < F[i] + Cooldown PROVE now < F[last] + Cooldown
    <3>1. F[i] <= F[last] /\ F[i] \in Nat /\ F[last] \in Nat
      BY <2>2, <2>3, <1>1
    <3> HIDE DEF F, last
    <3> QED
      BY <2>5, <3>1, <1>1
  <2> QED
    BY <2>1, <2>2, <2>4, <2>5
<1> QED
  BY <1>2, <1>3

\* The bound on failures is a part of the invariant.
LEMMA LimiterBounded == LimiterInv => FailuresBounded
BY DEF LimiterInv, SourceInv, AtMostMax, FailuresBounded

\* The limiter's types and invariant hold in every behaviour.
LEMMA LimiterInvariant ==
  ASSUME Cooldown >= Window
  PROVE  LimiterSpec => [](LimiterTypeOK /\ LimiterInv)
<1>1. LimiterTypeOK /\ LimiterInv /\ [LimiterNext]_limiterVars => LimiterInv'
  BY LimiterStep
<1> QED
  BY <1>1, LimiterStarts, LimiterTyped, PTL DEF LimiterSpec

-----------------------------------------------------------------------------
(***************************************************************************)
(* Accounts.  Every action is a step of the limiter or leaves it alone.    *)
(***************************************************************************)
LEMMA AccountsUseLimiter == Spec => LimiterSpec
<1>1. Init => LimiterInit
  BY DEF Init
<1>2. [Next]_vars => [LimiterNext]_limiterVars
  <2> SUFFICES ASSUME [Next]_vars PROVE LimiterNext \/ UNCHANGED limiterVars
    OBVIOUS
  <2>1. CASE UNCHANGED vars
    BY <2>1 DEF vars
  <2>2. ASSUME NEW n \in Node, NEW k \in Source, LoginBegins(n, k)
        PROVE  LimiterNext \/ UNCHANGED limiterVars
    BY <2>2 DEF LoginBegins, LimiterNext
  <2>3. ASSUME NEW n \in Node, LoginFails(n) PROVE LimiterNext \/ UNCHANGED limiterVars
    BY <2>3 DEF LoginFails, LimiterNext
  <2>4. ASSUME NEW n \in Node, LoginDisabled(n) PROVE LimiterNext \/ UNCHANGED limiterVars
    BY <2>4 DEF LoginDisabled, LimiterNext
  <2>5. ASSUME NEW n \in Node, NEW u \in User, LoginSucceeds(n, u)
        PROVE  LimiterNext \/ UNCHANGED limiterVars
    BY <2>5 DEF LoginSucceeds, LimiterNext
  <2>6. ASSUME NEW s \in sessions, RefreshAccessToken(s)
        PROVE  LimiterNext \/ UNCHANGED limiterVars
    BY <2>6 DEF RefreshAccessToken
  <2>7. ASSUME NEW n \in Node, NEW u \in User, NEW account \in Account,
               CreateUserAccount(n, u, account)
        PROVE  LimiterNext \/ UNCHANGED limiterVars
    BY <2>7 DEF CreateUserAccount, Store
  <2>8. ASSUME NEW n \in Node, NEW u \in User, NEW role \in Role, ChangeUserRole(n, u, role)
        PROVE  LimiterNext \/ UNCHANGED limiterVars
    BY <2>8 DEF ChangeUserRole, Store
  <2>9. ASSUME NEW n \in Node, NEW u \in User, NEW active \in BOOLEAN,
               SetUserActiveStatus(n, u, active)
        PROVE  LimiterNext \/ UNCHANGED limiterVars
    BY <2>9 DEF SetUserActiveStatus, Store
  <2>10. ASSUME NEW n \in Node, Restart(n) PROVE LimiterNext \/ UNCHANGED limiterVars
    BY <2>10 DEF Restart, LimiterNext
  <2>11. CASE Tick
    BY <2>11 DEF Tick, LimiterNext
  <2> QED
    BY <2>1, <2>2, <2>3, <2>4, <2>5, <2>6, <2>7, <2>8, <2>9, <2>10, <2>11 DEF Next
<1> QED
  BY <1>1, <1>2, PTL DEF Spec, LimiterSpec

\* LockoutExact: for any number of nodes and sources and any limits, when the
\* cooldown is not shorter than the window (both default to 60 seconds), a source
\* is locked out of POST /auth/login exactly while the cooldown runs of a failure
\* that completed max_attempts within one window, whatever is pruned, forgotten
\* after a lockout, reset by a success or lost with the process.
THEOREM LockoutExact ==
  ASSUME Cooldown >= Window
  PROVE  Spec => []LockoutIsExact
BY LimiterInvariant, LimiterExact, AccountsUseLimiter, PTL

\* FailuresStayBounded: under the same condition no window holds more than
\* max_attempts failed password checks of a source since its last success.
THEOREM FailuresStayBounded ==
  ASSUME Cooldown >= Window
  PROVE  Spec => []FailuresBounded
BY LimiterInvariant, LimiterBounded, AccountsUseLimiter, PTL

-----------------------------------------------------------------------------
(***************************************************************************)
(* The users and their sessions.                                           *)
(***************************************************************************)
UsersTyped ==
    /\ users \in [Node -> [User -> Account \cup {None}]]
    /\ sessions \subseteq Session
    /\ \A s \in sessions : Exists(s.node, s.user)
    /\ changedAt \in [Node -> [User -> 0..MaxTime]]

\* Both tokens of a session are within their life, and say what the user may do
\* or were issued before the user was changed for the last time.
SessionHonest(s) ==
    /\ s.access <= now + TokenLife
    /\ s.refresh <= now + TokenLife
    /\ \/ users[s.node][s.user] = [role |-> s.role, active |-> TRUE]
       \/ /\ s.access <= changedAt[s.node][s.user] + TokenLife
          /\ s.refresh <= changedAt[s.node][s.user] + TokenLife

SessionInv == \A s \in sessions : SessionHonest(s)

\* The row that Store writes, with the session facts it keeps.
LEMMA StoreKeeps ==
  ASSUME LimiterTypeOK, UsersTyped, NEW n \in Node, NEW u \in User, NEW account \in Account,
         Store(n, u, account)
  PROVE  UsersTyped' /\ (SessionInv => SessionInv')
<1> USE AccountsAssumption, NoAccount, LimiterAssumption
<1>1. /\ now' = now /\ sessions' = sessions /\ now \in 0..MaxTime
      /\ users' = [users EXCEPT ![n][u] = account]
      /\ changedAt' = [changedAt EXCEPT ![n][u] =
            IF account = users[n][u] THEN changedAt[n][u] ELSE now]
  BY DEF Store, LimiterTypeOK, limiterVars, UsersTyped
<1>2. /\ users \in [Node -> [User -> Account \cup {None}]]
      /\ changedAt \in [Node -> [User -> 0..MaxTime]]
      /\ sessions \subseteq Session
      /\ \A s \in sessions : users[s.node][s.user] # None
  BY DEF UsersTyped, Exists
<1>3. users' \in [Node -> [User -> Account \cup {None}]]
  BY <1>1, <1>2
<1>4. changedAt' \in [Node -> [User -> 0..MaxTime]]
  BY <1>1, <1>2
<1>5. ASSUME NEW s \in sessions
      PROVE  /\ users'[s.node][s.user] =
                   IF s.node = n /\ s.user = u THEN account ELSE users[s.node][s.user]
             /\ changedAt'[s.node][s.user] =
                   IF s.node = n /\ s.user = u /\ account # users[n][u] THEN now
                   ELSE changedAt[s.node][s.user]
  BY <1>1, <1>2 DEF Session
<1>6. UsersTyped'
  <2>1. ASSUME NEW s \in sessions PROVE users'[s.node][s.user] # None
    BY <1>2, <1>5
  <2> QED
    BY <1>1, <1>2, <1>3, <1>4, <2>1 DEF UsersTyped, Exists
<1>7. ASSUME SessionInv, NEW s \in sessions PROVE SessionHonest(s)'
  <2>1. SessionHonest(s)
    BY <1>7 DEF SessionInv
  <2>2. CASE s.node = n /\ s.user = u /\ account # users[n][u]
    BY <2>1, <2>2, <1>1, <1>5 DEF SessionHonest, TokenLife
  <2>3. CASE ~ (s.node = n /\ s.user = u /\ account # users[n][u])
    BY <2>1, <2>3, <1>1, <1>5 DEF SessionHonest, TokenLife
  <2> QED
    BY <2>2, <2>3
<1> QED
  BY <1>1, <1>6, <1>7 DEF SessionInv

\* The session that a login or a refresh adds.
LEMMA IssueKeeps ==
  ASSUME LimiterTypeOK, UsersTyped, NEW n \in Node, NEW u \in User,
         Exists(n, u), users[n][u].active,
         sessions' = sessions \cup {LoginResponse(n, u)},
         now' = now, users' = users, changedAt' = changedAt
  PROVE  UsersTyped' /\ (SessionInv => SessionInv')
<1> USE AccountsAssumption, NoAccount, LimiterAssumption
<1> DEFINE s0 == LoginResponse(n, u)
<1>1. users[n][u] \in Account /\ now \in Nat
  BY DEF UsersTyped, Exists, LimiterTypeOK
<1>2. users[n][u] = [role |-> users[n][u].role, active |-> TRUE] /\ users[n][u].role \in Role
  BY <1>1 DEF Account
<1>3. s0 \in Session /\ s0.node = n /\ s0.user = u /\ s0.role = users[n][u].role
      /\ s0.access = now + AccessLife /\ s0.refresh = now + RefreshLife
  BY <1>1, <1>2 DEF LoginResponse, Session
<1> HIDE DEF s0
<1>4. UsersTyped'
  BY <1>3 DEF UsersTyped, Exists, s0
<1>5. SessionHonest(s0)
  BY <1>1, <1>2, <1>3 DEF SessionHonest, TokenLife
<1>6. ASSUME NEW s, SessionHonest(s) PROVE SessionHonest(s)'
  BY <1>6 DEF SessionHonest
<1> QED
  BY <1>4, <1>5, <1>6 DEF SessionInv, s0

\* The start satisfies types and invariants.
LEMMA AccountsStart ==
  Init => LimiterTypeOK /\ UsersTyped /\ SessionInv /\ ActiveAdminRemains
<1> SUFFICES ASSUME Init PROVE LimiterTypeOK /\ UsersTyped /\ SessionInv /\ ActiveAdminRemains
  OBVIOUS
<1>1. LimiterTypeOK
  BY LimiterAssumption DEF Init, LimiterInit, LimiterTypeOK
<1>2. UsersTyped
  BY LimiterAssumption DEF Init, UsersTyped
<1>3. SessionInv /\ ActiveAdminRemains
  BY DEF Init, SessionInv, ActiveAdminRemains
<1> QED
  BY <1>1, <1>2, <1>3

\* Everything else leaves the users alone.
LEMMA OthersKeep ==
  ASSUME LimiterTypeOK, UsersTyped, users' = users, changedAt' = changedAt,
         sessions' \subseteq sessions, now' \in Nat, now' >= now
  PROVE  UsersTyped' /\ (SessionInv => SessionInv')
<1> USE AccountsAssumption, LimiterAssumption
<1>1. now \in Nat
  BY DEF LimiterTypeOK
<1>2. UsersTyped'
  BY DEF UsersTyped, Exists
<1>3. ASSUME NEW s \in sessions, SessionHonest(s) PROVE SessionHonest(s)'
  <2>1. s.access \in Nat /\ s.refresh \in Nat /\ TokenLife \in Nat
    BY DEF UsersTyped, Session, TokenLife
  <2>2. s.access <= now' + TokenLife /\ s.refresh <= now' + TokenLife
    BY <2>1, <1>1, <1>3 DEF SessionHonest
  <2> QED
    BY <2>2, <1>3 DEF SessionHonest, TokenLife
<1> QED
  BY <1>2, <1>3 DEF SessionInv

\* Every step keeps the types and the honesty of sessions.
LEMMA AccountsStep ==
  ASSUME LimiterTypeOK, UsersTyped, [Next]_vars
  PROVE  UsersTyped' /\ (SessionInv => SessionInv')
<1> USE LimiterAssumption
<1>1. now \in Nat
  BY DEF LimiterTypeOK
<1> DEFINE Goal == UsersTyped' /\ (SessionInv => SessionInv')
<1>2. ASSUME UNCHANGED <<now, accountVars>> PROVE Goal
  BY <1>1, <1>2, OthersKeep DEF accountVars
<1> HIDE DEF Goal
<1>3. ASSUME UNCHANGED vars PROVE Goal
  BY <1>2, <1>3 DEF vars, limiterVars
<1>4. ASSUME NEW n \in Node, NEW k \in Source, LoginBegins(n, k) PROVE Goal
  BY <1>2, <1>4 DEF LoginBegins, IsRateLimited
<1>5. ASSUME NEW n \in Node, LoginFails(n) PROVE Goal
  BY <1>2, <1>5 DEF LoginFails, RecordFailedAttempt
<1>6. ASSUME NEW n \in Node, LoginDisabled(n) PROVE Goal
  BY <1>2, <1>6 DEF LoginDisabled, RecordNothing
<1>7. ASSUME NEW n \in Node, NEW u \in User, LoginSucceeds(n, u) PROVE Goal
  BY <1>7, IssueKeeps DEF LoginSucceeds, RecordSuccessfulAttempt, Goal
<1>8. ASSUME NEW s \in sessions, RefreshAccessToken(s) PROVE Goal
  <2>1. s.node \in Node /\ s.user \in User /\ Exists(s.node, s.user)
    BY DEF UsersTyped, Session
  <2> QED
    BY <2>1, <1>8, IssueKeeps DEF RefreshAccessToken, Refreshed, limiterVars, Goal
<1>9. ASSUME NEW n \in Node, NEW u \in User, NEW account \in Account,
             CreateUserAccount(n, u, account)
      PROVE  Goal
  BY <1>9, StoreKeeps DEF CreateUserAccount, Goal
<1>10. ASSUME NEW n \in Node, NEW u \in User, Exists(n, u) PROVE users[n][u] \in Account
  BY <1>10 DEF UsersTyped, Exists
<1>11. ASSUME NEW n \in Node, NEW u \in User, NEW role \in Role, ChangeUserRole(n, u, role)
       PROVE  Goal
  <2>1. [users[n][u] EXCEPT !.role = role] \in Account
    BY <1>10, <1>11 DEF ChangeUserRole, Account
  <2> QED
    BY <2>1, <1>11, StoreKeeps DEF ChangeUserRole, Goal
<1>12. ASSUME NEW n \in Node, NEW u \in User, NEW active \in BOOLEAN,
              SetUserActiveStatus(n, u, active)
       PROVE  Goal
  <2>1. [users[n][u] EXCEPT !.active = active] \in Account
    BY <1>10, <1>12 DEF SetUserActiveStatus, Account
  <2> QED
    BY <2>1, <1>12, StoreKeeps DEF SetUserActiveStatus, Goal
<1>13. ASSUME NEW n \in Node, Restart(n) PROVE Goal
  BY <1>2, <1>13 DEF Restart, ForgetAttempts
<1>14. ASSUME Tick PROVE Goal
  BY <1>14, <1>1, OthersKeep DEF Tick, ClockTicks, Goal
<1>15. ASSUME Next PROVE Goal
  BY <1>4, <1>5, <1>6, <1>7, <1>8, <1>9, <1>11, <1>12, <1>13, <1>14, <1>15 DEF Next
<1> QED
  BY <1>3, <1>15 DEF Goal

\* A finite set with more than one element has one besides u.
LEMMA AnotherOne ==
  ASSUME NEW S, IsFiniteSet(S), Cardinality(S) > 1, NEW u
  PROVE  \E v \in S : v # u
<1> SUFFICES ASSUME \A v \in S : v = u PROVE FALSE
  OBVIOUS
<1>1. S \subseteq {u}
  OBVIOUS
<1>2. IsFiniteSet({u}) /\ Cardinality({u}) = 1
  BY FS_Singleton
<1>3. Cardinality(S) \in Nat /\ Cardinality(S) <= 1
  BY <1>1, <1>2, FS_Subset, FS_CardinalityType
<1> QED
  BY <1>3

\* Storing a row keeps an active administrator, if the row that is replaced was
\* not one, or the new one is, or there is another.
LEMMA StoreKeepsAdmin ==
  ASSUME UsersTyped, ActiveAdminRemains,
         NEW n \in Node, NEW u \in User, NEW account \in Account, Store(n, u, account),
         \/ ~ IsActiveAdmin(n, u)
         \/ account.role = "ADMIN" /\ account.active
         \/ CountActiveAdmins(n) > 1
  PROVE  ActiveAdminRemains'
<1>1. users' = [users EXCEPT ![n][u] = account]
      /\ users \in [Node -> [User -> Account \cup {None}]]
  BY DEF Store, UsersTyped
<1>2. ASSUME NEW m \in Node, NEW v \in User, m # n \/ v # u
      PROVE  IsActiveAdmin(m, v)' <=> IsActiveAdmin(m, v)
  <2>1. users'[m][v] = users[m][v]
    BY <1>1, <1>2
  <2> QED
    BY <2>1 DEF IsActiveAdmin, Exists
<1>3. ASSUME account.role = "ADMIN", account.active PROVE IsActiveAdmin(n, u)'
  <2>1. users'[n][u] = account
    BY <1>1
  <2> QED
    BY <2>1, <1>3, NoAccount DEF IsActiveAdmin, Exists
<1>4. ASSUME CountActiveAdmins(n) > 1 PROVE \E v \in User : v # u /\ IsActiveAdmin(n, v)
  <2>1. IsFiniteSet({v \in User : IsActiveAdmin(n, v)})
    BY AccountsAssumption, FS_Subset
  <2> QED
    BY <2>1, <1>4, AnotherOne DEF CountActiveAdmins
<1> SUFFICES ASSUME NEW m \in Node PROVE \E v \in User : IsActiveAdmin(m, v)'
  BY DEF ActiveAdminRemains
<1>5. PICK v \in User : IsActiveAdmin(m, v)
  BY DEF ActiveAdminRemains
<1>6. CASE m # n \/ v # u
  BY <1>2, <1>5, <1>6
<1>7. CASE m = n /\ v = u
  <2>1. CASE account.role = "ADMIN" /\ account.active
    BY <2>1, <1>3, <1>7
  <2>2. CASE CountActiveAdmins(n) > 1
    BY <2>2, <1>2, <1>4, <1>7
  <2> QED
    BY <2>1, <2>2, <1>5, <1>7
<1> QED
  BY <1>6, <1>7

\* Every step leaves every node an active administrator.
LEMMA AdminStep ==
  ASSUME LimiterTypeOK, UsersTyped, ActiveAdminRemains, [Next]_vars
  PROVE  ActiveAdminRemains'
<1> DEFINE Goal == ActiveAdminRemains'
<1>1. ASSUME users' = users PROVE Goal
  BY <1>1 DEF ActiveAdminRemains, IsActiveAdmin, Exists
<1>2. ASSUME NEW n \in Node, NEW u \in User, Exists(n, u)
      PROVE  users[n][u] \in Account
  BY <1>2 DEF UsersTyped, Exists
<1>3. ASSUME NEW n \in Node, NEW u \in User, NEW account \in Account,
             CreateUserAccount(n, u, account)
      PROVE  Goal
  BY <1>3, StoreKeepsAdmin DEF CreateUserAccount, IsActiveAdmin
<1>4. ASSUME NEW n \in Node, NEW u \in User, NEW role \in Role, ChangeUserRole(n, u, role)
      PROVE  Goal
  <2> DEFINE account == [users[n][u] EXCEPT !.role = role]
  <2>1. /\ account \in Account
        /\ account.role = role
        /\ account.active = users[n][u].active
    BY <1>2, <1>4 DEF ChangeUserRole, Account
  <2>2. Store(n, u, account)
    BY <1>4 DEF ChangeUserRole
  <2>3. IsActiveAdmin(n, u) => users[n][u].active
    BY DEF IsActiveAdmin
  <2>4. IsActiveAdmin(n, u) /\ role # "ADMIN" => CountActiveAdmins(n) > 1
    BY <1>4 DEF ChangeUserRole
  <2> HIDE DEF account
  <2> QED
    BY <2>1, <2>2, <2>3, <2>4, StoreKeepsAdmin
<1>5. ASSUME NEW n \in Node, NEW u \in User, NEW active \in BOOLEAN,
             SetUserActiveStatus(n, u, active)
      PROVE  Goal
  <2> DEFINE account == [users[n][u] EXCEPT !.active = active]
  <2>1. /\ account \in Account
        /\ account.role = users[n][u].role
        /\ account.active = active
    BY <1>2, <1>5 DEF SetUserActiveStatus, Account
  <2>2. Store(n, u, account)
    BY <1>5 DEF SetUserActiveStatus
  <2>3. IsActiveAdmin(n, u) => users[n][u].role = "ADMIN"
    BY DEF IsActiveAdmin
  <2>4. IsActiveAdmin(n, u) /\ ~ active => CountActiveAdmins(n) > 1
    BY <1>5 DEF SetUserActiveStatus
  <2> HIDE DEF account
  <2> QED
    BY <2>1, <2>2, <2>3, <2>4, StoreKeepsAdmin
<1> HIDE DEF Goal
<1>6. ASSUME UNCHANGED vars PROVE Goal
  BY <1>1, <1>6 DEF vars, accountVars
<1>7. ASSUME NEW n \in Node, NEW k \in Source, LoginBegins(n, k) PROVE Goal
  BY <1>1, <1>7 DEF LoginBegins, accountVars
<1>8. ASSUME NEW n \in Node, LoginFails(n) \/ LoginDisabled(n) \/ Restart(n) PROVE Goal
  BY <1>1, <1>8 DEF LoginFails, LoginDisabled, Restart, accountVars
<1>9. ASSUME NEW n \in Node, NEW u \in User, LoginSucceeds(n, u) PROVE Goal
  BY <1>1, <1>9 DEF LoginSucceeds
<1>10. ASSUME NEW s \in sessions, RefreshAccessToken(s) PROVE Goal
  BY <1>1, <1>10 DEF RefreshAccessToken
<1>11. ASSUME Tick PROVE Goal
  BY <1>1, <1>11 DEF Tick
<1>12. ASSUME Next PROVE Goal
  BY <1>3, <1>4, <1>5, <1>7, <1>8, <1>9, <1>10, <1>11, <1>12 DEF Next
<1> QED
  BY <1>6, <1>12 DEF Goal

\* Types and invariants hold in every behaviour.
LEMMA AccountsInvariant ==
  Spec => [](LimiterTypeOK /\ UsersTyped /\ SessionInv /\ ActiveAdminRemains)
<1>1. /\ LimiterTypeOK /\ UsersTyped /\ SessionInv /\ ActiveAdminRemains
      /\ [Next]_vars
      => (UsersTyped /\ SessionInv /\ ActiveAdminRemains)'
  BY AccountsStep, AdminStep
<1> QED
  BY <1>1, AccountsStart, AccountsUseLimiter, LimiterTyped, PTL DEF Spec

\* AccountsTyped: users, sessions and the limiter's tables keep their types, and
\* no session's user ever disappears.
THEOREM AccountsTyped == Spec => []TypeOK
<1>1. LimiterTypeOK /\ UsersTyped => TypeOK
  BY DEF UsersTyped, TypeOK
<1> QED
  BY <1>1, AccountsInvariant, PTL

\* AdminRemains: for any number of nodes, users and sessions, no order of user
\* creation, role changes, deactivations and reactivations, by whatever holders of
\* accepted tokens, leaves a node without an active administrator.
THEOREM AdminRemains == Spec => []ActiveAdminRemains
BY AccountsInvariant, PTL

\* RightsEnd: for any token lives, a session that a node accepts states its user's
\* present role, or the user was changed less than a token's life ago.
THEOREM RightsEnd == Spec => []StaleRightsEnd
<1>1. LimiterTypeOK /\ UsersTyped /\ SessionInv => StaleRightsEnd
  <2> SUFFICES ASSUME LimiterTypeOK, UsersTyped, SessionInv,
                      NEW s \in sessions, Authorises(s, now),
                      ~ (users[s.node][s.user] = [role |-> s.role, active |-> TRUE])
               PROVE  now < changedAt[s.node][s.user] + TokenLife
    BY DEF StaleRightsEnd
  <2>1. /\ s.access <= changedAt[s.node][s.user] + TokenLife
        /\ s.refresh <= changedAt[s.node][s.user] + TokenLife
    BY DEF SessionInv, SessionHonest
  <2>2. s.access \in Nat /\ s.refresh \in Nat /\ s.node \in Node /\ s.user \in User
    BY DEF UsersTyped, Session
  <2>3. changedAt[s.node][s.user] \in Nat /\ now \in Nat /\ TokenLife \in Nat
    BY <2>2, AccountsAssumption, LimiterAssumption DEF UsersTyped, LimiterTypeOK, TokenLife
  <2>4. now < s.access \/ now < s.refresh
    BY DEF Authorises
  <2> QED
    BY <2>1, <2>2, <2>3, <2>4
<1> QED
  BY <1>1, AccountsInvariant, PTL

=============================================================================
