---------------------------- MODULE RateLimiter ----------------------------
(***************************************************************************)
(* The brute-force protection of POST /auth/login, AuthRateLimiter in      *)
(* app/services/rate_limiter.py.  Every node process has one, in memory.   *)
(*                                                                         *)
(* The login handler asks the limiter, verifies the password and reports   *)
(* the outcome to the limiter.  It has no await and runs on the node's     *)
(* event loop, so no other handler of the node runs in between; but bcrypt *)
(* takes time, and each call of the limiter reads the clock anew.  busy    *)
(* says which source the event loop is verifying a password for.           *)
(*                                                                         *)
(* failures is the history of the failed checks of a source since its last *)
(* success or the start of the process, and attempts says which of them    *)
(* the limiter's list of timestamps still holds, by position.              *)
(***************************************************************************)
EXTENDS Integers, Sequences, FiniteSets

CONSTANTS
    Node,         \* the node processes
    Source,       \* source keys: the clients' addresses
    None,         \* Python's None, or an absent key
    MaxAttempts,  \* max_attempts
    Window,       \* window_seconds
    Cooldown,     \* cooldown_seconds
    MaxTime       \* bound: the clock stops here

ASSUME LimiterAssumption ==
    /\ None \notin Source
    /\ None \notin Nat
    /\ MaxAttempts \in Nat \ {0}
    /\ Window \in Nat \ {0}
    /\ Cooldown \in Nat
    /\ MaxTime \in Nat

VARIABLES
    now,       \* time.time(), the same for all processes
    busy,      \* the source whose password check blocks the event loop, or None
    attempts,  \* _attempts: positions in failures
    lockouts,  \* _lockouts: when the lockout ends, or None
    failures   \* history: the times of the failed checks

limiterVars == <<now, busy, attempts, lockouts, failures>>

LimiterInit ==
    /\ now = 0
    /\ busy = [n \in Node |-> None]
    /\ attempts = [n \in Node |-> [k \in Source |-> {}]]
    /\ lockouts = [n \in Node |-> [k \in Source |-> None]]
    /\ failures = [n \in Node |-> [k \in Source |-> <<>>]]

-----------------------------------------------------------------------------
\* Mutant of Recent: the list is never pruned.
RecentAll(n, k) == attempts[n][k]

\* [ts for ts in attempts if ts > cutoff]
Recent(n, k) == {i \in attempts[n][k] : failures[n][k][i] > now - Window}

Locked(n, k) == lockouts[n][k] # None /\ now < lockouts[n][k]

\* is_rate_limited, unless it refuses for a lockout that is on, which changes
\* nothing: a lockout that is over is forgotten with what caused it, the list is
\* pruned, and a list that is still full locks anew.
IsRateLimited(n, k) ==
    /\ busy[n] = None
    /\ ~ Locked(n, k)
    /\ LET kept == IF lockouts[n][k] = None THEN Recent(n, k) ELSE {}
           full == Cardinality(kept) >= MaxAttempts
       IN  /\ attempts' = [attempts EXCEPT ![n][k] = kept]
           /\ lockouts' = [lockouts EXCEPT ![n][k] = IF full THEN now + Cooldown ELSE None]
           /\ busy' = [busy EXCEPT ![n] = IF full THEN None ELSE k]
    /\ UNCHANGED <<now, failures>>

\* record_failed_attempt, and the handler raises.
RecordFailedAttempt(n) ==
    /\ busy[n] # None
    /\ LET k == busy[n]
           existing == Recent(n, k) \cup {Len(failures[n][k]) + 1}
       IN  /\ failures' = [failures EXCEPT ![n][k] = Append(@, now)]
           /\ attempts' = [attempts EXCEPT ![n][k] = existing]
           /\ lockouts' = [lockouts EXCEPT ![n][k] =
                 IF Cardinality(existing) >= MaxAttempts THEN now + Cooldown ELSE @]
    /\ busy' = [busy EXCEPT ![n] = None]
    /\ UNCHANGED now

\* record_successful_attempt, and the handler answers.
RecordSuccessfulAttempt(n) ==
    /\ busy[n] # None
    /\ attempts' = [attempts EXCEPT ![n][busy[n]] = {}]
    /\ lockouts' = [lockouts EXCEPT ![n][busy[n]] = None]
    /\ failures' = [failures EXCEPT ![n][busy[n]] = <<>>]
    /\ busy' = [busy EXCEPT ![n] = None]
    /\ UNCHANGED now

\* The handler raises without a report: the account is disabled.
RecordNothing(n) ==
    /\ busy[n] # None
    /\ busy' = [busy EXCEPT ![n] = None]
    /\ UNCHANGED <<now, attempts, lockouts, failures>>

\* The process is restarted and __init__ runs again.
ForgetAttempts(n) ==
    /\ busy' = [busy EXCEPT ![n] = None]
    /\ attempts' = [attempts EXCEPT ![n] = [k \in Source |-> {}]]
    /\ lockouts' = [lockouts EXCEPT ![n] = [k \in Source |-> None]]
    /\ failures' = [failures EXCEPT ![n] = [k \in Source |-> <<>>]]
    /\ UNCHANGED now

ClockTicks ==
    /\ now < MaxTime
    /\ now' = now + 1
    /\ UNCHANGED <<busy, attempts, lockouts, failures>>

LimiterNext ==
    \/ \E n \in Node, k \in Source : IsRateLimited(n, k)
    \/ \E n \in Node : RecordFailedAttempt(n)
    \/ \E n \in Node : RecordSuccessfulAttempt(n)
    \/ \E n \in Node : RecordNothing(n)
    \/ \E n \in Node : ForgetAttempts(n)
    \/ ClockTicks

LimiterSpec == LimiterInit /\ [][LimiterNext]_limiterVars

-----------------------------------------------------------------------------
LimiterTypeOK ==
    /\ now \in 0..MaxTime
    /\ busy \in [Node -> Source \cup {None}]
    /\ failures \in [Node -> [Source -> Seq(0..MaxTime)]]
    /\ DOMAIN attempts = Node
    /\ \A n \in Node :
          /\ DOMAIN attempts[n] = Source
          /\ \A k \in Source : attempts[n][k] \subseteq 1..Len(failures[n][k])
    /\ lockouts \in [Node -> [Source -> Nat \cup {None}]]

\* The failures of a source within the window that ends with its failure i.
InWindow(n, k, i) ==
    {j \in 1..i : failures[n][k][j] > failures[n][k][i] - Window}

\* LockoutIsExact: what the limiter computes step by step, pruning, locking and
\* forgetting, is what its module promises: a source is locked out exactly
\* while the cooldown runs of a failure that was, since the source's last success,
\* the last of max_attempts within one window.
LockoutIsExact ==
    \A n \in Node, k \in Source :
        Locked(n, k) <=>
            \E i \in 1..Len(failures[n][k]) :
                /\ now < failures[n][k][i] + Cooldown
                /\ Cardinality(InWindow(n, k, i)) >= MaxAttempts

\* FailuresBounded: no window of a source holds more than max_attempts failed
\* password checks since its last success.
FailuresBounded ==
    \A n \in Node, k \in Source : \A i \in 1..Len(failures[n][k]) :
        Cardinality(InWindow(n, k, i)) <= MaxAttempts

=============================================================================
