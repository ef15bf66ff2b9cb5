------------------------------- MODULE Poller -------------------------------
(***************************************************************************)
(* The polling loop that clusterStatusService.ts, heartbeatService.ts,     *)
(* fileService.ts and, without the abort controller, healthService.ts      *)
(* share.                                                                  *)
(*                                                                         *)
(* The browser runs one callback at a time, so an action is what happens   *)
(* between two awaits.  A service has one timerId and one abortController  *)
(* field, whatever number of timers and requests it has: startPolling      *)
(* begins a loop, and every loop that is under way at an await goes on     *)
(* when it finds isPolling set, by whichever startPolling that was.        *)
(***************************************************************************)
EXTENDS Naturals, FiniteSets

CONSTANTS
    Loop,          \* the loops startPolling may begin, in this order
    Refresh,       \* requests outside the loop that may be under way at once
    None,          \* null
    Base,          \* baseIntervalMs
    MaxInterval,   \* maxIntervalMs
    MaxFailures,   \* bound: where the count of failures no longer matters
    MaxStops,      \* bound: calls of stopPolling and reset
    MaxFaults      \* bound: the backend going down and coming back

ASSUME PollerAssumption ==
    /\ Loop \subseteq Nat /\ IsFiniteSet(Loop)
    /\ Refresh \cap Loop = {}
    /\ None \notin Loop \cup Refresh
    /\ {Base, MaxInterval, MaxFailures, MaxStops, MaxFaults} \subseteq Nat
    /\ Base <= MaxInterval

VARIABLES
    isPolling,     \* isPolling
    phase,         \* what each loop and each refresh is doing
    timer,         \* timerId: the loop whose timer was set last
    controller,    \* abortController: the request that began last
    aborted,       \* requests under way that were aborted
    reachable,     \* reachable
    failures,      \* consecutiveFailures
    interval,      \* currentIntervalMs
    up,            \* the backend answers, with what was asked for
    stops, faults

loopVars == <<isPolling, phase, timer, controller, aborted>>
resultVars == <<reachable, failures, interval>>
boundVars == <<up, stops, faults>>
pollerVars == <<loopVars, resultVars, boundVars>>

Call == Loop \cup Refresh

Fetching == {x \in Call : phase[x] = "fetching"}

Alive == {l \in Loop : phase[l] \in {"fetching", "waiting"}}

PollerInit ==
    /\ isPolling = FALSE
    /\ phase = [x \in Call |-> "idle"]
    /\ timer = None
    /\ controller = None
    /\ aborted = {}
    /\ reachable = FALSE
    /\ failures = 0
    /\ interval = Base
    /\ up = TRUE
    /\ stops = 0
    /\ faults = 0

-----------------------------------------------------------------------------
\* The factor of 1.5 to the power of n, as a fraction.
Growth[n \in Nat] ==
    IF n = 0 THEN <<1, 1>> ELSE <<3 * Growth[n - 1][1], 2 * Growth[n - 1][2]>>

\* Math.round(base * factor ^ n): halves are rounded up.
Delay(n) == (2 * Base * Growth[n][1] + Growth[n][2]) \div (2 * Growth[n][2])

\* Mutant of Backoff: no maximum.
BackoffUncapped(n) == Delay(n)

\* calculateBackoffInterval
Backoff(n) ==
    IF n = 0 THEN Base ELSE IF Delay(n) < MaxInterval THEN Delay(n) ELSE MaxInterval

\* stopPolling clears the timer it knows, which may have fired already, and aborts
\* the request it knows.
Cleared ==
    IF timer # None /\ phase[timer] = "waiting"
    THEN [phase EXCEPT ![timer] = "ended"] ELSE phase

AbortedNow == IF controller # None THEN aborted \cup {controller} ELSE aborted

\* startPolling stops what it knows of and begins a loop.
StartPolling(l) ==
    /\ phase[l] = "idle"
    /\ \A k \in Loop : k < l => phase[k] # "idle"
    /\ isPolling' = TRUE
    /\ phase' = [Cleared EXCEPT ![l] = "fetching"]
    /\ timer' = None
    /\ aborted' = AbortedNow
    /\ controller' = l
    /\ interval' = Base
    /\ UNCHANGED <<reachable, failures, boundVars>>

Stopped ==
    /\ isPolling' = FALSE
    /\ phase' = Cleared
    /\ timer' = None
    /\ aborted' = AbortedNow
    /\ controller' = None

StopPolling ==
    /\ stops < MaxStops
    /\ stops' = stops + 1
    /\ Stopped
    /\ UNCHANGED <<resultVars, up, faults>>

\* reset
ResetPolling ==
    /\ stops < MaxStops
    /\ stops' = stops + 1
    /\ Stopped
    /\ reachable' = FALSE
    /\ failures' = 0
    /\ interval' = Base
    /\ UNCHANGED <<up, faults>>

\* Mutant of GoesOn: the flag as it was when the loop began.
GoesOnAsBegun == TRUE

\* A loop looks at isPolling before it polls and after.
GoesOn == isPolling

\* A loop's timer fires, also one that stopPolling no longer knew.
Tick(l) ==
    /\ phase[l] = "waiting"
    /\ phase' = [phase EXCEPT ![l] = IF GoesOn THEN "fetching" ELSE "ended"]
    /\ controller' = IF GoesOn THEN l ELSE controller
    /\ UNCHANGED <<isPolling, timer, aborted, resultVars, boundVars>>

\* retry and refreshFiles: the backoff begins anew, and a request outside the loop
\* takes the abortController field.
BeginRefresh(r) ==
    /\ phase[r] = "idle"
    /\ phase' = [phase EXCEPT ![r] = "fetching"]
    /\ controller' = r
    /\ failures' = 0
    /\ interval' = Base
    /\ UNCHANGED <<isPolling, timer, aborted, reachable, boundVars>>

\* Mutant of AfterFetch: the loop sets its next timer on success only.
AfterFetchIfReachable(x) ==
    IF x \in Refresh THEN "idle" ELSE IF GoesOn /\ reachable' THEN "waiting" ELSE "ended"

\* What follows the await: a refresh is over, a loop that goes on
\* sets its next timer.
AfterFetch(x) ==
    IF x \in Refresh THEN "idle" ELSE IF GoesOn THEN "waiting" ELSE "ended"

\* The finally clause, which clears the field whoever is in it, and what follows.
EndFetch(x) ==
    /\ phase' = [phase EXCEPT ![x] = AfterFetch(x)]
    /\ timer' = IF phase'[x] = "waiting" THEN x ELSE timer
    /\ controller' = None
    /\ aborted' = aborted \ {x}
    /\ UNCHANGED <<isPolling, boundVars>>

\* Mutant of IntervalAfterSuccess: the backoff is kept.
IntervalKept == interval

IntervalAfterSuccess == Base

FetchSucceeds(x) ==
    /\ x \in Fetching \ aborted
    /\ up
    /\ reachable' = TRUE
    /\ failures' = 0
    /\ interval' = IntervalAfterSuccess
    /\ EndFetch(x)

\* The request was aborted, refused or timed out.
FetchFails(x) ==
    /\ x \in Fetching
    /\ x \in aborted \/ ~ up
    /\ reachable' = FALSE
    /\ failures' = IF failures < MaxFailures THEN failures + 1 ELSE failures
    /\ interval' = Backoff(failures')
    /\ EndFetch(x)

\* The backend.
BackendChanges ==
    /\ faults < MaxFaults
    /\ faults' = faults + 1
    /\ up' = ~ up
    /\ UNCHANGED <<loopVars, resultVars, stops>>

PollerNext ==
    \/ \E l \in Loop : StartPolling(l)
    \/ StopPolling
    \/ ResetPolling
    \/ \E l \in Loop : Tick(l)
    \/ \E r \in Refresh : BeginRefresh(r)
    \/ \E x \in Call : FetchSucceeds(x)
    \/ \E x \in Call : FetchFails(x)
    \/ BackendChanges

PollerSpec == PollerInit /\ [][PollerNext]_pollerVars

-----------------------------------------------------------------------------
\* The loop's fields stay within their types, an abort controller belongs to a
\* request under way, and the interval within its bounds.
PollerTypeOK ==
    /\ isPolling \in BOOLEAN
    /\ phase \in [Call -> {"idle", "fetching", "waiting", "ended"}]
    /\ \A r \in Refresh : phase[r] \in {"idle", "fetching"}
    /\ timer \in Loop \cup {None}
    /\ controller \in Fetching \cup {None}
    /\ aborted \subseteq Fetching
    /\ reachable \in BOOLEAN
    /\ failures \in 0..MaxFailures
    /\ interval \in Base..MaxInterval
    /\ up \in BOOLEAN
    /\ stops \in 0..MaxStops
    /\ faults \in 0..MaxFaults

\* LoopLives: while isPolling is set some loop has a request under way or a timer
\* set, so polling never dies silently, whatever restarts, aborts, refreshes and
\* failures came before.
LoopLives == isPolling => Alive # {}

\* HealthyPollsFast: a reachable backend is polled, and shown to be polled, at the
\* base interval: no earlier failure, restart or refresh leaves its backoff behind.
HealthyPollsFast == reachable => failures = 0 /\ interval = Base

\* StopEndsLoops: after stopPolling, and unless startPolling is called again, every
\* loop ends, those whose timer or request the fields had lost included.
StopEndsLoops == ~ isPolling ~> (isPolling \/ Alive = {})

=============================================================================
