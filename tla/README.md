# DFSS: models, checks and proofs

This directory holds TLA+ models of the distributed file storage system (DFSS),
TLC configurations that check them on small instances, and theorems about them
that TLAPS checks for every instance. Every definition is translated from the
source; `PROJECT.json` names the lines (its `map`), the runs, the mutants that
show each property can fail, the hazards the properties are aimed at, and the
places where the code and what the repository says about it disagree.

## The system

Three node processes (`NODE_NAME` = Node A, B, C on ports 8000-8002) run the same
FastAPI application `app/`. Each has its own in-memory state and its own directory
of files; processes on one machine also list and remove files in each other's
directories. They talk over HTTP, the consensus engine with a SYSTEM token.
A browser single-page application, `frontend/src`, polls one node.

| Component | State | Operations | Interacts with | What is hard | What makes it correct |
|---|---|---|---|---|---|
| Consensus engine (`services/consensus.py`, `api/consensus.py`) | term, vote, log, commit index, state machine, next/match index, role, leader; all in memory, under one lock | loop, election thread, vote handler, AppendEntries threads and handler, propose, fail-leader | itself on the peers (HTTP), clients | threads between lock sections, lost, late and overtaking requests, restarts | one leader per term, logs that agree, applied blocks stay and are on a majority |
| Cluster configuration (`update_cluster_config`) | election timeouts, heartbeat and health-check intervals | read, update | consensus engine, node registry | limits that depend on each other; of the replication settings, one refused after another was assigned | an update is applied as a whole or not at all |
| Node registry (`services/health_service.py`, `api/health.py`) | status per node, URL table | heartbeat loop, status update, add, remove, cordon, uncordon, check | dashboard, replication | dict changed while the loop iterates, check results applied after the node was removed or cordoned | failures and recoveries are noticed, the cluster state tells the truth, the loop lives |
| File storage and replication (`services/replication_service.py`, `api/replicate_routes.py`) | files on disk, replication factor and timeout | upload, replicate, receive, download, list, delete, configure | peers (HTTP and their directories) | another process acts on the same directories, one replica of several fails | an uploaded file is there and every node serves it, a deleted one is nowhere |
| Accounts and sessions (`api/auth.py`, `user_storage.py`, `jwt_service.py`, `dependencies.py`) | users, roles, active flags, tokens | login, refresh, create, change role, (de)activate | every route | sequences of demotions and deactivations, tokens that outlive a change | an active administrator remains |
| Login rate limiter (`rate_limiter.py`) | failed attempts and lockout per key | record, test, reset | login | window and cooldown boundaries | at most 5 failures per window |
| Clock synchronisation (`time_sync.py`) | offset, drift | periodic sync, slew | peers (HTTP) | offset read before and written after an await | the offset stays bounded |
| Log and audit store (`log_service.py`) | ring buffer of 10000 records | add, query, clear | every service | buffer at its limit | newest records kept in order |
| Dashboard pollers (`clusterStatusService.ts`, `healthService.ts`, `heartbeatService.ts`) | snapshot, failure count, timer, in-flight flag | start, stop, tick, answer, retry, reset | nodes (HTTP) | answers after stop or reset, two loops at once | polling lives while it is on and ends when it is stopped |
| File ledger (`fileService.ts`, `client.ts`) | list of files, pending uploads and deletes | poll, upload, optimistic delete with rollback | nodes (HTTP) | a poll answer between a delete and its rollback | the ledger ends up as the server's list, nothing is pending for ever |
| Page shell and file panel (`main.ts`, `router.ts`, `ErrorBoundary.ts`, `FilePanel.ts`) | what is drawn, the memos that spare a redraw, the error boundary | redraw, update in place, search, upload, download, confirm, delete, fault, retry | file ledger, pollers, user | several listeners and memos over one panel, changes missed under a fallback | what is shown is what drawing it anew would show, no button outlives its reason |
| Node detail panel, rail and list (`main.ts`, `heartbeatService.ts`, `NodeDetailPanel.ts`, `HeartbeatRail.ts`, `NodeList.ts`) | selected node, its detail, requests under way, heartbeat history, what is drawn | open, refresh, close, poll, answer, reset | nodes (HTTP), user | late answer for a panel that was closed or changed | the panel shows the selected node and comes to show its telemetry |

## Plan

Done:

1. **Consensus**: `Raft`, its abstract specification `AgreedLog`, restarts in
   `RaftCrash`; all its safety properties proved, and that it implements `AgreedLog`.
2. **Node registry**: `NodeRegistry`, the heartbeat thread against the admin routes;
   its invariants proved.
3. **Dashboard**: `Poller`, the loop four services share, and over it `FileLedger`;
   the loop's invariants proved and carried over to the ledger, and the ledger's own.
4. **File storage**: `FileStore`, uploads, deletions, listings and downloads of node
   processes over shared directories; all its properties proved.
5. **The page**: `FilePanel`, what the file panel shows and when it is redrawn, and
   `NodeDetail`, the node selection with the heartbeat rail and the node list; all
   their safety invariants proved.
6. **Accounts**: `RateLimiter`, sliding window and lockout, and over it `Accounts`,
   users and sessions at several nodes; all their properties proved.

To do:

7. **Small services**: `TimeSync` (target against slewing), `LogBuffer` (the buffer at
   its limit), the cluster and replication configurations with their partial updates.

A component is one run that asks all its questions on one instance, or two where its
questions need different instances; new properties join an existing run where its
instance suits them.

Each module takes its parameters as CONSTANTS with named assumptions and states one
action per handler, lock section or stretch between two awaits, without RECURSIVE
operators, so that it can be proved about.

## What is proved and what is only checked

Every invariant and every action property of a passing run is also a theorem, for every
value of the constants that satisfies the module's named assumptions; so is that the
consensus engine implements `AgreedLog`. Two things restrict that. The theorems about
what is committed have the hypothesis `[]NoOvertaking`, about the order of requests,
which the code does not ensure and which the run `overtaking` shows to be needed; the
run `log` checks the same properties under the same condition. Those about lockouts have
the hypothesis `Cooldown >= Window`, which the defaults satisfy. `TypeOK` and
`FailuresBounded` of the accounts are stated as theorems only; no run repeats them.

With TLC alone stay the liveness properties (`StopEndsLoops`, `LedgerConverges`,
`DeleteSettles`, `DownloadSettles`, `SlotsConverge`, `LoadingSettles`,
`TelemetryConverges`, `StatusFollowsNode`, `HealthFollowsNodes`), because TLAPS does not
prove liveness under fairness, and the four violations, which are counterexamples.

The provers have no induction over data with an operator as its parameter. Where a proof
needs one it takes the least counterexample instead, from the well-foundedness of `<`
(`LeastNumber` in `LedgerProofs`, `FirstVisited` in `FileStoreProofs`).

## Consensus

### `Raft`

One function from nodes to values per field of `ConsensusService`; an action is what
a thread does between taking and releasing `self.lock`.

| Code | Model |
|---|---|
| `_run_loop`, `_check_election_timeout` | `ElectionTimeout`, `TimeoutNotElapsed`; `staleRead` says that the loop has read a state that no longer holds |
| `_run_election` | `AskVote`, `VoteReplyStepsDown`, `CountVote`, `VoteRequestFails`, `WinElection`, `LoseElection`; its locals are `election[n][t]` and `votes[n][t]` |
| `handle_request_vote` | `HandleRequestVote`, with `Grants` |
| `propose` | `Propose` |
| `_send_heartbeats`, `_send_append_entries_to_peer` | `SendAppend`, `SendAppendReturns`, and for the answer `IgnoreAppendReply`, `AppendReplyStepsDown`, `AppendSucceeds` (with `_update_commit_index`, `_apply_logs`), `HeartbeatSucceeds`, `AppendBacktracks`, `AppendFails` |
| `handle_append_entries` | `RejectStaleAppend`, `HandleAppendEntries` (with `_apply_logs`) |
| `/fail-leader` | `FailLeader` |

Abstractions. Time: a timeout may elapse whenever the code tests it. The vote count
is the set of peers counted, so a double count would be visible as a difference; it
is kept for an election that was won, where nothing changes it any more. `won` is a
history of the elections. Threads that have not yet taken the lock have no state
that matters, except on a node whose loop was stopped, where they are counted in
`spawned`. `rpc` holds the threads that have copied what they send, up to the answer.
A vote request may be handled after the candidate gave up on it (`Late`). The last
applied index is the length of the state machine minus one. `node_status` of the
service is written and never read, and left out.

Bounds, all of them named constants: `MaxTerm`, `Contender` (which candidacies may
start), `MaxLog`, `Thread`, `MaxInFlight` (requests of one leader to one peer at
once), `MaxLate`, `Unreliable` (whose requests may fail), `Stoppable`. `Rank` is the
order of `node_urls`; equal ranks leave the order open. Terms are bounded, so every
behaviour of a run ends and deadlock is not checked.

### `AgreedLog`

What a reader of `GET /state` may rely on: one sequence of blocks that only grows, of
which every node's state machine is a prefix that only grows. `Raft` implements it
with the longest state machine as the agreed sequence.

### `RaftCrash`

`Raft` with `Restart`: the process dies with its threads and `__init__` runs again.

### Runs

| Run | Instance | Checks | Result |
|---|---|---|---|
| `elections` | rivals in term 1, a third in term 2, empty logs, one stoppable node, one late vote request | `TypeOK`, `ElectionSafety`, `LeaderIdWasElected` | holds, 1.7 million states |
| `log` | leaders n1, n2, n1 again, blocks of two kinds, logs of 2, two threads, n1's requests may fail, two requests at once from n2 to n1, until a request overtakes a newer one | `LogMatching`, `CommittedIsDurable`, `MatchIndexIsTrue`, `LeaderCompleteness`, `AppliedIsStable`, `ImplementsAgreedLog` | holds, 784 thousand states |
| `overtaking` | one leader, two requests to one peer at once | `CommittedIsDurable` | violated |
| `restart_elections` | two rivals, one restart | `ElectionSafety` | violated |

Three nodes are the cluster the code configures. Three terms with a node that leads
twice are the smallest in which logs diverge below the position a leader starts
sending from, so that the term comparison of the consistency check matters. The
`CONSTRAINT` of `log`, `Handover`, keeps the instance small: the two blocks are told
apart by the term they stem from, a leader has two blocks only while one request at a
time is under way, nothing of the earlier terms is under way in the third, whose
leader sends one request at a time, and two requests to one peer are under way at once
only from the second leader to the first (`TwoToFirst`). There the logs differ, so that
answers which come in either order move `next_index` and `match_index` forth and back,
as they may between any two nodes. The last conjunct is not a bound: with `NoOvertaking`
TLC checks the properties up to the first state in which a request has overtaken a newer
one, that state included, and does not go on from there. `overtaking` shows what happens
then: an older AppendEntries that arrives last truncates entries the peer has
acknowledged. `MatchIndexIsTrue`, `CommittedIsDurable`, `LeaderCompleteness`,
`AppliedIsStable` and `ImplementsAgreedLog` are claimed as long as `NoOvertaking` holds,
and no longer. A restarted node has lost its vote and votes twice in a term
(`restart_elections`).

### Proofs

`RaftProofs` proves `TypeCorrect == Spec => []TypeOK`. `TypeOK` is not inductive: that
a log stays within its bound depends on the requests under way (`RpcFits`), that
`_apply_logs` stays within the log depends on the state machine being ahead of a
commit index that does not move (`AppliedToCommit`), and the term of a new entry is a
term because a leader was elected in its term (`LeaderElected`).

It also proves `ElectionSafe == Spec => []ElectionSafety` and
`LeaderIdCorrect == Spec => []LeaderIdWasElected`. A vote lives first as an answer
under way, then as one a thread has counted (`Granted`). Whoever has given it is in
that term with that vote, or in a later term (`VoteKept`), hence votes once per term
(`VoteOnce`); a won election keeps a majority's votes (`WonByMajority`), because its
thread has ended (`ThreadsOfTerm`) and answers reach only a thread that waits for
them (`AnswersAwaited`). Two majorities meet, in a node that would have voted twice.
The reported leader comes from the node's own election or from an AppendEntries,
which was sent in a term its sender was elected in (`RpcFromElected`).

`LogsMatch == Spec => []LogMatching` is in the same module. The invariant is about
pieces of log: the logs, and the requests under way with the term of the entry before
their first one. Two pieces that have an entry of one term at one position agree up to
there, as far as both reach (`PiecesAgree`). `handle_append_entries` glues two pieces,
which keeps it; a proposal keeps it because no piece holds more of a leader's term than
the leader's own log (`LeaderHoldsTerm`), as its entries stem from the one node elected
in it (`TermsFromElected`). Overtaking requests do no harm to this.

They do to durability. `NoOvertaking` says that no request under way ends before a
position that its receiver has acknowledged to its sender. Such a request, when it
arrives, cuts off entries that the leader counts already: `handle_append_entries`
replaces the rest of the log by what the request brings instead of keeping what agrees.
The run `overtaking` is that behaviour. The engine starts a thread per heartbeat and per
proposal, so that nothing in it keeps two requests to one peer from being under way, nor
the older from arriving last.

The theorems of `RaftCommitProofs` therefore have the hypothesis, and hold for any number
of requests under way (`MaxInFlight`):

- `MatchIndexTrue == Spec /\ []NoOvertaking => []MatchIndexIsTrue`: an acknowledged
  position stays one up to which the peer agrees (`AckTrue`).
- `CommittedDurable`, `LeaderComplete` and `AppliedStable`, for `CommittedIsDurable`,
  `LeaderCompleteness` and `AppliedIsStable`. An entry is `Secured` by a set of nodes
  when these have it and no request of its term will cut it off, every newer piece and
  request carries it, leaders of later terms have it, and a candidate of a later term
  that one of these nodes voted for is as new. This is kept by every step
  (`SecuredStep`), because a later winner has the vote of one of them. What a leader
  proposed is secured by those who acknowledged it, unless a majority without them has
  gone on to later terms, and then this leader will not commit it (`Promises`); what any
  node has applied, and what a request says is committed, comes no later in the log than
  an entry that a majority secures (`CommitKnown`, `CommitSent`).
- `AgreedLogImplemented == Spec /\ []NoOvertaking => ImplementsAgreedLog`, the
  refinement: the agreed log is the longest state machine, each state machine is a
  prefix of it, and every step of the engine extends it, lets one node learn or leaves
  both alone.

The theorems hold for every finite set of nodes, every number of threads and every
value of the other bounds; they assume `RaftAssumption`, and the refinement that there
is a node. No liveness is claimed of the consensus engine: a bounded number of terms
does not allow it, and the randomised timeouts make progress likely, not certain.

## Node registry

### `NodeRegistry`

The heartbeat thread and the event loop share `nodes_status` and `NODE_URLS` without
a lock, so an action is a statement, or several that touch one dictionary once.

| Code | Model |
|---|---|
| `heartbeat_loop`, `check_all_nodes` | `StartSweep`, `NextNode`, `CheckNode` (with `check_node_health`), `CompareStatus`, `WriteStatus`, `EndSweep`; `sweep` holds the iterator and the locals |
| the iterator over a dictionary that changes, the status that is gone | `SweepFails`, `CompareStatus`: the exception ends the thread (`Died`) |
| `POST /nodes/update`, which stores any word, cordon, uncordon | `UpdateNodeStatus` (`Label`: the words the code does not know), `CordonNode`, `UncordonNode` |
| `remove_node`, `add_node` | `RemoveNode` then `RemoveUrl`, `AddNode` then `AddUrl`; `handler` says that the second half is still to run |
| `get_cluster_status` | `ClusterState`, on a node that knows a leader |

Abstractions: a check takes as long as it takes and its three tries are one look at
whether the process answers; names are resolved to keys; heartbeat times are left out.
Bounds: `MaxAdmin` requests, `MaxFaults` changes of a node's process, which nodes
may be removed or added, and one unknown word, as the code compares a status only with
`ALIVE` and with what the sweep found. Fairness: the heartbeat thread keeps running (the scheduler
runs every thread, and requests have timeouts) and a handler that began finishes.
Administrators and the watched processes owe nothing.

| Run | Instance | Checks | Result |
|---|---|---|---|
| `registry` | three nodes, one may be removed, it and another may be added, up to 3 requests and 3 faults, 5 together | `TypeOK`, `UrlsTracked`, `StatusFollowsNode`, `HealthFollowsNodes` | holds, 299 thousand states |
| `registry_recovery` | two nodes, one removal during a sweep | `RecoveryIsNoticed` | violated: the thread is dead |

Two requests and three faults let a node go down, come back and go down again around
a cordon and its end, all within one sweep; a removal and an addition within one sweep
take three requests. `StatusFollowsNode` says that a registered node that stays down
is reported DEAD, and one that stays up ALIVE, unless it is cordoned, whatever word an
administrator has given it;
`HealthFollowsNodes` that the cluster comes to be reported HEALTHY while all registered
nodes are up and comes not to be while one is down. Both are excused when the heartbeat
thread has died, which `registry_recovery` shows to happen; the second also while a
removed node has a status again (`Excused`), which a sweep that was at the node while it
was removed has written back: it is counted without a URL and never asked again.

`NodeRegistryProofs` proves `UrlsAreTracked == Spec => []UrlsTracked` for every set of
nodes. The property speaks of the time between handlers; `HandlerInv` adds what holds
halfway through a removal or an addition, and that a write of the sweep never takes a
key away. `RegistryTyped == Spec => []TypeOK` proves the types, the sweep's iterator and
locals included: a status may be any word, what the sweep finds is `ALIVE` or `DEAD`.

## File storage

### `FileStore`

Each node process stores uploads in its own directory `nodes/Node*/Storage`, and lists,
reads and removes files in all three. Handlers are `async` functions that never await,
so a handler runs to its end on its own event loop; handlers of other processes run
between its calls to the file system. An action is one such call, or several on which
nothing another process does can fall in between and matter.

| Code | Model |
|---|---|
| the directories | `dir[d][f]`: a content, `absent`, `partial` while a handler is writing, `torn` when that handler was killed. Nothing in the code tells the last two from a content |
| `upload` | `BeginUpload` (open and truncate), `CopyContent`, `AnswerUpload` with `replicate_file` (`Reached`, `IsNodeAlive`, `HealthStatus`) |
| `delete_file` | `BeginDelete` (resolving the identifier), `RemoveReplica` per directory, `AnswerDelete` |
| `list_files` | `BeginList`, `ReadDirectory` per directory, then `FindPrimary` and `DescribeFile` per file, `AnswerList`; `MeasureFails` when the file goes away before `getsize` |
| `download_file` | `BeginDownload`, which chooses the file, and `SendFile`: `FileResponse` opens it after the handler returned |
| a process killed and started again | `Crash`, `Restart` (external: the node scripts) |

A handler that writes a file which another process removes goes on writing to a file
without a name (`linked`). `is_node_alive` asks `GET /health` without a token, which
that route refuses with 401; `Reached` is therefore empty in every state, nothing is
replicated, and `POST /replicate` and the fallbacks over HTTP of a download and a
deletion are never used. They are left out.

Abstractions: the loops visit the node's own directory twice, once as `storage_dir`,
which changes nothing and is done once; the scan that resolves an identifier is one
step; names that begin with a dot, sizes, identifiers and removals that fail are left
out. History variables: `fate[f]` is what the last answered change promises, `alone`
and `quiet` say which changes a handler has overlapped.

| Run | Instance | Checks | Result |
|---|---|---|---|
| `file_store` | three nodes, two names, four requests, one process killed | `TypeOK`, `ExistenceIsRegular`, `DownloadServes`, `ListingIsExact` | holds, 1.3 million states |

Three nodes are the ones the code names. Four requests are an upload, a deletion that
overlaps it, another change and a reader. One content is enough, as no property
compares contents. Requests are bounded, so deadlock is not checked, and no liveness is
claimed.

`ExistenceIsRegular` is the promise of a regular register: changes of one kind may
overlap as they like, but once an upload and a deletion of one name have overlapped,
the file may be there or not. Not claimed: that nodes hold the same content under one
name (two uploads at two nodes leave both), that a file is on more than one node, and
that a download which overlaps an upload is whole.

### Proofs

`FileStoreProofs` proves `ExistenceRegular == Spec => []ExistenceIsRegular` from
`StoreAssumption`, for every number of nodes, names, contents, requests and crashes. The
invariant `StoreInv` adds to it that a file that must be there has no deletion under way
and one that must not no upload (`Fates`); that an upload which no deletion has
overlapped has its file in its directory already (`UploadsAlone`), which is why
answering it may promise the file; and that a deletion which no upload has overlapped
has left nothing in the directories it is done with (`DeletesAlone`), which is why
going through them one by one suffices. A crash keeps it: a file half written is there
before and after.

`StoreTyped`, `DownloadServed` and `ListingExact` prove `TypeOK`, `DownloadServes` and
`ListingIsExact` from a larger invariant, `ReadInv`. It adds what a reader has found out
about a file that was not changed since it began: a listing has seen the file if it is
there, unless it is in a directory still to be read, and a row that is complete names
exactly the nodes that have it (`Listings`); a download has a directory that has the
file, if any has (`Streams`); and a file is half written only while the handler that
writes it is at it (`Writing`), so that a download which no upload overlaps sends the
whole of what a finished or killed handler has left.

## Dashboard

### `Poller`

`clusterStatusService.ts`, `heartbeatService.ts`, `fileService.ts` and, without the
abort controller, `healthService.ts` contain the same loop. The browser runs one
callback at a time: an action is what happens between two awaits.

| Code | Model |
|---|---|
| `startPolling`, `stopPolling`, `reset` | `StartPolling(l)`, each call a new loop `l`; `StopPolling`; `ResetPolling`, with `Cleared` and `AbortedNow` for the one timer and the one request the fields know |
| `executePoll` / `executeLoop` | `Tick` when the timer fires, `AfterFetch` after the await; both look at `isPolling` (`GoesOn`) |
| `retry`, `refreshFiles` | `BeginRefresh` |
| `try`, `catch`, `finally` of the fetch | `FetchSucceeds`, `FetchFails`, `EndFetch` |
| `calculateBackoffInterval` | `Backoff`, rounding included; the power of 1.5 is the fraction `Growth` |

`clusterStatusService` alone keeps its interval when polling starts anew; the others
set it to the base, and so does the model.

### `FileLedger`

`Poller` with the ledger's own state. A list on its way is a copy of the server's
files at the time the request was handled (`answer`), so that stale answers can arrive
after newer ones.

| Code | Model |
|---|---|
| `fetchFiles` | `ServeList`, then `LoadFiles` or `LoadFails` |
| `deleteFile` | `DeletePaused`, or `DeleteFile` (the row goes at once), `ServeDelete`, then `DeleteSucceeds` (with `refreshFiles`) or `DeleteFails` (the row is put back) |
| `setConfirmingDelete`, `dismissDeleteError` | `SetConfirmingDelete`, `DismissDelete` |
| `uploadFile` over `client.ts` | `UploadFile`, `ServeUpload` or `RefuseUpload`, then `UploadSucceeds`, `ClearUpload` or `UploadFails` |
| `setUploadError`, `retryLastUpload`, `dismissUploadError` | `UploadPaused`, `RetryLastUpload`, `DismissUploadError` |
| `reset` | `Reset` |

Abstractions: a file is a number, because the server lists names in order (`Listing` is
the ascending enumeration of the server's files); sizes, the
search filter, progress and downloads are left out. `uploadFile`'s own test for NO
MAJORITY is never reached, since `main.ts` tests first and calls `setUploadError`. The
backend either answers what was asked or not at all (`up`), except that deletions of a
missing file and any upload may be refused. In this repository no request of the
dashboard carries a token, so that every answer would be 401; the model is of the
dashboard with a backend that lets it in.

Bounds: `Loop` (calls of `startPolling`), `Refresh`, `Deletion`, `Upload` (requests of
a kind at once), `MaxStops`, `MaxRefreshes`, `MaxDeletions`, `MaxUploads`, `MaxFaults`,
and `MaxFailures`, where the count of failures no longer changes the interval: the
fourth failure reaches the 15 s that `main.ts` configures. With `MaxFaults = 2` the
backend goes away and comes back once. A user may always stop, so deadlock is not
checked.

Fairness: timers fire, and a request that is under way is handled or fails, because
`request()` and the XMLHttpRequest have timeouts. Users and the backend's availability
owe nothing: `LedgerConverges` takes a backend that stays up as its premise.

| Run | Instance | Checks | Result |
|---|---|---|---|
| `ledger` | two loops, a stop and two other events without uploads; or one loop and two requests among a refresh, a deletion and two uploads, while the backend may go away and come back; or one loop and two deletions, of one file or of two, under way at once, while the backend may go away (`Profile`) | `TypeOK`, `TotalMatchesRows`, `LoopLives`, `HealthyPollsFast`, `StopEndsLoops`, `LedgerConverges`, `DeleteSettles` | holds, 203 thousand states |
| `ledger_refused` | one upload | `UploadSettles` | violated: `onload` ignores every status but 2xx |

Two loops are enough for the case that matters, a loop that outlives the restart
because its request was under way, with the fields pointing at the other one. That only
one loop is alive at a time (the "single-flight" of the comment in
`clusterStatusService.ts`) is therefore not claimed; that all end when polling stops is.
Nor is it claimed that the ledger never shows a row twice: a rollback after a poll has
brought the row back does that, until the next answer.

### Proofs

`LedgerProofs` proves of the loop `PollingSurvives == PollerSpec => []LoopLives` and
`HealthyIsFast == PollerSpec => []HealthyPollsFast`, then that every step of the ledger
is a step of the loop or leaves it alone (`LedgerImplementsPoller == Spec => PollerSpec`),
and hence both of the ledger (`LedgerLoopLives`, `LedgerIsFast`). The invariant is
`LoopInv`, which adds the types of the flag, the phases and the timer to `LoopLives`: the
timer that `stopPolling` clears may be that of the last loop alive, and then `isPolling`
is cleared with it or a new loop begins in the same step.

`PollerTyped == PollerSpec => []PollerTypeOK` adds that the abort controller belongs to
a request under way and that the interval stays between base and maximum after any
number of failures. For the latter the backoff is never below the base
(`BackoffBounded`), since the factor, a recursive function, exists (`GrowthRule`, by
`DefinedByStep`) and never falls below 1 (`GrowthRises`).

`LedgerTyped == Spec => []TypeOK` and `TotalsMatch == Spec => []TotalMatchesRows` are
proved of the ledger from `LedgerInv`. The total is kept by counting, the rows are kept
by position: a removal finds the row it takes out (`RowFound`, `RowRemoved`), a rollback
puts it at a position within the rows that there are by then (`RowInserted`), which
rests on the type of what the deletion remembered, and an answer is a list of files
because the server's set can be listed in order (`SortedEnumeration`).

The theorems assume `PollerAssumption` and `LedgerAssumption` only and hold for every
number of loops, refreshes, files, deletions and uploads and every setting of the
intervals. `StopEndsLoops`, `LedgerConverges` and `DeleteSettles` are liveness
properties and checked by TLC only.

## The page

### `FilePanel`

`renderDashboard` draws the whole page; afterwards listeners keep it current. The file
service calls its listener after every request and every change. The listeners of the
cluster status and of the heartbeats are called too, but update the panel only when
what they last handed to it has changed. The panel's table in turn is not touched when
the signature of what it shows is that of its last update. A fault (an exception in a
render, an uncaught error, an unhandled rejection) replaces the page by a fallback,
under which all listeners return at once. An action is one callback.

| Code | Model |
|---|---|
| `getFilteredFiles`, `findNodeForTarget`, `renderFileRow`, the banner, the cards | `FilteredFiles`, `Reached`, `FileStatus`, `FileRow`, `ClusterNotice`, `StatusSlot`: what drawing shows of the services' state |
| `renderFilePanel`, `updateFilePanelDOM` with `tableSignature` | `FilePanel`, `UpdateFilePanel` with `Signature`; `panel` is what was drawn last |
| the listeners of `init` | `NotifyListeners`, `ClusterStatusArrives`, `HeartbeatsArrive` |
| `renderDashboard` in `errorBoundary.wrap`, `captureError`, `triggerRetry` | `RenderDashboard`, `Fault`, `TriggerRetry`, and `RouteChange` for `hashchange` |
| `uploadFile`, `retryLastUpload`, the two timers | `UploadFile`, `RetryLastUpload`, `UploadEnds`, `ClearUpload` |
| `downloadFile` | `DownloadFile`, `DownloadEnds` |
| `setConfirmingDelete`, `dismissDeleteError`, `deleteFile` | `SetConfirmingDelete`, `DismissDelete`, `DeleteFile`, `DeleteEnds` |

The user acts on what is drawn (`Asking`, `Offering`), not on what the services know:
a stale button is a button. The server, the polling loop and the order of the list are
`FileLedger`'s; here an answer brings any listing. Left out: sizes and dates, upload
progress, the drag overlay, and the loading and error views of the panel, because no
code of the repository switches to them.

### `NodeDetail`

One `selectedNodeId`, one `selectedNodeDetail` and one `isDetailLoading` serve all
requests for a node's detail. A request is not aborted when another node is opened or
the panel is closed, and its answer is applied without a look at what is selected now.
Heartbeats write the same detail.

| Code | Model |
|---|---|
| `openNodeDetail` before and after its await | `OpenNodeDetail` (from `SelectNode`, `RefreshNodeDetail`), then `DetailArrives` or `DetailFails`; `request` has the requests under way, which end in any order |
| `closeNodeDetail` | `CloseNodeDetail`, also under a fallback (Escape) |
| `pollHeartbeats` | `PollSucceeds`, `PollFails`, with `Slide` and `Missed` for the history of a node |
| the heartbeat listener of `init` | `HeartbeatListener` |
| `renderNodeDetailPanel`, `updateNodeDetailDOM` | `NodeDetailPanel`, `NodeDetailDOM`; `drawer` is what was drawn last |
| `updateHeartbeatRailDOM`, `updateNodeListDOM` | `UpdateHeartbeatRail`, `UpdateNodeList` with `ListSignature`; `lanes`, `rows` |
| `renderDashboard`, `captureError`, Re-attempt Render, Reset Telemetry State | `RenderDashboard`, `ShowFallback`, `TriggerRetry`, `Reset` |

Left out: latencies, timestamps, terms and addresses, which are shown and never decided
on, links by hovering, and keyboard focus. The count of missed heartbeats, unbounded in
the code, stops at the length of the history.

### Runs

| Run | Instance | Checks | Result |
|---|---|---|---|
| `file_panel` | files on one and on two nodes, two listings, two states of the nodes, a majority lost or not, two requests, or one and a fault without a search | `TypeOK`, `PanelIsCurrent`, `NoConfirmLeftBehind`, `ShownDownloadRuns`, `DownloadSettles`, `SlotsConverge` | holds, 147 thousand states |
| `node_detail` | two nodes, a history of two, two requests at once, two openings without late heartbeats, or one and a fault | `TypeOK`, `PanelShowsSelection`, `RailIsCurrent`, `ListIsCurrent`, `MissedIsStreak`, `LoadingSettles`, `TelemetryConverges` | holds, 66 thousand states |

Two requests are the fewest that share `downloadState` or `isDetailLoading`; one fault
is enough for a change to be missed under the fallback and for a redraw that leaves the
signatures as they were. The state OPERATIONAL is left out of `file_panel`, as the code
treats it like an unknown one up to the banner's text. The `CONSTRAINT` of a run with
liveness properties bounds only what users, faults and late heartbeats do, never what
fairness obliges, so that the properties are not cut short. A user may leave the page alone and all requests
may be done, so deadlock is not checked.

Fairness. The ledger is polled for as long as the page is there, which is `LoopLives`
of `FileLedger`; that a poll brings anything new is not assumed. Downloads, and requests
for a detail, have timeouts (30 s and 5 s) and end one way or the other.
Heartbeats go on, with whatever result. Users, faults and the nodes owe nothing.

Why some properties stop short. `PanelIsCurrent` and `ListIsCurrent` are stated up to
the first fault: a redraw after a fault, and a plain redraw too, leaves the table's and
the list's signatures as they were, so that an update missed under the fallback can come
to equal the remembered signature while other rows are drawn. `SlotsConverge` and
`RailIsCurrent`, about what has no memo, hold through faults, and so does
`NoConfirmLeftBehind`. `PanelIsCurrent` excepts a table whose last row has gone: it stays
a table, with a row that says so, where drawing anew would give the empty panel.
`TelemetryConverges` allows that a late answer is shown under another node's name until
the next heartbeat, and is about the word for the status only. The update in place
replaces the word; the colour, dot and title of the badge around it, the sentence
"Reachable on network" or "Unreachable / Stalled" below it and the role badge are drawn
once (`badges`) and can contradict it until the panel is drawn anew.

Not claimed: that Retry of an upload respects NO MAJORITY (it is not asked for again),
that lanes of nodes no longer listed disappear (they stay until a lane is missing), that
Reset Telemetry State ends a loading state (`isDetailLoading` is not reset, the request
does it), and that a file chosen in the browser's dialog survives a redraw of the empty
panel.

### Proofs

`FilePanelProofs` proves four of the panel's invariants for every set of files, nodes,
listings and searches and any number of requests and faults. Every step of the system is
one of a few kinds for the page (`StepKinds`): it has the panel updated, it is missed
under a fallback, it hands over what was handed over before, it redraws the page or
replaces it. `TypeCorrect` needs nothing more. `ShownDownloadsRun` is inductive. For
`ConfirmIsCurrent` the table may be kept although `deleteState` changed; `ConfirmSigned`
says that an awaited confirmation is in the signature, so that a table with a Confirm
button is not kept when the confirmation is over. For `CurrentUntilFault`, with the same exception as the property, both memos have
to be true (`CurrentInv`), and equal signatures must mean equal rows (`SignedRows`).

`NodeDetailProofs` proves all five safety invariants. The panel's is inductive together
with the types, because the update in place keeps the name it finds (`DrawerInv`).
`MissedCounts` replaces the counted set by where the streak begins (`StreakBegins`),
which one tick moves by one, and counts the interval at the end.

The theorems assume `PanelAssumption` and `SignatureAssumption`, and `DetailAssumption`,
`ReportAssumption` and `RowsAssumption`: the shape of what servers answer, and that a
signature is not null. `DownloadSettles`, `SlotsConverge`, `LoadingSettles` and
`TelemetryConverges` are liveness properties and checked by TLC only.

## Accounts

### `RateLimiter`

`AuthRateLimiter` in every node process, in memory. The login handler asks it, verifies
the password and reports the outcome. The handler has no await and runs on the event
loop, so that no other handler of the process comes in between (`busy`), but bcrypt takes
time and every call of the limiter reads the clock anew: asking and reporting are two
actions.

| Code | Model |
|---|---|
| `is_rate_limited` | `IsRateLimited` unless it answers that a lockout is on (`Locked`), which changes nothing; with the end of a lockout, pruning (`Recent`) and a new lockout |
| `record_failed_attempt`, `record_successful_attempt` | `RecordFailedAttempt`, `RecordSuccessfulAttempt` |
| an account that is disabled: no report | `RecordNothing` |
| `__init__` at a restart | `ForgetAttempts` |
| `time.time()` | `ClockTicks`; whole units, one clock for all, never set back |

`failures` is a history, all failed checks of a source since its last success or the
start of the process. `attempts` holds positions in it, so that the list can be compared
with what happened. The promise of the limiter's docstring is `LockoutIsExact`: whatever
has been pruned and forgotten on the way, a source is locked out exactly while the
cooldown of a failure runs that was the last of `max_attempts` within a window.

### `Accounts`

`RateLimiter` with the users of every node and the tokens clients hold. Each node keeps
its users in `metadata.db` of its own directory, under random ids. All nodes sign with
the same secret and no route looks the caller up, so that a token of one node is accepted
by the others: `RequireAdmin` asks for any session that says ADMIN, at whatever node it
was issued and whatever has become of its user. Only a refresh looks at the user, and
finds it at the node that knows the id.

| Code | Model |
|---|---|
| `login` | `LoginBegins`, then `LoginFails`, `LoginDisabled` or `LoginSucceeds` with `LoginResponse` |
| `refresh_access_token` | `RefreshAccessToken`, with `Refreshed`; what was exchanged stays valid |
| `decode_access_token`, `require_admin` | `Authorises` (the signature and the time, not `token_type`), `RequireAdmin` |
| `create_user_account` | `CreateUserAccount` |
| `change_user_role` with `count_active_admins` | `ChangeUserRole`, `CountActiveAdmins` |
| `deactivate_user_account`, `update_user_account_status` | `SetUserActiveStatus` |
| the process is restarted | `Restart`: the limiter is empty, the users are on disk |
| expiry | `Tick`, which also drops tokens no route accepts |

Abstractions. The handlers have no await but on functions without one, so each is one
action. A password is right or wrong, as the handler finds it. No route of accounts makes the
first administrator of a node or deletes a user (`delete_user` has no caller), so that a
node starts with any users among whom an active administrator is, and a user stays. This
takes `metadata.db` to be changed by these routes alone. It lies in the directory the
file routes work on (`user_storage.py:31`), under a name they do not refuse; what a file
operation on it does to the users is not modelled. System
tokens, with which nodes call each other, are of no user. `changedAt` is a history.

Bounds: `MaxTime`, `MaxSessions`, and in the run `Profile`: users of the second node are
changed at time 0 only, and failures are followed at the first node only and until its
users change. A node whose clock is at the bound may have nothing left to do, so deadlock
is not checked.

| Run | Instance | Checks | Result |
|---|---|---|---|
| `accounts` | two nodes, two users each, one source, two attempts in a window of 2, a cooldown of 2, tokens of 1 and 2, time up to 4 | `ActiveAdminRemains`, `StaleRightsEnd`, `LockoutIsExact` | holds, 339 thousand states |

Two administrators are the fewest of whom one can be disabled; with a second node there
are administrators who cannot be demoted at the first. Four units of time see a lockout
begin, end, and a second one, or a change and a refresh within the longest token's life.

Not claimed: that rights end with a demotion (they end with the token, which
`StaleRightsEnd` bounds by one life of a token, refreshes included), or that an active
administrator is someone who knows the password.

### Proofs

`AccountsProofs` proves of the limiter, with the hypothesis `Cooldown >= Window` (both
default to 60 s), `LockoutExact == Spec => []LockoutIsExact` and
`FailuresStayBounded == Spec => []FailuresBounded`, that no window holds more than
`max_attempts` failures since the last success. The invariant, `SourceInv`, is about one
source at one node. What the list has lost lies before every window to come
(`Forgotten`); a lockout is that of the last failure (`LockedByLast`), as no password is
verified during one (`NotLockedInCheck`); and without a lockout no cooldown is running
(`NoneRuns`). The hypothesis is used where a lockout that is over clears the list: its
failures have to be out of the window by then. With a shorter cooldown both properties
are false: the list is cleared of failures that still count in a window, so that
the next failure completes one and does not lock. Every action of `Accounts` is a step of
the limiter or leaves it alone (`AccountsUseLimiter`), which carries the results over.

`AdminRemains == Spec => []ActiveAdminRemains` rests on the handler's count and the
change being one step: who is changed is not an active administrator, stays one, or is
one of at least two (`AnotherOne`, `StoreKeepsAdmin`). `RightsEnd == Spec =>
[]StaleRightsEnd` adds that a session was honest until its user's row was last written
(`SessionHonest`), which a refresh keeps because it takes the role from the row.
`AccountsTyped == Spec => []TypeOK` includes that a session's user exists. They assume
`LimiterAssumption` (a limit and a window of at least 1, as their settings are meant),
`AccountsAssumption` and `NoAccount` (the absent row is none) and hold for every number of
nodes, sources, users, roles and sessions.

## Not modelled

Clock synchronisation, the log store and the configurations have no module yet; their
state is small and changed under one lock or in handlers without an await, but for the
sync itself, and they come after what is concurrent. Of the file storage, removals that
fail and the agreement of the contents of two uploads of one name are left out.
Never to be modelled: vendored and generated files, styles, design tokens
and pure rendering code; the static route tables and response models; logging text.
`PROJECT.json` lists every component with its status and the reason.
