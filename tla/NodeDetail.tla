----------------------------- MODULE NodeDetail -----------------------------
(***************************************************************************)
(* The dashboard's heartbeat rail, node list and node detail panel:        *)
(* main.ts, heartbeatService.ts, HeartbeatRail.ts, NodeList.ts and         *)
(* NodeDetailPanel.ts.                                                     *)
(*                                                                         *)
(* One selectedNodeId, one selectedNodeDetail and one isDetailLoading      *)
(* serve all requests for a node's detail, which are neither aborted nor   *)
(* told apart when they end.  Heartbeats feed the same detail.  Each       *)
(* action is a callback, or a stretch of one between awaits; the loop of   *)
(* the heartbeat service is Poller's, here its requests end in any order.  *)
(*                                                                         *)
(* Of what a node reports the model keeps status and role.  Latencies,     *)
(* times and addresses, hover links and keyboard focus are left out.       *)
(***************************************************************************)
EXTENDS Naturals, Sequences, FiniteSets

CONSTANTS
    Node,          \* the nodes
    Role,          \* roles a node may report
    FirstRole,     \* the roles initializeDefaultNodes gives them
    Report,        \* what an answer may say of a node
    Request,       \* requests for a node's detail that may be under way at once
    None,          \* null
    Ticks,         \* maxHistoryTicks
    MaxOpens,      \* bound: openings of the panel
    MaxFaults      \* bound: exceptions nobody caught

ASSUME DetailAssumption ==
    /\ IsFiniteSet(Node) /\ Node # {}
    /\ FirstRole \in [Node -> Role]
    /\ None \notin Node
    /\ Ticks \in Nat \ {0}
    /\ {MaxOpens, MaxFaults} \subseteq Nat

Status == {"ONLINE", "OFFLINE"}

Tick == {"ok", "warn", "missed"}

\* A node that is offline has missed its heartbeat; the heartbeat of one that is online
\* may be late.
ASSUME ReportAssumption ==
    /\ Report \subseteq [status : Status, role : Role, tick : Tick]
    /\ \A r \in Report : r.status = "OFFLINE" <=> r.tick = "missed"

\* What the node list remembers of its rows.
RowsType ==
    UNION {[ns -> [status : Status, role : Role, marked : BOOLEAN]] : ns \in SUBSET Node}

ASSUME RowsAssumption == None \notin RowsType

VARIABLES
    nodeMap,   \* nodeMap of the heartbeat service
    listed,    \* the nodes of its lastResult
    selected,  \* selectedNodeId
    detail,    \* selectedNodeDetail
    loading,   \* isDetailLoading
    failed,    \* detailErrorMessage is set
    request,   \* the node each getNodeById under way asks for
    error,     \* errorBoundary.hasError()
    lanes,     \* the lanes drawn
    rows,      \* the rows drawn
    signature, \* lastNodeListSignature
    drawer,    \* what #node-detail-root shows
    opens, faults

serviceVars == <<nodeMap, listed>>
selectionVars == <<selected, detail, loading, failed>>
listVars == <<lanes, rows, signature>>
vars == <<serviceVars, selectionVars, request, error, listVars, drawer, opens, faults>>

-----------------------------------------------------------------------------
(***************************************************************************)
(* What is drawn of a node.                                                *)
(***************************************************************************)

\* The detail a node's heartbeat stands for.
Telemetry(n) == [of |-> n, status |-> nodeMap[n].status, role |-> nodeMap[n].role]

\* renderHeartbeatLane, and the same by updateHeartbeatRailDOM
HeartbeatLane(n, sel) ==
    [status |-> nodeMap[n].status, role |-> nodeMap[n].role,
     history |-> nodeMap[n].history, pulsing |-> nodeMap[n].isPulsing,
     marked |-> n = sel]

\* renderNodeRow
NodeRow(n, sel) ==
    [status |-> nodeMap[n].status, role |-> nodeMap[n].role, marked |-> n = sel]

NodeRows(sel) == [n \in listed |-> NodeRow(n, sel)]

\* Mutant of ListSignature: the selection is left out.
ListSignatureUnmarked(sel) == NodeRows(None)

\* What updateNodeListDOM compares: it looks at what a row shows.
ListSignature(sel) == NodeRows(sel)

HeartbeatRail(sel) == [n \in listed |-> HeartbeatLane(n, sel)]

Closed == [kind |-> "closed"]

\* renderNodeDetailSkeleton
Skeleton(n) == [kind |-> "loading", title |-> n]

\* renderNodeDetailError
FetchError(n) == [kind |-> "error", title |-> n]

\* The normal view: the texts updated in place, and what is drawn once, the badges of
\* role and status and whether the node is reachable.
Normal(n, d) ==
    [kind |-> "normal", title |-> n,
     live |-> IF d = None THEN None ELSE [of |-> d.of, status |-> d.status],
     badges |-> d]

\* Mutant of NodeDetailPanel: the panel is open while it has a detail to show.
NodeDetailPanelByDetail(n, d, isLoading, hasFailed) ==
    IF n = None /\ d = None THEN Closed
    ELSE IF isLoading THEN Skeleton(n)
    ELSE IF hasFailed THEN FetchError(n)
    ELSE Normal(n, d)

\* renderNodeDetailPanel
NodeDetailPanel(n, d, isLoading, hasFailed) ==
    IF n = None THEN Closed
    ELSE IF isLoading THEN Skeleton(n)
    ELSE IF hasFailed THEN FetchError(n)
    ELSE Normal(n, d)

\* Mutant of NodeDetailDOM: nothing but another node redraws the panel.
NodeDetailDOMKept(n, d) ==
    IF drawer.kind = "normal" /\ drawer.title = n THEN drawer ELSE Normal(n, d)

\* updateNodeDetailDOM: the word for the status is replaced, and no badge.  Only the
\* normal view carries the node's name, so that any other is drawn anew, as a normal
\* view.
NodeDetailDOM(n, d) ==
    IF drawer.kind = "normal" /\ drawer.title = n
    THEN [drawer EXCEPT !.live = Normal(n, d).live]
    ELSE Normal(n, d)

Init ==
    /\ nodeMap = [n \in Node |->
           [status |-> "ONLINE", role |-> FirstRole[n], isPulsing |-> FALSE,
            history |-> [i \in 1..Ticks |-> "ok"], consecutiveMissed |-> 0]]
    /\ listed = Node
    /\ selected = None
    /\ detail = None
    /\ loading = FALSE
    /\ failed = FALSE
    /\ request = [q \in Request |-> None]
    /\ error = FALSE
    /\ lanes = HeartbeatRail(None)
    /\ rows = NodeRows(None)
    /\ signature = None
    /\ drawer = Closed
    /\ opens = 0
    /\ faults = 0

-----------------------------------------------------------------------------
(***************************************************************************)
(* Drawing.  Under a fallback there is nothing to draw into.               *)
(***************************************************************************)

\* Mutant of UpdateHeartbeatRail: a lane that is there keeps its mark.
UpdateHeartbeatRailMarked(sel) ==
    lanes' = IF listed' \subseteq DOMAIN lanes
             THEN [n \in DOMAIN lanes |->
                      IF n \in listed'
                      THEN [HeartbeatLane(n, sel)' EXCEPT !.marked = lanes[n].marked]
                      ELSE lanes[n]]
             ELSE HeartbeatRail(sel)'

\* updateHeartbeatRailDOM: the lanes are updated one by one, those of nodes that are
\* no longer listed are left as they are; a lane that is missing has all drawn anew.
UpdateHeartbeatRail(sel) ==
    lanes' = IF listed' \subseteq DOMAIN lanes
             THEN [n \in DOMAIN lanes |->
                      IF n \in listed' THEN HeartbeatLane(n, sel)' ELSE lanes[n]]
             ELSE HeartbeatRail(sel)'

\* updateNodeListDOM
UpdateNodeList(sel) ==
    /\ rows' = IF ListSignature(sel)' = signature THEN rows ELSE NodeRows(sel)'
    /\ signature' = ListSignature(sel)'

UpdateLists(sel) ==
    IF error
    THEN UNCHANGED listVars
    ELSE UpdateHeartbeatRail(sel) /\ UpdateNodeList(sel)

\* renderNodeDetailContainer
RenderNodeDetail ==
    drawer' = IF error THEN drawer ELSE NodeDetailPanel(selected', detail', loading', failed')

\* The page is replaced by the fallback.
ShowFallback ==
    /\ faults < MaxFaults
    /\ faults' = faults + 1
    /\ error' = TRUE
    /\ lanes' = << >>
    /\ rows' = << >>
    /\ drawer' = [kind |-> "fallback"]

\* renderDashboard draws everything, or an exception in it is caught by wrap.
RenderDashboard ==
    /\ UNCHANGED signature
    /\ \/ /\ error' = FALSE
          /\ lanes' = HeartbeatRail(selected)'
          /\ rows' = NodeRows(selected)'
          /\ drawer' = NodeDetailPanel(selected', detail', loading', failed')
          /\ UNCHANGED faults
       \/ ShowFallback

\* hashchange
RouteChange ==
    /\ ~ error
    /\ UNCHANGED <<serviceVars, selectionVars, request, opens>>
    /\ RenderDashboard

\* window.onerror and unhandledrejection
Fault ==
    /\ ShowFallback
    /\ UNCHANGED <<serviceVars, selectionVars, request, signature, opens>>

\* Re-attempt Render: what was selected is shown again.
TriggerRetry ==
    /\ error
    /\ UNCHANGED <<serviceVars, selectionVars, request, opens>>
    /\ RenderDashboard

\* Reset Telemetry State: nothing is selected, but isDetailLoading stays.
Reset ==
    /\ error
    /\ selected' = None
    /\ detail' = None
    /\ UNCHANGED <<serviceVars, loading, failed, request, opens>>
    /\ RenderDashboard

-----------------------------------------------------------------------------
(***************************************************************************)
(* pollHeartbeats.                                                         *)
(***************************************************************************)

\* Mutant of Slide: nothing is shifted out.
SlideGrown(history, tick) == Append(history, tick)

\* The history is a window of the last ticks.
Slide(history, tick) == Append(Tail(history), tick)

\* Mutant of Missed: a late heartbeat counts as none missed.
MissedIfOffline(node, tick) ==
    IF tick # "missed" THEN 0
    ELSE IF node.consecutiveMissed < Ticks THEN node.consecutiveMissed + 1 ELSE Ticks

\* consecutiveMissed, which the model counts up to the length of the history.
Missed(node, tick) ==
    IF tick = "ok" THEN 0
    ELSE IF node.consecutiveMissed < Ticks THEN node.consecutiveMissed + 1 ELSE Ticks

\* A node as it is after it was heard of.
Heard(node, status, role, tick) ==
    [status |-> status, role |-> role, isPulsing |-> tick = "ok",
     history |-> Slide(node.history, tick), consecutiveMissed |-> Missed(node, tick)]

\* The listener of main.ts: the lists, and the panel if the node it shows is listed.
HeartbeatListener ==
    /\ UpdateLists(selected)
    /\ IF error \/ selected \notin listed'
       THEN UNCHANGED <<detail, drawer>>
       ELSE detail' = Telemetry(selected)' /\ drawer' = NodeDetailDOM(selected, detail')

\* An answer that says of each node n in the set ns: heard[n].  A node that is online
\* and whose heartbeat neither advanced nor is recent gets a warning.  An answer
\* without nodes leaves the list to all nodes known.
HeartbeatsArrive(ns, heard) ==
    /\ nodeMap' = [n \in Node |->
           IF n \in ns
           THEN Heard(nodeMap[n], heard[n].status, heard[n].role, heard[n].tick)
           ELSE nodeMap[n]]
    /\ listed' = IF ns = {} THEN Node ELSE ns
    /\ UNCHANGED <<selected, loading, failed, request, error, opens, faults>>
    /\ HeartbeatListener

PollSucceeds ==
    \E ns \in SUBSET Node : \E heard \in [ns -> Report] : HeartbeatsArrive(ns, heard)

\* Every node known is taken to be offline.
PollFails ==
    HeartbeatsArrive(Node, [n \in Node |->
        [status |-> "OFFLINE", role |-> nodeMap[n].role, tick |-> "missed"]])

-----------------------------------------------------------------------------
(***************************************************************************)
(* The panel.                                                              *)
(***************************************************************************)

\* openNodeDetail until its await.  The detail of the node before stays if this node
\* is not listed.
OpenNodeDetail(n, q) ==
    /\ opens < MaxOpens
    /\ opens' = opens + 1
    /\ request[q] = None
    /\ request' = [request EXCEPT ![q] = n]
    /\ selected' = n
    /\ detail' = IF n \in listed THEN Telemetry(n) ELSE detail
    /\ loading' = TRUE
    /\ failed' = FALSE
    /\ UNCHANGED <<serviceVars, error, faults>>
    /\ UpdateLists(n)
    /\ RenderNodeDetail

\* A row or a lane, by the mouse, or by the keyboard also when the panel is open.
SelectNode(n, q) ==
    /\ n \in DOMAIN rows \cup DOMAIN lanes
    /\ OpenNodeDetail(n, q)

\* Refresh Telemetry and Retry.
RefreshNodeDetail(q) ==
    /\ drawer.kind \in {"normal", "error"}
    /\ selected # None
    /\ OpenNodeDetail(selected, q)

\* The answer for a node: it becomes the detail, whatever is selected by now.
DetailArrives(q) ==
    /\ request[q] # None
    /\ request' = [request EXCEPT ![q] = None]
    /\ \E r \in Report : detail' = [of |-> request[q], status |-> r.status, role |-> r.role]
    /\ loading' = FALSE
    /\ UNCHANGED <<serviceVars, selected, failed, error, listVars, opens, faults>>
    /\ RenderNodeDetail

\* Mutant of LoadingAfterFailure: the flag is not reset.
LoadingKept == loading

LoadingAfterFailure == FALSE

\* No answer for a node: shown only if there is no detail, of whichever node.
DetailFails(q) ==
    /\ request[q] # None
    /\ request' = [request EXCEPT ![q] = None]
    /\ loading' = LoadingAfterFailure
    /\ failed' = IF detail = None THEN TRUE ELSE failed
    /\ UNCHANGED <<serviceVars, selected, detail, error, listVars, opens, faults>>
    /\ RenderNodeDetail

\* Close, the backdrop, and the Escape key, which also works under a fallback.
CloseNodeDetail ==
    /\ selected # None
    /\ selected' = None
    /\ detail' = None
    /\ loading' = FALSE
    /\ failed' = FALSE
    /\ UNCHANGED <<serviceVars, request, error, opens, faults>>
    /\ UpdateLists(None)
    /\ RenderNodeDetail

-----------------------------------------------------------------------------
Next ==
    \/ RouteChange
    \/ Fault
    \/ TriggerRetry
    \/ Reset
    \/ PollSucceeds
    \/ PollFails
    \/ \E n \in Node, q \in Request : SelectNode(n, q)
    \/ \E q \in Request : RefreshNodeDetail(q)
    \/ \E q \in Request : DetailArrives(q)
    \/ \E q \in Request : DetailFails(q)
    \/ CloseNodeDetail

Spec == Init /\ [][Next]_vars

\* Polls go on (LoopLives), whatever they bring; a request for a detail is answered,
\* refused or timed out.  Users owe nothing.
Fairness ==
    /\ WF_vars(PollSucceeds \/ PollFails)
    /\ \A q \in Request : WF_vars(DetailArrives(q) \/ DetailFails(q))

FairSpec == Spec /\ Fairness

-----------------------------------------------------------------------------
\* TypeOK: the services' and the page's state stay within their types.
TypeOK ==
    /\ nodeMap \in [Node -> [status : Status, role : Role, isPulsing : BOOLEAN,
                             history : Seq(Tick), consecutiveMissed : 0..Ticks]]
    /\ \A n \in Node : Len(nodeMap[n].history) = Ticks
    /\ listed \subseteq Node /\ listed # {}
    /\ selected \in Node \cup {None}
    /\ detail \in {None} \cup [of : Node, status : Status, role : Role]
    /\ loading \in BOOLEAN
    /\ failed \in BOOLEAN
    /\ request \in [Request -> Node \cup {None}]
    /\ error \in BOOLEAN
    /\ DOMAIN lanes \subseteq Node
    /\ DOMAIN rows \subseteq Node
    /\ drawer.kind \in {"closed", "loading", "error", "normal", "fallback"}
    /\ opens \in 0..MaxOpens
    /\ faults \in 0..MaxFaults

\* PanelShowsSelection: the panel is open exactly while a node is selected, and under
\* that node's name: no answer or heartbeat that comes late, before or after a
\* fault, opens it again or shows another node.
PanelShowsSelection ==
    IF error THEN drawer.kind = "fallback"
    ELSE IF selected = None THEN drawer = Closed
    ELSE drawer.kind \in {"loading", "error", "normal"} /\ drawer.title = selected

\* RailIsCurrent: the lane of every node that is listed shows its last state and
\* ticks, and is marked if and only if its detail is open, whatever was missed under
\* a fallback.
RailIsCurrent ==
    ~ error => /\ listed \subseteq DOMAIN lanes
               /\ \A n \in listed : lanes[n] = HeartbeatLane(n, selected)

\* ListIsCurrent: until a fault, the node list shows what drawing it anew would show,
\* although it is not touched when its signature is unchanged.
ListIsCurrent == faults = 0 => rows = NodeRows(selected)

\* MissedIsStreak: the count of missed heartbeats is the number of ticks since the
\* last one that was on time, through failed polls and answers without the node.
Streak(history) ==
    Cardinality({i \in 1..Ticks : \A j \in i..Ticks : history[j] # "ok"})

MissedIsStreak == \A n \in Node : nodeMap[n].consecutiveMissed = Streak(nodeMap[n].history)

\* LoadingSettles: the panel does not stay in its loading state, also when requests
\* of several openings end in any order or the page was reset in between.
LoadingSettles == loading ~> ~ loading

\* TelemetryConverges: while a node stays selected and listed, the word for the status in
\* its panel comes to be its own, as last heard, in place of a skeleton, an error or the
\* late answer of another node.  Of the badges beside it, which stay as they were drawn,
\* this says nothing.
ShowsOwn(n) ==
    /\ drawer.kind = "normal"
    /\ drawer.live = [of |-> n, status |-> nodeMap[n].status]

TelemetryConverges ==
    \A n \in Node :
        selected = n ~> selected # n \/ n \notin listed \/ error \/ ShowsOwn(n)

=============================================================================
