-------------------------- MODULE NodeDetailProofs --------------------------
(***************************************************************************)
(* The node detail panel, the rail and the list follow the selection and   *)
(* the heartbeats, for every set of nodes, any number of openings, of      *)
(* requests under way at once and of faults, and any length of history.    *)
(***************************************************************************)
EXTENDS NodeDetail, FiniteSetTheorems, TLAPS

-----------------------------------------------------------------------------
(***************************************************************************)
(* What is heard of the nodes: types, and the count of missed heartbeats.  *)
(***************************************************************************)

\* TypeOK of the heartbeat service.
NodeOK(node) ==
    /\ node \in [status : Status, role : Role, isPulsing : BOOLEAN,
                 history : Seq(Tick), consecutiveMissed : 0..Ticks]
    /\ Len(node.history) = Ticks

\* MissedIsStreak counts a set; what a step preserves is where the streak begins:
\* the last ticks, as many as were counted, are all late or missed, and the one
\* before them, if there is one, was on time.
StreakBegins(node) ==
    /\ \A i \in 1..Ticks : i > Ticks - node.consecutiveMissed => node.history[i] # "ok"
    /\ node.consecutiveMissed < Ticks =>
           node.history[Ticks - node.consecutiveMissed] = "ok"

NodeInv(node) == NodeOK(node) /\ StreakBegins(node)

HeardOK ==
    /\ nodeMap \in [Node -> [status : Status, role : Role, isPulsing : BOOLEAN,
                             history : Seq(Tick), consecutiveMissed : 0..Ticks]]
    /\ \A n \in Node : NodeInv(nodeMap[n])
    /\ listed \subseteq Node /\ listed # {}

LEMMA TicksPositive == Ticks \in Nat /\ Ticks > 0
  BY DetailAssumption

\* The window moves by one.
LEMMA SlideShifts ==
    ASSUME NEW history \in Seq(Tick), Len(history) = Ticks, NEW tick \in Tick
    PROVE  /\ Slide(history, tick) \in Seq(Tick)
           /\ Len(Slide(history, tick)) = Ticks
           /\ \A i \in 1..Ticks :
                  Slide(history, tick)[i] = IF i = Ticks THEN tick ELSE history[i + 1]
  <1>1. Tail(history) \in Seq(Tick) /\ Len(Tail(history)) = Ticks - 1
    BY TicksPositive
  <1>2. \A i \in 1..(Ticks - 1) : Tail(history)[i] = history[i + 1]
    BY TicksPositive
  <1>3. Slide(history, tick) \in Seq(Tick) /\ Len(Slide(history, tick)) = Ticks
    BY <1>1, TicksPositive DEF Slide
  <1>4. ASSUME NEW i \in 1..Ticks
        PROVE  Slide(history, tick)[i] = IF i = Ticks THEN tick ELSE history[i + 1]
    BY <1>1, <1>2, TicksPositive DEF Slide
  <1> QED
    BY <1>3, <1>4

\* A node that was heard of keeps its type and its count.
LEMMA HeardKeeps ==
    ASSUME NEW node, NodeInv(node),
           NEW status \in Status, NEW role \in Role, NEW tick \in Tick
    PROVE  NodeInv(Heard(node, status, role, tick))
  <1> DEFINE after == Heard(node, status, role, tick)
  <1>1. /\ node.history \in Seq(Tick) /\ Len(node.history) = Ticks
        /\ node.consecutiveMissed \in 0..Ticks
    BY DEF NodeInv, NodeOK
  <1>2. /\ after.history = Slide(node.history, tick)
        /\ after.consecutiveMissed = Missed(node, tick)
    BY DEF Heard
  <1>3. Missed(node, tick) \in 0..Ticks
    BY <1>1, TicksPositive DEF Missed
  <1>4. NodeOK(after)
    BY <1>1, <1>3, SlideShifts DEF NodeOK, Heard
  <1>5. \A i \in 1..Ticks : after.history[i] = IF i = Ticks THEN tick ELSE node.history[i + 1]
    <2>1. \A i \in 1..Ticks : Slide(node.history, tick)[i] =
                                 IF i = Ticks THEN tick ELSE node.history[i + 1]
      BY <1>1, SlideShifts
    <2> HIDE DEF after
    <2> QED
      BY <1>2, <2>1
  <1>6. StreakBegins(after)
    <2>1. CASE tick = "ok"
      BY <1>2, <1>5, <2>1, TicksPositive DEF StreakBegins, Missed
    <2>2. CASE tick # "ok"
      <3>1. ASSUME NEW i \in 1..Ticks, i > Ticks - after.consecutiveMissed
            PROVE  after.history[i] # "ok"
        BY <1>1, <1>2, <1>5, <2>2, <3>1, TicksPositive DEF StreakBegins, Missed, NodeInv
      <3>2. ASSUME after.consecutiveMissed < Ticks
            PROVE  after.history[Ticks - after.consecutiveMissed] = "ok"
        <4>1. after.consecutiveMissed = node.consecutiveMissed + 1
          BY <1>1, <1>2, <2>2, <3>2 DEF Missed
        <4>2. node.history[Ticks - node.consecutiveMissed] = "ok"
          BY <1>1, <3>2, <4>1 DEF NodeInv, StreakBegins
        <4>3. /\ Ticks - after.consecutiveMissed \in 1..Ticks
              /\ Ticks - after.consecutiveMissed # Ticks
              /\ Ticks - after.consecutiveMissed + 1 = Ticks - node.consecutiveMissed
          BY <1>1, <3>2, <4>1, TicksPositive
        <4> HIDE DEF after
        <4> QED
          BY <1>5, <4>2, <4>3
      <3> QED
        BY <3>1, <3>2 DEF StreakBegins
    <2> QED
      BY <2>1, <2>2
  <1> QED
    BY <1>4, <1>6 DEF NodeInv

LEMMA HeardInit == Init => HeardOK
  <1> SUFFICES ASSUME Init PROVE HeardOK
    OBVIOUS
  <1>1. ASSUME NEW n \in Node
        PROVE  NodeInv(nodeMap[n])
    <2>1. nodeMap[n] =
            [status |-> "ONLINE", role |-> FirstRole[n], isPulsing |-> FALSE,
             history |-> [i \in 1..Ticks |-> "ok"], consecutiveMissed |-> 0]
      BY DEF Init
    <2>2. /\ [i \in 1..Ticks |-> "ok"] \in Seq(Tick)
          /\ Len([i \in 1..Ticks |-> "ok"]) = Ticks
      BY TicksPositive DEF Tick
    <2>3. FirstRole[n] \in Role
      BY DetailAssumption
    <2> QED
      BY <2>1, <2>2, <2>3, TicksPositive DEF NodeInv, NodeOK, StreakBegins, Status
  <1>2. listed \subseteq Node /\ listed # {}
    BY DetailAssumption DEF Init
  <1>3. nodeMap = [n \in Node |-> nodeMap[n]]
    BY DEF Init
  <1> QED
    BY <1>1, <1>2, <1>3 DEF HeardOK, NodeInv, NodeOK

LEMMA HeartbeatsTyped ==
    ASSUME HeardOK, NEW ns \in SUBSET Node, NEW heard,
           \A n \in ns : /\ heard[n].status \in Status
                         /\ heard[n].role \in Role
                         /\ heard[n].tick \in Tick,
           HeartbeatsArrive(ns, heard)
    PROVE  HeardOK'
  <1>1. ASSUME NEW n \in Node
        PROVE  NodeInv(nodeMap'[n])
    <2>1. NodeInv(nodeMap[n])
      BY DEF HeardOK
    <2>2. CASE n \in ns
      BY <2>1, <2>2, HeardKeeps DEF HeartbeatsArrive
    <2>3. CASE n \notin ns
      BY <2>1, <2>3 DEF HeartbeatsArrive
    <2> QED
      BY <2>2, <2>3
  <1>2. nodeMap' = [n \in Node |-> nodeMap'[n]]
    BY DEF HeartbeatsArrive
  <1>3. listed' \subseteq Node /\ listed' # {}
    BY DetailAssumption DEF HeartbeatsArrive
  <1>4. \A n \in Node : nodeMap'[n] \in [status : Status, role : Role, isPulsing : BOOLEAN,
                                        history : Seq(Tick), consecutiveMissed : 0..Ticks]
    BY <1>1 DEF NodeInv, NodeOK
  <1> QED
    BY <1>1, <1>2, <1>3, <1>4 DEF HeardOK, NodeInv, NodeOK, StreakBegins

LEMMA HeardTyped ==
    ASSUME HeardOK, [Next]_vars
    PROVE  HeardOK'
  <1>1. ASSUME UNCHANGED serviceVars
        PROVE  HeardOK'
    BY <1>1 DEF serviceVars, HeardOK, NodeInv, NodeOK, StreakBegins
  <1>2. CASE PollSucceeds
    <2>1. PICK ns \in SUBSET Node : \E heard \in [ns -> Report] : HeartbeatsArrive(ns, heard)
      BY <1>2 DEF PollSucceeds
    <2>2. PICK heard \in [ns -> Report] : HeartbeatsArrive(ns, heard)
      BY <2>1
    <2>3. \A n \in ns : heard[n] \in [status : Status, role : Role, tick : Tick]
      BY <2>2, ReportAssumption
    <2> QED
      BY <2>2, <2>3, HeartbeatsTyped
  <1>3. CASE PollFails
    <2> DEFINE heard == [n \in Node |->
                  [status |-> "OFFLINE", role |-> nodeMap[n].role, tick |-> "missed"]]
    <2>1. HeartbeatsArrive(Node, heard)
      BY <1>3 DEF PollFails
    <2>2. \A n \in Node : /\ heard[n].status \in Status
                          /\ heard[n].role \in Role
                          /\ heard[n].tick \in Tick
      BY DEF HeardOK, Status, Tick
    <2> HIDE DEF heard
    <2> QED
      BY <2>1, <2>2, HeartbeatsTyped
  <1> QED
    BY <1>1, <1>2, <1>3 DEF Next, vars, RouteChange, Fault, TriggerRetry, Reset, SelectNode,
       RefreshNodeDetail, OpenNodeDetail, DetailArrives, DetailFails, CloseNodeDetail

\* Where the streak begins says how long it is.
LEMMA StreakIsCounted ==
    ASSUME NEW node, NodeInv(node)
    PROVE  node.consecutiveMissed = Streak(node.history)
  <1> DEFINE c == node.consecutiveMissed
             S == {i \in 1..Ticks : \A j \in i..Ticks : node.history[j] # "ok"}
  <1>1. c \in 0..Ticks /\ Ticks \in Nat
    BY TicksPositive DEF NodeInv, NodeOK
  <1>2. S = (Ticks - c + 1)..Ticks
    <2>1. ASSUME NEW i \in S
          PROVE  i \in (Ticks - c + 1)..Ticks
      <3>1. SUFFICES ASSUME i <= Ticks - c PROVE FALSE
        BY <1>1
      <3>2. c < Ticks /\ Ticks - c \in i..Ticks
        BY <1>1, <3>1
      <3> QED
        BY <3>2 DEF NodeInv, StreakBegins
    <2>2. ASSUME NEW i \in (Ticks - c + 1)..Ticks
          PROVE  i \in S
      BY <1>1 DEF NodeInv, StreakBegins
    <2> QED
      BY <2>1, <2>2
  <1>3. Cardinality((Ticks - c + 1)..Ticks) = c
    <2>1. Ticks - c + 1 \in Int /\ Ticks \in Int
      BY <1>1
    <2>2. Cardinality((Ticks - c + 1)..Ticks) =
            IF Ticks - c + 1 > Ticks THEN 0 ELSE Ticks - (Ticks - c + 1) + 1
      BY <2>1, FS_Interval
    <2> QED
      BY <1>1, <2>2
  <1> QED
    BY <1>2, <1>3 DEF Streak

\* The count of missed heartbeats is the number of ticks since the last one that was
\* on time, for every length of the history, through failed polls and answers
\* without the node.
THEOREM MissedCounts == Spec => []MissedIsStreak
  <1>1. HeardOK /\ [Next]_vars => HeardOK'
    BY HeardTyped
  <1>2. HeardOK => MissedIsStreak
    BY StreakIsCounted DEF HeardOK, MissedIsStreak
  <1> QED
    BY HeardInit, <1>1, <1>2, PTL DEF Spec

-----------------------------------------------------------------------------
(***************************************************************************)
(* What is selected: types.                                                *)
(***************************************************************************)

SelectionOK ==
    /\ selected \in Node \cup {None}
    /\ detail \in {None} \cup [of : Node, status : Status, role : Role]
    /\ loading \in BOOLEAN
    /\ failed \in BOOLEAN
    /\ request \in [Request -> Node \cup {None}]
    /\ opens \in 0..MaxOpens

LEMMA BoundsAreNumbers == MaxOpens \in Nat /\ MaxFaults \in Nat
  BY DetailAssumption

LEMMA TelemetryTyped ==
    ASSUME HeardOK, NEW n \in Node
    PROVE  Telemetry(n) \in [of : Node, status : Status, role : Role]
  BY DEF HeardOK, Telemetry

LEMMA TelemetryTypedNext ==
    ASSUME HeardOK', NEW n \in Node
    PROVE  Telemetry(n)' \in [of : Node, status : Status, role : Role]
  BY DEF HeardOK, Telemetry

LEMMA OpenTyped ==
    ASSUME HeardOK, SelectionOK, NEW n \in Node, NEW q \in Request, OpenNodeDetail(n, q)
    PROVE  SelectionOK'
  <1>1. opens' \in 0..MaxOpens
    BY BoundsAreNumbers DEF OpenNodeDetail, SelectionOK
  <1>2. detail' \in {None} \cup [of : Node, status : Status, role : Role]
    BY TelemetryTyped DEF OpenNodeDetail, SelectionOK
  <1> QED
    BY <1>1, <1>2 DEF OpenNodeDetail, SelectionOK

\* A row or a lane is a node's.
DrawnAreNodes == DOMAIN lanes \subseteq Node /\ DOMAIN rows \subseteq Node

LEMMA SelectionTyped ==
    ASSUME HeardOK, HeardOK', SelectionOK, DrawnAreNodes, [Next]_vars
    PROVE  SelectionOK'
  <1>1. ASSUME UNCHANGED <<selectionVars, request, opens>>
        PROVE  SelectionOK'
    BY <1>1 DEF selectionVars, SelectionOK
  <1>2. CASE RouteChange \/ Fault \/ TriggerRetry
    BY <1>1, <1>2 DEF RouteChange, Fault, TriggerRetry
  <1>3. CASE Reset
    BY <1>3 DEF Reset, SelectionOK
  <1>4. ASSUME NEW ns, NEW heard, HeartbeatsArrive(ns, heard)
        PROVE  SelectionOK'
    <2>1. selected' = selected /\ UNCHANGED <<loading, failed, request, opens>>
      BY <1>4 DEF HeartbeatsArrive
    <2>2. \/ detail' = detail
          \/ selected \in listed' /\ detail' = Telemetry(selected)'
      BY <1>4 DEF HeartbeatsArrive, HeartbeatListener
    <2>3. selected \in listed' =>
            Telemetry(selected)' \in [of : Node, status : Status, role : Role]
      BY <2>1 DEF HeardOK, Telemetry
    <2> QED
      BY <2>1, <2>2, <2>3 DEF SelectionOK
  <1>5. CASE PollSucceeds \/ PollFails
    BY <1>4, <1>5 DEF PollSucceeds, PollFails
  <1>6. ASSUME NEW n \in Node, NEW q \in Request, SelectNode(n, q)
        PROVE  SelectionOK'
    BY <1>6, OpenTyped DEF SelectNode
  <1>7. ASSUME NEW q \in Request, RefreshNodeDetail(q)
        PROVE  SelectionOK'
    BY <1>7, OpenTyped DEF RefreshNodeDetail, SelectionOK
  <1>8. ASSUME NEW q \in Request, DetailArrives(q)
        PROVE  SelectionOK'
    <2>1. request[q] \in Node
      BY <1>8 DEF DetailArrives, SelectionOK
    <2>2. PICK r \in Report :
            detail' = [of |-> request[q], status |-> r.status, role |-> r.role]
      BY <1>8 DEF DetailArrives
    <2>3. r.status \in Status /\ r.role \in Role
      BY ReportAssumption
    <2> QED
      BY <1>8, <2>1, <2>2, <2>3 DEF DetailArrives, SelectionOK
  <1>9. ASSUME NEW q \in Request, DetailFails(q)
        PROVE  SelectionOK'
    BY <1>9 DEF DetailFails, LoadingAfterFailure, SelectionOK
  <1>10. CASE CloseNodeDetail
    BY <1>10 DEF CloseNodeDetail, SelectionOK
  <1> QED
    BY <1>1, <1>2, <1>3, <1>5, <1>6, <1>7, <1>8, <1>9, <1>10 DEF Next, vars

-----------------------------------------------------------------------------
(***************************************************************************)
(* Kinds of steps, as the page sees them.                                  *)
(***************************************************************************)

\* The lists are brought up to date, or nothing they show has changed.
ListsFollow ==
    \/ UpdateLists(selected)
    \/ UNCHANGED <<serviceVars, selected, listVars>>

\* So is the panel.
PanelFollows ==
    \/ RenderNodeDetail
    \/ UNCHANGED <<selected, drawer>>
    \/ /\ ~ error
       /\ selected \in Node
       /\ UNCHANGED selected
       /\ drawer' = NodeDetailDOM(selected, detail')

Follows ==
    /\ UNCHANGED <<error, faults>>
    /\ ListsFollow
    /\ PanelFollows

\* renderDashboard drew the page.
Redraws ==
    /\ error' = FALSE
    /\ lanes' = HeartbeatRail(selected)'
    /\ rows' = NodeRows(selected)'
    /\ drawer' = NodeDetailPanel(selected', detail', loading', failed')
    /\ UNCHANGED <<serviceVars, signature, faults>>
    /\ selected' \in {selected, None}
    /\ ~ error => UNCHANGED selected

\* The page was replaced by the fallback.
Falls ==
    /\ ShowFallback
    /\ UNCHANGED <<serviceVars, signature>>

\* The mark set for the node that is being selected is the mark of the selection.
LEMMA MarksSelection ==
    ASSUME NEW n, UpdateLists(n), selected' = n
    PROVE  UpdateLists(selected)
  BY DEF UpdateLists, UpdateHeartbeatRail, UpdateNodeList, HeartbeatRail, HeartbeatLane,
         ListSignature, NodeRows, NodeRow

LEMMA StepKinds ==
    ASSUME HeardOK', SelectionOK, [Next]_vars
    PROVE  Follows \/ Redraws \/ Falls
  <1>1. CASE RouteChange \/ TriggerRetry
    BY <1>1 DEF RouteChange, TriggerRetry, RenderDashboard, Redraws, Falls, selectionVars
  <1>2. CASE Reset
    BY <1>2 DEF Reset, RenderDashboard, Redraws, Falls
  <1>3. CASE Fault
    BY <1>3 DEF Fault, Falls
  <1>4. ASSUME NEW ns, NEW heard, HeartbeatsArrive(ns, heard)
        PROVE  Follows
    <2>1. UpdateLists(selected) /\ UNCHANGED <<error, faults, selected>>
      BY <1>4 DEF HeartbeatsArrive, HeartbeatListener
    <2>2. \/ UNCHANGED drawer
          \/ ~ error /\ selected \in listed' /\ drawer' = NodeDetailDOM(selected, detail')
      BY <1>4 DEF HeartbeatsArrive, HeartbeatListener
    <2>3. listed' \subseteq Node
      BY DEF HeardOK
    <2> QED
      BY <2>1, <2>2, <2>3 DEF Follows, ListsFollow, PanelFollows
  <1>5. CASE PollSucceeds \/ PollFails
    BY <1>4, <1>5 DEF PollSucceeds, PollFails
  <1>6. ASSUME NEW n, NEW q \in Request, OpenNodeDetail(n, q)
        PROVE  Follows
    BY <1>6, MarksSelection DEF OpenNodeDetail, Follows, ListsFollow, PanelFollows
  <1>7. ASSUME NEW q \in Request,
               (\E n \in Node : SelectNode(n, q)) \/ RefreshNodeDetail(q)
        PROVE  Follows
    BY <1>6, <1>7 DEF SelectNode, RefreshNodeDetail
  <1>8. ASSUME NEW q \in Request, DetailArrives(q) \/ DetailFails(q)
        PROVE  Follows
    BY <1>8 DEF DetailArrives, DetailFails, Follows, ListsFollow, PanelFollows
  <1>9. CASE CloseNodeDetail
    BY <1>9, MarksSelection DEF CloseNodeDetail, Follows, ListsFollow, PanelFollows
  <1>10. CASE UNCHANGED vars
    BY <1>10 DEF vars, selectionVars, Follows, ListsFollow, PanelFollows
  <1> QED
    BY <1>1, <1>2, <1>3, <1>5, <1>7, <1>8, <1>9, <1>10 DEF Next

-----------------------------------------------------------------------------
(***************************************************************************)
(* What is drawn: types, and PanelShowsSelection.                          *)
(***************************************************************************)

PageOK ==
    /\ error \in BOOLEAN
    /\ faults \in 0..MaxFaults
    /\ DrawnAreNodes

\* updateNodeDetailDOM looks into the normal view and keeps most of it.
DrawerOK ==
    /\ drawer.kind \in {"closed", "loading", "error", "normal", "fallback"}
    /\ drawer.kind = "normal" => {"kind", "title", "live"} \subseteq DOMAIN drawer

DrawerInv == DrawerOK /\ PanelShowsSelection

\* A panel drawn for a selection shows it.
LEMMA PanelDrawn ==
    ASSUME NEW n \in Node \cup {None}, NEW d, NEW isLoading, NEW hasFailed,
           drawer' = NodeDetailPanel(n, d, isLoading, hasFailed), selected' = n, ~ error'
    PROVE  DrawerInv'
  BY DEF NodeDetailPanel, Closed, Skeleton, FetchError, Normal, DrawerInv, DrawerOK,
         PanelShowsSelection

\* So does one that is updated in place.
LEMMA PanelUpdated ==
    ASSUME DrawerInv, selected \in Node, UNCHANGED selected, NEW d,
           drawer' = NodeDetailDOM(selected, d), ~ error'
    PROVE  DrawerInv'
  <1>0. selected' # None
    BY DetailAssumption
  <1>1. CASE drawer.kind = "normal" /\ drawer.title = selected
    <2>1. drawer' = [drawer EXCEPT !.live = Normal(selected, d).live]
      BY <1>1 DEF NodeDetailDOM
    <2>2. {"kind", "title", "live"} \subseteq DOMAIN drawer
      BY <1>1 DEF DrawerInv, DrawerOK
    <2>3. drawer'.kind = "normal" /\ drawer'.title = selected
          /\ DOMAIN drawer' = DOMAIN drawer
      BY <1>1, <2>1, <2>2
    <2> QED
      BY <1>0, <2>2, <2>3 DEF DrawerInv, DrawerOK, PanelShowsSelection
  <1>2. CASE ~ (drawer.kind = "normal" /\ drawer.title = selected)
    <2>1. drawer' = Normal(selected, d)
      BY <1>2 DEF NodeDetailDOM
    <2>2. drawer'.kind = "normal" /\ drawer'.title = selected
          /\ {"kind", "title", "live"} \subseteq DOMAIN drawer'
      BY <2>1 DEF Normal
    <2> QED
      BY <1>0, <2>2 DEF DrawerInv, DrawerOK, PanelShowsSelection
  <1> QED
    BY <1>1, <1>2

LEMMA DrawerStep ==
    ASSUME SelectionOK, SelectionOK', HeardOK', DrawerInv, error \in BOOLEAN, [Next]_vars
    PROVE  DrawerInv'
  <1>1. CASE Follows
    <2>1. CASE RenderNodeDetail /\ ~ error
      BY <1>1, <2>1, PanelDrawn DEF RenderNodeDetail, Follows, SelectionOK
    <2>2. CASE RenderNodeDetail /\ error
      BY <1>1, <2>2 DEF RenderNodeDetail, Follows, DrawerInv, DrawerOK, PanelShowsSelection
    <2>3. CASE UNCHANGED <<selected, drawer>>
      BY <1>1, <2>3 DEF Follows, DrawerInv, DrawerOK, PanelShowsSelection
    <2>4. CASE ~ error /\ selected \in Node /\ UNCHANGED selected
               /\ drawer' = NodeDetailDOM(selected, detail')
      BY <1>1, <2>4, PanelUpdated DEF Follows
    <2> QED
      BY <1>1, <2>1, <2>2, <2>3, <2>4 DEF Follows, PanelFollows
  <1>2. CASE Redraws
    BY <1>2, PanelDrawn DEF Redraws, SelectionOK
  <1>3. CASE Falls
    BY <1>3 DEF Falls, ShowFallback, DrawerInv, DrawerOK, PanelShowsSelection
  <1> QED
    BY <1>1, <1>2, <1>3, StepKinds

LEMMA PageTyped ==
    ASSUME SelectionOK, HeardOK', PageOK, [Next]_vars
    PROVE  PageOK'
  <1>0. listed' \subseteq Node /\ MaxFaults \in Nat
    BY BoundsAreNumbers DEF HeardOK
  <1>1. CASE Follows
    <2>1. DrawnAreNodes'
      BY <1>0, <1>1 DEF Follows, ListsFollow, UpdateLists, UpdateHeartbeatRail, UpdateNodeList,
             HeartbeatRail, NodeRows, listVars, PageOK, DrawnAreNodes
    <2> QED
      BY <1>1, <2>1 DEF Follows, PageOK
  <1>2. CASE Redraws
    BY <1>0, <1>2 DEF Redraws, HeartbeatRail, NodeRows, PageOK, DrawnAreNodes
  <1>3. CASE Falls
    <2>1. DOMAIN lanes' = {} /\ DOMAIN rows' = {}
      BY <1>3 DEF Falls, ShowFallback
    <2> QED
      BY <1>0, <1>3, <2>1 DEF Falls, ShowFallback, PageOK, DrawnAreNodes
  <1> QED
    BY <1>1, <1>2, <1>3, StepKinds

DetailInv == HeardOK /\ SelectionOK /\ PageOK /\ DrawerInv

LEMMA DetailInit == Init => DetailInv
  <1> SUFFICES ASSUME Init PROVE DetailInv
    OBVIOUS
  <1>1. opens \in 0..MaxOpens /\ faults \in 0..MaxFaults
    <2>1. opens = 0 /\ faults = 0
      BY DEF Init
    <2> QED
      BY <2>1, BoundsAreNumbers
  <1>2. SelectionOK
    <2>1. /\ selected = None /\ detail = None /\ loading = FALSE /\ failed = FALSE
          /\ request = [q \in Request |-> None]
      BY DEF Init
    <2> QED
      BY <1>1, <2>1 DEF SelectionOK
  <1>3. PageOK
    <2>1. error \in BOOLEAN
      BY DEF Init
    <2>2. DOMAIN lanes = Node /\ DOMAIN rows = Node
      BY DEF Init, HeartbeatRail, NodeRows
    <2> QED
      BY <1>1, <2>1, <2>2 DEF PageOK, DrawnAreNodes
  <1>4. DrawerInv
    BY DEF Init, Closed, DrawerInv, DrawerOK, PanelShowsSelection
  <1> QED
    BY <1>2, <1>3, <1>4, HeardInit DEF DetailInv

LEMMA DetailStep ==
    ASSUME DetailInv, [Next]_vars
    PROVE  DetailInv'
  <1>1. HeardOK'
    BY HeardTyped DEF DetailInv
  <1>2. SelectionOK'
    BY <1>1, SelectionTyped DEF DetailInv, PageOK
  <1>3. PageOK'
    BY <1>1, PageTyped DEF DetailInv
  <1>4. DrawerInv'
    BY <1>1, <1>2, DrawerStep DEF DetailInv, PageOK
  <1> QED
    BY <1>1, <1>2, <1>3, <1>4 DEF DetailInv

LEMMA DetailCorrect == Spec => []DetailInv
  BY DetailInit, DetailStep, PTL DEF Spec

\* The services' and the page's state stay within their types.
THEOREM TypeCorrect == Spec => []TypeOK
  <1>1. DetailInv => TypeOK
    BY DEF DetailInv, HeardOK, NodeInv, NodeOK, SelectionOK, PageOK, DrawnAreNodes, DrawerInv,
           DrawerOK, TypeOK
  <1> QED
    BY <1>1, DetailCorrect, PTL

\* The panel is open exactly while a node is selected, and under that node's name,
\* whatever answers and heartbeats come and whenever.
THEOREM SelectionIsShown == Spec => []PanelShowsSelection
  <1>1. DetailInv => PanelShowsSelection
    BY DEF DetailInv, DrawerInv
  <1> QED
    BY <1>1, DetailCorrect, PTL

-----------------------------------------------------------------------------
(***************************************************************************)
(* RailIsCurrent and ListIsCurrent.                                        *)
(***************************************************************************)

\* Updating the lanes one by one, or drawing them anew, makes those listed current.
LEMMA RailUpdated ==
    ASSUME UpdateHeartbeatRail(selected)
    PROVE  /\ listed' \subseteq DOMAIN lanes'
           /\ \A n \in listed' : lanes'[n] = HeartbeatLane(n, selected)'
  <1>1. CASE listed' \subseteq DOMAIN lanes
    BY <1>1 DEF UpdateHeartbeatRail
  <1>2. CASE ~ (listed' \subseteq DOMAIN lanes)
    BY <1>2 DEF UpdateHeartbeatRail, HeartbeatRail
  <1> QED
    BY <1>1, <1>2

LEMMA SameLanes ==
    ASSUME UNCHANGED <<serviceVars, selected, lanes>>, RailIsCurrent, ~ error
    PROVE  RailIsCurrent'
  <1>1. nodeMap' = nodeMap /\ listed' = listed /\ selected' = selected /\ lanes' = lanes
    BY DEF serviceVars
  <1>2. \A n \in listed : HeartbeatLane(n, selected)' = HeartbeatLane(n, selected)
    BY <1>1 DEF HeartbeatLane
  <1> QED
    BY <1>1, <1>2 DEF RailIsCurrent

\* The lane of every node that is listed shows its last state and ticks, and is marked
\* if and only if its detail is open, for every set of nodes that come and go.
THEOREM RailFollows == Spec => []RailIsCurrent
  <1>1. Init => RailIsCurrent
    <2> SUFFICES ASSUME Init PROVE RailIsCurrent
      OBVIOUS
    <2>1. lanes = HeartbeatRail(selected)
      BY DEF Init
    <2> QED
      BY <2>1 DEF RailIsCurrent, HeartbeatRail
  <1>2. ASSUME DetailInv, DetailInv', RailIsCurrent, [Next]_vars
        PROVE  RailIsCurrent'
    <2>1. CASE Follows
      <3>1. CASE error
        BY <2>1, <3>1 DEF Follows, RailIsCurrent
      <3>2. CASE ~ error /\ UpdateLists(selected)
        BY <3>2, RailUpdated DEF UpdateLists, RailIsCurrent
      <3>3. CASE ~ error /\ UNCHANGED <<serviceVars, selected, listVars>>
        BY <1>2, <3>3, SameLanes DEF listVars
      <3> QED
        BY <2>1, <3>1, <3>2, <3>3 DEF Follows, ListsFollow
    <2>2. CASE Redraws
      BY <2>2 DEF Redraws, HeartbeatRail, RailIsCurrent
    <2>3. CASE Falls
      BY <2>3 DEF Falls, ShowFallback, RailIsCurrent
    <2> QED
      BY <1>2, <2>1, <2>2, <2>3, StepKinds DEF DetailInv
  <1> QED
    BY <1>1, <1>2, DetailCorrect, PTL DEF Spec

\* Until a fault the list is current and so is what it remembers of itself.
ListInv ==
    faults = 0 =>
        /\ ~ error
        /\ rows = NodeRows(selected)
        /\ signature \in {None, NodeRows(selected)}

LEMMA RowsTyped ==
    ASSUME HeardOK'
    PROVE  NodeRows(selected)' # None
  <1>1. listed' \in SUBSET Node
    BY DEF HeardOK
  <1>2. NodeRows(selected)' \in [listed' -> [status : Status, role : Role, marked : BOOLEAN]]
    BY DEF HeardOK, NodeRows, NodeRow
  <1>3. NodeRows(selected)' \in RowsType
    BY <1>1, <1>2 DEF RowsType
  <1> QED
    BY <1>3, RowsAssumption

LEMMA ListStep ==
    ASSUME DetailInv, DetailInv', ListInv, [Next]_vars
    PROVE  ListInv'
  <1>1. CASE Follows
    <2>1. CASE faults # 0
      BY <1>1, <2>1 DEF Follows, ListInv
    <2>2. CASE faults = 0 /\ UpdateLists(selected)
      <3>1. UpdateNodeList(selected)
        BY <2>2 DEF ListInv, UpdateLists
      <3>2. ListSignature(selected)' = NodeRows(selected)' /\ NodeRows(selected)' # None
        BY RowsTyped DEF ListSignature, DetailInv
      <3>3. rows' = NodeRows(selected)' /\ signature' = NodeRows(selected)'
        BY <2>2, <3>1, <3>2 DEF UpdateNodeList, ListInv
      <3> QED
        BY <1>1, <2>2, <3>3 DEF Follows, ListInv
    <2>3. CASE faults = 0 /\ UNCHANGED <<serviceVars, selected, listVars>>
      <3>1. NodeRows(selected)' = NodeRows(selected) /\ rows' = rows /\ signature' = signature
        BY <2>3 DEF serviceVars, listVars, NodeRows, NodeRow
      <3> QED
        BY <1>1, <2>3, <3>1 DEF Follows, ListInv
    <2> QED
      BY <1>1, <2>1, <2>2, <2>3 DEF Follows, ListsFollow
  <1>2. CASE Redraws
    <2>1. CASE faults # 0
      BY <1>2, <2>1 DEF Redraws, ListInv
    <2>2. CASE faults = 0
      <3>1. /\ rows' = NodeRows(selected)' /\ signature' = signature
            /\ selected' = selected /\ UNCHANGED serviceVars
        BY <1>2, <2>2 DEF Redraws, ListInv
      <3>2. NodeRows(selected)' = NodeRows(selected)
        BY <3>1 DEF serviceVars, NodeRows, NodeRow
      <3> QED
        BY <1>2, <2>2, <3>1, <3>2 DEF Redraws, ListInv
    <2> QED
      BY <2>1, <2>2
  <1>3. CASE Falls
    BY <1>3 DEF Falls, ShowFallback, ListInv, DetailInv, PageOK
  <1> QED
    BY <1>1, <1>2, <1>3, StepKinds DEF DetailInv

\* Until a fault, the node list shows what drawing it anew would show: no change of a
\* node or of the selection is lost to its memo.
THEOREM ListFollows == Spec => []ListIsCurrent
  <1>1. Init => ListInv
    BY DEF Init, ListInv
  <1>2. DetailInv /\ DetailInv' /\ ListInv /\ [Next]_vars => ListInv'
    BY ListStep
  <1>3. ListInv => ListIsCurrent
    BY DEF ListInv, ListIsCurrent
  <1> QED
    BY <1>1, <1>2, <1>3, DetailCorrect, PTL DEF Spec

=============================================================================
