---------------------------- MODULE NodeRegistry ----------------------------
(***************************************************************************)
(* The node registry of app/services/health_service.py and the routes of   *)
(* app/api/health.py that change it.                                       *)
(*                                                                         *)
(* Two threads share the registry's dictionaries without a lock: the       *)
(* heartbeat thread, which sweeps over NODE_URLS, asks each node for its   *)
(* health and writes the result, and the event loop, which runs the route  *)
(* handlers one after the other.  A thread may lose the interpreter        *)
(* between any two statements, so a handler that changes two dictionaries  *)
(* takes two steps.                                                        *)
(*                                                                         *)
(* GET /nodes/check is not modelled: GET /nodes/{node_id} is registered    *)
(* before it and takes its requests.  last_heartbeats and the display      *)
(* names are only shown, never decided on, and left out.                   *)
(***************************************************************************)
EXTENDS Naturals, FiniteSets

CONSTANTS
    Name,        \* keys a node may be registered under
    Initial,     \* the keys nodes_status and NODE_URLS start with
    Removable,   \* the nodes an administrator may remove
    Addable,     \* the nodes an administrator may add
    Label,       \* the other words POST /nodes/update stores: it takes any
    MaxAdmin,    \* bound: requests of administrators
    MaxFaults    \* bound: nodes going down and coming back

ASSUME RegistryAssumption ==
    /\ IsFiniteSet(Name)
    /\ Initial \subseteq Name
    /\ Removable \subseteq Name
    /\ Addable \subseteq Name
    /\ MaxAdmin \in Nat
    /\ MaxFaults \in Nat

VARIABLES
    status,      \* nodes_status: a function on the tracked nodes
    urls,        \* the keys of NODE_URLS
    up,          \* the nodes whose process answers GET /health
    sweep,       \* the heartbeat thread
    handler,     \* the second half of a handler that is still to run
    requests,    \* administrators' requests so far
    faults       \* nodes gone down or come back so far

vars == <<status, urls, up, sweep, handler, requests, faults>>

\* What the heartbeat thread finds of a node ...
Health == {"ALIVE", "DEAD"}

\* ... and what may stand for it in nodes_status.
Status == Health \cup {"CORDONED"} \cup Label

Tracked == DOMAIN status

\* The heartbeat thread between two sweeps, and after an exception: nothing
\* catches one in heartbeat_loop.
Asleep == [phase |-> "asleep"]
Died == [phase |-> "died"]

\* The thread in the loop of check_all_nodes: the keys it has yet to visit, the
\* size of the dictionary when it began and the number of visits it has left ...
Iterating == [phase : {"next"}, todo : SUBSET Name, size : Nat, left : Nat]

\* ... and about to check, to compare or to write the node it is at.
Visiting == [phase : {"check", "compare", "write"}, todo : SUBSET Name, size : Nat,
             left : Nat, node : Name, result : Health]

NoHandler == [op |-> "none"]

Halfway == [op : {"remove", "add"}, node : Name]

Init ==
    /\ status = [n \in Initial |-> "ALIVE"]
    /\ urls = Initial
    /\ up = Name
    /\ sweep = Asleep
    /\ handler = NoHandler
    /\ requests = 0
    /\ faults = 0

-----------------------------------------------------------------------------
(***************************************************************************)
(* The heartbeat thread.                                                   *)
(***************************************************************************)

\* check_all_nodes begins.
StartSweep ==
    /\ sweep = Asleep
    /\ sweep' = [phase |-> "next", todo |-> urls,
                 size |-> Cardinality(urls), left |-> Cardinality(urls)]
    /\ UNCHANGED <<status, urls, up, handler, requests, faults>>

\* The iterator finds the dictionary changed under it: its size, or more keys
\* than it counted.  The exception ends the thread.
SweepFails ==
    /\ sweep.phase = "next"
    /\ \/ sweep.size # Cardinality(urls)
       \/ sweep.todo # {} /\ sweep.left = 0
    /\ sweep' = Died
    /\ UNCHANGED <<status, urls, up, handler, requests, faults>>

\* The next key.
NextNode(n) ==
    /\ sweep.phase = "next"
    /\ sweep.size = Cardinality(urls)
    /\ sweep.left > 0
    /\ n \in sweep.todo
    /\ sweep' = [phase |-> "check", todo |-> sweep.todo \ {n}, size |-> sweep.size,
                 left |-> sweep.left - 1, node |-> n, result |-> "DEAD"]
    /\ UNCHANGED <<status, urls, up, handler, requests, faults>>

EndSweep ==
    /\ sweep.phase = "next"
    /\ sweep.size = Cardinality(urls)
    /\ sweep.todo = {}
    /\ sweep' = Asleep
    /\ UNCHANGED <<status, urls, up, handler, requests, faults>>

\* Mutant of CheckNodeHealth: the word the dashboard shows.
CheckNodeHealthShown(n) == IF n \in up THEN "ALIVE" ELSE "OFFLINE"

\* check_node_health: three tries, and "ALIVE" only after an answer.
CheckNodeHealth(n) == IF n \in up THEN "ALIVE" ELSE "DEAD"

\* The thread asks the node.
CheckNode ==
    /\ sweep.phase = "check"
    /\ sweep' = [sweep EXCEPT !.phase = "compare", !.result = CheckNodeHealth(sweep.node)]
    /\ UNCHANGED <<status, urls, up, handler, requests, faults>>

\* The thread compares the result with the status, a KeyError if there is none.
CompareStatus ==
    /\ sweep.phase = "compare"
    /\ sweep' = IF sweep.node \in Tracked THEN [sweep EXCEPT !.phase = "write"] ELSE Died
    /\ UNCHANGED <<status, urls, up, handler, requests, faults>>

\* nodes_status[key] = s, for a key that is there or not.
SetStatus(n, s) ==
    [k \in Tracked \cup {n} |-> IF k = n THEN s ELSE status[k]]

\* Mutant of WrittenStatus: the assignment slipped into the branch behind it.
WrittenIfAlive(n, s) == IF s = "ALIVE" THEN SetStatus(n, s) ELSE status

\* Mutant of WrittenStatus: a node found dead is not looked at again.
WrittenUnlessDead(n, s) ==
    IF n \in Tracked /\ status[n] = "DEAD" THEN status ELSE SetStatus(n, s)

\* The thread writes the result, whatever the status is by now.
WrittenStatus(n, s) == SetStatus(n, s)

WriteStatus ==
    /\ sweep.phase = "write"
    /\ status' = WrittenStatus(sweep.node, sweep.result)
    /\ sweep' = [phase |-> "next", todo |-> sweep.todo, size |-> sweep.size,
                 left |-> sweep.left]
    /\ UNCHANGED <<urls, up, handler, requests, faults>>

-----------------------------------------------------------------------------
(***************************************************************************)
(* The handlers of the event loop, one at a time.                          *)
(***************************************************************************)
Request ==
    /\ handler = NoHandler
    /\ requests < MaxAdmin
    /\ requests' = requests + 1

\* update_node and update_node_status, which look at no word they are given
UpdateNodeStatus(n, s) ==
    /\ Request
    /\ n \in Tracked
    /\ status' = SetStatus(n, s)
    /\ UNCHANGED <<urls, up, sweep, handler, faults>>

\* cordon_node
CordonNode(n) ==
    /\ Request
    /\ n \in Tracked
    /\ status' = SetStatus(n, "CORDONED")
    /\ UNCHANGED <<urls, up, sweep, handler, faults>>

\* uncordon_node
UncordonNode(n) ==
    /\ Request
    /\ n \in Tracked
    /\ status' = SetStatus(n, "ALIVE")
    /\ UNCHANGED <<urls, up, sweep, handler, faults>>

\* remove_node takes the status away ...
RemoveNode(n) ==
    /\ Request
    /\ n \in Tracked \cap Removable
    /\ status' = [k \in Tracked \ {n} |-> status[k]]
    /\ handler' = [op |-> "remove", node |-> n]
    /\ UNCHANGED <<urls, up, sweep, faults>>

\* The keys the iterator has yet to visit, once NODE_URLS has the keys new.
StillToVisit(new) ==
    IF "todo" \in DOMAIN sweep
    THEN [sweep EXCEPT !.todo = (@ \cap new) \cup (new \ urls)] ELSE sweep

\* Mutant of WithoutUrl: the URL stays behind.
WithUrl(n) == urls

\* NODE_URLS.pop(key, None)
WithoutUrl(n) == urls \ {n}

\* ... then the URL.
RemoveUrl ==
    /\ handler.op = "remove"
    /\ urls' = WithoutUrl(handler.node)
    /\ sweep' = StillToVisit(urls')
    /\ handler' = NoHandler
    /\ UNCHANGED <<status, up, requests, faults>>

\* add_node writes the status ...
AddNode(n) ==
    /\ Request
    /\ n \in Addable
    /\ status' = SetStatus(n, "ALIVE")
    /\ handler' = [op |-> "add", node |-> n]
    /\ UNCHANGED <<urls, up, sweep, faults>>

\* ... then the URL.
AddUrl ==
    /\ handler.op = "add"
    /\ urls' = urls \cup {handler.node}
    /\ sweep' = StillToVisit(urls')
    /\ handler' = NoHandler
    /\ UNCHANGED <<status, up, requests, faults>>

-----------------------------------------------------------------------------
\* The processes the registry watches.
GoDown(n) ==
    /\ n \in up
    /\ faults < MaxFaults
    /\ up' = up \ {n}
    /\ faults' = faults + 1
    /\ UNCHANGED <<status, urls, sweep, handler, requests>>

ComeBack(n) ==
    /\ n \notin up
    /\ faults < MaxFaults
    /\ up' = up \cup {n}
    /\ faults' = faults + 1
    /\ UNCHANGED <<status, urls, sweep, handler, requests>>

Heartbeat ==
    \/ StartSweep
    \/ SweepFails
    \/ \E n \in Name : NextNode(n)
    \/ EndSweep
    \/ CheckNode
    \/ CompareStatus
    \/ WriteStatus

Next ==
    \/ Heartbeat
    \/ \E n \in Name, s \in Status : UpdateNodeStatus(n, s)
    \/ \E n \in Name : CordonNode(n)
    \/ \E n \in Name : UncordonNode(n)
    \/ \E n \in Name : RemoveNode(n)
    \/ RemoveUrl
    \/ \E n \in Name : AddNode(n)
    \/ AddUrl
    \/ \E n \in Name : GoDown(n)
    \/ \E n \in Name : ComeBack(n)

Spec == Init /\ [][Next]_vars

\* The heartbeat thread runs until an exception ends it, and the event loop
\* finishes what it began; nothing else has to happen.
FairSpec == Spec /\ WF_vars(Heartbeat) /\ WF_vars(RemoveUrl) /\ WF_vars(AddUrl)

-----------------------------------------------------------------------------
\* Mutant of Active: only a node in maintenance does not count.
ActiveUnlessCordoned == {n \in Tracked : status[n] # "CORDONED"}

\* get_cluster_status, on a node that knows a leader
Active == {n \in Tracked : status[n] = "ALIVE"}

ClusterState ==
    IF Cardinality(Active) = Cardinality(urls) THEN "HEALTHY"
    ELSE IF Cardinality(Active) >= (Cardinality(urls) \div 2) + 1 THEN "OPERATIONAL"
    ELSE "NO MAJORITY"

\* TypeOK: the registry and its two threads stay within their types.  A status may
\* be any word an administrator has written; the heartbeat thread has only two.
TypeOK ==
    /\ Tracked \subseteq Name
    /\ \A n \in Tracked : status[n] \in Status
    /\ urls \subseteq Name
    /\ up \subseteq Name
    /\ sweep \in {Asleep, Died} \cup Iterating \cup Visiting
    /\ handler \in {NoHandler} \cup Halfway
    /\ requests \in 0..MaxAdmin
    /\ faults \in 0..MaxFaults

\* UrlsTracked: between two handlers every node the sweep will visit has a status
\* to compare with, so a sweep that meets no handler halfway raises no KeyError.
UrlsTracked == handler = NoHandler => urls \subseteq Tracked

\* StatusFollowsNode: while the heartbeat thread lives, a registered node that stays
\* down is reported DEAD and one that stays up ALIVE, whatever word administrators
\* write, and whatever they remove and add meanwhile, unless it is left in maintenance.
StatusFollowsNode ==
    \A n \in Name :
        /\ n \in urls \ up ~>
               \/ n \in Tracked /\ status[n] \in {"DEAD", "CORDONED"}
               \/ n \notin urls \/ n \in up \/ sweep = Died
        /\ n \in urls \cap up ~>
               \/ n \in Tracked /\ status[n] \in {"ALIVE", "CORDONED"}
               \/ n \notin urls \/ n \notin up \/ sweep = Died

\* HealthFollowsNodes: "HEALTHY: All cluster nodes are online" (the ClusterState type
\* of the dashboard): the cluster state comes to say so while all registered nodes
\* are up, and comes to deny it while one is down.  Excused are a dead heartbeat
\* thread and a removed node whose status a sweep has brought back.
Excused == sweep = Died \/ ~ Tracked \subseteq urls

HealthFollowsNodes ==
    /\ urls \subseteq up ~> ClusterState = "HEALTHY" \/ ~ urls \subseteq up \/ Excused
    /\ ~ urls \subseteq up ~> ClusterState # "HEALTHY" \/ urls \subseteq up \/ Excused

\* RecoveryIsNoticed: a registered node that is back and stays is reported ALIVE
\* again, as tests/test_node_recovery.py expects.
RecoveryIsNoticed ==
    \A n \in Name :
        n \in urls \cap up ~>
            \/ n \in Tracked /\ status[n] \in {"ALIVE", "CORDONED"}
            \/ n \notin urls \/ n \notin up

=============================================================================
