------------------------- MODULE NodeRegistryProofs -------------------------
(***************************************************************************)
(* The two dictionaries of the registry agree whenever no handler is       *)
(* halfway, and its fields stay within their types, for every set of nodes *)
(* and every number of requests.                                           *)
(***************************************************************************)
EXTENDS NodeRegistry, FiniteSetTheorems, TLAPS

\* UrlsTracked is about the time between two handlers.  What holds halfway: a
\* removal has taken the status of its node away and the URL is still there, an
\* addition has written the status of its node already.
HandlerInv ==
    /\ handler.op \in {"none", "remove", "add"}
    /\ handler.op # "remove" => urls \subseteq Tracked
    /\ handler.op = "remove" => urls \ {handler.node} \subseteq Tracked
    /\ handler.op = "add" => handler.node \in Tracked

\* nodes_status[key] = s removes no key and adds the key.
LEMMA SetStatusTracks ==
    ASSUME NEW n, NEW s, status' = SetStatus(n, s)
    PROVE  Tracked' = Tracked \cup {n}
  BY DEF SetStatus, Tracked

\* No step of the heartbeat thread or of a handler breaks the agreement.
LEMMA HandlerStep ==
    ASSUME HandlerInv, [Next]_vars
    PROVE  HandlerInv'
  <1> USE DEF HandlerInv
  <1>1. ASSUME UNCHANGED <<status, urls, handler>>
        PROVE  HandlerInv'
    BY <1>1 DEF Tracked
  <1>2. CASE WriteStatus
    <2>1. Tracked' = Tracked \cup {sweep.node} /\ UNCHANGED <<urls, handler>>
      BY <1>2, SetStatusTracks DEF WriteStatus, WrittenStatus
    <2> QED
      BY <2>1
  <1>3. ASSUME NEW n \in Name, NEW s, status' = SetStatus(n, s), UNCHANGED <<urls, handler>>
        PROVE  HandlerInv'
    <2>1. Tracked' = Tracked \cup {n}
      BY <1>3, SetStatusTracks
    <2> QED
      BY <1>3, <2>1
  <1>4. ASSUME NEW n \in Name, RemoveNode(n)
        PROVE  HandlerInv'
    <2>1. Tracked' = Tracked \ {n} /\ handler' = [op |-> "remove", node |-> n] /\ urls' = urls
      BY <1>4 DEF RemoveNode, Tracked
    <2>2. urls \subseteq Tracked
      BY <1>4 DEF RemoveNode, Request, NoHandler
    <2> QED
      BY <2>1, <2>2
  <1>5. CASE RemoveUrl
    <2>1. /\ urls' = urls \ {handler.node}
          /\ handler' = [op |-> "none"]
          /\ Tracked' = Tracked
      BY <1>5 DEF RemoveUrl, WithoutUrl, NoHandler, Tracked
    <2> QED
      BY <1>5, <2>1 DEF RemoveUrl
  <1>6. ASSUME NEW n \in Name, AddNode(n)
        PROVE  HandlerInv'
    <2>1. Tracked' = Tracked \cup {n}
      BY <1>6, SetStatusTracks DEF AddNode
    <2>2. handler' = [op |-> "add", node |-> n] /\ urls' = urls /\ urls \subseteq Tracked
      BY <1>6 DEF AddNode, Request, NoHandler
    <2> QED
      BY <2>1, <2>2
  <1>7. CASE AddUrl
    <2>1. /\ urls' = urls \cup {handler.node}
          /\ handler' = [op |-> "none"]
          /\ Tracked' = Tracked
      BY <1>7 DEF AddUrl, NoHandler, Tracked
    <2> QED
      BY <1>7, <2>1 DEF AddUrl
  <1>8. CASE Heartbeat
    BY <1>1, <1>2, <1>8
    DEF Heartbeat, StartSweep, SweepFails, NextNode, EndSweep, CheckNode, CompareStatus
  <1>9. ASSUME NEW n \in Name, NEW s \in Status, UpdateNodeStatus(n, s)
        PROVE  HandlerInv'
    BY <1>3, <1>9 DEF UpdateNodeStatus
  <1>10. ASSUME NEW n \in Name, CordonNode(n) \/ UncordonNode(n)
         PROVE  HandlerInv'
    BY <1>3, <1>10 DEF CordonNode, UncordonNode
  <1>11. ASSUME NEW n \in Name, GoDown(n) \/ ComeBack(n)
         PROVE  HandlerInv'
    BY <1>1, <1>11 DEF GoDown, ComeBack
  <1>12. CASE UNCHANGED vars
    BY <1>1, <1>12 DEF vars
  <1> QED
    BY <1>4, <1>5, <1>6, <1>7, <1>8, <1>9, <1>10, <1>11, <1>12 DEF Next

\* UrlsAreTracked: between two handlers every URL has a status, whatever sweeps and
\* requests came before, for every set of nodes.
THEOREM UrlsAreTracked == Spec => []UrlsTracked
  <1>1. Init => HandlerInv
    BY DEF Init, HandlerInv, NoHandler, Tracked
  <1>2. HandlerInv /\ [Next]_vars => HandlerInv'
    BY HandlerStep
  <1>3. HandlerInv => UrlsTracked
    BY DEF HandlerInv, UrlsTracked, NoHandler
  <1> QED
    BY <1>1, <1>2, <1>3, PTL DEF Spec

-----------------------------------------------------------------------------
\* TypeOK with the domain of the status function spelled out is inductive.
Typed == TypeOK /\ status = [n \in Tracked |-> status[n]]

\* A dictionary of nodes has a number of keys.
LEMMA UrlsCounted ==
    ASSUME TypeOK
    PROVE  Cardinality(urls) \in Nat
  BY RegistryAssumption, FS_Subset, FS_CardinalityType DEF TypeOK

\* nodes_status[key] = s stays within its type.
LEMMA SetStatusTyped ==
    ASSUME Typed, NEW n \in Name, NEW s \in Status, status' = SetStatus(n, s)
    PROVE  /\ Tracked' \subseteq Name
           /\ \A k \in Tracked' : status'[k] \in Status
           /\ status' = [k \in Tracked' |-> status'[k]]
  <1>1. Tracked' = Tracked \cup {n}
    BY SetStatusTracks
  <1> QED
    BY <1>1 DEF Typed, TypeOK, SetStatus

\* The heartbeat thread's sweep survives a change of NODE_URLS as a sweep.
LEMMA StillToVisitTyped ==
    ASSUME Typed, NEW new \in SUBSET Name
    PROVE  StillToVisit(new) \in {Asleep, Died} \cup Iterating \cup Visiting
  <1>1. CASE sweep \in {Asleep, Died}
    BY <1>1 DEF StillToVisit, Asleep, Died
  <1>2. CASE sweep \in Iterating
    BY <1>2 DEF StillToVisit, Iterating, Typed, TypeOK
  <1>3. CASE sweep \in Visiting
    BY <1>3 DEF StillToVisit, Visiting, Typed, TypeOK
  <1> QED
    BY <1>1, <1>2, <1>3 DEF Typed, TypeOK

\* The three kinds of sweep, told apart by their phase.
LEMMA SweepKinds ==
    ASSUME Typed
    PROVE  /\ sweep.phase = "next" => sweep \in Iterating
           /\ sweep.phase \in {"check", "compare", "write"} => sweep \in Visiting
  BY DEF Typed, TypeOK, Asleep, Died, Iterating, Visiting

\* The fields of the heartbeat thread.
SweepTyped == sweep \in {Asleep, Died} \cup Iterating \cup Visiting

LEMMA HeartbeatTyped ==
    ASSUME Typed, Heartbeat
    PROVE  Typed'
  <1>1. CASE UNCHANGED <<status, urls, up, handler, requests, faults>> /\ SweepTyped'
    BY <1>1 DEF Typed, TypeOK, SweepTyped, Tracked
  <1>2. CASE StartSweep
    <2>1. sweep' \in Iterating
      BY <1>2, UrlsCounted DEF StartSweep, Iterating, Typed, TypeOK
    <2> QED
      BY <1>1, <1>2, <2>1 DEF StartSweep, SweepTyped
  <1>3. CASE SweepFails \/ EndSweep
    BY <1>1, <1>3 DEF SweepFails, EndSweep, SweepTyped
  <1>4. ASSUME NEW n \in Name, NextNode(n)
        PROVE  Typed'
    <2>1. sweep \in Iterating
      BY <1>4, SweepKinds DEF NextNode
    <2>2. sweep.left - 1 \in Nat /\ sweep.todo \ {n} \in SUBSET Name /\ sweep.size \in Nat
      BY <1>4, <2>1 DEF NextNode, Iterating
    <2>3. sweep' \in Visiting
      BY <1>4, <2>2 DEF NextNode, Visiting, Health
    <2> QED
      BY <1>1, <1>4, <2>3 DEF NextNode, SweepTyped
  <1>5. CASE CheckNode
    <2>1. sweep \in Visiting
      BY <1>5, SweepKinds DEF CheckNode
    <2>2. CheckNodeHealth(sweep.node) \in Health
      BY DEF CheckNodeHealth, Health
    <2>3. sweep' \in Visiting
      BY <1>5, <2>1, <2>2 DEF CheckNode, Visiting
    <2> QED
      BY <1>1, <1>5, <2>3 DEF CheckNode, SweepTyped
  <1>6. CASE CompareStatus
    <2>1. sweep \in Visiting
      BY <1>6, SweepKinds DEF CompareStatus
    <2>2. sweep' \in {Died} \cup Visiting
      BY <1>6, <2>1 DEF CompareStatus, Visiting
    <2> QED
      BY <1>1, <1>6, <2>2 DEF CompareStatus, SweepTyped
  <1>7. CASE WriteStatus
    <2>1. sweep \in Visiting
      BY <1>7, SweepKinds DEF WriteStatus
    <2>2. sweep' \in Iterating
      BY <1>7, <2>1 DEF WriteStatus, Iterating, Visiting
    <2>3. /\ Tracked' \subseteq Name
          /\ \A k \in Tracked' : status'[k] \in Status
          /\ status' = [k \in Tracked' |-> status'[k]]
      <3>1. sweep.node \in Name /\ sweep.result \in Status
        BY <2>1 DEF Visiting, Status
      <3> QED
        BY <1>7, <3>1, SetStatusTyped DEF WriteStatus, WrittenStatus
    <2> QED
      BY <1>7, <2>2, <2>3 DEF WriteStatus, Typed, TypeOK
  <1> QED
    BY <1>2, <1>3, <1>4, <1>5, <1>6, <1>7 DEF Heartbeat

\* No handler takes the registry out of its types.
LEMMA TypedStep == Typed /\ [Next]_vars => Typed'
  <1> SUFFICES ASSUME Typed, [Next]_vars
               PROVE  Typed'
    OBVIOUS
  <1>0. /\ requests \in Nat /\ MaxAdmin \in Nat /\ MaxFaults \in Nat
        /\ requests < MaxAdmin => requests + 1 \in 0..MaxAdmin
        /\ faults < MaxFaults => faults + 1 \in 0..MaxFaults
    BY RegistryAssumption DEF Typed, TypeOK
  <1>1. ASSUME NEW n \in Name, NEW s \in Status, status' = SetStatus(n, s),
               requests < MaxAdmin, requests' = requests + 1,
               handler' \in {NoHandler} \cup Halfway, UNCHANGED <<urls, up, sweep, faults>>
        PROVE  Typed'
    BY <1>0, <1>1, SetStatusTyped DEF Typed, TypeOK
  <1>2. ASSUME NEW n \in Name, NEW s \in Status, UpdateNodeStatus(n, s)
        PROVE  Typed'
    BY <1>1, <1>2 DEF UpdateNodeStatus, Request, Typed, TypeOK
  <1>3. ASSUME NEW n \in Name, CordonNode(n) \/ UncordonNode(n)
        PROVE  Typed'
    <2>1. "CORDONED" \in Status /\ "ALIVE" \in Status
      BY DEF Status, Health
    <2> QED
      BY <1>1, <1>3, <2>1 DEF CordonNode, UncordonNode, Request, Typed, TypeOK
  <1>4. ASSUME NEW n \in Name, AddNode(n)
        PROVE  Typed'
    <2>1. "ALIVE" \in Status /\ [op |-> "add", node |-> n] \in Halfway
      BY DEF Status, Health, Halfway
    <2> QED
      BY <1>1, <1>4, <2>1 DEF AddNode, Request
  <1>5. ASSUME NEW n \in Name, RemoveNode(n)
        PROVE  Typed'
    <2>1. [op |-> "remove", node |-> n] \in Halfway
      BY DEF Halfway
    <2>2. status' = [k \in Tracked \ {n} |-> status[k]] /\ Tracked' = Tracked \ {n}
      BY <1>5 DEF RemoveNode, Tracked
    <2>3. /\ Tracked' \subseteq Name
          /\ \A k \in Tracked' : status'[k] \in Status
          /\ status' = [k \in Tracked' |-> status'[k]]
      BY <2>2 DEF Typed, TypeOK
    <2> QED
      BY <1>0, <1>5, <2>1, <2>3 DEF RemoveNode, Request, Typed, TypeOK
  <1>6. CASE RemoveUrl
    <2>1. urls' \in SUBSET Name
      BY <1>6 DEF RemoveUrl, WithoutUrl, Typed, TypeOK
    <2> QED
      BY <1>6, <2>1, StillToVisitTyped DEF RemoveUrl, Typed, TypeOK, Tracked
  <1>7. CASE AddUrl
    <2>1. handler.node \in Name
      BY <1>7 DEF AddUrl, Typed, TypeOK, NoHandler, Halfway
    <2>2. urls' \in SUBSET Name
      BY <1>7, <2>1 DEF AddUrl, Typed, TypeOK
    <2> QED
      BY <1>7, <2>2, StillToVisitTyped DEF AddUrl, Typed, TypeOK, Tracked
  <1>8. ASSUME NEW n \in Name, GoDown(n) \/ ComeBack(n)
        PROVE  Typed'
    BY <1>0, <1>8 DEF GoDown, ComeBack, Typed, TypeOK, Tracked
  <1>9. CASE UNCHANGED vars
    BY <1>9 DEF vars, Typed, TypeOK, Tracked
  <1> QED
    BY <1>2, <1>3, <1>4, <1>5, <1>6, <1>7, <1>8, <1>9, HeartbeatTyped DEF Next

\* TypeOK: the registry, a handler that is halfway and the heartbeat thread stay within
\* their types, whatever words administrators write and whatever dictionary changes a
\* sweep meets.
THEOREM RegistryTyped == Spec => []TypeOK
  <1>1. Init => Typed
    <2> SUFFICES ASSUME Init
                 PROVE  Typed
      OBVIOUS
    <2>1. Tracked = Initial /\ status = [n \in Initial |-> "ALIVE"]
      BY DEF Init, Tracked
    <2> QED
      BY <2>1, RegistryAssumption DEF Init, Typed, TypeOK, Status, Health
  <1>2. Typed => TypeOK
    BY DEF Typed
  <1> QED
    BY <1>1, <1>2, TypedStep, PTL DEF Spec

=============================================================================
