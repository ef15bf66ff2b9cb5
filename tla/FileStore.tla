----------------------------- MODULE FileStore ------------------------------
(***************************************************************************)
(* The files of the nodes: app/api/replicate_routes.py over the            *)
(* directories nodes/Node*/Storage, and app/services/                      *)
(* replication_service.py.                                                 *)
(*                                                                         *)
(* Every node process stores uploads in its own directory, and reads and   *)
(* removes files in all of them.  A handler runs to its end on its node's  *)
(* event loop (none of them awaits), while the handlers of other processes *)
(* run between its calls to the file system; a download is sent after its  *)
(* handler has returned, so that other handlers of the node run before the *)
(* file is opened.                                                         *)
(*                                                                         *)
(* Nothing goes from node to node: is_node_alive asks GET /health without  *)
(* the token that route demands.  The fallbacks over HTTP of a download    *)
(* and a deletion depend on the same test and are left out.                *)
(***************************************************************************)
EXTENDS Naturals, FiniteSets

CONSTANTS
    Node,          \* nodes and their directories, in the order of NODES
    Name,          \* file names
    Content,       \* what a user uploads
    None,
    MaxRequests,   \* bound: requests of users
    MaxCrashes     \* bound: processes killed

ASSUME StoreAssumption ==
    /\ Node \subseteq Nat /\ IsFiniteSet(Node)
    /\ None \notin Node \cup Name
    /\ Content \cap {"absent", "partial", "torn"} = {}
    /\ MaxRequests \in Nat
    /\ MaxCrashes \in Nat

VARIABLES
    dir,           \* what each directory holds under each name
    up,            \* the processes that run
    job,           \* the handler each event loop is in
    stream,        \* the download each node has to send
    fate,          \* history: whether a file must be there, must not, or may
    requests, crashes

vars == <<dir, up, job, stream, fate, requests, crashes>>

\* A file that is not there, that a handler is writing, that a killed handler was
\* writing (nothing in the code tells the last two apart).
Held == Content \cup {"partial", "torn"}

Holders(f) == {d \in Node : dir[d][f] # "absent"}

Idle == [op |-> "idle"]

\* A handler that changes f is under way on n.
Uploading(n, f) == job[n].op = "upload" /\ job[n].name = f
Deleting(n, f) == job[n].op = "delete" /\ job[n].name = f
Changing(f) == \E n \in Node : Uploading(n, f) \/ Deleting(n, f)

Init ==
    /\ dir = [d \in Node |-> [f \in Name |-> "absent"]]
    /\ up = Node
    /\ job = [n \in Node |-> Idle]
    /\ stream = [n \in Node |-> None]
    /\ fate = [f \in Name |-> "out"]
    /\ requests = 0
    /\ crashes = 0

Request(n) ==
    /\ n \in up
    /\ job[n] = Idle
    /\ requests < MaxRequests
    /\ requests' = requests + 1

\* The order in which a handler visits directories: its own first, then by node.
First(todo, n) ==
    IF n \in todo THEN n ELSE CHOOSE d \in todo : \A e \in todo : d <= e

\* History.  A change of f that begins is noted in the handlers it overlaps with: an
\* upload or a deletion of f is no longer alone among changes of the other kind, and
\* what a listing or a download has seen of f is no longer what is there.
NotedIn(j, f, kind) ==
    IF j.op = kind /\ j.name = f THEN [j EXCEPT !.alone = FALSE]
    ELSE IF j.op = "list" THEN [j EXCEPT !.quiet = @ \ {f}] ELSE j

Noted(f, kind) == [m \in Node |-> NotedIn(job[m], f, kind)]

StreamsNoted(f) ==
    [m \in Node |-> IF stream[m] # None /\ stream[m].name = f
                    THEN [stream[m] EXCEPT !.quiet = FALSE] ELSE stream[m]]

-----------------------------------------------------------------------------
(***************************************************************************)
(* POST /files/upload.                                                     *)
(***************************************************************************)

\* The file is opened for writing, and truncated if there is one.
BeginUpload(n, f, c) ==
    /\ Request(n)
    /\ dir' = [dir EXCEPT ![n][f] = "partial"]
    /\ job' = [Noted(f, "delete") EXCEPT ![n] =
          [op |-> "upload", name |-> f, content |-> c, at |-> "copy", linked |-> TRUE,
           alone |-> \A m \in Node : ~ Deleting(m, f)]]
    /\ stream' = StreamsNoted(f)
    /\ fate' = [fate EXCEPT ![f] = IF @ = "out" THEN "open" ELSE @]
    /\ UNCHANGED <<up, crashes>>

\* The content is copied, to no avail if the file was removed since.
CopyContent(n) ==
    /\ job[n].op = "upload"
    /\ job[n].at = "copy"
    /\ dir' = IF job[n].linked THEN [dir EXCEPT ![n][job[n].name] = job[n].content] ELSE dir
    /\ job' = [job EXCEPT ![n].at = "replicate"]
    /\ UNCHANGED <<up, stream, fate, requests, crashes>>

\* GET /health
HealthStatus(token) == IF token THEN 200 ELSE 401

\* is_node_alive: no token is sent.
IsNodeAlive(p) == p \in up /\ HealthStatus(FALSE) = 200

\* replicate_file: to the nodes that are alive.
Reached(n) == {p \in Node \ {n} : IsNodeAlive(p)}

AnswerUpload(n) ==
    /\ job[n].op = "upload"
    /\ job[n].at = "replicate"
    /\ LET f == job[n].name
       IN  /\ dir' = [d \in Node |-> IF d \in Reached(n)
                          THEN [dir[d] EXCEPT ![f] = job[n].content] ELSE dir[d]]
           /\ fate' = [fate EXCEPT ![f] = IF job[n].alone THEN "in" ELSE @]
    /\ job' = [job EXCEPT ![n] = Idle]
    /\ UNCHANGED <<up, stream, requests, crashes>>

-----------------------------------------------------------------------------
(***************************************************************************)
(* DELETE /files/{file_id}, by name or by identifier.                      *)
(***************************************************************************)

\* Mutant of Targets: the handler's own directory only.
TargetsOwn(n) == {n}

\* The directories a deletion looks into.
Targets(n) == Node

\* An identifier under which no directory has a file stays as it is, and no
\* file has that name.
BeginDelete(n, f, byId) ==
    /\ Request(n)
    /\ job' = [Noted(f, "upload") EXCEPT ![n] =
          [op |-> "delete", name |-> f, removed |-> FALSE,
           todo |-> IF byId /\ Holders(f) = {} THEN {} ELSE Targets(n),
           alone |-> \A m \in Node : ~ Uploading(m, f)]]
    /\ stream' = StreamsNoted(f)
    /\ fate' = [fate EXCEPT ![f] = IF @ = "in" THEN "open" ELSE @]
    /\ UNCHANGED <<dir, up, crashes>>

\* One directory.  A handler that is writing the file goes on writing to a file
\* without a name.
RemoveReplica(n) ==
    /\ job[n].op = "delete"
    /\ job[n].todo # {}
    /\ LET f == job[n].name
           d == First(job[n].todo, n)
       IN  /\ dir' = [dir EXCEPT ![d][f] = "absent"]
           /\ job' = [m \in Node |->
                  IF m = n THEN [job[n] EXCEPT !.todo = @ \ {d}, !.removed = @ \/ d \in Holders(f)]
                  ELSE IF m = d /\ Uploading(d, f) THEN [job[d] EXCEPT !.linked = FALSE]
                  ELSE job[m]]
    /\ UNCHANGED <<up, stream, fate, requests, crashes>>

\* 200, or 404 if nothing was removed.
AnswerDelete(n) ==
    /\ job[n].op = "delete"
    /\ job[n].todo = {}
    /\ fate' = [fate EXCEPT ![job[n].name] = IF job[n].alone THEN "out" ELSE @]
    /\ job' = [job EXCEPT ![n] = Idle]
    /\ UNCHANGED <<dir, up, stream, requests, crashes>>

-----------------------------------------------------------------------------
(***************************************************************************)
(* GET /files.                                                             *)
(***************************************************************************)
BeginList(n) ==
    /\ Request(n)
    /\ job' = [job EXCEPT ![n] =
          [op |-> "list", todo |-> Node, seen |-> {}, current |-> None, primary |-> None,
           rows |-> << >>, quiet |-> {f \in Name : ~ Changing(f)}]]
    /\ UNCHANGED <<dir, up, stream, fate, crashes>>

\* The names in one directory.
ReadDirectory(n) ==
    /\ job[n].op = "list"
    /\ job[n].todo # {}
    /\ LET d == First(job[n].todo, n)
       IN  job' = [job EXCEPT ![n].todo = @ \ {d},
                              ![n].seen = @ \cup {f \in Name : d \in Holders(f)}]
    /\ UNCHANGED <<dir, up, stream, fate, requests, crashes>>

\* Where n reads f: its own directory or the first that has the file.
Source(n, f) == IF Holders(f) = {} THEN None ELSE First(Holders(f), n)

\* The file whose size will be asked for, if there is one.
FindPrimary(n, f) ==
    /\ job[n].op = "list"
    /\ job[n].todo = {}
    /\ job[n].current = None
    /\ f \in job[n].seen \ DOMAIN job[n].rows
    /\ job' = [job EXCEPT ![n].current = f, ![n].primary = Source(n, f)]
    /\ UNCHANGED <<dir, up, stream, fate, requests, crashes>>

\* Mutant of Replicas: a file that went away is held by no node.
ReplicasOrNone(n, f) == Holders(f)

\* Mutant of Replicas: the node that answers is always named.
ReplicasAndOwn(n, f) == Holders(f) \cup {n}

\* The nodes a row names: the node that answers if there is none any more.
Replicas(n, f) == IF Holders(f) = {} THEN {n} ELSE Holders(f)

\* The row: its size, 0 if the file is looked for again and is gone, and its replicas.
DescribeFile(n) ==
    /\ job[n].op = "list"
    /\ job[n].current # None
    /\ LET f == job[n].current
       IN  job' = [job EXCEPT ![n] =
               [job[n] EXCEPT !.current = None, !.primary = None,
                              !.rows = [g \in DOMAIN job[n].rows \cup {f} |->
                                  IF g = f THEN Replicas(n, f) ELSE job[n].rows[g]]]]
    /\ UNCHANGED <<dir, up, stream, fate, requests, crashes>>

\* The file goes away after it was looked for again and before it is measured: an error.
MeasureFails(n) ==
    /\ job[n].op = "list"
    /\ job[n].primary # None
    /\ job[n].primary \notin Holders(job[n].current)
    /\ job' = [job EXCEPT ![n] = Idle]
    /\ UNCHANGED <<dir, up, stream, fate, requests, crashes>>

AnswerList(n) ==
    /\ job[n].op = "list"
    /\ job[n].todo = {}
    /\ job[n].current = None
    /\ DOMAIN job[n].rows = job[n].seen
    /\ job' = [job EXCEPT ![n] = Idle]
    /\ UNCHANGED <<dir, up, stream, fate, requests, crashes>>

-----------------------------------------------------------------------------
(***************************************************************************)
(* GET /files/{file_id}.                                                   *)
(***************************************************************************)

\* Mutant of DownloadFrom: the handler's own directory only.
DownloadFromOwn(n, f) == IF n \in Holders(f) THEN n ELSE None

DownloadFrom(n, f) == Source(n, f)

\* The handler chooses the file, or answers 404.
BeginDownload(n, f) ==
    /\ Request(n)
    /\ stream[n] = None
    /\ stream' = [stream EXCEPT ![n] =
          [name |-> f, from |-> DownloadFrom(n, f), quiet |-> ~ Changing(f)]]
    /\ UNCHANGED <<dir, up, job, fate, crashes>>

\* What the response sends: "absent" stands for 404 and for the error when the file
\* went away in between.
Served(n) ==
    IF stream[n].from = None THEN "absent" ELSE dir[stream[n].from][stream[n].name]

SendFile(n) ==
    /\ stream[n] # None
    /\ stream' = [stream EXCEPT ![n] = None]
    /\ UNCHANGED <<dir, up, job, fate, requests, crashes>>

-----------------------------------------------------------------------------
\* A process is killed: the directories stay as they are.
Crash(n) ==
    /\ n \in up
    /\ crashes < MaxCrashes
    /\ crashes' = crashes + 1
    /\ up' = up \ {n}
    /\ dir' = [dir EXCEPT ![n] =
          [f \in Name |-> IF @[f] = "partial" THEN "torn" ELSE @[f]]]
    /\ job' = [job EXCEPT ![n] = Idle]
    /\ stream' = [stream EXCEPT ![n] = None]
    /\ UNCHANGED <<fate, requests>>

Restart(n) ==
    /\ n \notin up
    /\ up' = up \cup {n}
    /\ UNCHANGED <<dir, job, stream, fate, requests, crashes>>

Next ==
    \/ \E n \in Node, f \in Name, c \in Content : BeginUpload(n, f, c)
    \/ \E n \in Node : CopyContent(n)
    \/ \E n \in Node : AnswerUpload(n)
    \/ \E n \in Node, f \in Name, byId \in BOOLEAN : BeginDelete(n, f, byId)
    \/ \E n \in Node : RemoveReplica(n)
    \/ \E n \in Node : AnswerDelete(n)
    \/ \E n \in Node : BeginList(n)
    \/ \E n \in Node : ReadDirectory(n)
    \/ \E n \in Node, f \in Name : FindPrimary(n, f)
    \/ \E n \in Node : DescribeFile(n)
    \/ \E n \in Node : MeasureFails(n)
    \/ \E n \in Node : AnswerList(n)
    \/ \E n \in Node, f \in Name : BeginDownload(n, f)
    \/ \E n \in Node : SendFile(n)
    \/ \E n \in Node : Crash(n)
    \/ \E n \in Node : Restart(n)

Spec == Init /\ [][Next]_vars

-----------------------------------------------------------------------------
UploadJob == [op : {"upload"}, name : Name, content : Content, at : {"copy", "replicate"},
              linked : BOOLEAN, alone : BOOLEAN]

DeleteJob == [op : {"delete"}, name : Name, removed : BOOLEAN, todo : SUBSET Node,
              alone : BOOLEAN]

IsListJob(j) ==
    /\ j.op = "list"
    /\ j.todo \subseteq Node
    /\ j.seen \subseteq Name
    /\ j.current \in Name \cup {None}
    /\ j.primary \in Node \cup {None}
    /\ DOMAIN j.rows \subseteq j.seen
    /\ \A f \in DOMAIN j.rows : j.rows[f] \in (SUBSET Node) \ {{}}
    /\ j.quiet \subseteq Name

\* TypeOK: directories, handlers and responses stay within their types, and a row
\* of a listing names some node.
TypeOK ==
    /\ dir \in [Node -> [Name -> Held \cup {"absent"}]]
    /\ up \subseteq Node
    /\ \A n \in Node : job[n] \in {Idle} \cup UploadJob \cup DeleteJob \/ IsListJob(job[n])
    /\ stream \in [Node -> {None} \cup
          [name : Name, from : Node \cup {None}, quiet : BOOLEAN]]
    /\ fate \in [Name -> {"in", "out", "open"}]
    /\ requests \in 0..MaxRequests
    /\ crashes \in 0..MaxCrashes

\* ExistenceIsRegular: once an upload that overlapped no deletion of its name was
\* answered, some directory has the file until a deletion begins; once a deletion
\* that overlapped no upload was answered, none has it until an upload begins.
\* Killed handlers and any number of concurrent changes of one kind included.
ExistenceIsRegular ==
    \A f \in Name :
        /\ fate[f] = "in" => Holders(f) # {}
        /\ fate[f] = "out" => Holders(f) = {}

\* DownloadServes: a file that must be there is sent by every node, whatever node it
\* was uploaded to, and whole, if no change of it overlaps the download; a file that
\* a killed process left behind half written is the exception.
DownloadServes ==
    [][\A n \in Node :
          stream[n] # None /\ stream'[n] = None /\ n \in up'
              /\ stream[n].quiet /\ fate[stream[n].name] = "in"
          => Served(n) \in Content \cup {"torn"}]_vars

\* ListingIsExact: a listing has a row for every file that is there and for no other,
\* with its replicas, as far as no change of the file overlapped the listing.
ListingIsExact ==
    [][\A n \in Node : AnswerList(n) =>
          \A f \in job[n].quiet :
              /\ f \in DOMAIN job[n].rows <=> Holders(f) # {}
              /\ f \in DOMAIN job[n].rows => job[n].rows[f] = Holders(f)]_vars

=============================================================================
