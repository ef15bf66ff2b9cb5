-------------------------- MODULE FileStoreProofs ---------------------------
(***************************************************************************)
(* Types of the file store, and what an upload, a deletion, a download and *)
(* a listing promise of a file that no request overlaps, for every number  *)
(* of nodes, names and requests.                                           *)
(*                                                                         *)
(* StoreInv, about uploads and deletions, gives that a file is there or    *)
(* not there as it should. ReadInv adds what a listing and a download      *)
(* under way have found out of files that did not change since they began. *)
(***************************************************************************)
EXTENDS FileStore, NaturalsInduction, WellFoundedInduction, TLAPS

\* What the steps need to know of directories, handlers and history.
ListShape(j) == "op" \in DOMAIN j /\ j.op = "list"

JobShape(j) == j = Idle \/ j \in UploadJob \/ j \in DeleteJob \/ ListShape(j)

Shapes ==
    /\ dir \in [Node -> [Name -> Held \cup {"absent"}]]
    /\ DOMAIN job = Node
    /\ \A n \in Node : JobShape(job[n])
    /\ fate \in [Name -> {"in", "out", "open"}]

NoUpload(f) == \A n \in Node : ~ Uploading(n, f)
NoDelete(f) == \A n \in Node : ~ Deleting(n, f)

\* ExistenceIsRegular with the changes that are under way: none that could undo it.
Fates ==
    \A f \in Name :
        /\ fate[f] = "in" => Holders(f) # {} /\ NoDelete(f)
        /\ fate[f] = "out" => Holders(f) = {} /\ NoUpload(f)

\* An upload that is alone has its file in its directory.
UploadsAlone ==
    \A f \in Name, n \in Node :
        Uploading(n, f) /\ job[n].alone => n \in Holders(f) /\ NoDelete(f)

\* A deletion that is alone has left no file in the directories it is done with.
DeletesAlone ==
    \A f \in Name, n \in Node :
        Deleting(n, f) /\ job[n].alone =>
            NoUpload(f) /\ \A d \in Node \ job[n].todo : d \notin Holders(f)

StoreInv == Shapes /\ Fates /\ UploadsAlone /\ DeletesAlone

-----------------------------------------------------------------------------
\* The file system has nothing under a name that is absent, and something otherwise.
LEMMA HeldIsThere == "absent" \notin Held
  BY StoreAssumption DEF Held

\* Noting an overlap changes no handler but for its history.
LEMMA NotedFacts ==
    ASSUME NEW f \in Name, NEW kind \in {"upload", "delete"}, NEW j, JobShape(j)
    PROVE  LET k == NotedIn(j, f, kind)
           IN  /\ JobShape(k)
               /\ k.op = j.op
               /\ j.op \in {"upload", "delete"} =>
                     /\ k.name = j.name
                     /\ k.alone => j.alone /\ ~ (j.op = kind /\ j.name = f)
               /\ j.op = "delete" => k.todo = j.todo
  <1> DEFINE k == NotedIn(j, f, kind)
  <1>1. CASE j = Idle
    BY <1>1 DEF Idle, NotedIn, JobShape
  <1>2. CASE j \in UploadJob
    BY <1>2 DEF UploadJob, NotedIn, JobShape
  <1>3. CASE j \in DeleteJob
    BY <1>3 DEF DeleteJob, NotedIn, JobShape
  <1>4. CASE ListShape(j)
    BY <1>4 DEF ListShape, NotedIn, JobShape
  <1> QED
    BY <1>1, <1>2, <1>3, <1>4 DEF JobShape

\* The same of all handlers together.
LEMMA NotedJobs ==
    ASSUME Shapes, NEW f \in Name, NEW kind \in {"upload", "delete"}
    PROVE  /\ DOMAIN Noted(f, kind) = Node
           /\ \A m \in Node : JobShape(Noted(f, kind)[m])
           /\ \A m \in Node : Noted(f, kind)[m].op = job[m].op
           /\ \A m \in Node : job[m].op \in {"upload", "delete"} =>
                 /\ Noted(f, kind)[m].name = job[m].name
                 /\ Noted(f, kind)[m].alone =>
                       job[m].alone /\ ~ (job[m].op = kind /\ job[m].name = f)
           /\ \A m \in Node : job[m].op = "delete" => Noted(f, kind)[m].todo = job[m].todo
  <1>1. DOMAIN Noted(f, kind) = Node
    BY DEF Noted
  <1>2. ASSUME NEW m \in Node
        PROVE  /\ JobShape(Noted(f, kind)[m])
               /\ Noted(f, kind)[m].op = job[m].op
               /\ job[m].op \in {"upload", "delete"} =>
                     /\ Noted(f, kind)[m].name = job[m].name
                     /\ Noted(f, kind)[m].alone =>
                           job[m].alone /\ ~ (job[m].op = kind /\ job[m].name = f)
               /\ job[m].op = "delete" => Noted(f, kind)[m].todo = job[m].todo
    <2>1. JobShape(job[m])
      BY DEF Shapes
    <2>2. Noted(f, kind)[m] = NotedIn(job[m], f, kind)
      BY DEF Noted
    <2> QED
      BY <2>1, <2>2, NotedFacts
  <1> QED
    BY <1>1, <1>2

\* A step that changes no directory, no history and no upload or deletion.
LEMMA ReadStep ==
    ASSUME StoreInv, NEW n \in Node, UNCHANGED <<dir, fate>>,
           DOMAIN job' = Node, \A m \in Node \ {n} : job'[m] = job[m],
           job'[n] = Idle \/ ListShape(job'[n])
    PROVE  StoreInv'
  <1>1. job'[n].op \notin {"upload", "delete"} /\ JobShape(job'[n])
    BY DEF Idle, ListShape, JobShape
  <1>2. \A f \in Name : Holders(f)' = Holders(f)
    BY DEF Holders
  <1>3. \A m \in Node, f \in Name :
            /\ Uploading(m, f)' => m # n /\ Uploading(m, f)
            /\ Deleting(m, f)' => m # n /\ Deleting(m, f)
    BY <1>1 DEF Uploading, Deleting
  <1>4. Shapes'
    BY <1>1 DEF StoreInv, Shapes
  <1>5. \A f \in Name : (NoUpload(f) => NoUpload(f)') /\ (NoDelete(f) => NoDelete(f)')
    BY <1>3 DEF NoUpload, NoDelete
  <1>6. Fates'
    BY <1>2, <1>5 DEF StoreInv, Fates
  <1>7. UploadsAlone'
    BY <1>2, <1>3, <1>5 DEF StoreInv, UploadsAlone
  <1>8. DeletesAlone'
    BY <1>2, <1>3, <1>5 DEF StoreInv, DeletesAlone
  <1> QED
    BY <1>4, <1>6, <1>7, <1>8 DEF StoreInv

\* A step that changes none of them either.
LEMMA StutterStep ==
    ASSUME StoreInv, UNCHANGED <<dir, fate, job>>
    PROVE  StoreInv'
  BY DEF StoreInv, Shapes, Fates, UploadsAlone, DeletesAlone, Holders, NoUpload, NoDelete,
         Uploading, Deleting

-----------------------------------------------------------------------------
\* An upload begins.
LEMMA BeginUploadStep ==
    ASSUME StoreInv, NEW n \in Node, NEW f \in Name, NEW c \in Content, BeginUpload(n, f, c)
    PROVE  StoreInv'
  <1> DEFINE new == [op |-> "upload", name |-> f, content |-> c, at |-> "copy",
                     linked |-> TRUE, alone |-> \A m \in Node : ~ Deleting(m, f)]
  <1>1. /\ dir' = [dir EXCEPT ![n][f] = "partial"]
        /\ job' = [Noted(f, "delete") EXCEPT ![n] = new]
        /\ fate' = [fate EXCEPT ![f] = IF @ = "out" THEN "open" ELSE @]
        /\ job[n] = Idle
    BY DEF BeginUpload, Request
  <1>2. DOMAIN job' = Node /\ job'[n] = new
    BY <1>1 DEF Noted
  <1>3. \A m \in Node \ {n} : job'[m] = Noted(f, "delete")[m]
    BY <1>1
  <1>4. new \in UploadJob /\ new.op = "upload" /\ new.name = f /\ new.alone = NoDelete(f)
    BY DEF UploadJob, NoDelete
  <1>5. Shapes'
    <2>1. dir' \in [Node -> [Name -> Held \cup {"absent"}]]
      BY <1>1 DEF StoreInv, Shapes, Held
    <2>2. fate' \in [Name -> {"in", "out", "open"}]
      BY <1>1 DEF StoreInv, Shapes
    <2>3. \A m \in Node : JobShape(job'[m])
      <3>1. JobShape(job'[n])
        BY <1>2, <1>4 DEF JobShape
      <3>2. \A m \in Node \ {n} : JobShape(job'[m])
        BY <1>3, NotedJobs DEF StoreInv
      <3> QED
        BY <3>1, <3>2
    <2> QED
      BY <1>2, <2>1, <2>2, <2>3 DEF Shapes
  <1>6. \A g \in Name : Holders(g)' = Holders(g) \cup (IF g = f THEN {n} ELSE {})
    BY <1>1 DEF StoreInv, Shapes, Holders
  <1>7. \A m \in Node, g \in Name :
            /\ Deleting(m, g)' => /\ Deleting(m, g)
                                  /\ job'[m].todo = job[m].todo
                                  /\ job'[m].alone => job[m].alone /\ g # f
            /\ Uploading(m, g)' =>
                  \/ m = n /\ g = f
                  \/ Uploading(m, g) /\ (job'[m].alone => job[m].alone)
    BY <1>2, <1>3, <1>4, NotedJobs DEF StoreInv, Uploading, Deleting
  <1>8. \A g \in Name : (NoDelete(g) => NoDelete(g)') /\ (g # f => (NoUpload(g) => NoUpload(g)'))
    BY <1>7 DEF NoDelete, NoUpload
  <1>9. Fates'
    <2>1. \A g \in Name : g # f => fate'[g] = fate[g]
      BY <1>1 DEF StoreInv, Shapes
    <2>2. fate'[f] # "out" /\ (fate'[f] = "in" => fate[f] = "in")
      BY <1>1 DEF StoreInv, Shapes
    <2> QED
      BY <1>6, <1>8, <2>1, <2>2 DEF StoreInv, Fates
  <1>10. UploadsAlone'
    <2> SUFFICES ASSUME NEW g \in Name, NEW m \in Node, Uploading(m, g)', job'[m].alone
                 PROVE  m \in Holders(g)' /\ NoDelete(g)'
      BY DEF UploadsAlone
    <2>1. CASE m = n /\ g = f
      BY <1>2, <1>4, <1>6, <1>8, <2>1
    <2>2. CASE Uploading(m, g) /\ job[m].alone
      BY <1>6, <1>8, <2>2 DEF StoreInv, UploadsAlone
    <2> QED
      BY <1>7, <2>1, <2>2
  <1>11. DeletesAlone'
    BY <1>6, <1>7, <1>8 DEF StoreInv, DeletesAlone
  <1> QED
    BY <1>5, <1>9, <1>10, <1>11 DEF StoreInv

\* The content is copied: the file is there before and after, or neither.
LEMMA CopyContentStep ==
    ASSUME StoreInv, NEW n \in Node, CopyContent(n)
    PROVE  StoreInv'
  <1>1. job[n] \in UploadJob /\ job[n].name \in Name /\ job[n].content \in Held
    BY DEF StoreInv, Shapes, JobShape, CopyContent, Idle, UploadJob, DeleteJob, ListShape, Held
  <1>2. job' = [job EXCEPT ![n].at = "replicate"] /\ fate' = fate
    BY DEF CopyContent
  <1>3. job'[n] \in UploadJob /\ job'[n].op = "upload"
        /\ job'[n].name = job[n].name /\ job'[n].alone = job[n].alone
    BY <1>1, <1>2 DEF StoreInv, Shapes, UploadJob
  <1>4. \A m \in Node \ {n} : job'[m] = job[m]
    BY <1>2 DEF StoreInv, Shapes
  <1>5. dir' \in [Node -> [Name -> Held \cup {"absent"}]]
        /\ \A g \in Name, d \in Node :
              d \in Holders(g)' <=> d \in Holders(g) \/ (d = n /\ Uploading(n, g) /\ job[n].linked)
    <2>1. CASE job[n].linked
      <3>1. dir' = [dir EXCEPT ![n][job[n].name] = job[n].content]
        BY <2>1 DEF CopyContent
      <3> QED
        BY <1>1, <2>1, <3>1, HeldIsThere DEF StoreInv, Shapes, Holders, Uploading, UploadJob
    <2>2. CASE ~ job[n].linked
      BY <2>2 DEF CopyContent, StoreInv, Shapes, Holders
    <2> QED
      BY <2>1, <2>2
  <1>6. Shapes'
    BY <1>2, <1>3, <1>4, <1>5 DEF StoreInv, Shapes, JobShape
  <1>7. \A m \in Node, g \in Name : (Uploading(m, g)' <=> Uploading(m, g)) /\ (Deleting(m, g)' <=> Deleting(m, g))
    BY <1>1, <1>3, <1>4 DEF Uploading, Deleting, UploadJob
  <1>8. \A g \in Name : (NoUpload(g)' <=> NoUpload(g)) /\ (NoDelete(g)' <=> NoDelete(g))
    BY <1>7 DEF NoUpload, NoDelete
  <1>9. Fates'
    BY <1>2, <1>5, <1>8 DEF StoreInv, Fates, NoUpload, Holders
  <1>10. UploadsAlone'
    BY <1>3, <1>4, <1>5, <1>7, <1>8 DEF StoreInv, UploadsAlone
  <1>11. DeletesAlone'
    <2>1. \A m \in Node, g \in Name : Deleting(m, g) => m # n /\ job'[m] = job[m]
      BY <1>1, <1>4 DEF Deleting, UploadJob
    <2> QED
      BY <1>5, <1>7, <1>8, <2>1 DEF StoreInv, DeletesAlone, NoUpload
  <1> QED
    BY <1>6, <1>9, <1>10, <1>11 DEF StoreInv

\* An upload is answered.
LEMMA AnswerUploadStep ==
    ASSUME StoreInv, NEW n \in Node, AnswerUpload(n)
    PROVE  StoreInv'
  <1>1. PICK f \in Name : /\ f = job[n].name
                          /\ job[n] \in UploadJob
                          /\ job[n].content \in Held
                          /\ Uploading(n, f)
    BY DEF StoreInv, Shapes, JobShape, AnswerUpload, Idle, UploadJob, DeleteJob, ListShape, Held,
           Uploading
  <1>2. /\ job' = [job EXCEPT ![n] = Idle]
        /\ fate' = [fate EXCEPT ![f] = IF job[n].alone THEN "in" ELSE @]
        /\ dir' = [d \in Node |-> IF d \in Reached(n)
                        THEN [dir[d] EXCEPT ![f] = job[n].content] ELSE dir[d]]
    BY <1>1 DEF AnswerUpload
  <1>3. DOMAIN job' = Node /\ job'[n] = Idle /\ \A m \in Node \ {n} : job'[m] = job[m]
    BY <1>2 DEF StoreInv, Shapes
  <1>4. dir' \in [Node -> [Name -> Held \cup {"absent"}]]
    BY <1>1, <1>2 DEF StoreInv, Shapes
  <1>5. \A g \in Name : Holders(g) \subseteq Holders(g)' /\ (g # f => Holders(g)' = Holders(g))
    BY <1>1, <1>2, HeldIsThere DEF StoreInv, Shapes, Holders
  <1>6. Shapes'
    BY <1>1, <1>2, <1>3, <1>4 DEF StoreInv, Shapes, JobShape
  <1>7. \A m \in Node, g \in Name :
            /\ Uploading(m, g)' => Uploading(m, g) /\ m # n
            /\ Deleting(m, g)' => Deleting(m, g) /\ m # n
    BY <1>3 DEF Uploading, Deleting, Idle
  <1>8. \A g \in Name : (NoUpload(g) => NoUpload(g)') /\ (NoDelete(g) => NoDelete(g)')
    BY <1>7 DEF NoUpload, NoDelete
  <1>9. ~ NoUpload(f)
    BY <1>1 DEF NoUpload
  <1>10. Fates'
    <2>1. \A g \in Name : g # f => fate'[g] = fate[g]
      BY <1>1, <1>2 DEF StoreInv, Shapes
    <2>2. job[n].alone => fate'[f] = "in" /\ n \in Holders(f) /\ NoDelete(f)
      BY <1>1, <1>2 DEF StoreInv, Shapes, UploadsAlone
    <2>3. ~ job[n].alone => fate'[f] = fate[f]
      BY <1>1, <1>2 DEF StoreInv, Shapes
    <2>4. ASSUME NEW g \in Name, g # f
          PROVE  /\ fate'[g] = "in" => Holders(g)' # {} /\ NoDelete(g)'
                 /\ fate'[g] = "out" => Holders(g)' = {} /\ NoUpload(g)'
      BY <1>5, <1>8, <2>1, <2>4 DEF StoreInv, Fates
    <2>5. /\ fate'[f] = "in" => Holders(f)' # {} /\ NoDelete(f)'
          /\ fate'[f] # "out"
      BY <1>1, <1>5, <1>8, <1>9, <2>2, <2>3 DEF StoreInv, Fates
    <2> QED
      BY <1>1, <2>4, <2>5 DEF Fates
  <1>11. UploadsAlone'
    BY <1>3, <1>5, <1>7, <1>8 DEF StoreInv, UploadsAlone
  <1>12. DeletesAlone'
    BY <1>3, <1>5, <1>7, <1>8, <1>9 DEF StoreInv, DeletesAlone
  <1> QED
    BY <1>6, <1>10, <1>11, <1>12 DEF StoreInv

\* A deletion begins.
LEMMA BeginDeleteStep ==
    ASSUME StoreInv, NEW n \in Node, NEW f \in Name, NEW byId \in BOOLEAN, BeginDelete(n, f, byId)
    PROVE  StoreInv'
  <1>1. PICK new \in DeleteJob :
            /\ job' = [Noted(f, "upload") EXCEPT ![n] = new]
            /\ new.op = "delete"
            /\ new.name = f
            /\ new.alone = NoUpload(f)
            /\ new.todo = Node \/ (new.todo = {} /\ Holders(f) = {})
    <2> DEFINE new == [op |-> "delete", name |-> f, removed |-> FALSE,
                       todo |-> IF byId /\ Holders(f) = {} THEN {} ELSE Targets(n),
                       alone |-> \A m \in Node : ~ Uploading(m, f)]
    <2>1. new \in DeleteJob
      BY DEF DeleteJob, Targets
    <2>2. job' = [Noted(f, "upload") EXCEPT ![n] = new]
      BY DEF BeginDelete
    <2> QED
      BY <2>1, <2>2 DEF Targets, NoUpload
  <1>2. fate' = [fate EXCEPT ![f] = IF @ = "in" THEN "open" ELSE @] /\ dir' = dir /\ job[n] = Idle
    BY DEF BeginDelete, Request
  <1>3. DOMAIN job' = Node /\ job'[n] = new /\ \A m \in Node \ {n} : job'[m] = Noted(f, "upload")[m]
    BY <1>1, NotedJobs DEF StoreInv
  <1>4. Shapes'
    <2>1. JobShape(job'[n])
      BY <1>1, <1>3 DEF JobShape
    <2>2. \A m \in Node \ {n} : JobShape(job'[m])
      BY <1>3, NotedJobs DEF StoreInv
    <2>3. fate' \in [Name -> {"in", "out", "open"}]
      BY <1>2 DEF StoreInv, Shapes
    <2> QED
      BY <1>2, <1>3, <2>1, <2>2, <2>3 DEF StoreInv, Shapes
  <1>5. \A g \in Name : Holders(g)' = Holders(g)
    BY <1>2 DEF Holders
  <1>6. \A m \in Node, g \in Name :
            /\ Uploading(m, g)' => Uploading(m, g) /\ (job'[m].alone => job[m].alone /\ g # f)
            /\ Deleting(m, g)' =>
                  \/ m = n /\ g = f
                  \/ /\ Deleting(m, g)
                     /\ m # n
                     /\ job'[m].todo = job[m].todo
                     /\ job'[m].alone => job[m].alone
    BY <1>1, <1>3, NotedJobs DEF StoreInv, Uploading, Deleting
  <1>7. \A g \in Name : (NoUpload(g) => NoUpload(g)') /\ (g # f => (NoDelete(g) => NoDelete(g)'))
    BY <1>6 DEF NoDelete, NoUpload
  <1>8. Fates'
    <2>1. \A g \in Name : g # f => fate'[g] = fate[g]
      BY <1>2 DEF StoreInv, Shapes
    <2>2. fate'[f] # "in" /\ (fate'[f] = "out" => fate[f] = "out")
      BY <1>2 DEF StoreInv, Shapes
    <2> QED
      BY <1>5, <1>7, <2>1, <2>2 DEF StoreInv, Fates
  <1>9. UploadsAlone'
    BY <1>5, <1>6, <1>7 DEF StoreInv, UploadsAlone
  <1>10. DeletesAlone'
    <2> SUFFICES ASSUME NEW g \in Name, NEW m \in Node, Deleting(m, g)', job'[m].alone
                 PROVE  NoUpload(g)' /\ \A d \in Node \ job'[m].todo : d \notin Holders(g)'
      BY DEF DeletesAlone
    <2>1. CASE m = n /\ g = f
      BY <1>1, <1>3, <1>5, <1>7, <2>1
    <2>2. CASE Deleting(m, g) /\ job[m].alone /\ job'[m].todo = job[m].todo
      BY <1>5, <1>7, <2>2 DEF StoreInv, DeletesAlone
    <2> QED
      BY <1>6, <2>1, <2>2
  <1> QED
    BY <1>4, <1>8, <1>9, <1>10 DEF StoreInv

\* A deletion removes a file from a directory.
LEMMA RemoveReplicaStep ==
    ASSUME StoreInv, NEW n \in Node, RemoveReplica(n)
    PROVE  StoreInv'
  <1>1. PICK f \in Name : f = job[n].name /\ job[n] \in DeleteJob /\ Deleting(n, f)
    BY DEF StoreInv, Shapes, JobShape, RemoveReplica, Idle, UploadJob, DeleteJob, ListShape,
           Deleting
  <1>2. PICK d :
            /\ dir' = [dir EXCEPT ![d][f] = "absent"]
            /\ job' = [m \in Node |->
                  IF m = n THEN [job[n] EXCEPT !.todo = @ \ {d}, !.removed = @ \/ d \in Holders(f)]
                  ELSE IF m = d /\ Uploading(d, f) THEN [job[d] EXCEPT !.linked = FALSE]
                  ELSE job[m]]
            /\ fate' = fate
    BY <1>1 DEF RemoveReplica
  <1>3. /\ DOMAIN job' = Node
        /\ job'[n] \in DeleteJob
        /\ job'[n].name = f
        /\ job'[n].op = "delete"
        /\ job'[n].alone = job[n].alone
        /\ job'[n].todo = job[n].todo \ {d}
    BY <1>1, <1>2 DEF DeleteJob
  <1>4. ASSUME NEW m \in Node, m # n
        PROVE  /\ JobShape(job'[m])
               /\ job'[m].op = job[m].op
               /\ job[m].op \in {"upload", "delete"} =>
                     job'[m].name = job[m].name /\ job'[m].alone = job[m].alone
               /\ job[m].op = "delete" => job'[m].todo = job[m].todo
    <2>1. JobShape(job[m])
      BY DEF StoreInv, Shapes
    <2>2. CASE m = d /\ Uploading(d, f)
      <3>1. job[m] \in UploadJob
        BY <2>1, <2>2 DEF JobShape, Uploading, Idle, DeleteJob, ListShape
      <3>2. job'[m] = [job[m] EXCEPT !.linked = FALSE]
        BY <1>2, <1>4, <2>2
      <3> QED
        BY <3>1, <3>2 DEF UploadJob, JobShape
    <2>3. CASE ~ (m = d /\ Uploading(d, f))
      BY <1>2, <1>4, <2>1, <2>3
    <2> QED
      BY <2>2, <2>3
  <1>5. dir' \in [Node -> [Name -> Held \cup {"absent"}]]
    BY <1>2 DEF StoreInv, Shapes
  <1>6. \A g \in Name : Holders(g)' = IF g = f THEN Holders(g) \ {d} ELSE Holders(g)
    BY <1>2 DEF StoreInv, Shapes, Holders
  <1>7. Shapes'
    <2>1. \A m \in Node : JobShape(job'[m])
      BY <1>3, <1>4 DEF JobShape
    <2> QED
      BY <1>2, <1>3, <1>5, <2>1 DEF StoreInv, Shapes
  <1>8. \A m \in Node, g \in Name :
            /\ Uploading(m, g)' => Uploading(m, g) /\ (job'[m].alone => job[m].alone)
            /\ Deleting(m, g)' => Deleting(m, g) /\ (job'[m].alone => job[m].alone)
    BY <1>1, <1>3, <1>4 DEF Uploading, Deleting
  <1>9. \A g \in Name : (NoUpload(g) => NoUpload(g)') /\ (NoDelete(g) => NoDelete(g)')
    BY <1>8 DEF NoUpload, NoDelete
  <1>10. ~ NoDelete(f)
    BY <1>1 DEF NoDelete
  <1>11. Fates'
    BY <1>2, <1>6, <1>9, <1>10 DEF StoreInv, Fates
  <1>12. UploadsAlone'
    BY <1>6, <1>8, <1>9, <1>10 DEF StoreInv, UploadsAlone
  <1>13. DeletesAlone'
    <2> SUFFICES ASSUME NEW g \in Name, NEW m \in Node, Deleting(m, g)', job'[m].alone
                 PROVE  NoUpload(g)' /\ \A e \in Node \ job'[m].todo : e \notin Holders(g)'
      BY DEF DeletesAlone
    <2>1. Deleting(m, g) /\ job[m].alone
      BY <1>8
    <2>2. NoUpload(g)' /\ \A e \in Node \ job[m].todo : e \notin Holders(g)'
      BY <1>6, <1>9, <2>1 DEF StoreInv, DeletesAlone
    <2>3. CASE m = n
      <3>1. g = f
        BY <1>1, <2>1, <2>3 DEF Deleting
      <3> QED
        BY <1>3, <1>6, <2>2, <2>3, <3>1
    <2>4. CASE m # n
      BY <1>4, <2>1, <2>2, <2>4 DEF Deleting
    <2> QED
      BY <2>3, <2>4
  <1> QED
    BY <1>7, <1>11, <1>12, <1>13 DEF StoreInv

\* A deletion is answered.
LEMMA AnswerDeleteStep ==
    ASSUME StoreInv, NEW n \in Node, AnswerDelete(n)
    PROVE  StoreInv'
  <1>1. PICK f \in Name : f = job[n].name /\ job[n] \in DeleteJob /\ Deleting(n, f)
    BY DEF StoreInv, Shapes, JobShape, AnswerDelete, Idle, UploadJob, DeleteJob, ListShape,
           Deleting
  <1>2. /\ job' = [job EXCEPT ![n] = Idle]
        /\ fate' = [fate EXCEPT ![f] = IF job[n].alone THEN "out" ELSE @]
        /\ dir' = dir
        /\ job[n].todo = {}
    BY <1>1 DEF AnswerDelete
  <1>3. DOMAIN job' = Node /\ job'[n] = Idle /\ \A m \in Node \ {n} : job'[m] = job[m]
    BY <1>2 DEF StoreInv, Shapes
  <1>4. \A g \in Name : Holders(g)' = Holders(g)
    BY <1>2 DEF Holders
  <1>5. Shapes'
    BY <1>1, <1>2, <1>3 DEF StoreInv, Shapes, JobShape
  <1>6. \A m \in Node, g \in Name :
            /\ Uploading(m, g)' => Uploading(m, g) /\ m # n
            /\ Deleting(m, g)' => Deleting(m, g) /\ m # n
    BY <1>3 DEF Uploading, Deleting, Idle
  <1>7. \A g \in Name : (NoUpload(g) => NoUpload(g)') /\ (NoDelete(g) => NoDelete(g)')
    BY <1>6 DEF NoUpload, NoDelete
  <1>8. ~ NoDelete(f)
    BY <1>1 DEF NoDelete
  <1>9. Fates'
    <2>1. \A g \in Name : g # f => fate'[g] = fate[g]
      BY <1>1, <1>2 DEF StoreInv, Shapes
    <2>2. job[n].alone => fate'[f] = "out" /\ Holders(f) = {} /\ NoUpload(f)
      <3>1. job[n].alone => \A d \in Node : d \notin Holders(f)
        BY <1>1, <1>2 DEF StoreInv, DeletesAlone
      <3>2. Holders(f) \subseteq Node
        BY DEF Holders
      <3>3. job[n].alone => fate'[f] = "out"
        BY <1>1, <1>2 DEF StoreInv, Shapes
      <3> QED
        BY <1>1, <3>1, <3>2, <3>3 DEF StoreInv, DeletesAlone
    <2>3. ~ job[n].alone => fate'[f] = fate[f]
      BY <1>1, <1>2 DEF StoreInv, Shapes
    <2>4. ASSUME NEW g \in Name, g # f
          PROVE  /\ fate'[g] = "in" => Holders(g)' # {} /\ NoDelete(g)'
                 /\ fate'[g] = "out" => Holders(g)' = {} /\ NoUpload(g)'
      BY <1>4, <1>7, <2>1, <2>4 DEF StoreInv, Fates
    <2>5. /\ fate'[f] # "in"
          /\ fate'[f] = "out" => Holders(f)' = {} /\ NoUpload(f)'
      BY <1>1, <1>4, <1>7, <1>8, <2>2, <2>3 DEF StoreInv, Fates
    <2> QED
      BY <1>1, <2>4, <2>5 DEF Fates
  <1>10. UploadsAlone'
    BY <1>3, <1>4, <1>6, <1>7 DEF StoreInv, UploadsAlone
  <1>11. DeletesAlone'
    BY <1>3, <1>4, <1>6, <1>7 DEF StoreInv, DeletesAlone
  <1> QED
    BY <1>5, <1>9, <1>10, <1>11 DEF StoreInv

\* A process is killed: what it was writing stays, torn.
LEMMA CrashStep ==
    ASSUME StoreInv, NEW n \in Node, Crash(n)
    PROVE  StoreInv'
  <1>1. /\ job' = [job EXCEPT ![n] = Idle]
        /\ fate' = fate
        /\ dir' = [dir EXCEPT ![n] = [f \in Name |-> IF dir[n][f] = "partial" THEN "torn" ELSE dir[n][f]]]
    BY DEF Crash, StoreInv, Shapes
  <1>2. DOMAIN job' = Node /\ job'[n] = Idle /\ \A m \in Node \ {n} : job'[m] = job[m]
    BY <1>1 DEF StoreInv, Shapes
  <1>3. dir' \in [Node -> [Name -> Held \cup {"absent"}]]
    BY <1>1 DEF StoreInv, Shapes, Held
  <1>4. \A g \in Name : Holders(g)' = Holders(g)
    BY <1>1 DEF StoreInv, Shapes, Holders
  <1>5. Shapes'
    BY <1>1, <1>2, <1>3 DEF StoreInv, Shapes, JobShape
  <1>6. \A m \in Node, g \in Name :
            /\ Uploading(m, g)' => Uploading(m, g) /\ m # n
            /\ Deleting(m, g)' => Deleting(m, g) /\ m # n
    BY <1>2 DEF Uploading, Deleting, Idle
  <1>7. \A g \in Name : (NoUpload(g) => NoUpload(g)') /\ (NoDelete(g) => NoDelete(g)')
    BY <1>6 DEF NoUpload, NoDelete
  <1>8. Fates'
    BY <1>1, <1>4, <1>7 DEF StoreInv, Fates
  <1>9. UploadsAlone'
    BY <1>2, <1>4, <1>6, <1>7 DEF StoreInv, UploadsAlone
  <1>10. DeletesAlone'
    BY <1>2, <1>4, <1>6, <1>7 DEF StoreInv, DeletesAlone
  <1> QED
    BY <1>5, <1>8, <1>9, <1>10 DEF StoreInv

-----------------------------------------------------------------------------
\* Directories are empty and no handler runs when the nodes start.
LEMMA StoreInit == Init => StoreInv
  BY DEF Init, StoreInv, Shapes, JobShape, Fates, UploadsAlone, DeletesAlone, Holders, NoUpload,
         NoDelete, Uploading, Deleting, Idle

\* The steps of a listing change no file.
LEMMA ListStep ==
    ASSUME StoreInv, NEW n \in Node,
           \/ BeginList(n) \/ ReadDirectory(n) \/ DescribeFile(n) \/ MeasureFails(n) \/ AnswerList(n)
           \/ \E f \in Name : FindPrimary(n, f)
    PROVE  StoreInv'
  <1>1. UNCHANGED <<dir, fate>>
    BY DEF BeginList, ReadDirectory, DescribeFile, MeasureFails, AnswerList, FindPrimary
  <1>2. DOMAIN job = Node /\ (job[n].op = "list" => ListShape(job[n]))
    BY DEF StoreInv, Shapes, JobShape, Idle, UploadJob, DeleteJob, ListShape
  <1>3. DOMAIN job' = Node /\ \A m \in Node \ {n} : job'[m] = job[m]
    BY <1>2 DEF BeginList, ReadDirectory, DescribeFile, MeasureFails, AnswerList, FindPrimary
  <1>4. job'[n] = Idle \/ ListShape(job'[n])
    <2>1. CASE BeginList(n) \/ MeasureFails(n) \/ AnswerList(n)
      BY <1>2, <2>1 DEF BeginList, MeasureFails, AnswerList, ListShape
    <2>2. CASE ReadDirectory(n)
      BY <1>2, <2>2 DEF ReadDirectory, ListShape
    <2>3. CASE DescribeFile(n)
      BY <1>2, <2>3 DEF DescribeFile, ListShape
    <2>4. CASE \E f \in Name : FindPrimary(n, f)
      BY <1>2, <2>4 DEF FindPrimary, ListShape
    <2> QED
      BY <2>1, <2>2, <2>3, <2>4
  <1> QED
    BY <1>1, <1>3, <1>4, ReadStep

\* Every handler's step, and every crash, preserves the invariant.
LEMMA StoreStep == StoreInv /\ [Next]_vars => StoreInv'
  <1> SUFFICES ASSUME StoreInv, [Next]_vars
               PROVE  StoreInv'
    OBVIOUS
  <1>1. ASSUME NEW n \in Node, NEW f \in Name, NEW c \in Content, BeginUpload(n, f, c)
        PROVE  StoreInv'
    BY <1>1, BeginUploadStep
  <1>2. ASSUME NEW n \in Node, CopyContent(n)
        PROVE  StoreInv'
    BY <1>2, CopyContentStep
  <1>3. ASSUME NEW n \in Node, AnswerUpload(n)
        PROVE  StoreInv'
    BY <1>3, AnswerUploadStep
  <1>4. ASSUME NEW n \in Node, NEW f \in Name, NEW byId \in BOOLEAN, BeginDelete(n, f, byId)
        PROVE  StoreInv'
    BY <1>4, BeginDeleteStep
  <1>5. ASSUME NEW n \in Node, RemoveReplica(n)
        PROVE  StoreInv'
    BY <1>5, RemoveReplicaStep
  <1>6. ASSUME NEW n \in Node, AnswerDelete(n)
        PROVE  StoreInv'
    BY <1>6, AnswerDeleteStep
  <1>7. ASSUME NEW n \in Node,
               \/ BeginList(n) \/ ReadDirectory(n) \/ DescribeFile(n) \/ MeasureFails(n) \/ AnswerList(n)
               \/ \E f \in Name : FindPrimary(n, f)
        PROVE  StoreInv'
    BY <1>7, ListStep
  <1>8. ASSUME NEW n \in Node,
               SendFile(n) \/ Restart(n) \/ \E f \in Name : BeginDownload(n, f)
        PROVE  StoreInv'
    BY <1>8, StutterStep DEF BeginDownload, SendFile, Restart
  <1>9. ASSUME NEW n \in Node, Crash(n)
        PROVE  StoreInv'
    BY <1>9, CrashStep
  <1>10. CASE UNCHANGED vars
    BY <1>10, StutterStep DEF vars
  <1> QED
    BY <1>1, <1>2, <1>3, <1>4, <1>5, <1>6, <1>7, <1>8, <1>9, <1>10 DEF Next

\* ExistenceIsRegular holds for every number of nodes, names, requests and crashes:
\* an answered upload leaves a file that some node has, an answered deletion one that
\* no node has, until a change of the other kind begins (replicate_routes.py).
THEOREM ExistenceRegular == Spec => []ExistenceIsRegular
  <1>1. StoreInv => ExistenceIsRegular
    BY DEF StoreInv, Fates, ExistenceIsRegular
  <1> QED
    BY <1>1, StoreInit, StoreStep, PTL DEF Spec

-----------------------------------------------------------------------------
(***************************************************************************)
(* What listings and downloads read.                                       *)
(***************************************************************************)
\* Directories are numbered, so a handler has a next one to visit.
LEMMA FirstVisited ==
    ASSUME NEW todo \in SUBSET Node, todo # {}, NEW n
    PROVE  First(todo, n) \in todo
  <1> DEFINE R == {q \in Nat \X Nat : q[1] < q[2]}
  <1>1. IsWellFoundedOn(R, Nat)
    BY NatLessThanWellFounded DEF OpToRel
  <1>2. todo \subseteq Nat
    BY StoreAssumption
  <1> HIDE DEF R
  <1>3. PICK d \in todo : \A e \in todo : ~ (<<e, d>> \in R)
    BY <1>1, <1>2, WFMin
  <1>4. ASSUME NEW e \in todo
        PROVE  d <= e
    <2>1. e \in Nat /\ d \in Nat
      BY <1>2
    <2>2. ~ e < d
      BY <1>3, <2>1 DEF R
    <2> QED
      BY <2>1, <2>2
  <1> QED
    BY <1>4 DEF First

ListFields == {"op", "todo", "seen", "current", "primary", "rows", "quiet"}

\* The handlers of GET /files, and what they are at.
ListsTyped ==
    \A n \in Node : job[n].op = "list" =>
        /\ DOMAIN job[n] = ListFields
        /\ IsListJob(job[n])
        /\ job[n].current # None => job[n].current \in job[n].seen

\* Processes, responses and counters.
RestTyped ==
    /\ up \subseteq Node
    /\ stream \in [Node -> {None} \cup
          [name : Name, from : Node \cup {None}, quiet : BOOLEAN]]
    /\ requests \in 0..MaxRequests
    /\ crashes \in 0..MaxCrashes

\* What a listing has found out about a file that was not changed since it began: it
\* has seen the file if it is there, unless it is in a directory still to be read.
Exact(j, f) ==
    /\ ~ Changing(f)
    /\ f \in j.seen => Holders(f) # {}
    /\ \A d \in Holders(f) : d \in j.todo \/ f \in j.seen
    /\ f \in DOMAIN j.rows => j.rows[f] = Holders(f)

Listings == \A n \in Node : job[n].op = "list" => \A f \in job[n].quiet : Exact(job[n], f)

\* A download of a file that was not changed since has found a directory that has it.
Streams ==
    \A n \in Node : stream[n] # None /\ stream[n].quiet =>
        /\ ~ Changing(stream[n].name)
        /\ stream[n].from \in Holders(stream[n].name)
              \/ (stream[n].from = None /\ Holders(stream[n].name) = {})

\* A file is half written only while a handler of its node writes it.
Writing ==
    \A d \in Node, f \in Name : dir[d][f] = "partial" =>
        Uploading(d, f) /\ job[d].at = "copy" /\ job[d].linked

-----------------------------------------------------------------------------
\* A listing that another step leaves alone, except for noting a change.
SameList(n) ==
    /\ job[n].op = "list"
    /\ DOMAIN job'[n] = DOMAIN job[n]
    /\ job'[n].todo = job[n].todo
    /\ job'[n].seen = job[n].seen
    /\ job'[n].current = job[n].current
    /\ job'[n].primary = job[n].primary
    /\ job'[n].rows = job[n].rows
    /\ job'[n].quiet \subseteq job[n].quiet

\* A change of f that begins on k is noted in every listing under way.
LEMMA ListNoted ==
    ASSUME StoreInv, ListsTyped, NEW k \in Node, NEW f \in Name,
           NEW kind \in {"upload", "delete"}, job'[k].op # "list",
           \A m \in Node : m # k => job'[m] = Noted(f, kind)[m],
           NEW n \in Node, job'[n].op = "list"
    PROVE  SameList(n) /\ f \notin job'[n].quiet
  <1>1. n # k
    OBVIOUS
  <1>2. job'[n] = NotedIn(job[n], f, kind)
    BY <1>1 DEF Noted
  <1>3. job[n].op = "list"
    BY <1>2, NotedFacts DEF StoreInv, Shapes
  <1>4. DOMAIN job[n] = ListFields
    BY <1>3 DEF ListsTyped
  <1>5. job'[n] = [job[n] EXCEPT !.quiet = @ \ {f}]
    BY <1>2, <1>3 DEF NotedIn
  <1> QED
    BY <1>3, <1>4, <1>5 DEF SameList, ListFields

\* The steps that change a listing are its own.
LEMMA ListEffects ==
    ASSUME StoreInv, ListsTyped, [Next]_vars, NEW n \in Node, job'[n].op = "list"
    PROVE  \/ BeginList(n) \/ ReadDirectory(n) \/ DescribeFile(n)
           \/ \E f \in Name : FindPrimary(n, f)
           \/ SameList(n)
  <1>0. DOMAIN job = Node
    BY DEF StoreInv, Shapes
  <1>1. ASSUME job'[n] = job[n]
        PROVE  SameList(n)
    BY <1>1 DEF SameList
  <1>2. ASSUME NEW k \in Node, NEW j, job' = [job EXCEPT ![k] = j], k = n => j.op # "list"
        PROVE  SameList(n)
    BY <1>0, <1>1, <1>2
  <1>3. ASSUME NEW k \in Node, NEW f \in Name, NEW c \in Content, BeginUpload(k, f, c)
        PROVE  SameList(n)
    <2> DEFINE new == [op |-> "upload", name |-> f, content |-> c, at |-> "copy",
                       linked |-> TRUE, alone |-> \A m \in Node : ~ Deleting(m, f)]
    <2>1. job' = [Noted(f, "delete") EXCEPT ![k] = new] /\ new.op = "upload"
      BY <1>3 DEF BeginUpload
    <2> HIDE DEF new
    <2>2. job'[k] = new /\ \A m \in Node : m # k => job'[m] = Noted(f, "delete")[m]
      BY <2>1, NotedJobs DEF StoreInv
    <2> QED
      BY <2>1, <2>2, ListNoted
  <1>4. ASSUME NEW k \in Node, CopyContent(k)
        PROVE  SameList(n)
    <2>1. job' = [job EXCEPT ![k].at = "replicate"] /\ job[k].op = "upload"
      BY <1>4 DEF CopyContent
    <2>2. job'[k].op = "upload"
      BY <1>0, <2>1
    <2>3. job'[n] = job[n]
      BY <1>0, <2>1, <2>2
    <2> QED
      BY <1>1, <2>3
  <1>5. ASSUME NEW k \in Node, AnswerUpload(k) \/ AnswerDelete(k) \/ AnswerList(k)
               \/ MeasureFails(k) \/ Crash(k)
        PROVE  SameList(n)
    <2>1. job' = [job EXCEPT ![k] = Idle] /\ Idle.op # "list"
      BY <1>5 DEF AnswerUpload, AnswerDelete, AnswerList, MeasureFails, Crash, Idle
    <2> QED
      BY <1>2, <2>1
  <1>6. ASSUME NEW k \in Node, NEW f \in Name, NEW byId \in BOOLEAN, BeginDelete(k, f, byId)
        PROVE  SameList(n)
    <2> DEFINE new == [op |-> "delete", name |-> f, removed |-> FALSE,
                       todo |-> IF byId /\ Holders(f) = {} THEN {} ELSE Targets(k),
                       alone |-> \A m \in Node : ~ Uploading(m, f)]
    <2>1. job' = [Noted(f, "upload") EXCEPT ![k] = new] /\ new.op = "delete"
      BY <1>6 DEF BeginDelete
    <2> HIDE DEF new
    <2>2. job'[k] = new /\ \A m \in Node : m # k => job'[m] = Noted(f, "upload")[m]
      BY <2>1, NotedJobs DEF StoreInv
    <2> QED
      BY <2>1, <2>2, ListNoted
  <1>7. ASSUME NEW k \in Node, RemoveReplica(k)
        PROVE  SameList(n)
    <2>1. PICK f, d :
            /\ job' = [m \in Node |->
                  IF m = k THEN [job[k] EXCEPT !.todo = @ \ {d}, !.removed = @ \/ d \in Holders(f)]
                  ELSE IF m = d /\ Uploading(d, f) THEN [job[d] EXCEPT !.linked = FALSE]
                  ELSE job[m]]
            /\ job[k].op = "delete"
      BY <1>7 DEF RemoveReplica
    <2>2. n # k
      BY <2>1
    <2>3. ~ (n = d /\ Uploading(d, f))
      BY <2>1, <2>2 DEF Uploading
    <2>4. job'[n] = job[n]
      BY <2>1, <2>2, <2>3
    <2> QED
      BY <1>1, <2>4
  <1>8. ASSUME NEW k \in Node,
               \/ BeginList(k) \/ ReadDirectory(k) \/ DescribeFile(k)
               \/ \E f \in Name : FindPrimary(k, f)
        PROVE  k = n \/ SameList(n)
    <2>1. k # n => job'[n] = job[n]
      BY <1>0, <1>8 DEF BeginList, ReadDirectory, DescribeFile, FindPrimary
    <2> QED
      BY <1>1, <2>1
  <1>9. ASSUME UNCHANGED job
        PROVE  SameList(n)
    BY <1>1, <1>9
  <1>10. ASSUME NEW k \in Node, SendFile(k) \/ Restart(k) \/ \E f \in Name : BeginDownload(k, f)
         PROVE  SameList(n)
    BY <1>9, <1>10 DEF SendFile, Restart, BeginDownload
  <1>11. CASE UNCHANGED vars
    BY <1>9, <1>11 DEF vars
  <1> QED
    BY <1>3, <1>4, <1>5, <1>6, <1>7, <1>8, <1>10, <1>11 DEF Next

-----------------------------------------------------------------------------
\* A file that no handler changes stays as it is ...
Kept(g) == ~ Changing(g)' /\ Holders(g)' = Holders(g)

\* ... unless a change of it begins, which is noted everywhere.
NotedEverywhere(g) ==
    \A m \in Node :
        /\ job'[m].op = "list" => g \notin job'[m].quiet
        /\ stream'[m] # None /\ stream'[m].name = g => ~ stream'[m].quiet

\* The history of the responses to be sent.
LEMMA StreamNoted ==
    ASSUME RestTyped, NEW f \in Name, stream' = StreamsNoted(f), NEW m \in Node, stream'[m] # None
    PROVE  /\ stream[m] # None
           /\ stream'[m].name = stream[m].name /\ stream'[m].from = stream[m].from
           /\ stream'[m].quiet => stream[m].quiet /\ stream[m].name # f
  <1>1. stream'[m] = IF stream[m] # None /\ stream[m].name = f
                     THEN [stream[m] EXCEPT !.quiet = FALSE] ELSE stream[m]
    BY DEF StreamsNoted
  <1>2. stream[m] \in {None} \cup [name : Name, from : Node \cup {None}, quiet : BOOLEAN]
    BY DEF RestTyped
  <1>3. stream[m] # None
    BY <1>1
  <1> QED
    BY <1>1, <1>2, <1>3

\* A handler that reads, ends or is killed changes no file.
LEMMA ReaderKeeps ==
    ASSUME StoreInv, NEW k \in Node, NEW j, job' = [job EXCEPT ![k] = j],
           j.op \notin {"upload", "delete"}, NEW g \in Name, ~ Changing(g),
           Holders(g)' = Holders(g)
    PROVE  Kept(g)
  <1>1. \A m \in Node : m # k => job'[m] = job[m]
    BY DEF StoreInv, Shapes
  <1>2. job'[k] = j
    BY DEF StoreInv, Shapes
  <1> QED
    BY <1>1, <1>2 DEF Kept, Changing, Uploading, Deleting

LEMMA QuietOrNoted ==
    ASSUME StoreInv, ListsTyped, RestTyped, [Next]_vars, NEW g \in Name, ~ Changing(g)
    PROVE  Kept(g) \/ NotedEverywhere(g)
  <1>0. DOMAIN job = Node /\ dir \in [Node -> [Name -> Held \cup {"absent"}]]
    BY DEF StoreInv, Shapes
  <1>1. ASSUME UNCHANGED <<dir, job>>
        PROVE  Kept(g)
    BY <1>1 DEF Kept, Changing, Uploading, Deleting, Holders
  <1>2. ASSUME NEW k \in Node, NEW f \in Name, NEW kind \in {"upload", "delete"}, NEW new,
               new.op \in {"upload", "delete"}, new.name = f,
               job' = [Noted(f, kind) EXCEPT ![k] = new], stream' = StreamsNoted(f),
               f # g => Holders(g)' = Holders(g)
        PROVE  Kept(g) \/ NotedEverywhere(g)
    <2>1. CASE f = g
      <3>1. ASSUME NEW m \in Node, job'[m].op = "list"
            PROVE  g \notin job'[m].quiet
        <4>1. job'[k] = new /\ \A n \in Node : n # k => job'[n] = Noted(f, kind)[n]
          BY <1>2 DEF Noted
        <4>2. SameList(m) /\ f \notin job'[m].quiet
          BY <1>2, <3>1, <4>1, ListNoted
        <4> QED
          BY <2>1, <4>2
      <3>2. \A m \in Node : stream'[m] # None /\ stream'[m].name = g => ~ stream'[m].quiet
        BY <1>2, <2>1, StreamNoted
      <3> QED
        BY <3>1, <3>2 DEF NotedEverywhere
    <2>2. CASE f # g
      <3>1. job'[k] = new /\ \A m \in Node : m # k => job'[m] = Noted(f, kind)[m]
        BY <1>2 DEF Noted
      <3>2. ASSUME NEW m \in Node
            PROVE  ~ (Uploading(m, g)' \/ Deleting(m, g)')
        <4>1. CASE m = k
          BY <1>2, <2>2, <3>1, <4>1 DEF Uploading, Deleting
        <4>2. CASE m # k
          <5>1. /\ job'[m].op = job[m].op
                /\ job[m].op \in {"upload", "delete"} => job'[m].name = job[m].name
            BY <3>1, <4>2, NotedJobs DEF StoreInv
          <5> QED
            BY <5>1 DEF Changing, Uploading, Deleting
        <4> QED
          BY <4>1, <4>2
      <3> QED
        BY <1>2, <2>2, <3>2 DEF Kept, Changing
    <2> QED
      BY <2>1, <2>2
  <1>3. ASSUME NEW k \in Node, NEW f \in Name, NEW c \in Content, BeginUpload(k, f, c)
        PROVE  Kept(g) \/ NotedEverywhere(g)
    <2> DEFINE new == [op |-> "upload", name |-> f, content |-> c, at |-> "copy",
                       linked |-> TRUE, alone |-> \A m \in Node : ~ Deleting(m, f)]
    <2>1. /\ job' = [Noted(f, "delete") EXCEPT ![k] = new] /\ new.op = "upload" /\ new.name = f
          /\ stream' = StreamsNoted(f) /\ dir' = [dir EXCEPT ![k][f] = "partial"]
      BY <1>3 DEF BeginUpload
    <2>2. f # g => Holders(g)' = Holders(g)
      BY <1>0, <2>1 DEF Holders
    <2> HIDE DEF new
    <2> QED
      BY <1>2, <2>1, <2>2
  <1>4. ASSUME NEW k \in Node, NEW f \in Name, NEW byId \in BOOLEAN, BeginDelete(k, f, byId)
        PROVE  Kept(g) \/ NotedEverywhere(g)
    <2> DEFINE new == [op |-> "delete", name |-> f, removed |-> FALSE,
                       todo |-> IF byId /\ Holders(f) = {} THEN {} ELSE Targets(k),
                       alone |-> \A m \in Node : ~ Uploading(m, f)]
    <2>1. /\ job' = [Noted(f, "upload") EXCEPT ![k] = new] /\ new.op = "delete" /\ new.name = f
          /\ stream' = StreamsNoted(f) /\ dir' = dir
      BY <1>4 DEF BeginDelete
    <2>2. Holders(g)' = Holders(g)
      BY <2>1 DEF Holders
    <2> HIDE DEF new
    <2> QED
      BY <1>2, <2>1, <2>2
  <1>5. ASSUME NEW k \in Node, CopyContent(k)
        PROVE  Kept(g)
    <2>1. job' = [job EXCEPT ![k].at = "replicate"] /\ job[k].op = "upload" /\ job[k].name # g
      BY <1>5 DEF CopyContent, Changing, Uploading
    <2>2. \A m \in Node : job'[m].op = job[m].op /\ job'[m].name = job[m].name
      BY <1>0, <2>1
    <2>3. Holders(g)' = Holders(g)
      <3>1. \A d \in Node : dir'[d][g] = dir[d][g]
        BY <1>0, <1>5, <2>1 DEF CopyContent
      <3> QED
        BY <3>1 DEF Holders
    <2> QED
      BY <2>2, <2>3 DEF Kept, Changing, Uploading, Deleting
  <1>6. ASSUME NEW k \in Node, AnswerUpload(k)
        PROVE  Kept(g)
    <2>1. /\ job' = [job EXCEPT ![k] = Idle] /\ job[k].name # g
          /\ dir' = [d \in Node |-> IF d \in Reached(k)
                        THEN [dir[d] EXCEPT ![job[k].name] = job[k].content] ELSE dir[d]]
      BY <1>6 DEF AnswerUpload, Changing, Uploading
    <2>2. Holders(g)' = Holders(g)
      BY <1>0, <2>1 DEF Holders
    <2>3. Idle.op \notin {"upload", "delete"}
      BY DEF Idle
    <2> QED
      BY <2>1, <2>2, <2>3, ReaderKeeps
  <1>7. ASSUME NEW k \in Node, RemoveReplica(k)
        PROVE  Kept(g)
    <2>1. PICK f, d :
            /\ f = job[k].name
            /\ dir' = [dir EXCEPT ![d][f] = "absent"]
            /\ job' = [m \in Node |->
                  IF m = k THEN [job[k] EXCEPT !.todo = @ \ {d}, !.removed = @ \/ d \in Holders(f)]
                  ELSE IF m = d /\ Uploading(d, f) THEN [job[d] EXCEPT !.linked = FALSE]
                  ELSE job[m]]
            /\ job[k].op = "delete"
      BY <1>7 DEF RemoveReplica
    <2>2. f # g
      BY <2>1 DEF Changing, Deleting
    <2>3. Holders(g)' = Holders(g)
      <3>1. \A e \in Node : dir'[e][g] = dir[e][g]
        BY <1>0, <2>1, <2>2
      <3> QED
        BY <3>1 DEF Holders
    <2>4. ASSUME NEW m \in Node
          PROVE  job'[m].op = job[m].op /\ job'[m].name = job[m].name
      <3>1. CASE m = k
        <4>1. job'[k] = [job[k] EXCEPT !.todo = @ \ {d}, !.removed = @ \/ d \in Holders(f)]
          BY <2>1
        <4>2. job[k] \in DeleteJob
          BY <2>1 DEF StoreInv, Shapes, JobShape, Idle, UploadJob, ListShape
        <4> QED
          BY <3>1, <4>1, <4>2 DEF DeleteJob
      <3>2. CASE m # k /\ m = d /\ Uploading(d, f)
        <4>1. job'[m] = [job[m] EXCEPT !.linked = FALSE]
          BY <2>1, <3>2
        <4>2. job[m] \in UploadJob
          BY <3>2 DEF StoreInv, Shapes, JobShape, Idle, DeleteJob, ListShape, Uploading
        <4> QED
          BY <4>1, <4>2 DEF UploadJob
      <3>3. CASE m # k /\ ~ (m = d /\ Uploading(d, f))
        BY <2>1, <3>3
      <3> QED
        BY <3>1, <3>2, <3>3
    <2> QED
      BY <2>3, <2>4 DEF Kept, Changing, Uploading, Deleting
  <1>8. ASSUME NEW k \in Node, AnswerDelete(k) \/ MeasureFails(k) \/ AnswerList(k)
        PROVE  Kept(g)
    <2>1. job' = [job EXCEPT ![k] = Idle] /\ dir' = dir /\ Idle.op \notin {"upload", "delete"}
      BY <1>8 DEF AnswerDelete, MeasureFails, AnswerList, Idle
    <2>2. Holders(g)' = Holders(g)
      BY <2>1 DEF Holders
    <2> QED
      BY <2>1, <2>2, ReaderKeeps
  <1>9. ASSUME NEW k \in Node,
               \/ BeginList(k) \/ ReadDirectory(k) \/ DescribeFile(k)
               \/ \E f \in Name : FindPrimary(k, f)
        PROVE  Kept(g)
    <2>1. job'[k].op \notin {"upload", "delete"}
      <3>1. job[k].op = "list" => DOMAIN job[k] = ListFields
        BY DEF ListsTyped
      <3>2. CASE BeginList(k)
        BY <1>0, <3>2 DEF BeginList
      <3>3. CASE ReadDirectory(k)
        BY <1>0, <3>1, <3>3 DEF ReadDirectory, ListFields
      <3>4. CASE DescribeFile(k)
        BY <1>0, <3>1, <3>4 DEF DescribeFile, ListFields, Idle
      <3>5. CASE \E f \in Name : FindPrimary(k, f)
        BY <1>0, <3>1, <3>5 DEF FindPrimary, ListFields
      <3> QED
        BY <1>9, <3>2, <3>3, <3>4, <3>5
    <2>2. dir' = dir /\ \A m \in Node : m # k => job'[m] = job[m]
      BY <1>0, <1>9 DEF BeginList, ReadDirectory, DescribeFile, FindPrimary
    <2> QED
      BY <2>1, <2>2 DEF Kept, Changing, Uploading, Deleting, Holders
  <1>10. ASSUME NEW k \in Node, SendFile(k) \/ Restart(k) \/ \E f \in Name : BeginDownload(k, f)
         PROVE  Kept(g)
    BY <1>1, <1>10 DEF SendFile, Restart, BeginDownload
  <1>11. ASSUME NEW k \in Node, Crash(k)
         PROVE  Kept(g)
    <2>1. /\ job' = [job EXCEPT ![k] = Idle]
          /\ dir' = [dir EXCEPT ![k] = [f \in Name |-> IF dir[k][f] = "partial" THEN "torn"
                                                       ELSE dir[k][f]]]
          /\ Idle.op \notin {"upload", "delete"}
      BY <1>0, <1>11 DEF Crash, Idle
    <2>2. Holders(g)' = Holders(g)
      BY <1>0, <2>1 DEF Holders
    <2> QED
      BY <2>1, <2>2, ReaderKeeps
  <1>12. CASE UNCHANGED vars
    BY <1>1, <1>12 DEF vars
  <1> QED
    BY <1>3, <1>4, <1>5, <1>6, <1>7, <1>8, <1>9, <1>10, <1>11, <1>12 DEF Next

-----------------------------------------------------------------------------
\* A listing stays within its type, and its rows among the files it has seen.
LEMMA ListsTypedStep ==
    ASSUME StoreInv, ListsTyped, [Next]_vars
    PROVE  ListsTyped'
  <1> SUFFICES ASSUME NEW n \in Node, job'[n].op = "list"
               PROVE  /\ DOMAIN job'[n] = ListFields
                      /\ IsListJob(job'[n])
                      /\ job'[n].current # None => job'[n].current \in job'[n].seen
    BY DEF ListsTyped
  <1>0. DOMAIN job = Node
    BY DEF StoreInv, Shapes
  <1>1. CASE BeginList(n)
    <2>1. job'[n] = [op |-> "list", todo |-> Node, seen |-> {}, current |-> None,
                     primary |-> None, rows |-> << >>, quiet |-> {f \in Name : ~ Changing(f)}]
      BY <1>0, <1>1 DEF BeginList
    <2>2. DOMAIN job'[n].rows = {}
      BY <2>1
    <2> QED
      BY <2>1, <2>2 DEF ListFields, IsListJob
  <1>2. ASSUME job[n].op = "list"
        PROVE  /\ DOMAIN job[n] = ListFields
               /\ IsListJob(job[n])
               /\ job[n].current # None => job[n].current \in job[n].seen
    BY <1>2 DEF ListsTyped
  <1>3. CASE ReadDirectory(n)
    <2>1. PICK d : /\ d \in job[n].todo
                   /\ job' = [job EXCEPT ![n].todo = @ \ {d},
                                         ![n].seen = @ \cup {f \in Name : d \in Holders(f)}]
      <3>1. First(job[n].todo, n) \in job[n].todo
        BY <1>2, <1>3, FirstVisited DEF ReadDirectory, IsListJob
      <3> QED
        BY <1>3, <3>1 DEF ReadDirectory
    <2>2. job[n].op = "list"
      BY <1>3 DEF ReadDirectory
    <2>3. job'[n] = [job[n] EXCEPT !.todo = @ \ {d},
                                   !.seen = @ \cup {f \in Name : d \in Holders(f)}]
      BY <1>0, <2>1
    <2>4. /\ DOMAIN job'[n] = ListFields
          /\ job'[n].todo = job[n].todo \ {d}
          /\ job'[n].seen = job[n].seen \cup {f \in Name : d \in Holders(f)}
          /\ job'[n].current = job[n].current /\ job'[n].primary = job[n].primary
          /\ job'[n].rows = job[n].rows /\ job'[n].quiet = job[n].quiet
      BY <1>2, <2>2, <2>3 DEF ListFields
    <2> QED
      BY <1>2, <2>2, <2>4 DEF IsListJob
  <1>4. CASE \E f \in Name : FindPrimary(n, f)
    <2>1. PICK f \in Name : FindPrimary(n, f)
      BY <1>4
    <2>2. Source(n, f) \in Node \cup {None}
      <3>1. Holders(f) \in SUBSET Node
        BY DEF Holders
      <3> QED
        BY <3>1, FirstVisited DEF Source
    <2>3. /\ job[n].op = "list" /\ f \in job[n].seen
          /\ job'[n] = [job[n] EXCEPT !.current = f, !.primary = Source(n, f)]
      BY <1>0, <2>1 DEF FindPrimary
    <2>4. /\ DOMAIN job'[n] = ListFields
          /\ job'[n].current = f /\ job'[n].primary = Source(n, f)
          /\ job'[n].todo = job[n].todo /\ job'[n].seen = job[n].seen
          /\ job'[n].rows = job[n].rows /\ job'[n].quiet = job[n].quiet
      BY <1>2, <2>3 DEF ListFields
    <2> QED
      BY <1>2, <2>2, <2>3, <2>4 DEF IsListJob
  <1>5. CASE DescribeFile(n)
    <2>1. PICK f : /\ f = job[n].current /\ f # None /\ job[n].op = "list"
                   /\ job'[n] = [job[n] EXCEPT !.current = None, !.primary = None,
                                    !.rows = [g \in DOMAIN job[n].rows \cup {f} |->
                                       IF g = f THEN Replicas(n, f) ELSE job[n].rows[g]]]
      BY <1>0, <1>5 DEF DescribeFile
    <2>2. f \in job[n].seen /\ f \in Name
      BY <1>2, <2>1 DEF IsListJob
    <2>3. Replicas(n, f) \in (SUBSET Node) \ {{}}
      <3>1. Holders(f) \in SUBSET Node /\ {n} \in SUBSET Node /\ {n} # {}
        BY DEF Holders
      <3> QED
        BY <3>1 DEF Replicas
    <2>4. /\ DOMAIN job'[n] = ListFields
          /\ job'[n].current = None /\ job'[n].primary = None
          /\ job'[n].rows = [g \in DOMAIN job[n].rows \cup {f} |->
                                IF g = f THEN Replicas(n, f) ELSE job[n].rows[g]]
          /\ job'[n].todo = job[n].todo /\ job'[n].seen = job[n].seen
          /\ job'[n].quiet = job[n].quiet
      BY <1>2, <2>1 DEF ListFields
    <2>5. IsListJob(job[n])
      BY <1>2, <2>1
    <2>6. DOMAIN job'[n].rows \subseteq job'[n].seen
      BY <2>2, <2>4, <2>5 DEF IsListJob
    <2>7. \A g \in DOMAIN job'[n].rows : job'[n].rows[g] \in (SUBSET Node) \ {{}}
      BY <2>3, <2>4, <2>5 DEF IsListJob
    <2> QED
      BY <2>4, <2>5, <2>6, <2>7 DEF IsListJob
  <1>6. CASE SameList(n)
    BY <1>2, <1>6 DEF SameList, IsListJob
  <1> QED
    BY <1>1, <1>3, <1>4, <1>5, <1>6, ListEffects

\* A listing knows the files that were not changed since it began.
LEMMA ListingsStep ==
    ASSUME StoreInv, ListsTyped, ListsTyped', RestTyped, Listings, [Next]_vars
    PROVE  Listings'
  <1> SUFFICES ASSUME NEW n \in Node, job'[n].op = "list", NEW f \in job'[n].quiet
               PROVE  Exact(job[n], f)'
    BY DEF Listings
  <1>0. DOMAIN job = Node /\ f \in Name /\ Holders(f) \subseteq Node
    BY DEF StoreInv, Shapes, ListsTyped, IsListJob, Holders
  <1>1. CASE BeginList(n)
    <2>1. /\ job'[n] = [op |-> "list", todo |-> Node, seen |-> {}, current |-> None,
                        primary |-> None, rows |-> << >>, quiet |-> {g \in Name : ~ Changing(g)}]
          /\ dir' = dir /\ \A m \in Node : m # n => job'[m] = job[m]
      BY <1>0, <1>1 DEF BeginList
    <2>2. ~ Changing(f)
      BY <2>1
    <2>3. ~ Changing(f)' /\ Holders(f)' = Holders(f)
      BY <2>1, <2>2 DEF Changing, Uploading, Deleting, Holders
    <2>4. DOMAIN job'[n].rows = {} /\ job'[n].seen = {} /\ job'[n].todo = Node
      BY <2>1
    <2> QED
      BY <1>0, <2>3, <2>4 DEF Exact
  <1>2. ASSUME job[n].op = "list", f \in job[n].quiet
        PROVE  Exact(job[n], f) /\ Kept(f) /\ DOMAIN job[n] = ListFields
    <2>1. Exact(job[n], f) /\ DOMAIN job[n] = ListFields
      BY <1>2 DEF Listings, ListsTyped
    <2>2. ~ NotedEverywhere(f)
      BY DEF NotedEverywhere
    <2> QED
      BY <1>0, <2>1, <2>2, QuietOrNoted DEF Exact
  <1>3. CASE SameList(n)
    BY <1>2, <1>3 DEF SameList, Exact, Kept
  <1>4. CASE ReadDirectory(n)
    <2>1. PICK d : job' = [job EXCEPT ![n].todo = @ \ {d},
                                      ![n].seen = @ \cup {g \in Name : d \in Holders(g)}]
      BY <1>4 DEF ReadDirectory
    <2>2. job[n].op = "list"
      BY <1>4 DEF ReadDirectory
    <2>3. DOMAIN job[n] = ListFields
      BY <2>2 DEF ListsTyped
    <2>4. /\ job'[n].todo = job[n].todo \ {d}
          /\ job'[n].seen = job[n].seen \cup {g \in Name : d \in Holders(g)}
          /\ job'[n].rows = job[n].rows /\ job'[n].quiet = job[n].quiet
      BY <1>0, <2>1, <2>3 DEF ListFields
    <2> QED
      BY <1>0, <1>2, <2>2, <2>4 DEF Exact, Kept
  <1>5. CASE \E g \in Name : FindPrimary(n, g)
    <2>1. PICK g \in Name : FindPrimary(n, g)
      BY <1>5
    <2>2. /\ job[n].op = "list"
          /\ job'[n] = [job[n] EXCEPT !.current = g, !.primary = Source(n, g)]
      BY <1>0, <2>1 DEF FindPrimary
    <2>3. DOMAIN job[n] = ListFields
      BY <2>2 DEF ListsTyped
    <2>4. /\ job'[n].todo = job[n].todo /\ job'[n].seen = job[n].seen
          /\ job'[n].rows = job[n].rows /\ job'[n].quiet = job[n].quiet
      BY <2>2, <2>3 DEF ListFields
    <2> QED
      BY <1>2, <2>2, <2>4 DEF Exact, Kept
  <1>6. CASE DescribeFile(n)
    <2>1. PICK g : /\ g = job[n].current /\ g # None /\ job[n].op = "list"
                   /\ job'[n] = [job[n] EXCEPT !.current = None, !.primary = None,
                                    !.rows = [h \in DOMAIN job[n].rows \cup {g} |->
                                       IF h = g THEN Replicas(n, g) ELSE job[n].rows[h]]]
      BY <1>0, <1>6 DEF DescribeFile
    <2>2. DOMAIN job[n] = ListFields /\ g \in job[n].seen
      BY <2>1 DEF ListsTyped
    <2>3. /\ job'[n].rows = [h \in DOMAIN job[n].rows \cup {g} |->
                                IF h = g THEN Replicas(n, g) ELSE job[n].rows[h]]
          /\ job'[n].todo = job[n].todo /\ job'[n].seen = job[n].seen
          /\ job'[n].quiet = job[n].quiet
      BY <2>1, <2>2 DEF ListFields
    <2>4. Exact(job[n], f) /\ Kept(f)
      BY <1>2, <2>1, <2>3
    <2>5. f \in DOMAIN job'[n].rows => job'[n].rows[f] = Holders(f)
      <3>1. CASE f = g
        BY <2>2, <2>3, <2>4, <3>1 DEF Exact, Replicas
      <3>2. CASE f # g
        BY <2>3, <2>4, <3>2 DEF Exact
      <3> QED
        BY <3>1, <3>2
    <2> QED
      BY <2>3, <2>4, <2>5 DEF Exact, Kept
  <1> QED
    BY <1>1, <1>3, <1>4, <1>5, <1>6, ListEffects

-----------------------------------------------------------------------------
\* Processes, responses and counters stay within their types.
LEMMA RestTypedStep ==
    ASSUME RestTyped, [Next]_vars
    PROVE  RestTyped'
  <1> USE StoreAssumption DEF RestTyped
  <1>1. ASSUME UNCHANGED <<up, stream, requests, crashes>>
        PROVE  RestTyped'
    BY <1>1
  <1>2. ASSUME NEW n \in Node, NEW f \in Name, requests < MaxRequests, requests' = requests + 1,
               stream' = StreamsNoted(f), UNCHANGED <<up, crashes>>
        PROVE  RestTyped'
    <2>1. ASSUME NEW m \in Node
          PROVE  stream'[m] \in {None} \cup [name : Name, from : Node \cup {None}, quiet : BOOLEAN]
      <3>1. stream'[m] = IF stream[m] # None /\ stream[m].name = f
                         THEN [stream[m] EXCEPT !.quiet = FALSE] ELSE stream[m]
        BY <1>2 DEF StreamsNoted
      <3>2. stream[m] \in {None} \cup [name : Name, from : Node \cup {None}, quiet : BOOLEAN]
        OBVIOUS
      <3> QED
        BY <3>1, <3>2
    <2>2. stream' = [m \in Node |-> stream'[m]]
      BY <1>2 DEF StreamsNoted
    <2> QED
      BY <1>2, <2>1, <2>2
  <1>3. ASSUME NEW n \in Node, NEW f \in Name, NEW c \in Content, BeginUpload(n, f, c)
        PROVE  RestTyped'
    BY <1>2, <1>3 DEF BeginUpload, Request
  <1>4. ASSUME NEW n \in Node, NEW f \in Name, NEW byId \in BOOLEAN, BeginDelete(n, f, byId)
        PROVE  RestTyped'
    BY <1>2, <1>4 DEF BeginDelete, Request
  <1>5. ASSUME NEW n \in Node, BeginList(n)
        PROVE  RestTyped'
    BY <1>5 DEF BeginList, Request
  <1>6. ASSUME NEW n \in Node, NEW f \in Name, BeginDownload(n, f)
        PROVE  RestTyped'
    <2>1. Source(n, f) \in Node \cup {None}
      <3>1. Holders(f) \in SUBSET Node
        BY DEF Holders
      <3> QED
        BY <3>1, FirstVisited DEF Source
    <2> QED
      BY <1>6, <2>1 DEF BeginDownload, Request, DownloadFrom
  <1>7. ASSUME NEW n \in Node, SendFile(n) \/ Restart(n) \/ Crash(n)
        PROVE  RestTyped'
    BY <1>7 DEF SendFile, Restart, Crash
  <1>8. CASE UNCHANGED vars
    BY <1>1, <1>8 DEF vars
  <1>9. ASSUME NEW n \in Node,
               \/ CopyContent(n) \/ AnswerUpload(n) \/ RemoveReplica(n) \/ AnswerDelete(n)
               \/ ReadDirectory(n) \/ DescribeFile(n) \/ MeasureFails(n) \/ AnswerList(n)
               \/ \E f \in Name : FindPrimary(n, f)
        PROVE  RestTyped'
    BY <1>1, <1>9 DEF CopyContent, AnswerUpload, RemoveReplica, AnswerDelete, ReadDirectory,
       DescribeFile, MeasureFails, AnswerList, FindPrimary
  <1> QED
    BY <1>3, <1>4, <1>5, <1>6, <1>7, <1>8, <1>9 DEF Next

\* The steps that begin a response are BeginDownload's.
LEMMA StreamEffects ==
    ASSUME RestTyped, [Next]_vars, NEW n \in Node, stream'[n] # None, stream'[n].quiet
    PROVE  \/ \E f \in Name : BeginDownload(n, f)
           \/ /\ stream[n] # None /\ stream[n].quiet
              /\ stream'[n].name = stream[n].name /\ stream'[n].from = stream[n].from
  <1> DEFINE Goal == /\ stream[n] # None /\ stream[n].quiet
                     /\ stream'[n].name = stream[n].name /\ stream'[n].from = stream[n].from
  <1>1. ASSUME stream'[n] = stream[n]
        PROVE  Goal
    BY <1>1
  <1>2. ASSUME NEW f \in Name, stream' = StreamsNoted(f)
        PROVE  Goal
    BY <1>2, StreamNoted
  <1>3. ASSUME NEW k \in Node, NEW f \in Name, BeginDownload(k, f)
        PROVE  BeginDownload(n, f) \/ Goal
    <2>1. CASE k = n
      BY <1>3, <2>1
    <2>2. CASE k # n
      BY <1>3, <2>2 DEF BeginDownload, RestTyped
    <2> QED
      BY <2>1, <2>2
  <1>4. ASSUME NEW k \in Node, SendFile(k) \/ Crash(k)
        PROVE  Goal
    BY <1>4 DEF SendFile, Crash, RestTyped
  <1>5. ASSUME NEW k \in Node, NEW f \in Name, NEW c \in Content, BeginUpload(k, f, c)
        PROVE  Goal
    BY <1>2, <1>5 DEF BeginUpload
  <1>6. ASSUME NEW k \in Node, NEW f \in Name, NEW byId \in BOOLEAN, BeginDelete(k, f, byId)
        PROVE  Goal
    BY <1>2, <1>6 DEF BeginDelete
  <1>7. ASSUME UNCHANGED vars
        PROVE  Goal
    BY <1>1, <1>7 DEF vars
  <1>8. ASSUME NEW k \in Node,
               \/ CopyContent(k) \/ AnswerUpload(k) \/ RemoveReplica(k) \/ AnswerDelete(k)
               \/ BeginList(k) \/ ReadDirectory(k) \/ DescribeFile(k) \/ MeasureFails(k) \/ AnswerList(k)
               \/ Restart(k) \/ \E f \in Name : FindPrimary(k, f)
        PROVE  Goal
    BY <1>1, <1>8 DEF CopyContent, AnswerUpload, RemoveReplica, AnswerDelete, BeginList,
       ReadDirectory, DescribeFile, MeasureFails, AnswerList, Restart, FindPrimary
  <1> HIDE DEF Goal
  <1>9. Goal \/ \E f \in Name : BeginDownload(n, f)
    BY <1>3, <1>4, <1>5, <1>6, <1>7, <1>8 DEF Next
  <1> QED
    BY <1>9 DEF Goal

\* A download of a file that is not changed keeps the directory it has found.
LEMMA StreamsStep ==
    ASSUME StoreInv, ListsTyped, RestTyped, Streams, [Next]_vars
    PROVE  Streams'
  <1> SUFFICES ASSUME NEW n \in Node, stream'[n] # None, stream'[n].quiet
               PROVE  /\ ~ Changing(stream[n].name)'
                      /\ \/ stream'[n].from \in Holders(stream[n].name)'
                         \/ stream'[n].from = None /\ Holders(stream[n].name)' = {}
    BY DEF Streams
  <1>1. ASSUME NEW f \in Name, BeginDownload(n, f)
        PROVE  /\ ~ Changing(stream[n].name)'
               /\ \/ stream'[n].from \in Holders(stream[n].name)'
                  \/ stream'[n].from = None /\ Holders(stream[n].name)' = {}
    <2>1. /\ stream'[n] = [name |-> f, from |-> Source(n, f), quiet |-> ~ Changing(f)]
          /\ UNCHANGED <<dir, job>>
      BY <1>1 DEF BeginDownload, DownloadFrom, RestTyped
    <2>2. stream'[n].name = f /\ stream'[n].from = Source(n, f) /\ ~ Changing(f)
      <3>1. PICK b : b = ~ Changing(f)
        OBVIOUS
      <3>2. stream'[n] = [name |-> f, from |-> Source(n, f), quiet |-> b]
        BY <2>1, <3>1, Zenon
      <3>3. stream'[n].name = f /\ stream'[n].from = Source(n, f) /\ stream'[n].quiet = b
        BY <3>2
      <3> QED
        BY <3>1, <3>3, Zenon
    <2>3. \A g : Holders(g)' = Holders(g) /\ (Changing(g)' <=> Changing(g))
      BY <2>1 DEF Holders, Changing, Uploading, Deleting
    <2>4. Source(n, f) \in Holders(f) \/ (Source(n, f) = None /\ Holders(f) = {})
      <3>1. Holders(f) \in SUBSET Node
        BY DEF Holders
      <3> QED
        BY <3>1, FirstVisited DEF Source
    <2>5. Changing(stream[n].name)' = Changing(f)' /\ Holders(stream[n].name)' = Holders(f)'
      BY <2>2 DEF Holders, Changing, Uploading, Deleting
    <2> QED
      BY <2>2, <2>3, <2>4, <2>5
  <1>2. ASSUME stream[n] # None, stream[n].quiet, stream'[n].name = stream[n].name,
               stream'[n].from = stream[n].from
        PROVE  /\ ~ Changing(stream[n].name)'
               /\ \/ stream'[n].from \in Holders(stream[n].name)'
                  \/ stream'[n].from = None /\ Holders(stream[n].name)' = {}
    <2>1. PICK f \in Name : f = stream[n].name
      BY <1>2 DEF RestTyped
    <2>2. ~ Changing(f) /\ (stream[n].from \in Holders(f) \/ (stream[n].from = None /\ Holders(f) = {}))
      BY <1>2, <2>1 DEF Streams
    <2>3. ~ NotedEverywhere(f)
      BY <1>2, <2>1 DEF NotedEverywhere
    <2>4. ~ Changing(f)' /\ Holders(f)' = Holders(f)
      BY <2>2, <2>3, QuietOrNoted DEF Kept
    <2>5. Changing(stream[n].name)' = Changing(f)' /\ Holders(stream[n].name)' = Holders(f)'
      BY <1>2, <2>1 DEF Holders, Changing, Uploading, Deleting
    <2> QED
      BY <1>2, <2>2, <2>4, <2>5
  <1> QED
    BY <1>1, <1>2, StreamEffects

\* Noting a change leaves an upload's progress alone.
LEMMA NotedProgress ==
    ASSUME NEW j \in UploadJob, NEW f \in Name, NEW kind \in {"upload", "delete"}
    PROVE  LET k == NotedIn(j, f, kind)
           IN  k.op = j.op /\ k.name = j.name /\ k.at = j.at /\ k.linked = j.linked
  BY DEF UploadJob, NotedIn

\* What is half written is being written, by the handler that began it.
LEMMA WritingStep ==
    ASSUME StoreInv, Writing, [Next]_vars
    PROVE  Writing'
  <1> DEFINE At(d, f) == Uploading(d, f) /\ job[d].at = "copy" /\ job[d].linked
  <1> SUFFICES ASSUME NEW d \in Node, NEW f \in Name, dir'[d][f] = "partial"
               PROVE  At(d, f)'
    BY DEF Writing
  <1>0. /\ DOMAIN job = Node /\ dir \in [Node -> [Name -> Held \cup {"absent"}]]
        /\ "partial" \notin Content
    BY StoreAssumption DEF StoreInv, Shapes
  <1>1. ASSUME dir[d][f] = "partial"
        PROVE  /\ job[d] \in UploadJob /\ Uploading(d, f)
               /\ job[d].at = "copy" /\ job[d].linked /\ job[d].op = "upload" /\ job[d].name = f
    BY <1>1 DEF Writing, StoreInv, Shapes, JobShape, Uploading, Idle, DeleteJob, ListShape
  <1>2. ASSUME dir[d][f] = "partial", job'[d] = job[d]
        PROVE  At(d, f)'
    BY <1>1, <1>2 DEF Uploading
  <1>3. ASSUME NEW k \in Node, NEW g \in Name, NEW kind \in {"upload", "delete"}, job[k] = Idle,
               dir[d][f] = "partial", \A m \in Node : m # k => job'[m] = Noted(g, kind)[m]
        PROVE  At(d, f)'
    <2>1. d # k
      BY <1>1, <1>3 DEF Idle
    <2>2. job'[d] = NotedIn(job[d], g, kind)
      BY <1>3, <2>1 DEF Noted
    <2> QED
      BY <1>1, <1>3, <2>2, NotedProgress DEF Uploading
  <1>4. ASSUME NEW k \in Node, NEW g \in Name, NEW c \in Content, BeginUpload(k, g, c)
        PROVE  At(d, f)'
    <2> DEFINE new == [op |-> "upload", name |-> g, content |-> c, at |-> "copy",
                       linked |-> TRUE, alone |-> \A m \in Node : ~ Deleting(m, g)]
    <2>1. /\ job' = [Noted(g, "delete") EXCEPT ![k] = new] /\ job[k] = Idle
          /\ dir' = [dir EXCEPT ![k][g] = "partial"]
      BY <1>4 DEF BeginUpload, Request
    <2>2. new.op = "upload" /\ new.name = g /\ new.at = "copy" /\ new.linked
      OBVIOUS
    <2> HIDE DEF new
    <2>3. job'[k] = new /\ \A m \in Node : m # k => job'[m] = Noted(g, "delete")[m]
      BY <2>1, NotedJobs DEF StoreInv
    <2>4. CASE d = k /\ f = g
      BY <2>2, <2>3, <2>4 DEF Uploading
    <2>5. CASE ~ (d = k /\ f = g)
      <3>1. dir[d][f] = "partial"
        BY <1>0, <2>1, <2>5
      <3> QED
        BY <1>3, <2>1, <2>3, <3>1
    <2> QED
      BY <2>4, <2>5
  <1>5. ASSUME NEW k \in Node, NEW g \in Name, NEW byId \in BOOLEAN, BeginDelete(k, g, byId)
        PROVE  At(d, f)'
    <2> DEFINE new == [op |-> "delete", name |-> g, removed |-> FALSE,
                       todo |-> IF byId /\ Holders(g) = {} THEN {} ELSE Targets(k),
                       alone |-> \A m \in Node : ~ Uploading(m, g)]
    <2>1. job' = [Noted(g, "upload") EXCEPT ![k] = new] /\ job[k] = Idle /\ dir' = dir
      BY <1>5 DEF BeginDelete, Request
    <2> HIDE DEF new
    <2>2. \A m \in Node : m # k => job'[m] = Noted(g, "upload")[m]
      BY <2>1
    <2> QED
      BY <1>3, <2>1, <2>2
  <1>6. ASSUME NEW k \in Node, CopyContent(k)
        PROVE  At(d, f)'
    <2>1. /\ job' = [job EXCEPT ![k].at = "replicate"] /\ job[k].op = "upload"
          /\ dir' = IF job[k].linked THEN [dir EXCEPT ![k][job[k].name] = job[k].content] ELSE dir
      BY <1>6 DEF CopyContent
    <2>2. job[k] \in UploadJob
      BY <2>1 DEF StoreInv, Shapes, JobShape, Idle, DeleteJob, ListShape
    <2>3. job[k].name \in Name /\ job[k].content \in Content
      BY <2>2 DEF UploadJob
    <2>4. dir[d][f] = "partial" /\ ~ (d = k /\ job[k].linked /\ job[k].name = f)
      BY <1>0, <2>1, <2>3
    <2>5. d # k
      BY <1>1, <2>4
    <2>6. job'[d] = job[d]
      BY <1>0, <2>1, <2>5
    <2> QED
      BY <1>2, <2>4, <2>6
  <1>7. ASSUME NEW k \in Node, AnswerUpload(k)
        PROVE  At(d, f)'
    <2>1. /\ job' = [job EXCEPT ![k] = Idle] /\ job[k].op = "upload" /\ job[k].at = "replicate"
          /\ dir' = [e \in Node |-> IF e \in Reached(k)
                        THEN [dir[e] EXCEPT ![job[k].name] = job[k].content] ELSE dir[e]]
      BY <1>7 DEF AnswerUpload
    <2>2. job[k] \in UploadJob
      BY <2>1 DEF StoreInv, Shapes, JobShape, Idle, DeleteJob, ListShape
    <2>3. job[k].content \in Content
      BY <2>2 DEF UploadJob
    <2>4. dir[d][f] = "partial"
      BY <1>0, <2>1, <2>3
    <2>5. d # k
      BY <1>1, <2>1, <2>4
    <2>6. job'[d] = job[d]
      BY <1>0, <2>1, <2>5
    <2> QED
      BY <1>2, <2>4, <2>6
  <1>8. ASSUME NEW k \in Node, RemoveReplica(k)
        PROVE  At(d, f)'
    <2>1. PICK g, e :
            /\ g = job[k].name
            /\ dir' = [dir EXCEPT ![e][g] = "absent"]
            /\ job' = [m \in Node |->
                  IF m = k THEN [job[k] EXCEPT !.todo = @ \ {e}, !.removed = @ \/ e \in Holders(g)]
                  ELSE IF m = e /\ Uploading(e, g) THEN [job[e] EXCEPT !.linked = FALSE]
                  ELSE job[m]]
            /\ job[k].op = "delete"
      BY <1>8 DEF RemoveReplica
    <2>2. dir[d][f] = "partial" /\ ~ (d = e /\ f = g)
      BY <1>0, <2>1
    <2>3. d # k /\ ~ (d = e /\ Uploading(e, g))
      BY <1>1, <2>1, <2>2 DEF Uploading
    <2>4. job'[d] = job[d]
      BY <2>1, <2>3
    <2> QED
      BY <1>2, <2>2, <2>4
  <1>9. ASSUME NEW k \in Node, Crash(k)
        PROVE  At(d, f)'
    <2>1. /\ job' = [job EXCEPT ![k] = Idle]
          /\ dir' = [dir EXCEPT ![k] = [g \in Name |-> IF dir[k][g] = "partial" THEN "torn"
                                                       ELSE dir[k][g]]]
      BY <1>0, <1>9 DEF Crash
    <2>2. dir[d][f] = "partial" /\ d # k
      BY <1>0, <2>1
    <2>3. job'[d] = job[d]
      BY <1>0, <2>1, <2>2
    <2> QED
      BY <1>2, <2>2, <2>3
  <1>10. ASSUME NEW k \in Node, dir' = dir, job[k].op # "upload",
                \A m \in Node : m # k => job'[m] = job[m]
         PROVE  At(d, f)'
    BY <1>1, <1>2, <1>10
  <1>11. ASSUME NEW k \in Node,
                \/ AnswerDelete(k) \/ AnswerList(k) \/ BeginList(k) \/ ReadDirectory(k)
                \/ DescribeFile(k) \/ MeasureFails(k) \/ \E g \in Name : FindPrimary(k, g)
         PROVE  At(d, f)'
    <2>1. dir' = dir /\ \A m \in Node : m # k => job'[m] = job[m]
      BY <1>0, <1>11 DEF AnswerDelete, AnswerList, BeginList, ReadDirectory, DescribeFile,
         MeasureFails, FindPrimary
    <2>2. job[k] = Idle \/ job[k].op \in {"delete", "list"}
      BY <1>11 DEF AnswerDelete, AnswerList, BeginList, Request, ReadDirectory, DescribeFile,
         MeasureFails, FindPrimary
    <2>3. job[k].op # "upload"
      BY <2>2 DEF Idle
    <2> QED
      BY <1>10, <2>1, <2>3
  <1>12. ASSUME UNCHANGED <<dir, job>>
         PROVE  At(d, f)'
    BY <1>2, <1>12
  <1>13. ASSUME NEW k \in Node, SendFile(k) \/ Restart(k) \/ \E g \in Name : BeginDownload(k, g)
         PROVE  At(d, f)'
    BY <1>12, <1>13 DEF SendFile, Restart, BeginDownload
  <1>14. CASE UNCHANGED vars
    BY <1>12, <1>14 DEF vars
  <1> HIDE DEF At
  <1> QED
    BY <1>4, <1>5, <1>6, <1>7, <1>8, <1>9, <1>11, <1>13, <1>14 DEF Next

-----------------------------------------------------------------------------
\* The strengthened invariant of the store.
ReadInv == StoreInv /\ ListsTyped /\ RestTyped /\ Listings /\ Streams /\ Writing

LEMMA ReadInvariant == Spec => []ReadInv
  <1>1. Init => ReadInv
    <2> SUFFICES ASSUME Init
                 PROVE  ReadInv
      OBVIOUS
    <2>1. ListsTyped /\ Listings
      BY DEF Init, ListsTyped, Listings, Idle
    <2>2. RestTyped /\ Streams
      BY StoreAssumption DEF Init, RestTyped, Streams
    <2>3. Writing
      BY DEF Init, Writing
    <2> QED
      BY <2>1, <2>2, <2>3, StoreInit DEF ReadInv
  <1>2. ReadInv /\ [Next]_vars => ReadInv'
    <2> SUFFICES ASSUME ReadInv, [Next]_vars
                 PROVE  ReadInv'
      OBVIOUS
    <2>1. StoreInv /\ ListsTyped /\ RestTyped /\ Listings /\ Streams /\ Writing
      BY DEF ReadInv
    <2>2. StoreInv' /\ ListsTyped' /\ RestTyped'
      BY <2>1, StoreStep, ListsTypedStep, RestTypedStep
    <2>3. Listings' /\ Streams' /\ Writing'
      BY <2>1, <2>2, ListingsStep, StreamsStep, WritingStep
    <2> QED
      BY <2>2, <2>3 DEF ReadInv
  <1> QED
    BY <1>1, <1>2, PTL DEF Spec

\* TypeOK: directories, handlers and responses stay within their types, and every row
\* of a listing names a node (list_files in replicate_routes.py).
THEOREM StoreTyped == Spec => []TypeOK
  <1>1. ReadInv => TypeOK
    <2> SUFFICES ASSUME ReadInv
                 PROVE  TypeOK
      OBVIOUS
    <2>1. \A n \in Node : job[n] \in {Idle} \cup UploadJob \cup DeleteJob \/ IsListJob(job[n])
      BY DEF ReadInv, StoreInv, Shapes, JobShape, ListShape, ListsTyped
    <2> QED
      BY <2>1 DEF ReadInv, StoreInv, Shapes, RestTyped, TypeOK
  <1> QED
    BY <1>1, ReadInvariant, PTL

\* DownloadServes holds for every number of nodes, names and requests: a file that must
\* be there is sent whole by every node, unless a change of it overlaps the download
\* (download_file in replicate_routes.py).
THEOREM DownloadServed == Spec => DownloadServes
  <1> DEFINE Step ==
         \A n \in Node :
            stream[n] # None /\ stream'[n] = None /\ n \in up'
                /\ stream[n].quiet /\ fate[stream[n].name] = "in"
            => Served(n) \in Content \cup {"torn"}
  <1>1. ReadInv => Step
    <2> SUFFICES ASSUME ReadInv, NEW n \in Node, stream[n] # None, stream[n].quiet,
                        fate[stream[n].name] = "in"
                 PROVE  Served(n) \in Content \cup {"torn"}
      OBVIOUS
    <2>1. PICK f \in Name : f = stream[n].name
      BY DEF ReadInv, RestTyped
    <2>2. Holders(f) # {} /\ ~ Changing(f)
      BY <2>1 DEF ReadInv, StoreInv, Fates, Streams
    <2>3. stream[n].from \in Holders(f)
      BY <2>1, <2>2 DEF ReadInv, Streams
    <2>4. PICK d \in Node : d = stream[n].from /\ dir[d][f] # "absent"
      BY <2>3 DEF Holders
    <2>5. dir[d][f] # "partial"
      BY <2>2 DEF ReadInv, Writing, Changing
    <2>6. dir[d][f] \in Held \cup {"absent"}
      BY DEF ReadInv, StoreInv, Shapes
    <2>7. d # None
      BY StoreAssumption
    <2> QED
      BY <2>1, <2>4, <2>5, <2>6, <2>7 DEF Served, Held
  <1>2. ReadInv => [Step]_vars
    BY <1>1
  <1> QED
    BY <1>2, ReadInvariant, PTL DEF DownloadServes

\* ListingIsExact holds for every number of nodes, names and requests: a listing shows
\* exactly the files that are there, with their replicas, as far as no change of them
\* overlapped it (list_files in replicate_routes.py).
THEOREM ListingExact == Spec => ListingIsExact
  <1> DEFINE Step ==
         \A n \in Node : AnswerList(n) =>
            \A f \in job[n].quiet :
                /\ f \in DOMAIN job[n].rows <=> Holders(f) # {}
                /\ f \in DOMAIN job[n].rows => job[n].rows[f] = Holders(f)
  <1>1. ReadInv => Step
    <2> SUFFICES ASSUME ReadInv, NEW n \in Node, job[n].op = "list", job[n].todo = {},
                        DOMAIN job[n].rows = job[n].seen, NEW f \in job[n].quiet
                 PROVE  /\ f \in DOMAIN job[n].rows <=> Holders(f) # {}
                        /\ f \in DOMAIN job[n].rows => job[n].rows[f] = Holders(f)
      BY DEF AnswerList
    <2> QED
      BY DEF ReadInv, Listings, Exact
  <1>2. ReadInv => [Step]_vars
    BY <1>1
  <1> QED
    BY <1>2, ReadInvariant, PTL DEF ListingIsExact

=============================================================================
