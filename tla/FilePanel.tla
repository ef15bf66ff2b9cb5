----------------------------- MODULE FilePanel ------------------------------
(***************************************************************************)
(* The file panel of the dashboard: main.ts, FilePanel.ts and              *)
(* ErrorBoundary.ts.                                                       *)
(*                                                                         *)
(* The page is drawn as a whole by renderDashboard and then kept current   *)
(* by listeners: the file service calls its listener after every request   *)
(* and every change, and the listeners of the other two services update    *)
(* the panel when what they last handed to it has changed.  The table is   *)
(* not touched when a signature of what it shows is the one it was last    *)
(* updated with.  A fault replaces the page by a fallback, under which the *)
(* listeners return at once, until the user asks for another attempt.      *)
(*                                                                         *)
(* The user acts on what is drawn.  The ledger's order and totals and the  *)
(* server are FileLedger's; here an answer brings any listing.             *)
(***************************************************************************)
EXTENDS Naturals, FiniteSets

CONSTANTS
    File,          \* files
    Node,          \* nodes that hold replicas
    Listed,        \* what the server may say of a file: where it is, its status
    Listing,       \* what it may list: each file as listed, None if it is not
    Heartbeats,    \* what may be known of the nodes
    ClusterState,  \* cluster states, None when the cluster does not answer
    Query,         \* searches, each the set of the files it matches
    None,          \* null
    MaxActs,       \* bound: uploads, downloads and deletions begun
    MaxFaults      \* bound: exceptions nobody caught

ASSUME PanelAssumption ==
    /\ Listed \subseteq [on : SUBSET Node, status : {"REPLICATED", "SYNCING", "CORRUPTED"}]
    /\ Listing \subseteq [File -> Listed \cup {None}]
    /\ Heartbeats \subseteq [Node -> {"leader", "follower", "offline", "unlisted"}]
    /\ Heartbeats # {}
    /\ None \notin Listed /\ None \notin File
    /\ None \in ClusterState
    /\ Query \subseteq SUBSET File /\ File \in Query
    /\ {MaxActs, MaxFaults} \subseteq Nat

FileOrNone == File \cup {None}

SignatureType ==
    [query : SUBSET File, cluster : ClusterState,
     action : [d : FileOrNone, c : FileOrNone, del : FileOrNone], nodes : Heartbeats,
     files : UNION {[fs -> Listed] : fs \in SUBSET File}]

ASSUME SignatureAssumption == None \notin SignatureType

VARIABLES
    files,          \* the ledger: what is known of each file, None for no row
    query,          \* searchQuery: File when it is blank
    uploadState, downloadState, deleteState,
    uploading,      \* uploads under way
    downloading,    \* downloads under way
    deleting,       \* deletions under way: the row that was taken out
    nodes,          \* the heartbeat service's nodes
    cluster,        \* cluster_state of the last answer
    error,          \* errorBoundary.hasError()
    panel,          \* what #file-panel-root shows
    signature,      \* lastFilePanelTableSignature
    lastCluster,    \* lastDispatchedClusterState
    lastNodes,      \* lastDispatchedNodeSignature
    acts, faults

requestVars == <<uploading, downloading, deleting>>
stateVars == <<uploadState, downloadState, deleteState>>
otherServices == <<nodes, cluster>>
drawnVars == <<panel, signature>>
lastVars == <<lastCluster, lastNodes>>
pageVars == <<error, lastVars, faults>>
vars == <<files, query, requestVars, stateVars, otherServices, drawnVars, pageVars, acts>>

Nothing == [kind |-> "none"]

Shown(kind, f) == [kind |-> kind, file |-> f]

Paused == cluster = "NO MAJORITY"

-----------------------------------------------------------------------------
(***************************************************************************)
(* What the panel shows.                                                   *)
(***************************************************************************)

\* getFilteredFiles
FilteredFiles == {f \in query : files[f] # None}

\* findNodeForTarget: a node nobody lists is taken to be online.
Reached(f) == {n \in files[f].on : nodes[n] # "offline"}

\* The badge of a row.
FileStatus(f) ==
    LET file == files[f] IN
    CASE file.status # "REPLICATED" -> file.status
      [] file.status = "REPLICATED" /\ Reached(f) = {} /\ file.on # {} -> "UNREACHABLE"
      [] file.status = "REPLICATED" /\ Reached(f) # {} /\ Reached(f) # file.on -> "DEGRADED"
      [] OTHER -> "REPLICATED"

Downloading(f) == downloadState = Shown("downloading", f)

Deleting(f) == deleteState = Shown("deleting", f)

Confirming(f) == deleteState = Shown("confirming", f)

\* renderFileRow
FileRow(f) ==
    [badge |-> FileStatus(f),
     pills |-> [n \in files[f].on |-> nodes[n]],
     confirm |-> Confirming(f),
     download |-> ~ Downloading(f) /\ ~ Deleting(f) /\ Reached(f) # {},
     delete |-> ~ Downloading(f) /\ ~ Deleting(f) /\ ~ Paused]

FileRows == [f \in FilteredFiles |-> FileRow(f)]

\* renderClusterNoticeBanner, and with it whether the upload button is disabled.
ClusterNotice == IF cluster \in {"OPERATIONAL", "NO MAJORITY"} THEN cluster ELSE None

\* renderUploadProgress, renderDownloadError and renderDeleteError
StatusSlot ==
    [upload |-> IF uploadState.kind = "done" THEN Nothing ELSE uploadState,
     download |-> IF downloadState.kind = "error" THEN downloadState ELSE Nothing,
     delete |-> IF deleteState.kind = "error" THEN deleteState ELSE Nothing]

Content == [notice |-> ClusterNotice, slot |-> StatusSlot, rows |-> FileRows]

\* renderFilePanelEmpty has no table.
FilePanelEmpty == [kind |-> "empty", content |-> Content]

FilePanelTable == [kind |-> "table", content |-> Content]

\* renderFilePanel
FilePanel ==
    IF FilteredFiles = {} /\ query = File THEN FilePanelEmpty ELSE FilePanelTable

\* renderFallback
Fallback == [kind |-> "fallback", content |-> None]

\* What the signature says of the states: the files they are about.
ActionSignature ==
    [d |-> IF downloadState.kind = "downloading" THEN downloadState.file ELSE None,
     c |-> IF deleteState.kind = "confirming" THEN deleteState.file ELSE None,
     del |-> IF deleteState.kind = "deleting" THEN deleteState.file ELSE None]

\* Mutant of Signature: what is known of the nodes is left out.
SignatureOfFiles ==
    [query |-> query, cluster |-> cluster, action |-> ActionSignature, nodes |-> None,
     files |-> [f \in FilteredFiles |-> files[f]]]

\* Mutant of Signature: the states are left out.
SignatureOfData ==
    [query |-> query, cluster |-> cluster, action |-> None, nodes |-> nodes,
     files |-> [f \in FilteredFiles |-> files[f]]]

\* tableSignature
Signature ==
    [query |-> query, cluster |-> cluster, action |-> ActionSignature, nodes |-> nodes,
     files |-> [f \in FilteredFiles |-> files[f]]]

Init ==
    /\ files = [f \in File |-> None]
    /\ query = File
    /\ uploadState = Nothing
    /\ downloadState = Nothing
    /\ deleteState = Nothing
    /\ uploading = {}
    /\ downloading = {}
    /\ deleting = [f \in File |-> None]
    /\ nodes \in Heartbeats
    /\ cluster = None
    /\ error = FALSE
    /\ panel = FilePanel
    /\ signature = None
    /\ lastCluster = None
    /\ lastNodes = nodes
    /\ acts = 0
    /\ faults = 0

-----------------------------------------------------------------------------
(***************************************************************************)
(* Drawing.                                                                *)
(***************************************************************************)

\* Mutant of UpdateFilePanel: it returns before the slots when the table is unchanged.
UpdateFilePanelEarly ==
    IF panel.kind = "table"
    THEN IF Signature' = signature
         THEN UNCHANGED drawnVars
         ELSE panel' = FilePanelTable' /\ signature' = Signature'
    ELSE panel' = FilePanel' /\ signature' = None

\* updateFilePanelDOM
UpdateFilePanel ==
    IF panel.kind = "table"
    THEN /\ panel' = [kind |-> "table",
                      content |-> [notice |-> ClusterNotice', slot |-> StatusSlot',
                          rows |-> IF Signature' = signature
                                   THEN panel.content.rows ELSE FileRows']]
         /\ signature' = Signature'
    ELSE panel' = FilePanel' /\ signature' = None

\* Mutant of NotifyListeners: the listener draws under a fallback.
NotifyAlways == UpdateFilePanel

\* The listener of the file service, called by notifyListeners.
NotifyListeners == IF error THEN UNCHANGED drawnVars ELSE UpdateFilePanel

\* renderDashboard draws everything, or an exception in it is caught by wrap.
RenderDashboard ==
    \/ /\ error' = FALSE
       /\ panel' = FilePanel
       /\ UNCHANGED faults
    \/ /\ faults < MaxFaults
       /\ faults' = faults + 1
       /\ error' = TRUE
       /\ panel' = Fallback

\* hashchange
RouteChange ==
    /\ ~ error
    /\ RenderDashboard
    /\ UNCHANGED <<files, query, requestVars, stateVars, otherServices, signature, lastVars, acts>>

\* window.onerror and unhandledrejection
Fault ==
    /\ faults < MaxFaults
    /\ faults' = faults + 1
    /\ error' = TRUE
    /\ panel' = Fallback
    /\ UNCHANGED <<files, query, requestVars, stateVars, otherServices, signature, lastVars, acts>>

\* Re-attempt Render and Reset Telemetry State.  The requests they also make end as
\* any other.
TriggerRetry ==
    /\ error
    /\ RenderDashboard
    /\ UNCHANGED <<files, query, requestVars, stateVars, otherServices, signature, lastVars, acts>>

-----------------------------------------------------------------------------
(***************************************************************************)
(* What the services learn.                                                *)
(***************************************************************************)

\* fetchFiles ends: with a listing, or without, and its listener is called.
FetchFiles ==
    /\ \/ files' \in Listing
       \/ UNCHANGED files
    /\ UNCHANGED <<query, requestVars, stateVars, otherServices, pageVars, acts>>
    /\ NotifyListeners

\* A cluster status arrives, None when it could not be had.
ClusterStatusArrives(c) ==
    /\ cluster' = c
    /\ UNCHANGED <<files, query, requestVars, stateVars, nodes, error, lastNodes, faults, acts>>
    /\ IF error \/ c = lastCluster
       THEN UNCHANGED <<lastCluster, drawnVars>>
       ELSE lastCluster' = c /\ UpdateFilePanel

\* Heartbeats arrive.
HeartbeatsArrive(h) ==
    /\ nodes' = h
    /\ UNCHANGED <<files, query, requestVars, stateVars, cluster, error, lastCluster, faults, acts>>
    /\ IF error \/ h = lastNodes
       THEN UNCHANGED <<lastNodes, drawnVars>>
       ELSE lastNodes' = h /\ UpdateFilePanel

-----------------------------------------------------------------------------
(***************************************************************************)
(* What the user does with the panel.                                      *)
(***************************************************************************)

\* The search field, which the empty panel disables.
SetSearchQuery(q) ==
    /\ panel.kind = "table"
    /\ query' = q
    /\ UNCHANGED <<files, requestVars, stateVars, otherServices, pageVars, acts>>
    /\ NotifyListeners

Begins ==
    /\ acts < MaxActs
    /\ acts' = acts + 1

\* uploadFile of the client begins; at most one upload of a file at a time.
BeginUpload(f) ==
    /\ f \notin uploading
    /\ Begins
    /\ uploading' = uploading \cup {f}
    /\ uploadState' = Shown("uploading", f)

\* A file is chosen or dropped.  Without a majority only an error is set.
UploadFile(f) ==
    /\ ~ error
    /\ IF Paused
       THEN uploadState' = Shown("paused", f) /\ UNCHANGED <<uploading, acts>>
       ELSE BeginUpload(f)
    /\ UNCHANGED <<files, query, downloading, deleting, downloadState, deleteState,
                   otherServices, pageVars>>
    /\ NotifyListeners

\* retryLastUpload, whatever the cluster status says now.
RetryLastUpload ==
    /\ panel.kind # "fallback" /\ panel.content.slot.upload.kind = "error"
    /\ uploadState.kind \in {"uploading", "error"}
    /\ BeginUpload(uploadState.file)
    /\ UNCHANGED <<files, query, downloading, deleting, downloadState, deleteState,
                   otherServices, pageVars>>
    /\ NotifyListeners

UploadEnds(f, kind) ==
    /\ f \in uploading
    /\ uploading' = uploading \ {f}
    /\ uploadState' = Shown(kind, f)
    /\ UNCHANGED <<files, query, downloading, deleting, downloadState, deleteState,
                   otherServices, pageVars, acts>>
    /\ NotifyListeners

\* The timer that follows a successful upload, and the Dismiss button of an error.
ClearUpload ==
    /\ \/ uploadState.kind = "done"
       \/ ~ error /\ uploadState.kind \in {"error", "paused"}
    /\ uploadState' = Nothing
    /\ UNCHANGED <<files, query, requestVars, downloadState, deleteState, otherServices,
                   pageVars, acts>>
    /\ NotifyListeners

\* The rows whose buttons are drawn: those that ask for confirmation, and the others.
Asking == IF panel.kind = "table"
          THEN {f \in DOMAIN panel.content.rows : panel.content.rows[f].confirm} ELSE {}

Offering(action) ==
    IF panel.kind = "table"
    THEN {f \in DOMAIN panel.content.rows \ Asking : panel.content.rows[f][action]} ELSE {}

\* downloadFile; at most one download of a file at a time.
DownloadFile(f) ==
    /\ f \in Offering("download") \ downloading
    /\ Begins
    /\ downloading' = downloading \cup {f}
    /\ downloadState' = Shown("downloading", f)
    /\ UNCHANGED <<files, query, uploading, deleting, uploadState, deleteState,
                   otherServices, pageVars>>
    /\ NotifyListeners

\* Mutant of AfterDownload: the state is not reset.
AfterDownloadKept == downloadState

\* The blob is handed to the browser, and the state reset, whoever's it is.
AfterDownload == Nothing

\* The blob arrives, or an error status, a refusal or the timeout of 30 s.
DownloadEnds(f) ==
    /\ f \in downloading
    /\ downloading' = downloading \ {f}
    /\ downloadState' \in {AfterDownload, Shown("error", f)}
    /\ UNCHANGED <<files, query, uploading, deleting, uploadState, deleteState,
                   otherServices, pageVars, acts>>
    /\ NotifyListeners

DismissDownloadError ==
    /\ ~ error
    /\ downloadState.kind = "error"
    /\ downloadState' = Nothing
    /\ UNCHANGED <<files, query, requestVars, uploadState, deleteState, otherServices,
                   pageVars, acts>>
    /\ NotifyListeners

\* The Delete button of a row.
SetConfirmingDelete(f) ==
    /\ f \in Offering("delete")
    /\ deleteState' = Shown("confirming", f)
    /\ UNCHANGED <<files, query, requestVars, uploadState, downloadState, otherServices,
                   pageVars, acts>>
    /\ NotifyListeners

\* The Cancel button of a row, and the Dismiss button of an error.
DismissDelete ==
    /\ Asking # {} \/ (~ error /\ deleteState.kind = "error")
    /\ deleteState' = Nothing
    /\ UNCHANGED <<files, query, requestVars, uploadState, downloadState, otherServices,
                   pageVars, acts>>
    /\ NotifyListeners

\* The Confirm button: without a majority only an error is set.
DeleteFile(f) ==
    /\ f \in Asking
    /\ IF Paused
       THEN deleteState' = Shown("error", f) /\ UNCHANGED <<files, deleting, acts>>
       ELSE /\ deleting[f] = None
            /\ Begins
            /\ deleting' = [deleting EXCEPT ![f] = [row |-> files[f]]]
            /\ files' = [files EXCEPT ![f] = None]
            /\ deleteState' = Shown("deleting", f)
    /\ UNCHANGED <<query, uploading, downloading, uploadState, downloadState,
                   otherServices, pageVars>>
    /\ NotifyListeners

\* The deletion is done, or it failed and the row goes back.
DeleteEnds(f) ==
    /\ deleting[f] # None
    /\ deleting' = [deleting EXCEPT ![f] = None]
    /\ \/ deleteState' = Nothing /\ UNCHANGED files
       \/ /\ deleteState' = Shown("error", f)
          /\ files' = [files EXCEPT ![f] = IF @ = None THEN deleting[f].row ELSE @]
    /\ UNCHANGED <<query, uploading, downloading, uploadState, downloadState,
                   otherServices, pageVars, acts>>
    /\ NotifyListeners

-----------------------------------------------------------------------------
Next ==
    \/ RouteChange
    \/ Fault
    \/ TriggerRetry
    \/ FetchFiles
    \/ \E c \in ClusterState : ClusterStatusArrives(c)
    \/ \E h \in Heartbeats : HeartbeatsArrive(h)
    \/ \E q \in Query : SetSearchQuery(q)
    \/ \E f \in File : UploadFile(f)
    \/ RetryLastUpload
    \/ \E f \in File, kind \in {"done", "error"} : UploadEnds(f, kind)
    \/ ClearUpload
    \/ \E f \in File : DownloadFile(f)
    \/ \E f \in File : DownloadEnds(f)
    \/ DismissDownloadError
    \/ \E f \in File : SetConfirmingDelete(f)
    \/ DismissDelete
    \/ \E f \in File : DeleteFile(f)
    \/ \E f \in File : DeleteEnds(f)

Spec == Init /\ [][Next]_vars

\* The ledger is polled as long as the page is there (LoopLives); that a poll must
\* bring something new is not assumed.  A download is answered, refused or timed out.
\* Users owe nothing.
Fairness ==
    /\ WF_vars(FetchFiles /\ UNCHANGED files)
    /\ \A f \in File : WF_vars(DownloadEnds(f))

FairSpec == Spec /\ Fairness

-----------------------------------------------------------------------------
\* TypeOK: the services' states and what is drawn stay within their types.
TypeOK ==
    /\ files \in [File -> Listed \cup {None}]
    /\ query \in Query
    /\ signature \in SignatureType \cup {None}
    /\ uploadState \in {Nothing} \cup
          [kind : {"uploading", "done", "error", "paused"}, file : File]
    /\ downloadState \in {Nothing} \cup [kind : {"downloading", "error"}, file : File]
    /\ deleteState \in {Nothing} \cup
          [kind : {"confirming", "deleting", "error"}, file : File]
    /\ uploading \subseteq File
    /\ downloading \subseteq File
    /\ deleting \in [File -> {None} \cup [row : Listed \cup {None}]]
    /\ nodes \in Heartbeats
    /\ cluster \in ClusterState
    /\ error \in BOOLEAN
    /\ panel.kind \in {"empty", "table", "fallback"}
    /\ panel.kind = "fallback" <=> error
    /\ lastCluster \in ClusterState
    /\ lastNodes \in Heartbeats
    /\ acts \in 0..MaxActs
    /\ faults \in 0..MaxFaults

\* PanelIsCurrent: as long as nothing threw, the panel is what drawing it anew would
\* give, although listeners update it only when their own signature changed and its
\* table only when the signature of the table did.  The exception is a table whose last
\* row has gone: it stays a table, with a row that says so, where drawing anew would give
\* the empty panel.
PanelIsCurrent == faults = 0 => panel = FilePanel \/ panel = FilePanelTable

\* NoConfirmLeftBehind: a Confirm button that is drawn belongs to the deletion the
\* service waits to have confirmed, also after faults and with a stale table: no
\* click deletes a file the user was not asked about.
NoConfirmLeftBehind == \A f \in Asking : Confirming(f)

\* ShownDownloadRuns: a download shown as running is under way, although all
\* downloads share one state and end in any order.
ShownDownloadRuns == downloadState.kind = "downloading" => downloadState.file \in downloading

\* DownloadSettles: no row shows Downloading for ever.
DownloadSettles == downloadState.kind = "downloading" ~> downloadState.kind # "downloading"

\* SlotsConverge: the banner, the paused uploads and the cards of a page that is
\* drawn become current, whatever was missed under a fallback.
SlotsAreCurrent == panel.content.notice = ClusterNotice /\ panel.content.slot = StatusSlot

SlotsConverge == ~ error ~> error \/ SlotsAreCurrent

=============================================================================
