----------------------------- MODULE FileLedger -----------------------------
(***************************************************************************)
(* The dashboard's ledger of files, frontend/src/services/fileService.ts,  *)
(* over its polling loop (Poller) and the requests of api/client.ts.       *)
(*                                                                         *)
(* A row is taken out of the ledger when its deletion begins and put back  *)
(* when it fails, while answers to GET /files, each a copy of the server's *)
(* list at the time it was handled, replace the ledger as a whole.         *)
(* deleteState and uploadState are one field each for all deletions and    *)
(* uploads under way.  Searching, downloads and progress are not modelled: *)
(* they read the ledger or set what is shown.                              *)
(***************************************************************************)
EXTENDS Poller, SequencesExt

CONSTANTS
    File,          \* files, named by numbers: the server lists them sorted
    Stored,        \* the files on the server to begin with
    Local,         \* the files a user has to upload
    Deletion,      \* deletions that may be under way at once
    Upload,        \* uploads that may be under way at once
    MaxRefreshes,  \* bound: refreshes a user asks for
    MaxDeletions,  \* bound: deletions a user asks for
    MaxUploads     \* bound: uploads a user asks for

ASSUME LedgerAssumption ==
    /\ File \subseteq Nat /\ IsFiniteSet(File)
    /\ Stored \subseteq File
    /\ Local \subseteq File
    /\ None \notin Deletion \cup Upload
    /\ MaxRefreshes \in Nat
    /\ MaxDeletions \in Nat
    /\ MaxUploads \in Nat

VARIABLES
    server,        \* the files the server holds
    answer,        \* the list on its way to a request, None before it is handled
    files,         \* files: the rows of the ledger
    totalFiles,    \* totalFiles
    deletion,      \* deletions under way: the file, its row, the server's answer
    deleteState,   \* deleteState: what the panel shows, and of which file
    upload,        \* uploads under way: the file and how far it is
    uploadState,   \* uploadState
    refreshes, deletions, uploads

rowVars == <<files, totalFiles>>
deleteVars == <<deletion, deleteState, deletions>>
uploadVars == <<upload, uploadState, uploads>>
dataVars == <<server, answer, rowVars, deleteVars, uploadVars>>
ledgerVars == <<dataVars, refreshes>>
otherVars == <<pollerVars, refreshes>>
vars == <<pollerVars, ledgerVars>>

Nothing == [kind |-> "none"]

Shown(kind, f) == [kind |-> kind, file |-> f]

Init ==
    /\ PollerInit
    /\ server = Stored
    /\ answer = [x \in Call |-> None]
    /\ files = <<>>
    /\ totalFiles = 0
    /\ deletion = [d \in Deletion |-> None]
    /\ deleteState = Nothing
    /\ upload = [u \in Upload |-> None]
    /\ uploadState = Nothing
    /\ refreshes = 0
    /\ deletions = 0
    /\ uploads = 0

-----------------------------------------------------------------------------
(***************************************************************************)
(* fetchFiles.                                                             *)
(***************************************************************************)

\* GET /files: the server's list, sorted by name.
Listing ==
    LET n == Cardinality(server)
    IN  CHOOSE list \in [1..n -> server] : \A i, j \in 1..n : i < j => list[i] < list[j]

ServeList(x) ==
    /\ x \in Fetching \ aborted
    /\ answer[x] = None
    /\ up
    /\ answer' = [answer EXCEPT ![x] = Listing]
    /\ UNCHANGED <<otherVars, server, rowVars, deleteVars, uploadVars>>

\* Mutant of Loaded: rows are only added.
LoadedOnTop(list) == files \o SelectSeq(list, LAMBDA f : f \notin ToSet(files))

\* The answer replaces the ledger.
Loaded(list) == list

LoadFiles(x) ==
    /\ FetchSucceeds(x)
    /\ answer[x] # None
    /\ files' = Loaded(answer[x])
    /\ totalFiles' = Len(files')
    /\ answer' = [answer EXCEPT ![x] = None]
    /\ UNCHANGED <<refreshes, server, deleteVars, uploadVars>>

LoadFails(x) ==
    /\ FetchFails(x)
    /\ answer' = [answer EXCEPT ![x] = None]
    /\ UNCHANGED <<refreshes, server, rowVars, deleteVars, uploadVars>>

\* The buttons that call refreshFiles.
RefreshFiles(r) ==
    /\ BeginRefresh(r)
    /\ refreshes < MaxRefreshes
    /\ refreshes' = refreshes + 1
    /\ UNCHANGED dataVars

\* reset
Reset ==
    /\ ResetPolling
    /\ files' = <<>>
    /\ totalFiles' = 0
    /\ deleteState' = Nothing
    /\ uploadState' = Nothing
    /\ UNCHANGED <<refreshes, server, answer, deletion, deletions, upload, uploads>>

-----------------------------------------------------------------------------
(***************************************************************************)
(* deleteFile.                                                             *)
(***************************************************************************)

\* A row's Delete button, which is disabled while that file is being deleted.
SetConfirmingDelete(f) ==
    /\ f \in ToSet(files)
    /\ deleteState # Shown("deleting", f)
    /\ deletions < MaxDeletions
    /\ deleteState' = Shown("confirming", f)
    /\ UNCHANGED <<otherVars, server, answer, rowVars, deletion, deletions, uploadVars>>

\* Cancel, or the error is dismissed.
DismissDelete ==
    /\ deleteState.kind \in {"confirming", "error"}
    /\ deleteState' = Nothing
    /\ UNCHANGED <<otherVars, server, answer, rowVars, deletion, deletions, uploadVars>>

\* Deletion refused before any request: the cluster status says NO MAJORITY.
DeletePaused ==
    /\ deleteState.kind = "confirming"
    /\ deletions < MaxDeletions
    /\ deletions' = deletions + 1
    /\ deleteState' = Shown("error", deleteState.file)
    /\ UNCHANGED <<otherVars, server, answer, rowVars, deletion, uploadVars>>

\* The row is taken out and its position remembered.
DeleteFile(d) ==
    /\ deletion[d] = None
    /\ deleteState.kind = "confirming"
    /\ deleteState.file \in ToSet(files)
    /\ deletions < MaxDeletions
    /\ deletions' = deletions + 1
    /\ LET f == deleteState.file
           row == SelectInSeq(files, LAMBDA g : g = f)
       IN  /\ files' = RemoveAt(files, row)
           /\ deletion' = [deletion EXCEPT ![d] =
                  [file |-> f, row |-> row, answer |-> "none"]]
           /\ deleteState' = Shown("deleting", f)
    /\ totalFiles' = IF totalFiles > 0 THEN totalFiles - 1 ELSE 0
    /\ UNCHANGED <<otherVars, server, answer, uploadVars>>

\* DELETE /files/{id}: 200, or 404 if the server has no such file.
ServeDelete(d) ==
    /\ deletion[d] # None
    /\ deletion[d].answer = "none"
    /\ up
    /\ LET f == deletion[d].file
       IN  /\ server' = server \ {f}
           /\ deletion' = [deletion EXCEPT
                  ![d].answer = IF f \in server THEN "ok" ELSE "refused"]
    /\ UNCHANGED <<otherVars, answer, rowVars, deleteState, deletions, uploadVars>>

\* Success: the panel is cleared and the ledger fetched again.
DeleteSucceeds(d, r) ==
    /\ deletion[d] # None
    /\ deletion[d].answer = "ok"
    /\ up
    /\ deletion' = [deletion EXCEPT ![d] = None]
    /\ deleteState' = Nothing
    /\ BeginRefresh(r)
    /\ UNCHANGED <<refreshes, server, answer, rowVars, deletions, uploadVars>>

\* Mutant of TotalAfterRollback: the row is counted as gone.
TotalKept == totalFiles

TotalAfterRollback == totalFiles + 1

\* The least of two positions.
Least(i, j) == IF i < j THEN i ELSE j

\* Mutant of DeleteFailed: no timeout.
DeleteFailedIfRefused(d) == deletion[d].answer = "refused"

\* Refused, or no answer, in which case the server may have deleted the file.
DeleteFailed(d) == deletion[d].answer = "refused" \/ ~ up

\* Failure.  The row goes back to its old position, the end if there are fewer rows.
DeleteFails(d) ==
    /\ deletion[d] # None
    /\ DeleteFailed(d)
    /\ files' = InsertAt(files, Least(deletion[d].row, Len(files) + 1), deletion[d].file)
    /\ totalFiles' = TotalAfterRollback
    /\ deletion' = [deletion EXCEPT ![d] = None]
    /\ deleteState' = Shown("error", deletion[d].file)
    /\ UNCHANGED <<otherVars, server, answer, deletions, uploadVars>>

-----------------------------------------------------------------------------
(***************************************************************************)
(* uploadFile, by XMLHttpRequest.                                          *)
(***************************************************************************)
BeginUpload(u, f) ==
    /\ upload[u] = None
    /\ uploads < MaxUploads
    /\ uploads' = uploads + 1
    /\ upload' = [upload EXCEPT ![u] = [file |-> f, at |-> "sent"]]
    /\ uploadState' = Shown("uploading", f)
    /\ UNCHANGED <<otherVars, server, answer, rowVars, deleteVars>>

UploadFile(u, f) == BeginUpload(u, f)

\* setUploadError, under NO MAJORITY: an error with no file to try again.
UploadPaused(f) ==
    /\ uploads < MaxUploads
    /\ uploadState' = Shown("paused", f)
    /\ UNCHANGED <<otherVars, server, answer, rowVars, deleteVars, upload, uploads>>

\* retryLastUpload
RetryLastUpload(u) ==
    /\ uploadState.kind = "error"
    /\ BeginUpload(u, uploadState.file)

DismissUploadError ==
    /\ uploadState.kind \in {"error", "paused"}
    /\ uploadState' = Nothing
    /\ UNCHANGED <<otherVars, server, answer, rowVars, deleteVars, upload, uploads>>

\* POST /files/upload: stored ...
ServeUpload(u) ==
    /\ upload[u] # None
    /\ upload[u].at = "sent"
    /\ up
    /\ server' = server \cup {upload[u].file}
    /\ upload' = [upload EXCEPT ![u].at = "stored"]
    /\ UNCHANGED <<otherVars, answer, rowVars, deleteVars, uploadState, uploads>>

\* ... or answered by a status that is not 2xx.  onload then neither resolves nor
\* rejects: its error branch is inside the branch for success.
RefuseUpload(u) ==
    /\ upload[u] # None
    /\ upload[u].at = "sent"
    /\ up
    /\ upload' = [upload EXCEPT ![u].at = "refused"]
    /\ UNCHANGED <<otherVars, server, answer, rowVars, deleteVars, uploadState, uploads>>

\* Success: the card shows it and the ledger is fetched again.
UploadSucceeds(u, r) ==
    /\ upload[u] # None
    /\ upload[u].at = "stored"
    /\ up
    /\ upload' = [upload EXCEPT ![u] = [file |-> @.file, at |-> "shown", after |-> r]]
    /\ uploadState' = Shown("done", upload[u].file)
    /\ BeginRefresh(r)
    /\ UNCHANGED <<refreshes, server, answer, rowVars, deleteVars, uploads>>

\* Some time after that fetch the card is taken away, if it still says done.
ClearUpload(u) ==
    /\ upload[u] # None
    /\ upload[u].at = "shown"
    /\ upload[u].after \notin Fetching
    /\ upload' = [upload EXCEPT ![u] = None]
    /\ uploadState' = IF uploadState.kind = "done" THEN Nothing ELSE uploadState
    /\ UNCHANGED <<otherVars, server, answer, rowVars, deleteVars, uploads>>

\* onerror, ontimeout
UploadFails(u) ==
    /\ upload[u] # None
    /\ upload[u].at \in {"sent", "stored"}
    /\ ~ up
    /\ upload' = [upload EXCEPT ![u] = None]
    /\ uploadState' = Shown("error", upload[u].file)
    /\ UNCHANGED <<otherVars, server, answer, rowVars, deleteVars, uploads>>

-----------------------------------------------------------------------------
Next ==
    \/ \E l \in Loop : StartPolling(l) /\ UNCHANGED ledgerVars
    \/ StopPolling /\ UNCHANGED ledgerVars
    \/ Reset
    \/ \E l \in Loop : Tick(l) /\ UNCHANGED ledgerVars
    \/ BackendChanges /\ UNCHANGED ledgerVars
    \/ \E x \in Call : ServeList(x)
    \/ \E x \in Call : LoadFiles(x)
    \/ \E x \in Call : LoadFails(x)
    \/ \E r \in Refresh : RefreshFiles(r)
    \/ \E f \in File : SetConfirmingDelete(f)
    \/ DismissDelete
    \/ DeletePaused
    \/ \E d \in Deletion : DeleteFile(d)
    \/ \E d \in Deletion : ServeDelete(d)
    \/ \E d \in Deletion, r \in Refresh : DeleteSucceeds(d, r)
    \/ \E d \in Deletion : DeleteFails(d)
    \/ \E u \in Upload, f \in Local : UploadFile(u, f)
    \/ \E f \in Local : UploadPaused(f)
    \/ \E u \in Upload : RetryLastUpload(u)
    \/ DismissUploadError
    \/ \E u \in Upload : ServeUpload(u)
    \/ \E u \in Upload : RefuseUpload(u)
    \/ \E u \in Upload, r \in Refresh : UploadSucceeds(u, r)
    \/ \E u \in Upload : ClearUpload(u)
    \/ \E u \in Upload : UploadFails(u)

Spec == Init /\ [][Next]_vars

\* Timers fire, and a request is answered, refused or timed out: request() and the
\* XMLHttpRequest both have a timeout.  Users and the backend owe nothing.
Fairness ==
    /\ \A l \in Loop : WF_vars(Tick(l) /\ UNCHANGED ledgerVars)
    /\ \A x \in Call : WF_vars(ServeList(x)) /\ WF_vars(LoadFiles(x) \/ LoadFails(x))
    /\ \A d \in Deletion :
          /\ WF_vars(ServeDelete(d))
          /\ WF_vars(DeleteFails(d) \/ \E r \in Refresh : DeleteSucceeds(d, r))
    /\ \A u \in Upload :
          /\ WF_vars(ServeUpload(u) \/ RefuseUpload(u))
          /\ WF_vars(UploadFails(u) \/ \E r \in Refresh : UploadSucceeds(u, r))
          /\ WF_vars(ClearUpload(u))

FairSpec == Spec /\ Fairness

-----------------------------------------------------------------------------
\* TypeOK: rows, states and requests stay within their types.
TypeOK ==
    /\ PollerTypeOK
    /\ server \subseteq File
    /\ \A x \in Call : answer[x] = None \/ (x \in Fetching /\ answer[x] \in Seq(File))
    /\ files \in Seq(File)
    /\ totalFiles \in Nat
    /\ \A d \in Deletion :
          deletion[d] = None \/ deletion[d] \in
              [file : File, row : Nat \ {0}, answer : {"none", "ok", "refused"}]
    /\ deleteState \in {Nothing} \cup
          [kind : {"confirming", "deleting", "error"}, file : File]
    /\ \A u \in Upload : upload[u] = None \/ upload[u].file \in File
    /\ uploadState \in {Nothing} \cup
          [kind : {"uploading", "done", "error", "paused"}, file : File]
    /\ refreshes \in 0..MaxRefreshes
    /\ deletions \in 0..MaxDeletions
    /\ uploads \in 0..MaxUploads

\* TotalMatchesRows: the total in the panel's header is the number of rows, through
\* optimistic removals, rollbacks and answers in any order.
TotalMatchesRows == totalFiles = Len(files)

\* LedgerConverges: once the backend stays up and polling goes on, the ledger ends
\* up as the server's list and stays so, whatever stale answers, rollbacks after
\* lost answers and restarts of the loop came before.
LedgerConverges == <>[](up /\ isPolling) => <>[](files = Listing)

\* DeleteSettles: the panel does not show a deletion as running for ever, also when
\* the backend stays away or another deletion takes the one field they share.
DeleteSettles == deleteState.kind = "deleting" ~> deleteState.kind # "deleting"

\* UploadSettles: the panel does not show an upload as running for ever: "Manages
\* upload failure states with inline error display and retry capability."
UploadSettles == uploadState.kind = "uploading" ~> uploadState.kind # "uploading"

=============================================================================
