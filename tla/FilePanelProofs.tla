-------------------------- MODULE FilePanelProofs ---------------------------
(***************************************************************************)
(* The file panel shows what it should, for every set of files, of         *)
(* answers and of searches, and any number of requests and faults.         *)
(*                                                                         *)
(* Every step either changes a service and has the panel updated, or       *)
(* changes one unseen, or redraws the page, or replaces it (StepKinds).    *)
(* Three invariants are then preserved by a few kinds of steps each.       *)
(***************************************************************************)
EXTENDS FilePanel, TLAPS

-----------------------------------------------------------------------------
(***************************************************************************)
(* Types.                                                                  *)
(***************************************************************************)

\* TypeOK of the services.
ServicesOK ==
    /\ files \in [File -> Listed \cup {None}]
    /\ query \in Query
    /\ uploadState \in {Nothing} \cup
          [kind : {"uploading", "done", "error", "paused"}, file : File]
    /\ downloadState \in {Nothing} \cup [kind : {"downloading", "error"}, file : File]
    /\ deleteState \in {Nothing} \cup
          [kind : {"confirming", "deleting", "error"}, file : File]
    /\ uploading \subseteq File
    /\ downloading \subseteq File
    /\ deleting \in [File -> {None} \cup [row : Listed \cup {None}]]
    /\ nodes \in Heartbeats
    /\ cluster \in ClusterState
    /\ acts \in 0..MaxActs

\* TypeOK of the page.
DrawnOK ==
    /\ signature \in SignatureType \cup {None}
    /\ panel.kind \in {"empty", "table", "fallback"}
    /\ panel.kind = "fallback" <=> error

PageOK ==
    /\ error \in BOOLEAN
    /\ lastCluster \in ClusterState
    /\ lastNodes \in Heartbeats
    /\ faults \in 0..MaxFaults

LEMMA TypeParts == TypeOK <=> ServicesOK /\ DrawnOK /\ PageOK
  BY DEF TypeOK, ServicesOK, DrawnOK, PageOK

\* A file that is shown is a file, and something is known of it.
LEMMA FilteredAreListed ==
    ASSUME ServicesOK
    PROVE  FilteredFiles \subseteq File /\ \A f \in FilteredFiles : files[f] \in Listed
  BY PanelAssumption DEF ServicesOK, FilteredFiles

LEMMA SignatureTyped == ServicesOK => Signature \in SignatureType
  <1> SUFFICES ASSUME ServicesOK PROVE Signature \in SignatureType
    OBVIOUS
  <1>1. [f \in FilteredFiles |-> files[f]] \in UNION {[fs -> Listed] : fs \in SUBSET File}
    <2> DEFINE shown == [f \in FilteredFiles |-> files[f]]
    <2>1. FilteredFiles \in SUBSET File /\ shown \in [FilteredFiles -> Listed]
      BY FilteredAreListed
    <2> QED
      BY <2>1
  <1>2. ActionSignature \in [d : FileOrNone, c : FileOrNone, del : FileOrNone]
    BY DEF ServicesOK, ActionSignature, FileOrNone, Nothing
  <1>3. query \in SUBSET File /\ cluster \in ClusterState /\ nodes \in Heartbeats
    BY PanelAssumption DEF ServicesOK
  <1> QED
    BY <1>1, <1>2, <1>3 DEF Signature, SignatureType

\* The same of the state after a step.
LEMMA SignatureTypedNext ==
    ASSUME ServicesOK'
    PROVE  Signature' \in SignatureType /\ Signature' # None
  <1>1. ServicesOK' => (Signature \in SignatureType)'
    BY SignatureTyped, PTL
  <1>2. SignatureType' = SignatureType
    BY DEF SignatureType, FileOrNone
  <1> QED
    BY <1>1, <1>2, SignatureAssumption

\* What a drawing of the panel is.
LEMMA PanelDrawn ==
    /\ FilePanel.kind \in {"empty", "table"}
    /\ FilePanel.content = Content
  BY DEF FilePanel, FilePanelEmpty, FilePanelTable

LEMMA PanelDrawnNext ==
    /\ FilePanel'.kind \in {"empty", "table"}
    /\ FilePanel'.content = Content'
  BY DEF FilePanel, FilePanelEmpty, FilePanelTable

-----------------------------------------------------------------------------
(***************************************************************************)
(* Kinds of steps.                                                         *)
(***************************************************************************)

InStep == lastNodes = nodes /\ lastCluster = cluster

\* A listener was called and the page is there.
Updates ==
    /\ ~ error
    /\ UpdateFilePanel
    /\ UNCHANGED <<error, faults>>
    /\ InStep => InStep'

\* A listener was called under a fallback, where nothing asks for confirmation.
Misses ==
    /\ error
    /\ UNCHANGED <<drawnVars, error, faults>>
    /\ deleteState'.kind = "confirming" => deleteState' = deleteState

\* A listener was not called, or there was no step: it brings what it brought last.
Idles ==
    /\ ~ error
    /\ UNCHANGED <<drawnVars, error, faults, files, query, stateVars>>
    /\ InStep => InStep' /\ UNCHANGED otherServices

\* renderDashboard drew the page.
Redraws ==
    /\ panel' = FilePanel
    /\ error' = FALSE
    /\ UNCHANGED <<files, query, stateVars, otherServices, signature, lastVars, faults>>

\* The page was replaced by the fallback.
Falls ==
    /\ panel' = Fallback
    /\ error' = TRUE
    /\ faults' = faults + 1
    /\ UNCHANGED <<files, query, stateVars, otherServices, signature, lastVars>>

LEMMA Notified ==
    ASSUME NotifyListeners, UNCHANGED <<otherServices, pageVars>>,
           error /\ deleteState'.kind = "confirming" => deleteState' = deleteState
    PROVE  Updates \/ Misses
  BY DEF NotifyListeners, Updates, Misses, InStep, otherServices, pageVars, lastVars

\* Something is drawn only when there is no fallback.
LEMMA ActsOnThePage ==
    ASSUME TypeOK
    PROVE  /\ Asking # {} => ~ error
           /\ \A action : Offering(action) # {} => ~ error
  BY DEF TypeOK, Asking, Offering

LEMMA StepKinds ==
    ASSUME TypeOK, [Next]_vars
    PROVE  Updates \/ Misses \/ Idles \/ Redraws \/ Falls
  <1>1. ASSUME UNCHANGED vars
        PROVE  Misses \/ Idles
    BY <1>1 DEF Misses, Idles, vars, pageVars, lastVars, drawnVars, stateVars, otherServices, InStep,
                TypeOK
  <1>2. CASE RouteChange \/ TriggerRetry
    BY <1>2 DEF RouteChange, TriggerRetry, RenderDashboard, Redraws, Falls
  <1>3. CASE Fault
    BY <1>3 DEF Fault, Falls
  <1>4. ASSUME NEW c \in ClusterState, ClusterStatusArrives(c)
        PROVE  Updates \/ Misses \/ Idles
    BY <1>4 DEF ClusterStatusArrives, Updates, Misses, Idles, InStep, drawnVars, stateVars,
                otherServices, lastVars
  <1>5. ASSUME NEW h \in Heartbeats, HeartbeatsArrive(h)
        PROVE  Updates \/ Misses \/ Idles
    BY <1>5 DEF HeartbeatsArrive, Updates, Misses, Idles, InStep, drawnVars, stateVars,
                otherServices, lastVars
  <1>6. CASE FetchFiles
    BY <1>6, Notified DEF FetchFiles, stateVars
  <1>7. ASSUME NEW q \in Query, SetSearchQuery(q)
        PROVE  Updates \/ Misses
    BY <1>7, Notified DEF SetSearchQuery, stateVars
  <1>8. ASSUME NEW f \in File, UploadFile(f)
        PROVE  Updates \/ Misses
    BY <1>8, Notified DEF UploadFile
  <1>9. CASE RetryLastUpload
    BY <1>9, Notified DEF RetryLastUpload
  <1>10. ASSUME NEW f \in File, NEW kind, UploadEnds(f, kind)
         PROVE  Updates \/ Misses
    BY <1>10, Notified DEF UploadEnds
  <1>11. CASE ClearUpload
    BY <1>11, Notified DEF ClearUpload
  <1>12. ASSUME NEW f \in File, DownloadFile(f) \/ DownloadEnds(f)
         PROVE  Updates \/ Misses
    BY <1>12, Notified DEF DownloadFile, DownloadEnds
  <1>13. CASE DismissDownloadError
    BY <1>13, Notified DEF DismissDownloadError
  <1>14. ASSUME NEW f \in File, SetConfirmingDelete(f)
         PROVE  Updates \/ Misses
    <2>1. ~ error
      BY <1>14, ActsOnThePage DEF SetConfirmingDelete
    <2> QED
      BY <2>1, <1>14, Notified DEF SetConfirmingDelete
  <1>15. CASE DismissDelete
    BY <1>15, Notified DEF DismissDelete, Nothing
  <1>16. ASSUME NEW f \in File, DeleteFile(f) \/ DeleteEnds(f)
         PROVE  Updates \/ Misses
    BY <1>16, Notified DEF DeleteFile, DeleteEnds, Shown, Nothing
  <1> QED
    BY <1>1, <1>2, <1>3, <1>4, <1>5, <1>6, <1>7, <1>8, <1>9, <1>10, <1>11, <1>12, <1>13, <1>14,
       <1>15, <1>16 DEF Next

-----------------------------------------------------------------------------
(***************************************************************************)
(* TypeOK.                                                                 *)
(***************************************************************************)

LEMMA BoundsAreNumbers == MaxActs \in Nat /\ MaxFaults \in Nat
  BY PanelAssumption

\* A request is begun only below the bound.
LEMMA ActCounted ==
    ASSUME ServicesOK, Begins
    PROVE  acts' \in 0..MaxActs
  BY BoundsAreNumbers DEF ServicesOK, Begins

LEMMA TypeInit == Init => TypeOK
  <1> SUFFICES ASSUME Init PROVE TypeOK
    OBVIOUS
  <1>1. ServicesOK
    <2>1. files \in [File -> Listed \cup {None}]
      BY DEF Init
    <2>2. deleting \in [File -> {None} \cup [row : Listed \cup {None}]]
      BY DEF Init
    <2>3. query \in Query /\ cluster \in ClusterState /\ nodes \in Heartbeats
      BY PanelAssumption DEF Init
    <2>4. acts \in 0..MaxActs
      BY BoundsAreNumbers DEF Init
    <2> QED
      BY <2>1, <2>2, <2>3, <2>4 DEF Init, ServicesOK
  <1>2. DrawnOK
    <2>1. signature = None /\ panel = FilePanel /\ error = FALSE
      BY DEF Init
    <2> QED
      BY <2>1, PanelDrawn DEF DrawnOK
  <1>3. PageOK
    <2>1. lastNodes \in Heartbeats /\ error \in BOOLEAN
      BY DEF Init
    <2>2. lastCluster \in ClusterState
      BY PanelAssumption DEF Init
    <2>3. faults \in 0..MaxFaults
      BY BoundsAreNumbers DEF Init
    <2> QED
      BY <2>1, <2>2, <2>3 DEF PageOK
  <1> QED
    BY <1>1, <1>2, <1>3, TypeParts

\* A deletion takes a row out and a failed one puts back what it took.
LEMMA DeleteTyped ==
    ASSUME ServicesOK, NEW f \in File, DeleteFile(f) \/ DeleteEnds(f)
    PROVE  ServicesOK'
  <1>1. CASE DeleteFile(f)
    <2>1. files[f] \in Listed \cup {None}
      BY DEF ServicesOK
    <2>2. CASE Paused
      BY <1>1, <2>2 DEF DeleteFile, ServicesOK, Shown, otherServices
    <2>3. CASE ~ Paused
      BY <1>1, <2>1, <2>3, ActCounted DEF DeleteFile, ServicesOK, Shown, otherServices
    <2> QED
      BY <2>2, <2>3
  <1>2. CASE DeleteEnds(f)
    <2>1. deleting[f] \in [row : Listed \cup {None}]
      BY <1>2 DEF DeleteEnds, ServicesOK
    <2>2. deleting[f].row \in Listed \cup {None}
      BY <2>1
    <2> QED
      BY <1>2, <2>2 DEF DeleteEnds, ServicesOK, Shown, otherServices, Nothing
  <1> QED
    BY <1>1, <1>2

LEMMA ServicesTyped ==
    ASSUME TypeOK, [Next]_vars
    PROVE  ServicesOK'
  <1>0. ServicesOK
    BY TypeParts
  <1>1. ASSUME UNCHANGED vars
        PROVE  ServicesOK'
    BY <1>0, <1>1 DEF vars, requestVars, stateVars, otherServices, ServicesOK
  <1>2. CASE RouteChange \/ Fault \/ TriggerRetry
    BY <1>0, <1>2 DEF RouteChange, Fault, TriggerRetry, requestVars, stateVars, otherServices,
                     ServicesOK
  <1>3. CASE FetchFiles
    BY <1>0, <1>3, PanelAssumption DEF FetchFiles, requestVars, stateVars, otherServices, ServicesOK
  <1>4. ASSUME NEW c \in ClusterState, ClusterStatusArrives(c)
        PROVE  ServicesOK'
    BY <1>0, <1>4 DEF ClusterStatusArrives, requestVars, stateVars, ServicesOK
  <1>5. ASSUME NEW h \in Heartbeats, HeartbeatsArrive(h)
        PROVE  ServicesOK'
    BY <1>0, <1>5 DEF HeartbeatsArrive, requestVars, stateVars, ServicesOK
  <1>6. ASSUME NEW q \in Query, SetSearchQuery(q)
        PROVE  ServicesOK'
    BY <1>0, <1>6 DEF SetSearchQuery, requestVars, stateVars, otherServices, ServicesOK
  <1>7. ASSUME NEW f \in File, UploadFile(f)
        PROVE  ServicesOK'
    BY <1>0, <1>7, ActCounted DEF UploadFile, BeginUpload, otherServices, ServicesOK, Shown
  <1>8. CASE RetryLastUpload
    <2>1. uploadState.file \in File
      BY <1>0, <1>8 DEF RetryLastUpload, ServicesOK, Nothing
    <2> QED
      BY <1>0, <1>8, <2>1, ActCounted DEF RetryLastUpload, BeginUpload, otherServices, ServicesOK, Shown
  <1>9. ASSUME NEW f \in File, NEW kind \in {"done", "error"}, UploadEnds(f, kind)
        PROVE  ServicesOK'
    BY <1>0, <1>9 DEF UploadEnds, otherServices, ServicesOK, Shown
  <1>10. CASE ClearUpload
    BY <1>0, <1>10 DEF ClearUpload, requestVars, otherServices, ServicesOK
  <1>11. ASSUME NEW f \in File, DownloadFile(f) \/ DownloadEnds(f)
         PROVE  ServicesOK'
    <2>1. CASE DownloadFile(f)
      BY <1>0, <2>1, ActCounted DEF DownloadFile, otherServices, ServicesOK, Shown
    <2>2. CASE DownloadEnds(f)
      BY <1>0, <2>2 DEF DownloadEnds, AfterDownload, otherServices, ServicesOK, Shown
    <2> QED
      BY <1>11, <2>1, <2>2
  <1>12. CASE DismissDownloadError
    BY <1>0, <1>12 DEF DismissDownloadError, requestVars, otherServices, ServicesOK
  <1>13. ASSUME NEW f \in File, SetConfirmingDelete(f)
         PROVE  ServicesOK'
    BY <1>0, <1>13 DEF SetConfirmingDelete, requestVars, otherServices, ServicesOK, Shown
  <1>14. CASE DismissDelete
    BY <1>0, <1>14 DEF DismissDelete, requestVars, otherServices, ServicesOK
  <1>15. ASSUME NEW f \in File, DeleteFile(f) \/ DeleteEnds(f)
         PROVE  ServicesOK'
    BY <1>0, <1>15, DeleteTyped
  <1> QED
    BY <1>1, <1>2, <1>3, <1>4, <1>5, <1>6, <1>7, <1>8, <1>9, <1>10, <1>11, <1>12, <1>13, <1>14,
       <1>15 DEF Next

LEMMA DrawnTyped ==
    ASSUME TypeOK, [Next]_vars
    PROVE  DrawnOK'
  <1>0. DrawnOK /\ ServicesOK'
    BY TypeParts, ServicesTyped
  <1>1. CASE Updates
    BY <1>0, <1>1, SignatureTypedNext, PanelDrawnNext DEF Updates, UpdateFilePanel, DrawnOK
  <1>2. CASE Misses \/ Idles
    BY <1>0, <1>2 DEF Misses, Idles, drawnVars, DrawnOK, SignatureType, FileOrNone
  <1>3. CASE Redraws
    BY <1>0, <1>3, PanelDrawn DEF Redraws, DrawnOK, SignatureType, FileOrNone
  <1>4. CASE Falls
    BY <1>0, <1>4 DEF Falls, Fallback, DrawnOK, SignatureType, FileOrNone
  <1> QED
    BY <1>1, <1>2, <1>3, <1>4, StepKinds

LEMMA PageTyped ==
    ASSUME TypeOK, [Next]_vars
    PROVE  PageOK'
  <1>0. PageOK /\ MaxFaults \in Nat
    BY TypeParts, BoundsAreNumbers
  <1>1. CASE RouteChange \/ Fault \/ TriggerRetry
    <2>1. error' \in BOOLEAN /\ UNCHANGED lastVars /\ faults' \in {faults, faults + 1}
      BY <1>1 DEF RouteChange, Fault, TriggerRetry, RenderDashboard
    <2>2. faults' = faults + 1 => faults < MaxFaults
      BY <1>0, <1>1 DEF RouteChange, Fault, TriggerRetry, RenderDashboard, PageOK
    <2> QED
      BY <1>0, <2>1, <2>2 DEF lastVars, PageOK
  <1>2. ASSUME NEW c \in ClusterState, ClusterStatusArrives(c)
        PROVE  PageOK'
    BY <1>0, <1>2 DEF ClusterStatusArrives, PageOK
  <1>3. ASSUME NEW h \in Heartbeats, HeartbeatsArrive(h)
        PROVE  PageOK'
    BY <1>0, <1>3 DEF HeartbeatsArrive, PageOK
  <1>4. ASSUME UNCHANGED pageVars
        PROVE  PageOK'
    BY <1>0, <1>4 DEF pageVars, lastVars, PageOK
  <1> QED
    BY <1>1, <1>2, <1>3, <1>4 DEF Next, vars, FetchFiles, SetSearchQuery, UploadFile,
       RetryLastUpload, UploadEnds, ClearUpload, DownloadFile, DownloadEnds, DismissDownloadError,
       SetConfirmingDelete, DismissDelete, DeleteFile, DeleteEnds

\* The services' states and what is drawn stay within their types, and the panel is
\* the fallback exactly while the error boundary holds an error: no listener draws
\* into a page that has been replaced.
THEOREM TypeCorrect == Spec => []TypeOK
  <1>1. TypeOK /\ [Next]_vars => TypeOK'
    BY ServicesTyped, DrawnTyped, PageTyped, TypeParts DEF TypeOK, ServicesOK, DrawnOK, PageOK
  <1> QED
    BY TypeInit, <1>1, PTL DEF Spec

-----------------------------------------------------------------------------
(***************************************************************************)
(* ShownDownloadRuns.                                                      *)
(***************************************************************************)

\* A download shown as running is under way: it is entered among those under way
\* when it is shown, and whichever ends takes what is shown with it.
THEOREM ShownDownloadsRun == Spec => []ShownDownloadRuns
  <1>1. Init => ShownDownloadRuns
    BY DEF Init, ShownDownloadRuns, Nothing
  <1>2. ASSUME ShownDownloadRuns, [Next]_vars
        PROVE  ShownDownloadRuns'
    <2>1. ASSUME UNCHANGED <<downloadState, downloading>>
          PROVE  ShownDownloadRuns'
      BY <1>2, <2>1 DEF ShownDownloadRuns
    <2>2. ASSUME NEW f \in File, DownloadFile(f)
          PROVE  ShownDownloadRuns'
      BY <2>2 DEF DownloadFile, Shown, ShownDownloadRuns
    <2>3. ASSUME NEW f \in File, DownloadEnds(f)
          PROVE  ShownDownloadRuns'
      BY <2>3 DEF DownloadEnds, AfterDownload, Nothing, Shown, ShownDownloadRuns
    <2>4. CASE DismissDownloadError
      BY <2>4 DEF DismissDownloadError, Nothing, ShownDownloadRuns
    <2>5. CASE RouteChange \/ Fault \/ TriggerRetry \/ FetchFiles
      BY <2>1, <2>5 DEF RouteChange, Fault, TriggerRetry, FetchFiles, requestVars, stateVars
    <2>6. ASSUME NEW x, ClusterStatusArrives(x) \/ HeartbeatsArrive(x) \/ SetSearchQuery(x)
          PROVE  ShownDownloadRuns'
      BY <2>1, <2>6 DEF ClusterStatusArrives, HeartbeatsArrive, SetSearchQuery, requestVars,
                        stateVars
    <2>7. CASE RetryLastUpload \/ ClearUpload \/ DismissDelete
      BY <2>1, <2>7 DEF RetryLastUpload, ClearUpload, DismissDelete, requestVars
    <2>8. ASSUME NEW f \in File,
                 \/ UploadFile(f) \/ SetConfirmingDelete(f) \/ DeleteFile(f) \/ DeleteEnds(f)
                 \/ \E kind \in {"done", "error"} : UploadEnds(f, kind)
          PROVE  ShownDownloadRuns'
      BY <2>1, <2>8 DEF UploadFile, UploadEnds, SetConfirmingDelete, DeleteFile, DeleteEnds,
                        requestVars
    <2>9. CASE UNCHANGED vars
      BY <2>1, <2>9 DEF vars, requestVars, stateVars
    <2> QED
      BY <1>2, <2>2, <2>3, <2>4, <2>5, <2>6, <2>7, <2>8, <2>9 DEF Next
  <1> QED
    BY <1>1, <1>2, PTL DEF Spec

-----------------------------------------------------------------------------
(***************************************************************************)
(* NoConfirmLeftBehind.                                                    *)
(***************************************************************************)

\* NoConfirmLeftBehind is about the table; what makes the memo respect it: while a
\* confirmation is awaited, the signature names its file or there is none, so that
\* the rows cannot be kept once it is over.
ConfirmSigned ==
    deleteState.kind = "confirming" =>
        signature = None \/ signature.action.c = deleteState.file

ConfirmInv == ConfirmSigned /\ NoConfirmLeftBehind

\* The signature names the file whose confirmation is awaited, and no other.
LEMMA SignatureNamesConfirming ==
    ASSUME ServicesOK'
    PROVE  /\ deleteState'.kind = "confirming" => Signature'.action.c = deleteState'.file
           /\ \A f \in File : Signature'.action.c = f => Confirming(f)'
  <1>1. deleteState' \in {Nothing} \cup [kind : {"confirming", "deleting", "error"}, file : File]
    BY DEF ServicesOK
  <1>2. Signature'.action.c =
          IF deleteState'.kind = "confirming" THEN deleteState'.file ELSE None
    BY DEF Signature, ActionSignature
  <1>3. ASSUME NEW f \in File, Signature'.action.c = f
        PROVE  Confirming(f)'
    <2>1. deleteState'.kind = "confirming" /\ deleteState'.file = f
      BY <1>2, <1>3, PanelAssumption
    <2> QED
      BY <1>1, <2>1 DEF Confirming, Shown, Nothing
  <1> QED
    BY <1>2, <1>3

\* A row that is drawn asks only for the confirmation that is awaited.
LEMMA DrawnRowsAsk ==
    /\ \A f \in DOMAIN FileRows : FileRows[f].confirm => Confirming(f)
    /\ \A f \in DOMAIN FileRows' : FileRows'[f].confirm => Confirming(f)'
  BY DEF FileRows, FileRow

LEMMA UpdateKeepsConfirm ==
    ASSUME TypeOK, ServicesOK', ConfirmInv, UpdateFilePanel
    PROVE  ConfirmInv'
  <1>1. ConfirmSigned'
    BY SignatureNamesConfirming DEF UpdateFilePanel, ConfirmSigned
  <1>2. CASE panel.kind = "table" /\ Signature' = signature
    <2>1. panel'.kind = "table" /\ panel'.content.rows = panel.content.rows
      BY <1>2 DEF UpdateFilePanel
    <2>2. Asking' = Asking
      BY <1>2, <2>1 DEF Asking
    <2>3. ASSUME NEW f \in Asking
          PROVE  Confirming(f)'
      <3>1. Confirming(f)
        BY <2>3 DEF ConfirmInv, NoConfirmLeftBehind
      <3>2. f \in File /\ signature # None
        <4>1. deleteState = Shown("confirming", f)
          BY <3>1 DEF Confirming
        <4>2. deleteState \in {Nothing} \cup
                [kind : {"confirming", "deleting", "error"}, file : File]
          BY DEF TypeOK
        <4> QED
          BY <4>1, <4>2, <1>2, SignatureTypedNext DEF Shown, Nothing
      <3>3. signature.action.c = f
        BY <3>1, <3>2 DEF ConfirmInv, ConfirmSigned, Confirming, Shown
      <3> QED
        BY <1>2, <3>2, <3>3, SignatureNamesConfirming
    <2> QED
      BY <1>1, <2>2, <2>3 DEF ConfirmInv, NoConfirmLeftBehind
  <1>3. CASE ~ (panel.kind = "table" /\ Signature' = signature)
    <2>1. panel'.content.rows = FileRows'
      BY <1>3, PanelDrawnNext DEF UpdateFilePanel, Content
    <2> QED
      BY <1>1, <2>1, DrawnRowsAsk DEF ConfirmInv, NoConfirmLeftBehind, Asking
  <1> QED
    BY <1>2, <1>3

\* A Confirm button that is drawn belongs to the deletion the service waits to have
\* confirmed, whatever was drawn by whom and when.
THEOREM ConfirmIsCurrent == Spec => []NoConfirmLeftBehind
  <1>1. Init => ConfirmInv
    <2> SUFFICES ASSUME Init PROVE ConfirmInv
      OBVIOUS
    <2>1. panel.content.rows = FileRows /\ signature = None
      BY PanelDrawn DEF Init, Content
    <2> QED
      BY <2>1, DrawnRowsAsk DEF ConfirmInv, ConfirmSigned, NoConfirmLeftBehind, Asking
  <1>2. ASSUME TypeOK, ConfirmInv, [Next]_vars
        PROVE  ConfirmInv'
    <2>1. CASE Updates
      BY <1>2, <2>1, UpdateKeepsConfirm, ServicesTyped DEF Updates
    <2>2. CASE Misses
      BY <1>2, <2>2 DEF Misses, drawnVars, TypeOK, ConfirmInv, ConfirmSigned,
                        NoConfirmLeftBehind, Asking
    <2>3. CASE Idles
      BY <1>2, <2>3 DEF Idles, drawnVars, stateVars, ConfirmInv, ConfirmSigned,
                        NoConfirmLeftBehind, Asking, Confirming
    <2>4. CASE Redraws
      <3>1. panel'.content.rows = FileRows /\ deleteState' = deleteState /\ signature' = signature
        BY <2>4, PanelDrawn DEF Redraws, Content, stateVars
      <3> QED
        BY <1>2, <3>1, DrawnRowsAsk DEF ConfirmInv, ConfirmSigned, NoConfirmLeftBehind, Asking,
                                       Confirming
    <2>5. CASE Falls
      BY <1>2, <2>5 DEF Falls, Fallback, stateVars, ConfirmInv, ConfirmSigned,
                        NoConfirmLeftBehind, Asking
    <2> QED
      BY <1>2, <2>1, <2>2, <2>3, <2>4, <2>5, StepKinds
  <1> QED
    BY <1>1, <1>2, TypeCorrect, PTL DEF Spec, ConfirmInv

-----------------------------------------------------------------------------
(***************************************************************************)
(* PanelIsCurrent.                                                         *)
(***************************************************************************)

Current == panel = FilePanel \/ panel = FilePanelTable

\* PanelIsCurrent is about what is shown; the listeners skip what they have handed
\* on before and the table what is signed, so both memos have to be true.
CurrentInv ==
    faults = 0 =>
        /\ ~ error
        /\ InStep
        /\ Current
        /\ signature \in {None, Signature}

\* The states of a row, as the signature has them.
ActionsSigned ==
    \A f \in File : /\ Downloading(f) <=> ActionSignature.d = f
                    /\ Confirming(f) <=> ActionSignature.c = f
                    /\ Deleting(f) <=> ActionSignature.del = f

LEMMA ActionSigned == ServicesOK => ActionsSigned
  <1> SUFFICES ASSUME ServicesOK, NEW f \in File
               PROVE  /\ Downloading(f) <=> ActionSignature.d = f
                      /\ Confirming(f) <=> ActionSignature.c = f
                      /\ Deleting(f) <=> ActionSignature.del = f
    BY DEF ActionsSigned
  <1>1. f # None
    BY PanelAssumption
  <1>2. Downloading(f) <=> ActionSignature.d = f
    <2>1. downloadState \in {Nothing} \cup [kind : {"downloading", "error"}, file : File]
      BY DEF ServicesOK
    <2> QED
      BY <1>1, <2>1 DEF Downloading, ActionSignature, Shown, Nothing
  <1>3. deleteState \in {Nothing} \cup
          [kind : {"confirming", "deleting", "error"}, file : File]
    BY DEF ServicesOK
  <1>4. Confirming(f) <=> ActionSignature.c = f
    BY <1>1, <1>3 DEF Confirming, ActionSignature, Shown, Nothing
  <1>5. Deleting(f) <=> ActionSignature.del = f
    BY <1>1, <1>3 DEF Deleting, ActionSignature, Shown, Nothing
  <1> QED
    BY <1>2, <1>4, <1>5

LEMMA ActionSignedNext == ServicesOK' => ActionsSigned'
  BY ActionSigned, PTL

\* A signature determines the rows: two states that sign alike draw the same table.
LEMMA SignedRows ==
    ASSUME ServicesOK, ServicesOK', Signature' = Signature
    PROVE  FileRows' = FileRows
  <1>1. /\ nodes' = nodes /\ cluster' = cluster
        /\ ActionSignature' = ActionSignature
        /\ [f \in FilteredFiles' |-> files'[f]] = [f \in FilteredFiles |-> files[f]]
    BY DEF Signature
  <1>2. FilteredFiles' = FilteredFiles
    BY <1>1
  <1>3. ASSUME NEW f \in FilteredFiles
        PROVE  FileRow(f)' = FileRow(f)
    <2>1. f \in File /\ files'[f] = files[f]
      BY <1>1, <1>2, <1>3, FilteredAreListed
    <2>2. Downloading(f)' <=> Downloading(f)
      BY <1>1, <2>1, ActionSigned, ActionSignedNext DEF ActionsSigned
    <2>3. Confirming(f)' = Confirming(f)
      <3>1. Confirming(f)' <=> Confirming(f)
        BY <1>1, <2>1, ActionSigned, ActionSignedNext DEF ActionsSigned
      <3> QED
        BY <3>1 DEF Confirming
    <2>4. Deleting(f)' <=> Deleting(f)
      BY <1>1, <2>1, ActionSigned, ActionSignedNext DEF ActionsSigned
    <2>5. Reached(f)' = Reached(f)
      BY <1>1, <2>1 DEF Reached
    <2>6. FileStatus(f)' = FileStatus(f)
      BY <2>1, <2>5 DEF FileStatus
    <2>7. [n \in files'[f].on |-> nodes'[n]] = [n \in files[f].on |-> nodes[n]]
      BY <1>1, <2>1
    <2>8. (~ Downloading(f) /\ ~ Deleting(f) /\ Reached(f) # {})' =
            (~ Downloading(f) /\ ~ Deleting(f) /\ Reached(f) # {})
      BY <2>2, <2>4, <2>5
    <2>9. (~ Downloading(f) /\ ~ Deleting(f) /\ ~ Paused)' =
            (~ Downloading(f) /\ ~ Deleting(f) /\ ~ Paused)
      BY <1>1, <2>2, <2>4 DEF Paused
    <2> QED
      BY <2>3, <2>6, <2>7, <2>8, <2>9 DEF FileRow
  <1> QED
    BY <1>2, <1>3 DEF FileRows

\* What is shown and signed depends on the services only.
LEMMA SameServices ==
    ASSUME UNCHANGED <<files, query, stateVars, otherServices>>
    PROVE  /\ Content' = Content /\ Signature' = Signature
           /\ FilePanel' = FilePanel /\ FilePanelTable' = FilePanelTable
  <1>1. UNCHANGED <<files, query, uploadState, downloadState, deleteState, nodes, cluster>>
    BY DEF stateVars, otherServices
  <1>2. FilteredFiles' = FilteredFiles
    BY <1>1 DEF FilteredFiles
  <1>3. Signature' = Signature
    BY <1>1, <1>2 DEF Signature, ActionSignature
  <1>4. ClusterNotice' = ClusterNotice /\ StatusSlot' = StatusSlot
    BY <1>1 DEF ClusterNotice, StatusSlot
  <1>5. ASSUME NEW f \in FilteredFiles
        PROVE  FileRow(f)' = FileRow(f)
    BY <1>1 DEF FileRow, FileStatus, Reached, Downloading, Confirming, Deleting, Paused
  <1>6. FileRows' = FileRows
    BY <1>2, <1>5 DEF FileRows
  <1>7. Content' = Content
    BY <1>4, <1>6 DEF Content
  <1>8. FilePanel' = FilePanel /\ FilePanelTable' = FilePanelTable
    BY <1>1, <1>2, <1>7 DEF FilePanel, FilePanelEmpty, FilePanelTable
  <1> QED
    BY <1>3, <1>7, <1>8

LEMMA UpdateKeepsCurrent ==
    ASSUME TypeOK, ServicesOK', CurrentInv, faults = 0, UpdateFilePanel
    PROVE  Current' /\ signature' \in {None, Signature'}
  <1>0. panel.content = Content
    BY PanelDrawn DEF CurrentInv, Current, FilePanelTable
  <1>1. CASE panel.kind = "table" /\ Signature' = signature
    <2>1. FileRows' = panel.content.rows
      <3>1. signature = Signature
        BY <1>1, SignatureTypedNext DEF CurrentInv
      <3>2. FileRows' = FileRows
        BY <1>1, <3>1, SignedRows, TypeParts
      <3> QED
        BY <1>0, <3>2 DEF Content
    <2> QED
      BY <1>1, <2>1 DEF UpdateFilePanel, Content, Current, FilePanelTable
  <1>2. CASE panel.kind = "table" /\ Signature' # signature
    BY <1>2 DEF UpdateFilePanel, Content, Current, FilePanelTable
  <1>3. CASE panel.kind # "table"
    BY <1>3 DEF UpdateFilePanel, Current
  <1> QED
    BY <1>1, <1>2, <1>3

\* As long as nothing threw, the panel is what drawing it anew would give, or a table
\* that has lost its last row: no change of a file, a node, the cluster or a request is
\* lost to the listeners' or the table's memo.
THEOREM CurrentUntilFault == Spec => []PanelIsCurrent
  <1>1. Init => CurrentInv
    BY DEF Init, CurrentInv, InStep, Current
  <1>2. ASSUME TypeOK, CurrentInv, [Next]_vars
        PROVE  CurrentInv'
    <2>1. CASE Updates
      <3>1. CASE faults = 0
        <4>1. InStep' /\ ~ error'
          BY <1>2, <2>1, <3>1 DEF Updates, CurrentInv
        <4>2. Current' /\ signature' \in {None, Signature'}
          BY <1>2, <2>1, <3>1, UpdateKeepsCurrent, ServicesTyped DEF Updates
        <4> QED
          BY <4>1, <4>2 DEF CurrentInv
      <3>2. CASE faults # 0
        BY <2>1, <3>2 DEF Updates, CurrentInv
      <3> QED
        BY <3>1, <3>2
    <2>2. CASE Misses
      BY <1>2, <2>2 DEF Misses, CurrentInv
    <2>3. CASE Idles
      <3>1. CASE faults = 0
        <4>1. InStep' /\ ~ error' /\ UNCHANGED <<files, query, stateVars, otherServices, drawnVars>>
          BY <1>2, <2>3, <3>1 DEF Idles, CurrentInv
        <4>2. Signature' = Signature /\ FilePanel' = FilePanel /\ FilePanelTable' = FilePanelTable
          BY <4>1, SameServices
        <4> QED
          BY <1>2, <3>1, <4>1, <4>2 DEF CurrentInv, Current, drawnVars
      <3>2. CASE faults # 0
        BY <2>3, <3>2 DEF Idles, CurrentInv
      <3> QED
        BY <3>1, <3>2
    <2>4. CASE Redraws
      <3>1. Signature' = Signature /\ FilePanel' = FilePanel
        BY <2>4, SameServices DEF Redraws
      <3>2. /\ panel' = FilePanel /\ signature' = signature /\ error' = FALSE
            /\ faults' = faults
        BY <2>4 DEF Redraws
      <3>3. InStep' <=> InStep
        BY <2>4 DEF Redraws, InStep, otherServices, lastVars
      <3> QED
        BY <1>2, <3>1, <3>2, <3>3 DEF CurrentInv, Current
    <2>5. CASE Falls
      BY <1>2, <2>5, TypeParts DEF Falls, CurrentInv, PageOK
    <2> QED
      BY <1>2, <2>1, <2>2, <2>3, <2>4, <2>5, StepKinds
  <1>3. CurrentInv => PanelIsCurrent
    BY DEF CurrentInv, Current, PanelIsCurrent
  <1> QED
    BY <1>1, <1>2, <1>3, TypeCorrect, PTL DEF Spec

=============================================================================
