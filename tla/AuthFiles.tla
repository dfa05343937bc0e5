------------------------------ MODULE AuthFiles -----------------------------
(***************************************************************************)
(* The administration of the upstream credentials ("auth files"): the      *)
(* table with its filters and check boxes, deletion one by one and in a    *)
(* batch, pausing in a batch, the dialog that edits a credential, and the  *)
(* Go handlers behind them.  The page names a credential by its label,     *)
(* which need not be unique.  AuthFileImport has the import dialog; here   *)
(* an import is one step.  react-query is external.                        *)
(***************************************************************************)
EXTENDS Integers, FiniteSets

CONSTANTS
    CredIds,       \* ids of credentials
    Labels,        \* labels they carry, the `name` of a row
    FirstFiles,    \* the credentials there are at first: records [id, name, paused]
    MaxFileCalls   \* bound: requests that would change a credential

VARIABLES
    credentials,   \* the credentials the manager lists
    fileRows,      \* the list the page has
    fileLoad,      \* the load of it: idle, asked, or read
    fileFilter,    \* what the filters leave in the table
    selectedNames, \* the names that are ticked
    askDelete,     \* the dialog before a deletion, and whom it is about
    askBatch,      \* the dialog before a batch deletion is open
    oneDelete,     \* the deletion under way
    batchDelete,   \* the batch deletion under way: the names that are left
    batchStatus,   \* the batch that pauses or resumes, the rows that are left
    editDialog,    \* the edit dialog
    editCall,      \* the edit under way
    chosen,        \* names ticked by hand or put into a confirmed deletion
    erased,        \* names of the credentials the server deleted
    fileCalls      \* requests so far

listState == <<fileRows, fileLoad>>
editState == <<editDialog, editCall>>
deleteState == <<askDelete, askBatch, oneDelete, batchDelete>>
history == <<chosen, erased>>
fileVars == <<credentials, listState, fileFilter, selectedNames, deleteState, batchStatus,
              editState, history, fileCalls>>

IdleFiles == [phase |-> "idle", rows |-> {}]
AskedFiles == [phase |-> "asked", rows |-> {}]
NoJob == [phase |-> "idle", left |-> {}]
NoEdit == [open |-> FALSE, id |-> 0]

FilesInit ==
    /\ credentials = FirstFiles
    /\ fileRows = {} /\ fileLoad = AskedFiles
    /\ fileFilter = Labels /\ selectedNames = {}
    /\ askDelete = {} /\ askBatch = FALSE /\ oneDelete = NoJob /\ batchDelete = NoJob
    /\ batchStatus = NoJob
    /\ editDialog = NoEdit /\ editCall = "idle"
    /\ chosen = {} /\ erased = {} /\ fileCalls = 0

FileModalFree == askDelete = {} /\ ~askBatch /\ ~editDialog.open
MayCall == fileCalls < MaxFileCalls /\ fileCalls' = fileCalls + 1

(***************************************************************************)
(* The list                                                                *)
(***************************************************************************)

FilesServed ==
    /\ fileLoad.phase = "asked"
    /\ fileLoad' = [phase |-> "read", rows |-> credentials]
    /\ UNCHANGED <<credentials, fileRows, fileFilter, selectedNames, deleteState, batchStatus, editState, history, fileCalls>>

\* A name that is no longer in the list stays ticked.
FilesShown ==
    /\ fileLoad.phase = "read"
    /\ fileRows' = fileLoad.rows /\ fileLoad' = IdleFiles
    /\ UNCHANGED <<credentials, fileFilter, selectedNames, deleteState, batchStatus, editState, history, fileCalls>>

HandleRefreshList ==
    /\ FileModalFree /\ fileLoad = IdleFiles
    /\ fileLoad' = AskedFiles
    /\ UNCHANGED <<credentials, fileRows, fileFilter, selectedNames, deleteState, batchStatus, editState, history, fileCalls>>

\* The search box, the view and the provider each leave some of the rows.
FilterFiles(labels) ==
    /\ FileModalFree /\ labels # fileFilter
    /\ fileFilter' = labels
    /\ UNCHANGED <<credentials, listState, selectedNames, deleteState, batchStatus, editState, history, fileCalls>>

ProcessedFiles == {f \in fileRows : f.name \in fileFilter}
NamesOf(rows) == {f.name : f \in rows}

\* Mutant: the head ticks the rows that the filters hide as well.
HandleSelectAllRows(checked) ==
    /\ FileModalFree /\ ProcessedFiles # {}
    /\ checked <=> ~(NamesOf(ProcessedFiles) \subseteq selectedNames)
    /\ selectedNames' = IF checked THEN NamesOf(fileRows) ELSE {}
    /\ chosen' = IF checked THEN chosen \cup NamesOf(ProcessedFiles) ELSE chosen
    /\ UNCHANGED <<credentials, listState, fileFilter, deleteState, batchStatus, editState, erased, fileCalls>>

\* Ticking the head replaces the selection, hidden names included.
HandleSelectAll(checked) ==
    /\ FileModalFree /\ ProcessedFiles # {}
    /\ checked <=> ~(NamesOf(ProcessedFiles) \subseteq selectedNames)
    /\ selectedNames' = IF checked THEN NamesOf(ProcessedFiles) ELSE {}
    /\ chosen' = IF checked THEN chosen \cup NamesOf(ProcessedFiles) ELSE chosen
    /\ UNCHANGED <<credentials, listState, fileFilter, deleteState, batchStatus, editState, erased, fileCalls>>

HandleSelectOne(name) ==
    /\ FileModalFree /\ name \in NamesOf(ProcessedFiles)
    /\ IF name \in selectedNames
       THEN selectedNames' = selectedNames \ {name} /\ UNCHANGED chosen
       ELSE selectedNames' = selectedNames \cup {name} /\ chosen' = chosen \cup {name}
    /\ UNCHANGED <<credentials, listState, fileFilter, deleteState, batchStatus, editState, erased, fileCalls>>

(***************************************************************************)
(* Deletion                                                                *)
(***************************************************************************)

\* From the menu of a row, or from its details.
OpenDelete(file) ==
    /\ FileModalFree /\ file \in ProcessedFiles
    /\ askDelete' = {file.name}
    /\ UNCHANGED <<credentials, listState, fileFilter, selectedNames, askBatch, oneDelete, batchDelete, batchStatus, editState, history, fileCalls>>

OpenBatchDelete ==
    /\ FileModalFree /\ selectedNames # {}
    /\ askBatch' = TRUE
    /\ UNCHANGED <<credentials, listState, fileFilter, selectedNames, askDelete, oneDelete, batchDelete, batchStatus, editState, history, fileCalls>>

CancelDelete ==
    /\ askDelete # {} /\ askDelete' = {}
    /\ UNCHANGED <<credentials, listState, fileFilter, selectedNames, askBatch, oneDelete, batchDelete, batchStatus, editState, history, fileCalls>>

CancelBatchDelete ==
    /\ askBatch /\ askBatch' = FALSE
    /\ UNCHANGED <<credentials, listState, fileFilter, selectedNames, askDelete, oneDelete, batchDelete, batchStatus, editState, history, fileCalls>>

\* The dialog stays open until the answer; it may be closed before.
HandleFileDelete ==
    /\ askDelete # {} /\ oneDelete = NoJob /\ MayCall
    /\ oneDelete' = [phase |-> "sent", left |-> askDelete]
    /\ chosen' = chosen \cup askDelete
    /\ UNCHANGED <<credentials, listState, fileFilter, selectedNames, askDelete, askBatch, batchDelete, batchStatus, editState, erased>>

\* All the names that are ticked, those the filters hide included.
HandleBatchDelete ==
    /\ askBatch /\ selectedNames # {} /\ batchDelete = NoJob /\ MayCall
    /\ batchDelete' = [phase |-> "running", left |-> selectedNames]
    /\ UNCHANGED <<credentials, listState, fileFilter, selectedNames, askDelete, askBatch, oneDelete, batchStatus, editState, history>>

\* Labels are not unique: the first in the order of the manager's map goes.
\* A name nobody has is answered as a success too.
FindAuthFile(name) == {c \in credentials : c.name = name}
Erase(name) ==
    IF FindAuthFile(name) = {}
    THEN UNCHANGED <<credentials, erased>>
    ELSE \E c \in FindAuthFile(name) :
            credentials' = credentials \ {c} /\ erased' = erased \cup {c.name}

DeleteServed ==
    /\ oneDelete.phase = "sent"
    /\ \E name \in oneDelete.left : Erase(name)
    /\ oneDelete' = [oneDelete EXCEPT !.phase = "answered"]
    /\ UNCHANGED <<listState, fileFilter, selectedNames, askDelete, askBatch, batchDelete, batchStatus, editState, chosen, fileCalls>>

\* Success closes the dialog that is open by then; a lost call leaves it.
DeleteAnswered ==
    /\ oneDelete.phase = "answered"
    /\ oneDelete' = NoJob /\ askDelete' = {}
    /\ selectedNames' = selectedNames \ oneDelete.left
    /\ fileLoad' = AskedFiles
    /\ UNCHANGED <<credentials, fileRows, fileFilter, askBatch, batchDelete, batchStatus, editState, history, fileCalls>>

DeleteLost ==
    /\ oneDelete # NoJob /\ oneDelete' = NoJob
    /\ UNCHANGED <<credentials, listState, fileFilter, selectedNames, askDelete, askBatch, batchDelete, batchStatus, editState, history, fileCalls>>

\* One after the other; a call that fails is counted and the rest goes on.
BatchDeleteStep ==
    /\ batchDelete.phase = "running"
    /\ \E name \in batchDelete.left :
          /\ Erase(name) \/ UNCHANGED <<credentials, erased>>
          /\ batchDelete' = [batchDelete EXCEPT !.left = @ \ {name}]
    /\ UNCHANGED <<listState, fileFilter, selectedNames, askDelete, askBatch, oneDelete, batchStatus, editState, chosen, fileCalls>>

\* The end drops the whole selection, what was ticked meanwhile included.
BatchDeleteEnds ==
    /\ batchDelete.phase = "running" /\ batchDelete.left = {}
    /\ batchDelete' = NoJob /\ askBatch' = FALSE
    /\ selectedNames' = {} /\ fileLoad' = AskedFiles
    /\ UNCHANGED <<credentials, fileRows, fileFilter, askDelete, oneDelete, batchStatus, editState, history, fileCalls>>

(***************************************************************************)
(* Pausing.  The panel asks PATCH /auth-files/status, which the gateway    *)
(* does not route: every call fails, and the switch of a row does nothing. *)
(***************************************************************************)

PauseTargets == {f \in fileRows : f.name \in selectedNames /\ ~f.paused}
ResumeTargets == {f \in fileRows : f.name \in selectedNames /\ f.paused}

HandleBatchStatus(targets) ==
    /\ FileModalFree /\ batchStatus = NoJob /\ targets # {} /\ MayCall
    /\ batchStatus' = [phase |-> "running", left |-> targets]
    /\ UNCHANGED <<credentials, listState, fileFilter, selectedNames, deleteState, editState, history>>

BatchStatusStep ==
    /\ batchStatus.phase = "running"
    /\ \E f \in batchStatus.left : batchStatus' = [batchStatus EXCEPT !.left = @ \ {f}]
    /\ UNCHANGED <<credentials, listState, fileFilter, selectedNames, deleteState, editState, history, fileCalls>>

BatchStatusEnds ==
    /\ batchStatus.phase = "running" /\ batchStatus.left = {}
    /\ batchStatus' = NoJob /\ selectedNames' = {} /\ fileLoad' = AskedFiles
    /\ UNCHANGED <<credentials, fileRows, fileFilter, deleteState, editState, history, fileCalls>>

\* A credential comes in, through this page or another: the list reloads.
FreeIds == CredIds \ {c.id : c \in credentials}
Imported(label) ==
    /\ MayCall
    /\ \E i \in FreeIds : credentials' = credentials \cup {[id |-> i, name |-> label, paused |-> FALSE]}
    /\ fileLoad' = AskedFiles
    /\ UNCHANGED <<fileRows, fileFilter, selectedNames, deleteState, batchStatus, editState, history>>

(***************************************************************************)
(* Editing                                                                 *)
(***************************************************************************)

OpenFileEdit(file) ==
    /\ FileModalFree /\ file \in ProcessedFiles
    /\ editDialog' = [open |-> TRUE, id |-> file.id]
    /\ UNCHANGED <<credentials, listState, fileFilter, selectedNames, deleteState, batchStatus, editCall, history, fileCalls>>

CloseFileEdit ==
    /\ editDialog.open /\ editDialog' = NoEdit
    /\ UNCHANGED <<credentials, listState, fileFilter, selectedNames, deleteState, batchStatus, editCall, history, fileCalls>>

HandleEditSave ==
    /\ editDialog.open /\ editCall # "sent" /\ MayCall
    /\ editCall' = "sent"
    /\ UNCHANGED <<credentials, listState, fileFilter, selectedNames, deleteState, batchStatus, editDialog, history>>

\* PUT /auth-files knows the actions "disable" and "enable"; the panel sends
\* "update" and is refused, whatever the fields.
UpdateAuthFile ==
    /\ editCall = "sent" /\ editCall' = "refused"
    /\ UNCHANGED <<credentials, listState, fileFilter, selectedNames, deleteState, batchStatus, editDialog, history, fileCalls>>

FilesNext ==
    \/ FilesServed \/ FilesShown \/ HandleRefreshList
    \/ \E labels \in SUBSET Labels : FilterFiles(labels)
    \/ \E checked \in BOOLEAN : HandleSelectAll(checked)
    \/ \E name \in Labels : HandleSelectOne(name)
    \/ \E f \in fileRows : OpenDelete(f) \/ OpenFileEdit(f)
    \/ OpenBatchDelete \/ CancelDelete \/ CancelBatchDelete \/ HandleFileDelete \/ HandleBatchDelete
    \/ DeleteServed \/ DeleteAnswered \/ DeleteLost \/ BatchDeleteStep \/ BatchDeleteEnds
    \/ HandleBatchStatus(PauseTargets) \/ HandleBatchStatus(ResumeTargets)
    \/ BatchStatusStep \/ BatchStatusEnds
    \/ \E label \in Labels : Imported(label)
    \/ CloseFileEdit \/ HandleEditSave \/ UpdateAuthFile

FilesSpec == FilesInit /\ [][FilesNext]_fileVars

(***************************************************************************)
(* Properties                                                              *)
(***************************************************************************)

\* Whatever the filters hide when the batch is confirmed, the gateway only
\* deletes credentials whose name was ticked by hand, in a row that was in
\* view, or was put into the question of a single deletion.
DeletedWereChosen == erased \subseteq chosen

=============================================================================
