--------------------------- MODULE AuthFileImport ---------------------------
(***************************************************************************)
(* The dialog that imports credentials.  Files that are picked or dropped  *)
(* are read before they are shown, and a read outlives the dialog that     *)
(* began it: the dialog is mounted anew when it is opened again, while     *)
(* what was picked and pasted is the state of the page.  The Go handler    *)
(* registers the files one after the other and stops at the first it       *)
(* cannot parse.                                                           *)
(***************************************************************************)
EXTENDS Integers, FiniteSets, Sequences, SequencesExt

CONSTANTS
    GoodFiles,     \* contents the server can parse
    BadFiles,      \* contents it cannot
    MaxImports,    \* bound: how often the dialog is opened
    MaxUploads     \* bound: imports sent

VARIABLES
    importer,      \* the dialog: what it shows, and how often it was mounted
    pasted,        \* uploadText, <<>> or the text in the box
    picked,        \* uploadPickedFiles
    readings,      \* picks of files that are being read, and by which dialog
    uploading,     \* the import under way, with the files left to register
    registered,    \* credentials an import made, one for each time it was sent
    tellsImport,   \* what the page said of the last import
    uploads        \* imports sent so far

importVars == <<importer, pasted, picked, readings, uploading, registered, tellsImport, uploads>>

\* A file stands for its content up to the key that authFileContentDedupeKey
\* gives it: two that differ in layout only are the same here.
Files == GoodFiles \cup BadFiles
ClosedImport(life) == [open |-> FALSE, life |-> life, mode |-> "files"]
NoUpload == [phase |-> "idle", files |-> <<>>]

ImportInit ==
    /\ importer = ClosedImport(0) /\ pasted = <<>> /\ picked = <<>>
    /\ readings = {} /\ uploading = NoUpload
    /\ registered = [f \in GoodFiles |-> 0] /\ tellsImport = "nothing" /\ uploads = 0

OpenImport ==
    /\ ~importer.open /\ importer.life < MaxImports
    /\ importer' = [ClosedImport(importer.life + 1) EXCEPT !.open = TRUE]
    /\ pasted' = <<>> /\ picked' = <<>>
    /\ UNCHANGED <<readings, uploading, registered, tellsImport, uploads>>

CloseImport ==
    /\ importer.open /\ importer' = ClosedImport(importer.life)
    /\ pasted' = <<>> /\ picked' = <<>>
    /\ UNCHANGED <<readings, uploading, registered, tellsImport, uploads>>

HandleModeChange(mode) ==
    /\ importer.open /\ mode # importer.mode
    /\ importer' = [importer EXCEPT !.mode = mode]
    /\ IF mode = "files" THEN pasted' = <<>> /\ UNCHANGED picked
                         ELSE picked' = <<>> /\ UNCHANGED pasted
    /\ UNCHANGED <<readings, uploading, registered, tellsImport, uploads>>

TypePaste(file) ==
    /\ importer.open /\ importer.mode = "paste" /\ pasted # <<file>>
    /\ pasted' = <<file>> /\ picked' = <<>>
    /\ UNCHANGED <<importer, readings, uploading, registered, tellsImport, uploads>>

ClearFiles ==
    /\ importer.open /\ importer.mode = "files" /\ picked # <<>>
    /\ picked' = <<>>
    /\ UNCHANGED <<importer, pasted, readings, uploading, registered, tellsImport, uploads>>

ReadingFiles == \E r \in readings : r.life = importer.life

\* A dialog that reads takes no other files; an older one's read goes on.
HandleFileList(files) ==
    /\ importer.open /\ importer.mode = "files" /\ ~ReadingFiles
    /\ readings' = readings \cup {[life |-> importer.life, files |-> files]}
    /\ UNCHANGED <<importer, pasted, picked, uploading, registered, tellsImport, uploads>>

\* Of the files with the same content the first is kept.
DedupeAuthFiles(files) ==
    FoldLeft(LAMBDA kept, f : IF Contains(kept, f) THEN kept ELSE Append(kept, f), <<>>, files)

\* Mutant: what is pasted stays when the files arrive.
FilesReadBesidePaste(r) ==
    /\ readings' = readings \ {r}
    /\ picked' = DedupeAuthFiles(r.files) /\ pasted' = pasted
    /\ importer' = [importer EXCEPT !.mode = IF importer.open /\ r.life = importer.life THEN "files" ELSE @]
    /\ UNCHANGED <<uploading, registered, tellsImport, uploads>>

\* The files become the page's, whichever dialog is open by now, if any; the
\* tab only moves in the dialog that read.
FilesRead(r) ==
    /\ readings' = readings \ {r}
    /\ picked' = DedupeAuthFiles(r.files) /\ pasted' = <<>>
    /\ importer' = [importer EXCEPT !.mode = IF importer.open /\ r.life = importer.life THEN "files" ELSE @]
    /\ UNCHANGED <<uploading, registered, tellsImport, uploads>>

InView == IF importer.mode = "files" THEN picked ELSE pasted
CanUpload == importer.open /\ uploading = NoUpload /\ ~ReadingFiles /\ InView # <<>>
\* What handleUpload sends: the files, and the text only when there are none.
Payload == IF picked # <<>> THEN picked ELSE pasted

HandleUpload ==
    /\ CanUpload /\ uploads < MaxUploads
    /\ uploads' = uploads + 1
    /\ uploading' = [phase |-> "sent", files |-> Payload]
    /\ UNCHANGED <<importer, pasted, picked, readings, registered, tellsImport>>

\* The next file gets a credential of its own, a content sent before another.
RegisterFile ==
    /\ uploading.phase = "sent" /\ uploading.files # <<>>
    /\ Head(uploading.files) \in GoodFiles
    /\ registered' = [registered EXCEPT ![Head(uploading.files)] = @ + 1]
    /\ uploading' = [uploading EXCEPT !.files = Tail(@)]
    /\ UNCHANGED <<importer, pasted, picked, readings, tellsImport, uploads>>

\* Success closes the dialog that is open by then, and empties it.
UploadDone ==
    /\ uploading.phase = "sent" /\ uploading.files = <<>>
    /\ uploading' = NoUpload /\ tellsImport' = "imported"
    /\ importer' = ClosedImport(importer.life) /\ pasted' = <<>> /\ picked' = <<>>
    /\ UNCHANGED <<readings, registered, uploads>>

\* A file that cannot be parsed ends the import, and so does a lost call;
\* what is registered by then stays, and the list is not reloaded.
UploadFails ==
    /\ uploading.phase = "sent"
    /\ uploading' = NoUpload /\ tellsImport' = "failed"
    /\ UNCHANGED <<importer, pasted, picked, readings, registered, uploads>>

ImportNext ==
    \/ OpenImport \/ CloseImport \/ ClearFiles
    \/ \E mode \in {"files", "paste"} : HandleModeChange(mode)
    \/ \E f \in Files : TypePaste(f)
    \/ \E files \in UNION {[1..n -> Files] : n \in 1..2} : HandleFileList(files)
    \/ \E r \in readings : FilesRead(r)
    \/ HandleUpload \/ RegisterFile \/ UploadDone \/ UploadFails

ImportSpec == ImportInit /\ [][ImportNext]_importVars

(***************************************************************************)
(* Properties                                                              *)
(***************************************************************************)

\* The button of the import dialog sends what the tab in view shows, also when
\* a read that an earlier dialog began comes to its end in this one: handleUpload
\* prefers the picked files and never looks at the tab.
UploadSendsWhatIsShown == CanUpload => Payload = InView

=============================================================================
