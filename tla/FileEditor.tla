----------------------------- MODULE FileEditor -----------------------------
(***************************************************************************)
(* FileEditor on one file, and what the server's write and upload handlers *)
(* do to that file: an upload of that name truncates and fills it in       *)
(* place, a save puts a new file in its place. The editor can be closed    *)
(* and opened again while a save is under way; opening numbers its lives.  *)
(* What other panes' editors and programs in the terminals do to the file  *)
(* is left out, and so is that JSON replaces bytes that are not UTF-8.     *)
(***************************************************************************)
EXTENDS Client, Naturals

CONSTANTS
    Texts,        \* what the user types
    FirstText,    \* what the file holds at the start
    Uploaded,     \* what an upload holds
    Torn,         \* a part of an upload, or a mixture of two
    MaxOverwrites, \* uploads of the file
    MaxOpenings   \* lives of the editor

ASSUME FileEditorAssumption ==
    /\ FirstText \in Texts /\ Null \notin Texts
    /\ Uploaded \notin Texts \cup {Null} /\ Torn \notin Texts \cup {Null, Uploaded}

VARIABLES
    file,          \* what the file holds
    overwrites,    \* uploads of it so far
    copying,       \* how many uploads fill the file that has the name
    uploadBroke,   \* of those that did since it was whole, one failed or two overlapped
    opening,
    editorOpen,
    content,
    original,
    read,          \* fsRead of the effect, with what it returned
    editError,
    saving,        \* savingRef
    writes,        \* fsWrite calls: [text, opening, done]
    discarding,    \* the confirm dialog of handleClose
    touched        \* ghost: the file changed behind the editor's back

fileVars == <<file, overwrites, copying, uploadBroke>>
fileEditorVars == <<fileVars, opening, editorOpen, content, original, read, editError, saving,
                    writes, discarding, touched>>

NoRead == [phase |-> "none", text |-> Null]

FileEditorInit ==
    /\ file = FirstText /\ overwrites = 0 /\ copying = 0 /\ uploadBroke = FALSE
    /\ opening = 0 /\ editorOpen = FALSE /\ content = Null /\ original = Null
    /\ read = NoRead /\ editError = FALSE /\ saving = FALSE /\ discarding = FALSE
    /\ writes = {} /\ touched = FALSE

-----------------------------------------------------------------------------
(* The server *)

\* saveUpload opens the file with O_TRUNC, also one that another upload fills.
UploadTruncates ==
    /\ overwrites < MaxOverwrites
    /\ overwrites' = overwrites + 1
    /\ copying' = copying + 1 /\ uploadBroke' = (copying > 0)
    /\ file' = Torn /\ touched' = TRUE
    /\ UNCHANGED <<opening, editorOpen, content, original, read, editError, saving, writes,
                   discarding>>

\* io.Copy ends. Each upload writes where it had got to, so that two of them
\* may leave the end of one after the start of the other.
UploadCopies ==
    /\ copying > 0
    /\ copying' = copying - 1 /\ touched' = TRUE
    /\ \/ UNCHANGED uploadBroke /\ (copying > 1 \/ uploadBroke) /\ UNCHANGED file
       \/ UNCHANGED uploadBroke /\ copying = 1 /\ file' = Uploaded
       \/ uploadBroke' = TRUE /\ UNCHANGED file
    /\ UNCHANGED <<overwrites, opening, editorOpen, content, original, read, editError, saving,
                   writes, discarding>>

Done(w, result) == writes' = (writes \ {w}) \cup {[w EXCEPT !.done = result]}

\* writeFileAtomic: the new file takes the name, and the uploads under way go
\* on writing to the old one. The answer may be lost. The text may be what a
\* broken upload left.
WriteLands(w) ==
    /\ w.done = "sent"
    /\ file' = w.text
    /\ copying' = 0
    /\ uploadBroke' = (w.text = Torn)
    /\ \/ /\ Done(w, "landed")
          /\ touched' = (touched \/ w.opening # opening \/ read.phase = "answered")
       \/ Done(w, "failed") /\ touched' = TRUE
    /\ UNCHANGED <<overwrites, opening, editorOpen, content, original, read, editError, saving,
                   discarding>>

\* Variant: the file is written in place.
WriteFailsInPlace(w) ==
    /\ w.done = "sent"
    /\ Done(w, "failed")
    /\ file' = Torn
    /\ UNCHANGED <<overwrites, copying, uploadBroke, opening, editorOpen, content, original, read,
                   editError, saving, discarding, touched>>

\* Any step before the rename fails: the temporary file is removed.
WriteFails(w) ==
    /\ w.done = "sent"
    /\ Done(w, "failed")
    /\ UNCHANGED <<fileVars, opening, editorOpen, content, original, read, editError, saving,
                   discarding, touched>>

\* The snapshot starts the editor's view of the file afresh, unless a save of
\* its own is under way.
ServerReads ==
    /\ read.phase = "asked"
    /\ read' = [phase |-> "answered", text |-> file]
    /\ touched' = (touched /\ \E w \in writes : w.opening = opening)
    /\ UNCHANGED <<fileVars, opening, editorOpen, content, original, editError, saving, writes,
                   discarding>>

-----------------------------------------------------------------------------
(* The editor *)

\* The effect of FileEditor runs.
ReadFile ==
    /\ content' = Null /\ editError' = FALSE
    /\ read' = [phase |-> "asked", text |-> Null]

EditorOpens ==
    /\ ~editorOpen /\ opening < MaxOpenings
    /\ opening' = opening + 1
    /\ editorOpen' = TRUE /\ original' = Null /\ saving' = FALSE /\ discarding' = FALSE
    /\ ReadFile
    /\ UNCHANGED <<fileVars, writes, touched>>

\* The effect depends on t: text that was not saved is read over.
ChangeLanguage ==
    /\ editorOpen
    /\ ReadFile
    /\ UNCHANGED <<fileVars, opening, editorOpen, original, saving, writes, discarding, touched>>

FileRead ==
    /\ read.phase # "none"
    /\ read' = NoRead
    /\ \/ /\ read.phase = "answered"
          /\ content' = read.text /\ original' = read.text
          /\ UNCHANGED editError
       \/ editError' = TRUE /\ UNCHANGED <<content, original>>
    /\ UNCHANGED <<fileVars, opening, editorOpen, saving, writes, discarding, touched>>

dirty == content # Null /\ content # original
Editable == editorOpen /\ content # Null /\ ~editError /\ read.phase = "none"

EditText(text) ==
    /\ Editable /\ ~discarding
    /\ content' = text
    /\ UNCHANGED <<fileVars, opening, editorOpen, original, read, editError, saving, writes,
                   discarding, touched>>

save ==
    /\ editorOpen /\ dirty /\ ~saving /\ ~discarding
    /\ saving' = TRUE
    /\ writes' = writes \cup {[text |-> content, opening |-> opening, done |-> "sent"]}
    /\ UNCHANGED <<fileVars, opening, editorOpen, content, original, read, editError, discarding,
                   touched>>

\* Variant: the text on the screen counts as saved.
SavedTextNow(w) == content

\* The text of the request counts as saved, not what was typed since.
SavedText(w) == w.text

WriteAnswered(w) ==
    /\ w.done # "sent"
    /\ writes' = writes \ {w}
    /\ IF editorOpen /\ w.opening = opening
       THEN /\ saving' = FALSE
            /\ original' = IF w.done = "landed" THEN SavedText(w) ELSE original
       ELSE UNCHANGED <<saving, original>>
    /\ UNCHANGED <<fileVars, opening, editorOpen, content, read, editError, discarding, touched>>

EditorGoes == editorOpen' = FALSE /\ read' = NoRead /\ discarding' = FALSE

\* Unsaved text is asked about first.
handleClose ==
    /\ editorOpen /\ ~discarding
    /\ IF dirty THEN discarding' = TRUE /\ UNCHANGED <<editorOpen, read>> ELSE EditorGoes
    /\ UNCHANGED <<fileVars, opening, content, original, editError, saving, writes, touched>>

Discard(ok) ==
    /\ discarding
    /\ IF ok THEN EditorGoes ELSE discarding' = FALSE /\ UNCHANGED <<editorOpen, read>>
    /\ UNCHANGED <<fileVars, opening, content, original, editError, saving, writes, touched>>

\* Closing the panel asks nothing.
PanelGoes ==
    /\ editorOpen
    /\ EditorGoes
    /\ UNCHANGED <<fileVars, opening, content, original, editError, saving, writes, touched>>

-----------------------------------------------------------------------------
FileEditorNext ==
    \/ UploadTruncates \/ UploadCopies
    \/ \E w \in writes : WriteLands(w) \/ WriteFails(w) \/ WriteAnswered(w)
    \/ EditorOpens \/ ChangeLanguage \/ ServerReads \/ FileRead \/ save
    \/ \E text \in Texts : EditText(text)
    \/ handleClose \/ PanelGoes
    \/ \E ok \in BOOLEAN : Discard(ok)

FileEditorSpec == FileEditorInit /\ [][FileEditorNext]_fileEditorVars

-----------------------------------------------------------------------------
(* Properties *)

\* What the editor takes for saved, and compares the text with, is what the
\* file holds, however the text was edited while the save was under way,
\* unless an upload, an earlier life of the editor, a lost answer or a read of
\* before the save comes in between, or a writer that is left out here
\* (FileEditor.save).
SavedIsOnServer ==
    Editable /\ ~touched /\ (\A w \in writes : w.opening # opening) => original = file

\* The file is half written only while uploads fill it, after one of them
\* failed or two overlapped: an upload on its own leaves it whole, a save that
\* fails leaves it as it was, and one that lands takes it away from the uploads
\* under way (writeFileAtomic, saveUpload).
TornOnlyByUpload == file = Torn => copying > 0 \/ uploadBroke
=============================================================================
