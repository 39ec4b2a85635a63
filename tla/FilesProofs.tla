---------------------------- MODULE FilesProofs -----------------------------
(***************************************************************************)
(* The file panel and the editor, for any number of listings, uploads,     *)
(* saves and openings, and any texts.                                      *)
(***************************************************************************)
EXTENDS FileBrowser, FileEditor, TLAPS

-----------------------------------------------------------------------------
(* The listing *)

\* A version that shows the upload numbered a.
Shows(v, a) == v \in Nat /\ a \in Nat /\ v >= a

ListRecords == [live : BOOLEAN, version : Nat \cup {Null}]
UploadRecords ==
    [mine : BOOLEAN, phase : {"sent", "landed", "failed"}, version : Nat \cup {Null}]

\* One listing is live at most, the panel waits for it, and what it brings
\* shows the uploads the user was told of, but for one that was missed. The
\* panel that is gone has no uploads.
ListInv ==
    /\ Shows(version, acked)
    /\ uploads \in [DOMAIN uploads -> UploadRecords]
    /\ \A n \in DOMAIN uploads :
          /\ uploads[n].mine => panelOpen
          /\ uploads[n].phase # "sent" => Shows(version, uploads[n].version)
    /\ lists \in [DOMAIN lists -> ListRecords]
    /\ \A n \in DOMAIN lists :
          lists[n].live =>
             /\ panelOpen /\ listLoading
             /\ lists[n].version = Null \/ unheard \/ Shows(lists[n].version, acked)
    /\ \A n, k \in DOMAIN lists : lists[n].live /\ lists[k].live => n = k
    /\ panelOpen /\ ~listLoading /\ ~listError /\ ~unheard => Shows(listed, acked)

\* The effect leaves one live listing, which the server has not seen yet.
LEMMA AskedAgain ==
    ASSUME lists \in [DOMAIN lists -> ListRecords], ListAgain
    PROVE  /\ lists' \in [DOMAIN lists' -> ListRecords]
           /\ \A n \in DOMAIN lists' : lists'[n].live => lists'[n].version = Null
           /\ \A n, k \in DOMAIN lists' : lists'[n].live /\ lists'[k].live => n = k
           /\ listLoading' = TRUE /\ unheard' = FALSE
  <1>1. PICK new : lists' = [n \in DOMAIN lists \cup {new} |->
                               IF n = new THEN [live |-> TRUE, version |-> Null]
                               ELSE CancelledLists[n]]
    BY DEF ListAgain
  <1>2. \A n \in DOMAIN lists : CancelledLists[n] \in ListRecords /\ CancelledLists[n].live = FALSE
    BY DEF CancelledLists, ListRecords
  <1>3. [live |-> TRUE, version |-> Null] \in ListRecords
    BY DEF ListRecords
  <1> HIDE DEF CancelledLists
  <1>4. \A n \in DOMAIN lists' : n # new => lists'[n].live = FALSE
    BY <1>1, <1>2
  <1>5. lists'[new] = [live |-> TRUE, version |-> Null]
    BY <1>1
  <1>6. lists' \in [DOMAIN lists' -> ListRecords]
    BY <1>1, <1>2, <1>3
  <1>7. lists'[new].version = Null /\ listLoading' = TRUE /\ unheard' = FALSE
    BY <1>5 DEF ListAgain
  <1> QED
    BY <1>4, <1>6, <1>7, Zenon

\* Every step of the panel and of the server keeps ListInv.
LEMMA ListStep == ListInv /\ [FileBrowserNext]_fileBrowserVars => ListInv'
  <1> SUFFICES ASSUME ListInv, [FileBrowserNext]_fileBrowserVars PROVE ListInv'
    OBVIOUS
  <1> DEFINE UploadsOK == /\ uploads \in [DOMAIN uploads -> UploadRecords]
                          /\ \A n \in DOMAIN uploads :
                                /\ uploads[n].mine => panelOpen
                                /\ uploads[n].phase # "sent" => Shows(version, uploads[n].version)
  <1>0. UploadsOK /\ Shows(version, acked)
    BY Zenon DEF ListInv
  \* The effect runs with the panel open.
  <1>1. ASSUME ListAgain, panelOpen', UploadsOK', Shows(version', acked') PROVE ListInv'
    BY <1>1, AskedAgain, Zenon DEF ListInv
  <1>2. CASE OpenPanel \/ Relist
    <2>1. ListAgain /\ panelOpen' /\ UNCHANGED <<uploads, version, acked>>
      BY <1>2 DEF OpenPanel, Relist
    <2>2. UploadsOK' /\ Shows(version', acked')
      BY <1>0, <2>1, Zenon
    <2> QED
      BY <1>1, <2>1, <2>2
  <1>3. CASE ClosePanel
    <2>1. panelOpen' = FALSE /\ version' = version /\ acked' = acked /\ lists' = CancelledLists
      BY <1>3 DEF ClosePanel
    <2>2. /\ lists' \in [DOMAIN lists' -> ListRecords]
          /\ \A n \in DOMAIN lists' : lists'[n].live = FALSE
      BY <2>1 DEF CancelledLists, ListRecords, ListInv
    <2>3. /\ DOMAIN uploads' = DOMAIN uploads /\ uploads' \in [DOMAIN uploads' -> UploadRecords]
          /\ \A n \in DOMAIN uploads : /\ uploads'[n].mine = FALSE
                                       /\ uploads'[n].phase = uploads[n].phase
                                       /\ uploads'[n].version = uploads[n].version
      BY <1>0, <1>3 DEF ClosePanel, UploadRecords
    <2>4. UploadsOK'
      BY <1>0, <2>1, <2>3, Zenon
    <2> QED
      BY <1>0, <2>1, <2>2, <2>4, Zenon DEF ListInv
  <1>4. ASSUME NEW n \in 1..MaxLists, ServerListsFiles(n) PROVE ListInv'
    <2>1. /\ n \in DOMAIN lists /\ lists' = [lists EXCEPT ![n].version = version]
          /\ UNCHANGED <<version, uploads, acked, unheard, panelOpen, listLoading, listError,
                         listed>>
      BY <1>4 DEF ServerListsFiles
    <2>2. /\ DOMAIN lists' = DOMAIN lists /\ lists' \in [DOMAIN lists' -> ListRecords]
          /\ \A k \in DOMAIN lists : lists'[k].live = lists[k].live
          /\ \A k \in DOMAIN lists : lists'[k].version = lists[k].version \/ lists'[k].version = version
      BY <2>1 DEF ListRecords, Shows, ListInv
    <2> QED
      BY <2>1, <2>2, Zenon DEF ListInv
  <1>5. ASSUME NEW n \in 1..MaxLists, ListAnswered(n) PROVE ListInv'
    <2>1. /\ n \in DOMAIN lists /\ lists' = Unlisted(n)
          /\ UNCHANGED <<version, uploads, acked, unheard, panelOpen>>
      BY <1>5 DEF ListAnswered
    <2>2. /\ DOMAIN lists' = DOMAIN lists \ {n} /\ lists' \in [DOMAIN lists' -> ListRecords]
          /\ \A k \in DOMAIN lists' : lists'[k] = lists[k]
      BY <2>1 DEF Unlisted, ListInv
    <2>3. CASE ~lists[n].live /\ UNCHANGED <<listed, listLoading, listError>>
      BY <2>1, <2>2, <2>3, Zenon DEF ListInv
    <2>4. CASE /\ lists[n].live /\ listLoading' = FALSE
               /\ listError' = TRUE \/ unheard \/ Shows(listed', acked)
      BY <2>1, <2>2, <2>4, Zenon DEF ListInv
    <2> QED
      BY <1>5, <2>1, <2>3, <2>4 DEF ListAnswered, ListLive, ListInv
  <1>6. ASSUME NEW n \in 1..MaxUploads, ServerTakesUpload(n) PROVE ListInv'
    <2>1. PICK phase \in {"landed", "failed"} :
            /\ n \in DOMAIN uploads /\ version' \in {version, version + 1}
            /\ uploads' = [uploads EXCEPT ![n].phase = phase, ![n].version = version']
            /\ UNCHANGED <<lists, acked, unheard, panelOpen, listLoading, listError, listed>>
      BY <1>6 DEF ServerTakesUpload
    <2>2. Shows(version', acked') /\ Shows(version', version')
          /\ \A v : Shows(version, v) => Shows(version', v)
      BY <1>0, <2>1 DEF Shows
    <2>3. /\ DOMAIN uploads' = DOMAIN uploads /\ uploads' \in [DOMAIN uploads' -> UploadRecords]
          /\ \A k \in DOMAIN uploads :
                /\ uploads'[k].mine = uploads[k].mine
                /\ \/ k = n /\ uploads'[k].version = version'
                   \/ /\ uploads'[k].phase = uploads[k].phase
                      /\ uploads'[k].version = uploads[k].version
      BY <1>0, <2>1, <2>2 DEF UploadRecords, Shows
    <2>4. UploadsOK'
      BY <1>0, <2>1, <2>2, <2>3, Zenon
    <2> QED
      BY <2>1, <2>2, <2>4, Zenon DEF ListInv
  <1>7. ASSUME NEW n \in 1..MaxUploads, UploadAnswered(n) PROVE ListInv'
    <2>1. /\ n \in DOMAIN uploads /\ uploads[n].phase # "sent"
          /\ uploads' = [m \in DOMAIN uploads \ {n} |-> uploads[m]]
          /\ UNCHANGED <<version, panelOpen, listed>>
      BY <1>7 DEF UploadAnswered
    <2>2. UploadsOK'
      BY <1>0, <2>1
    <2>3. Shows(version', acked')
      BY <1>0, <1>7, <2>1 DEF UploadAnswered, Shows
    <2>4. CASE uploads[n].mine /\ ListAgain
      <3>1. panelOpen'
        BY <1>0, <2>1, <2>4
      <3> QED
        BY <1>1, <2>2, <2>3, <2>4, <3>1
    <2>5. CASE /\ acked' = acked \/ unheard' \/ ~panelOpen
               /\ unheard => unheard'
               /\ UNCHANGED <<lists, listLoading, listError>>
      BY <2>1, <2>2, <2>3, <2>5, Zenon DEF ListInv
    <2> QED
      BY <1>7, <2>4, <2>5 DEF UploadAnswered
  <1>8. CASE startUpload
    <2>1. PICK new :
            /\ panelOpen
            /\ UNCHANGED <<version, lists, acked, unheard, panelOpen, listLoading, listError,
                           listed>>
            /\ uploads' = [n \in DOMAIN uploads \cup {new} |->
                             IF n = new THEN [mine |-> TRUE, phase |-> "sent", version |-> Null]
                             ELSE uploads[n]]
      BY <1>8 DEF startUpload
    <2>2. UploadsOK'
      BY <1>0, <2>1 DEF UploadRecords
    <2> QED
      BY <2>1, <2>2, Zenon DEF ListInv
  <1>9. CASE UNCHANGED <<version, uploads, lists, acked, unheard, panelOpen, listLoading, listError,
                         listed>>
    BY <1>9, Zenon DEF ListInv
  <1>10. CASE \/ openFile \/ EditorClosed \/ toggle \/ FolderAnswered
              \/ UNCHANGED fileBrowserVars
    BY <1>9, <1>10 DEF openFile, EditorClosed, toggle, FolderAnswered, fileBrowserVars
  <1> QED
    BY <1>2, <1>3, <1>4, <1>5, <1>6, <1>7, <1>8, <1>10 DEF FileBrowserNext

\* A listing at rest shows every upload the user was told of, for any number of
\* panels opened and closed over uploads under way, until one is told of that
\* an earlier panel sent: the effect of FileBrowser cancels the listings that
\* were asked for before, and the panel that sent an upload lists again.
THEOREM UploadsAreListed == FileBrowserSpec => []UploadsListed
  <1>1. FileBrowserInit => ListInv
    <2> SUFFICES ASSUME FileBrowserInit PROVE ListInv
      OBVIOUS
    <2>1. Shows(version, acked)
      BY DEF FileBrowserInit, Shows
    <2>2. /\ lists \in [DOMAIN lists -> ListRecords] /\ DOMAIN lists = {}
          /\ uploads \in [DOMAIN uploads -> UploadRecords] /\ DOMAIN uploads = {}
      BY DEF FileBrowserInit
    <2>3. panelOpen = FALSE
      BY DEF FileBrowserInit
    <2> QED
      BY <2>1, <2>2, <2>3, Zenon DEF ListInv
  <1>2. ListInv => UploadsListed
    BY Zenon DEF ListInv, Shows, UploadsListed
  <1> QED
    BY <1>1, <1>2, ListStep, PTL DEF FileBrowserSpec

-----------------------------------------------------------------------------
(* The file *)

\* The type of the count of uploads, without which the step of one that ends
\* says nothing.
TornInv == copying \in Nat /\ TornOnlyByUpload

\* Only uploads leave the file half written, any number of them at once:
\* writeFileAtomic renames a complete file over it or leaves it alone.
THEOREM OnlyUploadsTear == FileEditorSpec => []TornOnlyByUpload
  <1>1. FileEditorInit => TornInv
    BY FileEditorAssumption DEF FileEditorAssumption, FileEditorInit, TornInv, TornOnlyByUpload
  <1>2. TornInv /\ [FileEditorNext]_fileEditorVars => TornInv'
    <2> SUFFICES ASSUME TornInv, [FileEditorNext]_fileEditorVars PROVE TornInv'
      OBVIOUS
    <2> USE DEF TornInv, TornOnlyByUpload
    <2>1. CASE UploadTruncates
      BY <2>1 DEF UploadTruncates
    <2>2. CASE UploadCopies
      <3>1. copying > 0 /\ copying' = copying - 1 /\ copying' \in Nat
        BY <2>2 DEF UploadCopies
      <3>2. \/ copying > 1 \/ file' = Uploaded \/ uploadBroke' = TRUE
            \/ uploadBroke /\ UNCHANGED uploadBroke
        BY <2>2 DEF UploadCopies
      <3>3. CASE copying > 1
        BY <3>1, <3>3
      <3>4. CASE file' = Uploaded
        BY <3>1, <3>4, FileEditorAssumption
      <3>5. CASE uploadBroke' = TRUE \/ (uploadBroke /\ UNCHANGED uploadBroke)
        <4>1. uploadBroke'
          BY <3>5, Zenon
        <4> QED
          BY <3>1, <4>1, Zenon
      <3> QED
        BY <3>2, <3>3, <3>4, <3>5
    <2>3. ASSUME NEW w \in writes, WriteLands(w) PROVE TornInv'
      <3>1. file' = w.text /\ uploadBroke' = (w.text = Torn)
        BY <2>3 DEF WriteLands
      <3>2. copying' \in Nat
        BY <2>3 DEF WriteLands
      <3> QED
        BY <3>1, <3>2, Zenon
    <2>4. CASE UNCHANGED fileVars
      BY <2>4, Zenon DEF fileVars
    <2>5. ASSUME NEW w \in writes, WriteFails(w) \/ WriteAnswered(w) PROVE TornInv'
      BY <2>4, <2>5 DEF WriteFails, WriteAnswered
    <2>6. CASE EditorOpens \/ ChangeLanguage \/ ServerReads \/ FileRead \/ save
      BY <2>4, <2>6 DEF EditorOpens, ChangeLanguage, ServerReads, FileRead, save
    <2>7. CASE \/ \E text \in Texts : EditText(text)
               \/ handleClose \/ PanelGoes \/ \E ok \in BOOLEAN : Discard(ok)
               \/ UNCHANGED fileEditorVars
      BY <2>4, <2>7 DEF EditText, handleClose, PanelGoes, Discard, fileEditorVars
    <2> QED
      BY <2>1, <2>2, <2>3, <2>5, <2>6, <2>7 DEF FileEditorNext
  <1>3. TornInv => TornOnlyByUpload
    BY DEF TornInv
  <1> QED
    BY <1>1, <1>2, <1>3, PTL DEF FileEditorSpec

-----------------------------------------------------------------------------
(* The editor *)

OwnWrite(w) == w.opening = opening

\* One save of this life of the editor is under way at most, and saving says so.
WritesInv ==
    /\ opening \in Nat
    /\ \A w \in writes :
          /\ w = [text |-> w.text, opening |-> w.opening, done |-> w.done]
          /\ w.opening \in Nat /\ w.opening <= opening
    /\ \A w, v \in writes : OwnWrite(w) /\ OwnWrite(v) => w = v
    /\ \A w \in writes : OwnWrite(w) /\ editorOpen => saving

\* There is text only once the file was read.
ReadInv ==
    /\ read.phase # "none" => content = Null /\ ~editError
    /\ editError => content = Null

\* As long as nothing else changed the file, a save that landed put its text
\* there, a read that was answered holds it, and the text that counts as saved
\* is what is there unless such a save is still to be acknowledged.
SavedInv ==
    ~touched =>
       /\ \A w \in writes : OwnWrite(w) /\ w.done = "landed" => file = w.text
       /\ read.phase = "answered" => read.text = file
       /\ editorOpen /\ content # Null =>
             original = file \/ \E w \in writes : OwnWrite(w) /\ w.done = "landed"

EditorInv == WritesInv /\ ReadInv /\ SavedInv

\* Every step of the editor and of the server keeps WritesInv.
LEMMA WritesStep == WritesInv /\ [FileEditorNext]_fileEditorVars => WritesInv'
  <1> SUFFICES ASSUME WritesInv, [FileEditorNext]_fileEditorVars PROVE WritesInv'
    OBVIOUS
  <1> USE DEF WritesInv, OwnWrite
  \* The server deals with a write.
  <1>1. ASSUME NEW w \in writes, NEW result, Done(w, result), UNCHANGED <<opening, editorOpen, saving>>
        PROVE  WritesInv'
    <2> DEFINE new == [text |-> w.text, opening |-> w.opening, done |-> result]
    <2>0. w = [text |-> w.text, opening |-> w.opening, done |-> w.done]
      OBVIOUS
    <2>1. [w EXCEPT !.done = result] = new
      BY <2>0
    <2>2. writes' = (writes \ {w}) \cup {new}
      BY <1>1, <2>1 DEF Done
    <2>3. /\ new = [text |-> new.text, opening |-> new.opening, done |-> new.done]
          /\ new.opening = w.opening
      OBVIOUS
    <2> HIDE DEF new
    <2> QED
      BY <1>1, <2>2, <2>3
  <1>2. ASSUME NEW w \in writes, WriteLands(w) \/ WriteFails(w) PROVE WritesInv'
    BY <1>1, <1>2 DEF WriteLands, WriteFails
  <1>3. ASSUME NEW w \in writes, WriteAnswered(w) PROVE WritesInv'
    <2>1. writes' = writes \ {w} /\ UNCHANGED <<opening, editorOpen>>
      BY <1>3 DEF WriteAnswered
    <2>2. CASE OwnWrite(w)
      <3>1. \A v \in writes' : ~OwnWrite(v)
        BY <2>1, <2>2
      <3> QED
        BY <2>1, <3>1
    <2>3. CASE ~OwnWrite(w)
      <3>1. saving' = saving
        BY <1>3, <2>3 DEF WriteAnswered
      <3> QED
        BY <2>1, <3>1
    <2> QED
      BY <2>2, <2>3
  <1>4. CASE EditorOpens
    <2>1. opening' = opening + 1 /\ writes' = writes
      BY <1>4 DEF EditorOpens
    <2>2. opening' \in Nat /\ \A w \in writes' : w.opening <= opening' /\ w.opening # opening'
      BY <2>1
    <2> QED
      BY <2>1, <2>2
  <1>5. CASE save
    <2> DEFINE new == [text |-> content, opening |-> opening, done |-> "sent"]
    <2>1. /\ editorOpen /\ ~saving /\ saving' = TRUE
          /\ UNCHANGED <<opening, editorOpen>> /\ writes' = writes \cup {new}
      BY <1>5 DEF save
    <2>2. \A w \in writes : ~OwnWrite(w)
      BY <2>1
    <2>3. new = [text |-> new.text, opening |-> new.opening, done |-> new.done] /\ new.opening = opening
      OBVIOUS
    <2> HIDE DEF new
    <2>4. \A w \in writes' : w = new \/ w \in writes
      BY <2>1
    <2> QED
      BY <2>1, <2>2, <2>3, <2>4
  <1>6. CASE /\ UNCHANGED <<opening, writes, saving>>
             /\ editorOpen' = editorOpen \/ editorOpen' = FALSE
    BY <1>6
  <1>7. CASE \/ UploadTruncates \/ UploadCopies \/ ChangeLanguage \/ ServerReads \/ FileRead
             \/ \E text \in Texts : EditText(text)
             \/ UNCHANGED fileEditorVars
    BY <1>6, <1>7 DEF UploadTruncates, UploadCopies, ChangeLanguage, ServerReads, FileRead, EditText,
                      fileEditorVars
  <1>8. CASE handleClose \/ PanelGoes \/ \E ok \in BOOLEAN : Discard(ok)
    BY <1>6, <1>8 DEF handleClose, PanelGoes, Discard, EditorGoes
  <1> QED
    BY <1>2, <1>3, <1>4, <1>5, <1>7, <1>8 DEF FileEditorNext

\* Every step keeps ReadInv.
LEMMA ReadStep == ReadInv /\ [FileEditorNext]_fileEditorVars => ReadInv'
  <1> SUFFICES ASSUME ReadInv, [FileEditorNext]_fileEditorVars PROVE ReadInv'
    OBVIOUS
  <1> USE DEF ReadInv
  <1>1. CASE EditorOpens \/ ChangeLanguage
    BY <1>1 DEF EditorOpens, ChangeLanguage, ReadFile
  <1>2. CASE ServerReads
    BY <1>2 DEF ServerReads
  <1>3. CASE FileRead
    <2>1. read'.phase = "none" /\ content = Null /\ ~editError
      BY <1>3 DEF FileRead, NoRead
    <2>2. CASE UNCHANGED content
      BY <2>1, <2>2
    <2>3. CASE UNCHANGED editError
      BY <2>1, <2>3
    <2> QED
      BY <1>3, <2>2, <2>3 DEF FileRead
  <1>4. ASSUME NEW text \in Texts, EditText(text) PROVE ReadInv'
    BY <1>4 DEF EditText, Editable
  <1>5. CASE UNCHANGED <<content, editError>> /\ (read' = read \/ read' = NoRead)
    BY <1>5 DEF NoRead
  <1>6. ASSUME NEW w \in writes, WriteLands(w) \/ WriteFails(w) \/ WriteAnswered(w) PROVE ReadInv'
    BY <1>5, <1>6 DEF WriteLands, WriteFails, WriteAnswered
  <1>7. CASE \/ UploadTruncates \/ UploadCopies \/ save \/ handleClose \/ PanelGoes
             \/ \E ok \in BOOLEAN : Discard(ok)
             \/ UNCHANGED fileEditorVars
    BY <1>5, <1>7 DEF UploadTruncates, UploadCopies, save, handleClose, PanelGoes, Discard, EditorGoes,
                      fileEditorVars
  <1> QED
    BY <1>1, <1>2, <1>3, <1>4, <1>6, <1>7 DEF FileEditorNext

\* Every step keeps SavedInv.
LEMMA SavedStep == EditorInv /\ [FileEditorNext]_fileEditorVars => SavedInv'
  <1> SUFFICES ASSUME EditorInv, [FileEditorNext]_fileEditorVars, ~touched' PROVE SavedInv'
    BY Zenon DEF SavedInv
  <1>0. WritesInv /\ ReadInv /\ SavedInv
    BY DEF EditorInv
  <1>1. CASE UploadTruncates \/ UploadCopies
    BY <1>1 DEF UploadTruncates, UploadCopies
  <1>2. ASSUME NEW w \in writes, WriteLands(w) PROVE SavedInv'
    <2> DEFINE new == [w EXCEPT !.done = "landed"]
    <2>1. /\ ~touched /\ OwnWrite(w) /\ read.phase # "answered" /\ file' = w.text
          /\ writes' = (writes \ {w}) \cup {new}
          /\ UNCHANGED <<opening, editorOpen, content, original, read>>
      BY <1>2 DEF WriteLands, Done, OwnWrite
    <2>2. new.done = "landed" /\ new.text = w.text /\ new.opening = opening
      <3>1. w = [text |-> w.text, opening |-> w.opening, done |-> w.done]
        BY <1>0 DEF WritesInv
      <3> QED
        BY <2>1, <3>1 DEF OwnWrite
    <2> HIDE DEF new
    <2>3. \A v \in writes' : v.opening = opening => v = new
      BY <1>0, <2>1 DEF WritesInv, OwnWrite
    <2>4. new \in writes'
      BY <2>1
    <2> QED
      BY <2>1, <2>2, <2>3, <2>4 DEF SavedInv, OwnWrite
  <1>3. ASSUME NEW w \in writes, WriteFails(w) PROVE SavedInv'
    <2> DEFINE new == [w EXCEPT !.done = "failed"]
    <2>1. /\ w.done = "sent" /\ writes' = (writes \ {w}) \cup {new}
          /\ UNCHANGED <<file, touched, opening, editorOpen, content, original, read>>
      BY <1>3 DEF WriteFails, Done, fileVars
    <2>2. new.done = "failed"
      <3>1. w = [text |-> w.text, opening |-> w.opening, done |-> w.done]
        BY <1>0 DEF WritesInv
      <3> QED
        BY <3>1
    <2> HIDE DEF new
    <2>3. \A v : v \in writes' /\ v.done = "landed" <=> v \in writes /\ v.done = "landed"
      BY <2>1, <2>2
    <2> QED
      BY <1>0, <2>1, <2>3 DEF SavedInv, OwnWrite
  <1>4. ASSUME NEW w \in writes, WriteAnswered(w) PROVE SavedInv'
    <2>1. /\ w.done # "sent" /\ writes' = writes \ {w}
          /\ UNCHANGED <<file, touched, opening, editorOpen, content, read>>
      BY <1>4 DEF WriteAnswered, fileVars
    <2>2. CASE editorOpen /\ OwnWrite(w) /\ w.done = "landed"
      <3>1. original' = w.text
        BY <1>4, <2>2 DEF WriteAnswered, SavedText, OwnWrite
      <3> QED
        BY <1>0, <2>1, <2>2, <3>1 DEF SavedInv, OwnWrite
    <2>3. CASE ~(editorOpen /\ OwnWrite(w) /\ w.done = "landed")
      <3>1. original' = original
        BY <1>4, <2>3 DEF WriteAnswered, OwnWrite
      <3> QED
        BY <1>0, <2>1, <2>3, <3>1 DEF SavedInv, OwnWrite
    <2> QED
      BY <2>2, <2>3
  <1>5. CASE EditorOpens
    <2>1. /\ opening' = opening + 1 /\ content' = Null /\ read'.phase = "asked" /\ writes' = writes
          /\ UNCHANGED <<file, touched>>
      BY <1>5 DEF EditorOpens, ReadFile, fileVars
    <2>2. \A w \in writes : w.opening # opening + 1
      BY <1>0 DEF WritesInv
    <2> QED
      BY <2>1, <2>2 DEF SavedInv, OwnWrite
  <1>6. CASE ChangeLanguage
    <2>1. /\ content' = Null /\ read'.phase = "asked"
          /\ UNCHANGED <<file, touched, opening, writes>>
      BY <1>6 DEF ChangeLanguage, ReadFile, fileVars
    <2> QED
      BY <1>0, <2>1 DEF SavedInv, OwnWrite
  <1>7. CASE ServerReads
    <2>1. /\ read.phase = "asked" /\ read'.phase = "answered" /\ read'.text = file
          /\ touched' = (touched /\ \E w \in writes : w.opening = opening)
          /\ UNCHANGED <<file, opening, editorOpen, content, original, writes>>
      BY <1>7 DEF ServerReads, fileVars
    <2>2. content = Null
      BY <1>0, <2>1 DEF ReadInv
    <2>3. touched => \A w \in writes : w.opening # opening
      BY <2>1, Zenon
    <2> QED
      BY <1>0, <2>1, <2>2, <2>3 DEF SavedInv, OwnWrite
  <1>8. CASE FileRead
    <2>1. /\ read.phase # "none" /\ read'.phase = "none"
          /\ UNCHANGED <<file, touched, opening, editorOpen, writes>>
      BY <1>8 DEF FileRead, NoRead, fileVars
    <2>2. CASE read.phase = "answered" /\ original' = read.text
      BY <1>0, <2>1, <2>2 DEF SavedInv, OwnWrite
    <2>3. CASE content' = content
      BY <1>0, <2>1, <2>3 DEF SavedInv, ReadInv, OwnWrite
    <2> QED
      BY <1>8, <2>2, <2>3 DEF FileRead
  <1>9. ASSUME NEW text \in Texts, EditText(text) PROVE SavedInv'
    <2>1. content # Null /\ UNCHANGED <<file, touched, opening, editorOpen, original, read, writes>>
      BY <1>9 DEF EditText, Editable, fileVars
    <2> QED
      BY <1>0, <2>1 DEF SavedInv, OwnWrite
  <1>10. CASE save
    <2> DEFINE new == [text |-> content, opening |-> opening, done |-> "sent"]
    <2>1. /\ writes' = writes \cup {new}
          /\ UNCHANGED <<file, touched, opening, editorOpen, content, original, read>>
      BY <1>10 DEF save, fileVars
    <2>2. new.done = "sent"
      OBVIOUS
    <2> HIDE DEF new
    <2>3. \A v : v \in writes' /\ v.done = "landed" <=> v \in writes /\ v.done = "landed"
      BY <2>1, <2>2
    <2> QED
      BY <1>0, <2>1, <2>3 DEF SavedInv, OwnWrite
  <1>11. CASE /\ UNCHANGED <<file, touched, opening, content, original, writes>>
              /\ UNCHANGED <<editorOpen, read>> \/ (editorOpen' = FALSE /\ read' = NoRead)
    BY <1>0, <1>11 DEF SavedInv, OwnWrite, NoRead
  <1>12. CASE \/ handleClose \/ PanelGoes \/ \E ok \in BOOLEAN : Discard(ok)
              \/ UNCHANGED fileEditorVars
    BY <1>11, <1>12 DEF handleClose, PanelGoes, Discard, EditorGoes, fileVars, fileEditorVars
  <1> QED
    BY <1>1, <1>2, <1>3, <1>4, <1>5, <1>6, <1>7, <1>8, <1>9, <1>10, <1>12 DEF FileEditorNext

\* What the editor takes for saved is in the file, however many lives, saves
\* and edits there were, as long as nothing else wrote to it (savingRef, and
\* the text of the request in setOriginal).
THEOREM SavedIsInFile == FileEditorSpec => []SavedIsOnServer
  <1>1. FileEditorInit => EditorInv
    <2> SUFFICES ASSUME FileEditorInit PROVE EditorInv
      OBVIOUS
    <2>1. opening \in Nat /\ writes = {} /\ content = Null /\ read.phase = "none" /\ ~editError
      BY DEF FileEditorInit, NoRead
    <2> QED
      BY <2>1 DEF EditorInv, WritesInv, ReadInv, SavedInv
  <1>2. EditorInv /\ [FileEditorNext]_fileEditorVars => EditorInv'
    BY WritesStep, ReadStep, SavedStep, Zenon DEF EditorInv
  <1>3. EditorInv => SavedIsOnServer
    BY Zenon DEF EditorInv, SavedInv, SavedIsOnServer, Editable, OwnWrite
  <1> QED
    BY <1>1, <1>2, <1>3, PTL DEF FileEditorSpec
=============================================================================
