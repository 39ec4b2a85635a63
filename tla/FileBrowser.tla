---------------------------- MODULE FileBrowser -----------------------------
(***************************************************************************)
(* The file panel of a terminal: FileBrowser with its listing and its      *)
(* uploads, and a folder of FileTree. A directory is the number of uploads *)
(* that changed it. The panel can go at any time, and the tree whenever    *)
(* the directory is listed again or a file is opened, with requests under  *)
(* way whose answers then find nobody.                                     *)
(***************************************************************************)
EXTENDS Client, Naturals, FiniteSets

CONSTANTS
    MaxUploads,   \* changes of the directory and uploads under way, together
    MaxLists      \* listings asked for

VARIABLES
    version,       \* server: uploads that changed the directory
    uploads,       \* uploads under way, [mine, phase, version], by number
    panelOpen,
    lists,         \* listings in flight, [live, version or Null], by number
    listed,        \* data: the version that is shown, or Null
    listLoading,
    listError,
    editing,       \* a file is open in the editor
    folder,        \* a FolderNode: [expanded, loading, error, shown]
    acked,         \* ghost: the newest version the user was told of
    unheard        \* ghost: the panel missed an upload since it last asked

fileBrowserVars == <<version, uploads, panelOpen, lists, listed, listLoading, listError, editing,
                     folder, acked, unheard>>

FolderClosed == [expanded |-> FALSE, loading |-> FALSE, error |-> FALSE, shown |-> FALSE]

FileBrowserInit ==
    /\ version = 0 /\ uploads = <<>>
    /\ panelOpen = FALSE /\ lists = <<>>
    /\ listed = Null /\ listLoading = FALSE /\ listError = FALSE /\ editing = FALSE
    /\ folder = FolderClosed
    /\ acked = 0 /\ unheard = FALSE

-----------------------------------------------------------------------------
(* The listing *)

CancelledLists == [n \in DOMAIN lists |-> [lists[n] EXCEPT !.live = FALSE]]
Unlisted(n) == [m \in DOMAIN lists \ {n} |-> lists[m]]

\* The effect of FileBrowser runs: mount, retry, another language, or the
\* tick of an upload. The tree is gone while it loads.
ListAgain ==
    /\ listLoading' = TRUE /\ listError' = FALSE
    /\ DOMAIN lists # 1..MaxLists
    /\ LET new == CHOOSE n \in 1..MaxLists : n \notin DOMAIN lists
       IN  lists' = [n \in DOMAIN lists \cup {new} |->
                       IF n = new THEN [live |-> TRUE, version |-> Null] ELSE CancelledLists[n]]
    /\ folder' = FolderClosed /\ unheard' = FALSE

OpenPanel ==
    /\ ~panelOpen
    /\ panelOpen' = TRUE
    /\ listed' = Null /\ editing' = FALSE
    /\ ListAgain
    /\ UNCHANGED <<version, uploads, acked>>

\* The uploads go on without the panel that sent them.
ClosePanel ==
    /\ panelOpen
    /\ panelOpen' = FALSE
    /\ lists' = CancelledLists
    /\ uploads' = [n \in DOMAIN uploads |-> [uploads[n] EXCEPT !.mine = FALSE]]
    /\ folder' = FolderClosed
    /\ UNCHANGED <<version, listed, listLoading, listError, editing, acked, unheard>>

\* The retry button, or another language.
Relist ==
    /\ panelOpen
    /\ ListAgain
    /\ UNCHANGED <<version, uploads, panelOpen, listed, editing, acked>>

ServerListsFiles(n) ==
    /\ n \in DOMAIN lists /\ lists[n].version = Null
    /\ lists' = [lists EXCEPT ![n].version = version]
    /\ UNCHANGED <<version, uploads, panelOpen, listed, listLoading, listError, editing, folder,
                   acked, unheard>>

\* Variant: a listing that was cancelled is shown when it arrives.
ListShown(n) == panelOpen

\* cancelled
ListLive(n) == lists[n].live

ListAnswered(n) ==
    /\ n \in DOMAIN lists
    /\ lists' = Unlisted(n)
    /\ \/ /\ ListLive(n) /\ lists[n].version # Null
          /\ listed' = lists[n].version
          /\ listLoading' = FALSE
          /\ UNCHANGED listError
       \/ ListLive(n) /\ listError' = TRUE /\ listLoading' = FALSE /\ UNCHANGED listed
       \/ ~ListLive(n) /\ UNCHANGED <<listed, listLoading, listError>>
    /\ UNCHANGED <<version, uploads, panelOpen, editing, folder, acked, unheard>>

-----------------------------------------------------------------------------
(* The tree, and the editor in its place *)

TreeShown == panelOpen /\ ~editing /\ ~listError /\ ~listLoading /\ listed # Null

openFile ==
    /\ TreeShown
    /\ editing' = TRUE
    /\ folder' = FolderClosed
    /\ UNCHANGED <<version, uploads, panelOpen, lists, listed, listLoading, listError, acked,
                   unheard>>

EditorClosed ==
    /\ panelOpen /\ editing
    /\ editing' = FALSE
    /\ UNCHANGED <<version, uploads, panelOpen, lists, listed, listLoading, listError, folder,
                   acked, unheard>>

toggle ==
    /\ TreeShown
    /\ folder' = IF ~folder.expanded /\ ~folder.shown /\ ~folder.loading
                 THEN [FolderClosed EXCEPT !.expanded = TRUE, !.loading = TRUE]
                 ELSE [folder EXCEPT !.expanded = ~@]
    /\ UNCHANGED <<version, uploads, panelOpen, lists, listed, listLoading, listError, editing,
                   acked, unheard>>

FolderFailed == [folder EXCEPT !.loading = FALSE, !.error = TRUE]

\* An answer after the tree was replaced finds no node (mountedRef).
FolderAnswered ==
    /\ folder.loading
    /\ \/ folder' = [folder EXCEPT !.loading = FALSE, !.shown = TRUE]
       \/ folder' = FolderFailed
    /\ UNCHANGED <<version, uploads, panelOpen, lists, listed, listLoading, listError, editing,
                   acked, unheard>>

-----------------------------------------------------------------------------
(* Uploads *)

\* uploadingRef belongs to one life of the panel.
Uploading == \E n \in DOMAIN uploads : uploads[n].mine

\* Chosen or dropped, also over the editor; refused while the panel waits for
\* one of its own, whatever an earlier panel still sends.
startUpload ==
    /\ panelOpen /\ ~Uploading /\ version + Cardinality(DOMAIN uploads) < MaxUploads
    /\ LET new == CHOOSE n \in 1..MaxUploads : n \notin DOMAIN uploads
       IN  uploads' = [n \in DOMAIN uploads \cup {new} |->
                         IF n = new THEN [mine |-> TRUE, phase |-> "sent", version |-> Null]
                         ELSE uploads[n]]
    /\ UNCHANGED <<version, panelOpen, lists, listed, listLoading, listError, editing, folder,
                   acked, unheard>>

\* All files are saved; or the form is refused, or one of the files fails
\* after others were saved.
ServerTakesUpload(n) ==
    /\ n \in DOMAIN uploads /\ uploads[n].phase = "sent"
    /\ \E phase \in {"landed", "failed"} :
          /\ version' \in IF phase = "landed" THEN {version + 1} ELSE {version, version + 1}
          /\ uploads' = [uploads EXCEPT ![n].phase = phase, ![n].version = version']
    /\ UNCHANGED <<panelOpen, lists, listed, listLoading, listError, editing, folder, acked,
                   unheard>>

\* The user is told in any case; only the panel that sent the files, while it
\* is there, lists them.
UploadAnswered(n) ==
    /\ n \in DOMAIN uploads /\ uploads[n].phase # "sent"
    /\ uploads' = [m \in DOMAIN uploads \ {n} |-> uploads[m]]
    /\ acked' = IF uploads[n].phase = "landed" /\ uploads[n].version > acked
                THEN uploads[n].version ELSE acked
    /\ IF uploads[n].phase = "landed" /\ uploads[n].mine THEN ListAgain
       ELSE /\ unheard' = (unheard \/ (panelOpen /\ uploads[n].phase = "landed"))
            /\ UNCHANGED <<listLoading, listError, lists, folder>>
    /\ UNCHANGED <<version, panelOpen, listed, editing>>

-----------------------------------------------------------------------------
FileBrowserNext ==
    \/ OpenPanel \/ ClosePanel \/ Relist
    \/ \E n \in 1..MaxLists : ServerListsFiles(n) \/ ListAnswered(n)
    \/ openFile \/ EditorClosed \/ toggle \/ FolderAnswered
    \/ startUpload \/ \E n \in 1..MaxUploads : ServerTakesUpload(n) \/ UploadAnswered(n)

FileBrowserSpec == FileBrowserInit /\ [][FileBrowserNext]_fileBrowserVars

-----------------------------------------------------------------------------
(* Properties *)

\* A listing at rest shows every upload the user was told of: one that was
\* asked for earlier never replaces it (cancelled). The exception is an upload
\* that a panel closed since had sent: its toast comes, and the panel that is
\* open in its place is not told (setTick of the one that is gone).
UploadsListed == panelOpen /\ ~listLoading /\ ~listError /\ ~unheard => listed >= acked
=============================================================================
