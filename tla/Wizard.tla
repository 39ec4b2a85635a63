------------------------------- MODULE Wizard -------------------------------
(***************************************************************************)
(* The new-workspace wizard: WorkspaceWizard.tsx with its folder picker    *)
(* and its steps. The dialog can be closed at any time, with a listing or  *)
(* the POST under way, and opened again before the answer comes.           *)
(*                                                                         *)
(* Every run of the picker's effect starts a listing and cancels the one   *)
(* before. The server answers with the folder a path leads to, which may   *)
(* be another path: then the picker selects that and asks again.           *)
(***************************************************************************)
EXTENDS Client, Naturals, Sequences, SequencesExt, FiniteSets

CONSTANTS
    Folders,        \* paths the picker can reach
    Home,           \* where a listing without a path leads
    Root,           \* the path without a base name
    Link, Target,   \* a symbolic link and where it leads
    MaxGeneration,  \* bounds how often the wizard is opened
    MaxPosts        \* POSTs in flight

ASSUME WizardAssumption == /\ {Home, Root, Link, Target} \subseteq Folders
                           /\ Link \notin {Home, Target} /\ Null \notin Folders

VARIABLES
    wizardOpen,
    step,
    named,        \* the trimmed name is not empty
    creating,     \* creatingRef and creating
    generation,   \* createGeneration
    posts,        \* the generations of the POSTs in flight
    data,         \* the folder that is listed
    selected,
    loading,
    browseError,
    listings,     \* fsBrowse calls in flight: [path, live]
    chosen        \* ghost: the path last clicked since the wizard opened

wizardVars == <<wizardOpen, step, named, creating, generation, posts, data, selected, loading,
                browseError, listings, chosen>>
pickerVars == <<data, selected, loading, browseError, listings, chosen>>

\* The folder a path leads to; resolving it again changes nothing.
Resolve(path) == IF path = Null THEN Home ELSE IF path = Link THEN Target ELSE path

WizardInit ==
    /\ wizardOpen = FALSE /\ step = 1 /\ named = FALSE
    /\ creating = FALSE /\ generation = 1 /\ posts = <<>>
    /\ data = Null /\ selected = Null /\ chosen = Null
    /\ loading = FALSE /\ browseError = FALSE /\ listings = {}

-----------------------------------------------------------------------------
(* The folder picker *)

Cancelled == {[l EXCEPT !.live = FALSE] : l \in listings}

\* The effect of useFolderPicker runs for path.
Browse(path) ==
    /\ loading' = TRUE
    /\ browseError' = FALSE
    /\ listings' = Cancelled \cup {[path |-> path, live |-> TRUE]}

navigate(path) ==
    /\ wizardOpen /\ step = 1 /\ ~loading /\ ~browseError
    /\ path # data
    /\ selected' = path /\ chosen' = path
    /\ Browse(path)
    /\ UNCHANGED <<wizardOpen, step, named, creating, generation, posts, data>>

\* Variant: the answer to a cancelled listing is used as well.
ListingUsed(l) == wizardOpen

\* cancelled
ListingLive(l) == l.live

\* The answer is for the path that is selected already, or the effect runs
\* again for the path it names.
Browsed(l) ==
    /\ data' = Resolve(l.path)
    /\ selected' = Resolve(l.path)
    /\ IF selected = Resolve(l.path)
       THEN /\ loading' = FALSE /\ listings' = listings \ {l}
            /\ UNCHANGED browseError
       ELSE /\ loading' = TRUE /\ browseError' = FALSE
            /\ listings' = (Cancelled \ {[l EXCEPT !.live = FALSE]})
                              \cup {[path |-> Resolve(l.path), live |-> TRUE]}
    /\ UNCHANGED <<wizardOpen, step, named, creating, generation, posts, chosen>>

\* Variant: a listing that failed goes on loading.
BrowseFailedLoading(l) ==
    /\ listings' = listings \ {l}
    /\ browseError' = TRUE
    /\ UNCHANGED <<wizardOpen, step, named, creating, generation, posts, data, selected, chosen, loading>>

BrowseFailed(l) ==
    /\ listings' = listings \ {l}
    /\ browseError' = TRUE /\ loading' = FALSE
    /\ UNCHANGED <<wizardOpen, step, named, creating, generation, posts, data, selected, chosen>>

ListingAnswered(l) ==
    /\ l \in listings
    /\ \/ ListingLive(l) /\ (Browsed(l) \/ BrowseFailed(l))
       \/ /\ ~ListingLive(l)
          /\ listings' = listings \ {l}
          /\ UNCHANGED <<wizardOpen, step, named, creating, generation, posts, data, selected, loading,
                         browseError, chosen>>

-----------------------------------------------------------------------------
(* The dialog *)

\* Both effects reset their state and the picker starts at the home folder.
OpenWizard ==
    /\ ~wizardOpen /\ generation < MaxGeneration
    /\ wizardOpen' = TRUE /\ step' = 1 /\ named' = FALSE /\ creating' = FALSE
    /\ selected' = Null /\ data' = Null /\ chosen' = Null
    /\ Browse(Null)
    /\ UNCHANGED <<generation, posts>>

\* Cancel, Escape, a click outside, or success: closeWizard starts a new
\* generation, and the effect that sees the wizard closed another one.
closeWizard ==
    /\ wizardOpen' = FALSE
    /\ generation' = generation + 2
    /\ creating' = FALSE
    /\ data' = Null /\ selected' = Null /\ browseError' = FALSE
    /\ listings' = Cancelled
    /\ UNCHANGED <<step, named, loading, chosen>>

UserCloses == wizardOpen /\ closeWizard /\ UNCHANGED posts

\* An empty name is filled in with the folder's, which the root has none of.
nextFromPicker ==
    /\ wizardOpen /\ step = 1
    /\ selected # Null
    /\ named' = (named \/ selected # Root)
    /\ step' = 2
    /\ UNCHANGED <<wizardOpen, creating, generation, posts>> /\ UNCHANGED pickerVars

EditName ==
    /\ wizardOpen /\ step = 2
    /\ named' \in BOOLEAN
    /\ UNCHANGED <<wizardOpen, step, creating, generation, posts>> /\ UNCHANGED pickerVars

ConfirmName ==
    /\ wizardOpen /\ step = 2 /\ named
    /\ step' = 3
    /\ UNCHANGED <<wizardOpen, named, creating, generation, posts>> /\ UNCHANGED pickerVars

StepBack ==
    /\ wizardOpen /\ step > 1 /\ ~creating
    /\ step' = step - 1
    /\ UNCHANGED <<wizardOpen, named, creating, generation, posts>> /\ UNCHANGED pickerVars

\* Variant: without creatingRef.
createAgain ==
    /\ wizardOpen /\ step = 3 /\ Len(posts) < MaxPosts
    /\ selected # Null
    /\ creating' = TRUE
    /\ posts' = Append(posts, generation)
    /\ UNCHANGED <<wizardOpen, step, named, generation>> /\ UNCHANGED pickerVars

create ==
    /\ wizardOpen /\ step = 3 /\ Len(posts) < MaxPosts
    /\ ~creating /\ selected # Null
    /\ creating' = TRUE
    /\ posts' = Append(posts, generation)
    /\ UNCHANGED <<wizardOpen, step, named, generation>> /\ UNCHANGED pickerVars

\* Variant: the answer is taken for the wizard's own, whichever opening of
\* it sent the POST.
CreateIsOursAlways(i) == wizardOpen

CreateIsOurs(i) == posts[i] = generation

\* The workspace is handed to the app and the wizard closes, or the error is
\* shown; an earlier opening's answer is dropped, and its workspace with it.
CreateAnswered(i) ==
    /\ i \in DOMAIN posts
    /\ posts' = RemoveAt(posts, i)
    /\ \/ CreateIsOurs(i) /\ closeWizard
       \/ /\ CreateIsOurs(i)
          /\ creating' = FALSE
          /\ UNCHANGED <<wizardOpen, step, named, generation>> /\ UNCHANGED pickerVars
       \/ /\ ~CreateIsOurs(i)
          /\ UNCHANGED <<wizardOpen, step, named, creating, generation>> /\ UNCHANGED pickerVars

-----------------------------------------------------------------------------
Listings == [path : Folders \cup {Null}, live : BOOLEAN]

WizardNext ==
    \/ OpenWizard \/ UserCloses
    \/ nextFromPicker \/ EditName \/ ConfirmName \/ StepBack \/ create
    \/ \E path \in Folders : navigate(path)
    \/ \E l \in Listings : ListingAnswered(l)
    \/ \E i \in 1..MaxPosts : CreateAnswered(i)

\* Every request is answered or fails in the end.
WizardFairness ==
    /\ WF_wizardVars(\E l \in Listings : l.live /\ ListingAnswered(l))
    /\ \A i \in 1..MaxPosts : WF_wizardVars(CreateAnswered(i))

WizardSpec == WizardInit /\ [][WizardNext]_wizardVars /\ WizardFairness

-----------------------------------------------------------------------------
(* Properties *)

Own == {i \in DOMAIN posts : posts[i] = generation}

\* The create button is off exactly while the POST of this opening of the
\* wizard is under way, of which there is one: the answer to a POST of an
\* earlier opening neither frees it nor closes the wizard.
OneCreate ==
    /\ Cardinality(Own) <= 1
    /\ wizardOpen => (creating <=> Own # {})

\* A picker at rest lists the folder that is selected, and that is the one the
\* user chose since the wizard opened: no listing of an earlier folder or of an
\* earlier opening shows up late.
PickerTrue ==
    wizardOpen /\ ~loading /\ ~browseError => data = selected /\ data = Resolve(chosen)

\* The wizard never waits for ever: a listing ends, and so does a create.
WizardAnswers ==
    /\ []<>~(wizardOpen /\ loading)
    /\ []<>~(wizardOpen /\ creating)
=============================================================================
