----------------------------- MODULE MCInterface ----------------------------
(***************************************************************************)
(* The parts of the web interface for TLC, with the output that the        *)
(* terminals show. They share no state that their modules do not already   *)
(* hold, so that a behaviour of the run is one of the parts' at a time:    *)
(* part says whose.                                                        *)
(***************************************************************************)
EXTENDS Layout, Workspaces, Wizard, FileBrowser, FileEditor, TerminalView, Gestures, SystemStats,
        Bridge

CONSTANT Parts

VARIABLE part

vars == <<part, layoutVars, workspacesVars, wizardVars, fileBrowserVars, fileEditorVars,
          terminalVars, gestureVars, statsVars, bridgeVars>>

\* The parts that do not run start in one state only.
Init ==
    /\ part \in Parts
    /\ LayoutInit /\ WorkspacesInit /\ WizardInit /\ FileBrowserInit /\ FileEditorInit
    /\ TerminalInit /\ GesturesInit /\ StatsInit /\ BridgeInit
    /\ part # "layout" => stored = Null
    /\ part # "terminal" => width = Max(Widths) /\ fontSize = Max(FontSizes)
    /\ part # "gestures" => pointer = Max(Positions)

Next ==
    /\ UNCHANGED part
    /\ \/ part = "layout" /\ LayoutNext
       \/ part # "layout" /\ UNCHANGED layoutVars
    /\ \/ part = "workspaces" /\ WorkspacesNext
       \/ part # "workspaces" /\ UNCHANGED workspacesVars
    /\ \/ part = "wizard" /\ WizardNext
       \/ part # "wizard" /\ UNCHANGED wizardVars
    /\ \/ part = "files" /\ FileBrowserNext
       \/ part # "files" /\ UNCHANGED fileBrowserVars
    /\ \/ part = "editor" /\ FileEditorNext
       \/ part # "editor" /\ UNCHANGED fileEditorVars
    /\ \/ part = "terminal" /\ TerminalNext
       \/ part # "terminal" /\ UNCHANGED terminalVars
    /\ \/ part = "gestures" /\ GesturesNext
       \/ part # "gestures" /\ UNCHANGED gestureVars
    /\ \/ part = "stats" /\ StatsNext
       \/ part # "stats" /\ UNCHANGED statsVars
    /\ \/ part = "output" /\ BridgeNext
       \/ part # "output" /\ UNCHANGED bridgeVars

\* Each part's own fairness. Only the terminal's holds a promise that its
\* first state already has to keep.
Fairness ==
    /\ WizardFairness
    /\ WF_terminalVars(part = "terminal" /\ ResizeObserved)
    /\ WF_terminalVars(part = "terminal" /\ PtyReads)

Spec == Init /\ [][Next]_vars /\ Fairness
=============================================================================
