---------------------------- MODULE SystemStats -----------------------------
(***************************************************************************)
(* The statistics dialog, which asks the server every two seconds while it *)
(* is open. Every run of its effect (opened, or another language) has its  *)
(* own timer, its own inFlight and its own cancelled. A sample is the time *)
(* the server took it at.                                                  *)
(***************************************************************************)
EXTENDS Client, Naturals, FiniteSets

CONSTANTS
    MaxSamples,   \* samples the server takes
    MaxRuns       \* runs of the effect

VARIABLES
    statsOpen,
    run,           \* the effect's latest run; the ones before are cancelled
    inFlight,      \* of this run
    fetches,       \* requests under way: [run, sample or Null]
    stats,         \* the sample that is shown, 0 when there is none
    statsError,
    samples        \* samples taken so far

statsVars == <<statsOpen, run, inFlight, fetches, stats, statsError, samples>>

StatsInit ==
    /\ statsOpen = FALSE /\ run = 0 /\ inFlight = FALSE /\ fetches = {}
    /\ stats = 0 /\ statsError = FALSE /\ samples = 0

-----------------------------------------------------------------------------
\* The effect runs: the one before is cancelled, and the first request goes
\* out at once.
EffectRuns ==
    /\ run < MaxRuns
    /\ run' = run + 1
    /\ inFlight' = TRUE
    /\ fetches' = fetches \cup {[run |-> run + 1, sample |-> Null]}

OpenStats ==
    /\ ~statsOpen /\ statsOpen' = TRUE
    /\ EffectRuns
    /\ UNCHANGED <<stats, statsError, samples>>

LanguageChanges ==
    /\ statsOpen
    /\ EffectRuns
    /\ UNCHANGED <<statsOpen, stats, statsError, samples>>

\* The sample stays for the next time.
CloseStats ==
    /\ statsOpen /\ statsOpen' = FALSE
    /\ UNCHANGED <<run, inFlight, fetches, stats, statsError, samples>>

\* Variant: the timer asks again although an answer is due.
MayFetchAgain == TRUE

MayFetch == ~inFlight

\* The timer: fetchStats
fetchStats ==
    /\ statsOpen /\ MayFetch
    /\ inFlight' = TRUE
    /\ fetches' = fetches \cup {[run |-> run, sample |-> Null]}
    /\ UNCHANGED <<statsOpen, run, stats, statsError, samples>>

ServerSamples(f) ==
    /\ f \in fetches /\ f.sample = Null /\ samples < MaxSamples
    /\ samples' = samples + 1
    /\ fetches' = (fetches \ {f}) \cup {[f EXCEPT !.sample = samples + 1]}
    /\ UNCHANGED <<statsOpen, run, inFlight, stats, statsError>>

\* ~cancelled
FetchLive(f) == statsOpen /\ f.run = run

FetchAnswered(f) ==
    /\ f \in fetches
    /\ fetches' = fetches \ {f}
    /\ inFlight' = (inFlight /\ f.run # run)
    /\ \/ FetchLive(f) /\ f.sample # Null /\ stats' = f.sample /\ statsError' = FALSE
       \/ FetchLive(f) /\ statsError' = TRUE /\ UNCHANGED stats
       \/ ~FetchLive(f) /\ UNCHANGED <<stats, statsError>>
    /\ UNCHANGED <<statsOpen, run, samples>>

-----------------------------------------------------------------------------
Fetches == [run : 1..MaxRuns, sample : {Null} \cup 1..MaxSamples]

StatsNext ==
    \/ OpenStats \/ LanguageChanges \/ CloseStats \/ fetchStats
    \/ \E f \in Fetches : ServerSamples(f) \/ FetchAnswered(f)

StatsSpec == StatsInit /\ [][StatsNext]_statsVars

-----------------------------------------------------------------------------
(* Properties *)

\* The dialog never goes back to an older sample, however slowly the server
\* answers and however often it is closed and opened (inFlight, cancelled).
SamplesInOrder == [][stats' >= stats]_statsVars
=============================================================================
