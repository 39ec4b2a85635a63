---------------------------- MODULE DialogProofs ----------------------------
(***************************************************************************)
(* The dialogs that outlive their requests: the new-workspace wizard and   *)
(* the statistics, for any number of openings, requests and samples.       *)
(***************************************************************************)
EXTENDS Wizard, SystemStats, SequenceTheorems, FiniteSetTheorems, TLAPS

-----------------------------------------------------------------------------
(* The statistics *)

\* What a request under way can still bring: the sample of a live request is
\* no older than the one that is shown, and there is one live request at most.
StatsInv ==
    /\ run \in Nat /\ stats \in Nat /\ samples \in Nat /\ stats <= samples
    /\ inFlight \in BOOLEAN
    /\ \A f \in fetches :
          /\ f = [run |-> f.run, sample |-> f.sample]
          /\ f.run \in Nat /\ f.run <= run
          /\ f.sample # Null => f.sample \in Nat /\ f.sample <= samples
          /\ f.run = run => inFlight /\ (f.sample # Null => stats <= f.sample)
    /\ \A f, g \in fetches : f.run = run /\ g.run = run => f = g

\* Every step of the dialog and of the server keeps StatsInv.
LEMMA StatsStep == StatsInv /\ [StatsNext]_statsVars => StatsInv'
  <1> SUFFICES ASSUME StatsInv, [StatsNext]_statsVars PROVE StatsInv'
    OBVIOUS
  <1> USE DEF StatsInv
  <1>1. CASE EffectRuns /\ UNCHANGED <<stats, samples>>
    <2>1. \A f \in fetches : f.run # run'
      BY <1>1 DEF EffectRuns
    <2> QED
      BY <1>1, <2>1 DEF EffectRuns
  <1>2. CASE fetchStats /\ MayFetch
    <2>1. \A f \in fetches : f.run # run
      BY <1>2 DEF MayFetch
    <2> QED
      BY <1>2, <2>1 DEF fetchStats
  <1>3. ASSUME NEW f \in Fetches, ServerSamples(f) PROVE StatsInv'
    <2>1. /\ f \in fetches /\ f.sample = Null /\ samples' = samples + 1
          /\ UNCHANGED <<run, inFlight, stats>>
      BY <1>3 DEF ServerSamples
    <2> DEFINE new == [run |-> f.run, sample |-> samples + 1]
    <2>2. fetches' = (fetches \ {f}) \cup {new}
      BY <1>3, <2>1 DEF ServerSamples
    <2>3. \A g \in fetches \ {f} : f.run = run => g.run # run
      BY <2>1
    <2> QED
      BY <2>1, <2>2, <2>3
  <1>4. ASSUME NEW f \in Fetches, FetchAnswered(f) PROVE StatsInv'
    <2>1. /\ f \in fetches /\ fetches' = fetches \ {f}
          /\ UNCHANGED <<run, samples>>
          /\ stats' = stats \/ (f.run = run /\ f.sample # Null /\ stats' = f.sample)
      BY <1>4 DEF FetchAnswered, FetchLive
    <2>2. inFlight' = (inFlight /\ f.run # run)
      BY <1>4 DEF FetchAnswered
    <2>3. \A g \in fetches' : g.run = run => f.run # run
      BY <2>1
    <2>4. \A g \in fetches' : g.run = run => inFlight'
      BY <2>1, <2>2, <2>3, Zenon
    <2>5. inFlight' \in BOOLEAN
      BY <2>2, Zenon
    <2> QED
      BY <2>1, <2>3, <2>4, <2>5
  <1>5. CASE UNCHANGED <<run, inFlight, fetches, stats, samples>>
    BY <1>5
  <1> QED
    BY <1>1, <1>2, <1>3, <1>4, <1>5
       DEF StatsNext, OpenStats, LanguageChanges, CloseStats, fetchStats, statsVars

\* The dialog never goes back to an older sample: inFlight keeps one request
\* of a run under way, cancelled drops those of the runs before.
THEOREM SamplesAreInOrder == StatsSpec => SamplesInOrder
  <1>1. StatsInit => StatsInv
    <2> SUFFICES ASSUME StatsInit PROVE StatsInv
      OBVIOUS
    <2>1. run \in Nat /\ stats \in Nat /\ samples \in Nat /\ stats <= samples
      BY DEF StatsInit
    <2>2. inFlight \in BOOLEAN /\ fetches = {}
      BY Zenon DEF StatsInit
    <2> QED
      BY <2>1, <2>2 DEF StatsInv
  <1>2. StatsInv /\ [StatsNext]_statsVars => [stats' >= stats]_statsVars
    BY DEF StatsInv, StatsNext, OpenStats, LanguageChanges, CloseStats, EffectRuns, fetchStats,
           ServerSamples, FetchAnswered, FetchLive
  <1> QED
    BY <1>1, <1>2, StatsStep, PTL DEF StatsSpec, SamplesInOrder

-----------------------------------------------------------------------------
(* The wizard's POSTs *)

\* No POST under way is of a later generation than g, and one of g at most.
PostsOK(s, g) ==
    /\ s \in Seq(Nat) /\ g \in Nat
    /\ \A i \in 1..Len(s) : s[i] <= g
    /\ \A i, j \in 1..Len(s) : s[i] = g /\ s[j] = g => i = j

HasOwn(s, g) == \E i \in 1..Len(s) : s[i] = g

\* creating says whether a POST of this generation is under way, and there is
\* none while the wizard is closed.
CreateInv ==
    /\ PostsOK(posts, generation)
    /\ creating \in BOOLEAN
    /\ creating <=> HasOwn(posts, generation)
    /\ creating => wizardOpen

\* What is left of a sequence without its i-th element, and where it was.
LEMMA Removed ==
    ASSUME NEW s \in Seq(Nat), NEW i \in 1..Len(s)
    PROVE  /\ RemoveAt(s, i) \in Seq(Nat)
           /\ Len(RemoveAt(s, i)) = Len(s) - 1
           /\ \A k \in 1..(Len(s) - 1) :
                 RemoveAt(s, i)[k] = IF k < i THEN s[k] ELSE s[k + 1]
  <1> DEFINE l == SubSeq(s, 1, i - 1)
             r == SubSeq(s, i + 1, Len(s))
  <1>1. /\ l \in Seq(Nat) /\ Len(l) = i - 1
        /\ \A k \in 1..(i - 1) : l[k] = s[k]
    BY SubSeqProperties
  <1>2. /\ r \in Seq(Nat) /\ Len(r) = Len(s) - i
        /\ \A k \in 1..(Len(s) - i) : r[k] = s[k + i]
    BY SubSeqProperties
  <1> HIDE DEF l, r
  <1>3. /\ l \o r \in Seq(Nat) /\ Len(l \o r) = Len(s) - 1
        /\ \A k \in 1..(Len(l) + Len(r)) :
              (l \o r)[k] = IF k <= Len(l) THEN l[k] ELSE r[k - Len(l)]
    <2>1. /\ l \o r \in Seq(Nat) /\ Len(l \o r) = Len(l) + Len(r)
          /\ \A k \in 1..(Len(l) + Len(r)) :
                (l \o r)[k] = IF k <= Len(l) THEN l[k] ELSE r[k - Len(l)]
      BY <1>1, <1>2, ConcatProperties, Zenon
    <2>2. Len(l) + Len(r) = Len(s) - 1
      BY <1>1, <1>2
    <2> QED
      BY <2>1, <2>2, Zenon
  <1>4. ASSUME NEW k \in 1..(Len(s) - 1)
        PROVE  (l \o r)[k] = IF k < i THEN s[k] ELSE s[k + 1]
    <2>1. CASE k < i
      <3>1. k \in 1..(i - 1) /\ k \in 1..(Len(l) + Len(r)) /\ k <= Len(l)
        BY <1>1, <1>2, <2>1
      <3> QED
        BY <1>1, <1>3, <2>1, <3>1
    <2>2. CASE ~(k < i)
      <3>1. /\ k - (i - 1) \in 1..(Len(s) - i) /\ k \in 1..(Len(l) + Len(r)) /\ ~(k <= Len(l))
            /\ (k - (i - 1)) + i = k + 1
        BY <1>1, <1>2, <2>2
      <3>2. (l \o r)[k] = r[k - (i - 1)]
        BY <1>1, <1>3, <3>1
      <3>3. r[k - (i - 1)] = s[k + 1]
        BY <1>2, <3>1
      <3> QED
        BY <2>2, <3>2, <3>3
    <2> QED
      BY <2>1, <2>2
  <1> QED
    BY <1>3, <1>4 DEF RemoveAt, l, r

\* Closing the wizard disowns what is under way.
LEMMA PostsDisowned ==
    ASSUME NEW s, NEW g, PostsOK(s, g)
    PROVE  PostsOK(s, g + 2) /\ ~HasOwn(s, g + 2)
  <1>1. \A i \in 1..Len(s) : s[i] \in Nat /\ s[i] <= g
    BY DEF PostsOK
  <1>2. g \in Nat /\ g + 2 \in Nat /\ \A i \in 1..Len(s) : s[i] <= g + 2 /\ s[i] # g + 2
    BY <1>1 DEF PostsOK
  <1> QED
    BY <1>2 DEF PostsOK, HasOwn

\* A POST is sent while there is none.
LEMMA PostSent ==
    ASSUME NEW s, NEW g, PostsOK(s, g), ~HasOwn(s, g)
    PROVE  PostsOK(Append(s, g), g) /\ HasOwn(Append(s, g), g)
  <1>1. s \in Seq(Nat) /\ g \in Nat /\ Len(s) \in Nat
        /\ \A i \in 1..Len(s) : s[i] \in Nat /\ s[i] <= g /\ s[i] # g
    BY DEF PostsOK, HasOwn
  <1> DEFINE a == Append(s, g)
  <1>2. /\ a \in Seq(Nat) /\ Len(a) = Len(s) + 1
        /\ \A i \in 1..Len(s) : a[i] = s[i]
        /\ a[Len(s) + 1] = g
    BY <1>1, AppendProperties
  <1> HIDE DEF a
  <1>3. \A i \in 1..Len(a) : i \in 1..Len(s) \/ i = Len(s) + 1
    BY <1>1, <1>2
  <1>4. \A i \in 1..Len(a) : a[i] <= g /\ (a[i] = g => i = Len(s) + 1)
    BY <1>1, <1>2, <1>3
  <1>5. Len(s) + 1 \in 1..Len(a)
    BY <1>1, <1>2
  <1> QED
    BY <1>1, <1>2, <1>4, <1>5 DEF PostsOK, HasOwn, a

\* The answer to a POST leaves the others as they were.
LEMMA PostAnswered ==
    ASSUME NEW s, NEW g, PostsOK(s, g), NEW i \in 1..Len(s)
    PROVE  /\ PostsOK(RemoveAt(s, i), g)
           /\ s[i] = g => ~HasOwn(RemoveAt(s, i), g)
           /\ s[i] # g => (HasOwn(RemoveAt(s, i), g) <=> HasOwn(s, g))
  <1> DEFINE r == RemoveAt(s, i)
             at(k) == IF k < i THEN k ELSE k + 1
  <1>1. /\ s \in Seq(Nat) /\ g \in Nat /\ Len(s) \in Nat
        /\ \A k \in 1..Len(s) : s[k] \in Nat /\ s[k] <= g
        /\ \A j, k \in 1..Len(s) : s[j] = g /\ s[k] = g => j = k
    BY DEF PostsOK
  <1>2. r \in Seq(Nat) /\ Len(r) = Len(s) - 1
    BY <1>1, Removed
  <1>3. \A k \in 1..(Len(s) - 1) : r[k] = s[at(k)]
    BY <1>1, Removed
  <1>4. \A k \in 1..(Len(s) - 1) : at(k) \in 1..Len(s) /\ at(k) # i
    BY <1>1
  <1>5. \A j, k \in 1..(Len(s) - 1) : at(j) = at(k) => j = k
    BY <1>1
  <1>6. \A k \in 1..Len(s) : k # i => \E j \in 1..(Len(s) - 1) : at(j) = k
    <2> SUFFICES ASSUME NEW k \in 1..Len(s), k # i
                 PROVE  \E j \in 1..(Len(s) - 1) : at(j) = k
      OBVIOUS
    <2>1. CASE k < i
      <3>1. k \in 1..(Len(s) - 1) /\ at(k) = k
        BY <1>1, <2>1
      <3> QED
        BY <3>1
    <2>2. CASE k > i
      <3>1. k - 1 \in 1..(Len(s) - 1) /\ at(k - 1) = k
        BY <1>1, <2>2
      <3> QED
        BY <3>1
    <2> QED
      BY <1>1, <2>1, <2>2
  <1> HIDE DEF r, at
  <1>7. PostsOK(r, g)
    <2>1. \A k \in 1..Len(r) : r[k] <= g
      BY <1>1, <1>2, <1>3, <1>4
    <2>2. \A j, k \in 1..Len(r) : r[j] = g /\ r[k] = g => j = k
      BY <1>1, <1>2, <1>3, <1>4, <1>5
    <2> QED
      BY <1>1, <1>2, <2>1, <2>2 DEF PostsOK
  <1>8. s[i] = g => ~HasOwn(r, g)
    BY <1>1, <1>2, <1>3, <1>4 DEF HasOwn
  <1>9. HasOwn(r, g) => HasOwn(s, g)
    BY <1>2, <1>3, <1>4 DEF HasOwn
  <1>10. s[i] # g /\ HasOwn(s, g) => HasOwn(r, g)
    BY <1>2, <1>3, <1>6 DEF HasOwn
  <1> QED
    BY <1>7, <1>8, <1>9, <1>10 DEF r

\* Every step of the wizard keeps CreateInv.
LEMMA CreateStep == CreateInv /\ [WizardNext]_wizardVars => CreateInv'
  <1> SUFFICES ASSUME CreateInv, [WizardNext]_wizardVars PROVE CreateInv'
    OBVIOUS
  <1> USE DEF CreateInv
  <1>1. CASE OpenWizard
    <2>1. /\ ~wizardOpen /\ creating' = FALSE
          /\ generation' = generation /\ posts' = posts
      BY <1>1 DEF OpenWizard
    <2> QED
      BY <2>1, Zenon
  <1>2. CASE UserCloses
    <2>1. generation' = generation + 2 /\ creating' = FALSE /\ posts' = posts
      BY <1>2 DEF UserCloses, closeWizard
    <2> QED
      BY <2>1, PostsDisowned, Zenon
  <1>3. CASE create
    <2>1. /\ wizardOpen /\ ~creating /\ wizardOpen' = wizardOpen /\ creating' = TRUE
          /\ generation' = generation /\ posts' = Append(posts, generation)
      BY <1>3 DEF create
    <2> QED
      BY <2>1, PostSent, Zenon
  <1>4. ASSUME NEW i \in 1..MaxPosts, CreateAnswered(i) PROVE CreateInv'
    <2> DEFINE rest == RemoveAt(posts, i)
    <2>1. i \in 1..Len(posts) /\ posts' = rest
      BY <1>4 DEF CreateAnswered, PostsOK
    <2>2. /\ PostsOK(rest, generation)
          /\ CreateIsOurs(i) => ~HasOwn(rest, generation)
          /\ ~CreateIsOurs(i) => (HasOwn(rest, generation) <=> HasOwn(posts, generation))
      BY <2>1, PostAnswered DEF CreateIsOurs
    <2> HIDE DEF rest
    <2>3. CASE CreateIsOurs(i) /\ closeWizard
      <3>1. generation' = generation + 2 /\ creating' = FALSE
        BY <2>3 DEF closeWizard
      <3> QED
        BY <2>1, <2>2, <3>1, PostsDisowned, Zenon
    <2>4. CASE CreateIsOurs(i) /\ creating' = FALSE /\ UNCHANGED <<wizardOpen, generation>>
      BY <2>1, <2>2, <2>4, Zenon
    <2>5. CASE ~CreateIsOurs(i) /\ UNCHANGED <<wizardOpen, creating, generation>>
      BY <2>1, <2>2, <2>5, Zenon
    <2> QED
      BY <1>4, <2>3, <2>4, <2>5 DEF CreateAnswered
  <1>5. CASE UNCHANGED <<wizardOpen, creating, generation, posts>>
    BY <1>5, Zenon
  <1>6. CASE \/ nextFromPicker \/ EditName \/ ConfirmName \/ StepBack \/ UNCHANGED wizardVars
             \/ \E path \in Folders : navigate(path)
             \/ \E l \in Listings : ListingAnswered(l)
    BY <1>5, <1>6 DEF nextFromPicker, EditName, ConfirmName, StepBack, navigate, ListingAnswered,
                      Browsed, BrowseFailed, wizardVars
  <1> QED
    BY <1>1, <1>2, <1>3, <1>4, <1>6 DEF WizardNext

\* One POST of this opening of the wizard is under way at most, and the button
\* is off exactly while it is (creatingRef, createGeneration).
THEOREM CreateIsSingle == WizardSpec => []OneCreate
  <1>1. WizardInit => CreateInv
    <2> SUFFICES ASSUME WizardInit PROVE CreateInv
      OBVIOUS
    <2>1. PostsOK(posts, generation) /\ ~HasOwn(posts, generation)
      BY DEF WizardInit, PostsOK, HasOwn
    <2>2. creating = FALSE
      BY DEF WizardInit
    <2> QED
      BY <2>1, <2>2, Zenon DEF CreateInv
  <1>2. CreateInv => OneCreate
    <2> SUFFICES ASSUME CreateInv PROVE OneCreate
      OBVIOUS
    <2>1. Own = {i \in 1..Len(posts) : posts[i] = generation}
      BY DEF Own, CreateInv, PostsOK
    <2>2. wizardOpen => (creating <=> Own # {})
      <3>1. HasOwn(posts, generation) <=> Own # {}
        BY <2>1, Zenon DEF HasOwn
      <3> QED
        BY <3>1, Zenon DEF CreateInv
    <2>3. CASE Own = {}
      <3>1. Cardinality(Own) <= 1
        BY <2>3, FS_EmptySet
      <3> QED
        BY <2>2, <3>1, Zenon DEF OneCreate
    <2>4. ASSUME NEW i \in Own PROVE OneCreate
      <3>1. Own = {i}
        BY <2>1, <2>4 DEF CreateInv, PostsOK
      <3>2. Cardinality(Own) = 1
        BY <3>1, FS_Singleton, Zenon
      <3>3. Cardinality(Own) <= 1
        BY <3>2
      <3> QED
        BY <2>2, <3>3, Zenon DEF OneCreate
    <2> QED
      BY <2>3, <2>4, Zenon
  <1> QED
    BY <1>1, <1>2, CreateStep, PTL DEF WizardSpec

-----------------------------------------------------------------------------
(* The wizard's folder picker *)

\* The one live listing is of the selected path, which leads where the chosen
\* one does; there is none once the picker is at rest or gone.
PickerInv ==
    /\ listings \subseteq Listings
    /\ loading \in BOOLEAN
    /\ \A l \in listings : l.live => wizardOpen /\ loading /\ l.path = selected
    /\ wizardOpen => Resolve(selected) = Resolve(chosen)
    /\ PickerTrue

\* The path the server answers with leads to itself.
LEMMA ResolvedOnce == \A path : Resolve(Resolve(path)) = Resolve(path)
  BY WizardAssumption, Zenon DEF WizardAssumption, Resolve

\* The cleanup of the effect leaves no live listing.
LEMMA CancelledDead ==
    ASSUME listings \subseteq Listings
    PROVE  Cancelled \subseteq Listings /\ \A l \in Cancelled : l.live = FALSE
  BY DEF Cancelled, Listings

\* Every step of the wizard keeps PickerInv.
LEMMA PickerStep == PickerInv /\ [WizardNext]_wizardVars => PickerInv'
  <1> SUFFICES ASSUME PickerInv, [WizardNext]_wizardVars PROVE PickerInv'
    OBVIOUS
  <1>0. /\ listings \subseteq Listings /\ loading \in BOOLEAN
        /\ \A l \in listings : l.live => wizardOpen /\ loading /\ l.path = selected
        /\ wizardOpen => Resolve(selected) = Resolve(chosen)
        /\ PickerTrue
    BY Zenon DEF PickerInv
  \* A run of the effect, which selects path.
  <1>1. ASSUME NEW path \in Folders \cup {Null}, NEW old,
               old \subseteq Listings, \A l \in old : l.live = FALSE,
               wizardOpen', loading' = TRUE, selected' = path,
               listings' = old \cup {[path |-> path, live |-> TRUE]},
               Resolve(path) = Resolve(chosen')
        PROVE  PickerInv'
    <2>1. [path |-> path, live |-> TRUE] \in Listings
      BY DEF Listings
    <2>2. listings' \subseteq Listings
      BY <1>1, <2>1, Zenon
    <2>3. \A l \in listings' : l.live => l.path = selected'
      BY <1>1
    <2>4. PickerTrue'
      BY <1>1, Zenon DEF PickerTrue
    <2>5. Resolve(selected') = Resolve(chosen')
      BY <1>1, Zenon
    <2> QED
      BY <1>1, <2>2, <2>3, <2>4, <2>5, Zenon DEF PickerInv, Resolve
  <1>2. ASSUME NEW path \in Folders, navigate(path) PROVE PickerInv'
    BY <1>0, <1>1, <1>2, CancelledDead DEF navigate, Browse
  <1>3. CASE OpenWizard
    BY <1>0, <1>1, <1>3, CancelledDead DEF OpenWizard, Browse
  <1>4. CASE closeWizard
    <2>1. wizardOpen' = FALSE /\ listings' = Cancelled /\ loading' = loading
      BY <1>4 DEF closeWizard
    <2>2. listings' \subseteq Listings /\ \A l \in listings' : l.live = FALSE
      BY <1>0, <2>1, CancelledDead
    <2> QED
      BY <1>0, <2>1, <2>2, Zenon DEF PickerInv, PickerTrue
  <1>5. ASSUME NEW l \in Listings, ListingAnswered(l) PROVE PickerInv'
    <2>1. l \in listings
      BY <1>5 DEF ListingAnswered
    <2>2. CASE ~l.live /\ listings' = listings \ {l}
               /\ UNCHANGED <<wizardOpen, loading, browseError, data, selected, chosen>>
      BY <1>0, <2>2, Zenon DEF PickerInv, PickerTrue, Resolve
    <2>3. CASE l.live
      <3>1. wizardOpen /\ loading /\ l.path = selected /\ l = [path |-> selected, live |-> TRUE]
        BY <1>0, <2>1, <2>3 DEF Listings
      <3>2. \A k \in listings \ {l} : k.live = FALSE
        <4> SUFFICES ASSUME NEW k \in listings \ {l}, k.live # FALSE PROVE FALSE
          OBVIOUS
        <4>1. k \in Listings
          BY <1>0
        <4>2. k.live = TRUE /\ k = [path |-> k.path, live |-> k.live]
          BY <4>1 DEF Listings
        <4>3. k.path = selected
          BY <1>0, <4>2
        <4> QED
          BY <3>1, <4>2, <4>3
      <3>3. CASE BrowseFailed(l)
        <4>1. /\ listings' = listings \ {l} /\ browseError' = TRUE /\ loading' = FALSE
              /\ UNCHANGED <<wizardOpen, data, selected, chosen>>
          BY <3>3 DEF BrowseFailed
        <4> QED
          BY <1>0, <3>2, <4>1, Zenon DEF PickerInv, PickerTrue, Resolve
      <3>4. CASE Browsed(l) /\ selected = Resolve(l.path)
        <4>1. /\ listings' = listings \ {l} /\ loading' = FALSE
              /\ data' = selected /\ selected' = selected
              /\ UNCHANGED <<wizardOpen, browseError, chosen>>
          BY <3>4 DEF Browsed
        <4>2. Resolve(selected) = Resolve(chosen) /\ selected = Resolve(selected)
          BY <1>0, <3>1, <3>4, Zenon
        <4> QED
          BY <1>0, <3>2, <4>1, <4>2, Zenon DEF PickerInv, PickerTrue, Resolve
      <3>5. CASE Browsed(l) /\ selected # Resolve(l.path)
        <4> DEFINE to == Resolve(l.path)
                   old == Cancelled \ {[l EXCEPT !.live = FALSE]}
        <4>1. /\ listings' = old \cup {[path |-> to, live |-> TRUE]} /\ loading' = TRUE
              /\ selected' = to /\ UNCHANGED <<wizardOpen, chosen>>
          BY <3>5 DEF Browsed
        <4>2. old \subseteq Listings /\ \A k \in old : k.live = FALSE
          BY <1>0, CancelledDead
        <4>3. to \in Folders \cup {Null}
          BY WizardAssumption DEF WizardAssumption, Listings, Resolve
        <4>4. Resolve(to) = Resolve(chosen')
          BY <1>0, <3>1, <4>1, ResolvedOnce, Zenon
        <4>5. wizardOpen'
          BY <3>1, <4>1
        <4> HIDE DEF to, old
        <4> QED
          BY <1>1, <4>1, <4>2, <4>3, <4>4, <4>5
      <3> QED
        BY <1>5, <2>3, <3>3, <3>4, <3>5 DEF ListingAnswered, ListingLive
    <2> QED
      BY <1>5, <2>2, <2>3 DEF ListingAnswered, ListingLive
  <1>6. CASE UNCHANGED <<wizardOpen, pickerVars>>
    BY <1>0, <1>6, Zenon DEF PickerInv, PickerTrue, Resolve, pickerVars
  <1>7. ASSUME NEW i \in 1..MaxPosts, CreateAnswered(i) PROVE PickerInv'
    BY <1>4, <1>6, <1>7, Zenon DEF CreateAnswered
  <1>8. CASE nextFromPicker \/ EditName \/ ConfirmName \/ StepBack \/ create \/ UNCHANGED wizardVars
    BY <1>6, <1>8 DEF nextFromPicker, EditName, ConfirmName, StepBack, create, wizardVars, pickerVars
  <1> QED
    BY <1>2, <1>3, <1>4, <1>5, <1>7, <1>8 DEF WizardNext, UserCloses

\* A picker at rest lists the folder that was chosen last, through whatever
\* links it leads: the cleanup of the effect cancels every other listing.
THEOREM PickerIsTrue == WizardSpec => []PickerTrue
  <1>1. WizardInit => PickerInv
    BY Zenon DEF WizardInit, PickerInv, PickerTrue
  <1>2. PickerInv => PickerTrue
    BY Zenon DEF PickerInv
  <1> QED
    BY <1>1, <1>2, PickerStep, PTL DEF WizardSpec
=============================================================================
