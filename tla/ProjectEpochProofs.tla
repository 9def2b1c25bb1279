------------------------- MODULE ProjectEpochProofs -------------------------
(***************************************************************************)
(* What PET has loaded against what is on disk, for any sources, any       *)
(* dependencies between them, any Dune files and any number of edits.      *)
(***************************************************************************)
EXTENDS ProjectEpoch, TLAPS

-----------------------------------------------------------------------------
(* The inductive invariant, in named parts.                                *)

\* The call has its files, and the project its runtime.
CallOK ==
    /\ call.pc \in {"before", "build", "after"} => call.todo # <<>>
    /\ call.pc \in {"before", "build", "after", "finish", "open", "record"} =>
          call.files # <<>>
    /\ call.pc \notin {"idle", "attach"} => known

\* An artifact is made of the texts of its closure.
VoOK == \A f \in File : vo[f] # Absent => vo[f] \in [Closure(f) -> Text]

\* The layout that belongs to a probe, whenever it was taken.
Fits(p, l) ==
    \A c \in Config, src \in [File -> Bytes] : ProbeOf(c, src) = p => LayoutOf(c, src) = l

\* Unless the Dune files slipped in between, probe and layout that are kept
\* together belong together; and a call has seen the layout of the moment.
LayoutOK ==
    /\ known /\ ~slipped => Fits(probe, layout)
    /\ At("attach") => Fits(call.probe, call.layout)
    /\ call.pc \in {"refresh", "load", "plan"} => Layout \in call.views
    /\ At("refresh") => call.probe = Absent
    /\ call.pc \in {"plan", "before", "build", "after", "finish", "open"} =>
          layout \in call.views \/ (slipped /\ call.probe = Absent)

\* What the call has built and nobody edited since is what is on disk.
OwnedOK ==
    call.pc \in {"before", "build", "after", "finish", "open"} =>
        \A f \in Owned \ call.late : vo[f] # Absent /\ vo[f][f] = source[f]

IInv == TypeOK /\ CallOK /\ VoOK /\ LayoutOK /\ OwnedOK /\ AnchorsMatch

-----------------------------------------------------------------------------
(* Epochs: what is needed besides, when no edit brings earlier bytes back. *)

\* One artifact is no older than another one.
NoOlder(f, old, new) == new # Absent /\ \A x \in Closure(f) : old[x] <= new[x]

SourcesOK == \A f \in File : source[f] # Gone => source[f] = last[f]

\* No artifact is newer than its sources, or than the artifacts it requires.
DiskOK ==
    \A f \in File : vo[f] # Absent =>
        /\ \A x \in Closure(f) : vo[f][x] <= last[x]
        /\ \A g \in Closure(f) : NoOlder(g, vo[f], vo[g])

\* Fingerprints are of artifacts that builds can only have renewed since.
PriorOK ==
    /\ \A f \in File : cache[f] # Absent =>
          /\ cache[f].vo # Absent /\ cache[f].vo \in [Closure(f) -> Text]
          /\ NoOlder(f, cache[f].vo, vo[f])
    /\ call.pc \in {"build", "after"} /\ call.before.vo # Absent =>
          /\ call.before.vo \in [Closure(Current) -> Text]
          /\ NoOlder(Current, call.before.vo, vo[Current])
    /\ At("after") => vo[Current] # Absent
    /\ At("record") => vo[Head(call.files)] # Absent

\* The fingerprint that Compare will look at, and what it will find.
Prior == IF cache[Current] # Absent THEN cache[Current].vo ELSE call.before.vo
WillDiffer == Prior # Absent /\ \E x \in Closure(Current) : Prior[x] < vo[Current][x]

\* The call is bound to begin an epoch.
Pending ==
    \/ call.pc \in {"before", "build", "after", "finish"} /\ call.boundary
    \/ At("after") /\ WillDiffer

\* An artifact in PET that none of the exceptions is about.
Kept(g) == loaded[g] # Absent /\ g \notin unseen /\ ~skipped

\* PET has what is on disk, or the call is bound to begin an epoch.
EpochOK == Pending \/ \A g \in File : Kept(g) => loaded[g] = vo[g]

EInv == SourcesOK /\ DiskOK /\ PriorOK /\ EpochOK

-----------------------------------------------------------------------------
(* Closures, builds and layouts.                                           *)

\* A file is in its closure, and closures are transitive.
LEMMA ClosureFacts ==
    ASSUME NEW f \in File
    PROVE  /\ f \in Closure(f) /\ Closure(f) \subseteq File
           /\ \A g \in Closure(f) : Closure(g) \subseteq Closure(f)
  BY EpochAssumption DEF Closure

\* Who can be built can be built with what it requires.
LEMMA CanBuildFacts ==
    ASSUME NEW f \in File, CanBuild(f)
    PROVE  \A g \in Closure(f) : CanBuild(g) /\ source[g] # Gone
  BY ClosureFacts DEF CanBuild

\* What a build leaves in the artifacts.
Rebuilt(files) ==
    /\ \A g \in files : vo'[g] = [h \in Closure(g) |-> source'[h]]
    /\ \A g \in File \ files : vo'[g] = vo[g]

\* Artifacts after a build are artifacts.
LEMMA RebuiltFacts ==
    ASSUME TypeOK, VoOK, NEW files \in SUBSET File,
           source' \in [File -> Bytes], \A g \in files : \A h \in Closure(g) : source'[h] # Gone,
           vo' = [g \in File |-> IF g \in files THEN [h \in Closure(g) |-> source'[h]]
                                 ELSE vo[g]]
    PROVE  /\ vo' \in [File -> Artifacts] /\ VoOK' /\ Rebuilt(files)
           /\ \A g \in files : vo'[g] # Absent /\ vo'[g][g] = source'[g]
  <1>1. Rebuilt(files)
    BY DEF Rebuilt
  <1>2. ASSUME NEW g \in files
        PROVE  /\ vo'[g] \in [Closure(g) -> Text] /\ vo'[g] # Absent
               /\ vo'[g] \in Artifacts /\ vo'[g][g] = source'[g]
    <2>1. vo'[g] = [h \in Closure(g) |-> source'[h]]
      BY <1>1 DEF Rebuilt
    <2>2. g \in Closure(g) /\ Closure(g) \subseteq File
      BY ClosureFacts
    <2>3. \A h \in Closure(g) : source'[h] \in Text
      BY <2>2 DEF Bytes
    <2>4. vo'[g] \in [Closure(g) -> Text]
      BY <2>1, <2>3
    <2>5. Absent \notin [Closure(g) -> Text]
      BY EpochAssumption
    <2> QED
      BY <2>1, <2>2, <2>4, <2>5 DEF Artifacts
  <1>3. \A g \in File : vo'[g] \in Artifacts
    BY <1>1, <1>2 DEF Rebuilt, TypeOK
  <1>4. VoOK'
    BY <1>1, <1>2 DEF Rebuilt, VoOK
  <1> QED
    BY <1>1, <1>2, <1>3, <1>4

\* dune build of a set of files that can be built.
LEMMA BuiltFacts ==
    ASSUME TypeOK, VoOK, NEW files \in SUBSET File, \A g \in files : CanBuild(g),
           vo' = Built(files), source' = source
    PROVE  /\ vo' \in [File -> Artifacts] /\ VoOK' /\ Rebuilt(files)
           /\ \A g \in files : vo'[g] # Absent /\ vo'[g][g] = source[g]
  <1>1. \A g \in files : \A h \in Closure(g) : source'[h] # Gone
    BY DEF CanBuild
  <1>2. vo' = [g \in File |-> IF g \in files THEN [h \in Closure(g) |-> source'[h]]
                              ELSE vo[g]]
    BY DEF Built, Compiled
  <1>3. source' \in [File -> Bytes]
    BY DEF TypeOK
  <1> QED
    BY <1>1, <1>2, <1>3, RebuiltFacts

\* The rules whose source exists depend on the names of the sources only.
LEMMA ProbeDecides ==
    ASSUME NEW c \in Config, NEW d \in Config, NEW s \in [File -> Bytes],
           NEW t \in [File -> Bytes], ProbeOf(c, s) = ProbeOf(d, t)
    PROVE  LayoutOf(c, s) = LayoutOf(d, t)
  <1>1. c = d /\ \A f \in File : s[f] = Gone <=> t[f] = Gone
    BY DEF ProbeOf
  <1>2. CASE Rules[c] = Broken
    BY <1>1, <1>2 DEF LayoutOf
  <1>3. CASE Rules[c] # Broken
    <2>1. {x \in Rules[c] : s[x.file] # Gone} = {x \in Rules[c] : t[x.file] # Gone}
      BY <1>1, <1>3, EpochAssumption
    <2> QED
      BY <1>1, <1>3, <2>1 DEF LayoutOf
  <1> QED
    BY <1>2, <1>3

\* Whatever Dune describes is a layout.
LEMMA LayoutType ==
    ASSUME NEW c \in Config, NEW src \in [File -> Bytes] PROVE LayoutOf(c, src) \in Layouts
  BY DEF Layouts

\* The layout and the probe of one moment belong together.
LEMMA MomentFits ==
    ASSUME TypeOK
    PROVE  Fits(Probe, Layout) /\ Layout \in Layouts /\ Probe \in Probes
  <1>1. config \in Config /\ source \in [File -> Bytes]
    BY DEF TypeOK
  <1>2. Fits(Probe, Layout)
    BY <1>1, ProbeDecides DEF Fits, Probe, Layout
  <1>3. Layout \in Layouts
    BY <1>1 DEF Layout, Layouts
  <1>4. Probe \in Probes
    BY <1>1 DEF Probe, ProbeOf, Probes
  <1> QED
    BY <1>2, <1>3, <1>4

-----------------------------------------------------------------------------
(* Layouts and anchors: one lemma per action.                              *)

\* A project without a call.
LEMMA IdleFacts ==
    /\ Idle \in Calls /\ Idle.pc = "idle" /\ Idle.views = {} /\ Idle.probe = Absent
    /\ Idle.files = <<>> /\ Idle.todo = <<>> /\ Idle.layout = {} /\ Idle.late = {}
    /\ ~Idle.boundary
  <1>1. <<>> \in Seq(File) /\ {} \in Layouts /\ Absent \in Fingerprints /\ Absent \in Probes
    BY DEF Layouts, Fingerprints, Probes
  <1> QED
    BY <1>1 DEF Idle, Calls, Places

\* A step of the call that only moves on.
LEMMA GotoFacts ==
    ASSUME call \in Calls, NEW place \in Places, call' = [call EXCEPT !.pc = place]
    PROVE  /\ call' \in Calls /\ call'.pc = place /\ call'.files = call.files
           /\ call'.todo = call.todo /\ call'.boundary = call.boundary
           /\ call'.before = call.before /\ call'.probe = call.probe
           /\ call'.layout = call.layout /\ call'.views = call.views
           /\ call'.late = call.late
  BY DEF Calls

\* The call is answered.
LEMMA Answering ==
    ASSUME IInv, Answered, UNCHANGED <<known, layout, probe, slipped>>,
           TypeOK', VoOK', AnchorsMatch'
    PROVE  IInv'
  <1>1. call'.pc = "idle"
    BY IdleFacts DEF Answered
  <1>2. CallOK'
    BY <1>1 DEF CallOK
  <1>3. LayoutOK'
    BY <1>1 DEF IInv, LayoutOK, Fits, At
  <1>4. OwnedOK'
    BY <1>1 DEF OwnedOK
  <1> QED
    BY <1>2, <1>3, <1>4 DEF IInv

\* A step that leaves the layout, the sources and the Dune files alone.
LEMMA Working ==
    ASSUME IInv, UNCHANGED <<source, config, known, layout, probe, slipped>>,
           call'.views = call.views, call'.probe = call.probe,
           call.pc \in {"before", "build", "after", "finish", "open"},
           call'.pc \in {"before", "build", "after", "finish", "open", "record"}
    PROVE  LayoutOK'
  BY DEF IInv, LayoutOK, Fits, At

\* start asks Dune and takes the probe.
LEMMA AttachLoadIInv == ASSUME IInv, AttachLoad PROVE IInv'
  <1>0. TypeOK /\ UNCHANGED <<source, last, vo, config, edits, known, layout, probe, cache,
                              slipped, loaded, unseen, skipped>> /\ anchor' = Absent
    BY DEF IInv, AttachLoad, disk, sources, runtime, pet
  <1>a. VoOK' /\ AnchorsMatch'
    BY <1>0 DEF IInv, VoOK, AnchorsMatch
  <1>1. CASE Layout = Broken
    <2>1. Answered
      BY <1>1 DEF AttachLoad, Answered
    <2>2. TypeOK'
      BY <1>0, <2>1, IdleFacts DEF TypeOK, Answered
    <2> QED
      BY <1>0, <1>a, <2>1, <2>2, Answering
  <1>2. CASE Layout # Broken
    <2>1. call' = [Idle EXCEPT !.pc = "attach", !.layout = Layout, !.probe = Probe]
      BY <1>2 DEF AttachLoad
    <2>2. Layout \in Layouts /\ Probe \in Probes /\ Fits(Probe, Layout)
      BY <1>0, MomentFits
    <2>3. /\ call' \in Calls /\ call'.pc = "attach" /\ call'.layout = Layout
          /\ call'.probe = Probe
      BY <2>1, <2>2, IdleFacts DEF Calls, Places
    <2>4. TypeOK'
      BY <1>0, <2>3 DEF TypeOK
    <2>5. LayoutOK'
      BY <1>0, <2>2, <2>3 DEF IInv, LayoutOK, Fits, At
    <2> QED
      BY <1>a, <2>3, <2>4, <2>5 DEF IInv, CallOK, OwnedOK
  <1> QED
    BY <1>1, <1>2

\* A call at its start has seen the layout of the moment.
LEMMA Starting ==
    ASSUME IInv, call' = [Idle EXCEPT !.pc = "refresh", !.views = {Layout}],
           UNCHANGED <<source, config>>, known', known' /\ ~slipped' => Fits(probe, layout)'
    PROVE  call' \in Calls /\ CallOK' /\ LayoutOK' /\ OwnedOK'
  <1>1. Layout \in Layouts
    BY MomentFits DEF IInv
  <1>2. /\ call' \in Calls /\ call'.pc = "refresh" /\ call'.views = {Layout}
        /\ call'.probe = Absent
    BY <1>1, IdleFacts DEF Calls, Places
  <1>3. Layout' = Layout
    BY DEF Layout
  <1> QED
    BY <1>2, <1>3 DEF CallOK, LayoutOK, OwnedOK, At

\* A runtime that exists keeps its view; a new one takes that of the query.
LEMMA AttachProbeIInv == ASSUME IInv, AttachProbe PROVE IInv'
  <1>0. TypeOK /\ UNCHANGED <<source, last, vo, config, edits, loaded, unseen, skipped, anchor>>
        /\ known' = TRUE /\ At("attach")
    BY DEF IInv, AttachProbe, disk, sources, pet
  <1>1. /\ layout' \in Layouts /\ probe' \in Probes /\ slipped' \in BOOLEAN
        /\ cache' \in [File -> Fingerprints]
        /\ ~slipped' => Fits(probe, layout)'
    <2>1. CASE known
      BY <2>1 DEF AttachProbe, IInv, LayoutOK, Fits, TypeOK
    <2>2. CASE ~known
      <3>1. /\ layout' = call.layout /\ slipped' = (Probe # call.probe)
            /\ probe' = Probe /\ cache' = Nothing
        BY <2>2 DEF AttachProbe
      <3>2. Fits(call.probe, call.layout)
        BY <1>0 DEF IInv, LayoutOK
      <3>3. ~slipped' => Fits(probe, layout)'
        BY <3>1, <3>2 DEF Fits
      <3>4. cache' \in [File -> Fingerprints] /\ Probe \in Probes /\ call.layout \in Layouts
        BY <1>0, <3>1, MomentFits DEF Nothing, Fingerprints, TypeOK, Calls
      <3> QED
        BY <3>1, <3>3, <3>4
    <2> QED
      BY <2>1, <2>2
  <1>2. call' \in Calls /\ CallOK' /\ LayoutOK' /\ OwnedOK'
    BY <1>0, <1>1, Starting DEF AttachProbe
  <1>3. TypeOK'
    BY <1>0, <1>1, <1>2 DEF TypeOK
  <1> QED
    BY <1>0, <1>2, <1>3 DEF IInv, VoOK, AnchorsMatch

\* Any other call starts.
LEMMA AdmitIInv == ASSUME IInv, Admit PROVE IInv'
  <1>0. TypeOK /\ UNCHANGED <<source, last, vo, config, edits, known, layout, probe, cache,
                              slipped, loaded, unseen, skipped>>
        /\ anchor' = Absent /\ known
    BY DEF IInv, Admit, disk, sources, runtime, pet
  <1>1. known' /\ ~slipped' => Fits(probe, layout)'
    BY <1>0 DEF IInv, LayoutOK, Fits
  <1>2. call' \in Calls /\ CallOK' /\ LayoutOK' /\ OwnedOK'
    BY <1>0, <1>1, Starting DEF Admit
  <1>3. TypeOK'
    BY <1>0, <1>2 DEF TypeOK
  <1> QED
    BY <1>0, <1>2, <1>3 DEF IInv, VoOK, AnchorsMatch

\* A probe that did not change stands for its layout.
LEMMA RefreshProbeIInv == ASSUME IInv, RefreshProbe PROVE IInv'
  <1>0. TypeOK /\ UNCHANGED <<source, last, vo, config, edits, known, layout, probe, cache,
                              slipped, loaded, unseen, skipped, anchor>> /\ At("refresh")
    BY DEF IInv, RefreshProbe, disk, sources, runtime, pet
  <1>1. /\ Probe \in Probes /\ call \in Calls /\ known /\ Layout \in call.views
        /\ call.probe = Absent /\ (~slipped => Fits(probe, layout))
    BY <1>0, MomentFits DEF IInv, TypeOK, CallOK, LayoutOK, At
  <1>2. /\ call' \in Calls /\ call'.views = call.views /\ call'.pc \in {"plan", "load"}
        /\ call'.pc = "plan" => Probe = probe /\ call'.probe = Absent
    BY <1>1 DEF RefreshProbe, Calls, Places
  <1>3. TypeOK'
    BY <1>0, <1>2 DEF TypeOK
  <1>4. Layout' = Layout
    BY <1>0 DEF Layout
  <1>5. call'.pc = "plan" /\ ~slipped => layout = Layout
    BY <1>0, <1>1, <1>2 DEF Fits, Probe, Layout, TypeOK
  <1>6. LayoutOK'
    BY <1>0, <1>1, <1>2, <1>4, <1>5 DEF LayoutOK, Fits, At
  <1> QED
    BY <1>0, <1>1, <1>2, <1>3, <1>6 DEF IInv, CallOK, VoOK, OwnedOK, AnchorsMatch

\* Nothing loaded and nothing cached.
LEMMA NothingFacts == Nothing \in [File -> Fingerprints] /\ Nothing \in [File -> Artifacts]
  <1>1. Absent \in Fingerprints /\ Absent \in Artifacts
    BY Zenon DEF Fingerprints, Artifacts
  <1> QED
    BY <1>1 DEF Nothing

\* The layout that Dune describes now is kept with the probe taken before.
LEMMA RefreshLoadIInv == ASSUME IInv, RefreshLoad PROVE IInv'
  <1>0. TypeOK /\ UNCHANGED <<source, last, vo, config, edits, anchor>> /\ At("load")
        /\ call \in Calls /\ known /\ VoOK' /\ AnchorsMatch'
    BY DEF IInv, RefreshLoad, disk, sources, TypeOK, CallOK, At, VoOK, AnchorsMatch
  <1>1. CASE Answered /\ UNCHANGED <<runtime, pet>>
    <2>1. TypeOK'
      BY <1>0, <1>1, IdleFacts DEF TypeOK, Answered, runtime, pet
    <2> QED
      BY <1>0, <1>1, <2>1, Answering DEF runtime
  <1>2. CASE /\ layout' = Layout /\ probe' = call.probe /\ slipped' = (Probe # call.probe)
             /\ IF layout' = layout THEN UNCHANGED <<cache, pet>>
                ELSE cache' = Nothing /\ Restart
             /\ Goto("plan") /\ UNCHANGED known
    <2>1. call' \in Calls /\ call'.pc = "plan" /\ call'.views = call.views
      BY <1>0, <1>2, GotoFacts DEF Goto, Places
    <2>2. /\ Layout \in Layouts /\ Fits(Probe, Layout) /\ Layout \in call.views
          /\ call.probe \in Probes
      BY <1>0, MomentFits DEF IInv, LayoutOK, At, Calls
    <2>3. Layout' = Layout
      BY <1>0 DEF Layout
    <2>4. /\ cache' \in [File -> Fingerprints] /\ loaded' \in [File -> Artifacts]
          /\ unseen' \subseteq File /\ skipped' \in BOOLEAN
      BY <1>0, <1>2, NothingFacts DEF TypeOK, Restart, pet
    <2>5. TypeOK'
      BY <1>0, <1>2, <2>1, <2>2, <2>4 DEF TypeOK
    <2>6. LayoutOK'
      BY <1>2, <2>1, <2>2, <2>3 DEF LayoutOK, Fits, At
    <2> QED
      BY <1>0, <1>2, <2>1, <2>5, <2>6 DEF IInv, CallOK, OwnedOK
  <1> QED
    BY <1>1, <1>2 DEF RefreshLoad

\* The last session leaves.
LEMMA DetachIInv == ASSUME IInv, Detach PROVE IInv'
  <1>0. TypeOK /\ UNCHANGED <<source, last, vo, config, edits, layout, probe, cache, slipped,
                              call, anchor>> /\ At("idle") /\ ~known'
        /\ loaded' = Nothing /\ unseen' = {} /\ skipped' = FALSE
    BY DEF IInv, Detach, disk, sources, Restart
  <1>1. TypeOK'
    BY <1>0, NothingFacts DEF TypeOK, Detach
  <1>2. LayoutOK'
    BY <1>0 DEF LayoutOK, At
  <1> QED
    BY <1>0, <1>1, <1>2 DEF IInv, CallOK, VoOK, OwnedOK, AnchorsMatch, At

\* The call begins with nothing built.
LEMMA PlanIInv == ASSUME IInv, NEW files \in Seq(File), Plan(files) PROVE IInv'
  <1>0. TypeOK /\ UNCHANGED <<source, last, vo, config, edits, known, layout, probe, cache,
                              slipped, loaded, unseen, skipped, anchor>> /\ At("plan")
        /\ call \in Calls /\ VoOK' /\ AnchorsMatch'
    BY DEF IInv, Plan, disk, sources, runtime, pet, TypeOK, VoOK, AnchorsMatch
  <1>1. CASE files = <<>>
    <2>1. Answered
      BY <1>1 DEF Plan, Answered
    <2>2. TypeOK'
      BY <1>0, <2>1, IdleFacts DEF TypeOK, Answered
    <2> QED
      BY <1>0, <2>1, <2>2, Answering
  <1>2. CASE files # <<>>
    <2> DEFINE seen == call.views \cap {layout}
    <2>1. call' = [call EXCEPT !.pc = "before", !.files = files, !.todo = files,
                               !.views = seen]
      BY <1>2 DEF Plan
    <2>2. seen \subseteq Layouts /\ (layout \in call.views => layout \in seen)
      BY <1>0 DEF Calls
    <2> HIDE DEF seen
    <2>3. /\ call' \in Calls /\ call'.pc = "before" /\ call'.files = files
          /\ call'.todo = files /\ call'.views = seen /\ call'.probe = call.probe
      BY <1>0, <2>1, <2>2 DEF Calls, Places
    <2>4. TypeOK'
      BY <1>0, <2>3 DEF TypeOK
    <2>5. LayoutOK'
      BY <1>0, <2>2, <2>3 DEF IInv, LayoutOK, Fits, At
    <2>6. OwnedOK'
      BY <2>3 DEF OwnedOK, Owned
    <2>7. CallOK'
      BY <1>0, <1>2, <2>3 DEF IInv, CallOK, At
    <2> QED
      BY <1>0, <2>4, <2>5, <2>6, <2>7 DEF IInv
  <1> QED
    BY <1>1, <1>2

\* A call that was cancelled.
LEMMA CancelledIInv == ASSUME IInv, Cancelled PROVE IInv'
  <1>0. TypeOK /\ UNCHANGED <<source, last, vo, config, edits, known, layout, probe, cache,
                              slipped, anchor>> /\ call' = Idle
        /\ loaded' = Nothing /\ unseen' = {} /\ skipped' = FALSE /\ VoOK' /\ AnchorsMatch'
    BY DEF IInv, Cancelled, disk, sources, runtime, Restart, Answered, VoOK, AnchorsMatch
  <1>1. TypeOK'
    BY <1>0, NothingFacts, IdleFacts DEF TypeOK
  <1> QED
    BY <1>0, <1>1, Answering DEF Answered

\* The file that a call is at.
LEMMA CurrentFacts ==
    ASSUME IInv, call.pc \in {"before", "build", "after"}
    PROVE  /\ Current \in File /\ Tail(call.todo) \in Seq(File) /\ call \in Calls
           /\ ToSet(call.todo) \subseteq ToSet(Tail(call.todo)) \cup {Current}
           /\ ToSet(call.files) \subseteq File
  <1>1. call.todo \in Seq(File) /\ call.files \in Seq(File) /\ call.todo # <<>> /\ call \in Calls
    BY DEF IInv, TypeOK, CallOK, Calls
  <1>2. Head(call.todo) \in File /\ Tail(call.todo) \in Seq(File)
    BY <1>1
  <1>3. ASSUME NEW s \in ToSet(call.todo), s # Head(call.todo) PROVE s \in ToSet(Tail(call.todo))
    <2>1. PICK i \in DOMAIN call.todo : call.todo[i] = s
      BY <1>3 DEF ToSet
    <2>2. i \in 2..Len(call.todo)
      BY <1>1, <1>3, <2>1
    <2>3. /\ i - 1 \in 1..Len(Tail(call.todo)) /\ Tail(call.todo)[i - 1] = call.todo[i]
      BY <1>1, <2>2
    <2>4. i - 1 \in DOMAIN Tail(call.todo)
      BY <1>2, <2>3
    <2> QED
      BY <2>1, <2>3, <2>4 DEF ToSet
  <1>4. ToSet(call.files) \subseteq File
    BY <1>1 DEF ToSet
  <1> QED
    BY <1>1, <1>2, <1>3, <1>4 DEF Current

\* The fingerprint before the build.
LEMMA BeforeIInv == ASSUME IInv, Before PROVE IInv'
  <1>0. TypeOK /\ UNCHANGED <<source, last, vo, config, edits, known, layout, probe, cache,
                              slipped, anchor>> /\ At("before")
        /\ VoOK' /\ AnchorsMatch'
    BY DEF IInv, Before, disk, sources, runtime, VoOK, AnchorsMatch
  <1>1. CASE /\ skipped' = (skipped \/ call.boundary) /\ Answered
             /\ UNCHANGED <<loaded, unseen>>
    <2>1. TypeOK'
      BY <1>0, <1>1, IdleFacts DEF TypeOK, Answered, Calls
    <2> QED
      BY <1>0, <1>1, <2>1, Answering
  <1>2. CASE /\ source[Current] # Gone
             /\ call' = [call EXCEPT !.pc = "build", !.before = Fingerprint(Current)]
             /\ UNCHANGED pet
    <2>1. Fingerprint(Current) \in Fingerprints /\ call \in Calls
      BY <1>0, CurrentFacts DEF Fingerprint, Fingerprints, TypeOK, At
    <2>2. /\ call' \in Calls /\ call'.pc = "build" /\ call'.files = call.files
          /\ call'.todo = call.todo /\ call'.views = call.views /\ call'.probe = call.probe
          /\ call'.late = call.late
      BY <1>2, <2>1 DEF Calls, Places
    <2>3. TypeOK'
      BY <1>0, <1>2, <2>2 DEF TypeOK, pet
    <2>4. CallOK' /\ OwnedOK'
      BY <1>0, <2>2 DEF IInv, CallOK, OwnedOK, Owned, At
    <2>5. LayoutOK'
      BY <1>0, <2>2, Working DEF At
    <2> QED
      BY <1>0, <2>3, <2>4, <2>5 DEF IInv
  <1> QED
    BY <1>1, <1>2 DEF Before

\* The files a build of f brings up to date.
LEMMA BuildFacts ==
    ASSUME IInv, NEW f \in File, CanBuild(f), vo' = Built(Closure(f)), UNCHANGED source
    PROVE  /\ vo' \in [File -> Artifacts] /\ VoOK' /\ Rebuilt(Closure(f))
           /\ \A g \in Closure(f) : vo'[g] # Absent /\ vo'[g][g] = source[g]
           /\ \A g \in File : vo[g] # Absent /\ vo[g][g] = source[g] =>
                                 vo'[g] # Absent /\ vo'[g][g] = source[g]
  <1>1. Closure(f) \subseteq File /\ \A g \in Closure(f) : CanBuild(g)
    BY ClosureFacts, CanBuildFacts
  <1>2. /\ vo' \in [File -> Artifacts] /\ VoOK' /\ Rebuilt(Closure(f))
        /\ \A g \in Closure(f) : vo'[g] # Absent /\ vo'[g][g] = source[g]
    BY <1>1, BuiltFacts DEF IInv
  <1> QED
    BY <1>2 DEF Rebuilt

\* The file of the call is built, with all that it requires.
LEMMA BuildSucceedsIInv == ASSUME IInv, BuildSucceeds PROVE IInv'
  <1>0. TypeOK /\ UNCHANGED <<source, last, config, edits, known, layout, probe, cache,
                              slipped, loaded, skipped, anchor>> /\ At("build")
        /\ AnchorsMatch'
    BY DEF IInv, BuildSucceeds, sources, runtime, AnchorsMatch
  <1>1. Current \in File /\ call \in Calls /\ ToSet(call.files) \subseteq File
    BY <1>0, CurrentFacts DEF At
  <1>2. /\ call' \in Calls /\ call'.pc = "after" /\ call'.files = call.files
        /\ call'.todo = call.todo /\ call'.views = call.views /\ call'.probe = call.probe
        /\ call'.late = call.late
    BY <1>1, GotoFacts DEF BuildSucceeds, Goto, Places
  <1>3. /\ vo' \in [File -> Artifacts] /\ VoOK'
        /\ vo'[Current] # Absent /\ vo'[Current][Current] = source[Current]
        /\ \A g \in File : vo[g] # Absent /\ vo[g][g] = source[g] =>
                              vo'[g] # Absent /\ vo'[g][g] = source[g]
    BY <1>0, <1>1, BuildFacts, ClosureFacts DEF BuildSucceeds
  <1>4. TypeOK'
    BY <1>0, <1>2, <1>3 DEF TypeOK, BuildSucceeds, Replaced
  <1>5. OwnedOK'
    <2>1. Owned' = (ToSet(call.files) \ ToSet(call.todo)) \cup {Current}
      BY <1>2 DEF Owned, Current, At
    <2>2. Owned = ToSet(call.files) \ ToSet(call.todo)
      BY <1>0 DEF Owned, At
    <2>3. \A f \in Owned \ call.late : vo[f] # Absent /\ vo[f][f] = source[f]
      BY <1>0 DEF IInv, OwnedOK, At
    <2> QED
      BY <1>0, <1>1, <1>2, <1>3, <2>1, <2>2, <2>3 DEF OwnedOK
  <1>6. LayoutOK'
    BY <1>0, <1>2, Working DEF At
  <1>7. CallOK'
    BY <1>0, <1>2 DEF IInv, CallOK, At
  <1> QED
    BY <1>0, <1>3, <1>4, <1>5, <1>6, <1>7 DEF IInv

\* What a failed build leaves.
LEMMA PartialFacts ==
    ASSUME IInv, NEW f \in File, NEW files \in Partial(f), vo' = Built(files),
           UNCHANGED source
    PROVE  /\ vo' \in [File -> Artifacts] /\ VoOK' /\ Rebuilt(files)
           /\ files \subseteq File /\ \A g \in files : CanBuild(g) /\ Closure(g) \subseteq files
  <1>1. /\ files \subseteq File
        /\ \A g \in files : CanBuild(g) /\ Closure(g) \subseteq files
    BY EpochAssumption DEF Partial, Closure
  <1> QED
    BY <1>1, BuiltFacts DEF IInv

\* An error of the build.
LEMMA BuildFailsIInv == ASSUME IInv, BuildFails PROVE IInv'
  <1>0. TypeOK /\ UNCHANGED <<source, last, config, edits, known, layout, probe,
                              slipped, anchor>> /\ call' = Idle
        /\ loaded' = Nothing /\ unseen' = {} /\ skipped' = FALSE /\ AnchorsMatch'
    BY DEF IInv, BuildFails, sources, Restart, Answered, AnchorsMatch
  <1>1. Current \in File
    BY CurrentFacts DEF BuildFails, At
  <1>2. vo' \in [File -> Artifacts] /\ VoOK'
    <2>1. CASE \E files \in Partial(Current) : vo' = Built(files)
      BY <1>0, <1>1, <2>1, PartialFacts
    <2>2. CASE UNCHANGED vo
      BY <1>0, <2>2 DEF TypeOK, IInv, VoOK
    <2> QED
      BY <2>1, <2>2 DEF BuildFails
  <1>3. cache' \in [File -> Fingerprints]
    BY <1>0 DEF BuildFails, Forget, TypeOK, Fingerprints
  <1>4. TypeOK'
    BY <1>0, <1>2, <1>3, NothingFacts, IdleFacts DEF TypeOK
  <1> QED
    BY <1>0, <1>2, <1>4, Answering DEF Answered

\* The call goes on with the next file.
LEMMA CompareIInv == ASSUME IInv, Compare PROVE IInv'
  <1>0. TypeOK /\ UNCHANGED <<source, last, vo, config, edits, known, layout, probe,
                              slipped, loaded, unseen, skipped, anchor>> /\ At("after")
        /\ VoOK' /\ AnchorsMatch'
    BY DEF IInv, Compare, disk, sources, pet, VoOK, AnchorsMatch
  <1>1. /\ Current \in File /\ call \in Calls /\ Tail(call.todo) \in Seq(File)
        /\ ToSet(call.todo) \subseteq ToSet(Tail(call.todo)) \cup {Current}
    BY <1>0, CurrentFacts DEF At
  <1>2. Fingerprint(Current) \in Fingerprints
    BY <1>0, <1>1 DEF Fingerprint, Fingerprints, TypeOK
  <1>3. cache' \in [File -> Fingerprints]
    BY <1>0, <1>2 DEF Compare, Record, TypeOK
  <1> DEFINE rest == Tail(call.todo)
             place == IF rest = <<>> THEN "finish" ELSE "before"
             bound == call.boundary \/ Boundary(Fingerprint(Current))
  <1>4. call' = [call EXCEPT !.boundary = bound, !.todo = rest, !.before = Absent, !.pc = place]
    BY <1>1 DEF Compare, Calls
  <1>5. /\ place \in {"finish", "before"} /\ (place = "before" => rest # <<>>)
        /\ (place = "finish" => rest = <<>>)
        /\ rest \in Seq(File) /\ bound \in BOOLEAN /\ Absent \in Fingerprints
    BY <1>1 DEF Calls, Boundary, Fingerprints
  <1> HIDE DEF rest, place, bound
  <1>6. /\ call' \in Calls /\ call'.pc = place /\ call'.todo = rest /\ call'.files = call.files
        /\ call'.views = call.views /\ call'.probe = call.probe /\ call'.late = call.late
    BY <1>1, <1>4, <1>5 DEF Calls, Places
  <1>7. TypeOK'
    BY <1>0, <1>3, <1>6 DEF TypeOK
  <1>8. OwnedOK'
    <2>1. Owned = (ToSet(call.files) \ ToSet(call.todo)) \cup {Current}
      BY <1>0 DEF Owned, At
    <2>2. ToSet(<<>>) = {}
      BY DEF ToSet
    <2>3. Owned' \subseteq Owned
      BY <1>1, <1>5, <1>6, <2>1, <2>2 DEF Owned, rest, At
    <2>4. \A f \in Owned \ call.late : vo[f] # Absent /\ vo[f][f] = source[f]
      BY <1>0 DEF IInv, OwnedOK, At
    <2> QED
      BY <1>0, <1>6, <2>3, <2>4 DEF OwnedOK
  <1>9. LayoutOK'
    BY <1>0, <1>5, <1>6, Working DEF At
  <1>10. CallOK'
    BY <1>0, <1>5, <1>6 DEF IInv, CallOK, At
  <1> QED
    BY <1>0, <1>7, <1>8, <1>9, <1>10 DEF IInv

\* At most one epoch for the list.
LEMMA FinishIInv == ASSUME IInv, Finish PROVE IInv'
  <1>0. TypeOK /\ UNCHANGED <<source, last, vo, config, edits, known, layout, probe, cache,
                              slipped, anchor>> /\ At("finish") /\ call \in Calls
        /\ VoOK' /\ AnchorsMatch'
    BY DEF IInv, Finish, disk, sources, runtime, TypeOK, VoOK, AnchorsMatch
  <1>1. /\ call' \in Calls /\ call'.pc = "open" /\ call'.files = call.files
        /\ call'.views = call.views /\ call'.probe = call.probe /\ call'.late = call.late
    BY <1>0, GotoFacts DEF Finish, Goto, Places
  <1>2. /\ loaded' \in [File -> Artifacts] /\ unseen' \subseteq File /\ skipped' \in BOOLEAN
    BY <1>0, NothingFacts DEF Finish, Restart, TypeOK, pet
  <1>3. TypeOK'
    BY <1>0, <1>1, <1>2 DEF TypeOK
  <1>4. LayoutOK'
    BY <1>0, <1>1, Working DEF At
  <1>5. CallOK' /\ OwnedOK'
    BY <1>0, <1>1 DEF IInv, CallOK, OwnedOK, Owned, At
  <1> QED
    BY <1>0, <1>3, <1>4, <1>5 DEF IInv

\* The digest is that of the bytes PET has parsed.
LEMMA OpenIInv == ASSUME IInv, Open PROVE IInv'
  <1>0. TypeOK /\ UNCHANGED <<source, last, vo, config, edits, known, layout, probe, cache,
                              slipped, unseen, skipped>> /\ At("open") /\ call' = Idle
        /\ VoOK' /\ call \in Calls
    BY DEF IInv, Open, disk, sources, runtime, Answered, VoOK, TypeOK
  <1>1. PICK n \in 1..Len(call.files) :
          /\ loaded' = [g \in File |->
                          IF loaded[g] = Absent
                             /\ \E f \in ToSet(SubSeq(call.files, 1, n)) : g \in Closure(f)
                          THEN vo[g] ELSE loaded[g]]
          /\ \E f \in ToSet(SubSeq(call.files, 1, n)) : AnchorTo(f)
    BY DEF Open
  <1>2. ToSet(SubSeq(call.files, 1, n)) \subseteq ToSet(call.files)
    <2>1. call.files \in Seq(File) /\ n \in 1..Len(call.files)
      BY <1>0 DEF Calls
    <2>2. Len(SubSeq(call.files, 1, n)) = n /\ SubSeq(call.files, 1, n) \in Seq(File)
      BY <2>1
    <2>3. \A i \in 1..n : SubSeq(call.files, 1, n)[i] = call.files[i] /\ i \in 1..Len(call.files)
      BY <2>1
    <2>4. DOMAIN SubSeq(call.files, 1, n) = 1..n /\ DOMAIN call.files = 1..Len(call.files)
      BY <2>1, <2>2
    <2> QED
      BY <2>3, <2>4 DEF ToSet
  <1>3. PICK f \in ToSet(call.files) : AnchorTo(f)
    BY <1>1, <1>2
  <1>4. AnchorsMatch'
    <2>1. f \in Owned /\ (f \notin call.late => vo[f][f] = source[f])
      BY <1>0, <1>3 DEF IInv, OwnedOK, Owned, At
    <2> QED
      BY <1>0, <1>3, <2>1 DEF AnchorTo, AnchorsMatch
  <1>5. loaded' \in [File -> Artifacts]
    BY <1>0, <1>1 DEF TypeOK
  <1>6. TypeOK'
    BY <1>0, <1>5, IdleFacts DEF TypeOK
  <1> QED
    BY <1>0, <1>4, <1>6, Answering DEF Answered

\* A new epoch in which one file is open.
LEMMA RestartWithFacts ==
    ASSUME vo' \in [File -> Artifacts], NEW f \in File, RestartWith(f)
    PROVE  loaded' \in [File -> Artifacts] /\ unseen' = {} /\ skipped' = FALSE
  <1>1. Absent \in Artifacts
    BY DEF Artifacts
  <1> QED
    BY <1>1 DEF RestartWith

\* The call has one file left, and its fingerprint to record.
LEMMA RecordingFacts ==
    ASSUME call \in Calls, NEW f \in File,
           call' = [call EXCEPT !.pc = "record", !.files = <<f>>]
    PROVE  call' \in Calls /\ call'.pc = "record" /\ call'.files = <<f>>
  <1>1. <<f>> \in Seq(File)
    OBVIOUS
  <1> QED
    BY <1>1 DEF Calls, Places

\* The epoch of an audit or a publication, and what is left to do.
LEMMA Recording ==
    ASSUME IInv, NEW f \in File, call.pc \in {"plan", "open"},
           call' = [call EXCEPT !.pc = "record", !.files = <<f>>],
           UNCHANGED <<known, layout, probe, slipped>>, TypeOK', VoOK', AnchorsMatch'
    PROVE  IInv'
  <1>0. call'.pc = "record" /\ call'.files = <<f>>
    BY RecordingFacts DEF IInv, TypeOK
  <1>1. call'.pc = "record" /\ call'.files # <<>>
    BY <1>0
  <1>2. LayoutOK'
    BY <1>1 DEF IInv, LayoutOK, Fits, At
  <1>3. CallOK' /\ OwnedOK'
    BY <1>1 DEF IInv, CallOK, OwnedOK
  <1> QED
    BY <1>2, <1>3 DEF IInv

\* prove on a finished proof.
LEMMA AuditIInv == ASSUME IInv, Audit PROVE IInv'
  <1> DEFINE f == Head(call.files)
  <1>0. TypeOK /\ UNCHANGED <<source, last, config, edits, known, layout, probe, cache,
                              slipped, anchor>> /\ At("open") /\ call \in Calls
        /\ AnchorsMatch'
    BY DEF IInv, Audit, sources, runtime, TypeOK, AnchorsMatch
  <1>1. f \in File
    <2>1. call.files \in Seq(File) /\ call.files # <<>>
      BY <1>0 DEF IInv, CallOK, Calls, At
    <2> QED
      BY <2>1
  <1>2. \/ /\ CanBuild(f) /\ vo' = Built(Closure(f)) /\ RestartWith(f)
           /\ call' \in {Idle, [call EXCEPT !.pc = "record", !.files = <<f>>]}
        \/ /\ \E files \in Partial(f) : vo' = Built(files)
           /\ Restart /\ Answered
    BY DEF Audit
  <1> HIDE DEF f
  <1>3. vo' \in [File -> Artifacts] /\ VoOK'
    BY <1>0, <1>1, <1>2, BuildFacts, PartialFacts
  <1>4. loaded' \in [File -> Artifacts] /\ unseen' = {} /\ skipped' = FALSE
    BY <1>1, <1>2, <1>3, RestartWithFacts, NothingFacts DEF Restart
  <1>5. call' = Idle \/ call' = [call EXCEPT !.pc = "record", !.files = <<f>>]
    BY <1>2 DEF Answered
  <1>6. TypeOK'
    BY <1>0, <1>1, <1>3, <1>4, <1>5, RecordingFacts, IdleFacts DEF TypeOK
  <1> QED
    BY <1>0, <1>1, <1>3, <1>5, <1>6, Answering, Recording DEF Answered, At

\* check publishes a proof.
LEMMA PublishIInv ==
    ASSUME IInv, NEW f \in File, NEW text \in Text, Publish(f, text) PROVE IInv'
  <1>0. TypeOK /\ UNCHANGED <<config, known, layout, probe, slipped, anchor>> /\ At("plan")
        /\ call \in Calls /\ AnchorsMatch' /\ CanBuild(f) /\ edits' \in 0..MaxEdits
    BY EpochAssumption DEF IInv, Publish, TypeOK, AnchorsMatch
  <1>a. Closure(f) \subseteq File /\ \A g \in Closure(f) : CanBuild(g)
    BY <1>0, ClosureFacts, CanBuildFacts
  <1>1. CASE /\ source' = [source EXCEPT ![f] = text]
             /\ last' = [last EXCEPT ![f] = text]
             /\ vo' = [g \in File |-> IF g \in Closure(f)
                                      THEN [h \in Closure(g) |-> source'[h]] ELSE vo[g]]
             /\ RestartWith(f)
             /\ call' = [call EXCEPT !.pc = "record", !.files = <<f>>]
             /\ UNCHANGED cache
    <2>1. source' \in [File -> Bytes] /\ last' \in [File -> Text]
      BY <1>0, <1>1 DEF TypeOK, Bytes
    <2>2. \A g \in Closure(f) : \A h \in Closure(g) : source'[h] # Gone
      <3> SUFFICES ASSUME NEW g \in Closure(f), NEW h \in Closure(g) PROVE source'[h] # Gone
        OBVIOUS
      <3>1. h \in File /\ source[h] # Gone
        BY <1>a, ClosureFacts DEF CanBuild
      <3>2. text # Gone
        BY EpochAssumption
      <3> QED
        BY <1>0, <1>1, <3>1, <3>2 DEF TypeOK
    <2>3. vo' \in [File -> Artifacts] /\ VoOK'
      BY <1>0, <1>a, <1>1, <2>1, <2>2, RebuiltFacts DEF IInv
    <2>4. loaded' \in [File -> Artifacts] /\ unseen' = {} /\ skipped' = FALSE
      BY <1>1, <2>3, RestartWithFacts
    <2>5. TypeOK'
      BY <1>0, <1>1, <2>1, <2>3, <2>4, RecordingFacts DEF TypeOK
    <2> QED
      BY <1>0, <1>1, <2>3, <2>5, Recording DEF At
  <1>2. CASE /\ UNCHANGED sources
             /\ \E files \in Partial(f) \cup {Closure(f)} : vo' = Built(files)
             /\ Forget(f) /\ Restart /\ Answered
    <2>1. vo' \in [File -> Artifacts] /\ VoOK'
      BY <1>0, <1>2, BuildFacts, PartialFacts DEF sources
    <2>2. cache' \in [File -> Fingerprints]
      BY <1>0, <1>2 DEF Forget, TypeOK, Fingerprints
    <2>3. TypeOK'
      BY <1>0, <1>2, <2>1, <2>2, NothingFacts, IdleFacts
         DEF TypeOK, sources, Restart, Answered
    <2> QED
      BY <1>0, <1>2, <2>1, <2>3, Answering
  <1> QED
    BY <1>1, <1>2 DEF Publish

\* The fingerprint after an audit or a publication.
LEMMA RecordAuditedIInv == ASSUME IInv, RecordAudited PROVE IInv'
  <1>0. TypeOK /\ UNCHANGED <<source, last, vo, config, edits, known, layout, probe,
                              slipped, loaded, unseen, skipped, anchor>>
        /\ call' = Idle /\ VoOK' /\ AnchorsMatch'
    BY DEF IInv, RecordAudited, disk, sources, pet, Answered, VoOK, AnchorsMatch
  <1>1. Head(call.files) \in File
    <2>1. call.files \in Seq(File) /\ call.files # <<>>
      BY DEF IInv, CallOK, TypeOK, Calls, RecordAudited, At
    <2> QED
      BY <2>1
  <1>2. Fingerprint(Head(call.files)) \in Fingerprints /\ Absent \in Fingerprints
    BY <1>0, <1>1 DEF Fingerprint, Fingerprints, TypeOK
  <1>3. cache' \in [File -> Fingerprints]
    BY <1>0, <1>2 DEF RecordAudited, Record, Forget, TypeOK
  <1>4. TypeOK'
    BY <1>0, <1>3, IdleFacts DEF TypeOK
  <1> QED
    BY <1>0, <1>4, Answering DEF Answered

\* The files of a call are files.
LEMMA OwnedFacts ==
    ASSUME IInv, call.pc \in {"before", "build", "after", "finish", "open"}
    PROVE  Owned \subseteq File
  <1>1. call.files \in Seq(File)
    BY DEF IInv, TypeOK, Calls
  <1>2. ToSet(call.files) \subseteq File
    BY <1>1 DEF ToSet
  <1>3. At("after") => Current \in File
    BY CurrentFacts DEF At
  <1> QED
    BY <1>2, <1>3 DEF Owned

\* A call sees every layout until it uses one.
LEMMA Seeing ==
    ASSUME IInv, UNCHANGED <<known, layout, probe, slipped>>, TypeOK',
           NEW late \in SUBSET File,
           call' = [call EXCEPT !.late = late, !.views = Seen(Layout')]
    PROVE  /\ call'.pc = call.pc /\ call'.files = call.files /\ call'.todo = call.todo
           /\ call'.late = late /\ CallOK' /\ LayoutOK'
  <1>1. call \in Calls /\ Seen(Layout') \subseteq call.views \cup {Layout'}
    BY DEF IInv, TypeOK, Seen
  <1>2. /\ call'.pc = call.pc /\ call'.files = call.files /\ call'.todo = call.todo
        /\ call'.late = late /\ call'.probe = call.probe /\ call'.layout = call.layout
        /\ call'.views = Seen(Layout')
    BY <1>1 DEF Calls
  <1>3. /\ call.views \subseteq Seen(Layout')
        /\ call.pc \in {"refresh", "load", "plan"} => Layout' \in Seen(Layout')
    BY DEF Seen
  <1>4. LayoutOK'
    BY <1>2, <1>3 DEF IInv, LayoutOK, Fits, At
  <1>5. CallOK'
    BY <1>2 DEF IInv, CallOK
  <1> QED
    BY <1>2, <1>4, <1>5

\* The type of such a call.
LEMMA SeeingType ==
    ASSUME call \in Calls, NEW late \in SUBSET File, NEW l \in Layouts,
           call' = [call EXCEPT !.late = late, !.views = Seen(l)]
    PROVE  call' \in Calls
  <1>1. Seen(l) \subseteq Layouts
    BY DEF Seen, Calls
  <1> QED
    BY <1>1 DEF Calls

\* An editor writes or removes a source.
LEMMA EditIInv ==
    ASSUME IInv, NEW f \in File, NEW text \in Text \cup {Gone}, Edit(f, text) PROVE IInv'
  <1> DEFINE late == IF f \in Owned THEN call.late \cup {f} ELSE call.late
  <1>0. TypeOK /\ UNCHANGED <<vo, config, known, layout, probe, cache, slipped, loaded,
                              unseen, skipped, anchor>>
        /\ call \in Calls /\ VoOK' /\ AnchorsMatch' /\ edits' \in 0..MaxEdits
        /\ source' = [source EXCEPT ![f] = text]
        /\ source' \in [File -> Bytes] /\ last' \in [File -> Text]
    BY EpochAssumption DEF IInv, Edit, runtime, pet, TypeOK, VoOK, AnchorsMatch, Bytes
  <1>1. call' = [call EXCEPT !.late = late, !.views = Seen(Layout')]
    BY <1>0 DEF Edit, Calls, Layout
  <1>2. late \in SUBSET File /\ Layout' \in Layouts
    <2>1. late \in SUBSET File
      BY <1>0 DEF Calls
    <2>2. /\ config \in Config /\ source' \in [File -> Bytes]
          /\ Layout' = LayoutOf(config, source')
      BY <1>0 DEF Layout, TypeOK
    <2>3. Layout' \in Layouts
      BY <2>2, LayoutType
    <2> QED
      BY <2>1, <2>3
  <1>3. call.late \subseteq late /\ (f \in Owned => f \in late)
    OBVIOUS
  <1> HIDE DEF late
  <1>4. TypeOK'
    BY <1>0, <1>1, <1>2, SeeingType DEF TypeOK
  <1>5. /\ call'.pc = call.pc /\ call'.files = call.files /\ call'.todo = call.todo
        /\ call'.late = late /\ CallOK' /\ LayoutOK'
    BY <1>0, <1>1, <1>2, <1>4, Seeing
  <1>6. OwnedOK'
    <2>1. Owned' = Owned
      BY <1>5 DEF Owned, Current, At
    <2>2. SUFFICES ASSUME call.pc \in {"before", "build", "after", "finish", "open"},
                          NEW g \in Owned \ late
                   PROVE  vo'[g] # Absent /\ vo'[g][g] = source'[g]
      BY <1>5, <2>1 DEF OwnedOK
    <2>3. g # f /\ g \in File /\ g \notin call.late
      BY <1>3, <2>2, OwnedFacts
    <2>4. vo[g] # Absent /\ vo[g][g] = source[g]
      BY <2>2, <2>3 DEF IInv, OwnedOK
    <2> QED
      BY <1>0, <2>3, <2>4 DEF TypeOK
  <1> QED
    BY <1>0, <1>4, <1>5, <1>6 DEF IInv

\* An editor writes a Dune file.
LEMMA EditDuneFilesIInv == ASSUME IInv, NEW c \in Config, EditDuneFiles(c) PROVE IInv'
  <1>0. TypeOK /\ UNCHANGED <<source, last, vo, known, layout, probe, cache, slipped, loaded,
                              unseen, skipped, anchor>>
        /\ call \in Calls /\ VoOK' /\ AnchorsMatch' /\ edits' \in 0..MaxEdits /\ config' = c
    BY EpochAssumption DEF IInv, EditDuneFiles, sources, runtime, pet, TypeOK, VoOK, AnchorsMatch
  <1>1. call' = [call EXCEPT !.late = call.late, !.views = Seen(Layout')]
    BY <1>0 DEF EditDuneFiles, Calls, Layout
  <1>2. call.late \in SUBSET File /\ Layout' \in Layouts
    BY <1>0 DEF Calls, Layout, Layouts, TypeOK
  <1>3. TypeOK'
    BY <1>0, <1>1, <1>2, SeeingType DEF TypeOK
  <1>4. /\ call'.pc = call.pc /\ call'.files = call.files /\ call'.todo = call.todo
        /\ call'.late = call.late /\ CallOK' /\ LayoutOK'
    BY <1>0, <1>1, <1>2, <1>3, Seeing
  <1>5. OwnedOK'
    BY <1>0, <1>4 DEF IInv, OwnedOK, Owned, Current, At
  <1> QED
    BY <1>0, <1>3, <1>4, <1>5 DEF IInv

\* A build outside the server.
LEMMA ForeignBuildIInv == ASSUME IInv, NEW f \in File, ForeignBuild(f) PROVE IInv'
  <1>0. TypeOK /\ UNCHANGED <<source, last, config, edits, known, layout, probe, cache,
                              slipped, loaded, skipped, call, anchor>> /\ AnchorsMatch'
    BY DEF IInv, ForeignBuild, sources, runtime, AnchorsMatch
  <1>1. /\ vo' \in [File -> Artifacts] /\ VoOK'
        /\ \A g \in File : vo[g] # Absent /\ vo[g][g] = source[g] =>
                              vo'[g] # Absent /\ vo'[g][g] = source[g]
    BY <1>0, BuildFacts DEF ForeignBuild
  <1>2. TypeOK'
    BY <1>0, <1>1 DEF TypeOK, ForeignBuild, Replaced
  <1>3. LayoutOK' /\ CallOK'
    BY <1>0 DEF IInv, LayoutOK, CallOK, Fits, Layout, At
  <1>4. OwnedOK'
    BY <1>0, <1>1, OwnedFacts DEF IInv, OwnedOK, Owned, Current, At
  <1> QED
    BY <1>0, <1>1, <1>2, <1>3, <1>4 DEF IInv

\* Before the first call.
LEMMA InitIInv == Init => IInv
  <1> SUFFICES ASSUME Init PROVE IInv
    OBVIOUS
  <1>1. 0 \in Text /\ 0 \in Bytes /\ Gone # 0
    BY EpochAssumption DEF Text, Bytes
  <1>2. source \in [File -> Bytes] /\ last \in [File -> Text]
    BY <1>1 DEF Init
  <1>3. ASSUME NEW f \in File
        PROVE  Compiled(f) \in [Closure(f) -> Text] /\ Compiled(f) \in Artifacts
    <2>1. Compiled(f) \in [Closure(f) -> Text]
      BY <1>1, ClosureFacts DEF Init, Compiled
    <2> QED
      BY <2>1 DEF Artifacts
  <1>4. Absent \in Artifacts
    BY DEF Artifacts
  <1>5. vo \in [File -> Artifacts] /\ VoOK
    BY <1>3, <1>4 DEF Init, VoOK
  <1>6. config \in Config /\ {} \in Layouts /\ Absent \in Probes
    <2>1. 0 \in Config
      BY EpochAssumption
    <2> QED
      BY <2>1 DEF Init, Layouts, Probes
  <1>7. TypeOK
    <2>1. edits \in 0..MaxEdits
      BY EpochAssumption DEF Init
    <2>2. /\ known \in BOOLEAN /\ slipped \in BOOLEAN /\ skipped \in BOOLEAN
          /\ unseen \subseteq File /\ layout \in Layouts /\ probe \in Probes
      BY <1>6 DEF Init
    <2>3. /\ cache \in [File -> Fingerprints] /\ loaded \in [File -> Artifacts]
          /\ call \in Calls
      BY NothingFacts, IdleFacts DEF Init
    <2> QED
      BY <1>2, <1>5, <1>6, <2>1, <2>2, <2>3 DEF TypeOK
  <1>8. CallOK /\ LayoutOK /\ OwnedOK /\ AnchorsMatch
    BY IdleFacts DEF Init, CallOK, LayoutOK, OwnedOK, AnchorsMatch, At
  <1> QED
    BY <1>5, <1>7, <1>8 DEF IInv

\* No step of anybody breaks it.
LEMMA NextIInv == IInv /\ [Next]_vars => IInv'
  <1> SUFFICES ASSUME IInv, [Next]_vars PROVE IInv'
    OBVIOUS
  <1>1. CASE UNCHANGED vars
    BY <1>1 DEF vars, disk, sources, runtime, pet, IInv, TypeOK, CallOK, VoOK, LayoutOK, Fits,
       OwnedOK, Owned, Current, AnchorsMatch, Layout, At
  <1>2. CASE \E n \in 0..MaxFiles : \E files \in [1..n -> File] : IsInjective(files) /\ Plan(files)
    <2>1. PICK n \in 0..MaxFiles : \E files \in [1..n -> File] : Plan(files)
      BY <1>2
    <2>2. PICK files \in [1..n -> File] : Plan(files)
      BY <2>1
    <2>3. files \in Seq(File)
      BY <2>1, EpochAssumption
    <2> QED
      BY <2>2, <2>3, PlanIInv
  <1> QED
    BY <1>1, <1>2, AttachLoadIInv, AttachProbeIInv, AdmitIInv, RefreshProbeIInv,
       RefreshLoadIInv, DetachIInv, CancelledIInv, BeforeIInv, BuildSucceedsIInv,
       BuildFailsIInv, CompareIInv, FinishIInv, OpenIInv, AuditIInv, RecordAuditedIInv,
       PublishIInv, ForeignBuildIInv, EditIInv, EditDuneFilesIInv DEF Next

\* The parts of the invariant hold in every reachable state.
LEMMA Reachable == Spec => []IInv
  BY InitIInv, NextIInv, PTL DEF Spec

\* Disk, runtime, PET and call stay in their types.
THEOREM TypeCorrect == Spec => []TypeOK
  <1>1. IInv => TypeOK
    BY DEF IInv
  <1> QED
    BY <1>1, Reachable, PTL

\* The layout that serves a call is one that the Dune files described between
\* its admission and its use, whatever refresh_project() and edits do, reverted
\* ones included; only a call that did not ask Dune itself may be served a
\* layout whose own query and probe an edit had parted.
THEOREM LayoutCorrect == Spec => []ServedLayoutIsFresh
  <1>1. IInv => ServedLayoutIsFresh
    BY DEF IInv, LayoutOK, ServedLayoutIsFresh
  <1> QED
    BY <1>1, Reachable, PTL

\* The ranges of a declaration come from the bytes whose digest anchors it,
\* unless the source was edited after its build and before it was opened.
THEOREM AnchorsCorrect == Spec => []AnchorsMatch
  <1>1. IInv => AnchorsMatch
    BY DEF IInv
  <1> QED
    BY <1>1, Reachable, PTL

-----------------------------------------------------------------------------
(* Epochs.                                                                 *)

\* Builds only ever renew artifacts.
Grown == \A f \in File : vo[f] # Absent => NoOlder(f, vo[f], vo'[f])

\* An artifact that is no older than another one is no older than what that one
\* is no older than.
LEMMA NoOlderTransitive ==
    ASSUME NEW f \in File, NEW a \in [Closure(f) -> Text], NEW b \in [Closure(f) -> Text],
           NEW c, c # Absent => c \in [Closure(f) -> Text], NoOlder(f, a, b), NoOlder(f, b, c)
    PROVE  NoOlder(f, a, c)
  <1> SUFFICES ASSUME NEW x \in Closure(f) PROVE a[x] <= c[x]
    BY DEF NoOlder
  <1>1. a[x] \in 0..MaxText /\ b[x] \in 0..MaxText /\ c[x] \in 0..MaxText
    BY DEF Text, NoOlder
  <1>2. a[x] <= b[x] /\ b[x] <= c[x]
    BY DEF NoOlder
  <1> QED
    BY <1>1, <1>2, EpochAssumption

\* Artifacts that were not built are as they were.
LEMMA SameIsNoOlder ==
    ASSUME NEW f \in File, NEW a \in [Closure(f) -> Text], a # Absent
    PROVE  NoOlder(f, a, a)
  <1>1. \A x \in Closure(f) : a[x] \in 0..MaxText
    BY DEF Text
  <1> QED
    BY <1>1, EpochAssumption DEF NoOlder

\* Newer bytes, and no build.
LEMMA EditedDisk ==
    ASSUME IInv, TypeOK', DiskOK, UNCHANGED vo, \A x \in File : last[x] <= last'[x]
    PROVE  DiskOK' /\ Grown
  <1>1. Grown
    BY SameIsNoOlder DEF Grown, IInv, VoOK
  <1>2. ASSUME NEW f \in File, vo'[f] # Absent
        PROVE  /\ \A x \in Closure(f) : vo'[f][x] <= last'[x]
               /\ \A g \in Closure(f) : NoOlder(g, vo'[f], vo'[g])
    <2>1. \A g \in Closure(f) : NoOlder(g, vo'[f], vo'[g])
      BY <1>2 DEF DiskOK, NoOlder
    <2>2. ASSUME NEW x \in Closure(f) PROVE vo'[f][x] <= last'[x]
      <3>1. x \in File /\ vo[f][x] \in 0..MaxText
        BY <1>2, ClosureFacts DEF IInv, VoOK, Text
      <3>2. last[x] \in 0..MaxText /\ last'[x] \in 0..MaxText
        BY <3>1 DEF IInv, TypeOK, Text
      <3>3. vo[f][x] <= last[x] /\ last[x] <= last'[x]
        BY <1>2, <3>1 DEF DiskOK
      <3> QED
        BY <3>1, <3>2, <3>3, EpochAssumption
    <2> QED
      BY <2>1, <2>2
  <1>3. DiskOK'
    BY <1>2 DEF DiskOK, NoOlder
  <1> QED
    BY <1>1, <1>3

\* A build of files with all that they require.
LEMMA BuiltDisk ==
    ASSUME IInv, IInv', SourcesOK', DiskOK, NEW files \in SUBSET File, Rebuilt(files),
           \A g \in files : Closure(g) \subseteq files /\ source'[g] # Gone,
           \A x \in File : last[x] <= last'[x]
    PROVE  /\ DiskOK' /\ Grown
           /\ \A g \in files : \A x \in Closure(g) : vo'[g][x] = last'[x]
  <1>1. ASSUME NEW g \in files, NEW x \in Closure(g)
        PROVE  vo'[g][x] = last'[x] /\ vo'[g][x] \in 0..MaxText /\ x \in files
    <2>1. x \in files /\ vo'[g][x] = source'[x]
      BY <1>1 DEF Rebuilt
    <2>2. source'[x] = last'[x] /\ last'[x] \in 0..MaxText
      BY <2>1 DEF SourcesOK, IInv, TypeOK, Text
    <2> QED
      BY <2>1, <2>2
  <1>2. ASSUME NEW g \in files PROVE vo'[g] # Absent
    <2>1. vo'[g] = [h \in Closure(g) |-> source'[h]]
      BY DEF Rebuilt
    <2>2. \A h \in Closure(g) : source'[h] \in Text
      <3> SUFFICES ASSUME NEW h \in Closure(g) PROVE source'[h] \in Text
        OBVIOUS
      <3>1. h \in files /\ h \in File
        OBVIOUS
      <3>2. source'[h] = last'[h] /\ last'[h] \in Text
        BY <3>1 DEF SourcesOK, IInv, TypeOK
      <3> QED
        BY <3>2
    <2>3. vo'[g] \in [Closure(g) -> Text]
      BY <2>1, <2>2
    <2> QED
      BY <2>3, EpochAssumption
  <1>3. ASSUME NEW f \in File, NEW x \in Closure(f), vo[f] # Absent
        PROVE  /\ vo[f][x] \in 0..MaxText /\ vo[f][x] <= last'[x]
               /\ last'[x] \in 0..MaxText
    <2>1. x \in File /\ vo[f][x] \in 0..MaxText
      BY <1>3, ClosureFacts DEF IInv, VoOK, Text
    <2>2. last[x] \in 0..MaxText /\ last'[x] \in 0..MaxText
      BY <2>1 DEF IInv, TypeOK, Text
    <2>3. vo[f][x] <= last[x] /\ last[x] <= last'[x]
      BY <1>3, <2>1 DEF DiskOK
    <2> QED
      BY <2>1, <2>2, <2>3, EpochAssumption
  <1>4. ASSUME NEW f \in File, vo[f] # Absent PROVE NoOlder(f, vo[f], vo'[f])
    <2>1. CASE f \in files
      BY <1>1, <1>2, <1>3, <1>4, <2>1 DEF NoOlder
    <2>2. CASE f \notin files
      <3>1. vo'[f] = vo[f] /\ vo[f] \in [Closure(f) -> Text]
        BY <1>4, <2>2 DEF Rebuilt, IInv, VoOK
      <3> QED
        BY <1>4, <3>1, SameIsNoOlder
    <2> QED
      BY <2>1, <2>2
  <1>5. ASSUME NEW f \in File, vo'[f] # Absent
        PROVE  /\ \A x \in Closure(f) : vo'[f][x] <= last'[x]
               /\ \A g \in Closure(f) : NoOlder(g, vo'[f], vo'[g])
    <2>1. CASE f \in files
      <3>1. \A x \in Closure(f) : vo'[f][x] <= last'[x]
        BY <1>1, <2>1, EpochAssumption
      <3>2. ASSUME NEW g \in Closure(f) PROVE NoOlder(g, vo'[f], vo'[g])
        <4>1. g \in files /\ Closure(g) \subseteq Closure(f)
          BY <2>1, ClosureFacts
        <4>2. ASSUME NEW x \in Closure(g) PROVE vo'[f][x] <= vo'[g][x]
          <5>1. vo'[f][x] = last'[x] /\ vo'[g][x] = last'[x] /\ vo'[g][x] \in 0..MaxText
            BY <1>1, <2>1, <4>1
          <5> QED
            BY <5>1, EpochAssumption
        <4> QED
          BY <1>2, <4>1, <4>2 DEF NoOlder
      <3> QED
        BY <3>1, <3>2
    <2>2. CASE f \notin files
      <3>1. vo'[f] = vo[f] /\ vo[f] # Absent
        BY <1>5, <2>2 DEF Rebuilt
      <3>2. \A x \in Closure(f) : vo'[f][x] <= last'[x]
        BY <1>3, <3>1
      <3>3. ASSUME NEW g \in Closure(f) PROVE NoOlder(g, vo'[f], vo'[g])
        <4>1. g \in File /\ Closure(g) \subseteq Closure(f) /\ NoOlder(g, vo[f], vo[g])
          BY <3>1, ClosureFacts DEF DiskOK
        <4>2. CASE g \in files
          BY <1>1, <1>2, <1>3, <3>1, <4>1, <4>2 DEF NoOlder
        <4>3. CASE g \notin files
          BY <3>1, <4>1, <4>3 DEF Rebuilt
        <4> QED
          BY <4>2, <4>3
      <3> QED
        BY <3>2, <3>3
    <2> QED
      BY <2>1, <2>2
  <1>6. Grown
    BY <1>4 DEF Grown
  <1>7. DiskOK'
    BY <1>5 DEF DiskOK, NoOlder
  <1> QED
    BY <1>1, <1>6, <1>7

\* A fingerprint stays one of an artifact that was only renewed since.
LEMMA OlderStill ==
    ASSUME IInv, IInv', Grown, NEW f \in File, NEW a \in [Closure(f) -> Text],
           NoOlder(f, a, vo[f])
    PROVE  NoOlder(f, a, vo'[f])
  <1>1. vo[f] # Absent /\ vo[f] \in [Closure(f) -> Text] /\ NoOlder(f, vo[f], vo'[f])
    BY DEF NoOlder, IInv, VoOK, Grown
  <1>2. vo'[f] # Absent => vo'[f] \in [Closure(f) -> Text]
    BY DEF IInv, VoOK
  <1> QED
    BY <1>1, <1>2, NoOlderTransitive

\* A cache from which entries may have gone.
LEMMA CacheStill ==
    ASSUME IInv, IInv', PriorOK, Grown, \A f \in File : cache'[f] \in {cache[f], Absent}
    PROVE  \A f \in File : cache'[f] # Absent =>
              /\ cache'[f].vo # Absent /\ cache'[f].vo \in [Closure(f) -> Text]
              /\ NoOlder(f, cache'[f].vo, vo'[f])
  <1> SUFFICES ASSUME NEW f \in File, cache'[f] # Absent
               PROVE  /\ cache'[f].vo # Absent /\ cache'[f].vo \in [Closure(f) -> Text]
                      /\ NoOlder(f, cache'[f].vo, vo'[f])
    OBVIOUS
  <1>1. /\ cache'[f] = cache[f] /\ cache[f].vo # Absent
        /\ cache[f].vo \in [Closure(f) -> Text] /\ NoOlder(f, cache[f].vo, vo[f])
    BY DEF PriorOK
  <1> QED
    BY <1>1, OlderStill

\* Steps that neither end nor begin a comparison.
LEMMA PriorStill ==
    ASSUME IInv, IInv', PriorOK, Grown, \A f \in File : cache'[f] \in {cache[f], Absent},
           call'.pc \notin {"build", "after"},
           call'.pc = "record" => vo'[Head(call'.files)] # Absent
    PROVE  PriorOK'
  <1>1. \A f \in File : cache'[f] # Absent =>
              /\ cache'[f].vo # Absent /\ cache'[f].vo \in [Closure(f) -> Text]
              /\ NoOlder(f, cache'[f].vo, vo'[f])
    BY CacheStill
  <1> QED
    BY <1>1 DEF PriorOK, At, NoOlder

\* A new epoch, in which PET has only what is on disk.
LEMMA Restarting ==
    ASSUME IInv, IInv', PriorOK, SourcesOK', DiskOK', Grown,
           \A f \in File : cache'[f] \in {cache[f], Absent},
           \A g \in File : loaded'[g] \in {Absent, vo'[g]},
           call'.pc \notin {"build", "after"},
           call'.pc = "record" => vo'[Head(call'.files)] # Absent
    PROVE  EInv'
  <1>1. PriorOK'
    BY PriorStill
  <1>2. EpochOK'
    BY DEF EpochOK, Kept
  <1> QED
    BY <1>1, <1>2 DEF EInv

\* A step that touches neither the disk nor PET.
LEMMA Quiet ==
    ASSUME IInv, IInv', EInv, UNCHANGED <<source, last, vo, loaded, unseen>>,
           \/ ~Pending /\ skipped' = skipped
           \/ skipped' = TRUE,
           \A f \in File : cache'[f] \in {cache[f], Absent},
           call'.pc \notin {"build", "after", "record"}
    PROVE  EInv'
  <1>1. DiskOK' /\ Grown
    <2>1. \A x \in File : last[x] <= last'[x]
      <3>1. \A x \in File : last[x] \in 0..MaxText
        BY DEF IInv, TypeOK, Text
      <3> QED
        BY <3>1, EpochAssumption
    <2> QED
      BY <2>1, EditedDisk DEF IInv, EInv
  <1>2. PriorOK'
    BY <1>1, PriorStill DEF EInv
  <1>3. SourcesOK'
    BY DEF EInv, SourcesOK
  <1>4. EpochOK'
    BY DEF EInv, EpochOK, Kept
  <1> QED
    BY <1>1, <1>2, <1>3, <1>4 DEF EInv

\* Steps between calls, and the first ones of a call.
LEMMA OutsideEInv ==
    ASSUME IInv, IInv', EInv, AttachLoad \/ AttachProbe \/ Admit \/ RefreshProbe
    PROVE  EInv'
  <1>1. UNCHANGED <<source, last, vo, loaded, unseen, skipped>>
    BY DEF AttachLoad, AttachProbe, Admit, RefreshProbe, disk, sources, pet
  <1>2. \A f \in File : cache'[f] \in {cache[f], Absent}
    BY DEF AttachLoad, AttachProbe, Admit, RefreshProbe, runtime, Nothing
  <1>3. ~Pending
    BY DEF AttachLoad, AttachProbe, Admit, RefreshProbe, Pending, At
  <1>4. call'.pc \notin {"build", "after", "record"}
    <2>1. call \in Calls
      BY DEF IInv, TypeOK
    <2>2. CASE AttachLoad
      BY <2>2, IdleFacts DEF AttachLoad, Calls
    <2>3. CASE AttachProbe
      BY <2>3, IdleFacts DEF AttachProbe, Calls
    <2>4. CASE Admit
      BY <2>4, IdleFacts DEF Admit, Calls
    <2>5. CASE RefreshProbe
      BY <2>1, <2>5 DEF RefreshProbe, Calls
    <2> QED
      BY <2>2, <2>3, <2>4, <2>5
  <1> QED
    BY <1>1, <1>2, <1>3, <1>4, Quiet

\* The call begins with its list.
LEMMA PlanEInv == ASSUME IInv, IInv', EInv, NEW files, Plan(files) PROVE EInv'
  <1>1. UNCHANGED <<source, last, vo, loaded, unseen, skipped, cache>> /\ ~Pending
    BY DEF Plan, disk, sources, pet, runtime, Pending, At
  <1>2. call'.pc \notin {"build", "after", "record"}
    <2>1. call \in Calls
      BY DEF IInv, TypeOK
    <2> QED
      BY <2>1, IdleFacts DEF Plan, Calls
  <1> QED
    BY <1>1, <1>2, Quiet

\* The disk as it was.
LEMMA SameDisk ==
    ASSUME IInv, IInv', EInv, UNCHANGED <<source, last, vo>>
    PROVE  SourcesOK' /\ DiskOK' /\ Grown
  <1>1. \A x \in File : last[x] \in 0..MaxText
    BY DEF IInv, TypeOK, Text
  <1>2. \A x \in File : last[x] <= last'[x]
    BY <1>1, EpochAssumption
  <1> QED
    BY <1>2, EditedDisk DEF IInv, EInv, SourcesOK

\* A changed layout begins an epoch, and so do the end of a runtime and a
\* cancellation.
LEMMA RestartsEInv ==
    ASSUME IInv, IInv', EInv, RefreshLoad \/ Detach \/ Cancelled PROVE EInv'
  <1>0. call \in Calls /\ UNCHANGED <<source, last, vo>>
    BY DEF IInv, TypeOK, RefreshLoad, Detach, Cancelled, disk, sources
  <1>1. call'.pc \notin {"build", "after", "record"}
    <2>1. CASE RefreshLoad
      <3>1. call' = Idle \/ call' = [call EXCEPT !.pc = "plan"]
        BY <2>1 DEF RefreshLoad, Answered, Goto
      <3> QED
        BY <1>0, <3>1, IdleFacts DEF Calls
    <2>2. CASE Detach
      BY <2>2 DEF Detach, At
    <2>3. CASE Cancelled
      BY <2>3, IdleFacts DEF Cancelled, Answered
    <2> QED
      BY <2>1, <2>2, <2>3
  <1>2. CASE Restart /\ (cache' = Nothing \/ UNCHANGED cache)
    <2>1. /\ \A f \in File : cache'[f] \in {cache[f], Absent}
          /\ \A g \in File : loaded'[g] \in {Absent, vo'[g]}
      BY <1>2 DEF Restart, Nothing
    <2> QED
      BY <1>0, <1>1, <2>1, Restarting, SameDisk DEF EInv
  <1>3. CASE At("load") /\ UNCHANGED <<pet, cache>>
    <2>1. ~Pending
      BY <1>3 DEF Pending, At
    <2> QED
      BY <1>0, <1>1, <1>3, <2>1, Quiet DEF pet
  <1> QED
    BY <1>2, <1>3 DEF RefreshLoad, Detach, Cancelled, runtime, pet

\* The fingerprint before the build is of what is there; an error discards the
\* boundary.
LEMMA BeforeEInv == ASSUME IInv, IInv', EInv, Before PROVE EInv'
  <1>0. /\ UNCHANGED <<source, last, vo, cache>> /\ At("before") /\ call \in Calls
        /\ SourcesOK' /\ DiskOK' /\ Grown
    BY SameDisk DEF IInv, TypeOK, Before, disk, sources, runtime
  <1>1. CASE /\ skipped' = (skipped \/ call.boundary) /\ Answered
             /\ UNCHANGED <<loaded, unseen>>
    <2>1. call'.pc = "idle" /\ call.boundary \in BOOLEAN /\ skipped \in BOOLEAN
      BY <1>0, <1>1, IdleFacts DEF Answered, Calls, IInv, TypeOK
    <2>2. ~call.boundary => ~Pending
      BY <1>0 DEF Pending, At
    <2>3. \/ ~Pending /\ skipped' = skipped
          \/ skipped' = TRUE
      BY <1>1, <2>1, <2>2
    <2> QED
      BY <1>0, <1>1, <2>1, <2>3, Quiet
  <1>2. CASE /\ source[Current] # Gone
             /\ call' = [call EXCEPT !.pc = "build", !.before = Fingerprint(Current)]
             /\ UNCHANGED pet
    <2>1. Current \in File
      BY <1>0, CurrentFacts DEF At
    <2>2. /\ call'.pc = "build" /\ call'.before = Fingerprint(Current)
          /\ call'.todo = call.todo /\ call'.boundary = call.boundary
      BY <1>0, <1>2 DEF Calls
    <2>3. Current' = Current /\ call'.before.vo = vo[Current]
      BY <2>2 DEF Current, Fingerprint
    <2>5. call'.before.vo # Absent =>
             /\ call'.before.vo \in [Closure(Current') -> Text]
             /\ NoOlder(Current', call'.before.vo, vo'[Current'])
      BY <1>0, <2>1, <2>3, SameIsNoOlder DEF IInv, VoOK
    <2>6. PriorOK'
      <3>1. \A f \in File : cache'[f] # Absent =>
              /\ cache'[f].vo # Absent /\ cache'[f].vo \in [Closure(f) -> Text]
              /\ NoOlder(f, cache'[f].vo, vo'[f])
        BY <1>0, CacheStill DEF EInv
      <3> QED
        BY <2>2, <2>5, <3>1 DEF PriorOK, At, NoOlder
    <2>7. EpochOK'
      BY <1>0, <1>2, <2>2 DEF EInv, EpochOK, Pending, Kept, At, pet
    <2> QED
      BY <1>0, <2>6, <2>7 DEF EInv
  <1> QED
    BY <1>1, <1>2 DEF Before

\* A build of some files and what they require, all of which can be built.
LEMMA BuildDisk ==
    ASSUME IInv, IInv', EInv, UNCHANGED <<source, last>>, NEW files \in SUBSET File,
           \A g \in files : CanBuild(g) /\ Closure(g) \subseteq files, vo' = Built(files)
    PROVE  /\ SourcesOK' /\ DiskOK' /\ Grown /\ Rebuilt(files)
           /\ \A g \in files : \A x \in Closure(g) : vo'[g][x] = last[x]
  <1>1. Rebuilt(files)
    BY BuiltFacts DEF IInv
  <1>2. \A g \in files : source'[g] # Gone
    BY ClosureFacts DEF CanBuild
  <1>3. \A x \in File : last[x] \in 0..MaxText
    BY DEF IInv, TypeOK, Text
  <1>4. \A x \in File : last[x] <= last'[x]
    BY <1>3, EpochAssumption
  <1>5. SourcesOK'
    BY DEF EInv, SourcesOK
  <1> QED
    BY <1>1, <1>2, <1>4, <1>5, BuiltDisk DEF EInv

\* The same for one file, or for what a failed build leaves.
LEMMA BuildSets ==
    ASSUME NEW f \in File
    PROVE  /\ CanBuild(f) => /\ Closure(f) \in SUBSET File
                             /\ \A g \in Closure(f) : CanBuild(g) /\ Closure(g) \subseteq Closure(f)
           /\ \A files \in Partial(f) :
                 /\ files \in SUBSET File
                 /\ \A g \in files : CanBuild(g) /\ Closure(g) \subseteq files
  <1>1. CanBuild(f) => /\ Closure(f) \in SUBSET File
                       /\ \A g \in Closure(f) : CanBuild(g) /\ Closure(g) \subseteq Closure(f)
    BY ClosureFacts, CanBuildFacts
  <1>2. \A files \in Partial(f) :
                 /\ files \in SUBSET File
                 /\ \A g \in files : CanBuild(g) /\ Closure(g) \subseteq files
    BY EpochAssumption DEF Partial, Closure
  <1> QED
    BY <1>1, <1>2

\* A failed build begins an epoch.
LEMMA BuildFailsEInv == ASSUME IInv, IInv', EInv, BuildFails PROVE EInv'
  <1>0. /\ UNCHANGED <<source, last>> /\ call' = Idle /\ Restart /\ Forget(Current)
        /\ Current \in File
    BY CurrentFacts DEF BuildFails, sources, Answered, At
  <1>1. SourcesOK' /\ DiskOK' /\ Grown
    <2>1. CASE \E files \in Partial(Current) : vo' = Built(files)
      BY <1>0, <2>1, BuildDisk, BuildSets
    <2>2. CASE UNCHANGED vo
      BY <1>0, <2>2, SameDisk
    <2> QED
      BY <2>1, <2>2 DEF BuildFails
  <1>2. /\ \A f \in File : cache'[f] \in {cache[f], Absent}
        /\ \A g \in File : loaded'[g] \in {Absent, vo'[g]}
        /\ call'.pc = "idle"
    BY <1>0, IdleFacts DEF Restart, Nothing, Forget, IInv, TypeOK
  <1> QED
    BY <1>0, <1>1, <1>2, Restarting DEF EInv

\* A loaded artifact that the build of the call replaces shows in the
\* fingerprint of the file of the call, because no source goes back.
LEMMA ReplacementShows ==
    ASSUME IInv, IInv', EInv, At("build"), UNCHANGED <<source, last, cache>>,
           CanBuild(Current), vo' = Built(Closure(Current)),
           NEW g \in File, loaded[g] = vo[g], vo[g] # Absent, vo'[g] # vo[g],
           cache[Current] = Absent => call.before.vo # Absent
    PROVE  LET prior == IF cache[Current] # Absent THEN cache[Current].vo ELSE call.before.vo
           IN  prior # Absent /\ \E x \in Closure(Current) : prior[x] < vo'[Current][x]
  <1> DEFINE prior == IF cache[Current] # Absent THEN cache[Current].vo ELSE call.before.vo
  <1>0. Current \in File
    BY CurrentFacts DEF At
  <1>1. /\ Closure(Current) \in SUBSET File /\ Current \in Closure(Current)
        /\ \A h \in Closure(Current) : CanBuild(h) /\ Closure(h) \subseteq Closure(Current)
    BY <1>0, BuildSets, ClosureFacts
  <1>2. /\ Rebuilt(Closure(Current))
        /\ \A h \in Closure(Current) : \A x \in Closure(h) : vo'[h][x] = last[x]
    BY <1>1, BuildDisk
  <1>3. g \in Closure(Current)
    BY <1>2 DEF Rebuilt
  <1>4. vo[g] \in [Closure(g) -> Text] /\ vo'[g] \in [Closure(g) -> Text]
    <2>1. vo'[g] # Absent
      BY <1>0, <1>3, BuildFacts
    <2> QED
      BY <2>1 DEF IInv, VoOK
  <1>5. PICK x \in Closure(g) : vo[g][x] # vo'[g][x]
    BY <1>4
  <1>6. x \in Closure(Current) /\ vo'[g][x] = last[x] /\ vo'[Current][x] = last[x]
    BY <1>1, <1>2, <1>3, <1>5
  <1>7. vo[g][x] \in 0..MaxText /\ last[x] \in 0..MaxText /\ vo[g][x] <= last[x]
    BY <1>1, <1>4, <1>5, <1>6 DEF Text, EInv, DiskOK, IInv, TypeOK
  <1>8. /\ prior # Absent /\ prior \in [Closure(Current) -> Text]
        /\ NoOlder(Current, prior, vo[Current])
    BY <1>0 DEF EInv, PriorOK, At
  <1>9. NoOlder(g, vo[Current], vo[g])
    BY <1>0, <1>3, <1>8 DEF EInv, DiskOK, NoOlder
  <1>10. prior[x] \in 0..MaxText /\ vo[Current][x] \in 0..MaxText
    BY <1>0, <1>6, <1>8 DEF Text, NoOlder, IInv, VoOK
  <1>11. prior[x] <= vo[Current][x] /\ vo[Current][x] <= vo[g][x]
    BY <1>6, <1>8, <1>9 DEF NoOlder
  <1>12. prior[x] < vo'[Current][x]
    BY <1>5, <1>6, <1>7, <1>10, <1>11, EpochAssumption
  <1> QED
    BY <1>6, <1>8, <1>12


\* A comparison that will find a change finds it whatever else is built.
LEMMA DifferStill ==
    ASSUME IInv, IInv', PriorOK, Grown, At("after"), UNCHANGED <<call, cache>>, WillDiffer
    PROVE  WillDiffer'
  <1>0. Current \in File /\ Current' = Current /\ Prior' = Prior
    BY CurrentFacts DEF At, Current, Prior
  <1>1. PICK x \in Closure(Current) : Prior[x] < vo[Current][x]
    BY DEF WillDiffer
  <1>2. Prior # Absent /\ Prior \in [Closure(Current) -> Text] /\ vo[Current] # Absent
    BY <1>0 DEF WillDiffer, Prior, PriorOK, At
  <1>3. NoOlder(Current, vo[Current], vo'[Current])
    BY <1>0, <1>2 DEF Grown
  <1>4. vo[Current] \in [Closure(Current) -> Text] /\ vo'[Current] \in [Closure(Current) -> Text]
    BY <1>0, <1>2, <1>3 DEF IInv, VoOK, NoOlder
  <1>5. /\ Prior[x] \in 0..MaxText /\ vo[Current][x] \in 0..MaxText
        /\ vo'[Current][x] \in 0..MaxText /\ vo[Current][x] <= vo'[Current][x]
    BY <1>1, <1>2, <1>3, <1>4 DEF Text, NoOlder
  <1>6. Prior[x] < vo'[Current][x]
    BY <1>1, <1>5, EpochAssumption
  <1> QED
    BY <1>0, <1>1, <1>2, <1>6 DEF WillDiffer

\* The build of the call: what it replaces in PET shows in the comparison, or
\* it is the first build of the file.
LEMMA BuildSucceedsEInv == ASSUME IInv, IInv', EInv, BuildSucceeds PROVE EInv'
  <1>0. /\ UNCHANGED <<source, last, cache, loaded, skipped>> /\ At("build")
        /\ CanBuild(Current) /\ vo' = Built(Closure(Current)) /\ call \in Calls
        /\ Current \in File
    BY CurrentFacts DEF BuildSucceeds, sources, runtime, At
  <1>1. /\ call'.pc = "after" /\ call'.todo = call.todo /\ call'.before = call.before
        /\ call'.boundary = call.boundary /\ Current' = Current
    BY <1>0, GotoFacts DEF BuildSucceeds, Goto, Places, Current
  <1>2. SourcesOK' /\ DiskOK' /\ Grown
    BY <1>0, BuildDisk, BuildSets
  <1>3. vo'[Current] # Absent
    BY <1>0, BuildFacts, ClosureFacts
  <1>4. PriorOK'
    <2>1. \A f \in File : cache'[f] # Absent =>
              /\ cache'[f].vo # Absent /\ cache'[f].vo \in [Closure(f) -> Text]
              /\ NoOlder(f, cache'[f].vo, vo'[f])
      BY <1>0, <1>2, CacheStill DEF EInv
    <2>2. call.before.vo # Absent =>
             /\ call.before.vo \in [Closure(Current) -> Text]
             /\ NoOlder(Current, call.before.vo, vo'[Current])
      BY <1>0, <1>2, OlderStill DEF EInv, PriorOK, At
    <2> QED
      BY <1>1, <1>3, <2>1, <2>2 DEF PriorOK, At, NoOlder
  <1>5. EpochOK'
    <2>1. CASE Pending'
      BY <2>1 DEF EpochOK
    <2>2. CASE ~Pending'
      <3>1. ~call.boundary /\ ~WillDiffer'
        BY <1>1, <2>2 DEF Pending, At
      <3>2. ~Pending
        BY <1>0, <3>1 DEF Pending, At
      <3> SUFFICES ASSUME NEW g \in File, Kept(g)' PROVE loaded'[g] = vo'[g]
        BY DEF EpochOK
      <3>3. /\ loaded[g] # Absent /\ g \notin unseen' /\ ~skipped
        BY <1>0 DEF Kept
      <3>4. g \notin unseen
        BY <3>3 DEF BuildSucceeds
      <3>5. loaded[g] = vo[g]
        BY <3>2, <3>3, <3>4 DEF EInv, EpochOK, Kept
      <3>6. ASSUME vo'[g] # vo[g] PROVE FALSE
        <4>1. cache[Current] = Absent => call.before.vo # Absent
          BY <3>3, <3>6 DEF BuildSucceeds, Replaced
        <4>2. /\ Prior # Absent
              /\ \E x \in Closure(Current) : Prior[x] < vo'[Current][x]
          BY <1>0, <3>3, <3>5, <3>6, <4>1, ReplacementShows DEF Prior
        <4>3. Prior' = Prior
          BY <1>0, <1>1 DEF Prior
        <4>4. WillDiffer'
          BY <1>1, <4>2, <4>3 DEF WillDiffer
        <4> QED
          BY <3>1, <4>4
      <3> QED
        BY <1>0, <3>5, <3>6
    <2> QED
      BY <2>1, <2>2
  <1> QED
    BY <1>2, <1>4, <1>5 DEF EInv

\* Builds of others only touch what the history marks.
LEMMA ForeignBuildEInv == ASSUME IInv, IInv', EInv, NEW f \in File, ForeignBuild(f) PROVE EInv'
  <1>0. /\ UNCHANGED <<source, last, cache, loaded, skipped, call>>
        /\ CanBuild(f) /\ vo' = Built(Closure(f)) /\ unseen' = unseen \cup Replaced
    BY DEF ForeignBuild, sources, runtime
  <1>1. SourcesOK' /\ DiskOK' /\ Grown
    BY <1>0, BuildDisk, BuildSets
  <1>2. PriorOK'
    <2>1. \A h \in File : cache'[h] # Absent =>
              /\ cache'[h].vo # Absent /\ cache'[h].vo \in [Closure(h) -> Text]
              /\ NoOlder(h, cache'[h].vo, vo'[h])
      BY <1>0, <1>1, CacheStill DEF EInv
    <2>2. ASSUME call.pc \in {"build", "after"}, call.before.vo # Absent
          PROVE  /\ call.before.vo \in [Closure(Current) -> Text]
                 /\ NoOlder(Current, call.before.vo, vo'[Current])
      <3>1. Current \in File
        BY <2>2, CurrentFacts
      <3>2. /\ call.before.vo \in [Closure(Current) -> Text]
            /\ NoOlder(Current, call.before.vo, vo[Current])
        BY <2>2 DEF EInv, PriorOK
      <3> QED
        BY <1>1, <3>1, <3>2, OlderStill
    <2>3. \A h \in File : vo[h] # Absent => vo'[h] # Absent
      BY <1>1 DEF Grown, NoOlder
    <2>4. At("after") => vo'[Current] # Absent
      <3> SUFFICES ASSUME At("after") PROVE vo'[Current] # Absent
        OBVIOUS
      <3>1. Current \in File /\ vo[Current] # Absent
        BY CurrentFacts DEF EInv, PriorOK, At
      <3> QED
        BY <2>3, <3>1
    <2>5. At("record") => vo'[Head(call.files)] # Absent
      <3> SUFFICES ASSUME At("record") PROVE vo'[Head(call.files)] # Absent
        OBVIOUS
      <3>1. call.files \in Seq(File) /\ call.files # <<>>
        BY DEF IInv, CallOK, TypeOK, Calls, At
      <3>2. Head(call.files) \in File
        BY <3>1
      <3> QED
        BY <2>3, <3>2 DEF EInv, PriorOK
    <2> QED
      BY <1>0, <2>1, <2>2, <2>4, <2>5 DEF PriorOK, At, Current, NoOlder
  <1>3. EpochOK'
    <2>1. CASE Pending
      <3>1. CASE At("after") /\ WillDiffer
        <4>1. WillDiffer'
          BY <1>0, <1>1, <3>1, DifferStill DEF EInv
        <4> QED
          BY <1>0, <3>1, <4>1 DEF EpochOK, Pending, At
      <3> QED
        BY <1>0, <2>1, <3>1 DEF EpochOK, Pending, At
    <2>2. CASE ~Pending
      BY <1>0, <2>2 DEF EInv, EpochOK, Kept, Replaced
    <2> QED
      BY <2>1, <2>2
  <1> QED
    BY <1>1, <1>2, <1>3 DEF EInv

\* The comparison turns what will differ into the boundary of the call.
LEMMA CompareEInv == ASSUME IInv, IInv', EInv, Compare PROVE EInv'
  <1>0. /\ UNCHANGED <<source, last, vo, loaded, unseen, skipped>> /\ At("after")
        /\ call \in Calls /\ Current \in File /\ Record(Current, Fingerprint(Current))
        /\ SourcesOK' /\ DiskOK' /\ Grown /\ cache \in [File -> Fingerprints]
    BY SameDisk, CurrentFacts DEF Compare, disk, sources, pet, At, IInv, TypeOK
  <1>1. /\ call'.pc \in {"before", "finish"}
        /\ call'.boundary = (call.boundary \/ Boundary(Fingerprint(Current)))
    BY <1>0 DEF Compare, Calls
  <1>2. vo[Current] # Absent /\ vo[Current] \in [Closure(Current) -> Text]
    BY <1>0 DEF EInv, PriorOK, IInv, VoOK
  <1>3. /\ cache'[Current] = Fingerprint(Current) /\ Fingerprint(Current).vo = vo[Current]
        /\ \A f \in File \ {Current} : cache'[f] = cache[f]
    BY <1>0 DEF Record, Fingerprint
  <1>4. PriorOK'
    <2>1. ASSUME NEW f \in File, cache'[f] # Absent
          PROVE  /\ cache'[f].vo # Absent /\ cache'[f].vo \in [Closure(f) -> Text]
                 /\ NoOlder(f, cache'[f].vo, vo'[f])
      <3>1. CASE f = Current
        BY <1>0, <1>2, <1>3, <3>1, SameIsNoOlder
      <3>2. CASE f # Current
        BY <1>0, <1>3, <2>1, <3>2 DEF EInv, PriorOK
      <3> QED
        BY <3>1, <3>2
    <2> QED
      BY <1>1, <2>1 DEF PriorOK, At, NoOlder
  <1>5. WillDiffer => Boundary(Fingerprint(Current))
    <2> SUFFICES ASSUME WillDiffer PROVE Boundary(Fingerprint(Current))
      OBVIOUS
    <2>1. PICK x \in Closure(Current) : Prior[x] < vo[Current][x]
      BY DEF WillDiffer
    <2>2. vo[Current][x] \in 0..MaxText
      BY <1>2, <2>1 DEF Text
    <2>3. Prior # vo[Current]
      BY <2>1, <2>2, EpochAssumption
    <2> QED
      BY <1>3, <2>3 DEF WillDiffer, Prior, Boundary
  <1>6. EpochOK'
    <2>1. CASE Pending
      BY <1>0, <1>1, <1>5, <2>1 DEF EpochOK, Pending, At
    <2>2. CASE ~Pending
      BY <1>0, <2>2 DEF EInv, EpochOK, Kept
    <2> QED
      BY <2>1, <2>2
  <1> QED
    BY <1>0, <1>4, <1>6 DEF EInv

\* The boundary of the call begins an epoch.
LEMMA FinishEInv == ASSUME IInv, IInv', EInv, Finish PROVE EInv'
  <1>0. /\ UNCHANGED <<source, last, vo, cache>> /\ At("finish") /\ call \in Calls
        /\ SourcesOK' /\ DiskOK' /\ Grown
    BY SameDisk DEF Finish, disk, sources, runtime, IInv, TypeOK
  <1>1. call'.pc = "open"
    BY <1>0, GotoFacts DEF Finish, Goto, Places
  <1>2. CASE call.boundary
    <2>1. \A g \in File : loaded'[g] \in {Absent, vo'[g]}
      BY <1>2 DEF Finish, Restart, Nothing
    <2> QED
      BY <1>0, <1>1, <2>1, Restarting DEF EInv
  <1>3. CASE ~call.boundary
    <2>1. ~Pending /\ UNCHANGED <<loaded, unseen, skipped>>
      BY <1>0, <1>3 DEF Pending, At, Finish, pet
    <2> QED
      BY <1>0, <1>1, <2>1, Quiet
  <1> QED
    BY <1>2, <1>3

\* PET loads what is on disk.
LEMMA OpenEInv == ASSUME IInv, IInv', EInv, Open PROVE EInv'
  <1>0. /\ UNCHANGED <<source, last, vo, cache, unseen, skipped>> /\ At("open")
        /\ call'.pc = "idle" /\ SourcesOK' /\ DiskOK' /\ Grown
    BY SameDisk, IdleFacts DEF Open, disk, sources, runtime, Answered
  <1>1. \A g \in File : loaded'[g] \in {loaded[g], vo[g]}
    BY DEF Open
  <1>2. PriorOK'
    BY <1>0, PriorStill DEF EInv
  <1>3. EpochOK'
    <2>1. ~Pending
      BY <1>0 DEF Pending, At
    <2> QED
      BY <1>0, <1>1, <2>1 DEF EInv, EpochOK, Kept
  <1> QED
    BY <1>0, <1>2, <1>3 DEF EInv

\* A PET that has opened one file has what is on disk.
LEMMA RestartWithLoads ==
    ASSUME NEW f \in File, RestartWith(f)
    PROVE  \A g \in File : loaded'[g] \in {Absent, vo'[g]}
  BY DEF RestartWith

\* The audit builds, and begins an epoch whatever the build said.
LEMMA AuditEInv == ASSUME IInv, IInv', EInv, Audit PROVE EInv'
  <1> DEFINE f == Head(call.files)
  <1>0. /\ UNCHANGED <<source, last, cache>> /\ At("open") /\ call \in Calls
    BY DEF Audit, sources, runtime, IInv, TypeOK
  <1>1. f \in File
    <2>1. call.files \in Seq(File) /\ call.files # <<>>
      BY <1>0 DEF IInv, CallOK, Calls, At
    <2> QED
      BY <2>1
  <1>2. CASE /\ CanBuild(f) /\ vo' = Built(Closure(f)) /\ RestartWith(f)
             /\ call' \in {Idle, [call EXCEPT !.pc = "record", !.files = <<f>>]}
    <2> HIDE DEF f
    <2>1. SourcesOK' /\ DiskOK' /\ Grown
      BY <1>0, <1>1, <1>2, BuildDisk, BuildSets
    <2>2. vo'[f] # Absent
      BY <1>0, <1>1, <1>2, BuildFacts, ClosureFacts
    <2>3. \/ call'.pc = "idle"
          \/ call'.pc = "record" /\ call'.files = <<f>>
      BY <1>0, <1>1, <1>2, IdleFacts, RecordingFacts
    <2>4. /\ call'.pc \notin {"build", "after"}
          /\ call'.pc = "record" => vo'[Head(call'.files)] # Absent
      BY <2>2, <2>3
    <2>5. \A g \in File : loaded'[g] \in {Absent, vo'[g]}
      BY <1>1, <1>2, RestartWithLoads
    <2> QED
      BY <1>0, <2>1, <2>4, <2>5, Restarting DEF EInv
  <1>3. CASE (\E files \in Partial(f) : vo' = Built(files)) /\ Restart /\ Answered
    <2> HIDE DEF f
    <2>1. SourcesOK' /\ DiskOK' /\ Grown
      BY <1>0, <1>1, <1>3, BuildDisk, BuildSets
    <2>2. call'.pc = "idle" /\ \A g \in File : loaded'[g] \in {Absent, vo'[g]}
      BY <1>3, IdleFacts DEF Answered, Restart, Nothing
    <2> QED
      BY <1>0, <2>1, <2>2, Restarting DEF EInv
  <1> QED
    BY <1>2, <1>3 DEF Audit

\* A publication is one more edit and a build, in a new epoch.
LEMMA PublishEInv ==
    ASSUME ~Reverts, IInv, IInv', EInv, NEW f \in File, NEW text \in Text, Publish(f, text)
    PROVE  EInv'
  <1>0. At("plan") /\ CanBuild(f) /\ text > last[f] /\ call \in Calls
    BY DEF Publish, IInv, TypeOK
  <1>a. /\ Closure(f) \in SUBSET File /\ f \in Closure(f)
        /\ \A g \in Closure(f) : CanBuild(g) /\ Closure(g) \subseteq Closure(f)
    BY <1>0, BuildSets, ClosureFacts
  <1>1. CASE /\ source' = [source EXCEPT ![f] = text]
             /\ last' = [last EXCEPT ![f] = text]
             /\ vo' = [g \in File |-> IF g \in Closure(f)
                                      THEN [h \in Closure(g) |-> source'[h]] ELSE vo[g]]
             /\ RestartWith(f)
             /\ call' = [call EXCEPT !.pc = "record", !.files = <<f>>]
             /\ UNCHANGED cache
    <2>0. source \in [File -> Bytes] /\ last \in [File -> Text] /\ source' \in [File -> Bytes]
      BY DEF IInv, TypeOK
    <2>1. SourcesOK'
      BY <1>1, <2>0 DEF EInv, SourcesOK
    <2>2. ASSUME NEW x \in File PROVE last[x] <= last'[x]
      <3>1. last[x] \in 0..MaxText /\ text \in 0..MaxText
        BY <2>0 DEF Text
      <3>2. last'[x] = IF x = f THEN text ELSE last[x]
        BY <1>1, <2>0
      <3> QED
        BY <1>0, <3>1, <3>2, EpochAssumption
    <2>3. \A g \in Closure(f) : source'[g] # Gone
      <3>1. \A g \in Closure(f) : source[g] # Gone
        BY <1>0 DEF CanBuild
      <3> QED
        BY <1>1, <1>a, <2>0, <3>1, EpochAssumption
    <2>4. \A g \in Closure(f) : \A h \in Closure(g) : source'[h] # Gone
      BY <1>a, <2>3
    <2>5. Rebuilt(Closure(f)) /\ vo'[f] # Absent
      BY <1>1, <1>a, <2>0, <2>4, RebuiltFacts DEF IInv
    <2>6. DiskOK' /\ Grown
      BY <1>a, <2>1, <2>2, <2>3, <2>5, BuiltDisk DEF EInv
    <2>7. call'.pc = "record" /\ call'.files = <<f>>
      BY <1>0, <1>1, RecordingFacts
    <2>8. \A g \in File : loaded'[g] \in {Absent, vo'[g]}
      BY <1>1, RestartWithLoads
    <2>9. \A g \in File : cache'[g] \in {cache[g], Absent}
      BY <1>1
    <2>10. call'.pc \notin {"build", "after"} /\ vo'[Head(call'.files)] # Absent
      BY <2>5, <2>7
    <2> QED
      BY <2>1, <2>6, <2>8, <2>9, <2>10, Restarting DEF EInv
  <1>2. CASE /\ UNCHANGED sources
             /\ \E files \in Partial(f) \cup {Closure(f)} : vo' = Built(files)
             /\ Forget(f) /\ Restart /\ Answered
    <2>0. UNCHANGED <<source, last>>
      BY <1>2 DEF sources
    <2>1. PICK files \in Partial(f) \cup {Closure(f)} : vo' = Built(files)
      BY <1>2
    <2>2. files \in SUBSET File /\ \A g \in files : CanBuild(g) /\ Closure(g) \subseteq files
      BY <1>a, <2>1, BuildSets
    <2>3. SourcesOK' /\ DiskOK' /\ Grown
      BY <2>0, <2>1, <2>2, BuildDisk
    <2>4. /\ call'.pc = "idle" /\ \A g \in File : loaded'[g] \in {Absent, vo'[g]}
          /\ \A g \in File : cache'[g] \in {cache[g], Absent}
      BY <1>2, IdleFacts DEF Answered, Restart, Nothing, Forget, IInv, TypeOK
    <2> QED
      BY <2>3, <2>4, Restarting DEF EInv
  <1> QED
    BY <1>1, <1>2 DEF Publish

\* The fingerprint after an audit or a publication is of what is on disk.
LEMMA RecordAuditedEInv == ASSUME IInv, IInv', EInv, RecordAudited PROVE EInv'
  <1> DEFINE f == Head(call.files)
  <1>0. /\ UNCHANGED <<source, last, vo, loaded, unseen, skipped>> /\ At("record")
        /\ call'.pc = "idle" /\ ~Pending /\ cache \in [File -> Fingerprints]
        /\ vo[f] # Absent
    BY IdleFacts DEF RecordAudited, disk, sources, pet, Answered, Pending, At, IInv, TypeOK,
       EInv, PriorOK
  <1>1. f \in File
    <2>1. call.files \in Seq(File) /\ call.files # <<>>
      BY <1>0 DEF IInv, CallOK, TypeOK, Calls, At
    <2> QED
      BY <2>1
  <1>2. CASE Forget(f) \/ UNCHANGED cache
    <2>1. \A g \in File : cache'[g] \in {cache[g], Absent}
      BY <1>0, <1>2 DEF Forget
    <2> QED
      BY <1>0, <2>1, Quiet
  <1>3. CASE Record(f, Fingerprint(f))
    <2> HIDE DEF f
    <2>1. SourcesOK' /\ DiskOK'
      BY <1>0, SameDisk
    <2>2. /\ cache'[f].vo = vo[f] /\ vo[f] \in [Closure(f) -> Text]
          /\ \A g \in File \ {f} : cache'[g] = cache[g]
      BY <1>0, <1>1, <1>3 DEF Record, Fingerprint, IInv, VoOK
    <2>3. ASSUME NEW g \in File, cache'[g] # Absent
          PROVE  /\ cache'[g].vo # Absent /\ cache'[g].vo \in [Closure(g) -> Text]
                 /\ NoOlder(g, cache'[g].vo, vo'[g])
      <3>1. CASE g = f
        BY <1>0, <2>2, <3>1, SameIsNoOlder
      <3>2. CASE g # f
        BY <1>0, <2>2, <2>3, <3>2 DEF EInv, PriorOK
      <3> QED
        BY <3>1, <3>2
    <2>4. PriorOK'
      BY <1>0, <2>3 DEF PriorOK, At, NoOlder
    <2>5. EpochOK'
      BY <1>0 DEF EInv, EpochOK, Kept
    <2> QED
      BY <2>1, <2>4, <2>5 DEF EInv
  <1> QED
    BY <1>2, <1>3 DEF RecordAudited

\* An edit leaves the artifacts, the cache, PET and the place of the call.
LEMMA EditedEInv ==
    ASSUME IInv, IInv', EInv, UNCHANGED <<vo, cache, loaded, unseen, skipped>>,
           SourcesOK', \A x \in File : last[x] <= last'[x],
           call'.pc = call.pc, call'.files = call.files, call'.todo = call.todo,
           call'.before = call.before, call'.boundary = call.boundary
    PROVE  EInv'
  <1>1. DiskOK'
    BY EditedDisk DEF IInv, EInv
  <1>2. Current' = Current
    BY DEF Current
  <1>3. PriorOK'
    BY <1>2 DEF EInv, PriorOK, At, NoOlder
  <1>4. Prior' = Prior
    BY <1>2 DEF Prior
  <1>5. WillDiffer' <=> WillDiffer
    BY <1>2, <1>4 DEF WillDiffer
  <1>6. EpochOK'
    BY <1>5 DEF EInv, EpochOK, Pending, At, Kept
  <1> QED
    BY <1>1, <1>3, <1>6 DEF EInv

\* No edit of a source brings earlier bytes back.
LEMMA EditEInv ==
    ASSUME ~Reverts, IInv, IInv', EInv, NEW f \in File, NEW text \in Text \cup {Gone},
           Edit(f, text)
    PROVE  EInv'
  <1>0. /\ UNCHANGED <<vo, cache, loaded, unseen, skipped>> /\ call \in Calls
        /\ source \in [File -> Bytes] /\ last \in [File -> Text]
    BY DEF Edit, runtime, pet, IInv, TypeOK
  <1>1. /\ call'.pc = call.pc /\ call'.files = call.files /\ call'.todo = call.todo
        /\ call'.before = call.before /\ call'.boundary = call.boundary
    BY <1>0 DEF Edit, Calls
  <1>2. SourcesOK'
    BY <1>0 DEF Edit, EInv, SourcesOK
  <1>3. ASSUME NEW x \in File PROVE last[x] <= last'[x]
    <2>1. last[x] \in 0..MaxText /\ last[x] <= last[x]
      BY <1>0, EpochAssumption DEF Text
    <2>2. CASE text = Gone \/ x # f
      BY <1>0, <2>1, <2>2 DEF Edit
    <2>3. CASE text # Gone /\ x = f
      BY <1>0, <2>3 DEF Edit
    <2> QED
      BY <2>2, <2>3
  <1> QED
    BY <1>0, <1>1, <1>2, <1>3, EditedEInv

\* Changes of the Dune files leave the sources and their artifacts.
LEMMA EditDuneFilesEInv ==
    ASSUME IInv, IInv', EInv, NEW c \in Config, EditDuneFiles(c) PROVE EInv'
  <1>0. UNCHANGED <<source, last, vo, cache, loaded, unseen, skipped>> /\ call \in Calls
    BY DEF EditDuneFiles, sources, runtime, pet, IInv, TypeOK
  <1>1. /\ call'.pc = call.pc /\ call'.files = call.files /\ call'.todo = call.todo
        /\ call'.before = call.before /\ call'.boundary = call.boundary
    BY <1>0 DEF EditDuneFiles, Calls
  <1>2. \A x \in File : last[x] \in 0..MaxText
    BY DEF IInv, TypeOK, Text
  <1>3. \A x \in File : last[x] <= last'[x]
    BY <1>0, <1>2, EpochAssumption
  <1>4. SourcesOK'
    BY <1>0 DEF EInv, SourcesOK
  <1> QED
    BY <1>0, <1>1, <1>3, <1>4, EditedEInv

\* Builds before the server starts are complete and nothing is loaded.
LEMMA InitEInv == Init => EInv
  <1> SUFFICES ASSUME Init PROVE EInv
    OBVIOUS
  <1>1. SourcesOK
    BY DEF Init, SourcesOK
  <1>2. PICK files \in SUBSET File :
          /\ \A f \in files : Deps[f] \subseteq files
          /\ vo = [f \in File |-> IF f \in files THEN Compiled(f) ELSE Absent]
    BY DEF Init
  <1>3. \A f \in files : \A x \in Closure(f) : x \in files /\ vo[f][x] = 0 /\ last[x] = 0
    <2> SUFFICES ASSUME NEW f \in files, NEW x \in Closure(f)
                 PROVE  x \in files /\ vo[f][x] = 0 /\ last[x] = 0
      OBVIOUS
    <2>1. x \in files /\ x \in File
      BY <1>2 DEF Closure
    <2>2. vo[f] = [g \in Closure(f) |-> source[g]]
      BY <1>2 DEF Compiled
    <2>3. source[x] = 0 /\ last[x] = 0
      BY <2>1 DEF Init
    <2> QED
      BY <2>1, <2>2, <2>3
  <1>4. \A f \in files : vo[f] # Absent
    <2>1. VoOK /\ TypeOK
      BY InitIInv DEF IInv
    <2>2. 0 \in Text
      BY EpochAssumption DEF Text
    <2> SUFFICES ASSUME NEW f \in files PROVE vo[f] # Absent
      OBVIOUS
    <2>3. vo[f] = [g \in Closure(f) |-> source[g]]
      BY <1>2 DEF Compiled
    <2>4. \A g \in Closure(f) : source[g] \in Text
      BY <2>2, ClosureFacts DEF Init
    <2>5. vo[f] \in [Closure(f) -> Text]
      BY <2>3, <2>4
    <2> QED
      BY <2>5, EpochAssumption
  <1>5. DiskOK
    <2> SUFFICES ASSUME NEW f \in File, vo[f] # Absent
                 PROVE  /\ \A x \in Closure(f) : vo[f][x] <= last[x]
                        /\ \A g \in Closure(f) : NoOlder(g, vo[f], vo[g])
      BY DEF DiskOK
    <2>1. f \in files
      BY <1>2
    <2>2. \A x \in Closure(f) : vo[f][x] <= last[x]
      BY <1>3, <2>1
    <2>3. ASSUME NEW g \in Closure(f) PROVE NoOlder(g, vo[f], vo[g])
      <3>1. g \in files /\ Closure(g) \subseteq Closure(f)
        BY <1>3, <2>1, ClosureFacts
      <3> QED
        BY <1>3, <1>4, <2>1, <3>1 DEF NoOlder
    <2> QED
      BY <2>2, <2>3
  <1>6. PriorOK /\ EpochOK
    BY IdleFacts DEF Init, PriorOK, EpochOK, Kept, Nothing, At
  <1> QED
    BY <1>1, <1>5, <1>6 DEF EInv

\* Every step keeps it, when no edit brings earlier bytes back.
LEMMA NextEInv == ASSUME ~Reverts PROVE IInv /\ IInv' /\ EInv /\ [Next]_vars => EInv'
  <1> SUFFICES ASSUME IInv, IInv', EInv, [Next]_vars PROVE EInv'
    OBVIOUS
  <1>1. CASE UNCHANGED vars
    <2>1. \A x \in File : last[x] \in 0..MaxText
      BY DEF IInv, TypeOK, Text
    <2>2. \A x \in File : last[x] <= last'[x]
      BY <1>1, <2>1, EpochAssumption DEF vars, disk, sources
    <2>3. SourcesOK'
      BY <1>1 DEF EInv, SourcesOK, vars, disk, sources
    <2> QED
      BY <1>1, <2>2, <2>3, EditedEInv DEF vars, disk, sources, runtime, pet
  <1>2. CASE AttachLoad \/ AttachProbe \/ Admit \/ RefreshProbe
    BY <1>2, OutsideEInv
  <1>3. CASE RefreshLoad \/ Detach \/ Cancelled
    BY <1>3, RestartsEInv
  <1>4. CASE \E n \in 0..MaxFiles : \E files \in [1..n -> File] : IsInjective(files) /\ Plan(files)
    BY <1>4, PlanEInv
  <1>5. CASE Before \/ BuildSucceeds \/ BuildFails \/ Compare \/ Finish
    BY <1>5, BeforeEInv, BuildSucceedsEInv, BuildFailsEInv, CompareEInv, FinishEInv
  <1>6. CASE Open \/ Audit \/ RecordAudited
    BY <1>6, OpenEInv, AuditEInv, RecordAuditedEInv
  <1>7. CASE \E f \in File, text \in Text : Publish(f, text)
    BY <1>7, PublishEInv
  <1>8. CASE \E f \in File : ForeignBuild(f)
    BY <1>8, ForeignBuildEInv
  <1>9. CASE \E f \in File : \E text \in Text \cup {Gone} : Edit(f, text)
    BY <1>9, EditEInv
  <1>10. CASE \E c \in Config : EditDuneFiles(c)
    BY <1>10, EditDuneFilesEInv
  <1> QED
    BY <1>1, <1>2, <1>3, <1>4, <1>5, <1>6, <1>7, <1>8, <1>9, <1>10 DEF Next

\* Between calls PET keeps no artifact that a build of this server replaced, for
\* any sources and dependencies, as long as no edit brings earlier bytes back:
\* reconcile_artifacts() compares the artifact of the file of the call only, and
\* that shows a replaced dependency because sources, and with them artifacts,
\* only move on.  With edits that go back it does not hold: the run
\* reverted_dependency has the counterexample.
THEOREM EpochsCorrect == ASSUME ~Reverts PROVE Spec => []EpochsFollowBuilds
  <1>1. IInv /\ EInv => EpochsFollowBuilds
    BY DEF EInv, EpochOK, Pending, Kept, EpochsFollowBuilds, At
  <1>2. IInv /\ EInv /\ [Next]_vars => IInv' /\ EInv'
    BY NextIInv, NextEInv
  <1>3. Init => IInv /\ EInv
    BY InitIInv, InitEInv
  <1> QED
    BY <1>1, <1>2, <1>3, PTL DEF Spec

=============================================================================
