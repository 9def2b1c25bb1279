---------------------------- MODULE ProjectEpoch ----------------------------
(***************************************************************************)
(* What PET has loaded against what is on disk: the Dune layout with its   *)
(* probe (engine.rs: attach, refresh_project), and the compiled artifacts  *)
(* with the fingerprint cache (adapter.rs: reconcile_artifacts).           *)
(*                                                                         *)
(* One call runs at a time, under the project barrier.  Editors, changes   *)
(* of Dune files and builds outside the server do not take it.             *)
(*                                                                         *)
(* A text stands for the bytes of a source, an artifact for the texts it   *)
(* was compiled from, its own and those of its dependencies: a .vo records *)
(* the digests of what it requires, so different texts give different      *)
(* artifacts.  Opening a file makes PET load the artifacts below it that   *)
(* it does not have yet.  A PET that has nothing loaded and no PET at all  *)
(* are the same here.                                                      *)
(***************************************************************************)
EXTENDS Naturals, Sequences, SequencesExt

CONSTANTS
    File,       \* sources of the project
    Deps,       \* for each file, the files it requires, directly or not
    MaxText,    \* bound: texts of a source are 0..MaxText
    MaxEdits,   \* bound: edits of sources and Dune files
    MaxFiles,   \* bound: files one call needs the consumers of
    Rules,      \* the compilation rules that each state of the Dune files has
    Broken,     \* Dune files without rules, and what they describe
    Gone,       \* no source at the path
    Absent,     \* no artifact, no fingerprint, no anchor
    Reverts     \* may an edit bring back earlier bytes?

Text == 0..MaxText
Config == DOMAIN Rules
Closure(f) == {f} \cup Deps[f]

ASSUME EpochAssumption ==
    /\ Deps \in [File -> SUBSET File]
    /\ \A f \in File : f \notin Deps[f] /\ \A g \in Deps[f] : Deps[g] \subseteq Deps[f]
    /\ MaxText \in Nat /\ MaxEdits \in Nat /\ MaxFiles \in Nat
    /\ 0 \in Config /\ Config \subseteq Nat
    /\ \A c \in Config : Rules[c] # Broken => \A rule \in Rules[c] :
          rule.file \in File /\ rule.inside \in BOOLEAN
    /\ Gone \notin Text /\ Reverts \in BOOLEAN
    /\ \A f \in File : Absent \notin [Closure(f) -> Text]

VARIABLES
    source,     \* bytes of each source
    vo,         \* compiled artifact of each source
    config,     \* the Dune files
    known,      \* a ProjectRuntime exists
    layout,     \* DuneProject.layout
    probe,      \* DuneProject.probe
    cache,      \* ProjectRuntime.artifacts: fingerprint of each file
    loaded,     \* artifacts in PET
    call,       \* the call inside the barrier
    anchor,     \* what the declaration opened by the last call is anchored to
    last,       \* history: the bytes a source has, or had before it was removed
    slipped,    \* history: Dune files changed between the query of the layout
                \* that is kept and its probe
    unseen,     \* history: loaded artifacts replaced by builds of others, or by
                \* the first build of a file that requires them
    skipped,    \* history: an error discarded an epoch boundary
    edits       \* edits so far

sources == <<source, last>>
disk == <<sources, vo, config, edits>>
runtime == <<known, layout, probe, cache, slipped>>
pet == <<loaded, unseen, skipped>>
vars == <<disk, runtime, pet, call, anchor>>

Idle == [pc |-> "idle", files |-> <<>>, todo |-> <<>>, boundary |-> FALSE,
         before |-> Absent, probe |-> Absent, layout |-> {}, views |-> {},
         late |-> {}]

At(place) == call.pc = place
Goto(place) == call' = [call EXCEPT !.pc = place]
Answered == call' = Idle
Nothing == [f \in File |-> Absent]

\* actor.restart() and refresh_workspace(): nothing that was loaded survives.
Restart ==
    /\ loaded' = Nothing
    /\ unseen' = {}
    /\ skipped' = FALSE

-----------------------------------------------------------------------------
(* Dune.                                                                   *)

CanBuild(f) == \A g \in Closure(f) : source[g] # Gone

Compiled(f) == [g \in Closure(f) |-> source[g]]

\* dune build brings the artifacts of some files up to date.
Built(files) == [f \in File |-> IF f \in files THEN Compiled(f) ELSE vo[f]]

\* What a build of f that fails may have done: some of its dependencies are
\* compiled, each one after its own.
Partial(f) ==
    {files \in SUBSET Deps[f] :
        \A g \in files : CanBuild(g) /\ Deps[g] \subseteq files}

-----------------------------------------------------------------------------
(* The layout.                                                             *)

\* layout_probe(): the contents of the Dune files, the names of the sources.
ProbeOf(c, src) == [config |-> c, present |-> {f \in File : src[f] # Gone}]
Probe == ProbeOf(config, source)

\* Layout::load(): Dune's rules whose source exists, unless one leads out of
\* the project or two of them agree on the source or the logical library.  A
\* Dune that cannot describe its rules, or describes another workspace, is
\* Broken too.
LayoutOf(c, src) ==
    LET rules == IF Rules[c] = Broken THEN {} ELSE {x \in Rules[c] : src[x.file] # Gone}
        clash(x, y) == x # y /\ (x.library = y.library \/ x.file = y.file)
    IN IF \/ Rules[c] = Broken
          \/ \E x \in rules : ~x.inside \/ \E y \in rules : clash(x, y)
       THEN Broken
       ELSE {[file |-> x.file, library |-> x.library] : x \in rules}
Layout == LayoutOf(config, source)

\* The sources a layout selects.
Selected(l) == {x.file : x \in l}

\* start: Engine::attach() asks Dune first and takes the probe afterwards.  An
\* invalid layout is an error.
AttachLoad ==
    /\ At("idle")
    /\ call' = IF Layout = Broken THEN Idle
               ELSE [Idle EXCEPT !.pc = "attach", !.layout = Layout, !.probe = Probe]
    /\ anchor' = Absent
    /\ UNCHANGED <<disk, runtime, pet>>

\* ServerRuntime::project(): a runtime that exists keeps its own view.
AttachProbe ==
    /\ At("attach")
    /\ known' = TRUE
    /\ IF known
       THEN UNCHANGED <<layout, probe, cache, slipped>>
       ELSE /\ layout' = call.layout
            /\ slipped' = (Probe # call.probe)
            /\ probe' = Probe
            /\ cache' = Nothing
    /\ call' = [Idle EXCEPT !.pc = "refresh", !.views = {Layout}]
    /\ UNCHANGED <<disk, pet, anchor>>

\* Any other call takes the barrier.
Admit ==
    /\ At("idle")
    /\ known
    /\ call' = [Idle EXCEPT !.pc = "refresh", !.views = {Layout}]
    /\ anchor' = Absent
    /\ UNCHANGED <<disk, runtime, pet>>

\* refresh_project(): the probe comes first, Dune is asked only if it changed.
RefreshProbe ==
    /\ At("refresh")
    /\ call' = IF Probe = probe THEN [call EXCEPT !.pc = "plan"]
               ELSE [call EXCEPT !.pc = "load", !.probe = Probe]
    /\ UNCHANGED <<disk, runtime, pet, anchor>>

\* Mutant of RefreshLoad: the probe is recorded although the query failed.
RefreshRecordsFirst ==
    /\ At("load")
    /\ probe' = call.probe
    /\ \/ /\ Layout = Broken
          /\ Answered
          /\ UNCHANGED <<layout, cache, slipped, pet>>
       \/ /\ Layout # Broken
          /\ layout' = Layout
          /\ slipped' = (Probe # call.probe)
          /\ cache' = Nothing /\ Restart
          /\ Goto("plan")
    /\ UNCHANGED <<disk, known, anchor>>

\* A layout that cannot be read fails the call.  A different one begins an
\* epoch before anything else happens.
RefreshLoad ==
    /\ At("load")
    /\ \/ /\ Layout = Broken
          /\ Answered
          /\ UNCHANGED <<runtime, pet>>
       \/ /\ Layout # Broken
          /\ layout' = Layout
          /\ probe' = call.probe
          /\ slipped' = (Probe # call.probe)
          /\ IF layout' = layout
             THEN UNCHANGED <<cache, pet>>
             ELSE cache' = Nothing /\ Restart
          /\ Goto("plan")
          /\ UNCHANGED known
    /\ UNCHANGED <<disk, anchor>>

\* The files whose consumers the call needs, each one once; none for start and
\* list_files.
Plan(files) ==
    /\ At("plan")
    /\ ToSet(files) \subseteq Selected(layout)
    /\ call' = IF files = <<>> THEN Idle
               ELSE [call EXCEPT !.pc = "before", !.files = files, !.todo = files,
                                 !.views = @ \cap {layout}]
    /\ UNCHANGED <<disk, runtime, pet, anchor>>

\* The last session leaves: the runtime and its PET go.
Detach ==
    /\ At("idle")
    /\ known
    /\ known' = FALSE
    /\ Restart
    /\ UNCHANGED <<disk, layout, probe, cache, slipped, call, anchor>>

-----------------------------------------------------------------------------
(* reconcile_artifacts()                                                   *)

Current == Head(call.todo)

Fingerprint(f) == [source |-> source[f], vo |-> vo[f]]

\* reject_cancelled(): dispatch() ends the epoch of a cancelled call, as it
\* does when PET is lost.
Cancelled ==
    /\ At("before") \/ At("open")
    /\ Restart
    /\ Answered
    /\ UNCHANGED <<disk, runtime, anchor>>

\* The fingerprint before the build.  Its error is no loss of PET, and leaves
\* the loop without a look at the boundary found so far.
Before ==
    /\ At("before")
    /\ \/ /\ source[Current] = Gone
          /\ skipped' = (skipped \/ call.boundary)
          /\ Answered
          /\ UNCHANGED <<loaded, unseen>>
       \/ /\ source[Current] # Gone
          /\ call' = [call EXCEPT !.pc = "build", !.before = Fingerprint(Current)]
          /\ UNCHANGED pet
    /\ UNCHANGED <<disk, runtime, anchor>>

\* Mutant of BuildSucceeds: an artifact that is there is taken to be current.
BuildOnlyMissing ==
    /\ At("build")
    /\ CanBuild(Current)
    /\ vo' = IF vo[Current] = Absent THEN Built(Closure(Current)) ELSE vo
    /\ Goto("after")
    /\ UNCHANGED <<sources, config, edits, runtime, pet, anchor>>

\* Loaded artifacts that the build in vo' replaces.
Replaced == {g \in File : loaded[g] # Absent /\ vo'[g] # vo[g]}

BuildSucceeds ==
    /\ At("build")
    /\ CanBuild(Current)
    /\ vo' = Built(Closure(Current))
    /\ unseen' = IF cache[Current] = Absent /\ call.before.vo = Absent
                 THEN unseen \cup Replaced ELSE unseen
    /\ Goto("after")
    /\ UNCHANGED <<sources, config, edits, runtime, loaded, skipped, anchor>>

\* record_artifact() and forget_artifact().
Record(f, fingerprint) == cache' = [cache EXCEPT ![f] = fingerprint]
Forget(f) == cache' = [cache EXCEPT ![f] = Absent]

\* An error of the build, or a source that is gone after it, ends the epoch.
BuildFails ==
    /\ \/ At("build") /\ \E files \in Partial(Current) : vo' = Built(files)
       \/ At("after") /\ source[Current] = Gone /\ UNCHANGED vo
    /\ Forget(Current)
    /\ Restart
    /\ Answered
    /\ UNCHANGED <<sources, config, edits, known, layout, probe, slipped, anchor>>

\* Mutant of Boundary: the cache decides alone.
BoundaryByCache(built) ==
    cache[Current] # Absent /\ cache[Current] # built

\* The build changed what may have been loaded.
Boundary(built) ==
    IF cache[Current] # Absent
    THEN cache[Current] # built
    ELSE call.before.vo # Absent /\ call.before # built

Compare ==
    /\ At("after")
    /\ source[Current] # Gone
    /\ LET built == Fingerprint(Current)
           rest == Tail(call.todo)
       IN /\ Record(Current, built)
          /\ call' = [call EXCEPT !.boundary = @ \/ Boundary(built),
                                  !.todo = rest, !.before = Absent,
                                  !.pc = IF rest = <<>> THEN "finish" ELSE "before"]
    /\ UNCHANGED <<disk, known, layout, probe, slipped, pet, anchor>>

\* At most one epoch for the whole list.
Finish ==
    /\ At("finish")
    /\ IF call.boundary THEN Restart ELSE UNCHANGED pet
    /\ Goto("open")
    /\ UNCHANGED <<disk, runtime, anchor>>

-----------------------------------------------------------------------------
(* What the calls do with the files.                                       *)

\* PET parses the copy of the source that Dune built; Engine::declarations()
\* takes the digest of the source itself.
AnchorTo(f) ==
    anchor' = IF source[f] = Gone THEN Absent
              ELSE [rows |-> vo[f][f], digest |-> source[f], late |-> f \in call.late]

\* PET opens the files of the call, and loads what they require; a search for
\* a symbol stops at its limit.
Open ==
    /\ At("open")
    /\ \E n \in 1..Len(call.files) :
          LET opened == ToSet(SubSeq(call.files, 1, n)) IN
          /\ loaded' = [g \in File |->
                          IF loaded[g] = Absent /\ \E f \in opened : g \in Closure(f)
                          THEN vo[g] ELSE loaded[g]]
          /\ \E f \in opened : AnchorTo(f)
    /\ Answered
    /\ UNCHANGED <<disk, runtime, unseen, skipped>>

\* A new epoch, in which PET has opened f alone.
RestartWith(f) ==
    /\ loaded' = [g \in File |-> IF g \in Closure(f) THEN vo'[g] ELSE Absent]
    /\ unseen' = {}
    /\ skipped' = FALSE

\* build_and_refresh() for prove on a finished proof: another build, then PET
\* is refreshed or replaced whatever the build said, then f is audited, which
\* may fail.
Audit ==
    /\ At("open")
    /\ LET f == Head(call.files) IN
       \/ /\ CanBuild(f)
          /\ vo' = Built(Closure(f))
          /\ RestartWith(f)
          /\ call' \in {Idle, [call EXCEPT !.pc = "record", !.files = <<f>>]}
       \/ /\ \E files \in Partial(f) : vo' = Built(files)
          /\ Restart
          /\ Answered
    /\ UNCHANGED <<sources, config, edits, runtime, anchor>>

\* check closes a proof in f and publishes it.  Writeback has the steps of
\* the transaction; here it is one that succeeds, or puts the bytes back and
\* builds and refreshes again.
Publish(f, text) ==
    /\ At("plan")
    /\ f \in Selected(layout)
    /\ CanBuild(f)
    /\ edits < MaxEdits
    /\ text # source[f]
    /\ ~Reverts => text > last[f]
    /\ edits' = edits + 1
    /\ \/ /\ source' = [source EXCEPT ![f] = text]
          /\ last' = [last EXCEPT ![f] = text]
          /\ vo' = [g \in File |-> IF g \in Closure(f)
                                   THEN [h \in Closure(g) |-> source'[h]] ELSE vo[g]]
          /\ RestartWith(f)
          /\ call' = [call EXCEPT !.pc = "record", !.files = <<f>>]
          /\ UNCHANGED cache
       \/ /\ UNCHANGED sources
          /\ \E files \in Partial(f) \cup {Closure(f)} : vo' = Built(files)
          /\ Forget(f)
          /\ Restart
          /\ Answered
    /\ UNCHANGED <<config, known, layout, probe, slipped, anchor>>

\* The audit or the publication succeeded: the fingerprint is taken now.
\* If that fails, check forgets the old one and prove does not.
RecordAudited ==
    /\ At("record")
    /\ LET f == Head(call.files) IN
       IF source[f] = Gone THEN Forget(f) \/ UNCHANGED cache
       ELSE Record(f, Fingerprint(f))
    /\ Answered
    /\ UNCHANGED <<disk, known, layout, probe, slipped, pet, anchor>>

-----------------------------------------------------------------------------
(* The rest of the world.                                                  *)

\* Every layout from the admission of the call to its use of one.
Seen(l) == IF call.pc \in {"refresh", "load", "plan"} THEN call.views \cup {l}
           ELSE call.views

\* Sources of this call that are already built.
Owned == IF call.pc \in {"before", "build"}
         THEN ToSet(call.files) \ ToSet(call.todo)
         ELSE IF At("after") THEN (ToSet(call.files) \ ToSet(call.todo)) \cup {Current}
         ELSE ToSet(call.files)

Edit(f, text) ==
    /\ edits < MaxEdits
    /\ text # source[f]
    /\ text # Gone /\ ~Reverts => text >= last[f]
    /\ source' = [source EXCEPT ![f] = text]
    /\ last' = IF text = Gone THEN last ELSE [last EXCEPT ![f] = text]
    /\ edits' = edits + 1
    /\ call' = [call EXCEPT !.late = IF f \in Owned THEN @ \cup {f} ELSE @,
                            !.views = Seen(LayoutOf(config, source'))]
    /\ UNCHANGED <<vo, config, runtime, pet, anchor>>

EditDuneFiles(c) ==
    /\ edits < MaxEdits
    /\ c # config
    /\ ~Reverts => c > config
    /\ config' = c
    /\ call' = [call EXCEPT !.views = Seen(LayoutOf(c, source))]
    /\ edits' = edits + 1
    /\ UNCHANGED <<sources, vo, runtime, pet, anchor>>

\* Somebody runs dune build outside the server.
ForeignBuild(f) ==
    /\ CanBuild(f)
    /\ vo' = Built(Closure(f))
    /\ vo' # vo
    /\ unseen' = unseen \cup Replaced
    /\ UNCHANGED <<sources, config, edits, runtime, loaded, skipped, call, anchor>>

Init ==
    /\ source = [f \in File |-> 0]
    /\ last = source
    /\ \E files \in SUBSET File :
          /\ \A f \in files : Deps[f] \subseteq files
          /\ vo = [f \in File |-> IF f \in files THEN Compiled(f) ELSE Absent]
    /\ config = 0
    /\ known = FALSE
    /\ layout = {}
    /\ probe = Absent
    /\ cache = Nothing
    /\ loaded = Nothing
    /\ call = Idle
    /\ anchor = Absent
    /\ unseen = {}
    /\ slipped = FALSE
    /\ skipped = FALSE
    /\ edits = 0

Next ==
    \/ AttachLoad \/ AttachProbe \/ Admit \/ RefreshProbe \/ RefreshLoad \/ Detach
    \/ \E n \in 0..MaxFiles : \E files \in [1..n -> File] : IsInjective(files) /\ Plan(files)
    \/ Cancelled \/ Before \/ BuildSucceeds \/ BuildFails \/ Compare \/ Finish
    \/ Open \/ Audit \/ RecordAudited
    \/ \E f \in File, text \in Text : Publish(f, text)
    \/ \E f \in File : ForeignBuild(f) \/ \E text \in Text \cup {Gone} : Edit(f, text)
    \/ \E c \in Config : EditDuneFiles(c)

Spec == Init /\ [][Next]_vars

-----------------------------------------------------------------------------

Places == {"idle", "attach", "refresh", "load", "plan", "before", "build", "after",
           "finish", "open", "record"}

Bytes == Text \cup {Gone}
Artifacts == {Absent} \cup UNION {[Closure(f) -> Text] : f \in File}
Probes == [config : Config, present : SUBSET File] \cup {Absent}
Fingerprints == [source : Bytes, vo : Artifacts] \cup {Absent}
Layouts == {LayoutOf(c, src) : c \in Config, src \in [File -> Bytes]} \cup {{}}
Calls == [pc : Places, files : Seq(File), todo : Seq(File), boundary : BOOLEAN,
          before : Fingerprints, probe : Probes, layout : Layouts,
          views : SUBSET Layouts, late : SUBSET File]

\* Disk, runtime, PET and call stay in their types.
TypeOK ==
    /\ source \in [File -> Bytes] /\ last \in [File -> Text]
    /\ vo \in [File -> Artifacts]
    /\ config \in Config
    /\ known \in BOOLEAN /\ layout \in Layouts /\ probe \in Probes
    /\ cache \in [File -> Fingerprints]
    /\ loaded \in [File -> Artifacts]
    /\ call \in Calls
    /\ slipped \in BOOLEAN /\ skipped \in BOOLEAN /\ unseen \subseteq File
    /\ edits \in 0..MaxEdits

\* Between calls PET keeps no artifact that a build of this server replaced:
\* such a build begins an epoch, whether it succeeded or not and whichever of
\* the files of the call it was for.  The exceptions are builds of others, the
\* first build of a file (adapter.rs takes it that nothing it replaces can be
\* loaded), and an error that left the loop with a boundary already found.
EpochsFollowBuilds ==
    At("idle") => \A g \in File :
        loaded[g] \in {Absent, vo[g]} \/ g \in unseen \/ skipped

\* The layout that serves a call is one that the Dune files described at some
\* time between its admission and its first use of it.  A call that finds the
\* probe unchanged may miss a change that fell between the query and the probe
\* of an earlier call; one that asks Dune itself misses nothing.
ServedLayoutIsFresh ==
    call.pc \in {"before", "build", "after", "finish", "open"} =>
        layout \in call.views \/ (slipped /\ call.probe = Absent)

\* The ranges of a declaration come from the bytes whose digest anchors it, so
\* a publication that finds the digest unchanged writes where PET looked: the
\* only window is an edit after the file was built and before it is opened.
AnchorsMatch ==
    anchor # Absent => anchor.rows = anchor.digest \/ anchor.late

=============================================================================
