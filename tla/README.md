# TLA+ models of rocq-mcp

rocq-mcp is an MCP server through which a client proves Rocq theorems inside a
Dune project. Several connections may work in one project. They share one
`pet` (petanque) process, which evaluates proof fragments and keeps proof
states under small integer ids. The hard part of the server is the ownership of
those ids: they die with the process, a new process hands the same integers out
again, and a client's proof must survive all of that. The second hard part is
publication: writing a finished proof into a source file that editors and
version control write too.

This directory models those two parts and what they rest on: the gate every
request goes through, the locks of the sessions, the transport to PET, the
reconciliation of PET with what Dune builds, and the Dune processes themselves.
Paths below are relative to `src/crates/`.

## 1. Inventory

| Component | State | Operations | Talks to |
|---|---|---|---|
| Checkpoint graph, `rocq-mcp/src/checkpoint.rs` | id counter; selected proof: target, current checkpoint, nodes (parent, PET handle, input, finished) | begin, commit, select, steps_back, clear, invalidate_states, path, fragments | owned by a session; called by the adapter |
| Tool calls, `rocq-mcp/src/adapter.rs` | none of its own; locals of one call (staged states, temporary state, close result) | start, list_files, list_decls, query, declare, prove, abandon, check, try, rewind; reconcile_artifacts, replay_checkpoint, retire_proof | sessions, engine, PET actor |
| Sessions and project runtimes, `rocq-mcp/src/server.rs` | registry of sessions (weak), registry of projects, project barrier, per-session selection, admission mutex, progress record | call_tool, invalidate_project_states, progress, Drop | adapter, PET actor |
| Request cancellation, `rocq-engine/src/request.rs` | one atomic word per request: active, cancelled, committed, timed out | cancel, timeout, commit | call_tool, PET transport, Dune processes |
| PET actor, `rocq-engine/src/pet/mod.rs` | the child process and its exported states | spawn, restart, refresh_workspace, run, run_traced, goals, release_states, document queries | the `pet` executable |
| Engine, `rocq-engine/src/engine.rs` | Dune layout and its probe | attach, refresh_project, open_declaration, declare, replay_root, run, close_proof, publish, validate_published, audits, symbol search | PET actor, Dune, writeback |
| Publication, `rocq-engine/src/writeback.rs` | none; one transaction on the source file, the build directory and PET | prepare, publish, restore_epoch | file system, Dune, PET |
| Artifact fingerprints, `adapter.rs` `reconcile_artifacts`, `engine.rs` `artifact_fingerprint` | per project cache: file to fingerprint | reconcile, record, forget | Dune, PET actor |
| Dune layout, `engine.rs`, `rocq-engine/src/dune/mod.rs` | the rules Dune described and the probe they were read under | attach, refresh_project, load | Dune processes |
| Dune processes, `rocq-engine/src/dune/process.rs`, `dune/mod.rs` | one gate per workspace, one child process group per call | build, describe, with deadlines and one retry | `dune` executable |
| Wire types, schemas, validation | none | decoding | |
| `rocq-e2e` | a trace | replay a recorded session against a server | the server, from outside |

Concurrency: calls of one connection are serialized by its admission mutex,
calls on one project by the project barrier. What is left to interleave is what
takes no lock: the death of PET, cancellation, editors and builds outside the
server, other connections between two calls, and a connection that closes. Calls
in different projects run side by side and share the registries, the selection
mutexes and, if one workspace is reached by two paths, the Dune gate.

What makes each part correct:

* graph: one tree, parents older than children, ids never reused, history never
  rewritten, live handles closed under parents, no handle owned twice;
* calls and sessions: a handle in a checkpoint means what the checkpoint says,
  in the process that runs now; nothing is left behind in PET; a cancelled call
  leaves the graph alone; a call touches other sessions only by forgetting
  their handles; every call is answered;
* publication: the file changes like a compare-and-swap; a failure rolls back;
  PET never stays on an older build than the disk; `Completed` means built and
  audited;
* request gate: an answer "cancelled" means nothing happened; progress records
  belong to the request they name; an interrupted request ends;
* PET transport: a caller gets the answer to its own request; a process that may
  be out of step is never used again and never left behind;
* sessions' locks: nobody waits in a circle; an invalidation is one step seen
  from outside the barrier; every call and every `Drop` returns;
* reconciliation and layout: PET keeps no artifact that a build of this server
  replaced; a call is served from a layout of its own time; a declaration is
  anchored to the bytes PET parsed;
* Dune processes: one command per build directory; nothing outlives the call
  that started it; the answer says who decided; interrupted commands end.

The hazards this list is for are in `PROJECT.json`, each at its line.

## 2. Modules

| Module | Models |
|---|---|
| `CheckpointTree` | the value of a checkpoint book and every method of it, as operators |
| `CheckpointBook` | one book as a state machine: all orders of the adapter's calls on it |
| `ProofSessions` | the sessions of one project, the PET process they share, and the tool calls |
| `SourceCas` | what a publication promises to other writers of the file (abstract) |
| `Writeback` | one publication, step by step, among other writers |
| `RequestGate` | the requests of one connection: admission, worker, cancellation word, watch task, progress record |
| `PetTransport` | `PetActor` and `PetProcess`: child processes, request ids, answers, deadlines, refresh |
| `SessionLocks` | barriers, selection mutexes, the weak session registry and reference counts, across projects |
| `ProjectEpoch` | the Dune layout with its probe, the artifacts on disk, in the fingerprint cache and in PET, several files per call |
| `DuneProcess` | calls of `run_dune`: gates, child processes, compilers they fork, deadlines, the retry, a killed server |
| `MC*` | instances for TLC (symmetry sets, functions for constants) |
| `XProofs` | the theorems about module `X` with their inductive invariants, see section 5: `CheckpointBook`, `Writeback`, `PetTransport`, `DuneProcess`, `RequestGate`, `SessionLocks`, `ProjectEpoch`, `ProofSessions` |

`ProofSessions` uses `CheckpointTree` for its books and instantiates
`CheckpointBook` to say that each session sees just that machine
(`EverySessionIsABook`). `Writeback` instantiates `SourceCas` and implements it
(`IsCompareAndSwap`). `ProofSessions` contains publication only as far as
handles go; `Writeback` has the file, the build and the refresh, and
`ProjectEpoch` what it means for the other files. `ProofSessions` takes an
invalidation of other sessions as one step of a call that runs alone;
`SessionLocks` has the loop with its locks, and `InvalidationIsComplete` is what
justifies the single step. Likewise `RequestGate` assumes that an interrupted
tool ends; `LimitedCallsEnd` of `PetTransport` and `InterruptedRunsEnd` of
`DuneProcess` show it for the two things a tool waits for.

Operators whose comment says "Mutant of X" are deliberately
wrong variants of the definition that follows them. They show that each
property can fail; no specification uses them.

### CheckpointTree and CheckpointBook

A book is a record `next, target, current, nodes`. Ids are `1..MaxId`
(`u64::MAX` in the code), 0 is `None`. `allocate` is a checked addition: at
`MaxId` begin and commit are refused. `commit` without a proof consumes an id
before it is refused, as in the code (`CommitRefused`). The rendered view stored
in a node is left out.

`replay_checkpoint` rebuilds the part of a path from its first checkpoint
without a handle. `MissingSuffix` is that part; `Lineage`, the least set closed
under parents, is the path as a set, so that it needs no recursion and can be
reasoned about. `PathMatchesLineage` says that the recursive `Path` agrees.

### ProofSessions

State: the book of each session; whether it is attached and its connection
open; PET (`none`, `live`, `dead` and not noticed yet) with its table from ids to
contents; the call inside the barrier with its locals; the source text, the
version of its dependencies, and what both were last compiled from; whether the
Dune layout changed.

The content of a PET state is the environment its root was opened in and the
fragments run since. That is all the properties need to tell states apart. PET
gives an export the first id that is free in its own table (`FreeId`), so a new
process repeats old ids at once, which is the worst case for the server.

One action is one PET or Dune request of a call with the code around it. A call
goes `validate`, `reconcile`, then the steps of its tool. The functions of the
code correspond to actions as follows: admission and layout refresh in
`dispatch` are `Admit`; `ensure_current_state` and `replay_checkpoint` are
`ReplayBegin`, `ReplayRoot`, `ReplayStep`, `ReplayInstall`; one alternative of
`check` or `try` is one of `RunAccepted`, `RunRejected`, `RunTimedOut`,
`RunFailed`, `RunGoalsFault`; an accepted one goes to `Discard` (try), or
`CloseProof` and `CommitCheckpoint` (check), and a finished one on to
`BeginEpoch` and `PublishSucceeds`, `PublishFails` or `RollbackFails`; `query` is
`ReadGoals`, `AnswerQuery` at the current state (tool `ask`), or `OpenContext` and
`AnswerQuery` at a source point (tool `at`);
`prove`/`declare` are `OpenDeclaration` and `BeginProof` or `AuditPublished`;
`start` is `Reattach`, or `SwitchAway` and `Attach`; `Drop` for `SessionCell` is
`Disconnect` (the last reference goes) and `DropSession` (it gets the barrier).
`EndEpoch` is the tail of `dispatch` for `PetLost`, `ProofStepTimeout` and
`RequestCancelled`.

A `start` whose release is refused by PET and an admission whose layout refresh
fails end with an error and change none of this state: they are stutters.

`Faults` names rare events that break a property of `sessions`; `sessions_deep`
has them all, for the properties that survive. See section 4.

### Writeback

State: the bytes at the path, the bytes the artifacts were built from, what PET
has loaded, the position in the transaction and its verdict. Texts are opaque:
the anchored one, the replacement, a missing file, and what editors leave.
Digest comparisons compare texts. Other writers may come at any point, also
between a digest check and the rename it guards: that interval, which the design
names as a risk, is the history variable `raced`, and `SourceCas` allows a swap
to hit other bytes only when it is set. `RollbackGivenUp` is the outcome in which
the anchored bytes could not be written back. `AuditErrors` tells the errors of the
validate closure apart: it can answer `DeclarationChanged` by itself
(`declaration`), which `Failure` passes on also when the bytes were restored.

### RequestGate

State: for each request of one connection its place in `call_tool`, the client's
cancellation, its word, its watch task, what it did and what it returned; the
admission queue and mutex, the project barrier, and the progress record with its
generation and, as history, the request it was begun for. A `start` with a relative path (`Relative`) first asks the
client for its roots (`resolving`), before it is admitted or watched: only the
client's answer or its cancellation ends that wait. The admission mutex is
tokio's and therefore first in, first out; the barrier is a plain mutex that
calls of other connections (`Other`) take in any order. What a tool does is
reduced to passing its commit point or not, reporting progress, returning,
panicking, or hanging. `Mirror` and `Deadline` are the two branches of the watch
task; `Swap` is the compare-and-exchange they and `Commit` race for.

### PetTransport

State: what the actor holds (`ActorState`), the newest child with its request
counter, its pipe and what PET itself is doing, the children not reaped, and the
call in flight. `Call` is one of `call_in_workspace`, `call_live` and
`refresh_workspace`; a call goes through `ensure` (spawn, handshake, workspace)
and one or more requests, each `send` then `wait`. A frame has a request id, the
call it was computed for (history) and a body: a value, a value of the wrong
shape (`odd`), a refusal, or garbage. PET may also repeat frames, hang and die.
Writing a request is one step: PET takes it from its reading loop, and
`KeptProcessOwesNothing` shows that it is there unless PET speaks unasked.

### SessionLocks

State: the owner of each project's barrier and of each session's selection
mutex, the registry, the strong references of each `SessionCell`, what a session
is attached to and what its checkpoints hold (nothing, states of the running PET,
or of one that was replaced), and one worker per session. A worker goes `find`
(which project?), `enter` (barrier), `select` (selection mutex), `work`, `leave`,
`end`; `start` from another project goes back to `enter` with both locks released
(`SwitchAway`). `invalidate_project_states` is `Upgrade`, which takes a strong
reference of every live session, and a loop of `VisitSelf` and `Visit`, which
locks each other session, whatever its project. Whoever lets go of the last
reference runs `SessionCell::drop` (`DropEnter`, `DropRelease`) on its own
thread, with the locks it then holds (`LetGo`). `Invalidators` and `Closers` say
whose calls may replace PET and who may disconnect. They bound the runs; the
theorems hold for all of them. `WaitsInLoop`, `DropBlocksItself` and
`LoopsBlockEachOther` name the places where the code does wait in a circle.

### ProjectEpoch

State: sources, artifacts and Dune files on disk; layout, probe and fingerprint
cache of the runtime; what PET has loaded; the call inside the barrier. A text is
a number; an artifact is the texts it was compiled from, its own and those below
it. `Rules` gives the rules that each state of the Dune files describes, and
`LayoutOf` is what `Layout::load` makes of them: rules without a source are
dropped, a rule outside the project or a clash of sources or libraries is an
error. A call goes `refresh` (probe), `load` (ask Dune again), `plan` (which
files), then for each file `before`, `build`, `after` (fingerprints and build of
`reconcile_artifacts`), `finish` (the epoch boundary, at most one) and `open`.
`Audit` and `Publish` build and refresh by themselves, and `RecordAudited` is the
fingerprint both take afterwards. Editors, Dune files and foreign builds change
at any point.

The code has four windows in which a change goes unnoticed. Each is a history
variable, so that the properties say exactly how far they reach: `slipped` (Dune
files changed between the query whose layout is kept and the probe kept with it:
attach probes after its query, `engine.rs:260`, and `refresh_project` before it), `unseen`
(foreign builds, and the first build of a file, which is not a boundary,
`adapter.rs:627`), `skipped` (an error of a later file discards the boundary an
earlier one found, `adapter.rs:598`) and `late` (an edit after the build and
before the digest, `engine.rs:1125`). A further history variable, `last`, has the
bytes of a source that was removed, so that "no edit brings earlier bytes back"
includes a file that comes back.

The second half of `slipped` was found by the attempt to prove
`ServedLayoutIsFresh`: `refresh_project` records the probe it took before the
query, so if the Dune files change in between and change back later, a later call
finds its probe unchanged and is served the layout in between. It takes three
edits, one more than the run has. The call that asks Dune itself is always served
a layout of its own time, and the property says so.

### DuneProcess

State: each call's locals, its direct child, the attempts that still have
compilers running, and the registry of gates by canonical path. `FindGate` and
`LockGate` are `dune_workspace_gate` and the lock; one attempt is `Spawn`,
polling (`StillRunning`, `PollAgain`, `KillInterrupted`), `Reap`, `Sweep` (the
process group is killed), `Join` (the pipe readers); `Settle` and `Broken` decide
between a result and the one retry, and `Report` is the outcome `native_build`
and `dune_describe` give. Dune may fork, exit, die of a signal or hang. `Crash`
kills the server: direct children get the parent-death signal, their compilers
do not.

## 3. What the runs check

| Run | Instance | Shows |
|---|---|---|
| `book` | 4 ids, 4 handles, handles symmetric | the graph's invariants under every order of operations |
| `sessions` | 2 sessions, 2 ids each, 2 alternatives, 2 source texts, 2 dependency versions | `HandlesFaithful`, `StatesHaveOneOwner`, `ReplacementStartsClean`: ownership of PET states; `CancelledLeavesGraphs`, `GraphsChangeOnlyByOwner`, `EverySessionIsABook`: what calls do to graphs |
| `sessions_deep` | 1 session, 3 ids, 2 alternatives, all faults | `PublishesWhatWasClosed` through branches and replays; `CallsAreAnswered` |
| `writeback` | up to 3 external edits | `IsCompareAndSwap`, `PetHasFinalBuild`, `UndisturbedFailureRollsBack`, `CompletedWasBuiltAndAudited`; `Answers` |
| `request_gate` | a query and a `start` with a relative path, one call of another connection | `CancelledHasNoEffect`, `RecordIsTruthful`; `CancelledCallsEnd`, `WatchdogEndsQueries` |
| `pet_transport` | 3 calls, 2 workspaces, 4 request ids per process, 1 stray frame, 1 build | `AnswerIsForTheCall`, `KeptProcessOwesNothing`, `NoOrphan`, `WorkspaceIsLoaded`, `RefreshIsFresh`; `LimitedCallsEnd` |
| `session_locks` | 2 sessions, 2 projects, 3 calls each, one of them invalidates and only that one closes | `NoCircularWait`, `InvalidationIsComplete`; `EveryCallReturns` |
| `project_epoch` | 2 files over a shared dependency, 3 states of the Dune files, 2 edits | `EpochsFollowBuilds`, `ServedLayoutIsFresh`, `AnchorsMatch` |
| `dune_process` | 2 calls, 2 spellings of one workspace, 3 kinds of call, 1 crash | `OneCommandPerBuildDir`, `NoChildOutlivesCall`, `AnswerSaysWhoDecided`; `InterruptedRunsEnd` |

Bounds. Two sessions are enough for one to lose or release what another owns,
and sessions only interact through PET and invalidation, pairwise. Two ids give
a root and a child, so a suffix of length two is replayed and staged; three ids
give a branch. Two alternatives let a timeout happen before another one.
`sessions_deep` has one fragment, so its texts differ in length only; with two the
run no longer ends in minutes, and the theorem covers any set of fragments.
`PetId` bounds PET's table, which nothing bounds in the code: an export needs a
free id (`HasRoom`). Three edits let the file change away, back and away again.
`MaxId` being reached is itself a case of the code, the checked allocation.
In `request_gate` two requests are enough for one to wait behind, overtake or
outlive another, and one foreign call for the barrier to be taken when a request
wants it. In `pet_transport` three calls let one leave something behind, a second
meet it and a third use what the second left; four ids cover a handshake, a
workspace and a request, and a process that runs out of them.
In `session_locks` two sessions in two projects are the smallest circle, and three
calls let a session attach, work and switch. In `project_epoch` the shared
dependency is what one file's build replaces under the other; a call takes up to
two files (`MaxFiles`); two edits let a source and a Dune file change in one call; the three
states of the Dune files are one that describes all files, one with a clash (an
error) and one that drops two files. Texts grow unless `Reverts` is set: an edit
back to earlier bytes is the subject of section 4. In `dune_process` two calls
contend for one gate, and a crash lets one of them arrive in the next server.

Sessions, source texts and dependency versions are interchangeable, and so are
handles in `book` and the two files over the dependency in `project_epoch`: only
equality is ever tested. In `ProofSessions` PET ids are numbers without symmetry,
because `FreeId` chooses.

Fairness. `CallsAreAnswered` assumes weak fairness of the steps of the call in
flight: one worker runs it to its end and waits for no other call, since it
already holds the barrier. `Answers` assumes it of the transaction. Both
therefore assume that `pet` and `dune` answer each request; the code has a
deadline only for queries, for fragments with `timeout_ms`, and for Dune if the
operator sets one. Nothing is assumed of clients, editors or the death of PET.
`RequestGate` and `PetTransport` show what happens when PET and Dune do not
answer, so they assume nothing of them: only that the worker, the watch task and
its timer run, that a tool interrupted in a wait notices it (which `PetTransport`
shows for PET), and that a call of another connection leaves the barrier. That
last assumption is real: `Mutex::lock` cannot be interrupted, so a request
waiting for the barrier ends no sooner than the call that holds it. The bound
`MaxOther` also means that other connections overtake it finitely often.
`SessionLocks` assumes that every thread runs. Rust's mutexes are not fair, but
there are finitely many calls, so nobody is overtaken for ever. `DuneProcess`
assumes that the thread of a call runs, and nothing of Dune, its compilers or the
clock; that every expired or cancelled command ends is a matter of killing it.
`CHECK_DEADLOCK FALSE` is set for `Writeback`, `RequestGate`, `PetTransport` and
`SessionLocks`, whose transactions, requests and calls come to an end. (A circle
of locks is therefore stated as `NoCircularWait`, and not left to the deadlock
check.)

## 4. Where the code and its documentation disagree

Three runs are expected to fail; each shows one disagreement.

* `late_drop`: a closing connection waits for the barrier with its handles. It
  can no longer be reached by `invalidate_project_states`; if PET is replaced
  meanwhile, its release hits states of another session in the new process.
* `crossed_invalidations`: `invalidate_project_states` locks the selection of
  every session, also of those in other projects, while the caller holds its own.
  Two calls in different projects that do so at once wait for each other. The
  comment on the lock order, and `session_locks`, are about one project's
  barrier; with one invalidating session there is no circle.
* `reverted_dependency`: only the fingerprint of the requested file decides about
  the epoch. If a dependency is edited back to bytes it had before, building
  another file replaces the dependency's artifact while the requested file's own
  fingerprint is what the cache has, and PET keeps the old dependency.

Relatives of these, visible by changing one constant of a passing run or by
removing an exception that a property names:

* PET lost where nobody looks. `Faults = {"enrich"}` breaks `HandlesFaithful` and
  `ReplacementStartsClean` in `sessions`: the import search after a refused
  `declare` ends in `unwrap_or_default()` (`engine.rs:1369`), handles of other
  sessions stay, and a replacement starts. `Faults = {"goals"}` does the same
  through the clean-up release in `materialize_run` (`pet/mod.rs:870`).
* `Faults = {"edit_race"}` breaks `StatesHaveOneOwner` in `sessions`: `check`
  drops a proof whose source changed before publication without releasing its
  states, and `prove` on a published declaration forgets all handles before a
  validation that may refuse.
* `Closers = {s1, s2}` breaks `NoCircularWait` in `session_locks`: if a
  connection closes while `invalidate_project_states` holds the last reference,
  `Drop` runs inside the loop and waits for the barrier its own thread holds
  (`server.rs:415` and `331`).
* With `outcome = "error"` in `UndisturbedFailureRollsBack` instead of its
  condition on `"changed"`, the property fails: the audit of the written
  declaration may itself answer `DeclarationChanged` (`engine.rs:1043`, `1127`,
  `1230`); `publish_with_progress` passes it on after a rollback that restored the
  bytes (`writeback.rs:157`), and `check` drops the proof (`adapter.rs:1198`)
  although its anchor is as it was and nobody else has written.
* Without `RollbackGivenUp`, `PetHasFinalBuild` and `UndisturbedFailureRollsBack`
  fail: if the anchored bytes
  cannot be written back, `restore_epoch` returns before it rebuilds and
  refreshes, against its comment (`writeback.rs:184`).
* With `repl` among `EditorBytes`, `CompletedWasBuiltAndAudited` fails: digests
  are compared at instants, and bytes changed and changed back between two checks
  are built or audited instead (`writeback.rs:126`).
* Without `raced`, `IsCompareAndSwap` fails for the replacement, as the design
  says, and for the rollback as well.
* The four windows of `ProjectEpoch` (`slipped`, `unseen`, `skipped`, `late`) are
  each needed: without it the property that names it fails.
* Compilers that Dune forked survive a killed server (`dune/process.rs:157`),
  though the comment above says "Do not leave a compiler/build tree behind if the
  MCP process is terminated abruptly"; `NoChildOutlivesCall` and
  `OneCommandPerBuildDir` do not cover them. Waiting for the gate is neither
  interruptible nor within the deadline (`dune/process.rs:60`), so
  `InterruptedRunsEnd` starts after it. A Dune that dies of a signal twice is
  reported like a rejected source.

## 5. What is proved

Every theorem holds for all values of the constants that satisfy the module's
`ASSUME`: any number of sessions, requests, callers, sources, edits, ids. The
assumptions say that bounds are natural numbers and that the values standing for
"none" differ from what they are used next to; hypotheses beyond that are named
with the theorem. Each proof has an inductive invariant `IInv`, a conjunction of
named parts, one lemma per action, and a last temporal step.

| Module | Theorems | Of the run's properties | Hypotheses |
|---|---|---|---|
| `CheckpointBookProofs` | `TypeCorrect`, `TreeCorrect`, `AncestorsCorrect`, `HandlesCorrect`, `PathsCorrect`, `IdsCorrect`, `HistoryCorrect` | all properties | |
| `WritebackProofs` | `TypeCorrect`, `PetCorrect`, `RollbackCorrect`, `CompletedCorrect`, `RefinesCompareAndSwap` | all safety properties | `CompletedCorrect`: `Repl \notin EditorBytes` |
| `PetTransportProofs` | `TypeCorrect`, `AnswersCorrect`, `KeptProcessCorrect`, `NoOrphanCorrect`, `WorkspaceCorrect`, `RefreshCorrect` | all safety properties | |
| `DuneProcessProofs` | `TypeCorrect`, `OneCommandCorrect`, `NoChildCorrect`, `AnswerCorrect` | all safety properties | |
| `RequestGateProofs` | `CancellationCorrect`, `RecordCorrect` | all safety properties | |
| `SessionLocksProofs` | `TypeCorrect`, `InvalidationCorrect`, `CirclesNeedTheLoop` | all safety properties, `NoCircularWait` up to the two deadlocks of section 4 | |
| `ProjectEpochProofs` | `TypeCorrect`, `LayoutCorrect`, `AnchorsCorrect`, `EpochsCorrect` | all safety properties | `EpochsCorrect`: `~Reverts` |
| `ProofSessionsProofs` | `SessionsInvariant`, `SessionsTyped`, `CancelledHarmless`, `OnlyOwnersChange` | all safety properties | |
| | `OwnershipInvariant`, `SessionsSeparate`, `SessionsAreBooks`, `ReplacementsStartClean`, `ContentsInvariant`, `HandlesAreFaithful`, `PublishedWasClosed` | | `Mild`, see below |
| | `StatesOwned` | | `Calm`, see below |

Why the invariants are needed, module by module:

* `CheckpointBook`: `TypeOK`, `TreeOK`, `AncestorsRetained` and `HandlesDistinct`
  need each other. That a commit keeps parents older than children needs every id
  to be at most `next`. That a replay keeps handles closed under parents needs two
  facts about paths: a lineage is closed under parents (`LineageClosed`), and the
  missing suffix is upward closed in it because parents are older
  (`SuffixParents`). Distinctness needs exports to be fresh, which is what is
  assumed of PET. `IdsCorrect` and `HistoryCorrect` are action properties that
  follow from `IInv`.
* `Writeback`: what the verdict can be at each place (`VerdictOK`), where PET is
  up to date (`LoadedOK`), what the last digest check still says about the file
  (`IntervalOK`) and what the file is while nobody else writes (`UndisturbedOK`).
  The refinement of `SourceCas` follows from `IntervalOK`: a rename hits the bytes
  that were checked, or `raced` is up. `CompletedCorrect` needs `CurrentOK`: that
  finding one's own bytes still there proves what was built, which is false if an
  editor may write the same bytes.
* `PetTransport`: request ids are behind the counter (`IdsOK`), so an answer with
  the id that is waited for cannot be from before; a process that is used again is
  idle (`QuietOK`), one that is waited for has the request or has answered it
  (`WaitOK`, `HeadOK`); `LoadedOK` and `CacheOK` carry workspace and caches through
  the change that is under way.
* `DuneProcess`: `LocalsOK` relates the locals of a call to its child and process
  groups. `RegistryOK` is the argument for the weak registry: a gate that anybody
  owns is the one that the registry gives to whoever asks next, so that two owners
  in one workspace have one gate, and `MutexOK` lets one of them in.
* `RequestGate`: the word decides about effects (`WordOK`), the admission mutex
  about the record (`AdmissionOK`, `PhaseOK`), and generations identify records
  (`GenerationOK`), so a late update of an older request finds another generation.
* `SessionLocks`: `StaleOK` says that a session that still has a handle of a
  replaced PET is owed a visit by the holder of its project's barrier. It rests on
  who is in the registry (`RefsOK`), who holds which barrier (`BarrierOK`) and on
  nobody but its `Drop` reaching a dropped session (`DropOK`). For
  `CirclesNeedTheLoop` the converse is needed as well: locks are held only by
  threads at a place to hold them (`OwnerOK`). A thread that is waited for and
  waits itself therefore waits inside `invalidate_project_states`
  (`AwaitedInLoop`), so that every circle has a thread there that waits for itself,
  which is a `Drop` (`DropBlocksItself`), or two neighbours there, whose barriers
  are of two projects (`LoopsBlockEachOther`). The theorem has no hypothesis on who
  replaces PET, swaps projects or disconnects; both conditions can come true
  (section 4), and nothing else leads to a circle.
* `ProjectEpoch`: `LayoutOK` says that the probe and the layout that are kept
  belong together unless `slipped`, because what Dune describes is a function of
  what the probe covers (`ProbeDecides`); `OwnedOK` carries the equality of build and
  source to the opening of the file. `EpochsCorrect` is the hardest: why is it
  enough to compare the artifact of the requested file? `DiskOK`: no artifact is
  newer than what it was built from on disk, so a build of a file only moves
  it and all below it forward. `PriorOK`: fingerprints are of artifacts that have
  only been renewed since. A replaced dependency then shows as a strictly newer
  text in the requested file's own artifact (`ReplacementShows`), and `EpochOK` says
  that PET has what is on disk or the call is bound to begin an epoch. All of it
  rests on sources that do not go back, and `reverted_dependency` shows it is
  needed.
* `ProofSessions`: four invariants, each on top of the one before.
  * `TInv`, for all faults: books are trees, and at each place of a call its
    locals are what the code has there. From it alone every step changes a graph
    only as its owner may (`GraphStep`), which gives `CancelledHarmless` and
    `OnlyOwnersChange`.
  * `HInv`, ownership: a handle that a checkpoint or the request keeps is owned
    once, and is in the table of the running process or the loss is just being
    reported (`Unnoticed`). It needs `Mild`: no fault but `edit_race` and
    `rollback`. Section 4 has the reason: with `goals` and `enrich` PET is lost and
    nobody is told, with `disconnect` a session keeps handles where no
    invalidation reaches it. With `HInv` each step is, for each session, one step
    of `CheckpointBook` or none (`BookSteps`): exports are free in PET's table and
    so are not retained by the book, which is what that module assumes of PET.
    `SessionsAreBooks` is the refinement, and what `CheckpointBookProofs` proves
    holds for every session.
  * `FInv`, contents: a state that is kept, staged or about to be handed over has
    the environment of the last build and the fragments of its checkpoint's path.
    Ids are reused, so this does not follow from ownership.
  * `OInv`, the converse of ownership: a state of a live PET has an owner, except
    between `begin_epoch` and the refresh. It needs `Calm`, no fault at all:
    `edit_race` and `rollback` leave states without an owner (section 4).

  `sessions` runs with `Faults = {}`, so the theorems under `Mild` also say more
  than the run about faults. `PublishesWhatWasClosed` is the other way round:
  `sessions_deep` has it with all faults in one session, the theorem for any
  number of sessions under `Mild`.

Recursion. `path()` is a recursive function, and contents are about its values.
The prover has no induction over data, so the proofs reach it by hand: a
predicate says that a function solves the recursion equations of `path()`
(`IsWalk`); a solution exists (`WalkExists`) and is unique (`WalkUnique`), both
because parents are older than children and a set of naturals has a least
counterexample. Two books that agree below a checkpoint then have the same
fragments there (`FragmentsSame`), and a commit appends one (`CommitFragments`).
`PathsCorrect` takes the same route in `CheckpointBookProofs` (the two modules
cannot extend each other, both have a variable `book`): `path()` lists a chain of
parent links (`PathIsChain`), a chain has the elements of the lineage
(`ChainIsLineage`), and the solution of the equations of `steps_back()` climbs it
(`StepsBackClimbs`).

Changes to the models that proofs asked for: `ServedLayoutIsFresh` and `slipped`
(section 2); "no reverts" now covers a source that is removed and comes back
(`last`).

Only model-checked:

* liveness (`CallsAreAnswered`, `Answers`, `CancelledCallsEnd`,
  `WatchdogEndsQueries`, `LimitedCallsEnd`, `EveryCallReturns`,
  `InterruptedRunsEnd`): fairness is out of the prover's reach;
* `PublishesWhatWasClosed` when other faults than those of `Mild` happen, which
  `sessions_deep` checks with one session. The other properties whose theorems
  need `Mild` or `Calm` can fail without it (section 4; `EverySessionIsABook` with
  `Faults = {"enrich"}` and three ids: a commit is handed an id that an old handle
  of the same book still has).

## 6. What is not modelled

* byte framing and size limits of the PET transport, its process group and
  stderr capture: operating-system I/O whose outcome is a result, an error or a
  loss, which the models have;
* the lexer of Dune's S-expressions and the translation of load paths: pure
  parsing of one answer, whose outcome is a set of rules or an error;
* rendering, paging, ranking of symbols, import candidates and the classification of
  assumptions in an audit: functions of PET's answers without state;
* argument schemas, start-up validation and wire types: no state;
* `rocq-e2e`: a test client.

## 7. Plan

In order of what matters most to a user of the server:

1. `CheckpointTree`, `CheckpointBook` and its proofs. Done.
2. `ProofSessions`: all tools, two sessions, PET failures. Done for one project
   and one file per call.
3. `SourceCas`, `Writeback` and its proofs, the refinement included. Done.
4. `RequestGate` and `PetTransport`, and their proofs. Done.
5. `ProjectEpoch`: layout, artifacts, several files per call, and its proofs. Done.
6. `SessionLocks`: locks and reference counts across projects, and its proofs. Done.
7. `DuneProcess`: gates and child processes, and its proofs. Done.
8. Proofs about `ProofSessions`: the step refinement `EverySessionIsABook`, which
   carries the theorems of `CheckpointBook` over to every session; that graphs change
   only by their owner and not by a cancelled call; ownership and contents of PET
   states. Done.
9. What remains true of handles in `ProofSessions` under single faults, as theorems.
