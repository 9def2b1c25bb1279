--------------------------- MODULE ProofSessions ---------------------------
(***************************************************************************)
(* The sessions attached to one Dune project, the PET process they share,  *)
(* and the tool calls of adapter.rs that move PET state ids between them.  *)
(*                                                                         *)
(* A call holds the project operation barrier from admission to its        *)
(* answer, so at most one is in flight (`call').  Its PET requests are     *)
(* separate steps: between two of them PET may die, the client may cancel, *)
(* an editor may write, and a connection may close.  Calls of one          *)
(* connection never overlap: call_tool() admits them one at a time.        *)
(*                                                                         *)
(* PET is external.  What is assumed of it: an exported id names one       *)
(* immutable state until it is released, the workspace is refreshed or the *)
(* process ends; ids are plain integers that a new process hands out again *)
(* from the start.                                                         *)
(***************************************************************************)
EXTENDS CheckpointTree

CONSTANTS
    Session,        \* MCP connections
    Env,            \* versions of the compiled dependencies
    MaxAttempts,    \* alternatives in one check or try (20 in the code)
    Faults          \* the rare events a run admits, see FaultKind

\* disconnect: a connection closes while it still owns a proof.
\* edit_race:  an editor writes the proof's file while a call is running.
\* goals:      PET exports a state and then fails to render its goals.
\* enrich:     declare looks for imports after PET refused its statement.
\* rollback:   publication fails and so does writing the old bytes back.
FaultKind == {"disconnect", "edit_race", "goals", "enrich", "rollback"}

ASSUME SessionsAssumption ==
    /\ PetId \subseteq Nat
    /\ MaxAttempts \in Nat \ {0}
    /\ Faults \subseteq FaultKind
    /\ Null \notin Session

VARIABLES
    book,       \* Selection::checkpoints of each session
    attached,   \* Selection::project is this project
    conn,       \* "open", "dropping" (last Arc gone, waiting), "closed"
    pet,        \* ActorState: the child and its exported states
    call,       \* the request inside the barrier
    source,     \* bytes of the proofs' source file
    upstream,   \* source version of its dependencies
    compiled,   \* bytes the file's own artifacts were built from
    env,        \* version of the dependencies' compiled artifacts
    layout      \* the Dune layout probe has changed since it was last read

vars == <<book, attached, conn, pet, call, source, upstream, compiled, env, layout>>
artifacts == <<compiled, env>>
world == <<source, upstream, artifacts, layout>>
links == <<attached, conn>>

-----------------------------------------------------------------------------
(* The PET actor.  `proc' is "none" without a child, "dead" when the child *)
(* has exited and nobody has noticed yet.                                  *)

NoPet == [proc |-> "none", table |-> NoNodes]

\* ensure_process(): a missing child is replaced by a fresh one.
Spawned == IF pet.proc = "none" THEN [NoPet EXCEPT !.proc = "live"] ELSE pet

\* refresh_workspace(): every exported id is gone, whether the child answered
\* or had to be replaced; NoPet when no replacement could be started.
Refreshed == {NoPet, [NoPet EXCEPT !.proc = "live"]}

\* The id PET gives to its next export.  It depends on the ids in use only, so
\* a fresh process hands out the same ids again.
FreeId(p) == CHOOSE i \in PetId : i \notin DOMAIN p.table

\* The bound on PET's table; nothing bounds it in the code.
HasRoom(p) == DOMAIN p.table # PetId

\* PET exports one more state.
Export(p, content) ==
    [p EXCEPT !.table =
        [i \in DOMAIN p.table \cup {FreeId(p)} |->
            IF i = FreeId(p) THEN content ELSE p.table[i]]]

\* release_states(): exact, and silent about ids PET does not know.
Release(p, ids) ==
    [p EXCEPT !.table = [i \in DOMAIN p.table \ ids |-> p.table[i]]]

\* What an exported state means: the environment its root was opened in and
\* the fragments run since.
RootContent == [env |-> env, frags |-> <<>>]

After(content, input) == [content EXCEPT !.frags = Append(@, input)]

-----------------------------------------------------------------------------
(* The call in flight.                                                     *)

NoCall == [s |-> Null, tool |-> "none", pc |-> "idle", req |-> "active",
           left |-> 0, ret |-> "none", goal |-> 0, todo |-> {},
           staged |-> NoNodes, temp |-> Null, input |-> Null, fin |-> FALSE,
           close |-> "none", anchor |-> Null, closed |-> <<>>]

At(pc) == call.pc = pc

Cancelled == call.req = "cancelled"

Mine == book[call.s]

\* The checkpoint whose PET state the call needs next.
WorkId == IF call.tool = "rewind" THEN call.goal ELSE Mine.current

Handle == Mine.nodes[WorkId].state

\* Mutant of Invalidated: the other sessions are forgotten.
InvalidatedCallerOnly(books, caller) ==
    [books EXCEPT ![caller] = InvalidateStates(books[caller])]

\* Mutant of Invalidated: the other sessions lose their proofs.
ClearedSiblings(books, caller) ==
    [s \in Session |->
        IF s = caller THEN InvalidateStates(books[s])
        ELSE IF conn[s] = "open" /\ attached[s] THEN Clear(books[s]) ELSE books[s]]

\* Mutant of Invalidated: only the current checkpoints lose their handles.
InvalidatedCurrentOnly(books, caller) ==
    [s \in Session |->
        IF Active(books[s]) /\ (s = caller \/ (conn[s] = "open" /\ attached[s]))
        THEN [books[s] EXCEPT !.nodes[books[s].current].state = Null] ELSE books[s]]

\* invalidate_project_states(): the caller's own book, and those of the
\* connections that can still be upgraded and are attached to this project.
Invalidated(books, caller) ==
    [s \in Session |->
        IF s = caller \/ (conn[s] = "open" /\ attached[s])
        THEN InvalidateStates(books[s]) ELSE books[s]]

\* validate_target(): the source still has the bytes the proof is anchored to.
TargetValid == source = Mine.target

\* call_live(): no child, a dead child, or a cancelled request.
LiveCallFails == pet.proc # "live" \/ Cancelled

\* call_in_workspace(): a missing child is spawned instead.
WorkspaceCallFails == pet.proc = "dead" \/ Cancelled

\* Answer the client; nothing else changes.
End == call' = NoCall

\* Answer PetLost, ProofStepTimeout or RequestCancelled: the child is gone (a
\* cancelled request restarts it) and every project handle is forgotten.
EndEpoch ==
    /\ pet' = NoPet
    /\ book' = Invalidated(book, call.s)
    /\ End

\* An error that leaves PET and the books alone.
EndError == End /\ UNCHANGED <<book, pet>>

Goto(pc) == call' = [call EXCEPT !.pc = pc]

Local == UNCHANGED <<links, world>>

-----------------------------------------------------------------------------
(* dispatch(): admission under the barrier.                                *)

\* goals, ask and at are the kinds of query: the selected goals, a question in
\* the context of the selected proof, one at a position of some file.  list
\* stands for list_decls and locate_symbol, which read documents only.
Tool == {"check", "try", "goals", "ask", "at", "rewind", "prove", "declare",
         "list", "abandon"}

\* reject_active_proof() and "call prove first".
Admissible(s, tool) ==
    /\ tool \in {"prove", "declare"} => ~Active(book[s])
    /\ tool \notin {"prove", "declare", "list", "at"} => Active(book[s])

FirstPc(tool) ==
    CASE tool \in {"check", "try", "goals", "rewind"} -> "validate"
      [] tool = "abandon"                             -> "retire"
      [] OTHER                                        -> "reconcile"

\* refresh_project(): the probe of the Dune files differs from the one kept, and
\* what Dune then loads differs from the layout kept.
LayoutChanged == layout

\* Mutant of RefreshLayout: PET is replaced, the handles stay.
RefreshLayoutQuietly(s) ==
    /\ layout' = FALSE
    /\ IF LayoutChanged THEN pet' = NoPet ELSE UNCHANGED pet
    /\ UNCHANGED book

\* A changed Dune layout ends the PET epoch before the tool runs.
RefreshLayout(s) ==
    /\ layout' = FALSE
    /\ IF LayoutChanged
       THEN pet' = NoPet /\ book' = Invalidated(book, s)
       ELSE UNCHANGED <<pet, book>>

\* A layout that cannot be read refuses the call before anything has changed.
Admit(s) ==
    /\ At("idle")
    /\ conn[s] = "open"
    /\ attached[s]
    /\ \E tool \in Tool :
          /\ Admissible(s, tool)
          /\ \E goal \in IF tool = "rewind" THEN Nodes(book[s]) ELSE {0},
                left \in IF tool \in {"check", "try"} THEN 1..MaxAttempts ELSE {0} :
                call' = [NoCall EXCEPT !.s = s, !.tool = tool, !.goal = goal,
                                       !.left = left, !.pc = FirstPc(tool)]
    /\ RefreshLayout(s)
    /\ UNCHANGED <<links, source, upstream, artifacts>>

ValidateTarget ==
    /\ At("validate")
    /\ IF TargetValid THEN Goto("reconcile") ELSE End
    /\ UNCHANGED <<book, pet>>
    /\ Local

AfterReconcile ==
    CASE call.tool \in {"prove", "declare"} -> "open"
      [] call.tool = "at"                   -> "locate"
      [] call.tool = "list"                 -> "inspect"
      [] call.tool = "rewind"               -> "rewind"
      [] OTHER                              -> "goals"

\* reconcile_artifact(): Dune builds; a changed fingerprint is an epoch
\* boundary, and so is a failed build, which may have replaced dependencies.  A
\* fingerprint that cannot be read refuses the call before there is a build.
Reconcile ==
    /\ At("reconcile")
    /\ \/ /\ EndEpoch                        \* cancelled, or the build failed
          /\ env' \in {env, upstream}
          /\ UNCHANGED compiled
       \/ EndError /\ UNCHANGED artifacts
       \/ /\ ~Cancelled
          /\ env' = upstream
          /\ compiled' = source
          /\ IF <<compiled, env>> # <<source, upstream>>
             THEN pet' = NoPet /\ book' = Invalidated(book, call.s)
             ELSE UNCHANGED <<pet, book>>
          /\ Goto(AfterReconcile)
    /\ UNCHANGED <<links, source, upstream, layout>>

-----------------------------------------------------------------------------
(* ensure_current_state() and replay_checkpoint().                         *)

\* The needed checkpoint lost its handle: rebuild the missing suffix.
ReplayBegin ==
    /\ call.pc \in {"goals", "run", "rewind"}
    /\ Handle = Null
    /\ call' = [call EXCEPT !.pc = "replay", !.ret = call.pc,
                            !.todo = MissingSuffix(Mine, WorkId)]
    /\ UNCHANGED <<book, pet>>
    /\ Local

\* The next checkpoint to rebuild: staged ones come first on the path.
NextMissing ==
    CHOOSE i \in call.todo \ DOMAIN call.staged :
        \A j \in call.todo \ DOMAIN call.staged : i <= j

Replaying == At("replay") /\ call.todo # DOMAIN call.staged

ReplaysRoot == Mine.nodes[NextMissing].parent = 0

\* The state the next fragment runs on.
ReplayBase ==
    LET p == Mine.nodes[NextMissing].parent
    IN  IF p \in DOMAIN call.staged THEN call.staged[p] ELSE Mine.nodes[p].state

Stage(p) ==
    call' = [call EXCEPT !.staged =
        [i \in DOMAIN call.staged \cup {NextMissing} |->
            IF i = NextMissing THEN FreeId(p) ELSE call.staged[i]]]

StagedIds == {call.staged[i] : i \in DOMAIN call.staged}

\* replay_root(): resolve the declaration again and open it.
ReplayRoot ==
    /\ Replaying
    /\ ReplaysRoot
    /\ \/ ~TargetValid /\ EndError
       \/ TargetValid /\ WorkspaceCallFails /\ EndEpoch
       \/ /\ TargetValid /\ ~WorkspaceCallFails /\ HasRoom(Spawned)
          /\ pet' = Export(Spawned, RootContent)
          /\ Stage(Spawned)
          /\ UNCHANGED book
       \* The declaration or its completion bit differs: nothing is kept.
       \/ /\ TargetValid /\ ~WorkspaceCallFails
          /\ pet' = Spawned
          /\ End
          /\ UNCHANGED book
    /\ Local

\* One accepted fragment again, on the handle of its parent.
ReplayStep ==
    /\ Replaying
    /\ ~ReplaysRoot
    \* run() validates the target first; a release that finds PET gone turns
    \* any refusal into PetLost.
    /\ \/ LiveCallFails /\ (TargetValid \/ StagedIds # {}) /\ EndEpoch
       \/ /\ ~LiveCallFails /\ TargetValid /\ ReplayBase \in DOMAIN pet.table
          /\ HasRoom(pet)
          /\ pet' = Export(pet, After(pet.table[ReplayBase],
                                      Mine.nodes[NextMissing].input))
          /\ Stage(pet)
          /\ UNCHANGED book
       \* Changed target, rejected fragment, or another completion bit: every
       \* staged state is released.
       \/ /\ ~LiveCallFails
          /\ pet' = Release(pet, StagedIds)
          /\ End
          /\ UNCHANGED book
       \* A refusal before anything was staged needs no release.
       \/ ~TargetValid /\ StagedIds = {} /\ EndError
    /\ Local

\* Every state of the suffix exists: hand them to the graph and release the
\* handles they replace.
ReplayInstall ==
    /\ At("replay")
    /\ call.todo = DOMAIN call.staged
    /\ LET replaced == {Mine.nodes[i].state : i \in call.todo} \ {Null}
           installed == [book EXCEPT ![call.s] = InstallStates(Mine, call.staged)]
           lost == replaced # {} /\ LiveCallFails
       IN  /\ book' = IF lost THEN Invalidated(installed, call.s) ELSE installed
           /\ pet' = IF lost THEN NoPet ELSE Release(pet, replaced)
           /\ call' = IF lost THEN NoCall
                      ELSE [call EXCEPT !.pc = call.ret, !.ret = "none",
                                        !.todo = {}, !.staged = NoNodes]
    /\ Local

-----------------------------------------------------------------------------
(* check and try.                                                          *)

\* engine.goals() on the selected state, or query_state(), which runs one command
\* on it and releases the result at once; a query is answered here.
ReadGoals ==
    /\ At("goals")
    /\ Handle # Null
    /\ \/ ~TargetValid /\ EndError
       \/ TargetValid /\ LiveCallFails /\ EndEpoch
       \/ /\ TargetValid /\ ~LiveCallFails /\ Handle \in DOMAIN pet.table
          /\ IF call.tool \in {"goals", "ask"} THEN End ELSE Goto("run")
          /\ UNCHANGED <<book, pet>>
       \* PET does not know the id.
       \/ TargetValid /\ ~LiveCallFails /\ Handle \notin DOMAIN pet.table /\ EndError
    /\ Local

\* Mutant of NextAlternative: the same fragment is evaluated again.
SameAlternative ==
    IF call.left > 1
    THEN call' = [call EXCEPT !.pc = "run", !.temp = Null, !.input = Null, !.fin = FALSE]
    ELSE End

\* Go on with the next alternative, or answer that all were rejected.
NextAlternative ==
    IF call.left > 1
    THEN call' = [call EXCEPT !.left = @ - 1, !.pc = "run",
                              !.temp = Null, !.input = Null, !.fin = FALSE]
    ELSE End

Running == At("run") /\ Handle # Null

RunReady == Running /\ TargetValid /\ ~LiveCallFails /\ Handle \in DOMAIN pet.table

\* run_traced() accepts the fragment: its final state is now owned by the call.
RunAccepted ==
    /\ RunReady
    /\ HasRoom(pet)
    /\ \E input \in Input, fin \in BOOLEAN :
          call' = [call EXCEPT !.temp = FreeId(pet), !.input = input, !.fin = fin,
                               !.pc = IF call.tool = "try" THEN "discard"
                                      ELSE IF fin THEN "close" ELSE "commit"]
          /\ pet' = Export(pet, After(pet.table[Handle], input))
    /\ UNCHANGED book
    /\ Local

\* A sentence fails: the state before it is exported, read and released.
RunRejected ==
    /\ RunReady
    /\ NextAlternative
    /\ UNCHANGED <<book, pet>>
    /\ Local

\* The alternative's deadline ends the PET epoch, not the call.
RunTimedOut ==
    /\ RunReady
    /\ pet' = NoPet
    /\ book' = Invalidated(book, call.s)
    /\ NextAlternative
    /\ Local

\* Every error of run_traced(): the target changed; PET is gone or the request
\* cancelled; the fragment gave up a goal or PET does not know the id.
RunFailed ==
    /\ Running
    /\ \/ ~TargetValid /\ EndError
       \/ TargetValid /\ LiveCallFails /\ EndEpoch
       \/ TargetValid /\ ~LiveCallFails /\ EndError
    /\ Local

\* materialize_run(): PET exported a state but not its goals.  The clean-up
\* release ignores its own failure, which may be the loss of the process.
RunGoalsFault ==
    /\ "goals" \in Faults
    /\ \/ RunReady
       \/ call.pc \in {"open", "locate"} /\ ~WorkspaceCallFails
       \/ /\ Replaying /\ StagedIds = {} /\ TargetValid
          /\ IF ReplaysRoot THEN ~WorkspaceCallFails ELSE ~LiveCallFails
    /\ pet' \in {Spawned, NoPet}
    /\ End
    /\ UNCHANGED book
    /\ Local

\* Mutant of Discard: the state of an accepted alternative is not released.
DiscardForgets ==
    /\ At("discard")
    /\ \/ LiveCallFails /\ EndEpoch
       \/ ~LiveCallFails /\ NextAlternative /\ UNCHANGED <<book, pet>>
    /\ Local

\* try: nothing of an accepted alternative is kept.
Discard ==
    /\ At("discard")
    /\ \/ LiveCallFails /\ EndEpoch
       \/ /\ ~LiveCallFails
          /\ pet' = Release(pet, {call.temp})
          /\ NextAlternative
          /\ UNCHANGED book
    /\ Local

\* close_proof(): run the terminator on the finished state, release the
\* result.  Only a cancellation stops the call here.
CloseProof ==
    /\ At("close")
    /\ LET with(close, closed) ==
             call' = [call EXCEPT !.pc = "commit", !.close = close, !.closed = closed]
       IN  \/ TargetValid /\ Cancelled /\ EndEpoch
           \/ /\ TargetValid /\ pet.proc # "live"
              /\ with("lost", <<>>)
              /\ pet' = NoPet
              /\ UNCHANGED book
           \/ /\ TargetValid /\ ~LiveCallFails /\ call.temp \in DOMAIN pet.table
              /\ with("ok", pet.table[call.temp].frags)
              /\ UNCHANGED <<book, pet>>
           \/ /\ ~TargetValid \/ ~LiveCallFails
              /\ with("refused", <<>>)
              /\ UNCHANGED <<book, pet>>
    /\ Local

\* commit_or_cancelled(), then the new checkpoint.  A close error keeps the
\* checkpoint; a finished fragment goes on to publication.
CommitCheckpoint ==
    /\ At("commit")
    /\ LET committed ==
             [book EXCEPT ![call.s] = Commit(Mine, call.temp, call.input, call.fin)]
       IN  \/ Cancelled /\ EndEpoch
           \/ ~Cancelled /\ ~CanAllocate(Mine) /\ pet.proc # "live" /\ EndEpoch
           \/ /\ ~Cancelled /\ ~CanAllocate(Mine) /\ pet.proc = "live"
              /\ pet' = Release(pet, {call.temp})
              /\ End
              /\ UNCHANGED book
           \/ /\ ~Cancelled /\ CanAllocate(Mine)
              /\ book' = committed
              /\ IF call.close \in {"ok", "lost"}
                 THEN call' = [call EXCEPT
                         !.pc = IF call.close = "ok" THEN "publish" ELSE "lost",
                         !.req = "committed", !.temp = Null, !.input = Null]
                 ELSE End
              /\ UNCHANGED pet
    /\ Local

\* The terminator was not answered because PET is gone: its handles, the one
\* just committed included, are forgotten before the error is answered.
ReportLoss ==
    /\ At("lost")
    /\ EndEpoch
    /\ Local

-----------------------------------------------------------------------------
(* Publication, as far as handles are concerned; Writeback has the rest.   *)

\* The target is validated once more; begin_epoch() then forgets every
\* handle.  A target that changed under the call drops the proof; prepare() may
\* also refuse for another reason, which keeps it.
BeginEpoch ==
    /\ At("publish")
    /\ \/ TargetValid /\ book' = Invalidated(book, call.s) /\ Goto("write")
       \/ ~TargetValid /\ book' = [book EXCEPT ![call.s] = Clear(Mine)] /\ End
       \/ TargetValid /\ End /\ UNCHANGED book
    /\ UNCHANGED pet
    /\ Local

\* Replaced, built, refreshed and audited: the proof session is over.
PublishSucceeds ==
    /\ At("write")
    /\ TargetValid
    /\ source' \in Target \ {source}
    /\ compiled' = source'
    /\ pet' = [NoPet EXCEPT !.proc = "live"]
    /\ book' = [book EXCEPT ![call.s] = Clear(Mine)]
    /\ End
    /\ UNCHANGED <<links, upstream, env, layout>>

\* Rolled back or overtaken by an editor; either way rebuilt and refreshed.
\* DeclarationChanged drops the proof, other errors keep it for replay.
PublishFails ==
    /\ At("write")
    /\ pet' \in Refreshed
    /\ book' \in {book, [book EXCEPT ![call.s] = Clear(Mine)]}
    /\ compiled' \in {compiled, source}
    /\ End
    /\ UNCHANGED <<links, source, upstream, env, layout>>

\* restore_epoch() could not write the old bytes: it returns at once, without
\* a rebuild and without a refresh.
RollbackFails ==
    /\ "rollback" \in Faults
    /\ At("write")
    /\ TargetValid
    /\ source' \in Target \ {source}
    /\ compiled' \in {compiled, source'}
    /\ pet' \in Refreshed \cup {pet}
    /\ End
    /\ UNCHANGED <<book, links, upstream, env, layout>>

-----------------------------------------------------------------------------
(* prove, declare, list_decls and the queries on source positions.         *)

\* list_decls(), and locate_symbol on one candidate file.
Inspect ==
    /\ At("inspect")
    /\ \/ WorkspaceCallFails /\ EndEpoch
       \/ ~WorkspaceCallFails /\ pet' = Spawned /\ End /\ UNCHANGED book
    /\ Local

\* query_at(): a temporary state after the named declaration.
OpenContext ==
    /\ At("locate")
    /\ \/ WorkspaceCallFails /\ EndEpoch
       \/ ~WorkspaceCallFails /\ pet' = Spawned /\ End /\ UNCHANGED book
       \/ /\ ~WorkspaceCallFails /\ HasRoom(Spawned)
          /\ pet' = Export(Spawned, RootContent)
          /\ call' = [call EXCEPT !.pc = "answer", !.temp = FreeId(Spawned)]
          /\ UNCHANGED book
    /\ Local

\* Whatever the query said, its context is released; losing PET comes first.
AnswerQuery ==
    /\ At("answer")
    /\ \/ LiveCallFails /\ EndEpoch
       \/ /\ ~LiveCallFails
          /\ pet' = Release(pet, {call.temp})
          /\ End
          /\ UNCHANGED book
    /\ Local

\* open_declaration() or declare(): the opened root is owned by the call.
OpenDeclaration ==
    /\ At("open")
    /\ \/ WorkspaceCallFails /\ EndEpoch
       \* Not found, not a proof, refused statement.
       \/ ~WorkspaceCallFails /\ pet' = Spawned /\ End /\ UNCHANGED book
       \/ /\ ~WorkspaceCallFails /\ HasRoom(Spawned)
          /\ \E fin \in BOOLEAN :
                call' = [call EXCEPT !.pc = "begin", !.temp = FreeId(Spawned),
                                     !.fin = fin, !.anchor = source]
          /\ pet' = Export(Spawned, RootContent)
          /\ UNCHANGED book
       \* OpenResult::Published: a new epoch precedes the build and audit.
       \/ /\ ~WorkspaceCallFails /\ call.tool = "prove"
          /\ pet' = Spawned
          /\ call' = [call EXCEPT !.pc = "audit", !.anchor = source]
          /\ book' = Invalidated(book, call.s)
    /\ Local

\* enrich_declaration_error(): PET refused the statement and is asked for
\* import candidates.  The search swallows whatever ends PET meanwhile (an exit
\* or a cancellation, which kills it); the original refusal is answered.
EnrichFault ==
    /\ "enrich" \in Faults
    /\ At("open")
    /\ call.tool = "declare"
    /\ ~Cancelled
    /\ pet' = NoPet
    /\ End
    /\ UNCHANGED book
    /\ Local

\* begin_proof().
BeginProof ==
    /\ At("begin")
    /\ \/ Cancelled /\ EndEpoch
       \/ ~Cancelled /\ ~CanAllocate(Mine) /\ pet.proc # "live" /\ EndEpoch
       \/ /\ ~Cancelled /\ ~CanAllocate(Mine) /\ pet.proc = "live"
          /\ pet' = Release(pet, {call.temp})
          /\ End
          /\ UNCHANGED book
       \/ /\ ~Cancelled /\ CanAllocate(Mine)
          /\ book' = [book EXCEPT ![call.s] =
                        Begin(Mine, call.anchor, call.temp, call.fin)]
          /\ End
          /\ UNCHANGED pet
    /\ Local

\* validate_published(): a target that changed since is refused before the
\* build; otherwise PET is refreshed whatever the build says.
AuditPublished ==
    /\ At("audit")
    /\ \/ Cancelled /\ EndEpoch
       \/ source # call.anchor /\ EndError
       \/ source = call.anchor /\ pet' \in Refreshed /\ End /\ UNCHANGED book
    /\ Local

-----------------------------------------------------------------------------
(* rewind, abandon, start and the end of a connection.                     *)

\* Mutant of RewindTo: a cancellation before the selection is ignored.
RewindIgnoresCancel ==
    /\ At("rewind")
    /\ Handle # Null
    /\ book' = [book EXCEPT ![call.s] = Select(Mine, call.goal)]
    /\ End
    /\ UNCHANGED pet
    /\ Local

RewindTo ==
    /\ At("rewind")
    /\ Handle # Null
    /\ \/ Cancelled /\ EndEpoch
       \/ /\ ~Cancelled
          /\ book' = [book EXCEPT ![call.s] = Select(Mine, call.goal)]
          /\ End
          /\ UNCHANGED pet
    /\ Local

\* retire_proof(): release what the proof owns, or learn that PET is gone and
\* then forget every handle of the project.  PET may refuse to release, and the
\* caller then answers its error: abandon keeps the proof, start is as if it had
\* not been called.
Retire(s) ==
    LET cleared == [book EXCEPT ![s] = Clear(book[s])]
    IN  IF Retained(book[s]) = {} \/ pet.proc = "live"
        THEN book' = cleared /\ pet' = Release(pet, Retained(book[s]))
        ELSE book' = Invalidated(cleared, s) /\ pet' = NoPet

Abandon ==
    /\ At("retire")
    /\ \/ Cancelled /\ EndEpoch
       \/ ~Cancelled /\ Retire(call.s) /\ End
       \/ ~Cancelled /\ pet.proc = "live" /\ Retained(Mine) # {} /\ EndError
    /\ Local

\* start on this project again: the proof is retired, then the layout is read;
\* a Dune query that fails leaves the old layout in place.
Reattach(s) ==
    /\ At("idle")
    /\ conn[s] = "open"
    /\ attached[s]
    /\ \/ LayoutChanged /\ layout' = FALSE /\ pet' = NoPet
          /\ book' = Invalidated([book EXCEPT ![s] = Clear(book[s])], s)
       \/ Retire(s) /\ UNCHANGED layout
    /\ UNCHANGED <<call, links, source, upstream, artifacts>>

\* start on another project: the proof is retired and the session detached.
SwitchAway(s) ==
    /\ At("idle")
    /\ conn[s] = "open"
    /\ attached[s]
    /\ Retire(s)
    /\ attached' = [attached EXCEPT ![s] = FALSE]
    /\ UNCHANGED <<call, conn, world>>

\* start on this project from elsewhere: install_start_view().
Attach(s) ==
    /\ At("idle")
    /\ conn[s] = "open"
    /\ ~attached[s]
    /\ attached' = [attached EXCEPT ![s] = TRUE]
    /\ RefreshLayout(s)
    /\ UNCHANGED <<call, conn, source, upstream, artifacts>>

\* The connection drops its last Arc: the session can no longer be upgraded,
\* while Drop waits for the project barrier.
Disconnect(s) ==
    /\ "disconnect" \in Faults
    /\ conn[s] = "open"
    /\ call.s # s
    /\ conn' = [conn EXCEPT ![s] = "dropping"]
    /\ UNCHANGED <<book, attached, pet, call, world>>

\* Drop for SessionCell, inside the barrier: best-effort release, every error
\* ignored.
DropSession(s) ==
    /\ At("idle")
    /\ conn[s] = "dropping"
    /\ conn' = [conn EXCEPT ![s] = "closed"]
    /\ IF attached[s]
       THEN /\ book' = [book EXCEPT ![s] = Clear(book[s])]
            /\ pet' = IF Retained(book[s]) = {} THEN pet
                      ELSE IF pet.proc = "live" THEN Release(pet, Retained(book[s]))
                      ELSE NoPet
       ELSE UNCHANGED <<book, pet>>
    /\ UNCHANGED <<attached, call, world>>

-----------------------------------------------------------------------------
(* What happens around the call.                                           *)

\* The client cancels; a request that has committed is not cancelled any more.
Cancel ==
    /\ ~At("idle")
    /\ call.req = "active"
    /\ call' = [call EXCEPT !.req = "cancelled"]
    /\ UNCHANGED <<book, links, pet, world>>

\* The PET child exits.  Nobody notices before the next request to it.
PetDies ==
    /\ pet.proc = "live"
    /\ pet' = [NoPet EXCEPT !.proc = "dead"]
    /\ UNCHANGED <<book, links, call, world>>

EditSource ==
    /\ At("idle") \/ "edit_race" \in Faults
    /\ source' \in Target \ {source}
    /\ UNCHANGED <<book, links, pet, call, upstream, artifacts, layout>>

\* Read once per call, when it reconciles: an edit during a call counts as one
\* before or after it.
EditUpstream ==
    /\ At("idle")
    /\ upstream' \in Env \ {upstream}
    /\ UNCHANGED <<book, links, pet, call, source, artifacts, layout>>

\* Read once per call, at admission.
ChangeLayout ==
    /\ At("idle")
    /\ ~layout
    /\ layout' = TRUE
    /\ UNCHANGED <<book, links, pet, call, source, upstream, artifacts>>

-----------------------------------------------------------------------------

Init ==
    /\ book = [s \in Session |-> EmptyBook]
    /\ attached = [s \in Session |-> TRUE]
    /\ conn = [s \in Session |-> "open"]
    /\ pet = NoPet
    /\ call = NoCall
    /\ source \in Target
    /\ upstream \in Env
    /\ compiled = source
    /\ env = upstream
    /\ layout = FALSE

\* The steps of the call in flight.
CallStep ==
    \/ ValidateTarget \/ Reconcile
    \/ ReplayBegin \/ ReplayRoot \/ ReplayStep \/ ReplayInstall
    \/ ReadGoals \/ RunAccepted \/ RunRejected \/ RunTimedOut \/ RunFailed
    \/ RunGoalsFault \/ Discard \/ CloseProof \/ CommitCheckpoint \/ ReportLoss
    \/ BeginEpoch \/ PublishSucceeds \/ PublishFails \/ RollbackFails
    \/ Inspect \/ OpenContext \/ AnswerQuery \/ OpenDeclaration \/ EnrichFault \/ BeginProof \/ AuditPublished
    \/ RewindTo \/ Abandon

Environment ==
    \/ Cancel \/ PetDies \/ EditSource \/ EditUpstream \/ ChangeLayout

Next ==
    \/ CallStep
    \/ Environment
    \/ \E s \in Session :
          \/ Admit(s) \/ Reattach(s) \/ SwitchAway(s) \/ Attach(s)
          \/ Disconnect(s) \/ DropSession(s)

Spec == Init /\ [][Next]_vars

\* One worker runs the call to its answer without waiting for another call.
\* That PET and Dune answer its requests is assumed: only queries and fragments
\* given a timeout_ms have a deadline of their own.
LiveSpec == Spec /\ WF_vars(CallStep)

-----------------------------------------------------------------------------

Pcs == {"idle", "validate", "reconcile", "replay", "goals", "run", "discard",
        "close", "commit", "lost", "publish", "write", "open", "begin", "audit",
        "inspect", "locate", "answer", "rewind", "retire"}

\* What a PET id stands for.
Contents == [env : Env, frags : Seq(Input \cup {Null})]

\* A request with PET states staged for the checkpoints in D.
CallOver(D) ==
    [s : Session \cup {Null}, tool : Tool \cup {"none"}, pc : Pcs,
     req : {"active", "cancelled", "committed"}, left : 0..MaxAttempts,
     ret : {"none", "goals", "run", "rewind"}, goal : 0..MaxId,
     todo : SUBSET Id, staged : [D -> PetId], temp : PetId \cup {Null},
     input : Input \cup {Null}, fin : BOOLEAN,
     close : {"none", "ok", "lost", "refused"},
     anchor : Target \cup {Null}, closed : Seq(Input \cup {Null})]

IsCall(c) == \E D \in SUBSET Id : c \in CallOver(D)

IsPet(p) ==
    \E D \in SUBSET PetId :
        p \in [proc : {"none", "dead", "live"}, table : [D -> Contents]]

\* Books, links, the PET table and the request of dispatch() stay in their types.
TypeOK ==
    /\ DOMAIN book = Session /\ \A s \in Session : IsBook(book[s])
    /\ attached \in [Session -> BOOLEAN]
    /\ conn \in [Session -> {"open", "dropping", "closed"}]
    /\ IsPet(pet)
    /\ IsCall(call)
    /\ source \in Target /\ upstream \in Env
    /\ compiled \in Target /\ env \in Env /\ layout \in BOOLEAN

\* The sessions a call on this project can reach.
Member(s) == conn[s] = "open" /\ attached[s]

\* A handle kept in a checkpoint names, in the process that is running now,
\* the state that the checkpoint's fragments lead to in the present
\* environment; once the loss of a process has been noticed and the call
\* answered, no handle is left at all.
HandlesFaithful ==
    \A s \in Session : Member(s) =>
        /\ At("idle") /\ pet.proc = "none" => Retained(book[s]) = {}
        /\ pet.proc = "live" =>
              \A i \in Nodes(book[s]) : LET h == book[s].nodes[i].state IN
                 h # Null =>
                    /\ h \in DOMAIN pet.table
                    /\ pet.table[h] = [env |-> env, frags |-> Fragments(book[s], i)]

\* Every PET state has one owner.  Between calls PET holds exactly the states
\* some checkpoint owns: rejected, discarded, cancelled, timed-out and replayed
\* work leaves nothing behind; and at no time do two sessions own the same one,
\* so that one session's abandon could release a state of another.
StatesHaveOneOwner ==
    /\ At("idle") /\ pet.proc = "live" =>
          DOMAIN pet.table = UNION {Retained(book[s]) : s \in Session}
    /\ \A s, t \in Session :
          s # t /\ Member(s) /\ Member(t) => Retained(book[s]) \cap Retained(book[t]) = {}

\* The text about to be written is the text PET closed with Qed in this call,
\* whatever was lost and replayed in between.
PublishesWhatWasClosed ==
    call.pc \in {"publish", "write"} =>
        Fragments(Mine, Mine.current) = call.closed

\* The graph of a book without its handles.
Shape(b) ==
    [next |-> b.next, target |-> b.target, current |-> b.current,
     nodes |-> [i \in Nodes(b) |-> [b.nodes[i] EXCEPT !.state = Null]]]

\* A request the client managed to cancel never changes a checkpoint graph.
CancelledLeavesGraphs ==
    [][Cancelled => \A s \in Session : Shape(book[s])' = Shape(book[s])]_vars

\* try, query and list never change a checkpoint graph, and no call changes
\* the graph of another session.
GraphsChangeOnlyByOwner ==
    [][\A s \in Session :
          ~At("idle") /\ (call.s # s \/ call.tool \in {"try", "goals", "ask", "at", "list"})
             => Shape(book[s])' = Shape(book[s])]_vars

\* What one session sees of all this is the plain state machine of its book:
\* handles enter it only fresh, below a live parent or along a whole missing
\* suffix, and other sessions' calls do nothing to it but forget its handles.
Book(s) == INSTANCE CheckpointBook WITH book <- book[s]

EverySessionIsABook ==
    /\ \A s \in Session : Book(s)!Init
    /\ [][\A s \in Session : Book(s)!Next \/ UNCHANGED book[s]]_vars

\* No handle of an old process is left on any connection that can still use or
\* release it when a replacement process accepts its first request.
ReplacementStartsClean ==
    [][pet.proc = "none" /\ pet'.proc = "live" =>
          \A s \in Session : Member(s) => Retained(book[s]) = {}]_vars

\* The release a closing connection sends never reaches a state that another
\* session owns.
DropReleasesOnlyOwn ==
    [][\A s, t \in Session :
          s # t /\ conn[s] = "dropping" /\ conn'[s] = "closed" /\ pet'.proc = "live"
             => Retained(book[t]) \cap DOMAIN pet.table \subseteq DOMAIN pet'.table]_vars

\* Every admitted call is answered.
CallsAreAnswered == ~At("idle") ~> At("idle")

=============================================================================
