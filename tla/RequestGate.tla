---------------------------- MODULE RequestGate -----------------------------
(***************************************************************************)
(* The requests of one connection, from call_tool() (server.rs) to the     *)
(* answer: the admission queue, the blocking worker, the task that mirrors *)
(* the client's cancellation and the query deadline into the request word  *)
(* of request.rs, and the progress record that clients poll.               *)
(*                                                                         *)
(* What a tool does is reduced to: it may reach its commit point, and it   *)
(* returns, or hangs in PET or Dune.  The other connections of the project *)
(* are one environment that takes and releases the project barrier.        *)
(***************************************************************************)
EXTENDS Naturals, Sequences, FiniteSets, SequencesExt

CONSTANTS
    Req,        \* requests of the connection
    Query,      \* the ones that are semantic queries
    Relative,   \* start requests whose path only the client's roots resolve
    Nobody,     \* no owner of a lock or record
    Other,      \* a call of another connection
    MaxOther    \* bound: calls of other connections that take the barrier

ASSUME GateAssumption ==
    /\ Query \subseteq Req /\ Relative \subseteq Req \ Query
    /\ Nobody \notin Req /\ Other \notin Req /\ Nobody # Other
    /\ MaxOther \in Nat

VARIABLES
    pc,         \* where each request is
    ct,         \* the client has cancelled it (context.ct)
    word,       \* its RequestCancellation
    watch,      \* its cancellation_watch task is running
    effect,     \* it made its irreversible change
    result,     \* what the worker returned
    generation, \* the progress generation it was given
    queue,      \* waiting for admission, first in first out
    admission,  \* owner of the admission mutex
    barrier,    \* owner of the project operation barrier
    progress,   \* ProgressBook, and the request its record was begun for
    others      \* barrier acquisitions of other connections so far

vars == <<pc, ct, word, watch, effect, result, generation, queue, admission,
          barrier, progress, others>>

Terminal == {"completed", "failed", "cancelled"}

Goto(r, place) == pc' = [pc EXCEPT ![r] = place]

-----------------------------------------------------------------------------
(* request.rs                                                              *)

\* is_cancelled()
Interrupted(r) == word[r] \in {"cancelled", "timed_out"}

\* Mutant of Swap: a plain store.
SwapAlways(r, new) == word' = [word EXCEPT ![r] = new]

\* compare_exchange(ACTIVE, new): whoever comes first wins.
Swap(r, new) ==
    word' = [word EXCEPT ![r] = IF @ = "active" THEN new ELSE @]

-----------------------------------------------------------------------------
(* The progress record.                                                    *)

BeginProgress(r) ==
    /\ progress' = [generation |-> progress.generation + 1,
                    phase |-> "admitted", owner |-> r]
    /\ generation' = [generation EXCEPT ![r] = progress.generation + 1]

\* update_current_progress(): whatever record is there, while it is running.
Update ==
    IF progress.phase = "admitted"
    THEN progress' = [progress EXCEPT !.phase = "working"]
    ELSE UNCHANGED progress

Verdict(outcome) ==
    IF outcome = "ok" THEN "completed"
    ELSE IF outcome = "cancelled" THEN "cancelled" ELSE "failed"

\* finish_progress(): only the record of the request's own generation.
Finish(r) ==
    IF progress.generation = generation[r]
    THEN progress' = [progress EXCEPT !.phase = Verdict(result[r])]
    ELSE UNCHANGED progress

-----------------------------------------------------------------------------
(* call_tool()                                                             *)

\* Mutant of Arrive: the record is begun before the request is admitted.
ArriveWithProgress(r) ==
    /\ pc[r] = "idle"
    /\ IF r \in Relative
       THEN Goto(r, "resolving") /\ UNCHANGED queue
       ELSE Goto(r, "queued") /\ queue' = Append(queue, r)
    /\ BeginProgress(r)
    /\ UNCHANGED <<ct, word, watch, effect, result, admission, barrier, others>>

\* A request that needs the client's answer first does not queue yet: others
\* of the connection may overtake it.
Arrive(r) ==
    /\ pc[r] = "idle"
    /\ IF r \in Relative
       THEN Goto(r, "resolving") /\ UNCHANGED queue
       ELSE Goto(r, "queued") /\ queue' = Append(queue, r)
    /\ UNCHANGED <<ct, word, watch, effect, result, generation, admission,
                   barrier, progress, others>>

\* resolve_start_project_path(): the client names one local root.
Resolved(r) ==
    /\ pc[r] = "resolving"
    /\ Goto(r, "queued")
    /\ queue' = Append(queue, r)
    /\ UNCHANGED <<ct, word, watch, effect, result, generation, admission,
                   barrier, progress, others>>

Unresolved(r) ==
    /\ pc[r] = "resolving"
    /\ result' = [result EXCEPT ![r] = "refused"]
    /\ Goto(r, "answered")
    /\ UNCHANGED <<ct, word, watch, effect, generation, queue, admission,
                   barrier, progress, others>>

\* It is cancelled in the meantime; or the client has no root, several, or one
\* that is no local path.
ResolveCancelled(r) == ct[r] /\ Unresolved(r)
ResolveFails(r) == Unresolved(r)

\* Cancelled in the queue: refused, never admitted.
Refuse(r) ==
    /\ pc[r] = "queued"
    /\ ct[r]
    /\ queue' = Remove(queue, r)
    /\ result' = [result EXCEPT ![r] = "refused"]
    /\ Goto(r, "answered")
    /\ UNCHANGED <<ct, word, watch, effect, generation, admission, barrier,
                   progress, others>>

\* The admission mutex is fair.  Begin the record, start the watch.
Admit(r) ==
    /\ pc[r] = "queued"
    /\ admission = Nobody
    /\ r = Head(queue)
    /\ queue' = Tail(queue)
    /\ admission' = r
    /\ BeginProgress(r)
    /\ watch' = [watch EXCEPT ![r] = TRUE]
    /\ Goto(r, "admitted")
    /\ UNCHANGED <<ct, word, effect, result, barrier, others>>

\* The blocking worker: not even dispatched when the client has cancelled.
StartWorker(r) ==
    /\ pc[r] = "admitted"
    /\ \/ /\ ct[r]
          /\ result' = [result EXCEPT ![r] = "cancelled"]
          /\ Goto(r, "settled")
       \/ /\ ~ct[r] /\ Interrupted(r)
          /\ result' = [result EXCEPT ![r] = "cancelled"]
          /\ Goto(r, "returned")
       \/ /\ ~ct[r] /\ ~Interrupted(r)
          /\ Goto(r, "waiting")
          /\ UNCHANGED result
    /\ UNCHANGED <<ct, word, watch, effect, generation, queue, admission,
                   barrier, progress, others>>

\* project.lock() cannot be interrupted; the word is read once it is held.
TakeBarrier(r) ==
    /\ pc[r] = "waiting"
    /\ barrier = Nobody
    /\ IF Interrupted(r)
       THEN /\ result' = [result EXCEPT ![r] = "cancelled"]
            /\ Goto(r, "returned")
            /\ UNCHANGED barrier
       ELSE /\ barrier' = r
            /\ Goto(r, "working")
            /\ UNCHANGED result
    /\ UNCHANGED <<ct, word, watch, effect, generation, queue, admission,
                   progress, others>>

Report(r) ==
    /\ pc[r] = "working"
    /\ Update
    /\ UNCHANGED <<pc, ct, word, watch, effect, result, generation, queue,
                   admission, barrier, others>>

\* commit_or_cancelled() succeeds, and the change is made.  Queries have none.
Commit(r) ==
    /\ pc[r] = "working"
    /\ r \notin Query
    /\ ~effect[r]
    /\ ~Interrupted(r)
    /\ Swap(r, "committed")
    /\ effect' = [effect EXCEPT ![r] = TRUE]
    /\ UNCHANGED <<pc, ct, watch, result, generation, queue, admission,
                   barrier, progress, others>>

\* dispatch() returns and the barrier is dropped.
Return(r, outcome) ==
    /\ pc[r] = "working"
    /\ result' = [result EXCEPT ![r] = outcome]
    /\ barrier' = Nobody
    /\ Goto(r, "returned")
    /\ UNCHANGED <<ct, word, watch, effect, generation, queue, admission,
                   progress, others>>

\* A poll of the word while waiting for PET or Dune, or at a boundary.
StopInterrupted(r) == Interrupted(r) /\ Return(r, "cancelled")

Complete(r) == \E outcome \in {"ok", "failed"} : Return(r, outcome)

\* The worker panics: both guards are dropped, the record is not finished.
Panic(r) ==
    /\ pc[r] = "working"
    /\ result' = [result EXCEPT ![r] = "panic"]
    /\ barrier' = Nobody
    /\ admission' = Nobody
    /\ Goto(r, "joined")
    /\ UNCHANGED <<ct, word, watch, effect, generation, queue, progress, others>>

\* A deadline that expired by now overrides what dispatch() returned.
Settle(r) ==
    /\ pc[r] = "returned"
    /\ result' = [result EXCEPT ![r] = IF word[r] = "timed_out" THEN "timeout" ELSE @]
    /\ Goto(r, "settled")
    /\ UNCHANGED <<ct, word, watch, effect, generation, queue, admission,
                   barrier, progress, others>>

FinishRecord(r) ==
    /\ pc[r] = "settled"
    /\ Finish(r)
    /\ Goto(r, "finished")
    /\ UNCHANGED <<ct, word, watch, effect, result, generation, queue,
                   admission, barrier, others>>

\* The end of the worker's closure drops the admission guard.
Unlock(r) ==
    /\ pc[r] = "finished"
    /\ admission' = Nobody
    /\ Goto(r, "joined")
    /\ UNCHANGED <<ct, word, watch, effect, result, generation, queue, barrier,
                   progress, others>>

Answer(r) ==
    /\ pc[r] = "joined"
    /\ watch' = [watch EXCEPT ![r] = FALSE]
    /\ Goto(r, "answered")
    /\ UNCHANGED <<ct, word, effect, result, generation, queue, admission,
                   barrier, progress, others>>

-----------------------------------------------------------------------------
(* The cancellation watch.                                                 *)

\* Mutant of Mirror: the task ends when the worker starts.
MirrorBeforeWork(r) ==
    /\ watch[r] /\ ct[r] /\ pc[r] = "admitted"
    /\ Swap(r, "cancelled")
    /\ watch' = [watch EXCEPT ![r] = FALSE]
    /\ UNCHANGED <<pc, ct, effect, result, generation, queue, admission,
                   barrier, progress, others>>

Mirror(r) ==
    /\ watch[r] /\ ct[r]
    /\ Swap(r, "cancelled")
    /\ watch' = [watch EXCEPT ![r] = FALSE]
    /\ UNCHANGED <<pc, ct, effect, result, generation, queue, admission,
                   barrier, progress, others>>

\* Mutant of Deadline: the timer is armed only until the worker has started.
DeadlineBeforeWork(r) ==
    /\ watch[r] /\ r \in Query /\ pc[r] = "admitted"
    /\ Swap(r, "timed_out")
    /\ watch' = [watch EXCEPT ![r] = FALSE]
    /\ UNCHANGED <<pc, ct, effect, result, generation, queue, admission,
                   barrier, progress, others>>

Deadline(r) ==
    /\ watch[r] /\ r \in Query
    /\ Swap(r, "timed_out")
    /\ watch' = [watch EXCEPT ![r] = FALSE]
    /\ UNCHANGED <<pc, ct, effect, result, generation, queue, admission,
                   barrier, progress, others>>

-----------------------------------------------------------------------------
(* The environment.                                                        *)

\* notifications/cancelled, or the connection goes.
ClientCancels(r) ==
    /\ pc[r] \notin {"idle", "answered"}
    /\ ~ct[r]
    /\ ct' = [ct EXCEPT ![r] = TRUE]
    /\ UNCHANGED <<pc, word, watch, effect, result, generation, queue,
                   admission, barrier, progress, others>>

OtherTakes ==
    /\ barrier = Nobody
    /\ others < MaxOther
    /\ barrier' = Other
    /\ others' = others + 1
    /\ UNCHANGED <<pc, ct, word, watch, effect, result, generation, queue,
                   admission, progress>>

OtherReleases ==
    /\ barrier = Other
    /\ barrier' = Nobody
    /\ UNCHANGED <<pc, ct, word, watch, effect, result, generation, queue,
                   admission, progress, others>>

Init ==
    /\ pc = [r \in Req |-> "idle"]
    /\ ct = [r \in Req |-> FALSE]
    /\ word = [r \in Req |-> "active"]
    /\ watch = [r \in Req |-> FALSE]
    /\ effect = [r \in Req |-> FALSE]
    /\ result = [r \in Req |-> "none"]
    /\ generation = [r \in Req |-> 0]
    /\ queue = <<>>
    /\ admission = Nobody
    /\ barrier = Nobody
    /\ progress = [generation |-> 0, phase |-> "idle", owner |-> Nobody]
    /\ others = 0

\* What the server does by itself, whatever PET and Dune do.
ServerStep(r) ==
    \/ ResolveCancelled(r) \/ Refuse(r) \/ Admit(r) \/ StartWorker(r) \/ TakeBarrier(r)
    \/ StopInterrupted(r) \/ Settle(r) \/ FinishRecord(r) \/ Unlock(r) \/ Answer(r)

Next ==
    \/ \E r \in Req :
          \/ ServerStep(r)
          \/ Arrive(r) \/ Resolved(r) \/ ResolveFails(r) \/ Report(r) \/ Commit(r) \/ Complete(r) \/ Panic(r)
          \/ Mirror(r) \/ Deadline(r) \/ ClientCancels(r)
    \/ OtherTakes \/ OtherReleases

Spec == Init /\ [][Next]_vars

\* The worker, the watch task and its timer run; a call of another connection
\* leaves the barrier.  Nothing is assumed of the tool itself: PET and Dune may
\* never answer it, nor the client a question.
LiveSpec ==
    /\ Spec
    /\ \A r \in Req : /\ WF_vars(ServerStep(r))
                      /\ WF_vars(Mirror(r))
                      /\ WF_vars(Deadline(r))
    /\ WF_vars(OtherReleases)

-----------------------------------------------------------------------------

Places == {"idle", "resolving", "queued", "admitted", "waiting", "working", "returned",
           "settled", "finished", "joined", "answered"}

Results == {"none", "refused", "ok", "failed", "cancelled", "timeout", "panic"}

\* Requests, locks and the record stay in their types; nobody queues twice.
TypeOK ==
    /\ pc \in [Req -> Places]
    /\ ct \in [Req -> BOOLEAN]
    /\ word \in [Req -> {"active", "cancelled", "committed", "timed_out"}]
    /\ watch \in [Req -> BOOLEAN]
    /\ effect \in [Req -> BOOLEAN]
    /\ result \in [Req -> Results]
    /\ generation \in [Req -> Nat]
    /\ queue \in Seq(Req) /\ Len(queue) <= Cardinality(Req)
    /\ admission \in Req \cup {Nobody}
    /\ barrier \in Req \cup {Nobody, Other}
    /\ progress \in [generation : Nat,
                     phase : {"idle", "admitted", "working"} \cup Terminal,
                     owner : Req \cup {Nobody}]
    /\ others \in 0..MaxOther

\* A request that is answered as cancelled, refused or timed out has changed
\* nothing: cancellation and the commit point race for one atomic word.
CancelledHasNoEffect ==
    \A r \in Req :
        result[r] \in {"cancelled", "refused", "timeout"} => ~effect[r]

\* The record clients poll belongs to the newest admitted request: while it is
\* running that request still holds admission (unless its worker panicked), and
\* once the request is answered it tells the same story as the answer.
RecordIsTruthful ==
    LET r == progress.owner
    IN  r # Nobody =>
          /\ progress.generation = generation[r]
          /\ progress.phase \in {"admitted", "working"} =>
                admission = r \/ result[r] = "panic"
          /\ pc[r] = "answered" /\ result[r] # "panic" =>
                progress.phase = Verdict(result[r])

\* A request the client cancels is answered even when PET or Dune never answer
\* it, unless it has already passed its commit point.
CancelledCallsEnd ==
    \A r \in Req :
        pc[r] # "idle" /\ ct[r] ~> pc[r] = "answered" \/ effect[r]

\* The watchdog ends every admitted query, cancelled or not.
WatchdogEndsQueries ==
    \A r \in Query : pc[r] = "admitted" ~> pc[r] = "answered"

=============================================================================
