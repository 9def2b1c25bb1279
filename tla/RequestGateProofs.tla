------------------------- MODULE RequestGateProofs --------------------------
(***************************************************************************)
(* Cancellation and the progress record of a connection, for any number of *)
(* requests, queries, client questions and calls of other connections.     *)
(***************************************************************************)
EXTENDS RequestGate, TLAPS

USE GateAssumption

-----------------------------------------------------------------------------
(* The inductive invariant, in named parts.                                *)

Held == {"admitted", "waiting", "working", "returned", "settled", "finished"}
Over == {"joined", "answered"}

\* The queue is left out: admission is decided by the place of a request.
StateOK ==
    /\ pc \in [Req -> Places]
    /\ ct \in [Req -> BOOLEAN]
    /\ word \in [Req -> {"active", "cancelled", "committed", "timed_out"}]
    /\ watch \in [Req -> BOOLEAN]
    /\ effect \in [Req -> BOOLEAN]
    /\ result \in [Req -> Results]
    /\ generation \in [Req -> Nat]
    /\ progress \in [generation : Nat,
                     phase : {"idle", "admitted", "working"} \cup Terminal,
                     owner : Req \cup {Nobody}]

\* The word is the only way to an effect: it says so for good, from the work of
\* the request on, and a result is there only after the work.
WordOK ==
    \A r \in Req :
        /\ effect[r] => word[r] = "committed"
        /\ effect[r] => pc[r] \in (Held \ {"admitted", "waiting"}) \cup Over
        /\ result[r] # "none" =>
              pc[r] \in (Held \ {"admitted", "waiting", "working"}) \cup Over

\* Who is between admission and the end of its worker's closure holds the
\* admission mutex, and the record is its own.
AdmissionOK ==
    \A r \in Req :
        /\ admission = r <=> pc[r] \in Held
        /\ pc[r] \in Held => progress.owner = r

\* The generation of a request identifies the record that was begun for it.
GenerationOK ==
    /\ \A r \in Req :
          /\ generation[r] <= progress.generation
          /\ generation[r] # 0 /\ generation[r] = progress.generation => progress.owner = r
          /\ pc[r] \in Held => generation[r] # 0
    /\ progress.owner # Nobody =>
          generation[progress.owner] = progress.generation

\* The record of the newest request runs until it is finished, and then says
\* what the request came to.
PhaseOK ==
    \A r \in Req : progress.owner = r =>
        /\ pc[r] \in Held \cup Over
        /\ pc[r] \in Held \ {"finished"} => progress.phase \in {"admitted", "working"}
        /\ pc[r] \in {"finished"} \cup Over /\ result[r] # "panic" =>
              progress.phase = Verdict(result[r])
        /\ result[r] = "panic" => pc[r] \in Over

IInv ==
    /\ StateOK /\ WordOK /\ AdmissionOK /\ GenerationOK /\ PhaseOK
    /\ CancelledHasNoEffect

\* At the start nobody has been admitted and there is no record.
LEMMA InitIInv == Init => IInv
  <1> SUFFICES ASSUME Init PROVE IInv
    OBVIOUS
  <1>1. StateOK
    BY DEF Init, StateOK, Places, Results, Terminal
  <1>2. WordOK /\ CancelledHasNoEffect
    BY DEF Init, WordOK, CancelledHasNoEffect
  <1>3. AdmissionOK
    BY DEF Init, AdmissionOK, Held
  <1>4. GenerationOK
    BY DEF Init, GenerationOK, Held
  <1>5. PhaseOK
    BY DEF Init, PhaseOK
  <1> QED
    BY <1>1, <1>2, <1>3, <1>4, <1>5 DEF IInv

-----------------------------------------------------------------------------
(* One lemma per action.                                                   *)

\* An arriving request has no record and no lock.
LEMMA ArriveIInv == ASSUME IInv, NEW r \in Req, Arrive(r) PROVE IInv'
  <1> USE DEF StateOK
  <1>1. StateOK'
    BY DEF IInv, Arrive, Goto, Places, Results, Terminal, Verdict
  <1>2. WordOK'
    BY DEF IInv, Arrive, Goto, WordOK, Held, Over
  <1>3. AdmissionOK'
    BY DEF IInv, Arrive, Goto, AdmissionOK, Held
  <1>4. GenerationOK'
    BY DEF IInv, Arrive, Goto, AdmissionOK, GenerationOK, Held
  <1>5. PhaseOK'
    BY DEF IInv, Arrive, Goto, WordOK, AdmissionOK, GenerationOK, PhaseOK,
           Held, Over, Verdict
  <1>6. CancelledHasNoEffect'
    BY DEF IInv, Arrive, Goto, WordOK, CancelledHasNoEffect, Held, Over
  <1> QED
    BY <1>1, <1>2, <1>3, <1>4, <1>5, <1>6 DEF IInv

\* Nor has one whose project the client named,
LEMMA ResolvedIInv == ASSUME IInv, NEW r \in Req, Resolved(r) PROVE IInv'
  <1> USE DEF StateOK
  <1>1. StateOK'
    BY DEF IInv, Resolved, Goto, Places, Results, Terminal, Verdict
  <1>2. WordOK'
    BY DEF IInv, Resolved, Goto, WordOK, Held, Over
  <1>3. AdmissionOK'
    BY DEF IInv, Resolved, Goto, AdmissionOK, Held
  <1>4. GenerationOK'
    BY DEF IInv, Resolved, Goto, AdmissionOK, GenerationOK, Held
  <1>5. PhaseOK'
    BY DEF IInv, Resolved, Goto, WordOK, AdmissionOK, GenerationOK, PhaseOK,
           Held, Over, Verdict
  <1>6. CancelledHasNoEffect'
    BY DEF IInv, Resolved, Goto, WordOK, CancelledHasNoEffect, Held, Over
  <1> QED
    BY <1>1, <1>2, <1>3, <1>4, <1>5, <1>6 DEF IInv

\* nor one that is refused before it queues.
LEMMA UnresolvedIInv == ASSUME IInv, NEW r \in Req, Unresolved(r) PROVE IInv'
  <1> USE DEF StateOK
  <1>1. StateOK'
    BY DEF IInv, Unresolved, Goto, Places, Results, Terminal, Verdict
  <1>2. WordOK'
    BY DEF IInv, Unresolved, Goto, WordOK, Held, Over
  <1>3. AdmissionOK'
    BY DEF IInv, Unresolved, Goto, AdmissionOK, Held
  <1>4. GenerationOK'
    BY DEF IInv, Unresolved, Goto, AdmissionOK, GenerationOK, Held
  <1>5. PhaseOK'
    BY DEF IInv, Unresolved, Goto, WordOK, AdmissionOK, GenerationOK, PhaseOK,
           Held, Over, Verdict
  <1>6. CancelledHasNoEffect'
    BY DEF IInv, Unresolved, Goto, WordOK, CancelledHasNoEffect, Held, Over
  <1> QED
    BY <1>1, <1>2, <1>3, <1>4, <1>5, <1>6 DEF IInv

\* A request cancelled in the queue was never admitted.
LEMMA RefuseIInv == ASSUME IInv, NEW r \in Req, Refuse(r) PROVE IInv'
  <1> USE DEF StateOK
  <1>1. StateOK'
    BY DEF IInv, Refuse, Goto, Places, Results, Terminal, Verdict
  <1>2. WordOK'
    BY DEF IInv, Refuse, Goto, WordOK, Held, Over
  <1>3. AdmissionOK'
    BY DEF IInv, Refuse, Goto, AdmissionOK, Held
  <1>4. GenerationOK'
    BY DEF IInv, Refuse, Goto, AdmissionOK, GenerationOK, Held
  <1>5. PhaseOK'
    BY DEF IInv, Refuse, Goto, WordOK, AdmissionOK, GenerationOK, PhaseOK,
           Held, Over, Verdict
  <1>6. CancelledHasNoEffect'
    BY DEF IInv, Refuse, Goto, WordOK, CancelledHasNoEffect, Held, Over
  <1> QED
    BY <1>1, <1>2, <1>3, <1>4, <1>5, <1>6 DEF IInv

\* Admission makes the request the owner of the newest record.
LEMMA AdmitIInv == ASSUME IInv, NEW r \in Req, Admit(r) PROVE IInv'
  <1> USE DEF StateOK
  <1>1. StateOK'
    BY DEF IInv, Admit, BeginProgress, Goto, Places, Results, Terminal,
           Verdict
  <1>2. WordOK'
    BY DEF IInv, Admit, BeginProgress, Goto, WordOK, Held, Over
  <1>3. AdmissionOK'
    BY DEF IInv, Admit, BeginProgress, Goto, AdmissionOK, Held
  <1>4. GenerationOK'
    BY DEF IInv, Admit, BeginProgress, Goto, AdmissionOK, GenerationOK, Held
  <1>5. PhaseOK'
    BY DEF IInv, Admit, BeginProgress, Goto, WordOK, AdmissionOK,
           GenerationOK, PhaseOK, Held, Over, Verdict
  <1>6. CancelledHasNoEffect'
    BY DEF IInv, Admit, BeginProgress, Goto, WordOK, CancelledHasNoEffect,
           Held, Over
  <1> QED
    BY <1>1, <1>2, <1>3, <1>4, <1>5, <1>6 DEF IInv

\* A request cancelled before its worker starts has done nothing.
LEMMA StartWorkerIInv == ASSUME IInv, NEW r \in Req, StartWorker(r) PROVE IInv'
  <1> USE DEF StateOK
  <1>1. StateOK'
    BY DEF IInv, StartWorker, Goto, Places, Results, Terminal, Verdict
  <1>2. WordOK'
    BY DEF IInv, StartWorker, Goto, WordOK, Held, Over
  <1>3. AdmissionOK'
    BY DEF IInv, StartWorker, Goto, AdmissionOK, Held
  <1>4. GenerationOK'
    BY DEF IInv, StartWorker, Goto, AdmissionOK, GenerationOK, Held
  <1>5. PhaseOK'
    BY DEF IInv, StartWorker, Goto, WordOK, AdmissionOK, GenerationOK,
           PhaseOK, Held, Over, Verdict
  <1>6. CancelledHasNoEffect'
    BY DEF IInv, StartWorker, Goto, WordOK, CancelledHasNoEffect, Held, Over
  <1> QED
    BY <1>1, <1>2, <1>3, <1>4, <1>5, <1>6 DEF IInv

\* Nor has one cancelled while it waited for the barrier.
LEMMA TakeBarrierIInv == ASSUME IInv, NEW r \in Req, TakeBarrier(r) PROVE IInv'
  <1> USE DEF StateOK
  <1>1. StateOK'
    BY DEF IInv, TakeBarrier, Goto, Places, Results, Terminal, Verdict
  <1>2. WordOK'
    BY DEF IInv, TakeBarrier, Goto, WordOK, Held, Over
  <1>3. AdmissionOK'
    BY DEF IInv, TakeBarrier, Goto, AdmissionOK, Held
  <1>4. GenerationOK'
    BY DEF IInv, TakeBarrier, Goto, AdmissionOK, GenerationOK, Held
  <1>5. PhaseOK'
    BY DEF IInv, TakeBarrier, Goto, WordOK, AdmissionOK, GenerationOK,
           PhaseOK, Held, Over, Verdict
  <1>6. CancelledHasNoEffect'
    BY DEF IInv, TakeBarrier, Goto, WordOK, CancelledHasNoEffect, Held, Over
  <1> QED
    BY <1>1, <1>2, <1>3, <1>4, <1>5, <1>6 DEF IInv

\* A report only moves a running record.
LEMMA ReportIInv == ASSUME IInv, NEW r \in Req, Report(r) PROVE IInv'
  <1> USE DEF StateOK
  <1>1. StateOK'
    BY DEF IInv, Report, Update, Places, Results, Terminal, Verdict
  <1>2. WordOK'
    BY DEF IInv, Report, Update, WordOK, Held, Over
  <1>3. AdmissionOK'
    BY DEF IInv, Report, Update, AdmissionOK, Held
  <1>4. GenerationOK'
    BY DEF IInv, Report, Update, AdmissionOK, GenerationOK, Held
  <1>5. PhaseOK'
    BY DEF IInv, Report, Update, WordOK, AdmissionOK, GenerationOK, PhaseOK,
           Held, Over, Verdict
  <1>6. CancelledHasNoEffect'
    BY DEF IInv, Report, Update, WordOK, CancelledHasNoEffect, Held, Over
  <1> QED
    BY <1>1, <1>2, <1>3, <1>4, <1>5, <1>6 DEF IInv

\* The commit point and a cancellation exclude each other.
LEMMA CommitIInv == ASSUME IInv, NEW r \in Req, Commit(r) PROVE IInv'
  <1> USE DEF StateOK
  <1>1. StateOK'
    BY DEF IInv, Commit, Swap, Interrupted, Places, Results, Terminal, Verdict
  <1>2. WordOK'
    BY DEF IInv, Commit, Swap, Interrupted, WordOK, Held, Over
  <1>3. AdmissionOK'
    BY DEF IInv, Commit, Swap, Interrupted, AdmissionOK, Held
  <1>4. GenerationOK'
    BY DEF IInv, Commit, Swap, Interrupted, AdmissionOK, GenerationOK, Held
  <1>5. PhaseOK'
    BY DEF IInv, Commit, Swap, Interrupted, WordOK, AdmissionOK, GenerationOK,
           PhaseOK, Held, Over, Verdict
  <1>6. CancelledHasNoEffect'
    BY DEF IInv, Commit, Swap, Interrupted, WordOK, CancelledHasNoEffect,
           Held, Over
  <1> QED
    BY <1>1, <1>2, <1>3, <1>4, <1>5, <1>6 DEF IInv

\* A tool that returns after its commit point is not cancelled.
LEMMA ReturnIInv ==
    ASSUME IInv, NEW r \in Req, NEW outcome \in {"ok", "failed", "cancelled"},
           Return(r, outcome), outcome = "cancelled" => Interrupted(r)
    PROVE  IInv'
  <1> USE DEF StateOK
  <1>1. StateOK'
    BY DEF IInv, Return, Goto, Places, Results, Terminal, Verdict
  <1>2. WordOK'
    BY DEF IInv, Return, Goto, WordOK, Held, Over
  <1>3. AdmissionOK'
    BY DEF IInv, Return, Goto, AdmissionOK, Held
  <1>4. GenerationOK'
    BY DEF IInv, Return, Goto, AdmissionOK, GenerationOK, Held
  <1>5. PhaseOK'
    BY DEF IInv, Return, Goto, WordOK, AdmissionOK, GenerationOK, PhaseOK,
           Held, Over, Verdict
  <1>6. CancelledHasNoEffect'
    BY DEF IInv, Return, Goto, WordOK, CancelledHasNoEffect, Held, Over,
           Interrupted
  <1> QED
    BY <1>1, <1>2, <1>3, <1>4, <1>5, <1>6 DEF IInv

\* A panic frees the locks and leaves the record as it was.
LEMMA PanicIInv == ASSUME IInv, NEW r \in Req, Panic(r) PROVE IInv'
  <1> USE DEF StateOK
  <1>1. StateOK'
    BY DEF IInv, Panic, Goto, Places, Results, Terminal, Verdict
  <1>2. WordOK'
    BY DEF IInv, Panic, Goto, WordOK, Held, Over
  <1>3. AdmissionOK'
    BY DEF IInv, Panic, Goto, AdmissionOK, Held
  <1>4. GenerationOK'
    BY DEF IInv, Panic, Goto, AdmissionOK, GenerationOK, Held
  <1>5. PhaseOK'
    BY DEF IInv, Panic, Goto, WordOK, AdmissionOK, GenerationOK, PhaseOK,
           Held, Over, Verdict
  <1>6. CancelledHasNoEffect'
    BY DEF IInv, Panic, Goto, WordOK, CancelledHasNoEffect, Held, Over
  <1> QED
    BY <1>1, <1>2, <1>3, <1>4, <1>5, <1>6 DEF IInv

\* Only a query that timed out is turned into a timeout.
LEMMA SettleIInv == ASSUME IInv, NEW r \in Req, Settle(r) PROVE IInv'
  <1> USE DEF StateOK
  <1>1. StateOK'
    BY DEF IInv, Settle, Goto, Places, Results, Terminal, Verdict
  <1>2. WordOK'
    BY DEF IInv, Settle, Goto, WordOK, Held, Over
  <1>3. AdmissionOK'
    BY DEF IInv, Settle, Goto, AdmissionOK, Held
  <1>4. GenerationOK'
    BY DEF IInv, Settle, Goto, AdmissionOK, GenerationOK, Held
  <1>5. PhaseOK'
    BY DEF IInv, Settle, Goto, WordOK, AdmissionOK, GenerationOK, PhaseOK,
           Held, Over, Verdict
  <1>6. CancelledHasNoEffect'
    BY DEF IInv, Settle, Goto, WordOK, CancelledHasNoEffect, Held, Over
  <1> QED
    BY <1>1, <1>2, <1>3, <1>4, <1>5, <1>6 DEF IInv

\* The record that is finished is the request's own.
LEMMA FinishRecordIInv == ASSUME IInv, NEW r \in Req, FinishRecord(r) PROVE IInv'
  <1> USE DEF StateOK
  <1>1. StateOK'
    BY DEF IInv, FinishRecord, Finish, Goto, Places, Results, Terminal,
           Verdict
  <1>2. WordOK'
    BY DEF IInv, FinishRecord, Finish, Goto, WordOK, Held, Over
  <1>3. AdmissionOK'
    BY DEF IInv, FinishRecord, Finish, Goto, AdmissionOK, Held
  <1>4. GenerationOK'
    BY DEF IInv, FinishRecord, Finish, Goto, AdmissionOK, GenerationOK, Held
  <1>5. PhaseOK'
    BY DEF IInv, FinishRecord, Finish, Goto, WordOK, AdmissionOK,
           GenerationOK, PhaseOK, Held, Over, Verdict
  <1>6. CancelledHasNoEffect'
    BY DEF IInv, FinishRecord, Finish, Goto, WordOK, CancelledHasNoEffect,
           Held, Over
  <1> QED
    BY <1>1, <1>2, <1>3, <1>4, <1>5, <1>6 DEF IInv

\* The guard is dropped after the record is finished.
LEMMA UnlockIInv == ASSUME IInv, NEW r \in Req, Unlock(r) PROVE IInv'
  <1> USE DEF StateOK
  <1>1. StateOK'
    BY DEF IInv, Unlock, Goto, Places, Results, Terminal, Verdict
  <1>2. WordOK'
    BY DEF IInv, Unlock, Goto, WordOK, Held, Over
  <1>3. AdmissionOK'
    BY DEF IInv, Unlock, Goto, AdmissionOK, Held
  <1>4. GenerationOK'
    BY DEF IInv, Unlock, Goto, AdmissionOK, GenerationOK, Held
  <1>5. PhaseOK'
    BY DEF IInv, Unlock, Goto, WordOK, AdmissionOK, GenerationOK, PhaseOK,
           Held, Over, Verdict
  <1>6. CancelledHasNoEffect'
    BY DEF IInv, Unlock, Goto, WordOK, CancelledHasNoEffect, Held, Over
  <1> QED
    BY <1>1, <1>2, <1>3, <1>4, <1>5, <1>6 DEF IInv

\* The answer changes neither.
LEMMA AnswerIInv == ASSUME IInv, NEW r \in Req, Answer(r) PROVE IInv'
  <1> USE DEF StateOK
  <1>1. StateOK'
    BY DEF IInv, Answer, Goto, Places, Results, Terminal, Verdict
  <1>2. WordOK'
    BY DEF IInv, Answer, Goto, WordOK, Held, Over
  <1>3. AdmissionOK'
    BY DEF IInv, Answer, Goto, AdmissionOK, Held
  <1>4. GenerationOK'
    BY DEF IInv, Answer, Goto, AdmissionOK, GenerationOK, Held
  <1>5. PhaseOK'
    BY DEF IInv, Answer, Goto, WordOK, AdmissionOK, GenerationOK, PhaseOK,
           Held, Over, Verdict
  <1>6. CancelledHasNoEffect'
    BY DEF IInv, Answer, Goto, WordOK, CancelledHasNoEffect, Held, Over
  <1> QED
    BY <1>1, <1>2, <1>3, <1>4, <1>5, <1>6 DEF IInv

\* A late cancellation does not undo the commit point.
LEMMA MirrorIInv == ASSUME IInv, NEW r \in Req, Mirror(r) PROVE IInv'
  <1> USE DEF StateOK
  <1>1. StateOK'
    BY DEF IInv, Mirror, Swap, Places, Results, Terminal, Verdict
  <1>2. WordOK'
    BY DEF IInv, Mirror, Swap, WordOK, Held, Over
  <1>3. AdmissionOK'
    BY DEF IInv, Mirror, Swap, AdmissionOK, Held
  <1>4. GenerationOK'
    BY DEF IInv, Mirror, Swap, AdmissionOK, GenerationOK, Held
  <1>5. PhaseOK'
    BY DEF IInv, Mirror, Swap, WordOK, AdmissionOK, GenerationOK, PhaseOK,
           Held, Over, Verdict
  <1>6. CancelledHasNoEffect'
    BY DEF IInv, Mirror, Swap, WordOK, CancelledHasNoEffect, Held, Over
  <1> QED
    BY <1>1, <1>2, <1>3, <1>4, <1>5, <1>6 DEF IInv

\* Nor does a late deadline.
LEMMA DeadlineIInv == ASSUME IInv, NEW r \in Req, Deadline(r) PROVE IInv'
  <1> USE DEF StateOK
  <1>1. StateOK'
    BY DEF IInv, Deadline, Swap, Places, Results, Terminal, Verdict
  <1>2. WordOK'
    BY DEF IInv, Deadline, Swap, WordOK, Held, Over
  <1>3. AdmissionOK'
    BY DEF IInv, Deadline, Swap, AdmissionOK, Held
  <1>4. GenerationOK'
    BY DEF IInv, Deadline, Swap, AdmissionOK, GenerationOK, Held
  <1>5. PhaseOK'
    BY DEF IInv, Deadline, Swap, WordOK, AdmissionOK, GenerationOK, PhaseOK,
           Held, Over, Verdict
  <1>6. CancelledHasNoEffect'
    BY DEF IInv, Deadline, Swap, WordOK, CancelledHasNoEffect, Held, Over
  <1> QED
    BY <1>1, <1>2, <1>3, <1>4, <1>5, <1>6 DEF IInv

\* The client's cancellation alone does nothing.
LEMMA ClientCancelsIInv == ASSUME IInv, NEW r \in Req, ClientCancels(r) PROVE IInv'
  <1> USE DEF StateOK
  <1>1. StateOK'
    BY DEF IInv, ClientCancels, Places, Results, Terminal, Verdict
  <1>2. WordOK'
    BY DEF IInv, ClientCancels, WordOK, Held, Over
  <1>3. AdmissionOK'
    BY DEF IInv, ClientCancels, AdmissionOK, Held
  <1>4. GenerationOK'
    BY DEF IInv, ClientCancels, AdmissionOK, GenerationOK, Held
  <1>5. PhaseOK'
    BY DEF IInv, ClientCancels, WordOK, AdmissionOK, GenerationOK, PhaseOK,
           Held, Over, Verdict
  <1>6. CancelledHasNoEffect'
    BY DEF IInv, ClientCancels, WordOK, CancelledHasNoEffect, Held, Over
  <1> QED
    BY <1>1, <1>2, <1>3, <1>4, <1>5, <1>6 DEF IInv

\* Other connections touch the barrier only.
LEMMA OthersIInv == IInv /\ (OtherTakes \/ OtherReleases) => IInv'
  BY DEF IInv, OtherTakes, OtherReleases, StateOK, WordOK, AdmissionOK, GenerationOK,
         PhaseOK, CancelledHasNoEffect

\* The invariant is inductive.
LEMMA NextIInv == IInv /\ [Next]_vars => IInv'
  <1> SUFFICES ASSUME IInv, [Next]_vars PROVE IInv'
    OBVIOUS
  <1>1. CASE UNCHANGED vars
    BY <1>1 DEF IInv, vars, StateOK, WordOK, AdmissionOK, GenerationOK, PhaseOK,
                CancelledHasNoEffect
  <1>2. ASSUME NEW r \in Req, ServerStep(r) PROVE IInv'
    <2>1. CASE ResolveCancelled(r)
      BY <2>1, UnresolvedIInv DEF ResolveCancelled
    <2>2. CASE StopInterrupted(r)
      BY <2>2, ReturnIInv DEF StopInterrupted
    <2> QED
      BY <1>2, <2>1, <2>2, RefuseIInv, AdmitIInv, StartWorkerIInv, TakeBarrierIInv,
         SettleIInv, FinishRecordIInv, UnlockIInv, AnswerIInv DEF ServerStep
  <1>3. ASSUME NEW r \in Req, Complete(r) PROVE IInv'
    <2>1. PICK outcome \in {"ok", "failed"} : Return(r, outcome)
      BY <1>3 DEF Complete
    <2> QED
      BY <2>1, ReturnIInv
  <1>4. ASSUME NEW r \in Req, ResolveFails(r) PROVE IInv'
    BY <1>4, UnresolvedIInv DEF ResolveFails
  <1> QED
    BY <1>1, <1>2, <1>3, <1>4, ArriveIInv, ResolvedIInv, ReportIInv, CommitIInv,
       PanicIInv, MirrorIInv, DeadlineIInv, ClientCancelsIInv, OthersIInv DEF Next

\* Every reachable state satisfies it.
LEMMA Reachable == Spec => []IInv
  BY InitIInv, NextIInv, PTL DEF Spec

-----------------------------------------------------------------------------
(* What a client may rely on.                                              *)

\* A request answered as cancelled, refused or timed out has changed nothing,
\* in whichever order cancellation, deadline and commit point arrive.
THEOREM CancellationCorrect == Spec => []CancelledHasNoEffect
  <1>1. IInv => CancelledHasNoEffect
    BY DEF IInv
  <1> QED
    BY <1>1, Reachable, PTL

\* The record that clients poll is the newest admitted request's own: it runs
\* while that request holds admission and ends with its verdict.
THEOREM RecordCorrect == Spec => []RecordIsTruthful
  <1>1. IInv => RecordIsTruthful
    <2> SUFFICES ASSUME IInv, NEW r \in Req, progress.owner = r
                 PROVE  /\ progress.generation = generation[r]
                        /\ progress.phase \in {"admitted", "working"} =>
                              admission = r \/ result[r] = "panic"
                        /\ pc[r] = "answered" /\ result[r] # "panic" =>
                              progress.phase = Verdict(result[r])
      BY DEF IInv, StateOK, RecordIsTruthful
    <2>1. progress.generation = generation[r]
      BY DEF IInv, GenerationOK
    <2>2. CASE pc[r] \in Held
      BY <2>1, <2>2 DEF IInv, AdmissionOK, Held
    <2>3. CASE pc[r] \in Over
      BY <2>1, <2>3 DEF IInv, PhaseOK, Over, Verdict
    <2> QED
      BY <2>2, <2>3 DEF IInv, PhaseOK
  <1> QED
    BY <1>1, Reachable, PTL

=============================================================================
