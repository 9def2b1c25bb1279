---------------------------- MODULE PetTransport ----------------------------
(***************************************************************************)
(* PetActor and PetProcess (pet/mod.rs): one call at a time talks JSON-RPC *)
(* over the pipes of a child process, which is started, handshaken and     *)
(* given its workspace on demand, and thrown away whenever its answers can *)
(* no longer be trusted.                                                   *)
(*                                                                         *)
(* PET is the environment: it computes, answers, refuses, answers garbage, *)
(* repeats itself, hangs or dies.  ProofSessions takes this module's       *)
(* outcomes (answered, refused, lost, cancelled, timed out) as the ones of *)
(* a PET call.                                                             *)
(***************************************************************************)
EXTENDS Naturals, Sequences

CONSTANTS
    Workspaces, \* values of PetWorkspace
    None,       \* no workspace, no request
    MaxId,      \* the largest request id: u64::MAX in the code
    MaxCalls,   \* bound: calls made of the actor
    MaxStray,   \* bound: frames PET writes without being asked
    MaxBuilds   \* bound: builds that change what is on disk

Methods == {"capabilities", "setWorkspace", "main", "refresh"}

\* What PET has taken from its standard input; `of' is the call that wrote it.
Requests == [id : Nat, method : Methods, of : Nat, ws : Workspaces \cup {None}]

ASSUME TransportAssumption ==
    /\ None \notin Workspaces \cup Requests
    /\ MaxId \in Nat \ {0}
    /\ MaxCalls \in Nat /\ MaxStray \in Nat /\ MaxBuilds \in Nat

VARIABLES
    actor,      \* ActorState: is a process held, and its workspace
    child,      \* the newest PetProcess, and what PET itself is at
    running,    \* the children that have not been reaped
    call,       \* the call in flight, or the last one
    disk,       \* builds so far
    stray       \* frames PET has written without being asked

vars == <<actor, child, running, call, disk, stray>>

NoProcess == [held |-> FALSE, workspace |-> None]

\* A frame on PET's standard output; `of' is the call it was computed for.
Bodies == {"value", "odd", "refusal", "garbled"}

-----------------------------------------------------------------------------
(* How a call ends.                                                        *)

Finish(outcome) ==
    call' = [call EXCEPT !.stage = "idle", !.result = outcome]

\* state.process.take(): PetProcess is dropped, which kills and reaps the child.
TakeProcess ==
    /\ actor' = NoProcess
    /\ running' = running \ {child.pid}

\* Mutant of Fail: an expired deadline keeps the process.
FailKeepsTimedOut(outcome) ==
    IF outcome = "timed_out"
    THEN Finish(outcome) /\ UNCHANGED <<actor, running>>
    ELSE Finish(outcome) /\ TakeProcess

\* The process is not trusted any more.  refresh_workspace() replaces it; every
\* other call returns the error.
Fail(outcome) ==
    /\ TakeProcess
    /\ IF call.method = "refresh"
       THEN call' = [call EXCEPT !.stage = "ensure", !.replacing = TRUE]
       ELSE Finish(outcome)

\* Mutant of Refused: the workspace is recorded before PET's answer is read.
RefusedRecordsWorkspace ==
    /\ Finish("refused")
    /\ actor' = [actor EXCEPT !.workspace = IF call.method = "setWorkspace"
                                            THEN call.ws ELSE @]
    /\ UNCHANGED running

\* Mutant of Refused: a process that refuses the handshake is forgotten alive.
RefusedKeepsProcess ==
    IF call.method = "refresh"
    THEN Fail("refused")
    ELSE Finish("refused") /\ UNCHANGED <<actor, running>>

\* Mutant of Refused: a refresh that PET refuses counts as done.
RefusedRefreshIsFine ==
    IF call.method = "capabilities"
    THEN Fail("refused")
    ELSE /\ Finish(IF call.method = "refresh" THEN "ok" ELSE "refused")
         /\ UNCHANGED <<actor, running>>

\* A remote error leaves the process alone, unless it refused the handshake,
\* whose process is not installed yet, or a refresh.
Refused ==
    IF call.method \in {"capabilities", "refresh"}
    THEN Fail("refused")
    ELSE Finish("refused") /\ UNCHANGED <<actor, running>>

-----------------------------------------------------------------------------
(* The actor.                                                              *)

Kinds == {"workspace", "live", "refresh"}

\* call_live() needs a process; the others start one.
Call(kind, ws, timed) ==
    /\ call.stage = "idle"
    /\ call.number < MaxCalls
    /\ timed => kind = "live"
    /\ call' = [number |-> call.number + 1, kind |-> kind, ws |-> ws,
                timed |-> timed, since |-> disk, asked |-> 0,
                interrupted |-> FALSE, replacing |-> FALSE, got |-> 0,
                method |-> IF kind = "refresh" THEN kind ELSE "main",
                stage |-> IF kind # "live" THEN "ensure"
                          ELSE IF actor.held THEN "send" ELSE "idle",
                result |-> IF kind = "live" /\ ~actor.held THEN "lost" ELSE "none"]
    /\ UNCHANGED <<actor, child, running, disk, stray>>

\* restart(), the epoch boundary of the coordinator.
Restart ==
    /\ call.stage = "idle"
    /\ actor.held
    /\ TakeProcess
    /\ UNCHANGED <<child, call, disk, stray>>

Ask(method) == call' = [call EXCEPT !.stage = "send", !.method = method]

\* ensure_process() finds no process.
Spawn ==
    /\ call.stage = "ensure"
    /\ ~actor.held
    /\ child' = [pid |-> child.pid + 1, next |-> 1, job |-> None, pipe |-> <<>>,
                 loaded |-> None, cache |-> disk]
    /\ running' = running \cup {child.pid + 1}
    /\ Ask("capabilities")
    /\ UNCHANGED <<actor, disk, stray>>

SpawnFails ==
    /\ call.stage = "ensure"
    /\ ~actor.held
    /\ Finish("environment")
    /\ UNCHANGED <<actor, child, running, disk, stray>>

SetWorkspace ==
    /\ call.stage = "ensure"
    /\ actor.held /\ actor.workspace # call.ws
    /\ Ask("setWorkspace")
    /\ UNCHANGED <<actor, child, running, disk, stray>>

\* The process is ready: the call's own request, or a completed replacement.
Ensured ==
    /\ call.stage = "ensure"
    /\ actor.held /\ actor.workspace = call.ws
    /\ IF call.replacing
       THEN Finish("ok")
       ELSE Ask(IF call.kind = "refresh" THEN "refresh" ELSE "main")
    /\ UNCHANGED <<actor, child, running, disk, stray>>

-----------------------------------------------------------------------------
(* rpc_with_timeout()                                                      *)

\* Request ids are never reused on one process.
SendExhausted ==
    /\ call.stage = "send"
    /\ child.next = MaxId
    /\ Fail("protocol")
    /\ UNCHANGED <<child, disk, stray>>

Advance == child' = [child EXCEPT !.next = @ + 1]

\* The request is too large, or its deadline unusable: nothing is written.
SendInvalid ==
    /\ call.stage = "send" /\ call.method = "main"
    /\ child.next < MaxId
    /\ Advance
    /\ Finish("invalid")
    /\ UNCHANGED <<actor, running, disk, stray>>

SendInterrupted ==
    /\ call.stage = "send" /\ call.interrupted
    /\ child.next < MaxId
    /\ Advance
    /\ Fail("cancelled")
    /\ UNCHANGED <<disk, stray>>

\* A dead child's pipe: stdin write fails, or the answer is end of file.
SendBroken ==
    /\ call.stage = "send" /\ ~call.interrupted
    /\ child.next < MaxId
    /\ child.pid \notin running
    /\ Advance
    /\ Fail("lost")
    /\ UNCHANGED <<disk, stray>>

\* Mutant of Send: every request has the id of the first.
SendSameId ==
    /\ call.stage = "send" /\ ~call.interrupted
    /\ child.next < MaxId
    /\ child.pid \in running /\ child.job = None
    /\ child' = [child EXCEPT !.next = @ + 1,
                              !.job = [id |-> 1, method |-> call.method,
                                       of |-> call.number, ws |-> call.ws]]
    /\ call' = [call EXCEPT !.stage = "wait", !.asked = 1]
    /\ UNCHANGED <<actor, running, disk, stray>>

\* The frame is written and PET, at its reading loop, takes it.
Send ==
    /\ call.stage = "send" /\ ~call.interrupted
    /\ child.next < MaxId
    /\ child.pid \in running /\ child.job = None
    /\ child' = [child EXCEPT !.next = @ + 1,
                              !.job = [id |-> child.next, method |-> call.method,
                                       of |-> call.number, ws |-> call.ws]]
    /\ call' = [call EXCEPT !.stage = "wait", !.asked = child.next]
    /\ UNCHANGED <<actor, running, disk, stray>>

\* What an accepted value does next.
Accept(frame) ==
    \/ /\ call.method = "capabilities"
       /\ actor' = [held |-> TRUE, workspace |-> None]
       /\ call' = [call EXCEPT !.stage = "ensure"]
    \/ /\ call.method = "setWorkspace"
       /\ actor' = [actor EXCEPT !.workspace = call.ws]
       /\ call' = [call EXCEPT !.stage = "ensure"]
    \/ /\ call.method \in {"main", "refresh"}
       /\ call' = [call EXCEPT !.stage = "idle", !.result = "ok", !.got = frame.of]
       /\ UNCHANGED actor

\* read_response(): the oldest frame, whatever it is; a value that does not fit
\* the method's schema poisons the process as a garbled frame does.
Receive ==
    /\ call.stage = "wait"
    /\ child.pipe # <<>>
    /\ LET frame == Head(child.pipe)
       IN  \/ /\ frame.id # call.asked \/ frame.body \in {"garbled", "odd"}
              /\ Fail("protocol")
           \/ frame.id = call.asked /\ frame.body = "refusal" /\ Refused
           \/ /\ frame.id = call.asked /\ frame.body = "value"
              /\ Accept(frame)
              /\ UNCHANGED running
    /\ child' = [child EXCEPT !.pipe = Tail(@)]
    /\ UNCHANGED <<disk, stray>>

EndOfFile ==
    /\ call.stage = "wait"
    /\ child.pid \notin running /\ child.pipe = <<>>
    /\ Fail("lost")
    /\ UNCHANGED <<child, disk, stray>>

\* Mutant of WaitInterrupted: only requests with a deadline are polled.
WaitInterruptedIfTimed ==
    /\ call.stage = "wait" /\ call.interrupted /\ call.timed
    /\ Fail("cancelled")
    /\ UNCHANGED <<child, disk, stray>>

\* wait_for_pet_output() polls the request's word...
WaitInterrupted ==
    /\ call.stage = "wait" /\ call.interrupted
    /\ Fail("cancelled")
    /\ UNCHANGED <<child, disk, stray>>

\* ... and the tactic's deadline.
WaitExpired ==
    /\ call.stage = "wait" /\ call.timed /\ ~call.interrupted
    /\ Fail("timed_out")
    /\ UNCHANGED <<child, disk, stray>>

-----------------------------------------------------------------------------
(* PET, the client and the builds.                                         *)

PetAnswers ==
    /\ child.pid \in running
    /\ child.job # None
    /\ \E body \in Bodies :
          LET job == child.job
              done == body \in {"value", "odd"}
          IN  child' = [child EXCEPT
                !.job = None,
                !.pipe = Append(@, [id |-> job.id, of |-> job.of, body |-> body]),
                !.loaded = IF done /\ job.method = "setWorkspace" THEN job.ws ELSE @,
                !.cache = IF done /\ job.method = "refresh" THEN disk ELSE @]
    /\ UNCHANGED <<actor, running, call, disk, stray>>

\* A frame nobody asked for: an answer it has already given, to an earlier call.
PetRepeats ==
    /\ child.pid \in running
    /\ stray < MaxStray
    /\ \E id \in 1..(child.next - 1) :
          /\ child.job # None => id # child.job.id
          /\ child' = [child EXCEPT
                !.pipe = Append(@, [id |-> id, of |-> 0, body |-> "value"])]
    /\ stray' = stray + 1
    /\ UNCHANGED <<actor, running, call, disk>>

PetDies ==
    /\ child.pid \in running
    /\ running' = running \ {child.pid}
    /\ UNCHANGED <<actor, child, call, disk, stray>>

Interrupt ==
    /\ call.stage # "idle" /\ ~call.interrupted
    /\ call' = [call EXCEPT !.interrupted = TRUE]
    /\ UNCHANGED <<actor, child, running, disk, stray>>

Rebuild ==
    /\ disk < MaxBuilds
    /\ disk' = disk + 1
    /\ UNCHANGED <<actor, child, running, call, stray>>

-----------------------------------------------------------------------------

Init ==
    /\ actor = NoProcess
    /\ child = [pid |-> 0, next |-> 1, job |-> None, pipe |-> <<>>,
                loaded |-> None, cache |-> 0]
    /\ running = {}
    /\ call = [number |-> 0, kind |-> "live", ws |-> None, timed |-> FALSE,
               since |-> 0, asked |-> 0, interrupted |-> FALSE,
               replacing |-> FALSE, got |-> 0, method |-> "main",
               stage |-> "idle", result |-> "none"]
    /\ disk = 0
    /\ stray = 0

\* What the calling thread does by itself.
ActorStep ==
    \/ Spawn \/ SpawnFails \/ SetWorkspace \/ Ensured
    \/ SendExhausted \/ SendInvalid \/ SendInterrupted \/ SendBroken \/ Send
    \/ Receive \/ EndOfFile \/ WaitInterrupted

Next ==
    \/ ActorStep
    \/ \E kind \in Kinds, ws \in Workspaces, timed \in BOOLEAN : Call(kind, ws, timed)
    \/ Restart \/ WaitExpired
    \/ PetAnswers \/ PetRepeats \/ PetDies \/ Interrupt \/ Rebuild

Spec == Init /\ [][Next]_vars

\* The calling thread runs and its timer fires.  PET may hang for ever.
LiveSpec == Spec /\ WF_vars(ActorStep) /\ WF_vars(WaitExpired)

-----------------------------------------------------------------------------

Frames == [id : Nat, of : Nat, body : Bodies]

Processes == [pid : Nat, next : 1..MaxId, job : Requests \cup {None},
              pipe : Seq(Frames), loaded : Workspaces \cup {None}, cache : Nat]

Results == {"none", "ok", "refused", "invalid", "environment", "lost", "protocol",
            "cancelled", "timed_out"}

CallStates == [number : Nat, kind : Kinds, ws : Workspaces \cup {None},
               timed : BOOLEAN, since : Nat, asked : Nat, interrupted : BOOLEAN,
               replacing : BOOLEAN, got : Nat, method : Methods,
               stage : {"idle", "ensure", "send", "wait"}, result : Results]

\* The actor, its child and its call stay in their types; ids below the limit.
TypeOK ==
    /\ actor \in [held : BOOLEAN, workspace : Workspaces \cup {None}]
    /\ child \in Processes
    /\ running \subseteq {child.pid}
    /\ call \in CallStates
    /\ disk \in 0..MaxBuilds /\ stray \in 0..MaxStray

\* A value returned to a caller was computed for that very call: not for one
\* that was cancelled or timed out before, nor by an earlier process.
AnswerIsForTheCall ==
    call.stage = "idle" /\ call.result = "ok" /\ ~call.replacing =>
        call.got = call.number

\* A process that is kept owes nothing: between two requests PET is idle and
\* its pipe is empty, as long as PET itself speaks only when asked.  This is
\* what makes the blocking write of the next request safe.
KeptProcessOwesNothing ==
    actor.held /\ call.stage # "wait" /\ stray = 0 =>
        child.job = None /\ child.pipe = <<>>

\* Whatever the call ended with, a child the actor has let go has been reaped,
\* a half-started one included.
NoOrphan ==
    ~actor.held /\ call.stage \in {"idle", "ensure"} => running = {}

\* A request that needs a workspace is sent only to a PET that has loaded it,
\* whichever refusals and replacements came before.
WorkspaceIsLoaded ==
    call.stage = "send" /\ call.kind # "live" /\ call.method \in {"main", "refresh"} =>
        child.loaded = call.ws

\* A refresh that succeeds leaves a PET whose caches are no older than the
\* refresh, natively or because PET was replaced.
RefreshIsFresh ==
    call.stage = "idle" /\ call.kind = "refresh" /\ call.result = "ok" =>
        child.cache >= call.since

\* A call that is interrupted, or has a deadline, ends although PET never
\* answers it: a refresh on its way to a replacement process included.
LimitedCallsEnd == call.interrupted \/ call.timed ~> call.stage = "idle"

=============================================================================
