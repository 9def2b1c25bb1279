---------------------------- MODULE SessionLocks ----------------------------
(***************************************************************************)
(* The locks of the server above PET: the operation barrier of each        *)
(* project, the selection mutex of each session, the weak registry of      *)
(* sessions, and the reference counts that decide which thread runs        *)
(* SessionCell::drop (server.rs; dispatch() and start() in adapter.rs).    *)
(*                                                                         *)
(* A session has one worker at a time, because call_tool() admits one call *)
(* per connection; the thread is named after the session.  What a call     *)
(* does under its locks is reduced to: it may take or lose PET handles,    *)
(* and it may replace PET and then has to invalidate the others' handles.  *)
(* ProofSessions takes that invalidation as one step of a call that runs   *)
(* alone; here it is a loop that takes the other sessions' mutexes.        *)
(***************************************************************************)
EXTENDS Naturals, Sequences, SequencesExt

CONSTANTS
    Session,      \* connections, and the worker threads of their calls
    Project,
    Nobody,       \* no owner of a lock, no project, no session
    Handler,      \* the reference the connection itself holds
    Invalidators, \* bound: sessions whose calls may replace PET
    Closers,      \* bound: sessions that may disconnect
    MaxCalls      \* bound: calls per session

ASSUME LocksAssumption ==
    /\ Nobody \notin Session \cup Project
    /\ Handler \notin Session
    /\ Invalidators \subseteq Session /\ Closers \subseteq Session
    /\ MaxCalls \in Nat

VARIABLES
    barrier,    \* owner of ProjectRuntime.operation
    selection,  \* owner of SessionCell.selection
    registry,   \* ServerRuntime.sessions, in order of connection
    refs,       \* strong references to each SessionCell
    attached,   \* Selection.project
    handle,     \* what the checkpoints of a session hold: nothing, states of
                \* the running PET, or states of one that was replaced
    thread,     \* the worker of each session
    calls       \* calls begun so far

vars == <<barrier, selection, registry, refs, attached, handle, thread, calls>>

Idle == [pc |-> "idle", tool |-> "op", at |-> Nobody, dest |-> Nobody,
         todo |-> <<>>, victim |-> Nobody]

At(t, place) == thread[t].pc = place
Goto(t, place) == thread' = [thread EXCEPT ![t].pc = place]

\* Other sessions that invalidate_project_states() still has to visit.
Todo(t) == thread[t].todo

\* Leaving one project for another, under the barrier of the first.
Leaving(t) == thread[t].tool = "start" /\ thread[t].at # thread[t].dest

Free(lock) == lock = Nobody
Unlock(t) == [p \in Project |-> IF barrier[p] = t THEN Nobody ELSE barrier[p]]

-----------------------------------------------------------------------------
(* The call: dispatch() and start().                                       *)

Connect(s) ==
    /\ refs[s] = {}
    /\ s \notin ToSet(registry)
    /\ calls[s] = 0
    /\ refs' = [refs EXCEPT ![s] = {Handler}]
    /\ registry' = Append(registry, s)
    /\ calls' = [calls EXCEPT ![s] = 1]
    /\ UNCHANGED <<barrier, selection, attached, handle, thread>>

\* call_tool() hands a clone of the Arc to the worker.
Begin(t, tool, dest) ==
    /\ At(t, "idle")
    /\ Handler \in refs[t]
    /\ calls[t] \in 1..MaxCalls
    /\ tool = "op" <=> dest = Nobody
    /\ calls' = [calls EXCEPT ![t] = @ + 1]
    /\ refs' = [refs EXCEPT ![t] = @ \cup {t}]
    /\ thread' = [thread EXCEPT ![t] =
                    [Idle EXCEPT !.pc = "find", !.tool = tool, !.dest = dest]]
    /\ UNCHANGED <<barrier, selection, registry, attached, handle>>

\* session.project(), under the selection mutex for a moment: which barrier
\* does the call need first?
Find(t) ==
    /\ At(t, "find")
    /\ Free(selection[t])
    /\ LET first == IF Free(attached[t]) THEN thread[t].dest ELSE attached[t]
       IN thread' = [thread EXCEPT ![t].at = first,
                                   ![t].pc = IF Free(first) THEN "end" ELSE "enter"]
    /\ UNCHANGED <<barrier, selection, registry, refs, attached, handle, calls>>

Enter(t) ==
    /\ At(t, "enter")
    /\ Free(barrier[thread[t].at])
    /\ barrier' = [barrier EXCEPT ![thread[t].at] = t]
    /\ Goto(t, "select")
    /\ UNCHANGED <<selection, registry, refs, attached, handle, calls>>

\* Cancelled while it waited, or the layout cannot be read.
Refuse(t) ==
    /\ At(t, "select")
    /\ barrier' = Unlock(t)
    /\ Goto(t, "end")
    /\ UNCHANGED <<selection, registry, refs, attached, handle, calls>>

\* "attached project changed before request admission" ends an operation.
Select(t) ==
    /\ At(t, "select")
    /\ Free(selection[t])
    /\ selection' = [selection EXCEPT ![t] = t]
    /\ Goto(t, IF thread[t].tool = "op" /\ attached[t] # thread[t].at
               THEN "leave" ELSE "work")
    /\ UNCHANGED <<barrier, registry, refs, attached, handle, calls>>

\* PET is replaced: the handles of every session of the project are void.  The
\* call forgets its own at once.
ReplacePet(t) ==
    /\ At(t, "work")
    /\ t \in Invalidators
    /\ handle' = [s \in Session |->
                    IF s = t THEN "none"
                    ELSE IF attached[s] = thread[t].at /\ handle[s] = "live"
                    THEN "stale" ELSE handle[s]]
    /\ Goto(t, "upgrade")
    /\ UNCHANGED <<barrier, selection, registry, refs, attached, calls>>

\* The end of what a tool does under its locks.
Done(t) ==
    /\ thread[t].pc \in {"work", "finish"}
    /\ \/ /\ thread[t].tool = "op"
          /\ handle' = [handle EXCEPT ![t] = IF @ = "live" THEN "none" ELSE "live"]
          /\ UNCHANGED attached
       \/ /\ thread[t].tool = "start" /\ ~Leaving(t)
          /\ handle' = [handle EXCEPT ![t] = "none"]
          /\ attached' = [attached EXCEPT ![t] = thread[t].dest]
    /\ Goto(t, "leave")
    /\ UNCHANGED <<barrier, selection, registry, refs, calls>>

\* A failing tool, retirement or layout query changes nothing more.
Fail(t) ==
    /\ thread[t].pc \in {"work", "finish"}
    /\ Goto(t, "leave")
    /\ UNCHANGED <<barrier, selection, registry, refs, attached, handle, calls>>

\* Mutant of SwitchAway: the first barrier is kept until the call ends.
SwitchHoldingBoth(t) ==
    /\ thread[t].pc \in {"work", "finish"}
    /\ Leaving(t)
    /\ handle' = [handle EXCEPT ![t] = "none"]
    /\ attached' = [attached EXCEPT ![t] = Nobody]
    /\ selection' = [selection EXCEPT ![t] = Nobody]
    /\ thread' = [thread EXCEPT ![t].pc = "enter", ![t].at = thread[t].dest]
    /\ UNCHANGED <<barrier, registry, refs, calls>>

\* start from another project: the proof there is retired, the session is
\* detached, both locks are released, and the call queues for the new project.
SwitchAway(t) ==
    /\ thread[t].pc \in {"work", "finish"}
    /\ Leaving(t)
    /\ handle' = [handle EXCEPT ![t] = "none"]
    /\ attached' = [attached EXCEPT ![t] = Nobody]
    /\ selection' = [selection EXCEPT ![t] = Nobody]
    /\ barrier' = Unlock(t)
    /\ thread' = [thread EXCEPT ![t].pc = "enter", ![t].at = thread[t].dest]
    /\ UNCHANGED <<registry, refs, calls>>

Leave(t) ==
    /\ At(t, "leave")
    /\ selection' = [selection EXCEPT ![t] = Nobody]
    /\ barrier' = Unlock(t)
    /\ Goto(t, "end")
    /\ UNCHANGED <<registry, refs, attached, handle, calls>>

-----------------------------------------------------------------------------
(* References.                                                             *)

\* Thread t lets go of a reference of s; the last one runs SessionCell::drop
\* right there, whatever locks t holds.
LetGo(t, s, holder, next, todo) ==
    LET last == refs[s] = {holder} IN
    /\ refs' = [refs EXCEPT ![s] = @ \ {holder}]
    /\ thread' = [thread EXCEPT ![t].pc = IF last THEN "drop" ELSE next,
                                ![t].victim = IF last THEN s ELSE @,
                                ![t].todo = todo]

\* The worker's closure ends.
End(t) ==
    /\ At(t, "end")
    /\ LetGo(t, t, t, "idle", <<>>)
    /\ UNCHANGED <<barrier, selection, registry, attached, handle, calls>>

\* The connection goes; a call in flight keeps its own reference.
Close(s) ==
    /\ s \in Closers
    /\ Handler \in refs[s]
    /\ LetGo(s, s, Handler, thread[s].pc, Todo(s))
    /\ UNCHANGED <<barrier, selection, registry, attached, handle, calls>>

DropEnter(t) ==
    /\ At(t, "drop")
    /\ LET p == attached[thread[t].victim] IN
       \/ Free(p) /\ Goto(t, "dropped") /\ UNCHANGED barrier
       \/ /\ ~Free(p)
          /\ Free(barrier[p])
          /\ barrier' = [barrier EXCEPT ![p] = t]
          /\ Goto(t, "dropped")
    /\ UNCHANGED <<selection, registry, refs, attached, handle, calls>>

\* The states are released and the barrier of the victim's project with them.
DropRelease(t) ==
    /\ At(t, "dropped")
    /\ LET s == thread[t].victim IN
       /\ handle' = [handle EXCEPT ![s] = "none"]
       /\ attached' = [attached EXCEPT ![s] = Nobody]
       /\ barrier' = [p \in Project |->
                        IF p = attached[s] THEN Nobody ELSE barrier[p]]
       /\ thread' = [thread EXCEPT ![t].victim = Nobody,
                                   ![t].pc = IF s = t THEN "idle" ELSE "visit"]
    /\ UNCHANGED <<selection, registry, refs, calls>>

-----------------------------------------------------------------------------
(* invalidate_project_states()                                             *)

\* In the order of connection.
Earlier(s, u) ==
    \E i, j \in DOMAIN registry : i < j /\ registry[i] = s /\ registry[j] = u

\* The entries that can be upgraded stay, and are visited, in their order.  It
\* happens under the registry mutex, which no one holds while waiting for
\* another.
Upgrade(t) ==
    /\ At(t, "upgrade")
    /\ \E n \in 0..Len(registry) : \E live \in [1..n -> Session] :
       /\ ToSet(live) = {s \in ToSet(registry) : refs[s] # {}}
       /\ \A i, j \in 1..n : i < j => Earlier(live[i], live[j])
       /\ registry' = live
       /\ refs' = [s \in Session |->
                     IF s \in ToSet(live) THEN refs[s] \cup {t} ELSE refs[s]]
       /\ thread' = [thread EXCEPT ![t].pc = "visit", ![t].todo = live]
    /\ UNCHANGED <<barrier, selection, attached, handle, calls>>

\* Mutant of VisitSelf: the loop ends there.
VisitSelfLast(t) ==
    /\ At(t, "visit")
    /\ Todo(t) # <<>>
    /\ Head(Todo(t)) = t
    /\ thread' = [thread EXCEPT ![t].todo = <<>>]
    /\ refs' = [s \in Session |-> IF s = t THEN refs[s] ELSE refs[s] \ {t}]
    /\ UNCHANGED <<barrier, selection, registry, attached, handle, calls>>

\* Mutant of VisitSelf: the loop locks the caller's own session as well.
VisitSelfLocked(t) ==
    /\ At(t, "visit")
    /\ Todo(t) # <<>>
    /\ Head(Todo(t)) = t
    /\ Free(selection[t])
    /\ thread' = [thread EXCEPT ![t].todo = Tail(@)]
    /\ UNCHANGED <<barrier, selection, registry, refs, attached, handle, calls>>

\* The caller's own session is in the registry too.
VisitSelf(t) ==
    /\ At(t, "visit")
    /\ Todo(t) # <<>>
    /\ Head(Todo(t)) = t
    /\ thread' = [thread EXCEPT ![t].todo = Tail(@)]
    /\ UNCHANGED <<barrier, selection, registry, refs, attached, handle, calls>>

\* Any other session, whatever project it is attached to: lock it, look, and
\* let go of the lock and then of the upgraded reference.
Visit(t) ==
    /\ At(t, "visit")
    /\ Todo(t) # <<>>
    /\ LET s == Head(Todo(t)) IN
       /\ s # t
       /\ Free(selection[s])
       /\ handle' = [handle EXCEPT ![s] =
                       IF attached[s] = thread[t].at THEN "none" ELSE @]
       /\ LetGo(t, s, t, "visit", Tail(Todo(t)))
    /\ UNCHANGED <<barrier, selection, registry, attached, calls>>

Visited(t) ==
    /\ At(t, "visit")
    /\ Todo(t) = <<>>
    /\ Goto(t, "finish")
    /\ UNCHANGED <<barrier, selection, registry, refs, attached, handle, calls>>

-----------------------------------------------------------------------------

Init ==
    /\ barrier = [p \in Project |-> Nobody]
    /\ selection = [s \in Session |-> Nobody]
    /\ registry = <<>>
    /\ refs = [s \in Session |-> {}]
    /\ attached = [s \in Session |-> Nobody]
    /\ handle = [s \in Session |-> "none"]
    /\ thread = [s \in Session |-> Idle]
    /\ calls = [s \in Session |-> 0]

Step(t) ==
    \/ Find(t) \/ Enter(t) \/ Refuse(t) \/ Select(t) \/ ReplacePet(t)
    \/ Done(t) \/ Fail(t) \/ SwitchAway(t) \/ Leave(t) \/ End(t)
    \/ DropEnter(t) \/ DropRelease(t)
    \/ Upgrade(t) \/ VisitSelf(t) \/ Visit(t) \/ Visited(t)

Next ==
    \E s \in Session :
        \/ Step(s) \/ Connect(s) \/ Close(s)
        \/ Begin(s, "op", Nobody)
        \/ \E p \in Project : Begin(s, "start", p)

Spec == Init /\ [][Next]_vars

\* Every thread is scheduled.  Mutexes are not fair, but there are finitely
\* many calls, so nobody is overtaken for ever.
LiveSpec == Spec /\ \A t \in Session : WF_vars(Step(t))

-----------------------------------------------------------------------------

Places == {"idle", "find", "enter", "select", "work", "upgrade", "visit",
           "finish", "leave", "end", "drop", "dropped"}

Threads == [pc : Places, tool : {"op", "start"}, at : Project \cup {Nobody},
            dest : Project \cup {Nobody}, todo : Seq(Session),
            victim : Session \cup {Nobody}]

\* Locks are owned by threads, references are held by threads and connections.
TypeOK ==
    /\ barrier \in [Project -> Session \cup {Nobody}]
    /\ selection \in [Session -> Session \cup {Nobody}]
    /\ registry \in Seq(Session)
    /\ refs \in [Session -> SUBSET (Session \cup {Handler})]
    /\ attached \in [Session -> Project \cup {Nobody}]
    /\ handle \in [Session -> {"none", "live", "stale"}]
    /\ thread \in [Session -> Threads]
    /\ calls \in [Session -> 0..(MaxCalls + 1)]

\* The owner of the lock a thread is waiting for, if it is waiting.
Awaited(t) ==
    IF At(t, "enter") THEN barrier[thread[t].at]
    ELSE IF At(t, "select") THEN selection[t]
    ELSE IF At(t, "visit") /\ Todo(t) # <<>> /\ Head(Todo(t)) # t
    THEN selection[Head(Todo(t))]
    ELSE IF At(t, "drop") /\ ~Free(attached[thread[t].victim])
    THEN barrier[attached[thread[t].victim]]
    ELSE Nobody

\* No set of threads waits for locks that only they can release, and no thread
\* for one it holds: barriers come before selections, at most one barrier is
\* held by dispatch() and start(), also when sessions swap projects.
NoCircularWait ==
    ~\E stuck \in (SUBSET Session) \ {{}} :
        \A t \in stuck : Awaited(t) \in stuck

\* A thread that is held up inside invalidate_project_states(), with the barrier
\* of its call: by the selection of a session it visits, or by the barrier of one
\* whose last reference it let go of.
DropsInLoop(t) == At(t, "drop") /\ thread[t].victim # t
WaitsInLoop(t) == Awaited(t) # Nobody /\ (At(t, "visit") \/ DropsInLoop(t))

\* Such a Drop waits for the barrier of its own thread.
DropBlocksItself == \E t \in Session : DropsInLoop(t) /\ Awaited(t) = t

\* One loop waits for another, which waits too, in another project.
LoopsBlockEachOther ==
    \E t, u \in Session :
        /\ WaitsInLoop(t) /\ WaitsInLoop(u)
        /\ Awaited(t) = u /\ thread[t].at # thread[u].at

\* When the barrier of a project is free, no session that a call can still
\* reach holds states of a PET that was replaced: seen from outside,
\* invalidate_project_states() is one step, as ProofSessions has it.
InvalidationIsComplete ==
    \A p \in Project : Free(barrier[p]) =>
        \A s \in Session :
            attached[s] = p /\ refs[s] # {} => handle[s] # "stale"

\* Every call returns, and so does every Drop.
EveryCallReturns == \A t \in Session : ~At(t, "idle") ~> At(t, "idle")

=============================================================================
