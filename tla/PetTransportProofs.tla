------------------------- MODULE PetTransportProofs -------------------------
(***************************************************************************)
(* Whatever PET does, for any number of calls, processes and request ids:  *)
(* callers get their own answers, kept processes are in step, dropped ones *)
(* are gone, and refreshes are fresh.                                      *)
(***************************************************************************)
EXTENDS PetTransport, TLAPS

USE TransportAssumption

-----------------------------------------------------------------------------
(* The inductive invariant, in named parts.                                *)

\* What the stage of a call says about the process it talks to.
StageOK ==
    /\ ~actor.held /\ call.stage \in {"idle", "ensure"} => running = {}
    /\ ~actor.held => actor.workspace = None
    /\ call.stage \in {"send", "wait"} => (actor.held <=> call.method # "capabilities")
    /\ call.stage # "idle" /\ call.kind # "live" => call.ws \in Workspaces
    /\ call.stage \in {"send", "wait"} /\ call.method \in {"main", "refresh"} =>
          /\ call.method = "refresh" <=> call.kind = "refresh"
          /\ ~call.replacing
          /\ call.kind # "live" => actor.workspace = call.ws
    /\ call.stage \in {"send", "wait"} /\ call.kind = "live" => call.method = "main"
    /\ call.stage = "ensure" => call.kind # "live"
    /\ call.replacing => call.kind = "refresh"

\* Ids of requests and answers are behind the counter.
IdsOK ==
    /\ child.job # None => child.job.id < child.next
    /\ \A k \in 1..Len(child.pipe) : child.pipe[k].id < child.next

\* Between requests PET is idle; what may be in its pipe is unasked for.
QuietOK ==
    (actor.held \/ call.stage = "send") /\ call.stage # "wait" =>
        child.job = None /\ (stray = 0 => child.pipe = <<>>)

\* While a call waits, PET has its request or has answered it.
WaitOK ==
    call.stage = "wait" =>
        /\ child.job # None \/ child.pipe # <<>>
        /\ child.job # None =>
              /\ child.job = [id |-> call.asked, method |-> call.method,
                              of |-> call.number, ws |-> call.ws]
              /\ child.pipe # <<>> => Head(child.pipe).id # call.asked
        /\ stray = 0 => Len(child.pipe) <= 1 /\ (child.job # None => child.pipe = <<>>)

\* PET has the workspace that the actor has recorded, but for a change that is
\* under way.
LoadedOK ==
    actor.held /\ actor.workspace # None =>
        \/ child.loaded = actor.workspace
        \/ call.stage = "wait" /\ call.method = "setWorkspace" /\ child.job = None

\* The answer at the head of the pipe, if it is the one that is waited for.
HeadOK ==
    call.stage = "wait" /\ child.pipe # <<>> /\ Head(child.pipe).id = call.asked =>
        /\ Head(child.pipe).of = call.number
        /\ call.method = "setWorkspace" =>
              /\ Head(child.pipe).body = "value" => child.loaded = call.ws
              /\ Head(child.pipe).body = "refusal" =>
                    actor.workspace \in {None, child.loaded}
        /\ call.method = "refresh" /\ Head(child.pipe).body = "value" =>
              child.cache >= call.since

\* Caches are never older than the process or its last refresh.
CacheOK ==
    /\ child.cache <= disk /\ call.since <= disk
    /\ call.replacing /\ (actor.held \/ call.stage \in {"send", "wait"}) =>
          child.cache >= call.since

IInv ==
    /\ TypeOK /\ StageOK /\ IdsOK /\ QuietOK /\ WaitOK /\ LoadedOK /\ HeadOK /\ CacheOK
    /\ AnswerIsForTheCall /\ RefreshIsFresh

-----------------------------------------------------------------------------
(* Sequences and types.                                                    *)

\* Reading a pipe takes its first frame and leaves the others in order.
LEMMA TailOf ==
    ASSUME NEW S, NEW s \in Seq(S), s # <<>>
    PROVE  /\ Tail(s) \in Seq(S) /\ Head(s) \in S /\ Head(s) = s[1]
           /\ Len(s) \in Nat /\ Len(s) >= 1 /\ Len(Tail(s)) = Len(s) - 1
           /\ \A k \in 1..Len(Tail(s)) : k + 1 \in 1..Len(s) /\ Tail(s)[k] = s[k + 1]
           /\ Len(s) = 1 => Tail(s) = <<>>
  <1>1. /\ Tail(s) \in Seq(S) /\ Head(s) \in S /\ Head(s) = s[1]
        /\ Len(s) \in Nat /\ Len(s) >= 1 /\ Len(Tail(s)) = Len(s) - 1
        /\ \A k \in 1..Len(Tail(s)) : k + 1 \in 1..Len(s) /\ Tail(s)[k] = s[k + 1]
    OBVIOUS
  <1>2. ASSUME NEW e \in Seq(S), Len(e) = 0 PROVE e = <<>>
    BY <1>2
  <1> QED
    BY <1>1, <1>2

\* Writing to a pipe leaves what is in it, its head included.
LEMMA AppendOf ==
    ASSUME NEW S, NEW s \in Seq(S), NEW f \in S
    PROVE  /\ Append(s, f) \in Seq(S) /\ Append(s, f) # <<>>
           /\ Len(s) \in Nat /\ Len(Append(s, f)) = Len(s) + 1
           /\ \A k \in 1..Len(s) : Append(s, f)[k] = s[k]
           /\ Append(s, f)[Len(s) + 1] = f
           /\ s # <<>> => Head(Append(s, f)) = Head(s)
           /\ s = <<>> => Head(Append(s, f)) = f /\ Len(Append(s, f)) = 1
  OBVIOUS

\* The pipe of a process may be replaced by any sequence of frames.
LEMMA PipeType ==
    ASSUME child \in Processes, NEW p \in Seq(Frames)
    PROVE  /\ [child EXCEPT !.pipe = p] \in Processes
           /\ [child EXCEPT !.pipe = p].pid = child.pid
           /\ [child EXCEPT !.pipe = p].next = child.next
           /\ [child EXCEPT !.pipe = p].job = child.job
           /\ [child EXCEPT !.pipe = p].pipe = p
           /\ [child EXCEPT !.pipe = p].loaded = child.loaded
           /\ [child EXCEPT !.pipe = p].cache = child.cache
  BY DEF Processes

\* The counter moves while it is below the limit.
LEMMA AdvanceType ==
    ASSUME TypeOK, IdsOK, child.next < MaxId, Advance
    PROVE  /\ child' \in Processes /\ IdsOK'
           /\ child'.pid = child.pid /\ child'.cache = child.cache
           /\ child'.job = child.job /\ child'.pipe = child.pipe
           /\ child'.loaded = child.loaded
  <1>1. /\ child' \in Processes /\ child'.next = child.next + 1
        /\ child'.pid = child.pid /\ child'.cache = child.cache
        /\ child'.job = child.job /\ child'.pipe = child.pipe
        /\ child'.loaded = child.loaded
    <2>1. child \in Processes /\ child.next + 1 \in 1..MaxId
      BY DEF TypeOK, Processes
    <2> QED
      BY <2>1 DEF Processes, Advance
  <1>2. child.next \in Nat /\ (child.job # None => child.job.id \in Nat)
    BY DEF TypeOK, Processes, Requests
  <1>3. ASSUME NEW k \in 1..Len(child.pipe)
        PROVE  child.pipe[k].id \in Nat
    <2>1. child.pipe \in Seq(Frames)
      BY DEF TypeOK, Processes
    <2>2. child.pipe[k] \in Frames
      BY <2>1
    <2> QED
      BY <2>2 DEF Frames
  <1>4. IdsOK'
    BY <1>1, <1>2, <1>3 DEF IdsOK
  <1> QED
    BY <1>1, <1>4

-----------------------------------------------------------------------------
(* Giving a process up.                                                    *)

\* Fail() reaps the child and ends the call, or begins a replacement, whatever
\* state the child was in.
LEMMA GiveUpIInv ==
    ASSUME IInv, call.stage \in {"send", "wait"},
           NEW outcome \in Results \ {"none", "ok"}, Fail(outcome),
           child' \in Processes, child'.pid = child.pid, child'.cache = child.cache,
           IdsOK', UNCHANGED <<disk, stray>>
    PROVE  IInv'
  <1>1. /\ actor' = NoProcess /\ actor'.held = FALSE /\ actor'.workspace = None
        /\ running' = {}
    BY DEF IInv, TypeOK, Fail, TakeProcess, NoProcess
  <1>2. call' \in CallStates
    <2>1. call \in CallStates /\ outcome \in Results
      BY DEF IInv, TypeOK
    <2>2. CASE call.method = "refresh"
      BY <2>1, <2>2 DEF Fail, CallStates
    <2>3. CASE call.method # "refresh"
      BY <2>1, <2>3 DEF Fail, Finish, CallStates
    <2> QED
      BY <2>2, <2>3
  <1>3. TypeOK'
    BY <1>1, <1>2 DEF IInv, TypeOK, NoProcess
  <1>4. \/ /\ call.method = "refresh"
           /\ call'.stage = "ensure" /\ call'.replacing = TRUE
        \/ /\ call'.stage = "idle" /\ call'.result = outcome
           /\ call'.replacing = call.replacing
    BY DEF IInv, TypeOK, Fail, Finish, CallStates
  <1>5. call'.kind = call.kind /\ call'.ws = call.ws /\ call'.since = call.since
    BY DEF IInv, TypeOK, Fail, Finish, CallStates
  <1>6. call.method = "refresh" => call.kind = "refresh"
    BY DEF IInv, StageOK
  <1>7. StageOK'
    BY <1>1, <1>4, <1>5, <1>6 DEF IInv, StageOK
  <1>8. QuietOK' /\ WaitOK' /\ LoadedOK' /\ HeadOK'
    BY <1>1, <1>4 DEF QuietOK, WaitOK, LoadedOK, HeadOK
  <1>9. CacheOK'
    BY <1>1, <1>4, <1>5 DEF IInv, CacheOK
  <1>10. AnswerIsForTheCall' /\ RefreshIsFresh'
    BY <1>4 DEF AnswerIsForTheCall, RefreshIsFresh
  <1> QED
    BY <1>3, <1>7, <1>8, <1>9, <1>10 DEF IInv

-----------------------------------------------------------------------------
(* One lemma per step.                                                     *)

\* Before the first call there is no process.
LEMMA InitIInv == Init => IInv
  <1> SUFFICES ASSUME Init PROVE IInv
    OBVIOUS
  <1>1. TypeOK
    BY DEF Init, NoProcess, TypeOK, Processes, Requests, Methods, Kinds,
           CallStates, Frames, Bodies, Results
  <1>2. StageOK
    BY DEF Init, NoProcess, StageOK
  <1>3. IdsOK
    BY DEF Init, NoProcess, IdsOK
  <1>4. QuietOK
    BY DEF Init, NoProcess, QuietOK
  <1>5. WaitOK
    BY DEF Init, NoProcess, WaitOK
  <1>6. LoadedOK
    BY DEF Init, NoProcess, LoadedOK
  <1>7. HeadOK
    BY DEF Init, NoProcess, HeadOK
  <1>8. CacheOK
    BY DEF Init, NoProcess, CacheOK
  <1>9. AnswerIsForTheCall
    BY DEF Init, NoProcess, AnswerIsForTheCall
  <1>10. RefreshIsFresh
    BY DEF Init, NoProcess, RefreshIsFresh
  <1> QED
    BY <1>1, <1>2, <1>3, <1>4, <1>5, <1>6, <1>7, <1>8, <1>9, <1>10 DEF IInv

\* A new process starts with empty pipes and the caches of the day.
LEMMA SpawnIInv == IInv /\ Spawn => IInv'
  <1> SUFFICES ASSUME IInv, Spawn PROVE IInv'
    OBVIOUS
  <1>1. TypeOK'
    <2>1. call' \in CallStates
      BY DEF IInv, TypeOK, Spawn, Ask, CallStates, Methods
    <2>2. child' \in Processes
      <3>1. <<>> \in Seq(Frames) /\ 1 \in 1..MaxId /\ disk \in Nat
        BY DEF IInv, TypeOK
      <3> QED
        BY <3>1 DEF IInv, TypeOK, Spawn, Processes
    <2>3. running' \subseteq {child'.pid}
      <3>1. running = {} /\ child'.pid = child.pid + 1
        BY DEF IInv, StageOK, Spawn
      <3> QED
        BY <3>1 DEF Spawn
    <2> QED
      BY <2>1, <2>2, <2>3 DEF IInv, TypeOK, Spawn
  <1>2. StageOK'
    BY DEF IInv, Spawn, Ask, TypeOK, Processes, Requests, Methods, Kinds,
           CallStates, StageOK
  <1>3. IdsOK'
    BY DEF IInv, Spawn, Ask, TypeOK, Processes, Requests, Methods, Kinds,
           CallStates, IdsOK
  <1>4. QuietOK'
    BY DEF IInv, Spawn, Ask, TypeOK, Processes, Requests, Methods, Kinds,
           CallStates, QuietOK, WaitOK, StageOK
  <1>5. WaitOK'
    BY DEF IInv, Spawn, Ask, TypeOK, Processes, Requests, Methods, Kinds,
           CallStates, WaitOK, QuietOK, IdsOK, StageOK
  <1>6. LoadedOK'
    BY DEF IInv, Spawn, Ask, TypeOK, Processes, Requests, Methods, Kinds,
           CallStates, LoadedOK, QuietOK, HeadOK, WaitOK, StageOK
  <1>7. HeadOK'
    BY DEF IInv, Spawn, Ask, TypeOK, Processes, Requests, Methods, Kinds,
           CallStates, HeadOK, WaitOK, QuietOK, IdsOK, LoadedOK, CacheOK,
           StageOK
  <1>8. CacheOK'
    BY DEF IInv, Spawn, Ask, TypeOK, Processes, Requests, Methods, Kinds,
           CallStates, CacheOK, StageOK
  <1>9. AnswerIsForTheCall'
    BY DEF IInv, Spawn, Ask, TypeOK, Processes, Requests, Methods, Kinds,
           CallStates, AnswerIsForTheCall, HeadOK, StageOK
  <1>10. RefreshIsFresh'
    BY DEF IInv, Spawn, Ask, TypeOK, Processes, Requests, Methods, Kinds,
           CallStates, RefreshIsFresh, HeadOK, CacheOK, StageOK, WaitOK
  <1> QED
    BY <1>1, <1>2, <1>3, <1>4, <1>5, <1>6, <1>7, <1>8, <1>9, <1>10 DEF IInv

\* No process, no change but the answer.
LEMMA SpawnFailsIInv == IInv /\ SpawnFails => IInv'
  <1> SUFFICES ASSUME IInv, SpawnFails PROVE IInv'
    OBVIOUS
  <1>1. TypeOK'
    BY DEF IInv, SpawnFails, Finish, TypeOK, Processes, Requests, Methods,
           Kinds, CallStates, Frames, Bodies, Results
  <1>2. StageOK'
    BY DEF IInv, SpawnFails, Finish, TypeOK, Processes, Requests, Methods,
           Kinds, CallStates, StageOK
  <1>3. IdsOK'
    BY DEF IInv, SpawnFails, Finish, TypeOK, Processes, Requests, Methods,
           Kinds, CallStates, IdsOK
  <1>4. QuietOK'
    BY DEF IInv, SpawnFails, Finish, TypeOK, Processes, Requests, Methods,
           Kinds, CallStates, QuietOK, WaitOK, StageOK
  <1>5. WaitOK'
    BY DEF IInv, SpawnFails, Finish, TypeOK, Processes, Requests, Methods,
           Kinds, CallStates, WaitOK, QuietOK, IdsOK, StageOK
  <1>6. LoadedOK'
    BY DEF IInv, SpawnFails, Finish, TypeOK, Processes, Requests, Methods,
           Kinds, CallStates, LoadedOK, QuietOK, HeadOK, WaitOK, StageOK
  <1>7. HeadOK'
    BY DEF IInv, SpawnFails, Finish, TypeOK, Processes, Requests, Methods,
           Kinds, CallStates, HeadOK, WaitOK, QuietOK, IdsOK, LoadedOK,
           CacheOK, StageOK
  <1>8. CacheOK'
    BY DEF IInv, SpawnFails, Finish, TypeOK, Processes, Requests, Methods,
           Kinds, CallStates, CacheOK, StageOK
  <1>9. AnswerIsForTheCall'
    BY DEF IInv, SpawnFails, Finish, TypeOK, Processes, Requests, Methods,
           Kinds, CallStates, AnswerIsForTheCall, HeadOK, StageOK
  <1>10. RefreshIsFresh'
    BY DEF IInv, SpawnFails, Finish, TypeOK, Processes, Requests, Methods,
           Kinds, CallStates, RefreshIsFresh, HeadOK, CacheOK, StageOK, WaitOK
  <1> QED
    BY <1>1, <1>2, <1>3, <1>4, <1>5, <1>6, <1>7, <1>8, <1>9, <1>10 DEF IInv

\* A kept process is asked to change its workspace.
LEMMA SetWorkspaceIInv == IInv /\ SetWorkspace => IInv'
  <1> SUFFICES ASSUME IInv, SetWorkspace PROVE IInv'
    OBVIOUS
  <1>1. TypeOK'
    BY DEF IInv, SetWorkspace, Ask, TypeOK, Processes, Requests, Methods,
           Kinds, CallStates, Frames, Bodies, Results
  <1>2. StageOK'
    BY DEF IInv, SetWorkspace, Ask, TypeOK, Processes, Requests, Methods,
           Kinds, CallStates, StageOK
  <1>3. IdsOK'
    BY DEF IInv, SetWorkspace, Ask, TypeOK, Processes, Requests, Methods,
           Kinds, CallStates, IdsOK
  <1>4. QuietOK'
    BY DEF IInv, SetWorkspace, Ask, TypeOK, Processes, Requests, Methods,
           Kinds, CallStates, QuietOK, WaitOK, StageOK
  <1>5. WaitOK'
    BY DEF IInv, SetWorkspace, Ask, TypeOK, Processes, Requests, Methods,
           Kinds, CallStates, WaitOK, QuietOK, IdsOK, StageOK
  <1>6. LoadedOK'
    BY DEF IInv, SetWorkspace, Ask, TypeOK, Processes, Requests, Methods,
           Kinds, CallStates, LoadedOK, QuietOK, HeadOK, WaitOK, StageOK
  <1>7. HeadOK'
    BY DEF IInv, SetWorkspace, Ask, TypeOK, Processes, Requests, Methods,
           Kinds, CallStates, HeadOK, WaitOK, QuietOK, IdsOK, LoadedOK,
           CacheOK, StageOK
  <1>8. CacheOK'
    BY DEF IInv, SetWorkspace, Ask, TypeOK, Processes, Requests, Methods,
           Kinds, CallStates, CacheOK, StageOK
  <1>9. AnswerIsForTheCall'
    BY DEF IInv, SetWorkspace, Ask, TypeOK, Processes, Requests, Methods,
           Kinds, CallStates, AnswerIsForTheCall, HeadOK, StageOK
  <1>10. RefreshIsFresh'
    BY DEF IInv, SetWorkspace, Ask, TypeOK, Processes, Requests, Methods,
           Kinds, CallStates, RefreshIsFresh, HeadOK, CacheOK, StageOK, WaitOK
  <1> QED
    BY <1>1, <1>2, <1>3, <1>4, <1>5, <1>6, <1>7, <1>8, <1>9, <1>10 DEF IInv

\* The process is ready for the call, or the replacement is complete.
LEMMA EnsuredIInv == IInv /\ Ensured => IInv'
  <1> SUFFICES ASSUME IInv, Ensured PROVE IInv'
    OBVIOUS
  <1> DEFINE request == IF call.kind = "refresh" THEN "refresh" ELSE "main"
  <1>1. /\ call \in CallStates /\ call.stage = "ensure" /\ call.kind # "live"
        /\ actor.held /\ actor.workspace = call.ws
        /\ UNCHANGED <<actor, child, running, disk, stray>>
    BY DEF IInv, TypeOK, StageOK, Ensured
  <1>2. IdsOK'
    BY <1>1 DEF IInv, IdsOK
  <1>3. CASE call.replacing
    <2>1. call' = [call EXCEPT !.stage = "idle", !.result = "ok"]
      BY <1>3 DEF Ensured, Finish
    <2>2. /\ call' \in CallStates /\ call'.stage = "idle" /\ call'.result = "ok"
          /\ call'.kind = call.kind /\ call'.ws = call.ws /\ call'.since = call.since
          /\ call'.replacing = call.replacing
      BY <1>1, <2>1 DEF CallStates, Results
    <2>3. TypeOK' /\ StageOK' /\ QuietOK' /\ WaitOK' /\ LoadedOK' /\ HeadOK'
      BY <1>1, <2>2 DEF IInv, TypeOK, StageOK, QuietOK, WaitOK, LoadedOK, HeadOK
    <2>4. CacheOK' /\ AnswerIsForTheCall' /\ RefreshIsFresh'
      BY <1>1, <1>3, <2>2 DEF IInv, CacheOK, AnswerIsForTheCall, RefreshIsFresh
    <2> QED
      BY <1>2, <2>3, <2>4 DEF IInv
  <1>4. CASE ~call.replacing
    <2>1. call' = [call EXCEPT !.stage = "send", !.method = request]
      BY <1>4 DEF Ensured, Ask
    <2>2. request \in Methods /\ request \in {"main", "refresh"}
      BY DEF Methods
    <2>3. request = "refresh" <=> call.kind = "refresh"
      OBVIOUS
    <2> HIDE DEF request
    <2>4. /\ call' \in CallStates /\ call'.stage = "send" /\ call'.method = request
          /\ call'.kind = call.kind /\ call'.ws = call.ws /\ call'.since = call.since
          /\ call'.replacing = call.replacing
      BY <1>1, <2>1, <2>2 DEF CallStates
    <2>5. TypeOK' /\ QuietOK' /\ WaitOK' /\ LoadedOK' /\ HeadOK'
      BY <1>1, <2>4 DEF IInv, TypeOK, QuietOK, WaitOK, LoadedOK, HeadOK
    <2>6. StageOK'
      BY <1>1, <1>4, <2>2, <2>3, <2>4 DEF IInv, StageOK
    <2>7. CacheOK' /\ AnswerIsForTheCall' /\ RefreshIsFresh'
      BY <1>1, <1>4, <2>4 DEF IInv, CacheOK, AnswerIsForTheCall, RefreshIsFresh
    <2> QED
      BY <1>2, <2>5, <2>6, <2>7 DEF IInv
  <1> QED
    BY <1>3, <1>4

\* A process without ids left is given up.
LEMMA SendExhaustedIInv == IInv /\ SendExhausted => IInv'
  BY GiveUpIInv DEF SendExhausted, IInv, TypeOK, IdsOK, Results

\* A request that is not written costs an id.
LEMMA SendInvalidIInv == IInv /\ SendInvalid => IInv'
  <1> SUFFICES ASSUME IInv, SendInvalid PROVE IInv'
    OBVIOUS
  <1>1. TypeOK'
    <2>1. child' \in Processes /\ child'.pid = child.pid
      BY AdvanceType DEF IInv, SendInvalid
    <2>2. call' \in CallStates
      BY DEF IInv, TypeOK, SendInvalid, Finish, CallStates, Results
    <2> QED
      BY <2>1, <2>2 DEF IInv, TypeOK, SendInvalid
  <1>2. StageOK'
    BY DEF IInv, SendInvalid, Advance, Finish, TypeOK, Processes, Requests,
           Methods, Kinds, CallStates, StageOK
  <1>3. IdsOK'
    BY AdvanceType DEF IInv, SendInvalid
  <1>4. QuietOK'
    BY DEF IInv, SendInvalid, Advance, Finish, TypeOK, Processes, Requests,
           Methods, Kinds, CallStates, QuietOK, WaitOK, StageOK
  <1>5. WaitOK'
    BY DEF IInv, SendInvalid, Advance, Finish, TypeOK, Processes, Requests,
           Methods, Kinds, CallStates, WaitOK, QuietOK, IdsOK, StageOK
  <1>6. LoadedOK'
    BY DEF IInv, SendInvalid, Advance, Finish, TypeOK, Processes, Requests,
           Methods, Kinds, CallStates, LoadedOK, QuietOK, HeadOK, WaitOK,
           StageOK
  <1>7. HeadOK'
    BY DEF IInv, SendInvalid, Advance, Finish, TypeOK, Processes, Requests,
           Methods, Kinds, CallStates, HeadOK, WaitOK, QuietOK, IdsOK,
           LoadedOK, CacheOK, StageOK
  <1>8. CacheOK'
    BY DEF IInv, SendInvalid, Advance, Finish, TypeOK, Processes, Requests,
           Methods, Kinds, CallStates, CacheOK, StageOK
  <1>9. AnswerIsForTheCall'
    BY DEF IInv, SendInvalid, Advance, Finish, TypeOK, Processes, Requests,
           Methods, Kinds, CallStates, AnswerIsForTheCall, HeadOK, StageOK
  <1>10. RefreshIsFresh'
    BY DEF IInv, SendInvalid, Advance, Finish, TypeOK, Processes, Requests,
           Methods, Kinds, CallStates, RefreshIsFresh, HeadOK, CacheOK,
           StageOK, WaitOK
  <1> QED
    BY <1>1, <1>2, <1>3, <1>4, <1>5, <1>6, <1>7, <1>8, <1>9, <1>10 DEF IInv

\* An interrupted call gives its process up before it writes.
LEMMA SendInterruptedIInv == IInv /\ SendInterrupted => IInv'
  <1> SUFFICES ASSUME IInv, SendInterrupted PROVE IInv'
    OBVIOUS
  <1>1. /\ child' \in Processes /\ IdsOK'
        /\ child'.pid = child.pid /\ child'.cache = child.cache
    BY AdvanceType DEF IInv, SendInterrupted
  <1> QED
    BY <1>1, GiveUpIInv DEF SendInterrupted, Results

\* A dead process is given up.
LEMMA SendBrokenIInv == IInv /\ SendBroken => IInv'
  <1> SUFFICES ASSUME IInv, SendBroken PROVE IInv'
    OBVIOUS
  <1>1. /\ child' \in Processes /\ IdsOK'
        /\ child'.pid = child.pid /\ child'.cache = child.cache
    BY AdvanceType DEF IInv, SendBroken
  <1> QED
    BY <1>1, GiveUpIInv DEF SendBroken, Results

\* A process that ended is given up.
LEMMA EndOfFileIInv == IInv /\ EndOfFile => IInv'
  BY GiveUpIInv DEF EndOfFile, IInv, TypeOK, IdsOK, Results

\* An interrupted wait gives the process up.
LEMMA WaitInterruptedIInv == IInv /\ WaitInterrupted => IInv'
  BY GiveUpIInv DEF WaitInterrupted, IInv, TypeOK, IdsOK, Results

\* An expired wait gives the process up.
LEMMA WaitExpiredIInv == IInv /\ WaitExpired => IInv'
  BY GiveUpIInv DEF WaitExpired, IInv, TypeOK, IdsOK, Results

\* PET takes the request, whose id is larger than any in the pipe.
LEMMA SendIInv == IInv /\ Send => IInv'
  <1> SUFFICES ASSUME IInv, Send PROVE IInv'
    OBVIOUS
  <1> DEFINE job == [id |-> child.next, method |-> call.method,
                     of |-> call.number, ws |-> call.ws]
  <1>1. /\ child \in Processes /\ call \in CallStates
        /\ child.next \in Nat /\ child.next + 1 \in 1..MaxId
        /\ call.stage = "send" /\ child.job = None
    BY DEF IInv, TypeOK, Send, Processes
  <1>2. job \in Requests
    BY <1>1 DEF Requests, CallStates
  <1>3. /\ child' = [child EXCEPT !.next = @ + 1, !.job = job]
        /\ call' = [call EXCEPT !.stage = "wait", !.asked = child.next]
        /\ UNCHANGED <<actor, running, disk, stray>>
    BY DEF Send
  <1> HIDE DEF job
  <1>4. /\ child' \in Processes /\ child'.next = child.next + 1 /\ child'.job = job
        /\ child'.pid = child.pid /\ child'.pipe = child.pipe
        /\ child'.loaded = child.loaded /\ child'.cache = child.cache
    BY <1>1, <1>2, <1>3 DEF Processes
  <1>5. /\ call' \in CallStates /\ call'.stage = "wait" /\ call'.asked = child.next
        /\ call'.number = call.number /\ call'.ws = call.ws /\ call'.kind = call.kind
        /\ call'.method = call.method /\ call'.since = call.since
        /\ call'.replacing = call.replacing
    BY <1>1, <1>3 DEF CallStates
  <1>6. job # None
    BY <1>2
  <1>7. job.id = child.next
    BY DEF job
  <1>8. child.pipe # <<>> => Head(child.pipe).id < child.next /\ Head(child.pipe).id \in Nat
    <2> SUFFICES ASSUME child.pipe # <<>>
                 PROVE  Head(child.pipe).id < child.next /\ Head(child.pipe).id \in Nat
      OBVIOUS
    <2>1. child.pipe \in Seq(Frames)
      BY <1>1 DEF Processes
    <2>2. Head(child.pipe) = child.pipe[1] /\ Head(child.pipe) \in Frames
          /\ 1 \in 1..Len(child.pipe)
      BY <2>1, TailOf
    <2> QED
      BY <2>2 DEF IInv, IdsOK, Frames
  <1>9. TypeOK'
    BY <1>3, <1>4, <1>5 DEF IInv, TypeOK
  <1>10. StageOK'
    BY <1>1, <1>3, <1>5 DEF IInv, StageOK
  <1>11. IdsOK'
    <2>1. ASSUME NEW k \in 1..Len(child.pipe)
          PROVE  child.pipe[k].id < child.next + 1
      <3>1. child.pipe \in Seq(Frames)
        BY <1>1 DEF Processes
      <3>2. child.pipe[k] \in Frames
        BY <3>1
      <3>3. child.pipe[k].id \in Nat /\ child.pipe[k].id < child.next
        BY <3>2 DEF IInv, IdsOK, Frames
      <3> QED
        BY <3>3, <1>1
    <2> QED
      BY <2>1, <1>1, <1>4, <1>7 DEF IdsOK
  <1>12. QuietOK'
    BY <1>5 DEF QuietOK
  <1>13. WaitOK'
    <2>1. stray = 0 => child.pipe = <<>>
      BY <1>1 DEF IInv, QuietOK
    <2>2. job = [id |-> child.next, method |-> call.method, of |-> call.number,
                 ws |-> call.ws]
      BY DEF job
    <2> QED
      BY <2>1, <2>2, <1>1, <1>3, <1>4, <1>5, <1>6, <1>8 DEF WaitOK
  <1>14. LoadedOK'
    BY <1>1, <1>3, <1>4, <1>5 DEF IInv, LoadedOK
  <1>15. HeadOK'
    BY <1>1, <1>4, <1>5, <1>8 DEF HeadOK
  <1>16. CacheOK'
    BY <1>1, <1>3, <1>4, <1>5 DEF IInv, CacheOK
  <1>17. AnswerIsForTheCall' /\ RefreshIsFresh'
    BY <1>5 DEF AnswerIsForTheCall, RefreshIsFresh
  <1> QED
    BY <1>9, <1>10, <1>11, <1>12, <1>13, <1>14, <1>15, <1>16, <1>17 DEF IInv

\* The oldest frame is read, and trusted only if it is the answer.
LEMMA ReceiveIInv == IInv /\ Receive => IInv'
  <1> SUFFICES ASSUME IInv, Receive PROVE IInv'
    OBVIOUS
  <1> DEFINE frame == Head(child.pipe)
  <1>1. /\ child \in Processes /\ call \in CallStates /\ child.pipe \in Seq(Frames)
        /\ call.stage = "wait" /\ child.pipe # <<>> /\ frame \in Frames
    BY TailOf DEF IInv, TypeOK, Receive, Processes
  <1>2. /\ child' \in Processes /\ child'.pid = child.pid /\ child'.next = child.next
        /\ child'.job = child.job /\ child'.pipe = Tail(child.pipe)
        /\ child'.loaded = child.loaded /\ child'.cache = child.cache
        /\ UNCHANGED <<disk, stray>>
    BY <1>1, TailOf, PipeType DEF Receive
  <1>3. IdsOK'
    BY <1>1, <1>2, TailOf DEF IInv, IdsOK
  <1>4. CASE Fail("protocol")
    BY <1>1, <1>2, <1>3, <1>4, GiveUpIInv DEF Results
  <1>5. CASE Fail("refused")
    BY <1>1, <1>2, <1>3, <1>5, GiveUpIInv DEF Results
  <1>6. ASSUME frame.id = call.asked
        PROVE  child.job = None /\ (stray = 0 => Tail(child.pipe) = <<>>)
    BY <1>1, <1>6, TailOf DEF IInv, WaitOK
  <1>7. CASE /\ frame.id = call.asked /\ frame.body = "refusal"
             /\ call.method \notin {"capabilities", "refresh"}
             /\ Finish("refused") /\ UNCHANGED <<actor, running>>
    <2>1. /\ call' \in CallStates /\ call'.stage = "idle" /\ call'.result = "refused"
          /\ call'.kind = call.kind /\ call'.ws = call.ws /\ call'.since = call.since
          /\ call'.replacing = call.replacing
      BY <1>1, <1>7 DEF Finish, CallStates, Results
    <2>2. TypeOK'
      BY <1>2, <1>7, <2>1 DEF IInv, TypeOK
    <2>3. StageOK'
      BY <1>1, <1>7, <2>1 DEF IInv, StageOK
    <2>4. QuietOK'
      BY <1>2, <1>6, <1>7 DEF QuietOK
    <2>5. LoadedOK'
      BY <1>1, <1>2, <1>7, <2>1 DEF IInv, LoadedOK, HeadOK
    <2>6. CacheOK'
      BY <1>1, <1>2, <1>7, <2>1 DEF IInv, CacheOK
    <2>7. WaitOK' /\ HeadOK' /\ AnswerIsForTheCall' /\ RefreshIsFresh'
      BY <2>1 DEF WaitOK, HeadOK, AnswerIsForTheCall, RefreshIsFresh
    <2> QED
      BY <1>3, <2>2, <2>3, <2>4, <2>5, <2>6, <2>7 DEF IInv
  <1>8. CASE /\ frame.id = call.asked /\ frame.body = "value"
             /\ Accept(frame) /\ UNCHANGED running
    <2>1. CASE call.method \in {"capabilities", "setWorkspace"}
      <3>1. /\ call' \in CallStates /\ call'.stage = "ensure" /\ call'.kind = call.kind
            /\ call'.ws = call.ws /\ call'.since = call.since
            /\ call'.replacing = call.replacing
        BY <1>1, <1>8, <2>1 DEF Accept, CallStates
      <3>2. /\ actor' \in [held : BOOLEAN, workspace : Workspaces \cup {None}]
            /\ actor'.held = TRUE
            /\ \/ actor'.workspace = None
               \/ call.method = "setWorkspace" /\ actor'.workspace = call.ws
        <4>1. CASE call.method = "capabilities"
          <5>1. actor' = [held |-> TRUE, workspace |-> None]
            BY <1>8, <4>1 DEF Accept
          <5>2. actor'.held = TRUE /\ actor'.workspace = None
            BY <5>1
          <5>3. actor' \in [held : BOOLEAN, workspace : Workspaces \cup {None}]
            BY <5>1
          <5> QED
            BY <5>2, <5>3
        <4>2. CASE call.method = "setWorkspace"
          <5>1. actor' = [actor EXCEPT !.workspace = call.ws] /\ actor.held
            BY <1>1, <1>8, <4>2 DEF Accept, IInv, StageOK
          <5>2. call.ws \in Workspaces \cup {None}
            BY <1>1 DEF CallStates
          <5>3. actor \in [held : BOOLEAN, workspace : Workspaces \cup {None}]
            BY DEF IInv, TypeOK
          <5>4. /\ actor' \in [held : BOOLEAN, workspace : Workspaces \cup {None}]
                /\ actor'.held = actor.held /\ actor'.workspace = call.ws
            BY <5>1, <5>2, <5>3
          <5>5. actor.held = TRUE
            BY <5>1, <5>3, Zenon
          <5> QED
            BY <4>2, <5>4, <5>5
        <4> QED
          BY <2>1, <4>1, <4>2
      <3>3. TypeOK'
        BY <1>2, <1>8, <3>1, <3>2 DEF IInv, TypeOK
      <3>4. StageOK'
        <4>1. call.kind # "live"
          BY <1>1, <2>1 DEF IInv, StageOK
        <4> QED
          BY <1>1, <3>1, <3>2, <4>1 DEF IInv, StageOK
      <3>5. QuietOK'
        BY <1>2, <1>6, <1>8 DEF QuietOK
      <3>6. LoadedOK'
        BY <1>1, <1>2, <1>8, <3>1, <3>2 DEF IInv, LoadedOK, HeadOK
      <3>7. CacheOK'
        BY <1>1, <1>2, <3>1 DEF IInv, CacheOK
      <3>8. WaitOK' /\ HeadOK' /\ AnswerIsForTheCall' /\ RefreshIsFresh'
        BY <3>1 DEF WaitOK, HeadOK, AnswerIsForTheCall, RefreshIsFresh
      <3> QED
        BY <1>3, <3>3, <3>4, <3>5, <3>6, <3>7, <3>8 DEF IInv
    <2>2. CASE call.method \in {"main", "refresh"}
      <3>1. /\ call' = [call EXCEPT !.stage = "idle", !.result = "ok", !.got = frame.of]
            /\ UNCHANGED actor
        BY <1>8, <2>2 DEF Accept
      <3>2. frame.of \in Nat
        BY <1>1 DEF Frames
      <3>3. /\ call' \in CallStates /\ call'.stage = "idle" /\ call'.kind = call.kind
            /\ call'.ws = call.ws /\ call'.since = call.since /\ call'.got = frame.of
            /\ call'.number = call.number /\ call'.replacing = call.replacing
        BY <1>1, <3>1, <3>2 DEF CallStates, Results
      <3>4. TypeOK'
        BY <1>2, <1>8, <3>1, <3>3 DEF IInv, TypeOK
      <3>5. StageOK'
        BY <1>1, <2>2, <3>1, <3>3 DEF IInv, StageOK
      <3>6. QuietOK'
        BY <1>2, <1>6, <1>8 DEF QuietOK
      <3>7. LoadedOK'
        BY <1>2, <2>2, <3>1, <3>3 DEF IInv, LoadedOK
      <3>8. CacheOK'
        BY <1>1, <1>2, <3>1, <3>3 DEF IInv, CacheOK
      <3>9. AnswerIsForTheCall'
        BY <1>1, <1>8, <3>3 DEF IInv, HeadOK, AnswerIsForTheCall
      <3>10. RefreshIsFresh'
        BY <1>1, <1>2, <1>8, <2>2, <3>3 DEF IInv, HeadOK, StageOK, RefreshIsFresh
      <3>11. WaitOK' /\ HeadOK'
        BY <3>3 DEF WaitOK, HeadOK
      <3> QED
        BY <1>3, <3>4, <3>5, <3>6, <3>7, <3>8, <3>9, <3>10, <3>11 DEF IInv
    <2> QED
      BY <1>8, <2>1, <2>2 DEF Accept
  <1> QED
    BY <1>4, <1>5, <1>7, <1>8 DEF Receive, Refused

\* The coordinator lets the process go between calls.
LEMMA RestartIInv == IInv /\ Restart => IInv'
  <1> SUFFICES ASSUME IInv, Restart PROVE IInv'
    OBVIOUS
  <1>1. TypeOK'
    BY DEF IInv, Restart, TakeProcess, NoProcess, TypeOK, Processes, Requests,
           Methods, Kinds, CallStates, Frames, Bodies, Results
  <1>2. StageOK'
    BY DEF IInv, Restart, TakeProcess, NoProcess, TypeOK, Processes, Requests,
           Methods, Kinds, CallStates, StageOK
  <1>3. IdsOK'
    BY DEF IInv, Restart, TakeProcess, NoProcess, TypeOK, Processes, Requests,
           Methods, Kinds, CallStates, IdsOK
  <1>4. QuietOK'
    BY DEF IInv, Restart, TakeProcess, NoProcess, TypeOK, Processes, Requests,
           Methods, Kinds, CallStates, QuietOK, WaitOK, StageOK
  <1>5. WaitOK'
    BY DEF IInv, Restart, TakeProcess, NoProcess, TypeOK, Processes, Requests,
           Methods, Kinds, CallStates, WaitOK, QuietOK, IdsOK, StageOK
  <1>6. LoadedOK'
    BY DEF IInv, Restart, TakeProcess, NoProcess, TypeOK, Processes, Requests,
           Methods, Kinds, CallStates, LoadedOK, QuietOK, HeadOK, WaitOK,
           StageOK
  <1>7. HeadOK'
    BY DEF IInv, Restart, TakeProcess, NoProcess, TypeOK, Processes, Requests,
           Methods, Kinds, CallStates, HeadOK, WaitOK, QuietOK, IdsOK,
           LoadedOK, CacheOK, StageOK
  <1>8. CacheOK'
    BY DEF IInv, Restart, TakeProcess, NoProcess, TypeOK, Processes, Requests,
           Methods, Kinds, CallStates, CacheOK, StageOK
  <1>9. AnswerIsForTheCall'
    BY DEF IInv, Restart, TakeProcess, NoProcess, TypeOK, Processes, Requests,
           Methods, Kinds, CallStates, AnswerIsForTheCall, HeadOK, StageOK
  <1>10. RefreshIsFresh'
    BY DEF IInv, Restart, TakeProcess, NoProcess, TypeOK, Processes, Requests,
           Methods, Kinds, CallStates, RefreshIsFresh, HeadOK, CacheOK,
           StageOK, WaitOK
  <1> QED
    BY <1>1, <1>2, <1>3, <1>4, <1>5, <1>6, <1>7, <1>8, <1>9, <1>10 DEF IInv

\* PET answers the request it has: behind whatever is in the pipe already.
LEMMA PetAnswersIInv == IInv /\ PetAnswers => IInv'
  <1> SUFFICES ASSUME IInv, PetAnswers PROVE IInv'
    OBVIOUS
  <1> DEFINE job == child.job
             answer(body) == [id |-> job.id, of |-> job.of, body |-> body]
             done(body) == body \in {"value", "odd"}
  <1>1. PICK body \in Bodies :
          child' = [child EXCEPT
            !.job = None, !.pipe = Append(@, answer(body)),
            !.loaded = IF done(body) /\ job.method = "setWorkspace" THEN job.ws ELSE @,
            !.cache = IF done(body) /\ job.method = "refresh" THEN disk ELSE @]
    BY DEF PetAnswers
  <1>2. /\ child \in Processes /\ child.pipe \in Seq(Frames) /\ call \in CallStates
        /\ job \in Requests /\ job # None /\ disk \in Nat
        /\ child.pid \in running /\ UNCHANGED <<actor, running, call, disk, stray>>
    BY DEF IInv, TypeOK, PetAnswers, Processes
  <1>3. answer(body) \in Frames /\ job.ws \in Workspaces \cup {None}
    BY <1>2 DEF Frames, Requests
  <1>4. Append(child.pipe, answer(body)) \in Seq(Frames)
    BY <1>2, <1>3, AppendOf
  <1> DEFINE pipe == Append(child.pipe, answer(body))
  <1>5. /\ child' \in Processes /\ child'.pid = child.pid /\ child'.next = child.next
        /\ child'.job = None /\ child'.pipe = pipe
        /\ child'.loaded = (IF done(body) /\ job.method = "setWorkspace"
                            THEN job.ws ELSE child.loaded)
        /\ child'.cache = (IF done(body) /\ job.method = "refresh"
                           THEN disk ELSE child.cache)
    <2> HIDE DEF pipe, answer, done
    <2> DEFINE load == IF done(body) /\ job.method = "setWorkspace"
                       THEN job.ws ELSE child.loaded
               fresh == IF done(body) /\ job.method = "refresh"
                        THEN disk ELSE child.cache
    <2>1. load \in Workspaces \cup {None} /\ fresh \in Nat
      BY <1>2, <1>3 DEF Processes
    <2>2. child' = [child EXCEPT !.job = None, !.pipe = pipe, !.loaded = load,
                                 !.cache = fresh]
      BY <1>1 DEF pipe
    <2>3. pipe \in Seq(Frames)
      BY <1>4 DEF pipe
    <2> HIDE DEF load, fresh
    <2>4. /\ child' \in Processes /\ child'.pid = child.pid /\ child'.next = child.next
          /\ child'.job = None /\ child'.pipe = pipe
          /\ child'.loaded = load /\ child'.cache = fresh
      BY <1>2, <2>1, <2>2, <2>3 DEF Processes
    <2> QED
      BY <2>4 DEF load, fresh
  <1>6. /\ pipe # <<>> /\ Len(child.pipe) \in Nat /\ Len(pipe) = Len(child.pipe) + 1
        /\ \A k \in 1..Len(child.pipe) : pipe[k] = child.pipe[k]
        /\ pipe[Len(child.pipe) + 1] = answer(body)
        /\ child.pipe # <<>> => Head(pipe) = Head(child.pipe)
        /\ child.pipe = <<>> => Head(pipe) = answer(body) /\ Len(pipe) = 1
    BY <1>2, <1>3, AppendOf
  <1> HIDE DEF pipe
  <1>7. /\ call.stage \in {"idle", "ensure"} => ~actor.held
        /\ call.stage # "send"
    BY <1>2 DEF IInv, QuietOK
  <1>8. call.stage = "wait"
    BY <1>2, <1>7 DEF IInv, StageOK, CallStates
  <1>9. /\ job.id = call.asked /\ job.method = call.method
        /\ job.of = call.number /\ job.ws = call.ws
        /\ child.pipe # <<>> => Head(child.pipe).id # call.asked
    BY <1>2, <1>8 DEF IInv, WaitOK
  <1>10. TypeOK'
    BY <1>2, <1>5 DEF IInv, TypeOK
  <1>11. StageOK'
    BY <1>2 DEF IInv, StageOK
  <1>12. IdsOK'
    <2>1. ASSUME NEW k \in 1..Len(pipe) PROVE pipe[k].id < child.next
      <3>1. CASE k \in 1..Len(child.pipe)
        BY <3>1, <1>6 DEF IInv, IdsOK
      <3>2. CASE k = Len(child.pipe) + 1
        BY <3>2, <1>2, <1>6 DEF IInv, IdsOK
      <3> QED
        BY <3>1, <3>2, <1>6
    <2> QED
      BY <2>1, <1>5 DEF IdsOK
  <1>13. QuietOK' /\ AnswerIsForTheCall' /\ RefreshIsFresh'
    BY <1>2, <1>8 DEF QuietOK, AnswerIsForTheCall, RefreshIsFresh
  <1>14. WaitOK'
    BY <1>2, <1>5, <1>6 DEF IInv, WaitOK
  <1>15. LoadedOK'
    BY <1>2, <1>5, <1>8, <1>9 DEF IInv, LoadedOK
  <1>16. HeadOK'
    <2> SUFFICES ASSUME Head(pipe).id = call.asked
                 PROVE  /\ Head(pipe).of = call.number
                        /\ call.method = "setWorkspace" =>
                              /\ Head(pipe).body = "value" => child'.loaded = call.ws
                              /\ Head(pipe).body = "refusal" =>
                                    actor.workspace \in {None, child'.loaded}
                        /\ call.method = "refresh" /\ Head(pipe).body = "value" =>
                              child'.cache >= call.since
      BY <1>2, <1>5 DEF HeadOK
    <2>1. Head(pipe) = answer(body)
      BY <1>6, <1>9
    <2>2. Head(pipe).of = call.number /\ Head(pipe).body = body
      BY <2>1, <1>9
    <2>3. actor.workspace \in {None, child.loaded}
      BY <1>2, <1>8 DEF IInv, LoadedOK, StageOK
    <2>4. call.since \in Nat /\ call.since <= disk
      BY <1>2 DEF IInv, CacheOK, CallStates
    <2> QED
      BY <1>2, <1>5, <1>9, <2>2, <2>3, <2>4
  <1>17. CacheOK'
    <2>1. call.since \in Nat /\ call.since <= disk /\ child.cache \in Nat
      BY <1>2 DEF IInv, CacheOK, CallStates, Processes
    <2> QED
      BY <2>1, <1>2, <1>5 DEF IInv, CacheOK
  <1> QED
    BY <1>10, <1>11, <1>12, <1>13, <1>14, <1>15, <1>16, <1>17 DEF IInv

\* PET repeats an id that is not the one it works on.
LEMMA PetRepeatsIInv == IInv /\ PetRepeats => IInv'
  <1> SUFFICES ASSUME IInv, PetRepeats PROVE IInv'
    OBVIOUS
  <1> DEFINE echo(id) == [id |-> id, of |-> 0, body |-> "value"]
  <1>1. PICK id \in 1..(child.next - 1) :
          /\ child.job # None => id # child.job.id
          /\ child' = [child EXCEPT !.pipe = Append(@, echo(id))]
    BY DEF PetRepeats
  <1>2. /\ child \in Processes /\ child.pipe \in Seq(Frames)
        /\ child.next \in Nat /\ id \in Nat /\ id < child.next
        /\ stray \in Nat /\ stray' = stray + 1 /\ stray' \in 0..MaxStray
        /\ UNCHANGED <<actor, running, call, disk>>
    BY DEF IInv, TypeOK, PetRepeats, Processes
  <1>3. echo(id) \in Frames
    BY <1>2 DEF Frames, Bodies
  <1> DEFINE pipe == Append(child.pipe, echo(id))
  <1>4. /\ pipe \in Seq(Frames)
        /\ pipe # <<>> /\ Len(child.pipe) \in Nat /\ Len(pipe) = Len(child.pipe) + 1
        /\ \A k \in 1..Len(child.pipe) : pipe[k] = child.pipe[k]
        /\ pipe[Len(child.pipe) + 1] = echo(id)
        /\ child.pipe # <<>> => Head(pipe) = Head(child.pipe)
        /\ child.pipe = <<>> => Head(pipe) = echo(id)
    BY <1>2, <1>3, AppendOf
  <1>5. child' = [child EXCEPT !.pipe = pipe]
    BY <1>1
  <1> HIDE DEF pipe
  <1>6. /\ child' \in Processes /\ child'.pid = child.pid /\ child'.next = child.next
        /\ child'.job = child.job /\ child'.pipe = pipe
        /\ child'.loaded = child.loaded /\ child'.cache = child.cache
    BY <1>2, <1>4, <1>5, PipeType
  <1>7. echo(id).id = id
    OBVIOUS
  <1>8. TypeOK'
    BY <1>2, <1>6 DEF IInv, TypeOK
  <1>9. StageOK' /\ LoadedOK' /\ CacheOK' /\ AnswerIsForTheCall' /\ RefreshIsFresh'
    BY <1>2, <1>6 DEF IInv, StageOK, LoadedOK, CacheOK, AnswerIsForTheCall,
                      RefreshIsFresh
  <1>10. IdsOK'
    <2>1. ASSUME NEW k \in 1..Len(pipe) PROVE pipe[k].id < child.next
      <3>1. CASE k \in 1..Len(child.pipe)
        BY <3>1, <1>4 DEF IInv, IdsOK
      <3>2. CASE k = Len(child.pipe) + 1
        BY <3>2, <1>2, <1>4, <1>7
      <3> QED
        BY <3>1, <3>2, <1>4
    <2> QED
      BY <2>1, <1>6 DEF IInv, IdsOK
  <1>11. QuietOK'
    BY <1>2, <1>6 DEF IInv, QuietOK
  <1>12. WaitOK'
    <2> SUFFICES ASSUME call.stage = "wait"
                 PROVE  /\ pipe # <<>>
                        /\ child.job # None => Head(pipe).id # call.asked
      BY <1>2, <1>6 DEF IInv, WaitOK
    <2>1. child.job # None =>
             child.job.id = call.asked /\ (child.pipe # <<>> => Head(child.pipe).id # call.asked)
      BY DEF IInv, WaitOK
    <2> QED
      BY <2>1, <1>1, <1>4, <1>7
  <1>13. HeadOK'
    <2>1. CASE child.pipe # <<>>
      BY <2>1, <1>2, <1>4, <1>6 DEF IInv, HeadOK
    <2>2. CASE child.pipe = <<>> /\ call.stage = "wait"
      <3>1. child.job # None /\ child.job.id = call.asked
        BY <2>2 DEF IInv, WaitOK
      <3> QED
        BY <3>1, <2>2, <1>1, <1>2, <1>4, <1>6, <1>7 DEF HeadOK
    <2>3. CASE call.stage # "wait"
      BY <2>3, <1>2 DEF HeadOK
    <2> QED
      BY <2>1, <2>2, <2>3
  <1> QED
    BY <1>8, <1>9, <1>10, <1>11, <1>12, <1>13 DEF IInv

\* PET may die at any time.
LEMMA PetDiesIInv == IInv /\ PetDies => IInv'
  <1> SUFFICES ASSUME IInv, PetDies PROVE IInv'
    OBVIOUS
  <1>1. TypeOK'
    BY DEF IInv, PetDies, TypeOK, Processes, Requests, Methods, Kinds,
           CallStates, Frames, Bodies, Results
  <1>2. StageOK'
    BY DEF IInv, PetDies, TypeOK, Processes, Requests, Methods, Kinds,
           CallStates, StageOK
  <1>3. IdsOK'
    BY DEF IInv, PetDies, TypeOK, Processes, Requests, Methods, Kinds,
           CallStates, IdsOK
  <1>4. QuietOK'
    BY DEF IInv, PetDies, TypeOK, Processes, Requests, Methods, Kinds,
           CallStates, QuietOK, WaitOK, StageOK
  <1>5. WaitOK'
    BY DEF IInv, PetDies, TypeOK, Processes, Requests, Methods, Kinds,
           CallStates, WaitOK, QuietOK, IdsOK, StageOK
  <1>6. LoadedOK'
    BY DEF IInv, PetDies, TypeOK, Processes, Requests, Methods, Kinds,
           CallStates, LoadedOK, QuietOK, HeadOK, WaitOK, StageOK
  <1>7. HeadOK'
    BY DEF IInv, PetDies, TypeOK, Processes, Requests, Methods, Kinds,
           CallStates, HeadOK, WaitOK, QuietOK, IdsOK, LoadedOK, CacheOK,
           StageOK
  <1>8. CacheOK'
    BY DEF IInv, PetDies, TypeOK, Processes, Requests, Methods, Kinds,
           CallStates, CacheOK, StageOK
  <1>9. AnswerIsForTheCall'
    BY DEF IInv, PetDies, TypeOK, Processes, Requests, Methods, Kinds,
           CallStates, AnswerIsForTheCall, HeadOK, StageOK
  <1>10. RefreshIsFresh'
    BY DEF IInv, PetDies, TypeOK, Processes, Requests, Methods, Kinds,
           CallStates, RefreshIsFresh, HeadOK, CacheOK, StageOK, WaitOK
  <1> QED
    BY <1>1, <1>2, <1>3, <1>4, <1>5, <1>6, <1>7, <1>8, <1>9, <1>10 DEF IInv

\* A request may be interrupted at any time.
LEMMA InterruptIInv == IInv /\ Interrupt => IInv'
  <1> SUFFICES ASSUME IInv, Interrupt PROVE IInv'
    OBVIOUS
  <1>1. TypeOK'
    BY DEF IInv, Interrupt, TypeOK, Processes, Requests, Methods, Kinds,
           CallStates, Frames, Bodies, Results
  <1>2. StageOK'
    BY DEF IInv, Interrupt, TypeOK, Processes, Requests, Methods, Kinds,
           CallStates, StageOK
  <1>3. IdsOK'
    BY DEF IInv, Interrupt, TypeOK, Processes, Requests, Methods, Kinds,
           CallStates, IdsOK
  <1>4. QuietOK'
    BY DEF IInv, Interrupt, TypeOK, Processes, Requests, Methods, Kinds,
           CallStates, QuietOK, WaitOK, StageOK
  <1>5. WaitOK'
    BY DEF IInv, Interrupt, TypeOK, Processes, Requests, Methods, Kinds,
           CallStates, WaitOK, QuietOK, IdsOK, StageOK
  <1>6. LoadedOK'
    BY DEF IInv, Interrupt, TypeOK, Processes, Requests, Methods, Kinds,
           CallStates, LoadedOK, QuietOK, HeadOK, WaitOK, StageOK
  <1>7. HeadOK'
    BY DEF IInv, Interrupt, TypeOK, Processes, Requests, Methods, Kinds,
           CallStates, HeadOK, WaitOK, QuietOK, IdsOK, LoadedOK, CacheOK,
           StageOK
  <1>8. CacheOK'
    BY DEF IInv, Interrupt, TypeOK, Processes, Requests, Methods, Kinds,
           CallStates, CacheOK, StageOK
  <1>9. AnswerIsForTheCall'
    BY DEF IInv, Interrupt, TypeOK, Processes, Requests, Methods, Kinds,
           CallStates, AnswerIsForTheCall, HeadOK, StageOK
  <1>10. RefreshIsFresh'
    BY DEF IInv, Interrupt, TypeOK, Processes, Requests, Methods, Kinds,
           CallStates, RefreshIsFresh, HeadOK, CacheOK, StageOK, WaitOK
  <1> QED
    BY <1>1, <1>2, <1>3, <1>4, <1>5, <1>6, <1>7, <1>8, <1>9, <1>10 DEF IInv

\* A build changes the disk only.
LEMMA RebuildIInv == IInv /\ Rebuild => IInv'
  <1> SUFFICES ASSUME IInv, Rebuild PROVE IInv'
    OBVIOUS
  <1>1. TypeOK'
    BY DEF IInv, Rebuild, TypeOK, Processes, Requests, Methods, Kinds,
           CallStates, Frames, Bodies, Results
  <1>2. StageOK'
    BY DEF IInv, Rebuild, TypeOK, Processes, Requests, Methods, Kinds,
           CallStates, StageOK
  <1>3. IdsOK'
    BY DEF IInv, Rebuild, TypeOK, Processes, Requests, Methods, Kinds,
           CallStates, IdsOK
  <1>4. QuietOK'
    BY DEF IInv, Rebuild, TypeOK, Processes, Requests, Methods, Kinds,
           CallStates, QuietOK, WaitOK, StageOK
  <1>5. WaitOK'
    BY DEF IInv, Rebuild, TypeOK, Processes, Requests, Methods, Kinds,
           CallStates, WaitOK, QuietOK, IdsOK, StageOK
  <1>6. LoadedOK'
    BY DEF IInv, Rebuild, TypeOK, Processes, Requests, Methods, Kinds,
           CallStates, LoadedOK, QuietOK, HeadOK, WaitOK, StageOK
  <1>7. HeadOK'
    BY DEF IInv, Rebuild, TypeOK, Processes, Requests, Methods, Kinds,
           CallStates, HeadOK, WaitOK, QuietOK, IdsOK, LoadedOK, CacheOK,
           StageOK
  <1>8. CacheOK'
    BY DEF IInv, Rebuild, TypeOK, Processes, Requests, Methods, Kinds,
           CallStates, CacheOK, StageOK
  <1>9. AnswerIsForTheCall'
    BY DEF IInv, Rebuild, TypeOK, Processes, Requests, Methods, Kinds,
           CallStates, AnswerIsForTheCall, HeadOK, StageOK
  <1>10. RefreshIsFresh'
    BY DEF IInv, Rebuild, TypeOK, Processes, Requests, Methods, Kinds,
           CallStates, RefreshIsFresh, HeadOK, CacheOK, StageOK, WaitOK
  <1> QED
    BY <1>1, <1>2, <1>3, <1>4, <1>5, <1>6, <1>7, <1>8, <1>9, <1>10 DEF IInv

\* A new call starts on a process that owes nothing.
LEMMA CallIInv ==
    ASSUME IInv, NEW kind \in Kinds, NEW ws \in Workspaces, NEW timed \in BOOLEAN,
           Call(kind, ws, timed)
    PROVE  IInv'
  <1>1. TypeOK'
    BY DEF IInv, Call, TypeOK, Processes, Requests, Methods, Kinds,
           CallStates, Frames, Bodies, Results
  <1>2. StageOK'
    BY DEF IInv, Call, TypeOK, Processes, Requests, Methods, Kinds,
           CallStates, StageOK
  <1>3. IdsOK'
    BY DEF IInv, Call, TypeOK, Processes, Requests, Methods, Kinds,
           CallStates, IdsOK
  <1>4. QuietOK'
    BY DEF IInv, Call, TypeOK, Processes, Requests, Methods, Kinds,
           CallStates, QuietOK, WaitOK, StageOK
  <1>5. WaitOK'
    BY DEF IInv, Call, TypeOK, Processes, Requests, Methods, Kinds,
           CallStates, WaitOK, QuietOK, IdsOK, StageOK
  <1>6. LoadedOK'
    BY DEF IInv, Call, TypeOK, Processes, Requests, Methods, Kinds,
           CallStates, LoadedOK, QuietOK, HeadOK, WaitOK, StageOK
  <1>7. HeadOK'
    BY DEF IInv, Call, TypeOK, Processes, Requests, Methods, Kinds,
           CallStates, HeadOK, WaitOK, QuietOK, IdsOK, LoadedOK, CacheOK,
           StageOK
  <1>8. CacheOK'
    BY DEF IInv, Call, TypeOK, Processes, Requests, Methods, Kinds,
           CallStates, CacheOK, StageOK
  <1>9. AnswerIsForTheCall'
    BY DEF IInv, Call, TypeOK, Processes, Requests, Methods, Kinds,
           CallStates, AnswerIsForTheCall, HeadOK, StageOK
  <1>10. RefreshIsFresh'
    BY DEF IInv, Call, TypeOK, Processes, Requests, Methods, Kinds,
           CallStates, RefreshIsFresh, HeadOK, CacheOK, StageOK, WaitOK
  <1> QED
    BY <1>1, <1>2, <1>3, <1>4, <1>5, <1>6, <1>7, <1>8, <1>9, <1>10 DEF IInv

\* The invariant is inductive.
LEMMA NextIInv == IInv /\ [Next]_vars => IInv'
  <1> SUFFICES ASSUME IInv, [Next]_vars PROVE IInv'
    OBVIOUS
  <1>1. CASE UNCHANGED vars
    BY <1>1 DEF IInv, vars, TypeOK, StageOK, IdsOK, QuietOK, WaitOK, LoadedOK, HeadOK,
                CacheOK, AnswerIsForTheCall, RefreshIsFresh
  <1>2. CASE ActorStep
    BY <1>2, SpawnIInv, SpawnFailsIInv, SetWorkspaceIInv, EnsuredIInv,
       SendExhaustedIInv, SendInvalidIInv, SendInterruptedIInv, SendBrokenIInv,
       SendIInv, ReceiveIInv, EndOfFileIInv, WaitInterruptedIInv DEF ActorStep
  <1>3. CASE \E kind \in Kinds, ws \in Workspaces, timed \in BOOLEAN :
                Call(kind, ws, timed)
    BY <1>3, CallIInv
  <1> QED
    BY <1>1, <1>2, <1>3, RestartIInv, WaitExpiredIInv, PetAnswersIInv, PetRepeatsIInv,
       PetDiesIInv, InterruptIInv, RebuildIInv DEF Next

\* Every reachable state satisfies it.
LEMMA Reachable == Spec => []IInv
  BY InitIInv, NextIInv, PTL DEF Spec

-----------------------------------------------------------------------------
(* What the callers of the actor may rely on.                              *)

\* Request ids stay below their limit and every field in its type.
THEOREM TypeCorrect == Spec => []TypeOK
  <1>1. IInv => TypeOK
    BY DEF IInv
  <1> QED
    BY <1>1, Reachable, PTL

\* A value that rpc_with_timeout() hands to a caller was computed for its call,
\* whatever PET repeated and whatever was cancelled before.
THEOREM AnswersCorrect == Spec => []AnswerIsForTheCall
  <1>1. IInv => AnswerIsForTheCall
    BY DEF IInv
  <1> QED
    BY <1>1, Reachable, PTL

\* A process that the actor keeps is idle and its pipe is empty, unless PET has
\* spoken unasked.
THEOREM KeptProcessCorrect == Spec => []KeptProcessOwesNothing
  <1>1. IInv => KeptProcessOwesNothing
    BY DEF IInv, QuietOK, KeptProcessOwesNothing
  <1> QED
    BY <1>1, Reachable, PTL

\* The actor never leaves a child behind that it does not hold.
THEOREM NoOrphanCorrect == Spec => []NoOrphan
  <1>1. IInv => NoOrphan
    BY DEF IInv, StageOK, NoOrphan
  <1> QED
    BY <1>1, Reachable, PTL

\* A request is sent to a PET that has loaded the workspace of its call.
THEOREM WorkspaceCorrect == Spec => []WorkspaceIsLoaded
  <1>1. IInv => WorkspaceIsLoaded
    BY DEF IInv, StageOK, LoadedOK, WorkspaceIsLoaded, TypeOK, CallStates
  <1> QED
    BY <1>1, Reachable, PTL

\* A successful refresh_workspace() leaves caches no older than itself.
THEOREM RefreshCorrect == Spec => []RefreshIsFresh
  <1>1. IInv => RefreshIsFresh
    BY DEF IInv
  <1> QED
    BY <1>1, Reachable, PTL

=============================================================================
