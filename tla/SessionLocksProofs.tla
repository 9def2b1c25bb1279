------------------------- MODULE SessionLocksProofs -------------------------
(***************************************************************************)
(* The locks of the server for any number of sessions, projects and calls: *)
(* invalidate_project_states() leaves no stale handle behind whoever       *)
(* disconnects in the meantime, and threads wait in a circle only inside   *)
(* its loop.                                                               *)
(***************************************************************************)
EXTENDS SessionLocks, TLAPS

USE LocksAssumption DEF Free

-----------------------------------------------------------------------------
(* The inductive invariant, in named parts.                                *)

\* Running SessionCell::drop of its own session, or of one that it visited.
DropsSelf(t) == thread[t].pc \in {"drop", "dropped"} /\ thread[t].victim = t
DropsOther(t) == thread[t].pc \in {"drop", "dropped"} /\ thread[t].victim # t

\* Between the barrier and its release.
Holding(t) ==
    \/ thread[t].pc \in {"select", "work", "upgrade", "visit", "finish", "leave"}
    \/ DropsOther(t)

\* Inside invalidate_project_states(), with s still to come.
Owes(t, s) ==
    \/ At(t, "upgrade")
    \/ (At(t, "visit") \/ DropsOther(t)) /\ s \in ToSet(Todo(t))

\* A call that is under way has a reference of its own session, and every
\* session with a reference is in the registry.
RefsOK ==
    \A s \in Session :
        /\ ~At(s, "idle") /\ ~DropsSelf(s) => s \in refs[s]
        /\ refs[s] # {} => s \in ToSet(registry) /\ calls[s] # 0
        /\ calls[s] = 0 => At(s, "idle") /\ handle[s] = "none"

\* A call holds the barrier of the project it works in.
BarrierOK ==
    \A t \in Session :
        /\ thread[t].tool = "start" => thread[t].dest \in Project
        /\ At(t, "enter") \/ Holding(t) => thread[t].at \in Project
        /\ Holding(t) => barrier[thread[t].at] = t

\* Nothing but its Drop can touch a session that is being dropped, and the Drop
\* holds the barrier of the session's project, next to the one of the loop it
\* may have come from.
DropOf(t) ==
    LET v == thread[t].victim IN
    /\ thread[t].pc \in {"drop", "dropped"} =>
          v \in Session /\ refs[v] = {} /\ calls[v] # 0
    /\ At(t, "dropped") => attached[v] = Nobody \/ barrier[attached[v]] = t
    /\ At(t, "dropped") /\ v # t => attached[v] # thread[t].at
DropOK == \A t \in Session : DropOf(t)

\* A stale handle that a call can reach is owed a visit by the holder of the
\* barrier of its project.
StaleOK ==
    \A s \in Session :
        handle[s] = "stale" /\ attached[s] # Nobody /\ refs[s] # {} =>
            LET t == barrier[attached[s]] IN
            t \in Session /\ t # s /\ thread[t].at = attached[s] /\ Owes(t, s)

IInv == TypeOK /\ RefsOK /\ BarrierOK /\ DropOK /\ StaleOK

-----------------------------------------------------------------------------
(* What is needed for the absence of circular waits: the other direction.  *)

\* Barriers and selections are held only by who is at a place to hold them.
BarrierOwned ==
    \A p \in Project, t \in Session : barrier[p] = t =>
        \/ Holding(t) /\ thread[t].at = p
        \/ At(t, "dropped") /\ attached[thread[t].victim] = p
SelectionOwned ==
    \A s \in Session :
        selection[s] # Nobody => selection[s] = s /\ Holding(s) /\ ~At(s, "select")
OwnerOK == BarrierOwned /\ SelectionOwned

-----------------------------------------------------------------------------
(* Sequences and types.                                                    *)

\* What is left of a list after its head.
LEMMA TailOf ==
    ASSUME NEW q \in Seq(Session), q # <<>>
    PROVE  /\ Head(q) \in Session /\ Tail(q) \in Seq(Session)
           /\ \A s \in ToSet(q) : s = Head(q) \/ s \in ToSet(Tail(q))
  <1>1. Head(q) \in Session /\ Tail(q) \in Seq(Session)
    OBVIOUS
  <1>2. ASSUME NEW s \in ToSet(q), s # Head(q) PROVE s \in ToSet(Tail(q))
    <2>1. PICK i \in DOMAIN q : q[i] = s
      BY <1>2 DEF ToSet
    <2>2. i \in 2..Len(q) /\ i - 1 \in 1..Len(Tail(q)) /\ Tail(q)[i - 1] = q[i]
      BY <1>2, <2>1
    <2>3. i - 1 \in DOMAIN Tail(q)
      BY <1>1, <2>2
    <2> QED
      BY <2>1, <2>2, <2>3 DEF ToSet
  <1> QED
    BY <1>1, <1>2

\* The registry after a connection.
LEMMA AppendOf ==
    ASSUME NEW q \in Seq(Session), NEW s \in Session
    PROVE  /\ Append(q, s) \in Seq(Session)
           /\ ToSet(q) \subseteq ToSet(Append(q, s)) /\ s \in ToSet(Append(q, s))
  <1>1. Append(q, s) \in Seq(Session) /\ Len(Append(q, s)) = Len(q) + 1
    OBVIOUS
  <1>2. \A i \in 1..Len(q) : i \in 1..(Len(q) + 1) /\ Append(q, s)[i] = q[i]
    OBVIOUS
  <1>3. Append(q, s)[Len(q) + 1] = s /\ Len(q) + 1 \in 1..(Len(q) + 1)
    OBVIOUS
  <1>4. DOMAIN q = 1..Len(q) /\ DOMAIN Append(q, s) = 1..(Len(q) + 1)
    BY <1>1
  <1> QED
    BY <1>1, <1>2, <1>3, <1>4 DEF ToSet

\* A worker that has nothing to do.
LEMMA IdleType == Idle \in Threads
  BY DEF Idle, Threads, Places

\* At the start nobody is connected.
LEMMA InitIInv == Init => IInv
  <1> SUFFICES ASSUME Init PROVE IInv
    OBVIOUS
  <1>1. TypeOK
    BY IdleType DEF Init, TypeOK
  <1>2. RefsOK
    BY DEF Init, RefsOK, At, Idle
  <1>3. BarrierOK
    BY DEF Init, BarrierOK, Holding, DropsOther, At, Idle
  <1>4. DropOK
    BY DEF Init, DropOK, DropOf, At, Idle
  <1>5. StaleOK
    BY DEF Init, StaleOK
  <1> QED
    BY <1>1, <1>2, <1>3, <1>4, <1>5 DEF IInv

-----------------------------------------------------------------------------
(* One lemma per action.                                                   *)

\* A stale handle, and who owes it a visit.
LEMMA Owed ==
    ASSUME IInv, NEW s \in Session, handle[s] = "stale", attached[s] # Nobody,
           refs[s] # {}
    PROVE  /\ attached[s] \in Project
           /\ \E h \in Session : /\ barrier[attached[s]] = h /\ h # s
                                 /\ thread[h].at = attached[s] /\ Owes(h, s)
  BY DEF IInv, TypeOK, StaleOK

\* A call that is under way is not being dropped.
LEMMA Referenced ==
    ASSUME IInv, NEW t \in Session, ~At(t, "idle"), ~DropsSelf(t)
    PROVE  /\ t \in refs[t]
           /\ \A u \in Session : thread[u].pc \in {"drop", "dropped"} => thread[u].victim # t
  BY DEF IInv, RefsOK, DropOK, DropOf

\* What LetGo() does to the thread and to the references.
LetsGo(t, s, holder, next, todo) ==
    /\ thread' \in [Session -> Threads]
    /\ refs' \in [Session -> SUBSET (Session \cup {Handler})]
    /\ refs'[s] = refs[s] \ {holder}
    /\ \A u \in Session \ {s} : refs'[u] = refs[u]
    /\ thread'[t].tool = thread[t].tool /\ thread'[t].at = thread[t].at
    /\ thread'[t].dest = thread[t].dest /\ thread'[t].todo = todo
    /\ \A u \in Session \ {t} : thread'[u] = thread[u]
    /\ refs[s] = {holder} => thread'[t].pc = "drop" /\ thread'[t].victim = s
    /\ refs[s] # {holder} =>
          thread'[t].pc = next /\ thread'[t].victim = thread[t].victim

\* The last reference of a session turns the thread that held it to its Drop.
LEMMA LetGoFacts ==
    ASSUME TypeOK, NEW t \in Session, NEW s \in Session, NEW holder,
           NEW next \in Places, NEW todo \in Seq(Session), LetGo(t, s, holder, next, todo)
    PROVE  LetsGo(t, s, holder, next, todo)
  <1>0. thread \in [Session -> Threads] /\ thread[t] \in Threads
    BY DEF TypeOK
  <1>1. refs' = [refs EXCEPT ![s] = @ \ {holder}]
    BY DEF LetGo
  <1>2. CASE refs[s] = {holder}
    <2>1. thread' = [thread EXCEPT ![t] = [thread[t] EXCEPT !.pc = "drop", !.victim = s,
                                                            !.todo = todo]]
      BY <1>0, <1>2 DEF LetGo, Threads
    <2>2. [thread[t] EXCEPT !.pc = "drop", !.victim = s, !.todo = todo] \in Threads
      BY <1>0 DEF Threads, Places
    <2> QED
      BY <1>0, <1>1, <1>2, <2>1, <2>2 DEF LetsGo, TypeOK, Threads
  <1>3. CASE refs[s] # {holder}
    <2>1. thread' = [thread EXCEPT ![t] = [thread[t] EXCEPT !.pc = next, !.todo = todo]]
      BY <1>0, <1>3 DEF LetGo, Threads
    <2>2. [thread[t] EXCEPT !.pc = next, !.todo = todo] \in Threads
      BY <1>0 DEF Threads
    <2> QED
      BY <1>0, <1>1, <1>3, <2>1, <2>2 DEF LetsGo, TypeOK, Threads
  <1> QED
    BY <1>2, <1>3

\* A worker starts with a reference of its session.
LEMMA BeginIInv ==
    ASSUME IInv, NEW t \in Session, NEW tool \in {"op", "start"},
           NEW dest \in Project \cup {Nobody}, Begin(t, tool, dest)
    PROVE  IInv'
  <1>0. TypeOK /\ thread[t] \in Threads
    BY DEF IInv, TypeOK
  <1>1. /\ thread'[t].pc = "find"
        /\ thread'[t].tool = tool
        /\ thread'[t].at = Nobody
        /\ thread'[t].dest = dest
        /\ thread'[t].todo = <<>>
        /\ thread'[t].victim = Nobody
        /\ \A u \in Session \ {t} : thread'[u] = thread[u]
    BY <1>0 DEF Begin, Idle, TypeOK, Threads
  <1>2. thread' \in [Session -> Threads]
    BY <1>0, <1>1, IdleType DEF Begin, Idle, TypeOK, Threads, Places, At, Todo
  <1>3. TypeOK'
    BY <1>0, <1>2 DEF Begin, Idle, TypeOK, Unlock
  <1>4. RefsOK'
    BY <1>0, <1>1 DEF IInv, TypeOK, Begin, Idle, Unlock, At, RefsOK, DropOK, DropOf, DropsSelf
  <1>5. BarrierOK'
    BY <1>0, <1>1 DEF IInv, TypeOK, Begin, Idle, Unlock, At, RefsOK, BarrierOK, DropOK, DropOf,
           Holding, DropsOther, DropsSelf
  <1>6. DropOK'
    BY <1>0, <1>1 DEF IInv, TypeOK, Begin, Idle, Unlock, At, RefsOK, BarrierOK, DropOK, DropOf,
           Holding, DropsOther, DropsSelf
  <1>7. StaleOK'
    BY <1>0, <1>1 DEF IInv, TypeOK, Begin, Idle, Unlock, At, RefsOK, BarrierOK, DropOK, DropOf,
           StaleOK, Owes, Todo, Holding, DropsOther, DropsSelf
  <1> QED
    BY <1>3, <1>4, <1>5, <1>6, <1>7 DEF IInv

\* The first barrier is that of the attached project.
LEMMA FindIInv == ASSUME IInv, NEW t \in Session, Find(t) PROVE IInv'
  <1>0. TypeOK /\ thread[t] \in Threads
    BY DEF IInv, TypeOK
  <1>1. PICK first \in Project \cup {Nobody} :
          thread' = [thread EXCEPT ![t].at = first,
                                   ![t].pc = IF Free(first) THEN "end" ELSE "enter"]
    BY <1>0 DEF Find, TypeOK, Threads
  <1> DEFINE place == IF Free(first) THEN "end" ELSE "enter"
  <1>2. thread' = [thread EXCEPT ![t] = [thread[t] EXCEPT !.at = first, !.pc = place]]
        /\ place \in Places
    BY <1>0, <1>1 DEF TypeOK, Threads, Places
  <1>a. /\ thread'[t].pc = place /\ thread'[t].at = first
        /\ thread'[t].tool = thread[t].tool /\ thread'[t].dest = thread[t].dest
        /\ thread'[t].todo = thread[t].todo /\ thread'[t].victim = thread[t].victim
        /\ \A u \in Session \ {t} : thread'[u] = thread[u]
        /\ place \in {"end", "enter"} /\ (place = "enter" => first \in Project)
        /\ thread' \in [Session -> Threads]
    <2>1. place \in {"end", "enter"} /\ (place = "enter" => first \in Project)
      OBVIOUS
    <2> HIDE DEF place
    <2>2. [thread[t] EXCEPT !.at = first, !.pc = place] \in Threads
      BY <1>0, <1>2 DEF Threads
    <2> QED
      BY <1>0, <1>2, <2>1, <2>2 DEF TypeOK, Threads
  <1> HIDE DEF place
  <1>3. TypeOK'
    BY <1>0, <1>a DEF Find, TypeOK, Unlock
  <1>4. RefsOK'
    BY <1>0, <1>a DEF IInv, TypeOK, Find, Unlock, At, RefsOK, DropOK, DropOf, DropsSelf
  <1>5. BarrierOK'
    BY <1>0, <1>a DEF IInv, TypeOK, Find, Unlock, At, RefsOK, BarrierOK, DropOK, DropOf, Holding,
           DropsOther, DropsSelf
  <1>6. DropOK'
    BY <1>0, <1>a DEF IInv, TypeOK, Find, Unlock, At, RefsOK, BarrierOK, DropOK, DropOf, Holding,
           DropsOther, DropsSelf
  <1>7. StaleOK'
    BY <1>0, <1>a DEF IInv, TypeOK, Find, Unlock, At, RefsOK, BarrierOK, DropOK, DropOf, StaleOK,
           Owes, Todo, Holding, DropsOther, DropsSelf
  <1> QED
    BY <1>3, <1>4, <1>5, <1>6, <1>7 DEF IInv

\* A free barrier is taken.
LEMMA EnterIInv == ASSUME IInv, NEW t \in Session, Enter(t) PROVE IInv'
  <1>0. TypeOK /\ thread[t] \in Threads
    BY DEF IInv, TypeOK
  <1>1. /\ thread'[t].pc = "select"
        /\ thread'[t].tool = thread[t].tool
        /\ thread'[t].at = thread[t].at
        /\ thread'[t].dest = thread[t].dest
        /\ thread'[t].todo = thread[t].todo
        /\ thread'[t].victim = thread[t].victim
        /\ \A u \in Session \ {t} : thread'[u] = thread[u]
    BY <1>0 DEF Enter, Goto, TypeOK, Threads
  <1>2. thread' \in [Session -> Threads]
    BY <1>0, <1>1 DEF Enter, Goto, TypeOK, Threads, Places, At, Todo
  <1>3. TypeOK'
    BY <1>0, <1>2 DEF Enter, Goto, TypeOK, Unlock
  <1>4. RefsOK'
    BY <1>0, <1>1 DEF IInv, TypeOK, Enter, Goto, Unlock, At, RefsOK, DropOK, DropOf, DropsSelf
  <1>5. BarrierOK'
    BY <1>0, <1>1 DEF IInv, TypeOK, Enter, Goto, Unlock, At, RefsOK, BarrierOK, DropOK, DropOf,
           Holding, DropsOther, DropsSelf
  <1>6. DropOK'
    BY <1>0, <1>1 DEF IInv, TypeOK, Enter, Goto, Unlock, At, RefsOK, BarrierOK, DropOK, DropOf,
           Holding, DropsOther, DropsSelf
  <1>7. StaleOK'
    BY <1>0, <1>1 DEF IInv, TypeOK, Enter, Goto, Unlock, At, RefsOK, BarrierOK, DropOK, DropOf,
           StaleOK, Owes, Todo, Holding, DropsOther, DropsSelf
  <1> QED
    BY <1>3, <1>4, <1>5, <1>6, <1>7 DEF IInv

\* A refused call gives the barrier back.
LEMMA RefuseIInv == ASSUME IInv, NEW t \in Session, Refuse(t) PROVE IInv'
  <1>0. TypeOK /\ thread[t] \in Threads
    BY DEF IInv, TypeOK
  <1>1. /\ thread'[t].pc = "end"
        /\ thread'[t].tool = thread[t].tool
        /\ thread'[t].at = thread[t].at
        /\ thread'[t].dest = thread[t].dest
        /\ thread'[t].todo = thread[t].todo
        /\ thread'[t].victim = thread[t].victim
        /\ \A u \in Session \ {t} : thread'[u] = thread[u]
    BY <1>0 DEF Refuse, Goto, TypeOK, Threads
  <1>2. thread' \in [Session -> Threads]
    BY <1>0, <1>1 DEF Refuse, Goto, TypeOK, Threads, Places, At, Todo
  <1>3. TypeOK'
    BY <1>0, <1>2 DEF Refuse, Goto, TypeOK, Unlock
  <1>4. RefsOK'
    BY <1>0, <1>1 DEF IInv, TypeOK, Refuse, Goto, Unlock, At, RefsOK, DropOK, DropOf, DropsSelf
  <1>5. BarrierOK'
    BY <1>0, <1>1 DEF IInv, TypeOK, Refuse, Goto, Unlock, At, RefsOK, BarrierOK, DropOK, DropOf,
           Holding, DropsOther, DropsSelf
  <1>6. DropOK'
    BY <1>0, <1>1 DEF IInv, TypeOK, Refuse, Goto, Unlock, At, RefsOK, BarrierOK, DropOK, DropOf,
           Holding, DropsOther, DropsSelf
  <1>7. StaleOK'
    BY <1>0, <1>1 DEF IInv, TypeOK, Refuse, Goto, Unlock, At, RefsOK, BarrierOK, DropOK, DropOf,
           StaleOK, Owes, Todo, Holding, DropsOther, DropsSelf
  <1> QED
    BY <1>3, <1>4, <1>5, <1>6, <1>7 DEF IInv

\* The session is locked after the barrier.
LEMMA SelectIInv == ASSUME IInv, NEW t \in Session, Select(t) PROVE IInv'
  <1>0. TypeOK /\ thread[t] \in Threads
    BY DEF IInv, TypeOK
  <1>1. /\ thread'[t].pc \in {"leave", "work"}
        /\ thread'[t].tool = thread[t].tool
        /\ thread'[t].at = thread[t].at
        /\ thread'[t].dest = thread[t].dest
        /\ thread'[t].todo = thread[t].todo
        /\ thread'[t].victim = thread[t].victim
        /\ \A u \in Session \ {t} : thread'[u] = thread[u]
    BY <1>0 DEF Select, Goto, TypeOK, Threads
  <1>2. thread' \in [Session -> Threads]
    BY <1>0, <1>1 DEF Select, Goto, TypeOK, Threads, Places, At, Todo
  <1>3. TypeOK'
    BY <1>0, <1>2 DEF Select, Goto, TypeOK, Unlock
  <1>4. RefsOK'
    BY <1>0, <1>1 DEF IInv, TypeOK, Select, Goto, Unlock, At, RefsOK, DropOK, DropOf, DropsSelf
  <1>5. BarrierOK'
    BY <1>0, <1>1 DEF IInv, TypeOK, Select, Goto, Unlock, At, RefsOK, BarrierOK, DropOK, DropOf,
           Holding, DropsOther, DropsSelf
  <1>6. DropOK'
    BY <1>0, <1>1 DEF IInv, TypeOK, Select, Goto, Unlock, At, RefsOK, BarrierOK, DropOK, DropOf,
           Holding, DropsOther, DropsSelf
  <1>7. StaleOK'
    BY <1>0, <1>1 DEF IInv, TypeOK, Select, Goto, Unlock, At, RefsOK, BarrierOK, DropOK, DropOf,
           StaleOK, Owes, Todo, Holding, DropsOther, DropsSelf
  <1> QED
    BY <1>3, <1>4, <1>5, <1>6, <1>7 DEF IInv

\* Every handle that goes stale is owed a visit.
LEMMA ReplacePetIInv == ASSUME IInv, NEW t \in Session, ReplacePet(t) PROVE IInv'
  <1>0. TypeOK /\ thread[t] \in Threads
    BY DEF IInv, TypeOK
  <1>1. /\ thread'[t].pc = "upgrade"
        /\ thread'[t].tool = thread[t].tool
        /\ thread'[t].at = thread[t].at
        /\ thread'[t].dest = thread[t].dest
        /\ thread'[t].todo = thread[t].todo
        /\ thread'[t].victim = thread[t].victim
        /\ \A u \in Session \ {t} : thread'[u] = thread[u]
    BY <1>0 DEF ReplacePet, Goto, TypeOK, Threads
  <1>2. thread' \in [Session -> Threads]
    BY <1>0, <1>1 DEF ReplacePet, Goto, TypeOK, Threads, Places, At, Todo
  <1>3. TypeOK'
    BY <1>0, <1>2 DEF ReplacePet, Goto, TypeOK, Unlock
  <1>4. RefsOK'
    BY <1>0, <1>1 DEF IInv, TypeOK, ReplacePet, Goto, Unlock, At, RefsOK, DropOK, DropOf,
           DropsSelf
  <1>5. BarrierOK'
    BY <1>0, <1>1 DEF IInv, TypeOK, ReplacePet, Goto, Unlock, At, RefsOK, BarrierOK,
           DropOK, DropOf, Holding, DropsOther, DropsSelf
  <1>6. DropOK'
    BY <1>0, <1>1 DEF IInv, TypeOK, ReplacePet, Goto, Unlock, At, RefsOK, BarrierOK,
           DropOK, DropOf, Holding, DropsOther, DropsSelf
  <1>7. StaleOK'
    BY <1>0, <1>1 DEF IInv, TypeOK, ReplacePet, Goto, Unlock, At, RefsOK, BarrierOK,
           DropOK, DropOf, StaleOK, Owes, Todo, Holding, DropsOther, DropsSelf
  <1> QED
    BY <1>3, <1>4, <1>5, <1>6, <1>7 DEF IInv

\* A tool ends under its locks.
LEMMA DoneIInv == ASSUME IInv, NEW t \in Session, Done(t) PROVE IInv'
  <1>0. TypeOK /\ thread[t] \in Threads
    BY DEF IInv, TypeOK
  <1>1. /\ thread'[t].pc = "leave"
        /\ thread'[t].tool = thread[t].tool
        /\ thread'[t].at = thread[t].at
        /\ thread'[t].dest = thread[t].dest
        /\ thread'[t].todo = thread[t].todo
        /\ thread'[t].victim = thread[t].victim
        /\ \A u \in Session \ {t} : thread'[u] = thread[u]
    BY <1>0 DEF Done, Goto, TypeOK, Threads
  <1>2. thread' \in [Session -> Threads]
    BY <1>0, <1>1 DEF Done, Goto, TypeOK, Threads, Places, At, Todo
  <1>3. TypeOK'
    <2>1. handle' \in [Session -> {"none", "live", "stale"}]
      BY <1>0 DEF Done, TypeOK
    <2>2. attached' \in [Session -> Project \cup {Nobody}]
      BY <1>0 DEF Done, TypeOK, Threads
    <2> QED
      BY <1>0, <1>2, <2>1, <2>2 DEF Done, TypeOK
  <1>4. RefsOK'
    BY <1>0, <1>1 DEF IInv, TypeOK, Done, Goto, Unlock, At, RefsOK, DropOK, DropOf, DropsSelf
  <1>5. BarrierOK'
    BY <1>0, <1>1 DEF IInv, TypeOK, Done, Goto, Unlock, At, RefsOK, BarrierOK, DropOK, DropOf,
           Holding, DropsOther, DropsSelf
  <1>6. DropOK'
    <2>1. \A u \in Session : thread[u].pc \in {"drop", "dropped"} => u # t /\ thread[u].victim # t
      BY Referenced DEF Done, At, DropsSelf
    <2>2. \A u \in Session : thread'[u].pc \in {"drop", "dropped"} =>
            /\ thread'[u] = thread[u] /\ thread[u].pc \in {"drop", "dropped"}
            /\ thread[u].victim \in Session \ {t}
      BY <1>1, <2>1 DEF IInv, DropOK, DropOf
    <2>3. \A v \in Session \ {t} : attached'[v] = attached[v] /\ UNCHANGED <<refs, calls, barrier>>
      BY <1>0 DEF Done, TypeOK
    <2> QED
      BY <2>2, <2>3 DEF IInv, DropOK, DropOf, At
  <1>7. StaleOK'
    <2> SUFFICES ASSUME NEW s \in Session, handle'[s] = "stale", attached'[s] # Nobody,
                        refs'[s] # {}
                 PROVE  \E h \in Session : /\ barrier'[attached'[s]] = h /\ h # s
                                           /\ thread'[h].at = attached'[s] /\ Owes(h, s)'
      BY Zenon DEF StaleOK
    <2>1. handle[s] = "stale" /\ attached[s] # Nobody /\ refs[s] # {} /\ attached'[s] = attached[s]
      BY <1>0 DEF Done, TypeOK
    <2>2. PICK h \in Session : /\ barrier[attached[s]] = h /\ h # s
                               /\ thread[h].at = attached[s] /\ Owes(h, s)
      BY <2>1, Owed
    <2>3. h # t
      BY <2>2 DEF Done, Owes, DropsOther, At
    <2>4. barrier'[attached[s]] = h
      BY <1>0, <2>1, <2>2, <2>3, Owed DEF Done, TypeOK, Unlock, TypeOK
    <2>5. Owes(h, s)'
      BY <1>1, <2>2, <2>3 DEF Owes, DropsOther, At, Todo
    <2> QED
      BY <1>1, <2>1, <2>2, <2>3, <2>4, <2>5
  <1> QED
    BY <1>3, <1>4, <1>5, <1>6, <1>7 DEF IInv

\* A failing tool changes nothing.
LEMMA FailIInv == ASSUME IInv, NEW t \in Session, Fail(t) PROVE IInv'
  <1>0. TypeOK /\ thread[t] \in Threads
    BY DEF IInv, TypeOK
  <1>1. /\ thread'[t].pc = "leave"
        /\ thread'[t].tool = thread[t].tool
        /\ thread'[t].at = thread[t].at
        /\ thread'[t].dest = thread[t].dest
        /\ thread'[t].todo = thread[t].todo
        /\ thread'[t].victim = thread[t].victim
        /\ \A u \in Session \ {t} : thread'[u] = thread[u]
    BY <1>0 DEF Fail, Goto, TypeOK, Threads
  <1>2. thread' \in [Session -> Threads]
    BY <1>0, <1>1 DEF Fail, Goto, TypeOK, Threads, Places, At, Todo
  <1>3. TypeOK'
    BY <1>0, <1>2 DEF Fail, Goto, TypeOK, Unlock
  <1>4. RefsOK'
    BY <1>0, <1>1 DEF IInv, TypeOK, Fail, Goto, Unlock, At, RefsOK, DropOK, DropOf, DropsSelf
  <1>5. BarrierOK'
    BY <1>0, <1>1 DEF IInv, TypeOK, Fail, Goto, Unlock, At, RefsOK, BarrierOK, DropOK, DropOf,
           Holding, DropsOther, DropsSelf
  <1>6. DropOK'
    BY <1>0, <1>1 DEF IInv, TypeOK, Fail, Goto, Unlock, At, RefsOK, BarrierOK, DropOK, DropOf,
           Holding, DropsOther, DropsSelf
  <1>7. StaleOK'
    BY <1>0, <1>1 DEF IInv, TypeOK, Fail, Goto, Unlock, At, RefsOK, BarrierOK, DropOK, DropOf,
           StaleOK, Owes, Todo, Holding, DropsOther, DropsSelf
  <1> QED
    BY <1>3, <1>4, <1>5, <1>6, <1>7 DEF IInv

\* A switch gives up one barrier before it waits for the other.
LEMMA SwitchAwayIInv == ASSUME IInv, NEW t \in Session, SwitchAway(t) PROVE IInv'
  <1>0. TypeOK /\ thread[t] \in Threads
    BY DEF IInv, TypeOK
  <1>1. /\ thread'[t].pc = "enter"
        /\ thread'[t].tool = thread[t].tool
        /\ thread'[t].at = thread[t].dest
        /\ thread'[t].dest = thread[t].dest
        /\ thread'[t].todo = thread[t].todo
        /\ thread'[t].victim = thread[t].victim
        /\ \A u \in Session \ {t} : thread'[u] = thread[u]
    BY <1>0 DEF SwitchAway, TypeOK, Threads
  <1>2. thread' \in [Session -> Threads]
    BY <1>0, <1>1 DEF SwitchAway, TypeOK, Threads, Places, At, Todo
  <1>3. TypeOK'
    BY <1>0, <1>2 DEF SwitchAway, TypeOK, Unlock
  <1>4. RefsOK'
    BY <1>0, <1>1 DEF IInv, TypeOK, SwitchAway, Unlock, At, RefsOK, DropOK, DropOf, DropsSelf
  <1>5. BarrierOK'
    <2>1. thread[t].dest \in Project
      BY DEF IInv, BarrierOK, SwitchAway, Leaving
    <2>2. \A u \in Session \ {t} : (Holding(u)' <=> Holding(u)) /\ (At(u, "enter")' <=> At(u, "enter"))
      BY <1>1 DEF Holding, DropsOther, At
    <2>3. \A p \in Project : barrier[p] # t => barrier'[p] = barrier[p]
      BY DEF SwitchAway, Unlock
    <2>4. ~Holding(t)'
      BY <1>1 DEF Holding, DropsOther
    <2>5. \A u \in Session \ {t} : Holding(u) => barrier'[thread[u].at] = u
      BY <2>3 DEF IInv, BarrierOK
    <2> QED
      BY <1>1, <2>1, <2>2, <2>4, <2>5 DEF IInv, BarrierOK, At
  <1>6. DropOK'
    BY <1>0, <1>1 DEF IInv, TypeOK, SwitchAway, Unlock, At, RefsOK, BarrierOK, DropOK, DropOf,
           Holding, DropsOther, DropsSelf
  <1>7. StaleOK'
    <2> SUFFICES ASSUME NEW s \in Session, handle'[s] = "stale", attached'[s] # Nobody,
                        refs'[s] # {}
                 PROVE  \E h \in Session : /\ barrier'[attached'[s]] = h /\ h # s
                                           /\ thread'[h].at = attached'[s] /\ Owes(h, s)'
      BY Zenon DEF StaleOK
    <2>1. handle[s] = "stale" /\ attached[s] # Nobody /\ refs[s] # {} /\ attached'[s] = attached[s]
      BY <1>0 DEF SwitchAway, TypeOK
    <2>2. PICK h \in Session : /\ barrier[attached[s]] = h /\ h # s
                               /\ thread[h].at = attached[s] /\ Owes(h, s)
      BY <2>1, Owed
    <2>3. h # t
      BY <2>2 DEF SwitchAway, Owes, DropsOther, At
    <2>4. barrier'[attached[s]] = h
      BY <1>0, <2>1, <2>2, <2>3, Owed DEF SwitchAway, TypeOK, Unlock, TypeOK
    <2>5. Owes(h, s)'
      BY <1>1, <2>2, <2>3 DEF Owes, DropsOther, At, Todo
    <2> QED
      BY <1>1, <2>1, <2>2, <2>3, <2>4, <2>5
  <1> QED
    BY <1>3, <1>4, <1>5, <1>6, <1>7 DEF IInv

\* The locks are released.
LEMMA LeaveIInv == ASSUME IInv, NEW t \in Session, Leave(t) PROVE IInv'
  <1>0. TypeOK /\ thread[t] \in Threads
    BY DEF IInv, TypeOK
  <1>1. /\ thread'[t].pc = "end"
        /\ thread'[t].tool = thread[t].tool
        /\ thread'[t].at = thread[t].at
        /\ thread'[t].dest = thread[t].dest
        /\ thread'[t].todo = thread[t].todo
        /\ thread'[t].victim = thread[t].victim
        /\ \A u \in Session \ {t} : thread'[u] = thread[u]
    BY <1>0 DEF Leave, Goto, TypeOK, Threads
  <1>2. thread' \in [Session -> Threads]
    BY <1>0, <1>1 DEF Leave, Goto, TypeOK, Threads, Places, At, Todo
  <1>3. TypeOK'
    BY <1>0, <1>2 DEF Leave, Goto, TypeOK, Unlock
  <1>4. RefsOK'
    BY <1>0, <1>1 DEF IInv, TypeOK, Leave, Goto, Unlock, At, RefsOK, DropOK, DropOf, DropsSelf
  <1>5. BarrierOK'
    BY <1>0, <1>1 DEF IInv, TypeOK, Leave, Goto, Unlock, At, RefsOK, BarrierOK, DropOK, DropOf,
           Holding, DropsOther, DropsSelf
  <1>6. DropOK'
    BY <1>0, <1>1 DEF IInv, TypeOK, Leave, Goto, Unlock, At, RefsOK, BarrierOK, DropOK, DropOf,
           Holding, DropsOther, DropsSelf
  <1>7. StaleOK'
    <2> SUFFICES ASSUME NEW s \in Session, handle'[s] = "stale", attached'[s] # Nobody,
                        refs'[s] # {}
                 PROVE  \E h \in Session : /\ barrier'[attached'[s]] = h /\ h # s
                                           /\ thread'[h].at = attached'[s] /\ Owes(h, s)'
      BY Zenon DEF StaleOK
    <2>1. handle[s] = "stale" /\ attached[s] # Nobody /\ refs[s] # {} /\ attached'[s] = attached[s]
      BY <1>0 DEF Leave, TypeOK
    <2>2. PICK h \in Session : /\ barrier[attached[s]] = h /\ h # s
                               /\ thread[h].at = attached[s] /\ Owes(h, s)
      BY <2>1, Owed
    <2>3. h # t
      BY <2>2 DEF Leave, Owes, DropsOther, At
    <2>4. barrier'[attached[s]] = h
      BY <1>0, <2>1, <2>2, <2>3, Owed DEF Leave, TypeOK, Unlock, TypeOK
    <2>5. Owes(h, s)'
      BY <1>1, <2>2, <2>3 DEF Owes, DropsOther, At, Todo
    <2> QED
      BY <1>1, <2>1, <2>2, <2>3, <2>4, <2>5
  <1> QED
    BY <1>3, <1>4, <1>5, <1>6, <1>7 DEF IInv

\* The worker lets go of its session.
LEMMA EndIInv == ASSUME IInv, NEW t \in Session, End(t) PROVE IInv'
  <1>0. TypeOK /\ thread[t] \in Threads
    BY DEF IInv, TypeOK
  <1>1. LetGo(t, t, t, "idle", <<>>) /\ At(t, "end")
        /\ UNCHANGED <<barrier, selection, registry, attached, handle, calls>>
    BY DEF End
  <1>2. /\ thread' \in [Session -> Threads]
        /\ refs' \in [Session -> SUBSET (Session \cup {Handler})]
        /\ refs'[t] = refs[t] \ {t}
        /\ \A u \in Session \ {t} : refs'[u] = refs[u] /\ thread'[u] = thread[u]
        /\ thread'[t].tool = thread[t].tool /\ thread'[t].at = thread[t].at
        /\ thread'[t].dest = thread[t].dest
        /\ refs[t] = {t} => thread'[t].pc = "drop" /\ thread'[t].victim = t
        /\ refs[t] # {t} => thread'[t].pc = "idle" /\ thread'[t].victim = thread[t].victim
    <2>1. "idle" \in Places /\ <<>> \in Seq(Session)
      BY DEF Places
    <2>2. LetsGo(t, t, t, "idle", <<>>)
      BY <1>0, <1>1, <2>1, LetGoFacts
    <2> QED
      BY <2>2 DEF LetsGo
  <1>3. TypeOK'
    BY <1>0, <1>1, <1>2 DEF TypeOK
  <1>4. t \in refs[t] /\ \A u \in Session : thread[u].pc \in {"drop", "dropped"} => thread[u].victim # t
    BY <1>1, Referenced DEF At, DropsSelf
  <1>5. RefsOK'
    BY <1>1, <1>2, <1>4 DEF IInv, RefsOK, At, DropsSelf
  <1>6. BarrierOK'
    BY <1>1, <1>2 DEF IInv, BarrierOK, Holding, DropsOther, At
  <1>7. DropOK'
    <2>1. ASSUME NEW u \in Session \ {t}, thread'[u].pc \in {"drop", "dropped"}
          PROVE  refs'[thread'[u].victim] = refs[thread[u].victim]
      BY <1>2, <1>4, <2>1 DEF IInv, DropOK, DropOf
    <2>2. CASE refs[t] = {t}
      <3>1. refs'[t] = {} /\ calls[t] # 0
        BY <1>2, <1>4, <2>2 DEF IInv, RefsOK
      <3>2. DropOf(t)'
        BY <1>1, <1>2, <2>2, <3>1 DEF DropOf, At
      <3>3. ASSUME NEW u \in Session \ {t} PROVE DropOf(u)'
        <4>1. thread'[u] = thread[u] /\ DropOf(u)
          BY <1>2 DEF IInv, DropOK, DropOf
        <4> QED
          BY <1>1, <2>1, <4>1 DEF DropOf, At
      <3> QED
        BY <3>2, <3>3 DEF DropOK, DropOf
    <2>3. CASE refs[t] # {t}
      BY <1>1, <1>2, <2>1, <2>3 DEF IInv, DropOK, DropOf, At
    <2> QED
      BY <2>2, <2>3
  <1>8. StaleOK'
    <2> SUFFICES ASSUME NEW s \in Session, handle'[s] = "stale", attached'[s] # Nobody,
                        refs'[s] # {}
                 PROVE  \E h \in Session : /\ barrier'[attached'[s]] = h /\ h # s
                                           /\ thread'[h].at = attached'[s] /\ Owes(h, s)'
      BY Zenon DEF StaleOK
    <2>1. handle[s] = "stale" /\ attached[s] # Nobody /\ refs[s] # {}
      BY <1>1, <1>2
    <2>2. PICK h \in Session : /\ barrier[attached[s]] = h /\ h # s
                               /\ thread[h].at = attached[s] /\ Owes(h, s)
      BY <2>1, Owed
    <2>3. h # t
      BY <1>1, <2>2 DEF Owes, DropsOther, At
    <2>4. Owes(h, s)'
      BY <1>2, <2>2, <2>3 DEF Owes, DropsOther, At, Todo
    <2> QED
      BY <1>1, <1>2, <2>2, <2>3, <2>4
  <1> QED
    BY <1>3, <1>5, <1>6, <1>7, <1>8 DEF IInv

\* A connection that goes drops its session only between calls.
LEMMA CloseIInv == ASSUME IInv, NEW t \in Session, Close(t) PROVE IInv'
  <1>0. TypeOK /\ thread[t] \in Threads
    BY DEF IInv, TypeOK
  <1>1. /\ LetGo(t, t, Handler, thread[t].pc, Todo(t)) /\ Handler \in refs[t]
        /\ UNCHANGED <<barrier, selection, registry, attached, handle, calls>>
    BY DEF Close
  <1>2. /\ thread' \in [Session -> Threads]
        /\ refs' \in [Session -> SUBSET (Session \cup {Handler})]
        /\ refs'[t] = refs[t] \ {Handler}
        /\ \A u \in Session \ {t} : refs'[u] = refs[u] /\ thread'[u] = thread[u]
        /\ thread'[t].tool = thread[t].tool /\ thread'[t].at = thread[t].at
        /\ thread'[t].dest = thread[t].dest /\ thread'[t].todo = thread[t].todo
        /\ refs[t] = {Handler} => thread'[t].pc = "drop" /\ thread'[t].victim = t
        /\ refs[t] # {Handler} =>
              thread'[t].pc = thread[t].pc /\ thread'[t].victim = thread[t].victim
    <2>1. thread[t].pc \in Places /\ Todo(t) \in Seq(Session)
      BY <1>0 DEF Threads, Todo
    <2>2. LetsGo(t, t, Handler, thread[t].pc, Todo(t))
      BY <1>0, <1>1, <2>1, LetGoFacts
    <2> QED
      BY <2>2 DEF LetsGo, Todo
  <1>3. TypeOK'
    BY <1>0, <1>1, <1>2 DEF TypeOK
  <1>4. /\ refs[t] = {Handler} => At(t, "idle")
        /\ \A u \in Session : thread[u].pc \in {"drop", "dropped"} => thread[u].victim # t
    BY <1>1 DEF IInv, RefsOK, DropOK, DropOf, DropsSelf, At
  <1>5. RefsOK'
    BY <1>1, <1>2, <1>4 DEF IInv, RefsOK, At, DropsSelf
  <1>6. BarrierOK'
    BY <1>1, <1>2, <1>4 DEF IInv, BarrierOK, Holding, DropsOther, At
  <1>7. DropOK'
    <2>1. ASSUME NEW u \in Session, thread[u].pc \in {"drop", "dropped"}
          PROVE  refs'[thread[u].victim] = refs[thread[u].victim]
      BY <1>2, <1>4, <2>1 DEF IInv, DropOK, DropOf
    <2>2. CASE refs[t] = {Handler}
      <3>1. refs'[t] = {} /\ calls[t] # 0
        BY <1>2, <2>2 DEF IInv, RefsOK
      <3> QED
        BY <1>1, <1>2, <2>1, <2>2, <3>1 DEF IInv, DropOK, DropOf, At
    <2>3. CASE refs[t] # {Handler}
      <3>1. \A u \in Session : /\ thread'[u].pc = thread[u].pc /\ thread'[u].at = thread[u].at
                               /\ thread'[u].victim = thread[u].victim
        BY <1>2, <2>3
      <3> QED
        BY <1>1, <2>1, <3>1 DEF IInv, DropOK, DropOf, At
    <2> QED
      BY <2>2, <2>3
  <1>8. StaleOK'
    <2> SUFFICES ASSUME NEW s \in Session, handle'[s] = "stale", attached'[s] # Nobody,
                        refs'[s] # {}
                 PROVE  \E h \in Session : /\ barrier'[attached'[s]] = h /\ h # s
                                           /\ thread'[h].at = attached'[s] /\ Owes(h, s)'
      BY Zenon DEF StaleOK
    <2>1. handle[s] = "stale" /\ attached[s] # Nobody /\ refs[s] # {}
      BY <1>1, <1>2
    <2>2. PICK h \in Session : /\ barrier[attached[s]] = h /\ h # s
                               /\ thread[h].at = attached[s] /\ Owes(h, s)
      BY <2>1, Owed
    <2>3. ~At(h, "idle")
      BY <2>2 DEF Owes, DropsOther, At
    <2>4. /\ thread'[h].pc = thread[h].pc /\ thread'[h].victim = thread[h].victim
          /\ thread'[h].todo = thread[h].todo /\ thread'[h].at = thread[h].at
      BY <1>2, <1>4, <2>3
    <2>5. Owes(h, s)'
      BY <2>2, <2>4 DEF Owes, DropsOther, At, Todo
    <2> QED
      BY <1>1, <2>2, <2>4, <2>5
  <1> QED
    BY <1>3, <1>5, <1>6, <1>7, <1>8 DEF IInv

\* A Drop waits for the barrier of the project.
LEMMA DropEnterIInv == ASSUME IInv, NEW t \in Session, DropEnter(t) PROVE IInv'
  <1> DEFINE v == thread[t].victim
             p == attached[v]
  <1>0. TypeOK /\ thread[t] \in Threads
    BY DEF IInv, TypeOK
  <1>1. /\ At(t, "drop")
        /\ thread' = [thread EXCEPT ![t] = [thread[t] EXCEPT !.pc = "dropped"]]
        /\ \/ p = Nobody /\ barrier' = barrier
           \/ p # Nobody /\ barrier[p] = Nobody /\ barrier' = [barrier EXCEPT ![p] = t]
        /\ UNCHANGED <<selection, registry, refs, attached, handle, calls>>
    <2>1. thread' = [thread EXCEPT ![t].pc = "dropped"]
      BY DEF DropEnter, Goto
    <2>2. thread' = [thread EXCEPT ![t] = [thread[t] EXCEPT !.pc = "dropped"]]
      BY <1>0, <2>1 DEF TypeOK, Threads
    <2> QED
      BY <2>2 DEF DropEnter
  <1>2. v \in Session /\ p \in Project \cup {Nobody} /\ refs[v] = {} /\ calls[v] # 0
    BY <1>1 DEF IInv, DropOK, DropOf, TypeOK, At
  <1>3. /\ thread' \in [Session -> Threads]
        /\ thread'[t].pc = "dropped" /\ thread'[t].victim = v
        /\ thread'[t].tool = thread[t].tool /\ thread'[t].at = thread[t].at
        /\ thread'[t].dest = thread[t].dest /\ thread'[t].todo = thread[t].todo
        /\ \A u \in Session \ {t} : thread'[u] = thread[u]
    <2>1. [thread[t] EXCEPT !.pc = "dropped"] \in Threads
      BY <1>0 DEF Threads, Places
    <2> QED
      BY <1>0, <1>1, <2>1 DEF TypeOK, Threads
  <1>4. \A x \in Project : barrier[x] # Nobody => barrier'[x] = barrier[x]
    BY <1>0, <1>1, <1>2 DEF TypeOK
  <1>5. p # Nobody => barrier'[p] = t /\ barrier[p] = Nobody
    BY <1>0, <1>1, <1>2 DEF TypeOK
  <1> HIDE DEF v, p
  <1>6. TypeOK'
    <2>1. barrier' \in [Project -> Session \cup {Nobody}]
      BY <1>0, <1>1, <1>2 DEF TypeOK
    <2> QED
      BY <1>0, <1>1, <1>3, <2>1 DEF TypeOK
  <1>7. RefsOK'
    BY <1>1, <1>3 DEF IInv, RefsOK, At, DropsSelf, v
  <1>8. BarrierOK'
    <2>1. \A u \in Session : (Holding(u)' <=> Holding(u)) /\ (At(u, "enter")' <=> At(u, "enter"))
      BY <1>1, <1>3 DEF Holding, DropsOther, At, v
    <2>2. \A u \in Session : Holding(u) => barrier'[thread[u].at] = u
      BY <1>4 DEF IInv, BarrierOK
    <2>3. \A u \in Session : /\ thread'[u].tool = thread[u].tool /\ thread'[u].at = thread[u].at
                             /\ thread'[u].dest = thread[u].dest
      BY <1>3
    <2> QED
      BY <2>1, <2>2, <2>3 DEF IInv, BarrierOK
  <1>9. DropOK'
    <2>1. ASSUME NEW u \in Session, At(u, "dropped"), thread[u].victim \in Session,
                 attached[thread[u].victim] # Nobody
          PROVE  barrier'[attached[thread[u].victim]] = u
      BY <1>4, <2>1 DEF IInv, DropOK, DropOf, TypeOK
    <2>2. v # t => p # thread[t].at
      <3> SUFFICES ASSUME v # t PROVE p # thread[t].at
        OBVIOUS
      <3>1. thread[t].at \in Project /\ barrier[thread[t].at] = t
        BY <1>1 DEF IInv, BarrierOK, Holding, DropsOther, At, v
      <3> QED
        BY <1>5, <3>1
    <2>3. p = attached[v] /\ v = thread[t].victim
      BY DEF p, v
    <2> QED
      BY <1>1, <1>2, <1>3, <1>5, <2>1, <2>2, <2>3 DEF IInv, DropOK, DropOf, At
  <1>a. StaleOK'
    <2> SUFFICES ASSUME NEW s \in Session, handle'[s] = "stale", attached'[s] # Nobody,
                        refs'[s] # {}
                 PROVE  \E h \in Session : /\ barrier'[attached'[s]] = h /\ h # s
                                           /\ thread'[h].at = attached'[s] /\ Owes(h, s)'
      BY Zenon DEF StaleOK
    <2>1. handle[s] = "stale" /\ attached[s] # Nobody /\ refs[s] # {}
      BY <1>1
    <2>2. PICK h \in Session : /\ barrier[attached[s]] = h /\ h # s
                               /\ thread[h].at = attached[s] /\ Owes(h, s)
      BY <2>1, Owed
    <2>3. barrier'[attached[s]] = h
      BY <1>4, <2>1, <2>2, Owed
    <2>4. Owes(h, s)'
      BY <1>1, <1>3, <2>2 DEF Owes, DropsOther, At, Todo, v
    <2> QED
      BY <1>1, <1>3, <2>2, <2>3, <2>4
  <1> QED
    BY <1>6, <1>7, <1>8, <1>9, <1>a DEF IInv

\* A Drop releases that barrier and no other.
LEMMA DropReleaseIInv == ASSUME IInv, NEW t \in Session, DropRelease(t) PROVE IInv'
  <1>0. TypeOK /\ thread[t] \in Threads
    BY DEF IInv, TypeOK
  <1>1. /\ thread'[t].pc = IF thread[t].victim = t THEN "idle" ELSE "visit"
        /\ thread'[t].tool = thread[t].tool
        /\ thread'[t].at = thread[t].at
        /\ thread'[t].dest = thread[t].dest
        /\ thread'[t].todo = thread[t].todo
        /\ thread'[t].victim = Nobody
        /\ \A u \in Session \ {t} : thread'[u] = thread[u]
    BY <1>0 DEF DropRelease, TypeOK, Threads
  <1>2. thread' \in [Session -> Threads]
    BY <1>0, <1>1 DEF DropRelease, TypeOK, Threads, Places, At, Todo
  <1>3. TypeOK'
    BY <1>0, <1>2 DEF DropRelease, TypeOK, Unlock
  <1>4. RefsOK'
    BY <1>0, <1>1 DEF IInv, TypeOK, DropRelease, Unlock, At, RefsOK, DropOK, DropOf, DropsSelf
  <1>5. BarrierOK'
    BY <1>0, <1>1 DEF IInv, TypeOK, DropRelease, Unlock, At, RefsOK, BarrierOK, DropOK, DropOf,
           Holding, DropsOther, DropsSelf
  <1>6. DropOK'
    BY <1>0, <1>1 DEF IInv, TypeOK, DropRelease, Unlock, At, RefsOK, BarrierOK, DropOK, DropOf,
           Holding, DropsOther, DropsSelf
  <1>7. StaleOK'
    <2> SUFFICES ASSUME NEW s \in Session, handle'[s] = "stale", attached'[s] # Nobody,
                        refs'[s] # {}
                 PROVE  \E h \in Session : /\ barrier'[attached'[s]] = h /\ h # s
                                           /\ thread'[h].at = attached'[s] /\ Owes(h, s)'
      BY Zenon DEF StaleOK
    <2>0. thread[t].victim \in Session /\ At(t, "dropped")
      BY DEF DropRelease, IInv, DropOK, DropOf, At
    <2>1. /\ handle[s] = "stale" /\ attached[s] # Nobody /\ refs[s] # {}
          /\ attached'[s] = attached[s] /\ s # thread[t].victim
      BY <1>0, <2>0 DEF DropRelease, TypeOK
    <2>2. PICK h \in Session : /\ barrier[attached[s]] = h /\ h # s
                               /\ thread[h].at = attached[s] /\ Owes(h, s)
      BY <2>1, Owed
    <2>3. attached[s] # attached[thread[t].victim]
      BY <2>0, <2>1, <2>2 DEF IInv, DropOK, DropOf, Owes, DropsOther, At
    <2>4. barrier'[attached[s]] = h
      BY <2>1, <2>2, <2>3, Owed DEF DropRelease
    <2>5. Owes(h, s)'
      BY <1>1, <2>0, <2>2 DEF Owes, DropsOther, At, Todo
    <2> QED
      BY <1>1, <2>1, <2>2, <2>4, <2>5
  <1> QED
    BY <1>3, <1>4, <1>5, <1>6, <1>7 DEF IInv

\* The loop passes over the caller.
LEMMA VisitSelfIInv == ASSUME IInv, NEW t \in Session, VisitSelf(t) PROVE IInv'
  <1>0. TypeOK /\ thread[t] \in Threads
    BY DEF IInv, TypeOK
  <1>1. /\ thread'[t].pc = thread[t].pc
        /\ thread'[t].tool = thread[t].tool
        /\ thread'[t].at = thread[t].at
        /\ thread'[t].dest = thread[t].dest
        /\ thread'[t].todo = Tail(thread[t].todo)
        /\ thread'[t].victim = thread[t].victim
        /\ \A u \in Session \ {t} : thread'[u] = thread[u]
    BY <1>0 DEF VisitSelf, TypeOK, Threads
  <1>2. thread' \in [Session -> Threads]
    BY <1>0, <1>1, TailOf DEF VisitSelf, TypeOK, Threads, Places, At, Todo
  <1>3. TypeOK'
    BY <1>0, <1>2 DEF VisitSelf, TypeOK, Unlock
  <1>4. RefsOK'
    BY <1>0, <1>1 DEF IInv, TypeOK, VisitSelf, Unlock, At, RefsOK, DropOK, DropOf, DropsSelf
  <1>5. BarrierOK'
    BY <1>0, <1>1 DEF IInv, TypeOK, VisitSelf, Unlock, At, RefsOK, BarrierOK, DropOK, DropOf,
           Holding, DropsOther, DropsSelf
  <1>6. DropOK'
    BY <1>0, <1>1 DEF IInv, TypeOK, VisitSelf, Unlock, At, RefsOK, BarrierOK, DropOK, DropOf,
           Holding, DropsOther, DropsSelf
  <1>7. StaleOK'
    <2> SUFFICES ASSUME NEW s \in Session, handle'[s] = "stale", attached'[s] # Nobody,
                        refs'[s] # {}
                 PROVE  \E h \in Session : /\ barrier'[attached'[s]] = h /\ h # s
                                           /\ thread'[h].at = attached'[s] /\ Owes(h, s)'
      BY Zenon DEF StaleOK
    <2>1. handle[s] = "stale" /\ attached[s] # Nobody /\ refs[s] # {} /\ attached'[s] = attached[s]
      BY DEF VisitSelf
    <2>2. PICK h \in Session : /\ barrier[attached[s]] = h /\ h # s
                               /\ thread[h].at = attached[s] /\ Owes(h, s)
      BY <2>1, Owed
    <2>3. h = t => s \in ToSet(Tail(thread[t].todo))
      <3>1. thread[t].todo \in Seq(Session) /\ thread[t].todo # <<>> /\ Head(thread[t].todo) = t
        BY <1>0 DEF VisitSelf, Threads, Todo
      <3>2. h = t => s \in ToSet(thread[t].todo)
        BY <2>2 DEF VisitSelf, Owes, DropsOther, At, Todo
      <3> QED
        BY <2>2, <3>1, <3>2, TailOf
    <2>4. Owes(h, s)'
      BY <1>1, <2>2, <2>3 DEF Owes, DropsOther, At, Todo
    <2>5. barrier' = barrier
      BY DEF VisitSelf
    <2> QED
      BY <1>1, <2>1, <2>2, <2>4, <2>5
  <1> QED
    BY <1>3, <1>4, <1>5, <1>6, <1>7 DEF IInv

\* A visit leaves no stale handle, and the last reference of a session that has
\* been disconnected makes the visitor drop it.
LEMMA VisitIInv == ASSUME IInv, NEW t \in Session, Visit(t) PROVE IInv'
  <1> DEFINE x == Head(thread[t].todo)
             rest == Tail(thread[t].todo)
  <1>0. TypeOK /\ thread[t] \in Threads
    BY DEF IInv, TypeOK
  <1>1. /\ thread[t].todo \in Seq(Session) /\ thread[t].todo # <<>>
        /\ x \in Session /\ rest \in Seq(Session)
        /\ \A s \in ToSet(thread[t].todo) : s = x \/ s \in ToSet(rest)
    <2>1. thread[t].todo \in Seq(Session) /\ thread[t].todo # <<>>
      BY <1>0 DEF Visit, Todo, Threads
    <2> QED
      BY <2>1, TailOf
  <1>2. /\ LetGo(t, x, t, "visit", rest) /\ At(t, "visit") /\ x # t
        /\ handle' = [handle EXCEPT ![x] = IF attached[x] = thread[t].at THEN "none" ELSE @]
        /\ UNCHANGED <<barrier, selection, registry, attached, calls>>
    BY DEF Visit, Todo
  <1>3. /\ thread' \in [Session -> Threads]
        /\ refs' \in [Session -> SUBSET (Session \cup {Handler})]
        /\ refs'[x] = refs[x] \ {t}
        /\ \A u \in Session \ {x} : refs'[u] = refs[u]
        /\ \A u \in Session \ {t} : thread'[u] = thread[u]
        /\ thread'[t].tool = thread[t].tool /\ thread'[t].at = thread[t].at
        /\ thread'[t].dest = thread[t].dest /\ thread'[t].todo = rest
        /\ refs[x] = {t} => thread'[t].pc = "drop" /\ thread'[t].victim = x
        /\ refs[x] # {t} => thread'[t].pc = "visit" /\ thread'[t].victim = thread[t].victim
    <2> HIDE DEF x, rest
    <2>1. "visit" \in Places
      BY DEF Places
    <2>2. LetsGo(t, x, t, "visit", rest)
      BY <1>0, <1>1, <1>2, <2>1, LetGoFacts
    <2> QED
      BY <1>1, <2>2 DEF LetsGo
  <1> HIDE DEF x, rest
  <1>4. TypeOK'
    <2>1. handle' \in [Session -> {"none", "live", "stale"}]
      BY <1>0, <1>1, <1>2 DEF TypeOK
    <2> QED
      BY <1>0, <1>2, <1>3, <2>1 DEF TypeOK
  <1>5. t \in refs[t] /\ \A u \in Session : thread[u].pc \in {"drop", "dropped"} => thread[u].victim # t
    BY <1>2, Referenced DEF At, DropsSelf
  <1>6. RefsOK'
    <2>1. \A s \in Session : calls[s] = 0 => handle'[s] = "none"
      BY <1>0, <1>1, <1>2 DEF IInv, RefsOK, TypeOK
    <2>2. \A s \in Session \ {t} : s \in refs[s] => s \in refs'[s]
      BY <1>1, <1>3
    <2>3. \A s \in Session : refs'[s] # {} => refs[s] # {}
      BY <1>1, <1>3
    <2>4. t \in refs'[t] /\ calls[t] # 0
      BY <1>2, <1>3, <1>5 DEF IInv, RefsOK
    <2> QED
      BY <1>2, <1>3, <2>1, <2>2, <2>3, <2>4 DEF IInv, RefsOK, At, DropsSelf
  <1>7. BarrierOK'
    <2>1. \A u \in Session : (Holding(u)' => Holding(u)) /\ (At(u, "enter")' => At(u, "enter"))
      BY <1>2, <1>3 DEF Holding, DropsOther, At
    <2>2. \A u \in Session : /\ thread'[u].tool = thread[u].tool /\ thread'[u].at = thread[u].at
                             /\ thread'[u].dest = thread[u].dest
      BY <1>3
    <2> QED
      BY <1>2, <2>1, <2>2 DEF IInv, BarrierOK
  <1>8. DropOK'
    <2>1. ASSUME NEW u \in Session \ {t}, thread[u].pc \in {"drop", "dropped"}
          PROVE  refs'[thread[u].victim] = {}
      BY <1>1, <1>3, <2>1 DEF IInv, DropOK, DropOf
    <2>2. CASE refs[x] = {t}
      <3>1. refs'[x] = {} /\ calls[x] # 0
        BY <1>1, <1>3, <2>2 DEF IInv, RefsOK
      <3> QED
        BY <1>1, <1>2, <1>3, <2>1, <2>2, <3>1 DEF IInv, DropOK, DropOf, At
    <2>3. CASE refs[x] # {t}
      BY <1>2, <1>3, <2>1, <2>3 DEF IInv, DropOK, DropOf, At
    <2> QED
      BY <2>2, <2>3
  <1>9. StaleOK'
    <2> SUFFICES ASSUME NEW s \in Session, handle'[s] = "stale", attached'[s] # Nobody,
                        refs'[s] # {}
                 PROVE  \E h \in Session : /\ barrier'[attached'[s]] = h /\ h # s
                                           /\ thread'[h].at = attached'[s] /\ Owes(h, s)'
      BY Zenon DEF StaleOK
    <2>1. /\ handle[s] = "stale" /\ attached[s] # Nobody /\ refs[s] # {}
          /\ s = x => attached[s] # thread[t].at
      BY <1>0, <1>1, <1>2, <1>3 DEF TypeOK
    <2>2. PICK h \in Session : /\ barrier[attached[s]] = h /\ h # s
                               /\ thread[h].at = attached[s] /\ Owes(h, s)
      BY <2>1, Owed
    <2>3. h = t => s \in ToSet(rest)
      BY <1>1, <1>2, <2>1, <2>2 DEF Owes, DropsOther, At, Todo
    <2>4. Owes(h, s)'
      BY <1>2, <1>3, <2>2, <2>3 DEF Owes, DropsOther, At, Todo
    <2> QED
      BY <1>2, <1>3, <2>2, <2>4
  <1> QED
    BY <1>4, <1>6, <1>7, <1>8, <1>9 DEF IInv

\* The loop ends when nobody is owed a visit.
LEMMA VisitedIInv == ASSUME IInv, NEW t \in Session, Visited(t) PROVE IInv'
  <1>0. TypeOK /\ thread[t] \in Threads
    BY DEF IInv, TypeOK
  <1>1. /\ thread'[t].pc = "finish"
        /\ thread'[t].tool = thread[t].tool
        /\ thread'[t].at = thread[t].at
        /\ thread'[t].dest = thread[t].dest
        /\ thread'[t].todo = thread[t].todo
        /\ thread'[t].victim = thread[t].victim
        /\ \A u \in Session \ {t} : thread'[u] = thread[u]
    BY <1>0 DEF Visited, Goto, TypeOK, Threads
  <1>2. thread' \in [Session -> Threads]
    BY <1>0, <1>1 DEF Visited, Goto, TypeOK, Threads, Places, At, Todo
  <1>3. TypeOK'
    BY <1>0, <1>2 DEF Visited, Goto, TypeOK, Unlock
  <1>4. RefsOK'
    BY <1>0, <1>1 DEF IInv, TypeOK, Visited, Goto, Unlock, At, RefsOK, DropOK, DropOf, DropsSelf
  <1>5. BarrierOK'
    BY <1>0, <1>1 DEF IInv, TypeOK, Visited, Goto, Unlock, At, RefsOK, BarrierOK, DropOK, DropOf,
           Holding, DropsOther, DropsSelf
  <1>6. DropOK'
    BY <1>0, <1>1 DEF IInv, TypeOK, Visited, Goto, Unlock, At, RefsOK, BarrierOK, DropOK, DropOf,
           Holding, DropsOther, DropsSelf
  <1>7. StaleOK'
    <2> SUFFICES ASSUME NEW s \in Session, handle'[s] = "stale", attached'[s] # Nobody,
                        refs'[s] # {}
                 PROVE  \E h \in Session : /\ barrier'[attached'[s]] = h /\ h # s
                                           /\ thread'[h].at = attached'[s] /\ Owes(h, s)'
      BY Zenon DEF StaleOK
    <2>1. handle[s] = "stale" /\ attached[s] # Nobody /\ refs[s] # {} /\ attached'[s] = attached[s]
      BY DEF Visited
    <2>2. PICK h \in Session : /\ barrier[attached[s]] = h /\ h # s
                               /\ thread[h].at = attached[s] /\ Owes(h, s)
      BY <2>1, Owed
    <2>3. h # t
      <3>1. ToSet(<<>>) = {}
        BY DEF ToSet
      <3> QED
        BY <2>2, <3>1 DEF Visited, Owes, DropsOther, At
    <2>4. Owes(h, s)'
      BY <1>1, <2>2, <2>3 DEF Owes, DropsOther, At, Todo
    <2>5. barrier' = barrier
      BY DEF Visited
    <2> QED
      BY <1>1, <2>1, <2>2, <2>3, <2>4, <2>5
  <1> QED
    BY <1>3, <1>4, <1>5, <1>6, <1>7 DEF IInv

\* A session connects once.
LEMMA ConnectIInv == ASSUME IInv, NEW t \in Session, Connect(t) PROVE IInv'
  <1>0. TypeOK
    BY DEF IInv
  <1>1. /\ refs' = [refs EXCEPT ![t] = {Handler}] /\ registry' = Append(registry, t)
        /\ calls' = [calls EXCEPT ![t] = 1] /\ calls[t] = 0
        /\ UNCHANGED <<barrier, selection, attached, handle, thread>>
    BY DEF Connect
  <1>2. /\ registry' \in Seq(Session) /\ ToSet(registry) \subseteq ToSet(registry')
        /\ t \in ToSet(registry')
    BY <1>0, <1>1, AppendOf DEF TypeOK
  <1>3. TypeOK'
    BY <1>0, <1>1, <1>2 DEF TypeOK
  <1>4. At(t, "idle") /\ handle[t] = "none" /\ \A u \in Session :
            thread[u].pc \in {"drop", "dropped"} => thread[u].victim # t
    BY <1>1 DEF IInv, RefsOK, DropOK, DropOf
  <1>5. RefsOK'
    BY <1>0, <1>1, <1>2, <1>4 DEF IInv, RefsOK, TypeOK, At, DropsSelf
  <1>6. BarrierOK'
    BY <1>1 DEF IInv, BarrierOK, Holding, DropsOther, At
  <1>7. DropOK'
    <2>1. ASSUME NEW u \in Session, thread[u].pc \in {"drop", "dropped"}
          PROVE  /\ refs'[thread[u].victim] = refs[thread[u].victim]
                 /\ calls'[thread[u].victim] = calls[thread[u].victim]
      BY <1>0, <1>1, <1>4, <2>1 DEF IInv, DropOK, DropOf, TypeOK
    <2> QED
      BY <1>1, <2>1 DEF IInv, DropOK, DropOf, At
  <1>8. StaleOK'
    <2>1. \A s \in Session : handle'[s] = "stale" => s # t /\ refs'[s] = refs[s]
      BY <1>0, <1>1, <1>4 DEF TypeOK
    <2> QED
      BY <1>1, <2>1 DEF IInv, StaleOK, Owes, DropsOther, At, Todo
  <1> QED
    BY <1>3, <1>5, <1>6, <1>7, <1>8 DEF IInv

\* The upgrade makes a list of every session that a call can still reach.
LEMMA UpgradeIInv == ASSUME IInv, NEW t \in Session, Upgrade(t) PROVE IInv'
  <1>0. TypeOK /\ thread[t] \in Threads
    BY DEF IInv, TypeOK
  <1>1. PICK n \in 0..Len(registry) : \E live \in [1..n -> Session] :
          /\ ToSet(live) = {s \in ToSet(registry) : refs[s] # {}}
          /\ registry' = live
          /\ refs' = [s \in Session |->
                        IF s \in ToSet(live) THEN refs[s] \cup {t} ELSE refs[s]]
          /\ thread' = [thread EXCEPT ![t].pc = "visit", ![t].todo = live]
    BY DEF Upgrade
  <1>2. PICK live \in [1..n -> Session] :
          /\ ToSet(live) = {s \in ToSet(registry) : refs[s] # {}}
          /\ registry' = live
          /\ refs' = [s \in Session |->
                        IF s \in ToSet(live) THEN refs[s] \cup {t} ELSE refs[s]]
          /\ thread' = [thread EXCEPT ![t].pc = "visit", ![t].todo = live]
    BY <1>1
  <1>3. At(t, "upgrade") /\ UNCHANGED <<barrier, selection, attached, handle, calls>>
    BY DEF Upgrade
  <1>4. live \in Seq(Session)
    BY <1>0 DEF TypeOK
  <1>5. /\ thread' \in [Session -> Threads]
        /\ thread'[t].pc = "visit" /\ thread'[t].todo = live
        /\ thread'[t].tool = thread[t].tool /\ thread'[t].at = thread[t].at
        /\ thread'[t].dest = thread[t].dest /\ thread'[t].victim = thread[t].victim
        /\ \A u \in Session \ {t} : thread'[u] = thread[u]
    <2>1. thread' = [thread EXCEPT ![t] = [thread[t] EXCEPT !.pc = "visit", !.todo = live]]
      BY <1>0, <1>2 DEF TypeOK, Threads
    <2>2. [thread[t] EXCEPT !.pc = "visit", !.todo = live] \in Threads
      BY <1>0, <1>4 DEF Threads, Places
    <2> QED
      BY <1>0, <2>1, <2>2 DEF TypeOK, Threads
  <1>6. /\ \A s \in Session : refs[s] \subseteq refs'[s] /\ (refs'[s] # {} <=> refs[s] # {})
        /\ refs' \in [Session -> SUBSET (Session \cup {Handler})]
    BY <1>0, <1>2 DEF TypeOK
  <1>7. \A s \in Session : refs[s] # {} => s \in ToSet(live)
    BY <1>2 DEF IInv, RefsOK
  <1>8. TypeOK'
    BY <1>0, <1>2, <1>3, <1>4, <1>5, <1>6 DEF TypeOK
  <1>9. RefsOK'
    BY <1>2, <1>3, <1>5, <1>6, <1>7 DEF IInv, RefsOK, At, DropsSelf
  <1>a. BarrierOK'
    BY <1>3, <1>5 DEF IInv, BarrierOK, Holding, DropsOther, At
  <1>b. DropOK'
    <2> SUFFICES ASSUME NEW u \in Session PROVE DropOf(u)'
      BY DEF DropOK, DropOf
    <2>1. DropOf(u)
      BY DEF IInv, DropOK, DropOf
    <2>2. CASE u = t
      BY <1>5, <2>2 DEF DropOf, At
    <2>3. CASE u # t
      <3>1. thread'[u] = thread[u]
        BY <1>5, <2>3
      <3> QED
        BY <1>3, <1>6, <2>1, <3>1 DEF DropOf, At
    <2> QED
      BY <2>2, <2>3
  <1>c. StaleOK'
    <2> SUFFICES ASSUME NEW s \in Session, handle'[s] = "stale", attached'[s] # Nobody,
                        refs'[s] # {}
                 PROVE  \E h \in Session : /\ barrier'[attached'[s]] = h /\ h # s
                                           /\ thread'[h].at = attached'[s] /\ Owes(h, s)'
      BY Zenon DEF StaleOK
    <2>1. handle[s] = "stale" /\ attached[s] # Nobody /\ refs[s] # {}
      BY <1>3, <1>6
    <2>2. PICK h \in Session : /\ barrier[attached[s]] = h /\ h # s
                               /\ thread[h].at = attached[s] /\ Owes(h, s)
      BY <2>1, Owed
    <2>3. Owes(h, s)'
      BY <1>5, <1>7, <2>1, <2>2 DEF Owes, DropsOther, At, Todo
    <2> QED
      BY <1>3, <1>5, <2>2, <2>3
  <1> QED
    BY <1>8, <1>9, <1>a, <1>b, <1>c DEF IInv

\* The invariant is inductive.
LEMMA NextIInv == IInv /\ [Next]_vars => IInv'
  <1> SUFFICES ASSUME IInv, [Next]_vars PROVE IInv'
    OBVIOUS
  <1>1. CASE UNCHANGED vars
    BY <1>1 DEF IInv, vars, TypeOK, RefsOK, BarrierOK, DropOK, DropOf, StaleOK, Owes, Holding,
                DropsSelf, DropsOther, At, Todo
  <1>2. ASSUME NEW s \in Session, Step(s) PROVE IInv'
    BY <1>2, FindIInv, EnterIInv, RefuseIInv, SelectIInv, ReplacePetIInv, DoneIInv,
       FailIInv, SwitchAwayIInv, LeaveIInv, EndIInv, DropEnterIInv, DropReleaseIInv,
       UpgradeIInv, VisitSelfIInv, VisitIInv, VisitedIInv DEF Step
  <1>3. ASSUME NEW s \in Session, Begin(s, "op", Nobody) PROVE IInv'
    BY <1>3, BeginIInv
  <1>4. ASSUME NEW s \in Session, NEW p \in Project, Begin(s, "start", p) PROVE IInv'
    BY <1>4, BeginIInv
  <1> QED
    BY <1>1, <1>2, <1>3, <1>4, ConnectIInv, CloseIInv DEF Next

\* Every reachable state satisfies it.
LEMMA Reachable == Spec => []IInv
  BY InitIInv, NextIInv, PTL DEF Spec

-----------------------------------------------------------------------------
(* Invalidation.                                                           *)

\* Locks, references and threads stay in their types.
THEOREM TypeCorrect == Spec => []TypeOK
  <1>1. IInv => TypeOK
    BY DEF IInv
  <1> QED
    BY <1>1, Reachable, PTL

\* Whenever the barrier of a project is free, no session that a call can still
\* reach holds a state of a PET that was replaced, whichever sessions replace
\* PET, switch projects or disconnect while invalidate_project_states() runs.
THEOREM InvalidationCorrect == Spec => []InvalidationIsComplete
  <1>1. IInv => InvalidationIsComplete
    BY DEF IInv, TypeOK, StaleOK, InvalidationIsComplete
  <1> QED
    BY <1>1, Reachable, PTL

-----------------------------------------------------------------------------
(* Circular waits.                                                         *)

\* What a thread has to show when the others stay where they are.
LEMMA OwnersKept ==
    ASSUME OwnerOK, NEW t \in Session,
           \A u \in Session \ {t} : thread'[u] = thread[u],
           \A u \in Session \ {t} : At(u, "dropped") =>
               attached'[thread[u].victim] = attached[thread[u].victim],
           \A p \in Project, u \in Session \ {t} : barrier'[p] = u => barrier[p] = u,
           \A p \in Project : barrier'[p] = t =>
               \/ Holding(t)' /\ thread'[t].at = p
               \/ At(t, "dropped")' /\ attached'[thread'[t].victim] = p,
           \A s \in Session \ {t} : selection'[s] = selection[s],
           selection'[t] # Nobody => selection'[t] = t /\ Holding(t)' /\ ~At(t, "select")'
    PROVE  BarrierOwned' /\ SelectionOwned'
  <1>1. \A u \in Session \ {t} : /\ Holding(u)' <=> Holding(u)
                                 /\ \A place : At(u, place)' <=> At(u, place)
    BY DEF Holding, DropsOther, At
  <1>2. ASSUME NEW p \in Project, NEW u \in Session \ {t}, barrier'[p] = u
        PROVE  \/ Holding(u)' /\ thread'[u].at = p
               \/ At(u, "dropped")' /\ attached'[thread'[u].victim] = p
    BY <1>1, <1>2 DEF OwnerOK, BarrierOwned
  <1>3. BarrierOwned'
    BY <1>2 DEF BarrierOwned
  <1>4. SelectionOwned'
    BY <1>1 DEF OwnerOK, SelectionOwned
  <1> QED
    BY <1>3, <1>4

\* Who owns a lock is at a place to own it, and who visits may replace PET.
LEMMA OwnerStep ==
    ASSUME IInv, OwnerOK, NEW t \in Session,
           \/ Step(t) \/ Connect(t) \/ Close(t)
           \/ \E tool \in {"op", "start"}, dest \in Project \cup {Nobody} : Begin(t, tool, dest)
    PROVE  OwnerOK'
  <1>0. TypeOK /\ thread[t] \in Threads
    BY DEF IInv, TypeOK
  <1>a. ~At(t, "idle") /\ ~DropsSelf(t) =>
          \A u \in Session : thread[u].pc \in {"drop", "dropped"} => thread[u].victim # t
    BY Referenced
  <1>b. \A u \in Session : At(u, "dropped") => thread[u].victim \in Session
    BY DEF IInv, DropOK, DropOf, DropOf, At
  <1>c. \A p \in Project : barrier[p] = t =>
          \/ Holding(t) /\ thread[t].at = p
          \/ At(t, "dropped") /\ attached[thread[t].victim] = p
    BY DEF OwnerOK, BarrierOwned
  <1>d. selection[t] # Nobody => selection[t] = t /\ Holding(t) /\ ~At(t, "select")
    BY DEF OwnerOK, SelectionOwned
  <1>1. ASSUME NEW tool \in {"op", "start"}, NEW dest \in Project \cup {Nobody},
               Begin(t, tool, dest)
        PROVE  OwnerOK'
    <2>1. /\ thread'[t].pc = "find"
          /\ \A u \in Session \ {t} : thread'[u] = thread[u]
      BY <1>0, <1>1 DEF Begin, Idle, TypeOK, Threads
    <2>2. \A u \in Session \ {t} : At(u, "dropped") =>
           attached'[thread[u].victim] = attached[thread[u].victim]
      BY <1>0, <1>a, <1>b, <1>1, <2>1 DEF Begin, TypeOK, DropsSelf, At
    <2>3. \A p \in Project, u \in Session \ {t} : barrier'[p] = u => barrier[p] = u
      BY <1>0, <1>1, <2>1 DEF Begin, TypeOK, Unlock
    <2>4. \A p \in Project : barrier'[p] = t =>
           \/ Holding(t)' /\ thread'[t].at = p
           \/ At(t, "dropped")' /\ attached'[thread'[t].victim] = p
      BY <1>0, <1>c, <1>1, <2>1 DEF Begin, TypeOK, Holding, DropsOther, DropsSelf, At, Unlock
    <2>5. \A s \in Session \ {t} : selection'[s] = selection[s]
      BY <1>0, <1>1, <2>1 DEF Begin, TypeOK
    <2>6. selection'[t] # Nobody =>
           selection'[t] = t /\ Holding(t)' /\ ~At(t, "select")'
      BY <1>0, <1>d, <1>1, <2>1 DEF Begin, TypeOK, Holding, DropsOther, At
    <2> QED
      BY <2>1, <2>2, <2>3, <2>4, <2>5, <2>6, OwnersKept DEF OwnerOK
  <1>2. CASE Find(t)
    <2>1. /\ thread'[t].pc \in {"end", "enter"}
          /\ \A u \in Session \ {t} : thread'[u] = thread[u]
      BY <1>0, <1>2 DEF Find, TypeOK, Threads
    <2>2. \A u \in Session \ {t} : At(u, "dropped") =>
           attached'[thread[u].victim] = attached[thread[u].victim]
      BY <1>0, <1>a, <1>b, <1>2, <2>1 DEF Find, TypeOK, DropsSelf, At
    <2>3. \A p \in Project, u \in Session \ {t} : barrier'[p] = u => barrier[p] = u
      BY <1>0, <1>2, <2>1 DEF Find, TypeOK, Unlock
    <2>4. \A p \in Project : barrier'[p] = t =>
           \/ Holding(t)' /\ thread'[t].at = p
           \/ At(t, "dropped")' /\ attached'[thread'[t].victim] = p
      BY <1>0, <1>c, <1>2, <2>1 DEF Find, TypeOK, Holding, DropsOther, DropsSelf, At, Unlock
    <2>5. \A s \in Session \ {t} : selection'[s] = selection[s]
      BY <1>0, <1>2, <2>1 DEF Find, TypeOK
    <2>6. selection'[t] # Nobody =>
           selection'[t] = t /\ Holding(t)' /\ ~At(t, "select")'
      BY <1>0, <1>d, <1>2, <2>1 DEF Find, TypeOK, Holding, DropsOther, At
    <2> QED
      BY <2>1, <2>2, <2>3, <2>4, <2>5, <2>6, OwnersKept DEF OwnerOK
  <1>3. CASE Enter(t)
    <2>1. /\ thread'[t].pc = "select" /\ thread'[t].at = thread[t].at
          /\ \A u \in Session \ {t} : thread'[u] = thread[u]
      BY <1>0, <1>3 DEF Enter, Goto, TypeOK, Threads
    <2>2. \A u \in Session \ {t} : At(u, "dropped") =>
           attached'[thread[u].victim] = attached[thread[u].victim]
      BY <1>0, <1>a, <1>b, <1>3, <2>1 DEF Enter, TypeOK, DropsSelf, At
    <2>3. \A p \in Project, u \in Session \ {t} : barrier'[p] = u => barrier[p] = u
      BY <1>0, <1>3, <2>1 DEF Enter, TypeOK, Unlock
    <2>4. \A p \in Project : barrier'[p] = t =>
           \/ Holding(t)' /\ thread'[t].at = p
           \/ At(t, "dropped")' /\ attached'[thread'[t].victim] = p
      BY <1>0, <1>c, <1>3, <2>1 DEF Enter, TypeOK, Holding, DropsOther, DropsSelf, At, Unlock
    <2>5. \A s \in Session \ {t} : selection'[s] = selection[s]
      BY <1>0, <1>3, <2>1 DEF Enter, TypeOK
    <2>6. selection'[t] # Nobody =>
           selection'[t] = t /\ Holding(t)' /\ ~At(t, "select")'
      BY <1>0, <1>d, <1>3, <2>1 DEF Enter, TypeOK, Holding, DropsOther, At
    <2> QED
      BY <2>1, <2>2, <2>3, <2>4, <2>5, <2>6, OwnersKept DEF OwnerOK
  <1>4. CASE Refuse(t)
    <2>1. /\ thread'[t].pc = "end"
          /\ \A u \in Session \ {t} : thread'[u] = thread[u]
      BY <1>0, <1>4 DEF Refuse, Goto, TypeOK, Threads
    <2>2. \A u \in Session \ {t} : At(u, "dropped") =>
           attached'[thread[u].victim] = attached[thread[u].victim]
      BY <1>0, <1>a, <1>b, <1>4, <2>1 DEF Refuse, TypeOK, DropsSelf, At
    <2>3. \A p \in Project, u \in Session \ {t} : barrier'[p] = u => barrier[p] = u
      BY <1>0, <1>4, <2>1 DEF Refuse, TypeOK, Unlock
    <2>4. \A p \in Project : barrier'[p] = t =>
           \/ Holding(t)' /\ thread'[t].at = p
           \/ At(t, "dropped")' /\ attached'[thread'[t].victim] = p
      BY <1>0, <1>c, <1>4, <2>1 DEF Refuse, TypeOK, Holding, DropsOther, DropsSelf, At, Unlock
    <2>5. \A s \in Session \ {t} : selection'[s] = selection[s]
      BY <1>0, <1>4, <2>1 DEF Refuse, TypeOK
    <2>6. selection'[t] # Nobody =>
           selection'[t] = t /\ Holding(t)' /\ ~At(t, "select")'
      BY <1>0, <1>d, <1>4, <2>1 DEF Refuse, TypeOK, Holding, DropsOther, At
    <2> QED
      BY <2>1, <2>2, <2>3, <2>4, <2>5, <2>6, OwnersKept DEF OwnerOK
  <1>5. CASE Select(t)
    <2>1. /\ thread'[t].pc \in {"leave", "work"} /\ thread'[t].at = thread[t].at
          /\ \A u \in Session \ {t} : thread'[u] = thread[u]
      BY <1>0, <1>5 DEF Select, Goto, TypeOK, Threads
    <2>2. \A u \in Session \ {t} : At(u, "dropped") =>
           attached'[thread[u].victim] = attached[thread[u].victim]
      BY <1>0, <1>a, <1>b, <1>5, <2>1 DEF Select, TypeOK, DropsSelf, At
    <2>3. \A p \in Project, u \in Session \ {t} : barrier'[p] = u => barrier[p] = u
      BY <1>0, <1>5, <2>1 DEF Select, TypeOK, Unlock
    <2>4. \A p \in Project : barrier'[p] = t =>
           \/ Holding(t)' /\ thread'[t].at = p
           \/ At(t, "dropped")' /\ attached'[thread'[t].victim] = p
      BY <1>0, <1>c, <1>5, <2>1 DEF Select, TypeOK, Holding, DropsOther, DropsSelf, At, Unlock
    <2>5. \A s \in Session \ {t} : selection'[s] = selection[s]
      BY <1>0, <1>5, <2>1 DEF Select, TypeOK
    <2>6. selection'[t] # Nobody =>
           selection'[t] = t /\ Holding(t)' /\ ~At(t, "select")'
      BY <1>0, <1>d, <1>5, <2>1 DEF Select, TypeOK, Holding, DropsOther, At
    <2> QED
      BY <2>1, <2>2, <2>3, <2>4, <2>5, <2>6, OwnersKept DEF OwnerOK
  <1>6. CASE ReplacePet(t)
    <2>1. /\ thread'[t].pc = "upgrade" /\ thread'[t].at = thread[t].at
          /\ \A u \in Session \ {t} : thread'[u] = thread[u]
      BY <1>0, <1>6 DEF ReplacePet, Goto, TypeOK, Threads
    <2>2. \A u \in Session \ {t} : At(u, "dropped") =>
           attached'[thread[u].victim] = attached[thread[u].victim]
      BY <1>0, <1>a, <1>b, <1>6, <2>1 DEF ReplacePet, TypeOK, DropsSelf, At
    <2>3. \A p \in Project, u \in Session \ {t} : barrier'[p] = u => barrier[p] = u
      BY <1>0, <1>6, <2>1 DEF ReplacePet, TypeOK, Unlock
    <2>4. \A p \in Project : barrier'[p] = t =>
           \/ Holding(t)' /\ thread'[t].at = p
           \/ At(t, "dropped")' /\ attached'[thread'[t].victim] = p
      BY <1>0, <1>c, <1>6, <2>1 DEF ReplacePet, TypeOK, Holding, DropsOther, DropsSelf, At, Unlock
    <2>5. \A s \in Session \ {t} : selection'[s] = selection[s]
      BY <1>0, <1>6, <2>1 DEF ReplacePet, TypeOK
    <2>6. selection'[t] # Nobody =>
           selection'[t] = t /\ Holding(t)' /\ ~At(t, "select")'
      BY <1>0, <1>d, <1>6, <2>1 DEF ReplacePet, TypeOK, Holding, DropsOther, At
    <2> QED
      BY <2>1, <2>2, <2>3, <2>4, <2>5, <2>6, OwnersKept DEF OwnerOK
  <1>7. CASE Done(t)
    <2>1. /\ thread'[t].pc = "leave" /\ thread'[t].at = thread[t].at
          /\ \A u \in Session \ {t} : thread'[u] = thread[u]
      BY <1>0, <1>7 DEF Done, Goto, TypeOK, Threads
    <2>2. \A u \in Session \ {t} : At(u, "dropped") =>
           attached'[thread[u].victim] = attached[thread[u].victim]
      BY <1>0, <1>a, <1>b, <1>7, <2>1 DEF Done, TypeOK, DropsSelf, At
    <2>3. \A p \in Project, u \in Session \ {t} : barrier'[p] = u => barrier[p] = u
      BY <1>0, <1>7, <2>1 DEF Done, TypeOK, Unlock
    <2>4. \A p \in Project : barrier'[p] = t =>
           \/ Holding(t)' /\ thread'[t].at = p
           \/ At(t, "dropped")' /\ attached'[thread'[t].victim] = p
      BY <1>0, <1>c, <1>7, <2>1 DEF Done, TypeOK, Holding, DropsOther, DropsSelf, At, Unlock
    <2>5. \A s \in Session \ {t} : selection'[s] = selection[s]
      BY <1>0, <1>7, <2>1 DEF Done, TypeOK
    <2>6. selection'[t] # Nobody =>
           selection'[t] = t /\ Holding(t)' /\ ~At(t, "select")'
      BY <1>0, <1>d, <1>7, <2>1 DEF Done, TypeOK, Holding, DropsOther, At
    <2> QED
      BY <2>1, <2>2, <2>3, <2>4, <2>5, <2>6, OwnersKept DEF OwnerOK
  <1>8. CASE Fail(t)
    <2>1. /\ thread'[t].pc = "leave" /\ thread'[t].at = thread[t].at
          /\ \A u \in Session \ {t} : thread'[u] = thread[u]
      BY <1>0, <1>8 DEF Fail, Goto, TypeOK, Threads
    <2>2. \A u \in Session \ {t} : At(u, "dropped") =>
           attached'[thread[u].victim] = attached[thread[u].victim]
      BY <1>0, <1>a, <1>b, <1>8, <2>1 DEF Fail, TypeOK, DropsSelf, At
    <2>3. \A p \in Project, u \in Session \ {t} : barrier'[p] = u => barrier[p] = u
      BY <1>0, <1>8, <2>1 DEF Fail, TypeOK, Unlock
    <2>4. \A p \in Project : barrier'[p] = t =>
           \/ Holding(t)' /\ thread'[t].at = p
           \/ At(t, "dropped")' /\ attached'[thread'[t].victim] = p
      BY <1>0, <1>c, <1>8, <2>1 DEF Fail, TypeOK, Holding, DropsOther, DropsSelf, At, Unlock
    <2>5. \A s \in Session \ {t} : selection'[s] = selection[s]
      BY <1>0, <1>8, <2>1 DEF Fail, TypeOK
    <2>6. selection'[t] # Nobody =>
           selection'[t] = t /\ Holding(t)' /\ ~At(t, "select")'
      BY <1>0, <1>d, <1>8, <2>1 DEF Fail, TypeOK, Holding, DropsOther, At
    <2> QED
      BY <2>1, <2>2, <2>3, <2>4, <2>5, <2>6, OwnersKept DEF OwnerOK
  <1>9. CASE SwitchAway(t)
    <2>1. /\ thread'[t].pc = "enter"
          /\ \A u \in Session \ {t} : thread'[u] = thread[u]
      BY <1>0, <1>9 DEF SwitchAway, TypeOK, Threads
    <2>2. \A u \in Session \ {t} : At(u, "dropped") =>
           attached'[thread[u].victim] = attached[thread[u].victim]
      BY <1>0, <1>a, <1>b, <1>9, <2>1 DEF SwitchAway, TypeOK, DropsSelf, At
    <2>3. \A p \in Project, u \in Session \ {t} : barrier'[p] = u => barrier[p] = u
      BY <1>0, <1>9, <2>1 DEF SwitchAway, TypeOK, Unlock
    <2>4. \A p \in Project : barrier'[p] = t =>
           \/ Holding(t)' /\ thread'[t].at = p
           \/ At(t, "dropped")' /\ attached'[thread'[t].victim] = p
      BY <1>0, <1>c, <1>9, <2>1 DEF SwitchAway, TypeOK, Holding, DropsOther, DropsSelf, At, Unlock
    <2>5. \A s \in Session \ {t} : selection'[s] = selection[s]
      BY <1>0, <1>9, <2>1 DEF SwitchAway, TypeOK
    <2>6. selection'[t] # Nobody =>
           selection'[t] = t /\ Holding(t)' /\ ~At(t, "select")'
      BY <1>0, <1>d, <1>9, <2>1 DEF SwitchAway, TypeOK, Holding, DropsOther, At
    <2> QED
      BY <2>1, <2>2, <2>3, <2>4, <2>5, <2>6, OwnersKept DEF OwnerOK
  <1>10. CASE Leave(t)
    <2>1. /\ thread'[t].pc = "end"
          /\ \A u \in Session \ {t} : thread'[u] = thread[u]
      BY <1>0, <1>10 DEF Leave, Goto, TypeOK, Threads
    <2>2. \A u \in Session \ {t} : At(u, "dropped") =>
           attached'[thread[u].victim] = attached[thread[u].victim]
      BY <1>0, <1>a, <1>b, <1>10, <2>1 DEF Leave, TypeOK, DropsSelf, At
    <2>3. \A p \in Project, u \in Session \ {t} : barrier'[p] = u => barrier[p] = u
      BY <1>0, <1>10, <2>1 DEF Leave, TypeOK, Unlock
    <2>4. \A p \in Project : barrier'[p] = t =>
           \/ Holding(t)' /\ thread'[t].at = p
           \/ At(t, "dropped")' /\ attached'[thread'[t].victim] = p
      BY <1>0, <1>c, <1>10, <2>1 DEF Leave, TypeOK, Holding, DropsOther, DropsSelf, At, Unlock
    <2>5. \A s \in Session \ {t} : selection'[s] = selection[s]
      BY <1>0, <1>10, <2>1 DEF Leave, TypeOK
    <2>6. selection'[t] # Nobody =>
           selection'[t] = t /\ Holding(t)' /\ ~At(t, "select")'
      BY <1>0, <1>d, <1>10, <2>1 DEF Leave, TypeOK, Holding, DropsOther, At
    <2> QED
      BY <2>1, <2>2, <2>3, <2>4, <2>5, <2>6, OwnersKept DEF OwnerOK
  <1>11. CASE DropEnter(t)
    <2>1. /\ thread'[t].pc = "dropped" /\ thread'[t].at = thread[t].at
          /\ thread'[t].victim = thread[t].victim
          /\ \A u \in Session \ {t} : thread'[u] = thread[u]
      BY <1>0, <1>11 DEF DropEnter, Goto, TypeOK, Threads
    <2>2. \A u \in Session \ {t} : At(u, "dropped") =>
           attached'[thread[u].victim] = attached[thread[u].victim]
      BY <1>0, <1>a, <1>b, <1>11, <2>1 DEF DropEnter, TypeOK, DropsSelf, At
    <2>3. \A p \in Project, u \in Session \ {t} : barrier'[p] = u => barrier[p] = u
      BY <1>0, <1>11, <2>1 DEF DropEnter, TypeOK, Unlock
    <2>4. \A p \in Project : barrier'[p] = t =>
           \/ Holding(t)' /\ thread'[t].at = p
           \/ At(t, "dropped")' /\ attached'[thread'[t].victim] = p
      <3>1. CASE attached[thread[t].victim] = Nobody
        <4>1. UNCHANGED barrier /\ UNCHANGED attached /\ At(t, "drop")
          BY <1>11, <3>1 DEF DropEnter
        <4> QED
          BY <1>c, <2>1, <4>1 DEF Holding, DropsOther, At
      <3>2. CASE attached[thread[t].victim] # Nobody
        <4>1. barrier' = [barrier EXCEPT ![attached[thread[t].victim]] = t]
              /\ UNCHANGED attached /\ At(t, "drop")
          BY <1>11, <3>2 DEF DropEnter
        <4>2. \A p \in Project : barrier'[p] = t =>
                 p = attached[thread[t].victim] \/ barrier[p] = t
          BY <1>0, <4>1 DEF TypeOK
        <4> QED
          BY <1>c, <2>1, <4>1, <4>2 DEF Holding, DropsOther, At
      <3> QED
        BY <3>1, <3>2
    <2>5. \A s \in Session \ {t} : selection'[s] = selection[s]
      BY <1>0, <1>11, <2>1 DEF DropEnter, TypeOK
    <2>6. selection'[t] # Nobody =>
           selection'[t] = t /\ Holding(t)' /\ ~At(t, "select")'
      BY <1>0, <1>d, <1>11, <2>1 DEF DropEnter, TypeOK, Holding, DropsOther, At
    <2> QED
      BY <2>1, <2>2, <2>3, <2>4, <2>5, <2>6, OwnersKept DEF OwnerOK
  <1>12. CASE DropRelease(t)
    <2>1. /\ thread'[t].pc = IF thread[t].victim = t THEN "idle" ELSE "visit"
          /\ thread'[t].at = thread[t].at
          /\ \A u \in Session \ {t} : thread'[u] = thread[u]
      BY <1>0, <1>12 DEF DropRelease, TypeOK, Threads
    <2>2. \A u \in Session \ {t} : At(u, "dropped") =>
           attached'[thread[u].victim] = attached[thread[u].victim]
      <3> SUFFICES ASSUME NEW u \in Session \ {t}, At(u, "dropped")
                   PROVE  attached'[thread[u].victim] = attached[thread[u].victim]
        OBVIOUS
      <3>1. /\ thread[u].victim \in Session /\ thread[t].victim \in Session
            /\ attached' = [attached EXCEPT ![thread[t].victim] = Nobody]
        BY <1>b, <1>12 DEF DropRelease
      <3>2. CASE thread[u].victim # thread[t].victim
        BY <1>0, <3>1, <3>2 DEF TypeOK
      <3>3. CASE thread[u].victim = thread[t].victim
        <4>1. DropOf(u) /\ DropOf(t) /\ At(t, "dropped")
          BY <1>12 DEF IInv, DropOK, DropOf, DropRelease
        <4>2. attached[thread[u].victim] = Nobody
          BY <3>3, <4>1 DEF DropOf
        <4> QED
          BY <1>0, <3>1, <3>3, <4>2 DEF TypeOK
      <3> QED
        BY <3>2, <3>3
    <2>3. \A p \in Project, u \in Session \ {t} : barrier'[p] = u => barrier[p] = u
      BY <1>0, <1>12, <2>1 DEF DropRelease, TypeOK, Unlock
    <2>4. \A p \in Project : barrier'[p] = t =>
           \/ Holding(t)' /\ thread'[t].at = p
           \/ At(t, "dropped")' /\ attached'[thread'[t].victim] = p
      BY <1>0, <1>c, <1>12, <2>1 DEF DropRelease, TypeOK, Holding, DropsOther, DropsSelf, At, Unlock
    <2>5. \A s \in Session \ {t} : selection'[s] = selection[s]
      BY <1>0, <1>12, <2>1 DEF DropRelease, TypeOK
    <2>6. selection'[t] # Nobody =>
           selection'[t] = t /\ Holding(t)' /\ ~At(t, "select")'
      BY <1>0, <1>d, <1>12, <2>1 DEF DropRelease, TypeOK, Holding, DropsOther, At
    <2> QED
      BY <2>1, <2>2, <2>3, <2>4, <2>5, <2>6, OwnersKept DEF OwnerOK
  <1>13. CASE VisitSelf(t)
    <2>1. /\ thread'[t].pc = thread[t].pc /\ thread'[t].at = thread[t].at
          /\ \A u \in Session \ {t} : thread'[u] = thread[u]
      BY <1>0, <1>13 DEF VisitSelf, TypeOK, Threads
    <2>2. \A u \in Session \ {t} : At(u, "dropped") =>
           attached'[thread[u].victim] = attached[thread[u].victim]
      BY <1>0, <1>a, <1>b, <1>13, <2>1 DEF VisitSelf, TypeOK, DropsSelf, At
    <2>3. \A p \in Project, u \in Session \ {t} : barrier'[p] = u => barrier[p] = u
      BY <1>0, <1>13, <2>1 DEF VisitSelf, TypeOK, Unlock
    <2>4. \A p \in Project : barrier'[p] = t =>
           \/ Holding(t)' /\ thread'[t].at = p
           \/ At(t, "dropped")' /\ attached'[thread'[t].victim] = p
      BY <1>0, <1>c, <1>13, <2>1 DEF VisitSelf, TypeOK, Holding, DropsOther, DropsSelf, At, Unlock
    <2>5. \A s \in Session \ {t} : selection'[s] = selection[s]
      BY <1>0, <1>13, <2>1 DEF VisitSelf, TypeOK
    <2>6. selection'[t] # Nobody =>
           selection'[t] = t /\ Holding(t)' /\ ~At(t, "select")'
      BY <1>0, <1>d, <1>13, <2>1 DEF VisitSelf, TypeOK, Holding, DropsOther, At
    <2> QED
      BY <2>1, <2>2, <2>3, <2>4, <2>5, <2>6, OwnersKept DEF OwnerOK
  <1>14. CASE Visited(t)
    <2>1. /\ thread'[t].pc = "finish" /\ thread'[t].at = thread[t].at
          /\ \A u \in Session \ {t} : thread'[u] = thread[u]
      BY <1>0, <1>14 DEF Visited, Goto, TypeOK, Threads
    <2>2. \A u \in Session \ {t} : At(u, "dropped") =>
           attached'[thread[u].victim] = attached[thread[u].victim]
      BY <1>0, <1>a, <1>b, <1>14, <2>1 DEF Visited, TypeOK, DropsSelf, At
    <2>3. \A p \in Project, u \in Session \ {t} : barrier'[p] = u => barrier[p] = u
      BY <1>0, <1>14, <2>1 DEF Visited, TypeOK, Unlock
    <2>4. \A p \in Project : barrier'[p] = t =>
           \/ Holding(t)' /\ thread'[t].at = p
           \/ At(t, "dropped")' /\ attached'[thread'[t].victim] = p
      BY <1>0, <1>c, <1>14, <2>1 DEF Visited, TypeOK, Holding, DropsOther, DropsSelf, At, Unlock
    <2>5. \A s \in Session \ {t} : selection'[s] = selection[s]
      BY <1>0, <1>14, <2>1 DEF Visited, TypeOK
    <2>6. selection'[t] # Nobody =>
           selection'[t] = t /\ Holding(t)' /\ ~At(t, "select")'
      BY <1>0, <1>d, <1>14, <2>1 DEF Visited, TypeOK, Holding, DropsOther, At
    <2> QED
      BY <2>1, <2>2, <2>3, <2>4, <2>5, <2>6, OwnersKept DEF OwnerOK
  <1>15. CASE End(t)
    <2>1. LetsGo(t, t, t, "idle", <<>>)
      <3>1. "idle" \in Places /\ <<>> \in Seq(Session)
        BY DEF Places
      <3> QED
        BY <1>0, <1>15, <3>1, LetGoFacts DEF End
    <2>2. thread'[t].pc \in {"idle", "drop"} /\ (thread'[t].pc = "drop" => thread'[t].victim = t)
      BY <2>1 DEF LetsGo
    <2>3. \A u \in Session \ {t} : thread'[u] = thread[u]
      BY <2>1 DEF LetsGo
    <2>4. UNCHANGED <<barrier, selection, attached>>
      BY <1>15 DEF End
    <2>5. \A u \in Session \ {t} : At(u, "dropped") =>
           attached'[thread[u].victim] = attached[thread[u].victim]
      BY <1>0, <1>15, <2>2, <2>3, <2>4 DEF End, TypeOK, DropsSelf, At
    <2>6. \A p \in Project, u \in Session \ {t} : barrier'[p] = u => barrier[p] = u
      BY <1>0, <1>15, <2>2, <2>3, <2>4 DEF End, TypeOK, Unlock
    <2>7. \A p \in Project : barrier'[p] = t =>
           \/ Holding(t)' /\ thread'[t].at = p
           \/ At(t, "dropped")' /\ attached'[thread'[t].victim] = p
      BY <1>0, <1>c, <1>15, <2>2, <2>3, <2>4 DEF End, TypeOK, Holding, DropsOther, DropsSelf, At, Unlock
    <2>8. \A s \in Session \ {t} : selection'[s] = selection[s]
      BY <1>0, <1>15, <2>2, <2>3, <2>4 DEF End, TypeOK
    <2>9. selection'[t] # Nobody =>
           selection'[t] = t /\ Holding(t)' /\ ~At(t, "select")'
      BY <1>0, <1>d, <1>15, <2>2, <2>3, <2>4 DEF End, TypeOK, Holding, DropsOther, At
    <2> QED
      BY <2>3, <2>5, <2>6, <2>7, <2>8, <2>9, OwnersKept DEF OwnerOK
  <1>16. CASE Close(t)
    <2>1. LetsGo(t, t, Handler, thread[t].pc, Todo(t))
      <3>1. thread[t].pc \in Places /\ Todo(t) \in Seq(Session)
        BY <1>0 DEF Threads, Todo
      <3> QED
        BY <1>0, <1>16, <3>1, LetGoFacts DEF Close
    <2>2. refs[t] = {Handler} => At(t, "idle")
      BY <1>16 DEF Close, IInv, RefsOK, DropOK, DropOf, DropOf, DropsSelf, At
    <2>3. \A u \in Session \ {t} : thread'[u] = thread[u]
      BY <2>1 DEF LetsGo
    <2>4. UNCHANGED <<barrier, selection, attached>>
      BY <1>16 DEF Close
    <2>5. CASE refs[t] = {Handler}
      <3>1. thread'[t].pc = "drop" /\ thread'[t].victim = t
        BY <2>1, <2>5 DEF LetsGo
      <3>2. \A u \in Session \ {t} : At(u, "dropped") =>
             attached'[thread[u].victim] = attached[thread[u].victim]
        BY <1>0, <2>2, <2>3, <2>4, <2>5, <3>1 DEF TypeOK, DropsSelf, At
      <3>3. \A p \in Project, u \in Session \ {t} : barrier'[p] = u => barrier[p] = u
        BY <1>0, <2>2, <2>3, <2>4, <2>5, <3>1 DEF TypeOK, Unlock
      <3>4. \A p \in Project : barrier'[p] = t =>
             \/ Holding(t)' /\ thread'[t].at = p
             \/ At(t, "dropped")' /\ attached'[thread'[t].victim] = p
        BY <1>0, <1>c, <2>2, <2>3, <2>4, <2>5, <3>1 DEF TypeOK, Holding, DropsOther, DropsSelf, At, Unlock
      <3>5. \A s \in Session \ {t} : selection'[s] = selection[s]
        BY <1>0, <2>2, <2>3, <2>4, <2>5, <3>1 DEF TypeOK
      <3>6. selection'[t] # Nobody =>
             selection'[t] = t /\ Holding(t)' /\ ~At(t, "select")'
        BY <1>0, <1>d, <2>2, <2>3, <2>4, <2>5, <3>1 DEF TypeOK, Holding, DropsOther, At
      <3> QED
        BY <2>3, <3>2, <3>3, <3>4, <3>5, <3>6, OwnersKept DEF OwnerOK
    <2>6. CASE refs[t] # {Handler}
      <3>1. \A u \in Session : /\ thread'[u].pc = thread[u].pc /\ thread'[u].at = thread[u].at
                               /\ thread'[u].victim = thread[u].victim
        BY <2>1, <2>6 DEF LetsGo
      <3>2. \A u \in Session \ {t} : At(u, "dropped") =>
             attached'[thread[u].victim] = attached[thread[u].victim]
        BY <1>0, <2>4, <3>1 DEF TypeOK, DropsSelf, At
      <3>3. \A p \in Project, u \in Session \ {t} : barrier'[p] = u => barrier[p] = u
        BY <1>0, <2>4, <3>1 DEF TypeOK, Unlock
      <3>4. \A p \in Project : barrier'[p] = t =>
             \/ Holding(t)' /\ thread'[t].at = p
             \/ At(t, "dropped")' /\ attached'[thread'[t].victim] = p
        BY <1>0, <1>c, <2>4, <3>1 DEF TypeOK, Holding, DropsOther, DropsSelf, At, Unlock
      <3>5. \A s \in Session \ {t} : selection'[s] = selection[s]
        BY <1>0, <2>4, <3>1 DEF TypeOK
      <3>6. selection'[t] # Nobody =>
             selection'[t] = t /\ Holding(t)' /\ ~At(t, "select")'
        BY <1>0, <1>d, <2>4, <3>1 DEF TypeOK, Holding, DropsOther, At
      <3> QED
        BY <2>3, <3>2, <3>3, <3>4, <3>5, <3>6, OwnersKept DEF OwnerOK
    <2> QED
      BY <2>5, <2>6
  <1>17. CASE Visit(t)
    <2> DEFINE x == Head(thread[t].todo)
               rest == Tail(thread[t].todo)
    <2>1. x \in Session /\ rest \in Seq(Session)
      <3>1. thread[t].todo \in Seq(Session) /\ thread[t].todo # <<>>
        BY <1>0, <1>17 DEF Visit, Todo, Threads
      <3> QED
        BY <3>1, TailOf
    <2>2. LetGo(t, x, t, "visit", rest) /\ At(t, "visit") /\ x # t
          /\ UNCHANGED <<barrier, selection, attached>>
      BY <1>17 DEF Visit, Todo
    <2> HIDE DEF x, rest
    <2>3. LetsGo(t, x, t, "visit", rest)
      <3>1. "visit" \in Places
        BY DEF Places
      <3> QED
        BY <1>0, <2>1, <2>2, <3>1, LetGoFacts
    <2>4. /\ \A u \in Session \ {t} : thread'[u] = thread[u]
          /\ thread'[t].at = thread[t].at
          /\ \/ thread'[t].pc = "visit"
             \/ thread'[t].pc = "drop" /\ thread'[t].victim # t
      BY <2>2, <2>3 DEF LetsGo
    <2>5. \A u \in Session \ {t} : At(u, "dropped") =>
           attached'[thread[u].victim] = attached[thread[u].victim]
      BY <1>0, <2>2, <2>4 DEF TypeOK, DropsSelf, At
    <2>6. \A p \in Project, u \in Session \ {t} : barrier'[p] = u => barrier[p] = u
      BY <1>0, <2>2, <2>4 DEF TypeOK, Unlock
    <2>7. \A p \in Project : barrier'[p] = t =>
           \/ Holding(t)' /\ thread'[t].at = p
           \/ At(t, "dropped")' /\ attached'[thread'[t].victim] = p
      BY <1>0, <1>c, <2>2, <2>4 DEF TypeOK, Holding, DropsOther, DropsSelf, At, Unlock
    <2>8. \A s \in Session \ {t} : selection'[s] = selection[s]
      BY <1>0, <2>2, <2>4 DEF TypeOK
    <2>9. selection'[t] # Nobody =>
           selection'[t] = t /\ Holding(t)' /\ ~At(t, "select")'
      BY <1>0, <1>d, <2>2, <2>4 DEF TypeOK, Holding, DropsOther, At
    <2> QED
      BY <2>4, <2>5, <2>6, <2>7, <2>8, <2>9, OwnersKept DEF OwnerOK
  <1>18. CASE Upgrade(t)
    <2>1. /\ thread'[t].pc = "visit" /\ thread'[t].at = thread[t].at
          /\ \A u \in Session \ {t} : thread'[u] = thread[u]
      BY <1>0, <1>18 DEF Upgrade, TypeOK, Threads
    <2>2. \A u \in Session \ {t} : At(u, "dropped") =>
           attached'[thread[u].victim] = attached[thread[u].victim]
      BY <1>0, <1>18, <2>1 DEF Upgrade, TypeOK, DropsSelf, At
    <2>3. \A p \in Project, u \in Session \ {t} : barrier'[p] = u => barrier[p] = u
      BY <1>0, <1>18, <2>1 DEF Upgrade, TypeOK, Unlock
    <2>4. \A p \in Project : barrier'[p] = t =>
           \/ Holding(t)' /\ thread'[t].at = p
           \/ At(t, "dropped")' /\ attached'[thread'[t].victim] = p
      BY <1>0, <1>c, <1>18, <2>1 DEF Upgrade, TypeOK, Holding, DropsOther, DropsSelf, At, Unlock
    <2>5. \A s \in Session \ {t} : selection'[s] = selection[s]
      BY <1>0, <1>18, <2>1 DEF Upgrade, TypeOK
    <2>6. selection'[t] # Nobody =>
           selection'[t] = t /\ Holding(t)' /\ ~At(t, "select")'
      BY <1>0, <1>d, <1>18, <2>1 DEF Upgrade, TypeOK, Holding, DropsOther, At
    <2> QED
      BY <2>1, <2>2, <2>3, <2>4, <2>5, <2>6, OwnersKept DEF OwnerOK
  <1>19. CASE Connect(t)
    BY <1>19 DEF Connect, OwnerOK, BarrierOwned, SelectionOwned, Holding, DropsOther, At
  <1> QED
    BY <1>1, <1>2, <1>3, <1>4, <1>5, <1>6, <1>7, <1>8, <1>9, <1>10, <1>11,
       <1>12, <1>13, <1>14, <1>15, <1>16, <1>17, <1>18, <1>19
       DEF Step

\* A thread that others wait for, and that waits itself, is inside the loop: it
\* has the barrier of its call.
LEMMA AwaitedInLoop ==
    ASSUME IInv, OwnerOK, NEW t \in Session, NEW u \in Session,
           Awaited(t) = u, Awaited(u) # Nobody
    PROVE  /\ WaitsInLoop(u)
           /\ thread[u].at \in Project /\ barrier[thread[u].at] = u
  <1>0. TypeOK
    BY DEF IInv
  <1>1. Holding(u) \/ At(u, "dropped")
    <2>1. CASE At(t, "enter")
      <3>1. thread[t].at \in Project /\ barrier[thread[t].at] = u
        BY <2>1 DEF IInv, BarrierOK, Awaited
      <3> QED
        BY <3>1 DEF OwnerOK, BarrierOwned
    <2>2. CASE At(t, "select")
      <3>1. selection[t] = u
        BY <2>2 DEF Awaited, At
      <3> QED
        BY <3>1 DEF OwnerOK, SelectionOwned
    <2>3. CASE At(t, "visit")
      <3> DEFINE x == Head(Todo(t))
      <3>1. Todo(t) # <<>> /\ selection[x] = u
        BY <2>3 DEF Awaited, At
      <3>2. x \in Session
        <4>1. Todo(t) \in Seq(Session)
          BY <1>0 DEF TypeOK, Threads, Todo
        <4> QED
          BY <3>1, <4>1, TailOf
      <3> HIDE DEF x
      <3> QED
        BY <3>1, <3>2 DEF OwnerOK, SelectionOwned
    <2>4. CASE At(t, "drop")
      <3>1. thread[t].victim \in Session
        BY <2>4 DEF IInv, DropOK, DropOf, At
      <3>2. /\ attached[thread[t].victim] # Nobody
            /\ barrier[attached[thread[t].victim]] = u
        BY <2>4 DEF Awaited, At
      <3>3. attached[thread[t].victim] \in Project
        BY <1>0, <3>1, <3>2 DEF TypeOK
      <3> QED
        BY <3>2, <3>3 DEF OwnerOK, BarrierOwned
    <2> QED
      BY <2>1, <2>2, <2>3, <2>4 DEF Awaited
  <1>2. ~At(u, "select")
    <2> SUFFICES ASSUME At(u, "select") PROVE FALSE
      OBVIOUS
    <2>1. selection[u] # Nobody
      BY DEF Awaited, At
    <2> QED
      BY <2>1 DEF OwnerOK, SelectionOwned
  <1>3. WaitsInLoop(u) /\ Holding(u)
    BY <1>1, <1>2 DEF WaitsInLoop, DropsInLoop, Awaited, Holding, DropsOther, At
  <1> QED
    BY <1>3 DEF IInv, BarrierOK

\* Any circle therefore has two neighbours inside the loop, or one that waits for
\* itself there.
LEMMA CircleInLoop ==
    ASSUME IInv, OwnerOK, ~DropBlocksItself, ~LoopsBlockEachOther
    PROVE  NoCircularWait
  <1> SUFFICES ASSUME NEW stuck \in SUBSET Session, NEW t0 \in stuck,
                      \A t \in stuck : Awaited(t) \in stuck
               PROVE  FALSE
    <2>1. ASSUME ~NoCircularWait
          PROVE  \E stuck \in SUBSET Session : /\ \E t0 : t0 \in stuck
                                               /\ \A t \in stuck : Awaited(t) \in stuck
      BY <2>1 DEF NoCircularWait
    <2> QED
      BY <2>1
  <1> DEFINE t == Awaited(t0)
             u == Awaited(t)
             w == Awaited(u)
  <1>1. t \in Session /\ u \in Session /\ w \in Session /\ t0 \in Session
    OBVIOUS
  <1> HIDE DEF t, u, w
  <1>2. /\ WaitsInLoop(t)
        /\ thread[t].at \in Project /\ barrier[thread[t].at] = t
    BY <1>1, AwaitedInLoop DEF t, u
  <1>3. /\ WaitsInLoop(u)
        /\ thread[u].at \in Project /\ barrier[thread[u].at] = u
    BY <1>1, AwaitedInLoop DEF u, w
  <1>4. CASE t # u
    BY <1>1, <1>2, <1>3, <1>4 DEF LoopsBlockEachOther, u
  <1>5. CASE t = u
    <2>1. Awaited(t) = t
      BY <1>5 DEF u
    <2>2. At(t, "visit")
      BY <1>1, <1>2, <2>1 DEF DropBlocksItself, WaitsInLoop
    <2> DEFINE x == Head(Todo(t))
    <2>3. Todo(t) # <<>> /\ x # t /\ selection[x] = t
      BY <1>1, <2>1, <2>2 DEF Awaited, At
    <2>4. x \in Session
      <3>1. Todo(t) \in Seq(Session)
        BY <1>1 DEF IInv, TypeOK, Threads, Todo
      <3> QED
        BY <2>3, <3>1, TailOf
    <2> HIDE DEF x
    <2> QED
      BY <1>1, <2>3, <2>4 DEF OwnerOK, SelectionOwned
  <1> QED
    BY <1>4, <1>5

\* Whichever sessions replace PET, swap projects and disconnect, threads wait in
\* a circle only inside the loop of invalidate_project_states(): a Drop that runs
\* there waits for the barrier of its own thread, or two loops in two projects
\* wait for each other.  No other path of dispatch(), start() and
\* SessionCell::drop is ever part of a deadlock of its own.
THEOREM CirclesNeedTheLoop ==
    Spec => [](~DropBlocksItself /\ ~LoopsBlockEachOther => NoCircularWait)
  <1>1. Init => OwnerOK
    BY DEF Init, OwnerOK, BarrierOwned, SelectionOwned, DropsOther, At, Idle
  <1>2. IInv /\ OwnerOK /\ [Next]_vars => OwnerOK'
    <2> SUFFICES ASSUME IInv, OwnerOK, [Next]_vars PROVE OwnerOK'
      OBVIOUS
    <2>1. CASE UNCHANGED vars
      BY <2>1 DEF vars, OwnerOK, BarrierOwned, SelectionOwned, Holding, DropsOther, At
    <2>2. CASE Next
      <3>1. PICK s \in Session : \/ Step(s) \/ Connect(s) \/ Close(s)
                                 \/ \E tool \in {"op", "start"}, dest \in Project \cup {Nobody} : Begin(s, tool, dest)
        BY <2>2 DEF Next
      <3> QED
        BY <3>1, OwnerStep
    <2> QED
      BY <2>1, <2>2
  <1>3. IInv /\ OwnerOK => (~DropBlocksItself /\ ~LoopsBlockEachOther => NoCircularWait)
    BY CircleInLoop
  <1> QED
    BY <1>1, <1>2, <1>3, Reachable, PTL DEF Spec

=============================================================================
