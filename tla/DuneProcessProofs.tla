------------------------- MODULE DuneProcessProofs --------------------------
(***************************************************************************)
(* The gate of run_dune() and its process groups keep their promises for   *)
(* any number of calls, spellings of a path and crashes of the server.     *)
(***************************************************************************)
EXTENDS DuneProcess, TLAPS

USE NoneAssumption

-----------------------------------------------------------------------------
(* The inductive invariant, in named parts.                                *)

Past == {"spawn", "wait", "polled", "reaped", "join"}     \* past the gate

\* The locals of one call against its child d and the descendants k of its
\* attempts: when it owns a gate, when it has a child, what may still run in a
\* process group, and where its flags come from.
Local(r, d, k) ==
  /\ r.real => r.cwd \in Path
  /\ r.pc \in {"gate", "lock"} => r.real
  /\ r.gate # None <=> r.real /\ r.pc \in Past \cup {"lock"}
  /\ d # "none" <=> r.pc \in {"wait", "polled"}
  /\ k # {} => r.pc = "crashed" \/ (r.pc \in {"wait", "polled", "reaped"} /\ k \subseteq {r.attempt})
  /\ r.pc = "crashed" => ~r.real
  /\ r.cancelled => r.stopped
  /\ r.timed_out => r.late
  /\ r.pc \in {"reaped", "join"} => r.status \in Statuses
  /\ r.answer # None => r.pc = "done"
  /\ r.pc \in {"idle", "gate", "lock"} => r.attempt = 0
  /\ r.pc = "spawn" => r.attempt \in {0, 1}
  /\ r.pc \in Past \ {"spawn"} => r.attempt \in {1, 2}

LocalsOK == \A c \in Call : Local(call[c], dune[c], compilers[c])

\* A gate somebody owns is the one the registry gives to whoever asks next.
RegistryOK ==
  \A c \in Call : call[c].gate # None => registry[Key(call[c].cwd)] = call[c].gate

\* One owner at most is past a gate.
MutexOK ==
  \A c, d \in Call :
    c # d /\ Inside(c) /\ Inside(d) /\ call[c].gate = call[d].gate => call[c].gate = None

IInv == TypeOK /\ LocalsOK /\ RegistryOK /\ MutexOK

\* The locals a call starts and ends with.
LEMMA IdleType == Idle \in CallStates
  BY DEF Idle, CallStates, Places

\* At the start nothing runs and nobody owns a gate.
LEMMA InitIInv == Init => IInv
  <1> SUFFICES ASSUME Init PROVE IInv
    OBVIOUS
  <1>1. TypeOK
    BY IdleType, MaxCrashesAssumption DEF Init, TypeOK
  <1>2. LocalsOK
    BY DEF Init, LocalsOK, Local, Idle, Past
  <1>3. RegistryOK
    BY DEF Init, RegistryOK, Idle
  <1>4. MutexOK
    BY DEF Init, MutexOK, Idle
  <1> QED
    BY <1>1, <1>2, <1>3, <1>4 DEF IInv

-----------------------------------------------------------------------------
(* Steps of one call.                                                      *)

\* What a step of one call has to respect: its own locals fit together, it
\* takes no gate other than the one it owns, and it enters past a gate only if
\* no other owner is there.
LEMMA LocalStep ==
  ASSUME IInv, NEW c \in Call, NEW r \in CallStates,
         call' = [call EXCEPT ![c] = r],
         dune' \in [Call -> {"none", "running"} \cup Statuses],
         compilers' \in [Call -> SUBSET (1..2)],
         \A d \in Call \ {c} : dune'[d] = dune[d] /\ compilers'[d] = compilers[d],
         registry' = registry, crashes' = crashes,
         Local(r, dune'[c], compilers'[c]),
         r.gate = None \/ (r.gate = call[c].gate /\ r.cwd = call[c].cwd),
         r.pc \in Past /\ r.gate # None =>
           \A d \in Owners(r.gate) \ {c} : ~Inside(d)
  PROVE  IInv'
  <1>0. /\ call \in [Call -> CallStates]
        /\ call'[c] = r
        /\ \A d \in Call \ {c} : call'[d] = call[d]
    BY DEF IInv, TypeOK
  <1>1. TypeOK'
    BY DEF IInv, TypeOK
  <1>2. LocalsOK'
    BY <1>0 DEF IInv, LocalsOK
  <1>3. RegistryOK'
    BY <1>0 DEF IInv, RegistryOK, Key
  <1>4. MutexOK'
    BY <1>0 DEF IInv, MutexOK, Owners, Inside, Past
  <1> QED
    BY <1>1, <1>2, <1>3, <1>4 DEF IInv

\* A call past its gate is the only owner there.
LEMMA AloneInside ==
  ASSUME IInv, NEW c \in Call, Inside(c), call[c].gate # None
  PROVE  \A d \in Owners(call[c].gate) \ {c} : ~Inside(d)
  BY DEF IInv, MutexOK, Owners

\* A return leaves no gate and no flags.
LEMMA Returned ==
  ASSUME NEW answer \in Answers
  PROVE  LET r == [Idle EXCEPT !.pc = "done", !.answer = answer]
         IN  r \in CallStates /\ Local(r, "none", {}) /\ r.gate = None
  BY IdleType DEF Idle, CallStates, Places, Local, Past

\* A return with nothing left to run keeps the invariant.
LEMMA ReturnIInv ==
  ASSUME IInv, NEW c \in Call, NEW answer \in Answers, Return(c, answer),
         dune' \in [Call -> {"none", "running"} \cup Statuses],
         compilers' \in [Call -> SUBSET (1..2)],
         \A d \in Call \ {c} : dune'[d] = dune[d] /\ compilers'[d] = compilers[d],
         registry' = registry, crashes' = crashes,
         dune'[c] = "none", compilers'[c] = {}
  PROVE  IInv'
  <1> DEFINE r == [Idle EXCEPT !.pc = "done", !.answer = answer]
  <1>1. call' = [call EXCEPT ![c] = r]
    BY DEF Return, Set
  <1>2. r \in CallStates /\ Local(r, dune'[c], compilers'[c]) /\ r.gate = None
    BY Returned
  <1> HIDE DEF r
  <1> QED
    BY <1>1, <1>2, LocalStep

\* A second attempt starts behind the same gate with nothing left to run.
LEMMA RetryIInv ==
  ASSUME IInv, NEW c \in Call, Retry(c), Inside(c), call[c].attempt = 1,
         dune' \in [Call -> {"none", "running"} \cup Statuses],
         compilers' \in [Call -> SUBSET (1..2)],
         \A d \in Call \ {c} : dune'[d] = dune[d] /\ compilers'[d] = compilers[d],
         registry' = registry, crashes' = crashes,
         dune'[c] = "none", compilers'[c] = {}
  PROVE  IInv'
  <1> DEFINE r == [call[c] EXCEPT !.pc = "spawn", !.status = None,
                                  !.timed_out = FALSE, !.cancelled = FALSE]
  <1>0. call[c] \in CallStates /\ Local(call[c], dune[c], compilers[c])
    BY DEF IInv, TypeOK, LocalsOK
  <1>1. call' = [call EXCEPT ![c] = r]
    BY DEF Retry, Set
  <1>2. r \in CallStates
    BY <1>0 DEF CallStates, Places
  <1>3. /\ r.pc = "spawn" /\ r.status = None /\ r.timed_out = FALSE /\ r.cancelled = FALSE
        /\ r.real = call[c].real /\ r.cwd = call[c].cwd /\ r.gate = call[c].gate
        /\ r.attempt = 1 /\ r.answer = call[c].answer
    BY <1>0 DEF CallStates
  <1>4. Local(r, dune'[c], compilers'[c])
    BY <1>0, <1>3 DEF Local, Past, Inside
  <1>5. r.gate # None => \A d \in Owners(r.gate) \ {c} : ~Inside(d)
    BY <1>3, AloneInside
  <1> HIDE DEF r
  <1> QED
    BY <1>1, <1>2, <1>3, <1>4, <1>5, LocalStep

\* The locals of a call that has just arrived.
LEMMA Arrived ==
  ASSUME NEW p \in Path, NEW k \in [real : BOOLEAN, timed : BOOLEAN, scoped : BOOLEAN]
  PROVE  [Idle EXCEPT !.pc = IF k.real THEN "gate" ELSE "spawn",
                      !.cwd = IF k.real THEN p ELSE None, !.real = k.real,
                      !.timed = k.timed, !.scoped = k.scoped] \in CallStates
  BY IdleType DEF CallStates, Places

\* The locals of a call that has started an attempt.
LEMMA AttemptType ==
  ASSUME NEW r \in CallStates, NEW n \in 1..2
  PROVE  [r EXCEPT !.pc = "wait", !.attempt = n] \in CallStates
  <1>1. n \in 0..2
    OBVIOUS
  <1> QED
    BY <1>1 DEF CallStates, Places

\* A call arrives without a gate.
LEMMA ArriveIInv == ASSUME IInv, NEW c \in Call, Arrive(c) PROVE IInv'
  <1>1. PICK p \in Path, k \in Kind :
          call' = [call EXCEPT ![c] =
                     [Idle EXCEPT !.pc = IF k.real THEN "gate" ELSE "spawn",
                                  !.cwd = IF k.real THEN p ELSE None, !.real = k.real,
                                  !.timed = k.timed, !.scoped = k.scoped]]
    BY DEF Arrive, Set
  <1> DEFINE r == [Idle EXCEPT !.pc = IF k.real THEN "gate" ELSE "spawn",
                               !.cwd = IF k.real THEN p ELSE None, !.real = k.real,
                               !.timed = k.timed, !.scoped = k.scoped]
  <1>0. /\ call \in [Call -> CallStates] /\ call[c] \in CallStates
        /\ dune \in [Call -> {"none", "running"} \cup Statuses]
        /\ compilers \in [Call -> SUBSET (1..2)]
        /\ Local(call[c], dune[c], compilers[c])
    BY DEF IInv, TypeOK, LocalsOK
  <1>2. k \in [real : BOOLEAN, timed : BOOLEAN, scoped : BOOLEAN]
    BY KindAssumption
  <1>3. r \in CallStates
    BY <1>2, Arrived
  <1>4. dune[c] = "none" /\ compilers[c] = {}
    BY <1>0 DEF Arrive, Local
  <1>5. Local(r, dune[c], compilers[c])
    BY <1>2, <1>4 DEF Local, Idle, Past
  <1>6. r.gate = None
    BY DEF Idle
  <1>7. UNCHANGED <<dune, compilers, registry, crashes>>
    BY DEF Arrive
  <1> HIDE DEF r
  <1>8. call' = [call EXCEPT ![c] = r]
    BY <1>1 DEF r
  <1> QED
    BY <1>0, <1>3, <1>5, <1>6, <1>7, <1>8, LocalStep

\* A failing start leaves nothing behind.
LEMMA SpawnFailsIInv == ASSUME IInv, NEW c \in Call, SpawnFails(c) PROVE IInv'
  <1>0. /\ call \in [Call -> CallStates] /\ call[c] \in CallStates
        /\ dune \in [Call -> {"none", "running"} \cup Statuses]
        /\ compilers \in [Call -> SUBSET (1..2)]
        /\ Local(call[c], dune[c], compilers[c])
    BY DEF IInv, TypeOK, LocalsOK
  <1>1. dune[c] = "none" /\ compilers[c] = {}
    BY <1>0 DEF SpawnFails, Local
  <1>2. Return(c, "unavailable") /\ UNCHANGED <<dune, compilers, registry, crashes>>
    BY DEF SpawnFails
  <1>3. "unavailable" \in Answers
    BY DEF Answers
  <1> QED
    BY <1>0, <1>1, <1>2, <1>3, ReturnIInv

\* gate.lock() lets a call in when no other owner is inside.
LEMMA LockGateIInv == ASSUME IInv, NEW c \in Call, LockGate(c) PROVE IInv'
  <1> DEFINE r == [call[c] EXCEPT !.pc = "spawn"]
  <1>0. /\ call \in [Call -> CallStates] /\ call[c] \in CallStates
        /\ dune \in [Call -> {"none", "running"} \cup Statuses]
        /\ compilers \in [Call -> SUBSET (1..2)]
        /\ Local(call[c], dune[c], compilers[c])
    BY DEF IInv, TypeOK, LocalsOK
  <1>1. call' = [call EXCEPT ![c] = r]
    BY <1>0 DEF LockGate, Set
  <1>2. r \in CallStates
    BY <1>0 DEF CallStates, Places
  <1>3. /\ dune' \in [Call -> {"none", "running"} \cup Statuses]
        /\ compilers' \in [Call -> SUBSET (1..2)]
        /\ \A d \in Call \ {c} : dune'[d] = dune[d] /\ compilers'[d] = compilers[d]
        /\ registry' = registry /\ crashes' = crashes
    BY <1>0 DEF LockGate
  <1>4. Local(r, dune'[c], compilers'[c])
    BY <1>0 DEF LockGate, Local, CallStates, Past
  <1>5. r.gate = call[c].gate /\ r.cwd = call[c].cwd
    BY <1>0 DEF CallStates
  <1>6. \A d \in Owners(r.gate) \ {c} : ~Inside(d)
    BY <1>5 DEF LockGate
  <1> HIDE DEF r
  <1> QED
    BY <1>1, <1>2, <1>3, <1>4, <1>5, <1>6, LocalStep

\* An attempt starts its child.
LEMMA SpawnIInv == ASSUME IInv, NEW c \in Call, Spawn(c) PROVE IInv'
  <1> DEFINE r == [call[c] EXCEPT !.pc = "wait", !.attempt = call[c].attempt + 1]
  <1>0. /\ call \in [Call -> CallStates] /\ call[c] \in CallStates
        /\ dune \in [Call -> {"none", "running"} \cup Statuses]
        /\ compilers \in [Call -> SUBSET (1..2)]
        /\ Local(call[c], dune[c], compilers[c])
    BY DEF IInv, TypeOK, LocalsOK
  <1>1. call' = [call EXCEPT ![c] = r]
    BY <1>0 DEF Spawn, Set
  <1>a. call[c].attempt + 1 \in 1..2
    BY <1>0 DEF Spawn, Local
  <1>2. r \in CallStates
    BY <1>a, <1>0, AttemptType
  <1>3. /\ dune' \in [Call -> {"none", "running"} \cup Statuses]
        /\ compilers' \in [Call -> SUBSET (1..2)]
        /\ \A d \in Call \ {c} : dune'[d] = dune[d] /\ compilers'[d] = compilers[d]
        /\ registry' = registry /\ crashes' = crashes
    BY <1>0 DEF Spawn
  <1>4. Local(r, dune'[c], compilers'[c])
    BY <1>a, <1>0 DEF Spawn, Local, CallStates, Past
  <1>5. r.gate = call[c].gate /\ r.cwd = call[c].cwd
    BY <1>0 DEF CallStates
  <1>6. r.pc \in Past => Inside(c)
    BY <1>0 DEF Spawn, CallStates, Inside, Past
  <1>7. r.pc \in Past /\ r.gate # None => \A d \in Owners(r.gate) \ {c} : ~Inside(d)
    BY <1>5, <1>6, AloneInside
  <1> HIDE DEF r
  <1> QED
    BY <1>1, <1>2, <1>3, <1>4, <1>5, <1>7, LocalStep

\* Waiting collects the child.
LEMMA ReapIInv == ASSUME IInv, NEW c \in Call, Reap(c) PROVE IInv'
  <1> DEFINE r == [call[c] EXCEPT !.pc = "reaped", !.status = dune[c]]
  <1>0. /\ call \in [Call -> CallStates] /\ call[c] \in CallStates
        /\ dune \in [Call -> {"none", "running"} \cup Statuses]
        /\ compilers \in [Call -> SUBSET (1..2)]
        /\ Local(call[c], dune[c], compilers[c])
    BY DEF IInv, TypeOK, LocalsOK
  <1>1. call' = [call EXCEPT ![c] = r]
    BY <1>0 DEF Reap, Set
  <1>a. dune[c] \in Statuses
    BY <1>0 DEF Reap, Local
  <1>2. r \in CallStates
    BY <1>a, <1>0 DEF CallStates, Places
  <1>3. /\ dune' \in [Call -> {"none", "running"} \cup Statuses]
        /\ compilers' \in [Call -> SUBSET (1..2)]
        /\ \A d \in Call \ {c} : dune'[d] = dune[d] /\ compilers'[d] = compilers[d]
        /\ registry' = registry /\ crashes' = crashes
    BY <1>0 DEF Reap, Collect
  <1>4. Local(r, dune'[c], compilers'[c])
    BY <1>a, <1>0 DEF Reap, Collect, Local, CallStates, Past
  <1>5. r.gate = call[c].gate /\ r.cwd = call[c].cwd
    BY <1>0 DEF CallStates
  <1>6. r.pc \in Past => Inside(c)
    BY <1>0 DEF Reap, CallStates, Inside, Past
  <1>7. r.pc \in Past /\ r.gate # None => \A d \in Owners(r.gate) \ {c} : ~Inside(d)
    BY <1>5, <1>6, AloneInside
  <1> HIDE DEF r
  <1> QED
    BY <1>1, <1>2, <1>3, <1>4, <1>5, <1>7, LocalStep

\* A poll of a running child changes nothing.
LEMMA StillRunningIInv == ASSUME IInv, NEW c \in Call, StillRunning(c) PROVE IInv'
  <1> DEFINE r == [call[c] EXCEPT !.pc = "polled"]
  <1>0. /\ call \in [Call -> CallStates] /\ call[c] \in CallStates
        /\ dune \in [Call -> {"none", "running"} \cup Statuses]
        /\ compilers \in [Call -> SUBSET (1..2)]
        /\ Local(call[c], dune[c], compilers[c])
    BY DEF IInv, TypeOK, LocalsOK
  <1>1. call' = [call EXCEPT ![c] = r]
    BY <1>0 DEF StillRunning, Set
  <1>2. r \in CallStates
    BY <1>0 DEF CallStates, Places
  <1>3. /\ dune' \in [Call -> {"none", "running"} \cup Statuses]
        /\ compilers' \in [Call -> SUBSET (1..2)]
        /\ \A d \in Call \ {c} : dune'[d] = dune[d] /\ compilers'[d] = compilers[d]
        /\ registry' = registry /\ crashes' = crashes
    BY <1>0 DEF StillRunning
  <1>4. Local(r, dune'[c], compilers'[c])
    BY <1>0 DEF StillRunning, Local, CallStates, Past
  <1>5. r.gate = call[c].gate /\ r.cwd = call[c].cwd
    BY <1>0 DEF CallStates
  <1>6. r.pc \in Past => Inside(c)
    BY <1>0 DEF StillRunning, CallStates, Inside, Past
  <1>7. r.pc \in Past /\ r.gate # None => \A d \in Owners(r.gate) \ {c} : ~Inside(d)
    BY <1>5, <1>6, AloneInside
  <1> HIDE DEF r
  <1> QED
    BY <1>1, <1>2, <1>3, <1>4, <1>5, <1>7, LocalStep

\* A poll that finds no reason to stop polls again.
LEMMA PollAgainIInv == ASSUME IInv, NEW c \in Call, PollAgain(c) PROVE IInv'
  <1> DEFINE r == [call[c] EXCEPT !.pc = "wait"]
  <1>0. /\ call \in [Call -> CallStates] /\ call[c] \in CallStates
        /\ dune \in [Call -> {"none", "running"} \cup Statuses]
        /\ compilers \in [Call -> SUBSET (1..2)]
        /\ Local(call[c], dune[c], compilers[c])
    BY DEF IInv, TypeOK, LocalsOK
  <1>1. call' = [call EXCEPT ![c] = r]
    BY <1>0 DEF PollAgain, Set
  <1>2. r \in CallStates
    BY <1>0 DEF CallStates, Places
  <1>3. /\ dune' \in [Call -> {"none", "running"} \cup Statuses]
        /\ compilers' \in [Call -> SUBSET (1..2)]
        /\ \A d \in Call \ {c} : dune'[d] = dune[d] /\ compilers'[d] = compilers[d]
        /\ registry' = registry /\ crashes' = crashes
    BY <1>0 DEF PollAgain
  <1>4. Local(r, dune'[c], compilers'[c])
    BY <1>0 DEF PollAgain, Local, CallStates, Past
  <1>5. r.gate = call[c].gate /\ r.cwd = call[c].cwd
    BY <1>0 DEF CallStates
  <1>6. r.pc \in Past => Inside(c)
    BY <1>0 DEF PollAgain, CallStates, Inside, Past
  <1>7. r.pc \in Past /\ r.gate # None => \A d \in Owners(r.gate) \ {c} : ~Inside(d)
    BY <1>5, <1>6, AloneInside
  <1> HIDE DEF r
  <1> QED
    BY <1>1, <1>2, <1>3, <1>4, <1>5, <1>7, LocalStep

\* The sweep empties the process group.
LEMMA SweepIInv == ASSUME IInv, NEW c \in Call, Sweep(c) PROVE IInv'
  <1> DEFINE r == [call[c] EXCEPT !.pc = "join"]
  <1>0. /\ call \in [Call -> CallStates] /\ call[c] \in CallStates
        /\ dune \in [Call -> {"none", "running"} \cup Statuses]
        /\ compilers \in [Call -> SUBSET (1..2)]
        /\ Local(call[c], dune[c], compilers[c])
    BY DEF IInv, TypeOK, LocalsOK
  <1>1. call' = [call EXCEPT ![c] = r]
    BY <1>0 DEF Sweep, Set
  <1>2. r \in CallStates
    BY <1>0 DEF CallStates, Places
  <1>3. /\ dune' \in [Call -> {"none", "running"} \cup Statuses]
        /\ compilers' \in [Call -> SUBSET (1..2)]
        /\ \A d \in Call \ {c} : dune'[d] = dune[d] /\ compilers'[d] = compilers[d]
        /\ registry' = registry /\ crashes' = crashes
    BY <1>0 DEF Sweep, KillDescendants
  <1>4. Local(r, dune'[c], compilers'[c])
    BY <1>0 DEF Sweep, KillDescendants, Local, CallStates, Past
  <1>5. r.gate = call[c].gate /\ r.cwd = call[c].cwd
    BY <1>0 DEF CallStates
  <1>6. r.pc \in Past => Inside(c)
    BY <1>0 DEF Sweep, CallStates, Inside, Past
  <1>7. r.pc \in Past /\ r.gate # None => \A d \in Owners(r.gate) \ {c} : ~Inside(d)
    BY <1>5, <1>6, AloneInside
  <1> HIDE DEF r
  <1> QED
    BY <1>1, <1>2, <1>3, <1>4, <1>5, <1>7, LocalStep

\* Only a running child forks.
LEMMA ForkIInv == ASSUME IInv, NEW c \in Call, Fork(c) PROVE IInv'
  <1> DEFINE r == call[c]
  <1>0. /\ call \in [Call -> CallStates] /\ call[c] \in CallStates
        /\ dune \in [Call -> {"none", "running"} \cup Statuses]
        /\ compilers \in [Call -> SUBSET (1..2)]
        /\ Local(call[c], dune[c], compilers[c])
    BY DEF IInv, TypeOK, LocalsOK
  <1>1. call' = [call EXCEPT ![c] = r]
    BY <1>0 DEF Fork
  <1>a. call[c].attempt \in 1..2 /\ call[c].pc \in {"wait", "polled"}
    BY <1>0 DEF Fork, Local, Past
  <1>2. r \in CallStates
    BY <1>a, <1>0 DEF CallStates, Places
  <1>3. /\ dune' \in [Call -> {"none", "running"} \cup Statuses]
        /\ compilers' \in [Call -> SUBSET (1..2)]
        /\ \A d \in Call \ {c} : dune'[d] = dune[d] /\ compilers'[d] = compilers[d]
        /\ registry' = registry /\ crashes' = crashes
    BY <1>a, <1>0 DEF Fork
  <1>4. Local(r, dune'[c], compilers'[c])
    BY <1>a, <1>0 DEF Fork, Local, CallStates, Past, Inside
  <1>5. r.gate = call[c].gate /\ r.cwd = call[c].cwd
    BY <1>0 DEF CallStates
  <1>6. r.pc \in Past => Inside(c)
    BY <1>0 DEF Fork, CallStates, Inside, Past
  <1>7. r.pc \in Past /\ r.gate # None => \A d \in Owners(r.gate) \ {c} : ~Inside(d)
    BY <1>5, <1>6, AloneInside
  <1> HIDE DEF r
  <1> QED
    BY <1>1, <1>2, <1>3, <1>4, <1>5, <1>7, LocalStep

\* The child ends by itself.
LEMMA ExitIInv == ASSUME IInv, NEW c \in Call, Exit(c) PROVE IInv'
  <1> DEFINE r == call[c]
  <1>0. /\ call \in [Call -> CallStates] /\ call[c] \in CallStates
        /\ dune \in [Call -> {"none", "running"} \cup Statuses]
        /\ compilers \in [Call -> SUBSET (1..2)]
        /\ Local(call[c], dune[c], compilers[c])
    BY DEF IInv, TypeOK, LocalsOK
  <1>1. call' = [call EXCEPT ![c] = r]
    BY <1>0 DEF Exit
  <1>a. dune[c] # "none" /\ dune'[c] # "none"
    BY <1>0 DEF Exit, Statuses
  <1>2. r \in CallStates
    BY <1>0 DEF CallStates, Places
  <1>3. /\ dune' \in [Call -> {"none", "running"} \cup Statuses]
        /\ compilers' \in [Call -> SUBSET (1..2)]
        /\ \A d \in Call \ {c} : dune'[d] = dune[d] /\ compilers'[d] = compilers[d]
        /\ registry' = registry /\ crashes' = crashes
    BY <1>0 DEF Exit
  <1>4. Local(r, dune'[c], compilers'[c])
    BY <1>a, <1>0 DEF Exit, Local, CallStates, Past
  <1>5. r.gate = call[c].gate /\ r.cwd = call[c].cwd
    BY <1>0 DEF CallStates
  <1>6. r.pc \in Past => Inside(c)
    BY <1>0 DEF Exit, CallStates, Inside, Past
  <1>7. r.pc \in Past /\ r.gate # None => \A d \in Owners(r.gate) \ {c} : ~Inside(d)
    BY <1>5, <1>6, AloneInside
  <1> HIDE DEF r
  <1> QED
    BY <1>1, <1>2, <1>3, <1>4, <1>5, <1>7, LocalStep

\* A descendant ends by itself.
LEMMA CompilerExitsIInv == ASSUME IInv, NEW c \in Call, CompilerExits(c) PROVE IInv'
  <1> DEFINE r == call[c]
  <1>0. /\ call \in [Call -> CallStates] /\ call[c] \in CallStates
        /\ dune \in [Call -> {"none", "running"} \cup Statuses]
        /\ compilers \in [Call -> SUBSET (1..2)]
        /\ Local(call[c], dune[c], compilers[c])
    BY DEF IInv, TypeOK, LocalsOK
  <1>1. call' = [call EXCEPT ![c] = r]
    BY <1>0 DEF CompilerExits
  <1>2. r \in CallStates
    BY <1>0 DEF CallStates, Places
  <1>3. /\ dune' \in [Call -> {"none", "running"} \cup Statuses]
        /\ compilers' \in [Call -> SUBSET (1..2)]
        /\ \A d \in Call \ {c} : dune'[d] = dune[d] /\ compilers'[d] = compilers[d]
        /\ registry' = registry /\ crashes' = crashes
    BY <1>0 DEF CompilerExits
  <1>4. Local(r, dune'[c], compilers'[c])
    BY <1>0 DEF CompilerExits, Local, CallStates, Past
  <1>5. r.gate = call[c].gate /\ r.cwd = call[c].cwd
    BY <1>0 DEF CallStates
  <1>6. r.pc \in Past => Inside(c)
    BY <1>0 DEF CompilerExits, CallStates, Inside, Past
  <1>7. r.pc \in Past /\ r.gate # None => \A d \in Owners(r.gate) \ {c} : ~Inside(d)
    BY <1>5, <1>6, AloneInside
  <1> HIDE DEF r
  <1> QED
    BY <1>1, <1>2, <1>3, <1>4, <1>5, <1>7, LocalStep

\* A cancellation sets a flag.
LEMMA CancelIInv == ASSUME IInv, NEW c \in Call, Cancel(c) PROVE IInv'
  <1> DEFINE r == [call[c] EXCEPT !.stopped = TRUE]
  <1>0. /\ call \in [Call -> CallStates] /\ call[c] \in CallStates
        /\ dune \in [Call -> {"none", "running"} \cup Statuses]
        /\ compilers \in [Call -> SUBSET (1..2)]
        /\ Local(call[c], dune[c], compilers[c])
    BY DEF IInv, TypeOK, LocalsOK
  <1>1. call' = [call EXCEPT ![c] = r]
    BY <1>0 DEF Cancel, Set
  <1>2. r \in CallStates
    BY <1>0 DEF CallStates, Places
  <1>3. /\ dune' \in [Call -> {"none", "running"} \cup Statuses]
        /\ compilers' \in [Call -> SUBSET (1..2)]
        /\ \A d \in Call \ {c} : dune'[d] = dune[d] /\ compilers'[d] = compilers[d]
        /\ registry' = registry /\ crashes' = crashes
    BY <1>0 DEF Cancel
  <1>4. Local(r, dune'[c], compilers'[c])
    BY <1>0 DEF Cancel, Local, CallStates, Past
  <1>5. r.gate = call[c].gate /\ r.cwd = call[c].cwd
    BY <1>0 DEF CallStates
  <1>6. r.pc \in Past => Inside(c)
    BY <1>0 DEF Cancel, CallStates, Inside, Past
  <1>7. r.pc \in Past /\ r.gate # None => \A d \in Owners(r.gate) \ {c} : ~Inside(d)
    BY <1>5, <1>6, AloneInside
  <1> HIDE DEF r
  <1> QED
    BY <1>1, <1>2, <1>3, <1>4, <1>5, <1>7, LocalStep

\* So does the deadline.
LEMMA ExpireIInv == ASSUME IInv, NEW c \in Call, Expire(c) PROVE IInv'
  <1> DEFINE r == [call[c] EXCEPT !.late = TRUE]
  <1>0. /\ call \in [Call -> CallStates] /\ call[c] \in CallStates
        /\ dune \in [Call -> {"none", "running"} \cup Statuses]
        /\ compilers \in [Call -> SUBSET (1..2)]
        /\ Local(call[c], dune[c], compilers[c])
    BY DEF IInv, TypeOK, LocalsOK
  <1>1. call' = [call EXCEPT ![c] = r]
    BY <1>0 DEF Expire, Set
  <1>2. r \in CallStates
    BY <1>0 DEF CallStates, Places
  <1>3. /\ dune' \in [Call -> {"none", "running"} \cup Statuses]
        /\ compilers' \in [Call -> SUBSET (1..2)]
        /\ \A d \in Call \ {c} : dune'[d] = dune[d] /\ compilers'[d] = compilers[d]
        /\ registry' = registry /\ crashes' = crashes
    BY <1>0 DEF Expire
  <1>4. Local(r, dune'[c], compilers'[c])
    BY <1>0 DEF Expire, Local, CallStates, Past, Inside
  <1>5. r.gate = call[c].gate /\ r.cwd = call[c].cwd
    BY <1>0 DEF CallStates
  <1>6. r.pc \in Past => Inside(c)
    BY <1>0 DEF Expire, CallStates, Inside, Past
  <1>7. r.pc \in Past /\ r.gate # None => \A d \in Owners(r.gate) \ {c} : ~Inside(d)
    BY <1>5, <1>6, AloneInside
  <1> HIDE DEF r
  <1> QED
    BY <1>1, <1>2, <1>3, <1>4, <1>5, <1>7, LocalStep

\* An interrupted call kills its group and collects its child.
LEMMA KillInterruptedIInv ==
  ASSUME IInv, NEW c \in Call, KillInterrupted(c) PROVE IInv'
  <1> DEFINE stop == [call[c] EXCEPT !.pc = "reaped", !.status = Ended(c), !.cancelled = TRUE]
             late == [call[c] EXCEPT !.pc = "reaped", !.status = Ended(c), !.timed_out = TRUE]
  <1>0. /\ call \in [Call -> CallStates] /\ call[c] \in CallStates
        /\ dune \in [Call -> {"none", "running"} \cup Statuses]
        /\ compilers \in [Call -> SUBSET (1..2)]
        /\ Local(call[c], dune[c], compilers[c])
    BY DEF IInv, TypeOK, LocalsOK
  <1>1. Inside(c) /\ Ended(c) \in Statuses
    BY <1>0 DEF KillInterrupted, Local, Inside, Ended, Statuses
  <1>2. /\ dune' \in [Call -> {"none", "running"} \cup Statuses]
        /\ compilers' \in [Call -> SUBSET (1..2)]
        /\ \A d \in Call \ {c} : dune'[d] = dune[d] /\ compilers'[d] = compilers[d]
        /\ dune'[c] = "none" /\ compilers'[c] \subseteq compilers[c]
        /\ registry' = registry /\ crashes' = crashes
    BY <1>0 DEF KillInterrupted, KillDescendants, Collect
  <1>3. \/ call[c].stopped /\ call' = [call EXCEPT ![c] = stop]
        \/ call[c].late /\ call' = [call EXCEPT ![c] = late]
    BY DEF KillInterrupted, Set
  <1>4. ASSUME NEW r, call' = [call EXCEPT ![c] = r],
               (r = stop /\ call[c].stopped) \/ (r = late /\ call[c].late)
        PROVE  IInv'
    <2>1. /\ r \in CallStates /\ r.pc = "reaped" /\ r.status = Ended(c)
          /\ r.real = call[c].real /\ r.cwd = call[c].cwd /\ r.gate = call[c].gate
          /\ r.attempt = call[c].attempt /\ r.answer = call[c].answer
          /\ r.stopped = call[c].stopped /\ r.late = call[c].late
      <3> HIDE DEF Ended
      <3>1. CASE r = stop /\ call[c].stopped
        BY <1>0, <1>1, <3>1 DEF CallStates, Places
      <3>2. CASE r = late /\ call[c].late
        BY <1>0, <1>1, <3>2 DEF CallStates, Places
      <3> QED
        BY <1>4, <3>1, <3>2
    <2>2. (r.cancelled => r.stopped) /\ (r.timed_out => r.late)
      <3>1. CASE r = stop /\ call[c].stopped
        BY <1>0, <1>4, <3>1 DEF CallStates, Local
      <3>2. CASE r = late /\ call[c].late
        BY <1>0, <1>4, <3>2 DEF CallStates, Local
      <3> QED
        BY <1>4, <3>1, <3>2
    <2>3. call[c].pc = "polled"
      BY DEF KillInterrupted
    <2>4. Local(r, dune'[c], compilers'[c])
      BY <1>0, <1>1, <1>2, <2>1, <2>2, <2>3 DEF Local, Past
    <2>5. r.gate # None => \A d \in Owners(r.gate) \ {c} : ~Inside(d)
      BY <1>1, <2>1, AloneInside
    <2> HIDE DEF stop, late
    <2> QED
      BY <1>2, <1>4, <2>1, <2>4, <2>5, LocalStep
  <1> HIDE DEF stop, late
  <1> QED
    BY <1>3, <1>4

\* A transport error kills and collects before it returns or tries again.
LEMMA WaitBreaksIInv == ASSUME IInv, NEW c \in Call, WaitBreaks(c) PROVE IInv'
  <1>0. /\ call \in [Call -> CallStates] /\ call[c] \in CallStates
        /\ dune \in [Call -> {"none", "running"} \cup Statuses]
        /\ compilers \in [Call -> SUBSET (1..2)]
        /\ Local(call[c], dune[c], compilers[c])
    BY DEF IInv, TypeOK, LocalsOK
  <1>1. call[c].pc = "wait" /\ Inside(c)
    BY DEF WaitBreaks, Inside
  <1>2. /\ dune' \in [Call -> {"none", "running"} \cup Statuses]
        /\ compilers' \in [Call -> SUBSET (1..2)]
        /\ \A d \in Call \ {c} : dune'[d] = dune[d] /\ compilers'[d] = compilers[d]
        /\ dune'[c] = "none" /\ compilers'[c] = compilers[c] \ {call[c].attempt}
        /\ registry' = registry /\ crashes' = crashes
    BY <1>0 DEF WaitBreaks, KillDescendants, Collect
  <1>3. compilers'[c] = {}
    BY <1>0, <1>1, <1>2 DEF Local
  <1>4. CASE Return(c, "unavailable")
    BY <1>2, <1>3, <1>4, ReturnIInv DEF Answers
  <1>5. CASE Retry(c) /\ call[c].attempt = 1
    BY <1>1, <1>2, <1>3, <1>5, RetryIInv
  <1> QED
    BY <1>4, <1>5 DEF WaitBreaks, Broken

\* Both readers have ended: nothing runs in the group any more.
LEMMA JoinIInv == ASSUME IInv, NEW c \in Call, Join(c) PROVE IInv'
  <1>0. /\ call \in [Call -> CallStates] /\ call[c] \in CallStates
        /\ dune \in [Call -> {"none", "running"} \cup Statuses]
        /\ compilers \in [Call -> SUBSET (1..2)]
        /\ Local(call[c], dune[c], compilers[c])
    BY DEF IInv, TypeOK, LocalsOK
  <1>1. call[c].pc = "join" /\ Inside(c)
    BY DEF Join, Inside
  <1>2. /\ UNCHANGED <<dune, compilers, registry, crashes>>
        /\ dune[c] = "none" /\ compilers[c] = {}
    BY <1>0, <1>1 DEF Join, Local
  <1>3. ASSUME NEW answer \in Answers, Return(c, answer) PROVE IInv'
    BY <1>0, <1>2, <1>3, ReturnIInv
  <1>4. CASE Retry(c) /\ call[c].attempt = 1
    BY <1>0, <1>1, <1>2, <1>4, RetryIInv
  <1>5. \A overflow \in BOOLEAN : Report(call[c], overflow) \in Answers
    BY DEF Report, Answers
  <1>6. "unavailable" \in Answers
    BY DEF Answers
  <1> QED
    BY <1>3, <1>4, <1>5, <1>6 DEF Join, Settle, Broken

-----------------------------------------------------------------------------
(* The registry and the crash.                                             *)

\* dune_workspace_gate() keeps every gate that has an owner, so a call gets the
\* gate of those that are ahead of it in the same workspace.
LEMMA FindGateIInv == ASSUME IInv, NEW c \in Call, FindGate(c) PROVE IInv'
  <1> DEFINE key == Key(call[c].cwd)
             kept == [w \in DOMAIN registry |->
                        IF registry[w] # None /\ Owners(registry[w]) # {}
                        THEN registry[w] ELSE None]
             gate == IF key \in DOMAIN kept /\ kept[key] # None THEN kept[key] ELSE c
  <1>0. /\ call \in [Call -> CallStates] /\ call[c] \in CallStates
        /\ registry \in [Workspace -> Call \cup {None}]
        /\ Local(call[c], dune[c], compilers[c])
    BY DEF IInv, TypeOK, LocalsOK
  <1>1. call[c].pc = "gate" /\ call[c].gate = None
    BY <1>0 DEF FindGate, Local, Past
  <1>2. CASE call[c].real
    <2>1. call[c].cwd \in Path /\ key \in Workspace
      BY <1>0, <1>2 DEF Local, Key, Workspace
    <2>2. kept \in [Workspace -> Call \cup {None}] /\ gate \in Call
      BY <1>0
    <2>3. /\ registry' = [w \in Workspace |-> IF w = key THEN gate ELSE kept[w]]
          /\ call' = [call EXCEPT ![c] = [call[c] EXCEPT !.pc = "lock", !.gate = gate]]
          /\ UNCHANGED <<dune, compilers, crashes>>
      <3>1. DOMAIN kept \cup {key} = Workspace
        BY <1>0, <2>1
      <3> QED
        BY <3>1 DEF FindGate, Set
    <2>4. \A d \in Call : call[d].gate # None =>
            /\ Key(call[d].cwd) \in Workspace
            /\ kept[Key(call[d].cwd)] = call[d].gate
      <3> SUFFICES ASSUME NEW d \in Call, call[d].gate # None
                   PROVE  /\ Key(call[d].cwd) \in Workspace
                          /\ kept[Key(call[d].cwd)] = call[d].gate
        OBVIOUS
      <3>1. call[d].cwd \in Path
        BY DEF IInv, LocalsOK, Local
      <3>2. Key(call[d].cwd) \in Workspace
        BY <3>1 DEF Key, Workspace
      <3>3. registry[Key(call[d].cwd)] = call[d].gate
        BY DEF IInv, RegistryOK
      <3>4. d \in Owners(call[d].gate)
        BY DEF Owners
      <3> QED
        BY <1>0, <3>2, <3>3, <3>4
    <2> HIDE DEF kept, gate, key
    <2>5. /\ call'[c] = [call[c] EXCEPT !.pc = "lock", !.gate = gate]
          /\ call'[c].pc = "lock" /\ call'[c].gate = gate /\ call'[c].cwd = call[c].cwd
          /\ call'[c] \in CallStates
          /\ \A d \in Call \ {c} : call'[d] = call[d]
      BY <1>0, <2>2, <2>3 DEF CallStates, Places
    <2>6. TypeOK'
      BY <1>0, <2>2, <2>3, <2>5 DEF IInv, TypeOK
    <2>7. LocalsOK'
      <3>1. Local(call'[c], dune'[c], compilers'[c])
        BY <1>0, <1>1, <1>2, <2>2, <2>3, <2>5 DEF Local, CallStates, Past
      <3> QED
        BY <2>3, <2>5, <3>1 DEF IInv, LocalsOK
    <2>8. RegistryOK'
      <3> SUFFICES ASSUME NEW d \in Call, call'[d].gate # None
                   PROVE  registry'[Key(call'[d].cwd)] = call'[d].gate
        BY DEF RegistryOK, Key
      <3>1. CASE d = c
        BY <2>1, <2>3, <2>5, <3>1 DEF key
      <3>2. CASE d # c /\ Key(call[d].cwd) = key
        <4>1. kept[key] = call[d].gate /\ kept[key] # None
          BY <2>4, <2>5, <3>2
        <4>2. key \in DOMAIN kept
          BY <2>1, <2>2
        <4>3. gate = kept[key]
          BY <4>1, <4>2 DEF gate
        <4> QED
          BY <2>1, <2>3, <2>5, <3>2, <4>1, <4>3
      <3>3. CASE d # c /\ Key(call[d].cwd) # key
        BY <2>3, <2>4, <2>5, <3>3
      <3> QED
        BY <3>1, <3>2, <3>3
    <2>9. MutexOK'
      <3>1. ~Inside(c)'
        BY <2>5 DEF Inside
      <3>2. \A d \in Call \ {c} : Inside(d)' <=> Inside(d)
        BY <2>5 DEF Inside
      <3> QED
        BY <2>5, <3>1, <3>2 DEF IInv, MutexOK
    <2> QED
      BY <2>6, <2>7, <2>8, <2>9 DEF IInv
  <1>3. CASE ~call[c].real
    BY <1>0, <1>1, <1>3 DEF Local, Past
  <1> QED
    BY <1>2, <1>3

\* A killed server leaves compilers at most, and they belong to no call.
LEMMA CrashIInv == IInv /\ Crash => IInv'
  <1> SUFFICES ASSUME IInv, Crash PROVE IInv'
    OBVIOUS
  <1>0. /\ call \in [Call -> CallStates]
        /\ \A c \in Call : Local(call[c], dune[c], compilers[c])
    BY DEF IInv, TypeOK, LocalsOK
  <1>1. [Idle EXCEPT !.pc = "crashed"] \in CallStates
    BY IdleType DEF CallStates, Places
  <1>2. TypeOK'
    BY <1>0, <1>1, MaxCrashesAssumption DEF IInv, TypeOK, Crash
  <1>3. \A c \in Call : \/ call'[c] = call[c] /\ call[c].pc \in {"idle", "done"}
                        \/ call'[c] = [Idle EXCEPT !.pc = "crashed"]
    BY DEF Crash
  <1>4. LocalsOK'
    <2> SUFFICES ASSUME NEW c \in Call
                 PROVE  Local(call'[c], dune'[c], compilers'[c])
      BY DEF LocalsOK
    <2>1. dune'[c] = "none" /\ compilers'[c] = compilers[c]
      BY DEF Crash
    <2>2. CASE call'[c] = call[c] /\ call[c].pc \in {"idle", "done"}
      BY <1>0, <2>1, <2>2 DEF Local, Past
    <2>3. CASE call'[c] = [Idle EXCEPT !.pc = "crashed"]
      BY <2>1, <2>3 DEF Local, Idle, Past
    <2> QED
      BY <1>3, <2>2, <2>3
  <1>5. \A c \in Call : call'[c].gate = None
    BY <1>0, <1>3 DEF Local, Idle, Past
  <1>6. RegistryOK' /\ MutexOK'
    BY <1>5 DEF RegistryOK, MutexOK
  <1> QED
    BY <1>2, <1>4, <1>6 DEF IInv

\* The invariant is inductive.
LEMMA NextIInv == IInv /\ [Next]_vars => IInv'
  <1> SUFFICES ASSUME IInv, [Next]_vars PROVE IInv'
    OBVIOUS
  <1>1. CASE UNCHANGED vars
    BY <1>1 DEF IInv, vars, TypeOK, LocalsOK, RegistryOK, Key, MutexOK, Inside
  <1>2. ASSUME NEW c \in Call, Arrive(c) \/ Step(c) \/ Environment(c) PROVE IInv'
    BY <1>2, ArriveIInv, FindGateIInv, LockGateIInv, SpawnIInv, SpawnFailsIInv,
       ReapIInv, StillRunningIInv, KillInterruptedIInv, PollAgainIInv,
       WaitBreaksIInv, SweepIInv, JoinIInv, ForkIInv, ExitIInv, CompilerExitsIInv,
       CancelIInv, ExpireIInv DEF Step, Environment
  <1> QED
    BY <1>1, <1>2, CrashIInv DEF Next, Quiet

\* Every reachable state satisfies it; fairness is not needed.
LEMMA Reachable == Spec => []IInv
  BY InitIInv, NextIInv, PTL DEF Spec

-----------------------------------------------------------------------------
(* What the callers of run_dune() may rely on.                             *)

\* Calls, children and gates stay in their types.
THEOREM TypeCorrect == Spec => []TypeOK
  <1>1. IInv => TypeOK
    BY DEF IInv
  <1> QED
    BY <1>1, Reachable, PTL

\* Two commands never work in the build directory of one workspace, however
\* many callers spell its path in however many ways: every owner of a gate
\* finds it in the registry, so callers in one workspace wait at one gate.
THEOREM OneCommandCorrect == Spec => []OneCommandPerBuildDir
  <1>1. IInv => OneCommandPerBuildDir
    <2> SUFFICES ASSUME IInv, NEW c \in Call, NEW d \in Call, c # d,
                        call[c].real, call[d].real, Alive(c), Alive(d),
                        Canonical[call[c].cwd] = Canonical[call[d].cwd]
                 PROVE  FALSE
      BY DEF OneCommandPerBuildDir
    <2>1. /\ Local(call[c], dune[c], compilers[c])
          /\ Local(call[d], dune[d], compilers[d])
      BY DEF IInv, LocalsOK
    <2>2. call[c].pc \in Past /\ call[d].pc \in Past
      BY <2>1 DEF Local, Alive, Past
    <2>3. call[c].gate # None /\ call[d].gate # None
      BY <2>1, <2>2 DEF Local
    <2>4. call[c].gate = call[d].gate
      BY <2>3 DEF IInv, RegistryOK, Key
    <2> QED
      BY <2>2, <2>3, <2>4 DEF IInv, MutexOK, Inside, Past
  <1> QED
    BY <1>1, Reachable, PTL

\* When run_dune() has returned nothing of its attempts runs any more.
THEOREM NoChildCorrect == Spec => []NoChildOutlivesCall
  <1>1. IInv => NoChildOutlivesCall
    BY DEF IInv, LocalsOK, Local, NoChildOutlivesCall, Alive
  <1> QED
    BY <1>1, Reachable, PTL

-----------------------------------------------------------------------------
(* The answer.                                                             *)

\* A step that answers is a return: from a failing start, from a broken wait
\* or from the join, and only the last one says more than unavailable.
LEMMA AnsweringStep ==
  ASSUME IInv, [Next]_vars, NEW c \in Call,
         call[c].pc # "done", call'[c].answer # None
  PROVE  \/ call'[c].answer = "unavailable"
         \/ \E overflow \in BOOLEAN :
              /\ call[c].pc = "join"
              /\ ~(/\ call[c].attempt = 1 /\ ~call[c].timed_out /\ ~call[c].cancelled
                   /\ call[c].status = "signal" /\ ~call[c].late)
              /\ call'[c].answer = Report(call[c], overflow)
  <1>0. /\ call \in [Call -> CallStates] /\ call[c] \in CallStates
        /\ call[c].answer = None
    BY DEF IInv, TypeOK, LocalsOK, Local
  <1>1. CASE call' = call
    BY <1>0, <1>1
  <1>2. CASE Crash
    BY <1>0, <1>2 DEF Crash, Idle
  <1>3. ASSUME NEW d \in Call, d # c, Arrive(d) \/ Step(d) \/ Environment(d)
        PROVE  FALSE
    <2>1. call'[c] = call[c]
      BY <1>0, <1>3 DEF Arrive, Step, Environment, FindGate, LockGate, Spawn,
         SpawnFails, Reap, StillRunning, KillInterrupted, PollAgain, WaitBreaks,
         Sweep, Join, Settle, Broken, Retry, Return, Fork, Exit, CompilerExits,
         Cancel, Expire, Set
    <2> QED
      BY <1>0, <2>1
  <1>4. CASE \/ Arrive(c) \/ FindGate(c) \/ LockGate(c) \/ Spawn(c) \/ Reap(c)
             \/ StillRunning(c) \/ KillInterrupted(c) \/ PollAgain(c) \/ Sweep(c)
             \/ Environment(c)
    <2>1. CASE Arrive(c)
      BY <1>0, <2>1 DEF Arrive, Set, Idle
    <2>2. CASE FindGate(c)
      <3>1. \E g : call'[c] = [call[c] EXCEPT !.pc = "lock", !.gate = g]
        BY <1>0, <2>2 DEF FindGate, Set
      <3> QED
        BY <1>0, <3>1 DEF CallStates
    <2>3. CASE LockGate(c) \/ StillRunning(c) \/ PollAgain(c) \/ Sweep(c)
      <3>1. \E p : call'[c] = [call[c] EXCEPT !.pc = p]
        BY <1>0, <2>3 DEF LockGate, StillRunning, PollAgain, Sweep, Set
      <3> QED
        BY <1>0, <3>1 DEF CallStates
    <2>4. CASE Spawn(c)
      <3>1. call'[c] = [call[c] EXCEPT !.pc = "wait", !.attempt = call[c].attempt + 1]
        BY <1>0, <2>4 DEF Spawn, Set
      <3> QED
        BY <1>0, <3>1 DEF CallStates
    <2>a. CASE Reap(c)
      <3>1. call'[c] = [call[c] EXCEPT !.pc = "reaped", !.status = dune[c]]
        BY <1>0, <2>a DEF Reap, Set
      <3> QED
        BY <1>0, <3>1 DEF CallStates
    <2>b. CASE KillInterrupted(c)
      <3>1. \/ call'[c] = [call[c] EXCEPT !.pc = "reaped", !.status = Ended(c), !.cancelled = TRUE]
            \/ call'[c] = [call[c] EXCEPT !.pc = "reaped", !.status = Ended(c), !.timed_out = TRUE]
        BY <1>0, <2>b DEF KillInterrupted, Set
      <3> QED
        BY <1>0, <3>1 DEF CallStates
    <2>5. CASE Environment(c)
      BY <1>0, <2>5 DEF Environment, Fork, Exit, CompilerExits, Cancel, Expire, Set,
         CallStates
    <2> QED
      BY <1>4, <2>1, <2>2, <2>3, <2>4, <2>5, <2>a, <2>b
  <1>a. ASSUME NEW answer, Return(c, answer) PROVE call'[c].answer = answer
    <2>1. call' = [call EXCEPT ![c] = [Idle EXCEPT !.pc = "done", !.answer = answer]]
      BY <1>a DEF Return, Set
    <2> QED
      BY <1>0, <2>1 DEF Idle
  <1>b. ~Retry(c)
    <2> SUFFICES ASSUME Retry(c) PROVE FALSE
      OBVIOUS
    <2>1. call'[c] = [call[c] EXCEPT !.pc = "spawn", !.status = None,
                                     !.timed_out = FALSE, !.cancelled = FALSE]
      BY <1>0 DEF Retry, Set
    <2> QED
      BY <1>0, <2>1 DEF CallStates
  <1>c. ~Broken(c) \/ call'[c].answer = "unavailable"
    BY <1>a, <1>b DEF Broken
  <1>5. CASE SpawnFails(c) \/ WaitBreaks(c)
    BY <1>5, <1>a, <1>c DEF SpawnFails, WaitBreaks
  <1>6. CASE Join(c)
    <2>1. CASE Broken(c)
      BY <2>1, <1>c
    <2>2. CASE \E overflow \in BOOLEAN : Settle(c, overflow)
      <3>1. PICK overflow \in BOOLEAN : Settle(c, overflow)
        BY <2>2
      <3>2. CASE /\ call[c].attempt = 1 /\ ~call[c].timed_out /\ ~call[c].cancelled
                 /\ call[c].status = "signal" /\ ~call[c].late
        BY <1>b, <3>1, <3>2 DEF Settle, TimeLeft
      <3>3. CASE ~(/\ call[c].attempt = 1 /\ ~call[c].timed_out /\ ~call[c].cancelled
                   /\ call[c].status = "signal" /\ ~call[c].late)
        <4>1. Return(c, Report(call[c], overflow))
          BY <3>1, <3>3 DEF Settle, TimeLeft
        <4> QED
          BY <1>6, <1>a, <3>3, <4>1 DEF Join
      <3> QED
        BY <3>2, <3>3
    <2> QED
      BY <1>6, <2>1, <2>2 DEF Join
  <1> QED
    BY <1>1, <1>2, <1>3, <1>4, <1>5, <1>6 DEF Next, Quiet, vars, Step

\* A child this server killed is reported as a cancellation or an expired
\* deadline, and never as Dune's verdict on the source.
THEOREM AnswerCorrect == Spec => AnswerSaysWhoDecided
  <1>1. ASSUME IInv, [Next]_vars, NEW c \in Call, call[c].pc # "done"
        PROVE  /\ call'[c].answer = "ok" =>
                    call[c].status = "ok" /\ ~call[c].timed_out /\ ~call[c].cancelled
               /\ call'[c].answer = "rejected" =>
                    /\ ~call[c].timed_out /\ ~call[c].cancelled
                    /\ \/ call[c].status = "rejected"
                       \/ call[c].status = "signal" /\ (call[c].attempt = 2 \/ call[c].late)
               /\ call'[c].answer = "cancelled" => call[c].stopped
               /\ call'[c].answer = "timeout" => call[c].late
    <2>1. Local(call[c], dune[c], compilers[c])
      BY <1>1 DEF IInv, LocalsOK
    <2>2. call[c].pc = "join" => call[c].status \in Statuses /\ call[c].attempt \in {1, 2}
      BY <2>1 DEF Local, Past
    <2>3. CASE call'[c].answer = None \/ call'[c].answer = "unavailable"
      BY <2>3 DEF Answers
    <2>4. ASSUME NEW overflow \in BOOLEAN, call[c].pc = "join",
                 ~(/\ call[c].attempt = 1 /\ ~call[c].timed_out /\ ~call[c].cancelled
                   /\ call[c].status = "signal" /\ ~call[c].late),
                 call'[c].answer = Report(call[c], overflow)
          PROVE  /\ call'[c].answer = "ok" =>
                      call[c].status = "ok" /\ ~call[c].timed_out /\ ~call[c].cancelled
                 /\ call'[c].answer = "rejected" =>
                      /\ ~call[c].timed_out /\ ~call[c].cancelled
                      /\ \/ call[c].status = "rejected"
                         \/ call[c].status = "signal" /\ (call[c].attempt = 2 \/ call[c].late)
                 /\ call'[c].answer = "cancelled" => call[c].stopped
                 /\ call'[c].answer = "timeout" => call[c].late
      BY <2>1, <2>2, <2>4 DEF Report, Local, Statuses
    <2> QED
      BY <1>1, <2>3, <2>4, AnsweringStep
  <1>2. IInv /\ [Next]_vars =>
          [\A c \in Call :
             LET r == call[c]
                 answers(a) == r.pc # "done" /\ call'[c].answer = a
             IN  /\ answers("ok") => r.status = "ok" /\ ~r.timed_out /\ ~r.cancelled
                 /\ answers("rejected") =>
                      /\ ~r.timed_out /\ ~r.cancelled
                      /\ r.status = "rejected" \/ (r.status = "signal" /\ (r.attempt = 2 \/ r.late))
                 /\ answers("cancelled") => r.stopped
                 /\ answers("timeout") => r.late]_vars
    BY <1>1
  <1> QED
    BY <1>2, Reachable, PTL DEF Spec, AnswerSaysWhoDecided

=============================================================================
