---------------------------- MODULE DuneProcess ----------------------------
(***************************************************************************)
(* Runs of the dune command (rocq-engine/src/dune/process.rs) and what the *)
(* two callers make of their outcome (native_build in writeback.rs,        *)
(* dune_describe in dune/mod.rs).                                          *)
(*                                                                         *)
(* A call in the real build directory first takes the gate of its          *)
(* workspace, found in a registry of weak references under the canonical   *)
(* path; a call with a private build directory takes none.  It then starts *)
(* Dune as the leader of a process group, polls it against the request's   *)
(* cancellation and an optional deadline, kills what is left of the group, *)
(* joins the two pipe readers, and runs the command once more if the child *)
(* died abnormally or a pipe broke with time left.  Dune may fork          *)
(* compilers into its group, exit, die of a signal or hang for ever.       *)
(*                                                                         *)
(* The whole server may also be killed: its children get the parent-death  *)
(* signal, which reaches the direct child only.                            *)
(***************************************************************************)
EXTENDS Naturals, FiniteSets

CONSTANTS Call,        \* calls of run_dune
          Path,        \* working directories as callers spell them
          Canonical,   \* [Path -> workspace]: fs::canonicalize
          Kind,        \* the kinds of call: real build directory or a private
                       \* one, with or without a deadline, in a request or not
          MaxCrashes,  \* how often the server may be killed (a bound)
          None

Statuses == {"ok", "rejected", "signal"}      \* how a child can end
Answers == {"ok", "rejected", "cancelled", "timeout", "overflow", "unavailable"}

ASSUME NoneAssumption == None \notin Call \cup Statuses \cup Answers
ASSUME CanonicalAssumption == DOMAIN Canonical = Path
ASSUME KindAssumption == Kind \subseteq [real : BOOLEAN, timed : BOOLEAN, scoped : BOOLEAN]
ASSUME MaxCrashesAssumption == MaxCrashes \in Nat

VARIABLES
  call,      \* [Call -> the locals of run_dune and run_dune_once; late: the
             \*  deadline has passed; stopped: the request is cancelled]
  dune,      \* [Call -> the direct child, until it is waited for]
  compilers, \* [Call -> attempts with a living descendant in their group]
  registry,  \* GATES: [workspace -> the gate it refers to weakly, or None]
  crashes

vars == <<call, dune, compilers, registry, crashes>>

Workspace == {Canonical[p] : p \in Path}

Idle == [pc |-> "idle", cwd |-> None, real |-> FALSE, timed |-> FALSE,
         scoped |-> FALSE, gate |-> None, attempt |-> 0, status |-> None,
         late |-> FALSE, stopped |-> FALSE, timed_out |-> FALSE, cancelled |-> FALSE, answer |-> None]

Init == /\ call = [c \in Call |-> Idle]
        /\ dune = [c \in Call |-> "none"]
        /\ compilers = [c \in Call |-> {}]
        /\ registry = [w \in Workspace |-> None]
        /\ crashes = 0

Places == {"idle", "gate", "lock", "spawn", "wait", "polled", "reaped", "join",
           "done", "crashed"}

CallStates == [pc : Places, cwd : Path \cup {None}, real : BOOLEAN, timed : BOOLEAN,
               scoped : BOOLEAN, gate : Call \cup {None}, attempt : 0..2,
               status : Statuses \cup {None}, late : BOOLEAN, stopped : BOOLEAN,
               timed_out : BOOLEAN, cancelled : BOOLEAN, answer : Answers \cup {None}]

TypeOK ==
  /\ call \in [Call -> CallStates]
  /\ dune \in [Call -> {"none", "running"} \cup Statuses]
  /\ compilers \in [Call -> SUBSET (1..2)]
  /\ registry \in [Workspace -> Call \cup {None}]
  /\ crashes \in 0..MaxCrashes

\* mutant of Key: canonicalisation forgotten
KeyByCwd(p) == p

\* canonicalize fails only for a directory that is not there, where Dune
\* cannot be started either.
Key(p) == Canonical[p]

----------------------------------------------------------------------------
(* The gate                                                                *)

Set(c, r) == call' = [call EXCEPT ![c] = r]

\* native_build uses the real build directory, dune_describe a private one;
\* deadlines are the operator's choice, and the engine may be called from
\* outside an MCP request.
Arrive(c) ==
  /\ call[c].pc = "idle"
  /\ \E p \in Path, k \in Kind :
       Set(c, [Idle EXCEPT !.pc = IF k.real THEN "gate" ELSE "spawn",
                           !.cwd = IF k.real THEN p ELSE None, !.real = k.real,
                           !.timed = k.timed, !.scoped = k.scoped])
  /\ UNCHANGED <<dune, compilers, registry, crashes>>

\* Calls that hold the Arc of a gate; a gate is named after the call that
\* made it.
Owners(g) == {c \in Call : call[c].gate = g}

\* dune_workspace_gate drops entries nobody owns any more (retain), and hands
\* out the entry of this workspace or registers a new gate.  The registry's
\* mutex makes it one step.
FindGate(c) ==
  LET key == Key(call[c].cwd)
      kept == [w \in DOMAIN registry |->
                 IF registry[w] # None /\ Owners(registry[w]) # {} THEN registry[w] ELSE None]
      gate == IF key \in DOMAIN kept /\ kept[key] # None THEN kept[key] ELSE c
  IN  /\ call[c].pc = "gate"
      /\ registry' = [w \in DOMAIN kept \cup {key} |-> IF w = key THEN gate ELSE kept[w]]
      /\ Set(c, [call[c] EXCEPT !.pc = "lock", !.gate = gate])
      /\ UNCHANGED <<dune, compilers, crashes>>

\* Past gate.lock() and not yet returned.
Inside(c) == call[c].pc \in {"spawn", "wait", "polled", "reaped", "join"}

LockGate(c) ==
  /\ call[c].pc = "lock"
  /\ \A d \in Owners(call[c].gate) : ~Inside(d)
  /\ Set(c, [call[c] EXCEPT !.pc = "spawn"])
  /\ UNCHANGED <<dune, compilers, registry, crashes>>

----------------------------------------------------------------------------
(* Outcomes                                                                *)

\* mutant of Report: the status is looked at first
ReportStatusFirst(r, overflow) ==
  IF r.status # "ok" THEN "rejected" ELSE IF overflow THEN "overflow" ELSE "ok"

\* What native_build and dune_describe report of a child that was waited for
\* and read to the end: cancellation and deadline come before the exit status,
\* which a kill made meaningless.  Death by a signal is reported like a no.
Report(r, overflow) ==
  IF r.cancelled THEN "cancelled"
  ELSE IF r.timed_out THEN "timeout"
  ELSE IF overflow THEN "overflow"
  ELSE IF r.status = "ok" THEN "ok" ELSE "rejected"

\* Returning drops the guard, the Arc and the locals.
Return(c, answer) == Set(c, [Idle EXCEPT !.pc = "done", !.answer = answer])

Retry(c) == Set(c, [call[c] EXCEPT !.pc = "spawn", !.status = None,
                                   !.timed_out = FALSE, !.cancelled = FALSE])

TimeLeft(c) == ~call[c].late

\* A result: abnormal death of the first attempt is retried while there is
\* time, unless this server killed it.
Settle(c, overflow) ==
  LET r == call[c] IN
  IF r.attempt = 1 /\ ~r.timed_out /\ ~r.cancelled /\ r.status = "signal" /\ TimeLeft(c)
    THEN Retry(c)
    ELSE Return(c, Report(r, overflow))

\* A transport error; the child is gone.
Broken(c) ==
  IF call[c].attempt = 1 /\ TimeLeft(c) THEN Retry(c) ELSE Return(c, "unavailable")

----------------------------------------------------------------------------
(* One attempt                                                             *)

\* The deadline is an absolute instant taken before the first attempt.
Spawn(c) ==
  /\ call[c].pc = "spawn"
  /\ Set(c, [call[c] EXCEPT !.pc = "wait", !.attempt = @ + 1])
  /\ dune' = [dune EXCEPT ![c] = "running"]
  /\ UNCHANGED <<compilers, registry, crashes>>

\* Start errors are final, as is a deadline that cannot be represented.
SpawnFails(c) ==
  /\ call[c].pc = "spawn"
  /\ Return(c, "unavailable")
  /\ UNCHANGED <<dune, compilers, registry, crashes>>

\* mutant of KillDescendants: child.kill() reaches the leader only
KillLeader(c) == compilers

\* killpg(SIGKILL) takes the descendants in the group of the current attempt,
KillDescendants(c) == [compilers EXCEPT ![c] = @ \ {call[c].attempt}]

\* and the leader; the status a wait() then yields is that of the kill unless
\* the leader had already ended.
Ended(c) == IF dune[c] = "running" THEN "signal" ELSE dune[c]

Collect(c) == dune' = [dune EXCEPT ![c] = "none"]

\* try_wait finds the child gone, or a direct wait returns.
Reap(c) ==
  /\ call[c].pc = "wait" /\ dune[c] # "running"
  /\ Set(c, [call[c] EXCEPT !.pc = "reaped", !.status = dune[c]])
  /\ Collect(c)
  /\ UNCHANGED <<compilers, registry, crashes>>

\* try_wait finds it running; with neither a deadline nor a request scope the
\* call blocks in wait() instead.
StillRunning(c) ==
  /\ call[c].pc = "wait" /\ dune[c] = "running"
  /\ call[c].timed \/ call[c].scoped
  /\ Set(c, [call[c] EXCEPT !.pc = "polled"])
  /\ UNCHANGED <<dune, compilers, registry, crashes>>

\* mutant of KillInterrupted: only the deadline is looked at
KillExpiredOnly(c) ==
  /\ call[c].pc = "polled" /\ call[c].late
  /\ compilers' = KillDescendants(c) /\ Collect(c)
  /\ Set(c, [call[c] EXCEPT !.pc = "reaped", !.status = Ended(c), !.timed_out = TRUE])
  /\ UNCHANGED <<registry, crashes>>

\* The child may have ended since try_wait: its status is then its own, but
\* the call is cancelled or timed out all the same.
KillInterrupted(c) ==
  /\ call[c].pc = "polled"
  /\ compilers' = KillDescendants(c) /\ Collect(c)
  /\ \/ /\ call[c].stopped
        /\ Set(c, [call[c] EXCEPT !.pc = "reaped", !.status = Ended(c), !.cancelled = TRUE])
     \/ /\ ~call[c].stopped
        /\ call[c].late
        /\ Set(c, [call[c] EXCEPT !.pc = "reaped", !.status = Ended(c), !.timed_out = TRUE])
  /\ UNCHANGED <<registry, crashes>>

PollAgain(c) ==
  /\ call[c].pc = "polled"
  /\ ~call[c].stopped /\ ~call[c].late
  /\ Set(c, [call[c] EXCEPT !.pc = "wait"])
  /\ UNCHANGED <<dune, compilers, registry, crashes>>

\* A missing pipe or a failing wait: terminate_child_group, then Transport.
WaitBreaks(c) ==
  /\ call[c].pc = "wait"
  /\ compilers' = KillDescendants(c) /\ Collect(c)
  /\ Broken(c)
  /\ UNCHANGED <<registry, crashes>>

\* Whatever Dune left in its group holds the pipes open: kill it.
Sweep(c) ==
  /\ call[c].pc = "reaped"
  /\ compilers' = KillDescendants(c)
  /\ Set(c, [call[c] EXCEPT !.pc = "join"])
  /\ UNCHANGED <<dune, registry, crashes>>

\* The readers end when every writer has gone; one may fail, and the output
\* may exceed its bound.
Join(c) ==
  /\ call[c].pc = "join"
  /\ call[c].attempt \notin compilers[c]
  /\ (\E overflow \in BOOLEAN : Settle(c, overflow)) \/ Broken(c)
  /\ UNCHANGED <<dune, compilers, registry, crashes>>

----------------------------------------------------------------------------
(* The environment                                                         *)

Fork(c) ==
  /\ dune[c] = "running" /\ Inside(c)
  /\ compilers' = [compilers EXCEPT ![c] = @ \cup {call[c].attempt}]
  /\ UNCHANGED <<call, dune, registry, crashes>>

Exit(c) ==
  /\ dune[c] = "running"
  /\ \E s \in Statuses : dune' = [dune EXCEPT ![c] = s]
  /\ UNCHANGED <<call, compilers, registry, crashes>>

CompilerExits(c) ==
  /\ \E a \in compilers[c] : compilers' = [compilers EXCEPT ![c] = @ \ {a}]
  /\ UNCHANGED <<call, dune, registry, crashes>>

Cancel(c) ==
  /\ call[c].scoped /\ call[c].pc \notin {"idle", "done", "crashed"}
  /\ Set(c, [call[c] EXCEPT !.stopped = TRUE])
  /\ UNCHANGED <<dune, compilers, registry, crashes>>

\* The deadline starts only after the gate.
Expire(c) ==
  /\ call[c].timed /\ Inside(c)
  /\ Set(c, [call[c] EXCEPT !.late = TRUE])
  /\ UNCHANGED <<dune, compilers, registry, crashes>>

\* The server is killed: threads, gates and registry are gone, every direct
\* child gets SIGKILL (PR_SET_PDEATHSIG), its descendants do not.  Calls that
\* have not arrived yet arrive in the next server.
Crash ==
  /\ crashes < MaxCrashes
  /\ \E c \in Call : Inside(c)
  /\ crashes' = crashes + 1
  /\ call' = [c \in Call |-> IF call[c].pc \in {"idle", "done"} THEN call[c]
                             ELSE [Idle EXCEPT !.pc = "crashed"]]
  /\ dune' = [c \in Call |-> "none"]
  /\ registry' = [w \in Workspace |-> None]
  /\ UNCHANGED compilers

\* Every call has been answered.
Quiet == /\ \A c \in Call : call[c].pc \in {"done", "crashed"}
         /\ UNCHANGED vars

Step(c) ==
  \/ FindGate(c) \/ LockGate(c) \/ Spawn(c) \/ SpawnFails(c)
  \/ Reap(c) \/ StillRunning(c) \/ KillInterrupted(c) \/ PollAgain(c) \/ WaitBreaks(c)
  \/ Sweep(c) \/ Join(c)

Environment(c) == Fork(c) \/ Exit(c) \/ CompilerExits(c) \/ Cancel(c) \/ Expire(c)

Next == (\E c \in Call : Arrive(c) \/ Step(c) \/ Environment(c)) \/ Crash \/ Quiet

\* The operating system schedules the thread of a call; nothing is assumed of
\* Dune, of its compilers or of the clock.
Spec == Init /\ [][Next]_vars /\ \A c \in Call : WF_vars(Step(c))

----------------------------------------------------------------------------
(* Properties                                                              *)

Alive(c) == dune[c] = "running" \/ compilers[c] # {}

\* Two commands never work in the real build directory of one workspace at the
\* same time, whichever spelling of the path their callers used and whatever an
\* earlier command left in its process group (the race on Dune's lock file that
\* run_dune's gate is for).  What a killed server left behind is not covered:
\* the next server knows nothing of it.
OneCommandPerBuildDir ==
  \A c, d \in Call :
    /\ c # d /\ call[c].real /\ call[d].real
    /\ Alive(c) /\ Alive(d)
    => Canonical[call[c].cwd] # Canonical[call[d].cwd]

\* When run_dune has returned, nothing of either attempt runs any more, however
\* the call ended.  (A compiler may outlive a server that is killed: the
\* parent-death signal set before exec reaches Dune and not what Dune forked.)
NoChildOutlivesCall ==
  \A c \in Call : call[c].pc = "done" => ~Alive(c)

\* The answer says who decided: success and rejection are Dune's own exit of
\* the last attempt (or a second abnormal death, or one with no time left for
\* a second attempt), and a child this server killed is never blamed on the
\* source: it is a cancellation of a cancelled request or an expired deadline.
AnswerSaysWhoDecided ==
  [][\A c \in Call :
       LET r == call[c]
           answers(a) == r.pc # "done" /\ call'[c].answer = a
       IN  /\ answers("ok") => r.status = "ok" /\ ~r.timed_out /\ ~r.cancelled
           /\ answers("rejected") =>
                /\ ~r.timed_out /\ ~r.cancelled
                /\ r.status = "rejected" \/ (r.status = "signal" /\ (r.attempt = 2 \/ r.late))
           /\ answers("cancelled") => r.stopped
           /\ answers("timeout") => r.late]_vars

\* Once a command is past the gate, a cancellation of its request or its
\* deadline ends the call, retry included, although Dune and its compilers may
\* never end by themselves.
InterruptedRunsEnd ==
  \A c \in Call :
    Inside(c) /\ (call[c].stopped \/ call[c].late)
      ~> call[c].pc \in {"done", "crashed"}
=============================================================================
