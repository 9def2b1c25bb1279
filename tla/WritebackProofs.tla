-------------------------- MODULE WritebackProofs ---------------------------
(***************************************************************************)
(* A publication keeps its promises whatever other programs write, however *)
(* often, and at whatever point: it is a compare-and-swap on the file, it  *)
(* leaves PET on the build that is on disk, and it rolls back.             *)
(***************************************************************************)
EXTENDS Writeback, TLAPS

USE WritebackAssumption DEF At, Bytes, AuditErrors

-----------------------------------------------------------------------------
(* The inductive invariant, in named parts.                                *)

Forward == {"prepare", "check", "write", "build", "owned_built", "refresh",
            "owned_refreshed", "audit", "owned_audited"}

\* What the verdict variables can be at each place: no error before the
\* rollback, one during it, and an answer at its end only.
VerdictOK ==
    /\ pc # "done" <=> outcome = "running"
    /\ pc \in Forward => cause = "none" /\ rollback = "none" /\ restored = FALSE
    /\ pc \in {"restore", "restore_write", "rollback_build"} =>
          cause # "none" /\ rollback = "none"
    /\ pc = "rollback_refresh" => cause # "none" /\ rollback # "none"
    /\ outcome = "completed" => cause = "none"

\* Where PET has what is on disk: before the build of the publication and
\* after each refresh.  During a rollback it may have anything.
LoadedOK ==
    pc \in Forward \ {"owned_built", "refresh"} => pet = built

\* Others have been at the file inside the interval of a write, or the digest
\* that was checked still describes it.
IntervalOK ==
    /\ raced => pc \in {"write", "restore_write"}
    /\ pc = "write" => raced \/ file = Orig
    /\ pc = "restore_write" => raced \/ file = Repl

\* The file as long as nobody else has written.
UndisturbedOK ==
    edits = 0 =>
        /\ pc \in {"prepare", "check", "write"} => file = Orig
        /\ pc \in Forward \ {"prepare", "check", "write"} => file = Repl
        /\ pc = "restore" => file \in {Orig, Repl}
        /\ pc = "restore" /\ cause # "write" => file = Repl
        /\ pc = "restore_write" => file = Repl
        /\ pc \in {"rollback_build", "rollback_refresh"} =>
              file = Orig /\ (cause = "write" \/ restored)
        /\ pc = "rollback_refresh" /\ rollback = "ok" => built = Orig
        /\ cause \notin {"owner", "digest"}

\* What an unchanged replacement proves about build and audit, if nobody else
\* writes those very bytes.
CurrentOK ==
    /\ pc \in {"owned_built", "refresh", "owned_refreshed", "audit", "owned_audited"}
          /\ file = Repl => built = Repl
    /\ pc = "owned_audited" /\ file = Repl => audited = Repl

IInv ==
    /\ TypeOK /\ VerdictOK /\ LoadedOK /\ IntervalOK /\ UndisturbedOK
    /\ PetHasFinalBuild /\ UndisturbedFailureRollsBack

\* At the start the anchored bytes are in place and PET has their build.
LEMMA InitIInv == Init => IInv
  <1> SUFFICES ASSUME Init PROVE IInv
    OBVIOUS
  <1>1. TypeOK
    <2>1. edits \in 0..MaxEdits
      BY DEF Init
    <2> QED
      BY <2>1, Zenon DEF Init, TypeOK
  <1>2. VerdictOK
    BY DEF Init, VerdictOK, Forward
  <1>3. LoadedOK
    BY DEF Init, LoadedOK, Forward
  <1>4. IntervalOK
    BY DEF Init, IntervalOK
  <1>5. UndisturbedOK
    BY DEF Init, UndisturbedOK, Forward
  <1>6. PetHasFinalBuild
    BY DEF Init, PetHasFinalBuild, RollbackGivenUp
  <1>7. UndisturbedFailureRollsBack
    BY DEF Init, UndisturbedFailureRollsBack, RollbackGivenUp
  <1> QED
    BY <1>1, <1>2, <1>3, <1>4, <1>5, <1>6, <1>7 DEF IInv

\* prepare() answers at once or goes on to the digest check.
LEMMA PrepareIInv == IInv /\ Prepare => IInv'
  <1> SUFFICES ASSUME IInv, Prepare PROVE IInv'
    OBVIOUS
  <1>1. TypeOK'
    BY DEF IInv, Prepare, Answer, disk, TypeOK
  <1>2. VerdictOK'
    BY DEF IInv, Prepare, Answer, disk, TypeOK, VerdictOK, Forward
  <1>3. LoadedOK'
    BY DEF IInv, Prepare, Answer, disk, TypeOK, LoadedOK, Forward
  <1>4. IntervalOK'
    BY DEF IInv, Prepare, Answer, disk, TypeOK, IntervalOK
  <1>5. UndisturbedOK'
    BY DEF IInv, Prepare, Answer, disk, TypeOK, VerdictOK, Forward,
           IntervalOK, UndisturbedOK
  <1>6. PetHasFinalBuild'
    BY DEF IInv, Prepare, Answer, disk, TypeOK, VerdictOK, Forward,
           LoadedOK, PetHasFinalBuild, RollbackGivenUp
  <1>7. UndisturbedFailureRollsBack'
    BY DEF IInv, Prepare, Answer, disk, TypeOK, VerdictOK, Forward,
           UndisturbedOK, UndisturbedFailureRollsBack, RollbackGivenUp
  <1> QED
    BY <1>1, <1>2, <1>3, <1>4, <1>5, <1>6, <1>7 DEF IInv

\* The check before the replacement opens the interval of the rename.
LEMMA CheckOwnerIInv == IInv /\ CheckOwner => IInv'
  <1> SUFFICES ASSUME IInv, CheckOwner PROVE IInv'
    OBVIOUS
  <1>1. TypeOK'
    BY DEF IInv, CheckOwner, FailWith, disk, verdict, TypeOK
  <1>2. VerdictOK'
    BY DEF IInv, CheckOwner, FailWith, disk, verdict, TypeOK, VerdictOK,
           Forward
  <1>3. LoadedOK'
    BY DEF IInv, CheckOwner, FailWith, disk, verdict, TypeOK, LoadedOK,
           Forward
  <1>4. IntervalOK'
    BY DEF IInv, CheckOwner, FailWith, disk, verdict, TypeOK, IntervalOK
  <1>5. UndisturbedOK'
    BY DEF IInv, CheckOwner, FailWith, disk, verdict, TypeOK, VerdictOK,
           Forward, IntervalOK, UndisturbedOK
  <1>6. PetHasFinalBuild'
    BY DEF IInv, CheckOwner, FailWith, disk, verdict, TypeOK, VerdictOK,
           Forward, LoadedOK, PetHasFinalBuild, RollbackGivenUp
  <1>7. UndisturbedFailureRollsBack'
    BY DEF IInv, CheckOwner, FailWith, disk, verdict, TypeOK, VerdictOK,
           Forward, UndisturbedOK, UndisturbedFailureRollsBack,
           RollbackGivenUp
  <1> QED
    BY <1>1, <1>2, <1>3, <1>4, <1>5, <1>6, <1>7 DEF IInv

\* The rename ends the interval.
LEMMA WriteReplacementIInv == IInv /\ WriteReplacement => IInv'
  <1> SUFFICES ASSUME IInv, WriteReplacement PROVE IInv'
    OBVIOUS
  <1>1. TypeOK'
    <2>1. file' \in Bytes
      BY DEF IInv, WriteReplacement, Written, FailWith, verdict, TypeOK
    <2>2. restored' \in BOOLEAN /\ raced' \in BOOLEAN
      BY Zenon DEF IInv, WriteReplacement, FailWith, verdict, TypeOK
    <2>3. /\ built' = built /\ edits' = edits /\ pet' = pet
          /\ rollback' = rollback /\ audited' = audited
          /\ pc' \in {"build", "restore", "rollback_build", "done"}
          /\ cause' \in {cause, "write"} /\ outcome' \in {outcome, "error"}
      BY DEF IInv, WriteReplacement, FailWith, verdict, TypeOK
    <2> QED
      BY <2>1, <2>2, <2>3 DEF IInv, TypeOK
  <1>2. VerdictOK'
    BY DEF IInv, WriteReplacement, Written, FailWith, verdict, TypeOK,
           VerdictOK, Forward
  <1>3. LoadedOK'
    BY DEF IInv, WriteReplacement, Written, FailWith, verdict, TypeOK,
           LoadedOK, Forward
  <1>4. IntervalOK'
    BY DEF IInv, WriteReplacement, Written, FailWith, verdict, TypeOK,
           IntervalOK
  <1>5. UndisturbedOK'
    BY DEF IInv, WriteReplacement, Written, FailWith, verdict, TypeOK,
           VerdictOK, Forward, IntervalOK, UndisturbedOK
  <1>6. PetHasFinalBuild'
    BY DEF IInv, WriteReplacement, Written, FailWith, verdict, TypeOK,
           VerdictOK, Forward, LoadedOK, PetHasFinalBuild, RollbackGivenUp
  <1>7. UndisturbedFailureRollsBack'
    BY DEF IInv, WriteReplacement, Written, FailWith, verdict, TypeOK,
           VerdictOK, Forward, UndisturbedOK, UndisturbedFailureRollsBack,
           RollbackGivenUp
  <1> QED
    BY <1>1, <1>2, <1>3, <1>4, <1>5, <1>6, <1>7 DEF IInv

\* The build leaves the file alone.
LEMMA BuildIInv == IInv /\ Build => IInv'
  <1> SUFFICES ASSUME IInv, Build PROVE IInv'
    OBVIOUS
  <1>1. TypeOK'
    BY DEF IInv, Build, BuildSucceeds, BuildFails, FailWith, verdict, TypeOK
  <1>2. VerdictOK'
    BY DEF IInv, Build, BuildSucceeds, BuildFails, FailWith, verdict,
           TypeOK, VerdictOK, Forward
  <1>3. LoadedOK'
    BY DEF IInv, Build, BuildSucceeds, BuildFails, FailWith, verdict,
           TypeOK, LoadedOK, Forward
  <1>4. IntervalOK'
    BY DEF IInv, Build, BuildSucceeds, BuildFails, FailWith, verdict,
           TypeOK, IntervalOK
  <1>5. UndisturbedOK'
    BY DEF IInv, Build, BuildSucceeds, BuildFails, FailWith, verdict,
           TypeOK, VerdictOK, Forward, IntervalOK, UndisturbedOK
  <1>6. PetHasFinalBuild'
    BY DEF IInv, Build, BuildSucceeds, BuildFails, FailWith, verdict,
           TypeOK, VerdictOK, Forward, LoadedOK, PetHasFinalBuild,
           RollbackGivenUp
  <1>7. UndisturbedFailureRollsBack'
    BY DEF IInv, Build, BuildSucceeds, BuildFails, FailWith, verdict,
           TypeOK, VerdictOK, Forward, UndisturbedOK,
           UndisturbedFailureRollsBack, RollbackGivenUp
  <1> QED
    BY <1>1, <1>2, <1>3, <1>4, <1>5, <1>6, <1>7 DEF IInv

\* Both digest checks on the way move on or give up.
LEMMA RequireDigestIInv ==
    ASSUME IInv, NEW here, NEW there, RequireDigest(here, there),
           <<here, there>> \in {<<"owned_built", "refresh">>,
                               <<"owned_refreshed", "audit">>}
    PROVE  IInv'
  <1>0. \/ here = "owned_built" /\ there = "refresh"
        \/ here = "owned_refreshed" /\ there = "audit"
    OBVIOUS
  <1>1. TypeOK'
    BY <1>0 DEF IInv, RequireDigest, FailWith, disk, verdict, TypeOK
  <1>2. VerdictOK'
    BY <1>0 DEF IInv, RequireDigest, FailWith, disk, verdict, TypeOK, VerdictOK,
           Forward
  <1>3. LoadedOK'
    BY <1>0 DEF IInv, RequireDigest, FailWith, disk, verdict, TypeOK, LoadedOK,
           Forward
  <1>4. IntervalOK'
    BY <1>0 DEF IInv, RequireDigest, FailWith, disk, verdict, TypeOK, IntervalOK
  <1>5. UndisturbedOK'
    BY <1>0 DEF IInv, RequireDigest, FailWith, disk, verdict, TypeOK, VerdictOK,
           Forward, IntervalOK, UndisturbedOK
  <1>6. PetHasFinalBuild'
    BY <1>0 DEF IInv, RequireDigest, FailWith, disk, verdict, TypeOK, VerdictOK,
           Forward, LoadedOK, PetHasFinalBuild, RollbackGivenUp
  <1>7. UndisturbedFailureRollsBack'
    BY <1>0 DEF IInv, RequireDigest, FailWith, disk, verdict, TypeOK, VerdictOK,
           Forward, UndisturbedOK, UndisturbedFailureRollsBack,
           RollbackGivenUp
  <1> QED
    BY <1>1, <1>2, <1>3, <1>4, <1>5, <1>6, <1>7 DEF IInv

\* A refresh leaves PET on the build, or without a process.
LEMMA RefreshIInv == IInv /\ Refresh => IInv'
  <1> SUFFICES ASSUME IInv, Refresh PROVE IInv'
    OBVIOUS
  <1>1. TypeOK'
    BY DEF IInv, Refresh, FailWith, disk, verdict, TypeOK
  <1>2. VerdictOK'
    BY DEF IInv, Refresh, FailWith, disk, verdict, TypeOK, VerdictOK,
           Forward
  <1>3. LoadedOK'
    BY DEF IInv, Refresh, FailWith, disk, verdict, TypeOK, LoadedOK, Forward
  <1>4. IntervalOK'
    BY DEF IInv, Refresh, FailWith, disk, verdict, TypeOK, IntervalOK
  <1>5. UndisturbedOK'
    BY DEF IInv, Refresh, FailWith, disk, verdict, TypeOK, VerdictOK,
           Forward, IntervalOK, UndisturbedOK
  <1>6. PetHasFinalBuild'
    BY DEF IInv, Refresh, FailWith, disk, verdict, TypeOK, VerdictOK,
           Forward, LoadedOK, PetHasFinalBuild, RollbackGivenUp
  <1>7. UndisturbedFailureRollsBack'
    BY DEF IInv, Refresh, FailWith, disk, verdict, TypeOK, VerdictOK,
           Forward, UndisturbedOK, UndisturbedFailureRollsBack,
           RollbackGivenUp
  <1> QED
    BY <1>1, <1>2, <1>3, <1>4, <1>5, <1>6, <1>7 DEF IInv

\* The audit reads the file that is there.
LEMMA AuditIInv == IInv /\ Audit => IInv'
  <1> SUFFICES ASSUME IInv, Audit PROVE IInv'
    OBVIOUS
  <1>1. TypeOK'
    BY DEF IInv, Audit, FailWith, disk, TypeOK
  <1>2. VerdictOK'
    BY DEF IInv, Audit, FailWith, disk, TypeOK, VerdictOK, Forward
  <1>3. LoadedOK'
    BY DEF IInv, Audit, FailWith, disk, TypeOK, LoadedOK, Forward
  <1>4. IntervalOK'
    BY DEF IInv, Audit, FailWith, disk, TypeOK, IntervalOK
  <1>5. UndisturbedOK'
    BY DEF IInv, Audit, FailWith, disk, TypeOK, VerdictOK, Forward,
           IntervalOK, UndisturbedOK
  <1>6. PetHasFinalBuild'
    BY DEF IInv, Audit, FailWith, disk, TypeOK, VerdictOK, Forward,
           LoadedOK, PetHasFinalBuild, RollbackGivenUp
  <1>7. UndisturbedFailureRollsBack'
    BY DEF IInv, Audit, FailWith, disk, TypeOK, VerdictOK, Forward,
           UndisturbedOK, UndisturbedFailureRollsBack, RollbackGivenUp
  <1> QED
    BY <1>1, <1>2, <1>3, <1>4, <1>5, <1>6, <1>7 DEF IInv

\* The last check answers only while the replacement is in place.
LEMMA CompleteIInv == IInv /\ Complete => IInv'
  <1> SUFFICES ASSUME IInv, Complete PROVE IInv'
    OBVIOUS
  <1>1. TypeOK'
    BY DEF IInv, Complete, Answer, FailWith, disk, TypeOK
  <1>2. VerdictOK'
    BY DEF IInv, Complete, Answer, FailWith, disk, TypeOK, VerdictOK,
           Forward
  <1>3. LoadedOK'
    BY DEF IInv, Complete, Answer, FailWith, disk, TypeOK, LoadedOK, Forward
  <1>4. IntervalOK'
    BY DEF IInv, Complete, Answer, FailWith, disk, TypeOK, IntervalOK
  <1>5. UndisturbedOK'
    BY DEF IInv, Complete, Answer, FailWith, disk, TypeOK, VerdictOK,
           Forward, IntervalOK, UndisturbedOK
  <1>6. PetHasFinalBuild'
    BY DEF IInv, Complete, Answer, FailWith, disk, TypeOK, VerdictOK,
           Forward, LoadedOK, PetHasFinalBuild, RollbackGivenUp
  <1>7. UndisturbedFailureRollsBack'
    BY DEF IInv, Complete, Answer, FailWith, disk, TypeOK, VerdictOK,
           Forward, UndisturbedOK, UndisturbedFailureRollsBack,
           RollbackGivenUp
  <1> QED
    BY <1>1, <1>2, <1>3, <1>4, <1>5, <1>6, <1>7 DEF IInv

\* The rollback takes back its own bytes only.
LEMMA RestoreCheckIInv == IInv /\ RestoreCheck => IInv'
  <1> SUFFICES ASSUME IInv, RestoreCheck PROVE IInv'
    OBVIOUS
  <1>1. TypeOK'
    BY DEF IInv, RestoreCheck, disk, verdict, TypeOK
  <1>2. VerdictOK'
    BY DEF IInv, RestoreCheck, disk, verdict, TypeOK, VerdictOK, Forward
  <1>3. LoadedOK'
    BY DEF IInv, RestoreCheck, disk, verdict, TypeOK, LoadedOK, Forward
  <1>4. IntervalOK'
    BY DEF IInv, RestoreCheck, disk, verdict, TypeOK, IntervalOK
  <1>5. UndisturbedOK'
    BY DEF IInv, RestoreCheck, disk, verdict, TypeOK, VerdictOK, Forward,
           IntervalOK, UndisturbedOK
  <1>6. PetHasFinalBuild'
    BY DEF IInv, RestoreCheck, disk, verdict, TypeOK, VerdictOK, Forward,
           LoadedOK, PetHasFinalBuild, RollbackGivenUp
  <1>7. UndisturbedFailureRollsBack'
    BY DEF IInv, RestoreCheck, disk, verdict, TypeOK, VerdictOK, Forward,
           UndisturbedOK, UndisturbedFailureRollsBack, RollbackGivenUp
  <1> QED
    BY <1>1, <1>2, <1>3, <1>4, <1>5, <1>6, <1>7 DEF IInv

\* A rollback that cannot write answers there.
LEMMA RestoreWriteIInv == IInv /\ RestoreWrite => IInv'
  <1> SUFFICES ASSUME IInv, RestoreWrite PROVE IInv'
    OBVIOUS
  <1>1. TypeOK'
    <2>1. file' \in Bytes
      BY DEF IInv, RestoreWrite, Written, Answer, TypeOK
    <2>2. restored' \in BOOLEAN /\ raced' \in BOOLEAN
      BY Zenon DEF IInv, RestoreWrite, Answer, TypeOK
    <2>3. /\ built' = built /\ edits' = edits /\ pet' = pet
          /\ rollback' = rollback /\ audited' = audited
          /\ pc' \in {"build", "restore", "rollback_build", "done"}
          /\ cause' \in {cause, "write"} /\ outcome' \in {outcome, "error"}
      BY DEF IInv, RestoreWrite, Answer, TypeOK
    <2> QED
      BY <2>1, <2>2, <2>3 DEF IInv, TypeOK
  <1>2. VerdictOK'
    BY DEF IInv, RestoreWrite, Written, Answer, TypeOK, VerdictOK, Forward
  <1>3. LoadedOK'
    BY DEF IInv, RestoreWrite, Written, Answer, TypeOK, LoadedOK, Forward
  <1>4. IntervalOK'
    BY DEF IInv, RestoreWrite, Written, Answer, TypeOK, IntervalOK
  <1>5. UndisturbedOK'
    BY DEF IInv, RestoreWrite, Written, Answer, TypeOK, VerdictOK, Forward,
           IntervalOK, UndisturbedOK
  <1>6. PetHasFinalBuild'
    BY DEF IInv, RestoreWrite, Written, Answer, TypeOK, VerdictOK, Forward,
           LoadedOK, PetHasFinalBuild, RollbackGivenUp
  <1>7. UndisturbedFailureRollsBack'
    BY DEF IInv, RestoreWrite, Written, Answer, TypeOK, VerdictOK, Forward,
           UndisturbedOK, UndisturbedFailureRollsBack, RollbackGivenUp
  <1> QED
    BY <1>1, <1>2, <1>3, <1>4, <1>5, <1>6, <1>7 DEF IInv

\* The rollback builds what is at the path.
LEMMA RollbackBuildIInv == IInv /\ RollbackBuild => IInv'
  <1> SUFFICES ASSUME IInv, RollbackBuild PROVE IInv'
    OBVIOUS
  <1>1. TypeOK'
    BY DEF IInv, RollbackBuild, BuildSucceeds, BuildFails, TypeOK
  <1>2. VerdictOK'
    BY DEF IInv, RollbackBuild, BuildSucceeds, BuildFails, TypeOK,
           VerdictOK, Forward
  <1>3. LoadedOK'
    BY DEF IInv, RollbackBuild, BuildSucceeds, BuildFails, TypeOK, LoadedOK,
           Forward
  <1>4. IntervalOK'
    BY DEF IInv, RollbackBuild, BuildSucceeds, BuildFails, TypeOK,
           IntervalOK
  <1>5. UndisturbedOK'
    BY DEF IInv, RollbackBuild, BuildSucceeds, BuildFails, TypeOK,
           VerdictOK, Forward, IntervalOK, UndisturbedOK
  <1>6. PetHasFinalBuild'
    BY DEF IInv, RollbackBuild, BuildSucceeds, BuildFails, TypeOK,
           VerdictOK, Forward, LoadedOK, PetHasFinalBuild, RollbackGivenUp
  <1>7. UndisturbedFailureRollsBack'
    BY DEF IInv, RollbackBuild, BuildSucceeds, BuildFails, TypeOK,
           VerdictOK, Forward, UndisturbedOK, UndisturbedFailureRollsBack,
           RollbackGivenUp
  <1> QED
    BY <1>1, <1>2, <1>3, <1>4, <1>5, <1>6, <1>7 DEF IInv

\* The rollback answers after its refresh.
LEMMA RollbackRefreshIInv == IInv /\ RollbackRefresh => IInv'
  <1> SUFFICES ASSUME IInv, RollbackRefresh PROVE IInv'
    OBVIOUS
  <1>1. TypeOK'
    BY DEF IInv, RollbackRefresh, Answer, Failure, disk, TypeOK
  <1>2. VerdictOK'
    BY DEF IInv, RollbackRefresh, Answer, Failure, disk, TypeOK, VerdictOK,
           Forward
  <1>3. LoadedOK'
    BY DEF IInv, RollbackRefresh, Answer, Failure, disk, TypeOK, LoadedOK,
           Forward
  <1>4. IntervalOK'
    BY DEF IInv, RollbackRefresh, Answer, Failure, disk, TypeOK, IntervalOK
  <1>5. UndisturbedOK'
    BY DEF IInv, RollbackRefresh, Answer, Failure, disk, TypeOK, VerdictOK,
           Forward, IntervalOK, UndisturbedOK
  <1>6. PetHasFinalBuild'
    BY DEF IInv, RollbackRefresh, Answer, Failure, disk, TypeOK, VerdictOK,
           Forward, LoadedOK, PetHasFinalBuild, RollbackGivenUp
  <1>7. UndisturbedFailureRollsBack'
    BY DEF IInv, RollbackRefresh, Answer, Failure, disk, TypeOK, VerdictOK,
           Forward, UndisturbedOK, UndisturbedFailureRollsBack,
           RollbackGivenUp
  <1> QED
    BY <1>1, <1>2, <1>3, <1>4, <1>5, <1>6, <1>7 DEF IInv

\* Other programs change the file and nothing else.
LEMMA ExternalEditIInv == IInv /\ ExternalEdit => IInv'
  <1> SUFFICES ASSUME IInv, ExternalEdit PROVE IInv'
    OBVIOUS
  <1>1. TypeOK'
    BY DEF IInv, ExternalEdit, verdict, TypeOK
  <1>2. VerdictOK'
    BY DEF IInv, ExternalEdit, verdict, TypeOK, VerdictOK, Forward
  <1>3. LoadedOK'
    BY DEF IInv, ExternalEdit, verdict, TypeOK, LoadedOK, Forward
  <1>4. IntervalOK'
    BY DEF IInv, ExternalEdit, verdict, TypeOK, IntervalOK
  <1>5. UndisturbedOK'
    BY DEF IInv, ExternalEdit, verdict, TypeOK, VerdictOK, Forward,
           IntervalOK, UndisturbedOK
  <1>6. PetHasFinalBuild'
    BY DEF IInv, ExternalEdit, verdict, TypeOK, VerdictOK, Forward,
           LoadedOK, PetHasFinalBuild, RollbackGivenUp
  <1>7. UndisturbedFailureRollsBack'
    BY DEF IInv, ExternalEdit, verdict, TypeOK, VerdictOK, Forward,
           UndisturbedOK, UndisturbedFailureRollsBack, RollbackGivenUp
  <1> QED
    BY <1>1, <1>2, <1>3, <1>4, <1>5, <1>6, <1>7 DEF IInv

\* The invariant is inductive.
LEMMA NextIInv == IInv /\ [Next]_vars => IInv'
  <1> SUFFICES ASSUME IInv, [Next]_vars PROVE IInv'
    OBVIOUS
  <1>1. CASE UNCHANGED vars
    BY <1>1 DEF IInv, vars, TypeOK, VerdictOK, LoadedOK, IntervalOK, UndisturbedOK,
                PetHasFinalBuild, UndisturbedFailureRollsBack, RollbackGivenUp
  <1>2. CASE Step
    <2>1. CASE RequireDigest("owned_built", "refresh")
      BY <2>1, RequireDigestIInv
    <2>2. CASE RequireDigest("owned_refreshed", "audit")
      BY <2>2, RequireDigestIInv
    <2> QED
      BY <1>2, <2>1, <2>2, PrepareIInv, CheckOwnerIInv, WriteReplacementIInv,
         BuildIInv, RefreshIInv, AuditIInv, CompleteIInv, RestoreCheckIInv,
         RestoreWriteIInv, RollbackBuildIInv, RollbackRefreshIInv DEF Step
  <1> QED
    BY <1>1, <1>2, ExternalEditIInv DEF Next

\* Every reachable state satisfies it.
LEMMA Reachable == Spec => []IInv
  BY InitIInv, NextIInv, PTL DEF Spec

-----------------------------------------------------------------------------
(* What a caller of publish_with_progress() may rely on.                   *)

\* Only known bytes are ever on disk, built or loaded, for any number of
\* external edits.
THEOREM TypeCorrect == Spec => []TypeOK
  <1>1. IInv => TypeOK
    BY DEF IInv
  <1> QED
    BY <1>1, Reachable, PTL

\* A publication that answers has left a running PET on the artifacts that are
\* on disk, unless restore_epoch() could not write the anchored bytes.
THEOREM PetCorrect == Spec => []PetHasFinalBuild
  <1>1. IInv => PetHasFinalBuild
    BY DEF IInv
  <1> QED
    BY <1>1, Reachable, PTL

\* Left alone, a publication that fails restores the anchored bytes, whatever
\* fails in publish_with_progress() and in the rollback, and says that the
\* declaration changed only if the audit of its own replacement did.
THEOREM RollbackCorrect == Spec => []UndisturbedFailureRollsBack
  <1>1. IInv => UndisturbedFailureRollsBack
    BY DEF IInv
  <1> QED
    BY <1>1, Reachable, PTL

-----------------------------------------------------------------------------
(* Completed.                                                              *)

\* The digest checks prove what they are meant to only if nobody else writes
\* the replacement's own bytes: the digest of a file that was changed and
\* changed back is the same.
LEMMA CurrentInductive ==
    ASSUME Repl \notin EditorBytes
    PROVE  IInv /\ CurrentOK /\ CompletedWasBuiltAndAudited /\ [Next]_vars
             => CurrentOK' /\ CompletedWasBuiltAndAudited'
  <1> SUFFICES ASSUME IInv, CurrentOK, CompletedWasBuiltAndAudited, [Next]_vars
               PROVE  CurrentOK' /\ CompletedWasBuiltAndAudited'
    OBVIOUS
  <1> USE DEF CurrentOK, CompletedWasBuiltAndAudited, IInv, VerdictOK, LoadedOK, Forward
  <1>1. CASE UNCHANGED vars
    BY <1>1 DEF vars
  <1>2. CASE Prepare \/ CheckOwner \/ WriteReplacement
    BY <1>2 DEF Prepare, CheckOwner, WriteReplacement, Answer, FailWith, disk, verdict
  <1>3. CASE Build
    BY <1>3 DEF Build, BuildSucceeds, FailWith, verdict
  <1>4. CASE \/ RequireDigest("owned_built", "refresh")
             \/ RequireDigest("owned_refreshed", "audit")
    BY <1>4 DEF RequireDigest, FailWith, disk, verdict
  <1>5. CASE Refresh \/ Audit
    BY <1>5 DEF Refresh, Audit, FailWith, disk, verdict
  <1>6. CASE Complete
    BY <1>6 DEF Complete, Answer, FailWith, disk
  <1>7. CASE RestoreCheck \/ RestoreWrite \/ RollbackBuild
    BY <1>7 DEF RestoreCheck, RestoreWrite, RollbackBuild, Answer, disk, verdict
  <1>8. CASE RollbackRefresh
    BY <1>8 DEF RollbackRefresh, Answer, Failure, disk
  <1>9. CASE ExternalEdit
    BY <1>9 DEF ExternalEdit, verdict
  <1> QED
    BY <1>1, <1>2, <1>3, <1>4, <1>5, <1>6, <1>7, <1>8, <1>9 DEF Next, Step

\* If no other program writes the replacement itself, Completed is answered only
\* for bytes that Dune built, PET audited and PET has loaded.
THEOREM CompletedCorrect ==
    ASSUME Repl \notin EditorBytes
    PROVE  Spec => []CompletedWasBuiltAndAudited
  <1>1. Init => CurrentOK /\ CompletedWasBuiltAndAudited
    BY DEF Init, CurrentOK, CompletedWasBuiltAndAudited
  <1>2. IInv /\ CurrentOK /\ CompletedWasBuiltAndAudited /\ [Next]_vars
          => CurrentOK' /\ CompletedWasBuiltAndAudited'
    BY CurrentInductive
  <1> QED
    BY <1>1, <1>2, Reachable, PTL DEF Spec

-----------------------------------------------------------------------------
(* The refinement.                                                         *)

\* Every step of the transaction is a swap, the answer, an edit of somebody
\* else, or nothing at all to who only sees the file and the outcome.
LEMMA StepIsCas ==
    ASSUME IInv, [Next]_vars
    PROVE  [Cas!Next]_<<file, outcome, edits, raced>>
  <1> USE DEF IInv, VerdictOK, IntervalOK, Forward
  <1>1. CASE UNCHANGED vars
    BY <1>1 DEF vars
  <1>2. CASE Prepare
    <2>1. CASE pc' = "check"
      BY <1>2, <2>1 DEF Prepare, Answer, disk
    <2>2. CASE pc' = "done"
      <3>1. Cas!Finish
        BY <1>2, <2>2 DEF Prepare, Answer, disk, Cas!Finish
      <3> QED
        BY <3>1 DEF Cas!Next
    <2> QED
      BY <1>2, <2>1, <2>2 DEF Prepare, Answer
  <1>3. CASE CheckOwner \/ Build \/ Refresh \/ Audit \/ RestoreCheck \/ RollbackBuild
    BY <1>3 DEF CheckOwner, Build, Refresh, Audit, RestoreCheck, RollbackBuild,
                FailWith, disk, verdict
  <1>4. CASE \/ RequireDigest("owned_built", "refresh")
             \/ RequireDigest("owned_refreshed", "audit")
    BY <1>4 DEF RequireDigest, FailWith, disk, verdict
  <1>5. CASE WriteReplacement
    <2>1. /\ outcome = "running" /\ UNCHANGED <<outcome, edits>> /\ raced' = FALSE
          /\ file' \in {file, Repl}
      BY <1>5 DEF WriteReplacement, Written, FailWith, verdict
    <2>2. raced \/ file = Orig
      BY <1>5 DEF WriteReplacement
    <2>3. CASE raced \/ file' # file
      BY <2>1, <2>2, <2>3 DEF Cas!Swap, Cas!Next
    <2>4. CASE ~raced /\ file' = file
      BY <2>1, <2>4, Zenon DEF TypeOK
    <2> QED
      BY <2>3, <2>4
  <1>6. CASE Complete
    <2>1. CASE file = Repl
      <3>1. Cas!Finish
        BY <1>6, <2>1 DEF Complete, Answer, disk, Cas!Finish
      <3> QED
        BY <3>1 DEF Cas!Next
    <2>2. CASE file # Repl
      BY <1>6, <2>2 DEF Complete, FailWith, disk
    <2> QED
      BY <2>1, <2>2
  <1>7. CASE RestoreWrite
    <2>1. /\ outcome = "running" /\ outcome' \in {outcome, "error"}
          /\ UNCHANGED edits /\ raced' = FALSE /\ file' \in {file, Orig}
      BY <1>7 DEF RestoreWrite, Written, Answer
    <2>2. raced \/ file = Repl
      BY <1>7 DEF RestoreWrite
    <2>3. CASE outcome' = "error"
      <3>1. Cas!Finish
        BY <2>1, <2>2, <2>3 DEF Cas!Finish
      <3> QED
        BY <3>1 DEF Cas!Next
    <2>4. CASE outcome' = outcome /\ (raced \/ file' # file)
      BY <2>1, <2>2, <2>4 DEF Cas!Swap, Cas!Next
    <2>5. CASE outcome' = outcome /\ ~raced /\ file' = file
      BY <2>1, <2>5, Zenon DEF TypeOK
    <2> QED
      BY <2>1, <2>3, <2>4, <2>5
  <1>8. CASE RollbackRefresh
    <2>1. Cas!Finish
      BY <1>8 DEF RollbackRefresh, Answer, Failure, disk, Cas!Finish
    <2> QED
      BY <2>1 DEF Cas!Next
  <1>9. CASE ExternalEdit
    <2>1. Cas!ExternalEdit
      BY <1>9 DEF ExternalEdit, verdict, TypeOK, Cas!ExternalEdit
    <2> QED
      BY <2>1 DEF Cas!Next
  <1> QED
    BY <1>1, <1>2, <1>3, <1>4, <1>5, <1>6, <1>7, <1>8, <1>9 DEF Next, Step

\* Whatever happens inside, the file and the outcome behave like SourceCas: the
\* server swaps its own bytes against the anchored ones and nothing else, up to
\* edits between a digest check and its rename.
THEOREM RefinesCompareAndSwap == Spec => IsCompareAndSwap
  <1>1. Init => Cas!Init
    BY DEF Init, Cas!Init
  <1>2. IInv /\ [Next]_vars => [Cas!Next]_<<file, outcome, edits, raced>>
    BY StepIsCas
  <1> QED
    BY <1>1, <1>2, Reachable, PTL DEF Spec, IsCompareAndSwap, Cas!Spec

=============================================================================
