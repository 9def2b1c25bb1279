----------------------------- MODULE Writeback ------------------------------
(***************************************************************************)
(* One publication of writeback.rs: prepare(), publish_with_progress() and *)
(* restore_epoch(), with other writers of the same file.                   *)
(*                                                                         *)
(* The request has committed, so no cancellation reaches these steps, and  *)
(* the project barrier keeps every other tool call out.  Editors, version  *)
(* control and generators are not kept out.  Dune and PET are external.    *)
(***************************************************************************)
EXTENDS Naturals

CONSTANTS
    Orig,           \* bytes the proof is anchored to
    Repl,           \* the rendered replacement
    Missing,        \* nothing readable at the path
    EditorBytes,    \* what others may leave there
    Broken,         \* artifacts of a build that did not finish
    NoPet,          \* no PET process
    MaxEdits        \* bound: external edits during the transaction

Bytes == {Orig, Repl, Missing} \cup EditorBytes

ASSUME WritebackAssumption ==
    /\ Orig # Repl /\ Missing \notin {Orig, Repl}
    /\ Broken \notin Bytes /\ NoPet \notin Bytes \cup {Broken}
    /\ MaxEdits \in Nat

VARIABLES
    file,       \* bytes at the source path
    built,      \* bytes the compiled artifacts come from
    pet,        \* artifacts PET has loaded since its last refresh
    pc,         \* next step of the transaction
    cause,      \* the error the rollback is for
    restored,   \* restore_epoch() put the anchored bytes back
    rollback,   \* "none", "ok", or "failed" once the rollback has built
    audited,    \* bytes PET audited
    outcome,    \* "running" until the transaction answers
    edits,      \* external edits so far
    raced       \* history: others wrote between the last digest check and the
                \* rename it is for

vars == <<file, built, pet, pc, cause, restored, rollback, audited, outcome, edits, raced>>
disk == <<file, built, edits, raced>>
verdict == <<cause, restored, rollback, audited, outcome>>

At(step) == pc = step

-----------------------------------------------------------------------------
(* The transaction.                                                        *)

Answer(result) ==
    /\ pc' = "done"
    /\ outcome' = result

\* validate_target() and prepare(): before any handle is given up.  They may
\* also fail for reasons that are not the file's bytes.
Prepare ==
    /\ At("prepare")
    /\ \/ file = Orig /\ pc' = "check" /\ UNCHANGED outcome
       \/ file # Orig /\ Answer("changed")
       \/ Answer("error")
    /\ UNCHANGED <<disk, pet, cause, restored, rollback, audited>>

\* Give up for `why' and go on with restore_epoch().
FailWith(why) ==
    /\ cause' = why
    /\ pc' = "restore"
    /\ UNCHANGED <<restored, rollback, audited, outcome>>

\* The digest check immediately before the replacement.
CheckOwner ==
    /\ At("check")
    /\ IF file = Orig
       THEN pc' = "write" /\ UNCHANGED verdict
       ELSE FailWith("owner")
    /\ UNCHANGED <<disk, pet>>

\* atomic_write(): nothing happens, or the rename does; the directory sync
\* after the rename may still fail.  A missing path is never created.
Written(bytes) == IF file = Missing THEN {file} ELSE {file, bytes}

WriteReplacement ==
    /\ At("write")
    /\ \/ /\ file # Missing
          /\ file' = Repl
          /\ pc' = "build"
          /\ UNCHANGED verdict
       \/ /\ file' \in Written(Repl)
          /\ FailWith("write")
    /\ raced' = FALSE
    /\ UNCHANGED <<built, edits, pet>>

\* native_build(): Dune compiles what is at the path, or stops on the way.
BuildSucceeds == file # Missing /\ built' = file

BuildFails == built' \in {built, Broken}

Build ==
    /\ At("build")
    /\ \/ BuildSucceeds /\ pc' = "owned_built" /\ UNCHANGED verdict
       \/ BuildFails /\ FailWith("build")
    /\ UNCHANGED <<file, edits, raced, pet>>

\* require_digest(), three times.
RequireDigest(here, there) ==
    /\ At(here)
    /\ IF file = Repl
       THEN pc' = there /\ UNCHANGED verdict
       ELSE FailWith("digest")
    /\ UNCHANGED <<disk, pet>>

\* refresh_workspace(): PET reloads, or a new process does; without either the
\* transaction fails and no process is left.
Refresh ==
    /\ At("refresh")
    /\ \/ pet' = built /\ pc' = "owned_refreshed" /\ UNCHANGED verdict
       \/ pet' = NoPet /\ FailWith("pet")
    /\ UNCHANGED disk

\* Mutant of Audit: an error of the audit is ignored.
AuditErrorIgnored ==
    /\ At("audit")
    /\ pc' = "owned_audited"
    /\ audited' \in {audited, file}
    /\ UNCHANGED <<disk, pet, cause, restored, rollback, outcome>>

\* What goes wrong in an audit: "declaration" is the DeclarationChanged that the
\* validate closure raises of its own accord, because the written declaration is
\* of another kind or a source it needs cannot be read; "audit" is any other
\* error.
AuditErrors == {"audit", "declaration"}

\* The validate closure: resolve the declaration in the current source and
\* audit it.  PET may be lost here too.
Audit ==
    /\ At("audit")
    /\ \/ /\ file # Missing
          /\ pet' = built
          /\ audited' = file
          /\ pc' = "owned_audited"
          /\ UNCHANGED <<cause, restored, rollback, outcome>>
       \/ pet' \in {built, NoPet} /\ \E why \in AuditErrors : FailWith(why)
    /\ UNCHANGED disk

\* The last digest check decides.
Complete ==
    /\ At("owned_audited")
    /\ IF file = Repl
       THEN Answer("completed") /\ UNCHANGED <<cause, restored, rollback, audited>>
       ELSE FailWith("digest")
    /\ UNCHANGED <<disk, pet>>

-----------------------------------------------------------------------------
(* restore_epoch().                                                        *)

\* Mutant of RestoreCheck: whatever is there is taken back.
RestoreAlways ==
    /\ At("restore")
    /\ pc' = IF file = Missing THEN "rollback_build" ELSE "restore_write"
    /\ UNCHANGED <<disk, pet, verdict>>

\* Mutant of RestoreCheck: compared with the wrong digest.
RestoreIfOriginal ==
    /\ At("restore")
    /\ pc' = IF file = Orig THEN "restore_write" ELSE "rollback_build"
    /\ UNCHANGED <<disk, pet, verdict>>

\* Only our own bytes are taken back.
RestoreCheck ==
    /\ At("restore")
    /\ pc' = IF file = Repl THEN "restore_write" ELSE "rollback_build"
    /\ UNCHANGED <<disk, pet, verdict>>

\* Mutant of RestoreWrite: a failed write is tried again without end.
RestoreWriteRetries ==
    /\ At("restore_write")
    /\ \/ file # Missing /\ file' = Orig /\ restored' = TRUE /\ pc' = "rollback_build"
       \/ pc' = "restore" /\ UNCHANGED <<file, restored>>
    /\ raced' = FALSE
    /\ UNCHANGED <<built, edits, pet, cause, rollback, audited, outcome>>

\* The error of this write returns at once.
RestoreWrite ==
    /\ At("restore_write")
    /\ \/ /\ file # Missing
          /\ file' = Orig
          /\ restored' = TRUE
          /\ pc' = "rollback_build"
          /\ UNCHANGED outcome
       \/ /\ file' \in Written(Orig)
          /\ Answer("error")
          /\ UNCHANGED restored
    /\ raced' = FALSE
    /\ UNCHANGED <<built, edits, pet, cause, rollback, audited>>

RollbackBuild ==
    /\ At("rollback_build")
    /\ \/ BuildSucceeds /\ rollback' = "ok"
       \/ BuildFails /\ rollback' = "failed"
    /\ pc' = "rollback_refresh"
    /\ UNCHANGED <<file, edits, raced, pet, cause, restored, audited, outcome>>

\* What the publisher answers once the rollback is through: that somebody else
\* owns the file, or else its own error, which is DeclarationChanged if a digest
\* check or the audit says so.
Failure ==
    IF /\ rollback = "ok"
       /\ \/ cause \in {"owner", "digest", "declaration"}
          \/ cause # "write" /\ ~restored
    THEN "changed" ELSE "error"

\* Mutant of RollbackRefresh: a failed build returns before the refresh.
RefreshOnlyAfterBuild ==
    /\ At("rollback_refresh")
    /\ \/ rollback = "failed" /\ Answer("error") /\ UNCHANGED pet
       \/ rollback = "ok" /\ pet' = built /\ Answer(Failure)
    /\ UNCHANGED <<disk, cause, restored, rollback, audited>>

RollbackRefresh ==
    /\ At("rollback_refresh")
    /\ \/ pet' = built /\ Answer(Failure)
       \/ pet' = NoPet /\ Answer("error")
    /\ UNCHANGED <<disk, cause, restored, rollback, audited>>

-----------------------------------------------------------------------------

\* Another program writes, replaces or removes the file.
ExternalEdit ==
    /\ edits < MaxEdits
    /\ file' \in EditorBytes \ {file}
    /\ edits' = edits + 1
    /\ raced' = (raced \/ pc \in {"write", "restore_write"})
    /\ UNCHANGED <<built, pet, pc, verdict>>

Init ==
    /\ file = Orig
    /\ built \in {Orig, Broken}
    /\ pet = built
    /\ pc = "prepare"
    /\ cause = "none"
    /\ restored = FALSE
    /\ rollback = "none"
    /\ audited = Missing
    /\ outcome = "running"
    /\ edits = 0
    /\ raced = FALSE

Step ==
    \/ Prepare \/ CheckOwner \/ WriteReplacement \/ Build
    \/ RequireDigest("owned_built", "refresh") \/ Refresh
    \/ RequireDigest("owned_refreshed", "audit") \/ Audit \/ Complete
    \/ RestoreCheck \/ RestoreWrite \/ RollbackBuild \/ RollbackRefresh

Next == Step \/ ExternalEdit

Spec == Init /\ [][Next]_vars

\* The transaction is one straight-line function.  That Dune and PET answer it
\* is assumed: the code has no default deadline for either.
LiveSpec == Spec /\ WF_vars(Step)

-----------------------------------------------------------------------------

\* Only known bytes are ever on disk, built or loaded.
TypeOK ==
    /\ file \in Bytes
    /\ built \in Bytes \cup {Broken}
    /\ pet \in Bytes \cup {Broken, NoPet}
    /\ pc \in {"prepare", "check", "write", "build", "owned_built", "refresh",
               "owned_refreshed", "audit", "owned_audited", "restore",
               "restore_write", "rollback_build", "rollback_refresh", "done"}
    /\ cause \in {"none", "owner", "write", "build", "digest", "pet"} \cup AuditErrors
    /\ restored \in BOOLEAN
    /\ rollback \in {"none", "ok", "failed"}
    /\ audited \in Bytes
    /\ outcome \in {"running", "completed", "changed", "error"}
    /\ edits \in 0..MaxEdits /\ raced \in BOOLEAN

\* Completed means that Dune built and PET audited the very bytes that were
\* published, and that PET runs on that build.
CompletedWasBuiltAndAudited ==
    outcome = "completed" => built = Repl /\ audited = Repl /\ pet = Repl

\* restore_epoch() returned because the anchored bytes could not be written
\* back, before its build and its refresh.
RollbackGivenUp == At("done") /\ cause # "none" /\ rollback = "none"

\* When the transaction answers, a running PET has the artifacts that are on
\* disk: nothing opened later sees a compiled environment from before.  A
\* rollback that could not write is the one exception.
PetHasFinalBuild ==
    At("done") /\ ~RollbackGivenUp => pet \in {built, NoPet}

\* Without other writers a failed publication leaves the anchored bytes, and
\* their build unless that failed as well; only a rollback that cannot write
\* leaves something else.  It says that the declaration changed, upon which the
\* adapter drops the proof, for one reason only: the audit of its own
\* replacement said so.  A failed write, build, refresh or rollback never does.
UndisturbedFailureRollsBack ==
    At("done") /\ edits = 0 /\ outcome # "completed" =>
        /\ outcome = "changed" => cause = "declaration"
        /\ file = Orig \/ RollbackGivenUp
        /\ rollback = "ok" => built = Orig

\* The file seen from outside is that of a compare-and-swap, up to edits that
\* fall between a digest check and the rename it is for.
Cas == INSTANCE SourceCas

IsCompareAndSwap == Cas!Spec

\* The publication always answers.
Answers == <>(outcome # "running")

=============================================================================
