----------------------------- MODULE SourceCas ------------------------------
(***************************************************************************)
(* What a publication promises to whoever else edits the source file: the  *)
(* server compares and swaps.  It replaces the anchored bytes by its own,  *)
(* and its own by the anchored ones, and nothing else; it reports          *)
(* completion only while its own bytes are in place.  POSIX has no atomic  *)
(* compare-and-rename, so an edit inside the interval of a swap is lost:   *)
(* `raced' is up only there, and at most one swap profits from it.         *)
(***************************************************************************)
EXTENDS Naturals

CONSTANTS
    Orig,       \* the anchored bytes
    Repl,       \* the prepared replacement
    EditorBytes \* what others may leave at the path

VARIABLES
    file,
    outcome,
    edits,      \* writes of others: they tell an edit from a swap
    raced       \* the last write of others fell into the interval of a swap

Init == file = Orig /\ outcome = "running" /\ edits = 0 /\ raced = FALSE

\* At any time, before, during and after the transaction.
ExternalEdit ==
    /\ file' \in EditorBytes \ {file}
    /\ edits' = edits + 1
    /\ raced' \in IF outcome = "running" THEN BOOLEAN ELSE {FALSE}
    /\ UNCHANGED outcome

\* The end of the interval, with or without its rename.
Swap ==
    /\ outcome = "running"
    /\ \/ <<file, file'>> \in {<<Orig, Repl>>, <<Repl, Orig>>}
       \/ raced /\ file' \in {file, Orig, Repl}
    /\ raced' = FALSE
    /\ UNCHANGED <<outcome, edits>>

\* A rollback that could not write may end the interval with the transaction.
Finish ==
    /\ outcome = "running"
    /\ outcome' \in {"completed", "changed", "error"}
    /\ outcome' = "completed" => file = Repl /\ UNCHANGED file
    /\ <<file, file'>> \in {<<file, file>>, <<Repl, Orig>>} \/ (raced /\ file' = Orig)
    /\ raced' = FALSE
    /\ UNCHANGED edits

Next == ExternalEdit \/ Swap \/ Finish

Spec == Init /\ [][Next]_<<file, outcome, edits, raced>>

=============================================================================
