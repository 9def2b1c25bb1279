---------------------------- MODULE MCWriteback -----------------------------
(***************************************************************************)
(* One publication among external edits.                                   *)
(***************************************************************************)
EXTENDS Writeback
=============================================================================
