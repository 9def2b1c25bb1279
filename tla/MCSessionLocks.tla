--------------------------- MODULE MCSessionLocks ---------------------------
(***************************************************************************)
(* A few sessions that move between two projects.                          *)
(***************************************************************************)
EXTENDS SessionLocks

=============================================================================
