-------------------------- MODULE MCProofSessions --------------------------
(***************************************************************************)
(* Two sessions on one project.                                            *)
(***************************************************************************)
EXTENDS ProofSessions, TLC

\* Sessions, source texts and artifact versions are interchangeable.
Symmetry == Permutations(Session) \cup Permutations(Target) \cup Permutations(Env)

=============================================================================
