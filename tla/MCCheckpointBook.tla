-------------------------- MODULE MCCheckpointBook --------------------------
(***************************************************************************)
(* One book with up to four checkpoints over its lifetime.                 *)
(***************************************************************************)
EXTENDS CheckpointBook, TLC

\* PET handles are interchangeable for the graph.
HandleSymmetry == Permutations(PetId)

=============================================================================
