--------------------------- MODULE MCProjectEpoch ---------------------------
(***************************************************************************)
(* Two files that share a dependency, three states of the Dune files.      *)
(***************************************************************************)
EXTENDS ProjectEpoch, TLC

CONSTANTS lib, left, right

Shared == (lib :> {}) @@ (left :> {lib}) @@ (right :> {lib})

Rule(x, library) == [file |-> x, library |-> library, inside |-> TRUE]

\* All three files; two files under one logical name; only the dependency.
Stanzas ==
    << {Rule(x, x) : x \in {lib, left, right}},
       {Rule(lib, lib), Rule(left, "same"), Rule(right, "same")},
       {Rule(lib, lib)} >>

FromZero == [c \in 0..2 |-> Stanzas[c + 1]]

\* The two users of lib are interchangeable.
Symmetry == Permutations({left, right})

=============================================================================
