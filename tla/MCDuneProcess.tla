--------------------------- MODULE MCDuneProcess ---------------------------
EXTENDS DuneProcess, TLC

CONSTANTS w, link
\* The workspace w is reached as itself and through a symbolic link.
Linked == (w :> w) @@ (link :> w)

\* A build of a request with a deadline, a build of a direct caller of the
\* engine, and a description in a private build directory.
Kinds == {[real |-> TRUE, timed |-> TRUE, scoped |-> TRUE],
          [real |-> TRUE, timed |-> FALSE, scoped |-> FALSE],
          [real |-> FALSE, timed |-> FALSE, scoped |-> TRUE]}
=============================================================================
