--------------------------- MODULE CheckpointBook ---------------------------
(***************************************************************************)
(* The state machine of one CheckpointBook: any order of the calls that    *)
(* the adapter makes on it, with PET handles drawn from the ones the book  *)
(* does not hold yet.                                                      *)
(***************************************************************************)
EXTENDS CheckpointTree

VARIABLE book

Init == book = EmptyBook

\* A handle PET has just exported: it cannot be one this book still owns.
Fresh == PetId \ Retained(book)

BeginProof ==
    /\ ~Active(book)
    /\ CanAllocate(book)
    /\ \E target \in Target, state \in Fresh, finished \in BOOLEAN :
          book' = Begin(book, target, state, finished)

\* check: ensure_current_state() has given the parent a handle before the
\* fragment ran on it.
CommitStep ==
    /\ Active(book)
    /\ book.nodes[book.current].state # Null
    /\ CanAllocate(book)
    /\ \E state \in Fresh, input \in Input, finished \in BOOLEAN :
          book' = Commit(book, state, input, finished)

CommitWithoutProof ==
    /\ ~Active(book)
    /\ CanAllocate(book)
    /\ book' = CommitRefused(book)

\* rewind: by checkpoint id or by a number of steps.
SelectCheckpoint ==
    /\ Active(book)
    /\ \E id \in Nodes(book) \cup {StepsBack(book, k) : k \in 1..MaxId} :
          /\ id \in Nodes(book)
          /\ book' = Select(book, id)

ClearProof ==
    /\ Active(book)
    /\ book' = Clear(book)

Invalidate == book' = InvalidateStates(book)

\* replay_checkpoint(): fresh handles for the missing suffix of one path.
ReplayPath ==
    /\ Active(book)
    /\ \E id \in Nodes(book) :
       \E staged \in [MissingSuffix(book, id) -> Fresh] :
          /\ \A i, j \in MissingSuffix(book, id) : staged[i] = staged[j] => i = j
          /\ book' = InstallStates(book, staged)

Next ==
    \/ BeginProof
    \/ CommitStep
    \/ CommitWithoutProof
    \/ SelectCheckpoint
    \/ ClearProof
    \/ Invalidate
    \/ ReplayPath

Spec == Init /\ [][Next]_book

-----------------------------------------------------------------------------

\* The book stays a value of the Rust types: ids in range (the u64 counter does
\* not wrap in allocate()), every node complete.
TypeOK == IsBook(book)

\* The nodes form one tree in which every parent is older than its children:
\* parent links never dangle and path() always ends, at the only root.
TreeOK ==
    /\ Active(book) <=> Nodes(book) # {}
    /\ Active(book) => book.current \in Nodes(book) /\ book.target # Null
    /\ \A i \in Nodes(book) :
          LET p == book.nodes[i].parent
          IN  /\ i <= book.next
              /\ p # 0 => p \in Nodes(book) /\ p < i
              /\ book.nodes[i].input = Null <=> p = 0
    /\ \A i, j \in Nodes(book) :
          book.nodes[i].parent = 0 /\ book.nodes[j].parent = 0 => i = j

\* A checkpoint with a live PET handle has them on its whole path.  Replay
\* therefore never meets a live handle behind a missing one: the list of
\* `replaced' handles it releases at the end is always empty.
AncestorsRetained ==
    \A i \in Nodes(book) :
        book.nodes[i].parent # 0 /\ book.nodes[i].state # Null
            => book.nodes[book.nodes[i].parent].state # Null

\* No two checkpoints own the same PET handle, so releasing the states of one
\* proof releases each exactly once.
HandlesDistinct ==
    \A i, j \in Nodes(book) :
        book.nodes[i].state # Null /\ book.nodes[i].state = book.nodes[j].state
            => i = j

\* path() lists exactly the lineage of a checkpoint, root first, and
\* steps_back(k) is the k-th element from its end.
PathMatchesLineage ==
    \A id \in Nodes(book) :
        LET path == Path(book, id)
        IN  /\ {path[k] : k \in 1..Len(path)} = Lineage(book, id)
            /\ \A k \in 1..(Len(path) - 1) : path[k] < path[k + 1]
            /\ Len(Fragments(book, id)) = Len(path) - 1
            /\ id = book.current =>
                  \A k \in 1..MaxId :
                     StepsBack(book, k) =
                        IF k < Len(path) THEN path[Len(path) - k] ELSE 0

\* Checkpoint ids are never given out twice on one connection, not even to
\* the next proof: a client holding an id of an abandoned proof cannot select
\* a node of the new one with it.  No id up to the counter enters the graph
\* again, and clear() leaves the counter where it is.
IdsNeverReused ==
    [][/\ book'.next >= book.next
       /\ \A i \in Nodes(book)' \ Nodes(book) : i > book.next]_book

\* A step never rewrites history: as long as a node stays in the graph its
\* parent, accepted input and completion bit are those it was committed with.
HistoryImmutable ==
    [][\A i \in Nodes(book) \cap Nodes(book)' :
          /\ book'.nodes[i].parent = book.nodes[i].parent
          /\ book'.nodes[i].input = book.nodes[i].input
          /\ book'.nodes[i].finished = book.nodes[i].finished]_book

=============================================================================
