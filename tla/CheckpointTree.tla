--------------------------- MODULE CheckpointTree ---------------------------
(***************************************************************************)
(* The checkpoint graph of one MCP session (rocq-mcp/src/checkpoint.rs).   *)
(*                                                                         *)
(* A book is a value: the id counter, the selected proof's target, its     *)
(* current checkpoint and its nodes.  Every operator takes a book and      *)
(* returns the book after the method of the same name.  Checkpoint ids are *)
(* the numbers 1..MaxId; 0 stands for "no checkpoint" (Option::None).      *)
(***************************************************************************)
EXTENDS Naturals, Sequences

CONSTANTS
    Input,      \* accepted proof fragments
    PetId,      \* integers a PET process may use as exported state ids
    Target,     \* what a proof is anchored to
    MaxId,      \* the largest checkpoint id: u64::MAX in the code
    Null        \* Option::None for targets, inputs and PET handles

ASSUME MaxIdAssumption == MaxId \in Nat \ {0}
ASSUME NullAssumption == Null \notin Input \cup PetId \cup Target

Id == 1..MaxId

\* One Checkpoint.  The rendered view it also carries is never consulted by
\* the graph and is left out.
Node == [parent   : 0..MaxId,
         state    : PetId \cup {Null},
         input    : Input \cup {Null},
         finished : BOOLEAN]

\* CheckpointBook: `current' is 0 when no proof is selected.
BookOver(D) == [next    : 0..MaxId,
                target  : Target \cup {Null},
                current : 0..MaxId,
                nodes   : [D -> Node]]

IsBook(b) == \E D \in SUBSET Id : b \in BookOver(D)

NoNodes == [i \in {} |-> Null]

EmptyBook == [next |-> 0, target |-> Null, current |-> 0, nodes |-> NoNodes]

Active(b) == b.current # 0

Nodes(b) == DOMAIN b.nodes

-----------------------------------------------------------------------------
(* Methods that change the book.                                           *)

\* Mutant of CanAllocate: the addition is not checked.
CanAllocateUnchecked(b) == b.next <= MaxId

\* allocate(): the counter is never reset, so ids are unique over the whole
\* connection; the checked addition refuses to wrap.
CanAllocate(b) == b.next < MaxId

\* begin(): only without a selected proof; the new root is current.
Begin(b, target, state, finished) ==
    [next    |-> b.next + 1,
     target  |-> target,
     current |-> b.next + 1,
     nodes   |-> [i \in {b.next + 1} |->
                    [parent |-> 0, state |-> state,
                     input |-> Null, finished |-> finished]]]

\* Mutant of Commit: the node keeps the handle the fragment ran on.
CommitKeepsParentState(b, state, input, finished) ==
    [b EXCEPT
        !.next    = b.next + 1,
        !.current = b.next + 1,
        !.nodes   = [i \in Nodes(b) \cup {b.next + 1} |->
                       IF i = b.next + 1
                       THEN [parent |-> b.current, state |-> b.nodes[b.current].state,
                             input |-> input, finished |-> finished]
                       ELSE b.nodes[i]]]

\* Mutant of Commit: the parent is the newest checkpoint, not the current one.
CommitUnderNewest(b, state, input, finished) ==
    [b EXCEPT
        !.next    = b.next + 1,
        !.current = b.next + 1,
        !.nodes   = [i \in Nodes(b) \cup {b.next + 1} |->
                       IF i = b.next + 1
                       THEN [parent |-> CHOOSE n \in Nodes(b) : \A m \in Nodes(b) : m <= n,
                             state |-> state, input |-> input, finished |-> finished]
                       ELSE b.nodes[i]]]

\* commit(): the new node is a child of the current one and becomes current.
Commit(b, state, input, finished) ==
    [b EXCEPT
        !.next    = b.next + 1,
        !.current = b.next + 1,
        !.nodes   = [i \in Nodes(b) \cup {b.next + 1} |->
                       IF i = b.next + 1
                       THEN [parent |-> b.current, state |-> state,
                             input |-> input, finished |-> finished]
                       ELSE b.nodes[i]]]

\* commit() without a selected proof: the id is allocated before the proof is
\* looked up, so the refusal still consumes one.
CommitRefused(b) == [b EXCEPT !.next = b.next + 1]

\* select(): the caller has found the id among the nodes.
Select(b, id) == [b EXCEPT !.current = id]

\* Mutant of Clear: the selection goes, the nodes stay.
ClearKeepsNodes(b) == [b EXCEPT !.current = 0, !.target = Null]

\* Mutant of Clear: the counter starts again.
ClearResetsIds(b) == EmptyBook

\* clear(): everything but the counter.
Clear(b) == [EmptyBook EXCEPT !.next = b.next]

\* Mutant of InvalidateStates: the completion bit is forgotten with the handle.
InvalidateFinished(b) ==
    [b EXCEPT !.nodes =
        [i \in Nodes(b) |-> [b.nodes[i] EXCEPT !.state = Null, !.finished = FALSE]]]

\* invalidate_states(): forget the process-local handles, keep the graph.
InvalidateStates(b) ==
    [b EXCEPT !.nodes = [i \in Nodes(b) |-> [b.nodes[i] EXCEPT !.state = Null]]]

\* The last loop of replay_checkpoint(): every staged state replaces the
\* handle of its checkpoint.
InstallStates(b, staged) ==
    [b EXCEPT !.nodes =
        [i \in Nodes(b) |->
            IF i \in DOMAIN staged
            THEN [b.nodes[i] EXCEPT !.state = staged[i]]
            ELSE b.nodes[i]]]

-----------------------------------------------------------------------------
(* Methods that read the book.                                             *)

\* path(): walk parent links from the checkpoint to the root, then reverse.
Path(b, id) ==
    LET walk[i \in {0} \cup Nodes(b)] ==
          IF i = 0 THEN <<>> ELSE Append(walk[b.nodes[i].parent], i)
    IN  walk[id]

\* fragments(): the accepted inputs along the path; only the root has none.
Fragments(b, id) ==
    LET path == Path(b, id)
    IN  [k \in 1..(Len(path) - 1) |-> b.nodes[path[k + 1]].input]

\* Mutant of StepsBack: off by one.
StepsBackShort(b, steps) ==
    LET up[k \in 0..steps] ==
          IF k = 0 THEN b.current
          ELSE IF up[k - 1] = 0 THEN 0 ELSE b.nodes[up[k - 1]].parent
    IN  IF steps = 0 THEN 0 ELSE up[steps - 1]

\* steps_back(): `steps' parent links up from the current checkpoint, 0 when
\* that is zero steps or runs past the root (CheckpointError::TooFar).
StepsBack(b, steps) ==
    LET up[k \in 0..steps] ==
          IF k = 0 THEN b.current
          ELSE IF up[k - 1] = 0 THEN 0 ELSE b.nodes[up[k - 1]].parent
    IN  IF steps = 0 THEN 0 ELSE up[steps]

\* The PET handles a book owns.
Retained(b) == {b.nodes[i].state : i \in Nodes(b)} \ {Null}

\* The checkpoints on the path to one, as the least set that holds it and is
\* closed under parent links.
Lineage(b, id) ==
    {i \in Nodes(b) :
        \A S \in SUBSET Nodes(b) :
            /\ id \in S
            /\ \A j \in S : b.nodes[j].parent # 0 => b.nodes[j].parent \in S
            => i \in S}

\* Mutant of MissingSuffix: only the requested checkpoint is rebuilt.
MissingLast(b, id) == {i \in {id} : b.nodes[i].state = Null}

\* What replay_checkpoint() rebuilds: the part of the path from its first
\* checkpoint without a PET handle down to the requested one.
MissingSuffix(b, id) ==
    {i \in Lineage(b, id) :
        \E m \in Lineage(b, id) : m <= i /\ b.nodes[m].state = Null}

=============================================================================
