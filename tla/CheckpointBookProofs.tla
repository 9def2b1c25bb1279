------------------------ MODULE CheckpointBookProofs ------------------------
(***************************************************************************)
(* The checkpoint graph stays a well-formed tree with exclusive, ancestor- *)
(* closed PET handles, for every number of checkpoints, inputs and handles.*)
(***************************************************************************)
EXTENDS CheckpointBook, WellFoundedInduction, TLAPS

USE MaxIdAssumption

-----------------------------------------------------------------------------
(* Types.                                                                  *)

\* A book is typed over the set of its own nodes.
LEMMA BookShape ==
    ASSUME NEW b, IsBook(b)
    PROVE  /\ Nodes(b) \in SUBSET Id
           /\ b \in BookOver(Nodes(b))
  <1>1. PICK D \in SUBSET Id : b \in BookOver(D)
    BY DEF IsBook
  <1>2. Nodes(b) = D
    BY <1>1 DEF BookOver, Nodes
  <1> QED
    BY <1>1, <1>2

\* begin() returns a book with the new id as its only node.
LEMMA BeginType ==
    ASSUME NEW b, IsBook(b), CanAllocate(b),
           NEW target \in Target, NEW state \in PetId, NEW finished \in BOOLEAN
    PROVE  /\ Begin(b, target, state, finished) \in BookOver({b.next + 1})
           /\ b.next + 1 \in Id
  <1>1. b.next \in 0..MaxId
    BY BookShape DEF BookOver
  <1>2. b.next + 1 \in Id
    BY <1>1 DEF CanAllocate, Id
  <1>3. [parent |-> 0, state |-> state, input |-> Null, finished |-> finished] \in Node
    BY DEF Node
  <1> QED
    BY <1>1, <1>2, <1>3 DEF Begin, BookOver, Id

\* commit() returns a book with one more node.
LEMMA CommitType ==
    ASSUME NEW b, IsBook(b), CanAllocate(b),
           NEW state \in PetId, NEW input \in Input, NEW finished \in BOOLEAN
    PROVE  /\ Commit(b, state, input, finished)
                \in BookOver(Nodes(b) \cup {b.next + 1})
           /\ b.next + 1 \in Id
  <1>1. /\ b \in BookOver(Nodes(b))
        /\ Nodes(b) \in SUBSET Id
    BY BookShape
  <1>2. b.next + 1 \in Id
    BY <1>1 DEF CanAllocate, Id, BookOver
  <1> DEFINE new == [parent |-> b.current, state |-> state,
                     input |-> input, finished |-> finished]
             nodes == [i \in Nodes(b) \cup {b.next + 1} |->
                          IF i = b.next + 1 THEN new ELSE b.nodes[i]]
  <1>3. new \in Node
    BY <1>1 DEF Node, BookOver
  <1>4. nodes \in [Nodes(b) \cup {b.next + 1} -> Node]
    BY <1>1, <1>3 DEF BookOver
  <1>5. Commit(b, state, input, finished)
          = [b EXCEPT !.next = b.next + 1, !.current = b.next + 1, !.nodes = nodes]
    BY DEF Commit
  <1> HIDE DEF nodes, new
  <1>6. b.next + 1 \in 0..MaxId
    BY <1>2 DEF Id
  <1>7. [b EXCEPT !.next = b.next + 1, !.current = b.next + 1, !.nodes = nodes]
          \in BookOver(Nodes(b) \cup {b.next + 1})
    BY <1>1, <1>4, <1>6 DEF BookOver
  <1> QED
    BY <1>2, <1>5, <1>7

\* Replacing handles changes neither the nodes nor their types.
LEMMA InstallType ==
    ASSUME NEW b, IsBook(b), NEW staged, \A i \in DOMAIN staged : staged[i] \in PetId
    PROVE  InstallStates(b, staged) \in BookOver(Nodes(b))
  <1>1. b \in BookOver(Nodes(b))
    BY BookShape
  <1> DEFINE nodes == [i \in Nodes(b) |->
                          IF i \in DOMAIN staged
                          THEN [b.nodes[i] EXCEPT !.state = staged[i]]
                          ELSE b.nodes[i]]
  <1>2. nodes \in [Nodes(b) -> Node]
    BY <1>1 DEF BookOver, Node
  <1>3. InstallStates(b, staged) = [b EXCEPT !.nodes = nodes]
    BY DEF InstallStates
  <1> HIDE DEF nodes
  <1> QED
    BY <1>1, <1>2, <1>3 DEF BookOver

\* Forgetting handles likewise.
LEMMA InvalidateType ==
    ASSUME NEW b, IsBook(b)
    PROVE  InvalidateStates(b) \in BookOver(Nodes(b))
  <1>1. b \in BookOver(Nodes(b))
    BY BookShape
  <1> DEFINE nodes == [i \in Nodes(b) |-> [b.nodes[i] EXCEPT !.state = Null]]
  <1>2. nodes \in [Nodes(b) -> Node]
    BY <1>1 DEF BookOver, Node
  <1>3. InvalidateStates(b) = [b EXCEPT !.nodes = nodes]
    BY DEF InvalidateStates
  <1> HIDE DEF nodes
  <1> QED
    BY <1>1, <1>2, <1>3 DEF BookOver

\* clear() leaves an empty book that keeps its counter.
LEMMA ClearType ==
    ASSUME NEW b, IsBook(b)
    PROVE  Clear(b) \in BookOver({})
  <1>1. NoNodes \in [{} -> Node]
    BY DEF NoNodes
  <1>2. b.next \in 0..MaxId
    BY BookShape DEF BookOver
  <1>3. 0 \in 0..MaxId
    OBVIOUS
  <1> QED
    BY <1>1, <1>2, <1>3 DEF Clear, EmptyBook, BookOver

-----------------------------------------------------------------------------
(* What replay rebuilds.                                                   *)

\* The path to a checkpoint is closed under parent links.
LEMMA LineageClosed ==
    ASSUME NEW b, NEW id, NEW i \in Lineage(b, id),
           b.nodes[i].parent # 0, b.nodes[i].parent \in Nodes(b)
    PROVE  b.nodes[i].parent \in Lineage(b, id)
  <1> SUFFICES ASSUME NEW S \in SUBSET Nodes(b), id \in S,
                      \A j \in S : b.nodes[j].parent # 0 => b.nodes[j].parent \in S
               PROVE  b.nodes[i].parent \in S
    BY DEF Lineage
  <1>1. i \in S
    BY DEF Lineage
  <1> QED
    BY <1>1

\* Replay leaves no gap above what it rebuilds: the parent of a rebuilt
\* checkpoint either has its handle or is rebuilt as well.
LEMMA SuffixParents ==
    ASSUME NEW b, IsBook(b), NEW id, NEW i \in MissingSuffix(b, id),
           b.nodes[i].parent # 0, b.nodes[i].parent \in Nodes(b),
           b.nodes[b.nodes[i].parent].state = Null
    PROVE  b.nodes[i].parent \in MissingSuffix(b, id)
  <1> DEFINE p == b.nodes[i].parent
  <1>1. p \in Lineage(b, id)
    BY LineageClosed DEF MissingSuffix
  <1>2. p \in Nat
    BY BookShape DEF Id
  <1>3. p <= p
    BY <1>2
  <1> QED
    BY <1>1, <1>3 DEF MissingSuffix

-----------------------------------------------------------------------------
(* The inductive invariant.                                                *)

\* TreeOK makes AncestorsRetained inductive (a parent link of an old node
\* never meets a new id), AncestorsRetained needs the guard of CommitStep, and
\* HandlesDistinct the freshness of what PET exports.
IInv == TypeOK /\ TreeOK /\ AncestorsRetained /\ HandlesDistinct

\* The empty book satisfies it.
LEMMA InitIInv == Init => IInv
  <1> SUFFICES ASSUME Init PROVE IInv
    OBVIOUS
  <1>1. NoNodes \in [{} -> Node] /\ DOMAIN NoNodes = {}
    BY DEF NoNodes
  <1>2. book \in BookOver({}) /\ Nodes(book) = {}
    BY <1>1 DEF Init, EmptyBook, BookOver, Nodes
  <1>3. TypeOK
    BY <1>2 DEF TypeOK, IsBook
  <1> QED
    BY <1>2, <1>3 DEF Init, IInv, TreeOK, AncestorsRetained, HandlesDistinct,
                      Active, EmptyBook

\* begin() starts a tree of one node.
LEMMA BeginProofIInv == IInv /\ BeginProof => IInv'
  <1> SUFFICES ASSUME IInv, BeginProof PROVE IInv'
    OBVIOUS
  <1>1. PICK target \in Target, state \in Fresh, finished \in BOOLEAN :
            book' = Begin(book, target, state, finished)
    BY DEF BeginProof
  <1> DEFINE n == book.next + 1
  <1>2. IsBook(book) /\ CanAllocate(book) /\ state \in PetId
    BY DEF IInv, TypeOK, BeginProof, Fresh
  <1>3. book' \in BookOver({n}) /\ n \in Id
    BY <1>1, <1>2, BeginType
  <1>4. TypeOK'
    BY <1>3 DEF TypeOK, IsBook
  <1>5. /\ Nodes(book') = {n}
        /\ book'.next = n /\ book'.current = n /\ book'.target = target
        /\ book'.nodes[n].parent = 0 /\ book'.nodes[n].input = Null
    BY <1>1 DEF Begin, Nodes
  <1>6. TreeOK'
    BY <1>3, <1>5, NullAssumption DEF TreeOK, Active, Id
  <1> QED
    BY <1>4, <1>5, <1>6 DEF IInv, AncestorsRetained, HandlesDistinct

\* commit() hangs a new leaf under a node that owns a handle.
LEMMA CommitStepIInv == IInv /\ CommitStep => IInv'
  <1> SUFFICES ASSUME IInv, CommitStep PROVE IInv'
    OBVIOUS
  <1>1. PICK state \in Fresh, input \in Input, finished \in BOOLEAN :
            book' = Commit(book, state, input, finished)
    BY DEF CommitStep
  <1> DEFINE n == book.next + 1
  <1>2. /\ IsBook(book) /\ CanAllocate(book)
        /\ state \in PetId /\ state \notin Retained(book)
    BY DEF IInv, TypeOK, CommitStep, Fresh
  <1>3. book' \in BookOver(Nodes(book) \cup {n}) /\ n \in Id
    BY <1>1, <1>2, CommitType
  <1>4. /\ book \in BookOver(Nodes(book)) /\ Nodes(book) \in SUBSET Id
    BY <1>2, BookShape
  <1>5. TypeOK'
    BY <1>3, <1>4 DEF TypeOK, IsBook
  <1>6. n \notin Nodes(book)
    BY <1>3, <1>4 DEF IInv, TreeOK, Id, BookOver
  <1>7. /\ book'.next = n /\ book'.current = n /\ book'.target = book.target
        /\ Nodes(book') = Nodes(book) \cup {n}
        /\ book'.nodes[n] = [parent |-> book.current, state |-> state,
                             input |-> input, finished |-> finished]
        /\ \A i \in Nodes(book) : book'.nodes[i] = book.nodes[i]
    BY <1>1, <1>4, <1>6 DEF Commit, Nodes, BookOver
  <1>8. /\ book.current \in Nodes(book) /\ book.current # 0 /\ book.target # Null
        /\ book.nodes[book.current].state # Null
    BY DEF IInv, TreeOK, CommitStep, Active
  <1>9. TreeOK'
    <2>1. (Active(book) <=> Nodes(book) # {})'
      BY <1>3, <1>7 DEF Active, Id
    <2>2. (Active(book) => book.current \in Nodes(book) /\ book.target # Null)'
      BY <1>7, <1>8
    <2>3. ASSUME NEW i \in Nodes(book')
          PROVE  LET p == book'.nodes[i].parent
                 IN  /\ i <= book'.next
                     /\ p # 0 => p \in Nodes(book') /\ p < i
                     /\ book'.nodes[i].input = Null <=> p = 0
      <3>1. CASE i = n
        BY <3>1, <1>3, <1>4, <1>7, <1>8, NullAssumption DEF IInv, TreeOK, Id, BookOver
      <3>2. CASE i \in Nodes(book)
        BY <3>2, <1>3, <1>4, <1>7 DEF IInv, TreeOK, Id, BookOver
      <3> QED
        BY <3>1, <3>2, <1>7
    <2>4. ASSUME NEW i \in Nodes(book'), NEW j \in Nodes(book'),
                 book'.nodes[i].parent = 0, book'.nodes[j].parent = 0
          PROVE  i = j
      BY <2>4, <1>7, <1>8 DEF IInv, TreeOK
    <2> QED
      BY <2>1, <2>2, <2>3, <2>4 DEF TreeOK
  <1>10. AncestorsRetained'
    BY <1>6, <1>7, <1>8 DEF IInv, TreeOK, AncestorsRetained
  <1>11. HandlesDistinct'
    BY <1>2, <1>7 DEF IInv, HandlesDistinct, Retained
  <1> QED
    BY <1>5, <1>9, <1>10, <1>11 DEF IInv

\* Steps that keep the nodes and their links.
LEMMA CommitWithoutProofIInv == IInv /\ CommitWithoutProof => IInv'
  <1> SUFFICES ASSUME IInv, CommitWithoutProof PROVE IInv'
    OBVIOUS
  <1>1. book \in BookOver(Nodes(book)) /\ Nodes(book) \in SUBSET Id
    BY BookShape DEF IInv, TypeOK
  <1>2. /\ book' = [book EXCEPT !.next = book.next + 1]
        /\ book.next < MaxId
    BY DEF CommitWithoutProof, CommitRefused, CanAllocate
  <1>3. book.next + 1 \in 0..MaxId
    BY <1>1, <1>2 DEF BookOver
  <1>4. book' \in BookOver(Nodes(book))
    BY <1>1, <1>2, <1>3 DEF BookOver
  <1>5. /\ book'.nodes = book.nodes /\ book'.current = book.current
        /\ book'.target = book.target /\ book'.next = book.next + 1
        /\ Nodes(book') = Nodes(book)
    BY <1>1, <1>2 DEF Nodes, BookOver
  <1>6. TypeOK'
    BY <1>1, <1>4 DEF TypeOK, IsBook
  <1>7. TreeOK'
    BY <1>1, <1>5 DEF IInv, TreeOK, Active, BookOver, Id
  <1> QED
    BY <1>5, <1>6, <1>7 DEF IInv, AncestorsRetained, HandlesDistinct

\* select() moves the current checkpoint within the tree.
LEMMA SelectIInv == IInv /\ SelectCheckpoint => IInv'
  <1> SUFFICES ASSUME IInv, SelectCheckpoint PROVE IInv'
    OBVIOUS
  <1>1. PICK id \in Nodes(book) : book' = [book EXCEPT !.current = id]
    BY DEF SelectCheckpoint, Select
  <1>2. book \in BookOver(Nodes(book)) /\ Nodes(book) \in SUBSET Id
    BY BookShape DEF IInv, TypeOK
  <1>3. id \in 0..MaxId /\ id # 0
    BY <1>2 DEF Id
  <1>4. book' \in BookOver(Nodes(book))
    BY <1>1, <1>2, <1>3 DEF BookOver
  <1>5. /\ book'.nodes = book.nodes /\ book'.current = id
        /\ book'.target = book.target /\ book'.next = book.next
        /\ Nodes(book') = Nodes(book)
    BY <1>1, <1>2 DEF Nodes, BookOver
  <1>6. TypeOK'
    BY <1>2, <1>4 DEF TypeOK, IsBook
  <1>7. TreeOK'
    BY <1>3, <1>5 DEF IInv, TreeOK, Active
  <1> QED
    BY <1>5, <1>6, <1>7 DEF IInv, AncestorsRetained, HandlesDistinct

\* clear() leaves no node at all.
LEMMA ClearIInv == IInv /\ ClearProof => IInv'
  <1> SUFFICES ASSUME IInv, ClearProof PROVE IInv'
    OBVIOUS
  <1>1. book' \in BookOver({}) /\ book' = Clear(book)
    BY ClearType DEF IInv, TypeOK, ClearProof
  <1>2. TypeOK'
    BY <1>1 DEF TypeOK, IsBook
  <1>3. Nodes(book') = {} /\ book'.current = 0
    BY <1>1 DEF Nodes, BookOver, Clear, EmptyBook
  <1> QED
    BY <1>2, <1>3 DEF IInv, TreeOK, Active, AncestorsRetained, HandlesDistinct

\* invalidate_states() forgets all handles at once, so no gap appears.
LEMMA InvalidateIInv == IInv /\ Invalidate => IInv'
  <1> SUFFICES ASSUME IInv, Invalidate PROVE IInv'
    OBVIOUS
  <1>1. book \in BookOver(Nodes(book)) /\ Nodes(book) \in SUBSET Id
    BY BookShape DEF IInv, TypeOK
  <1>2. book' \in BookOver(Nodes(book)) /\ book' = InvalidateStates(book)
    BY InvalidateType DEF IInv, TypeOK, Invalidate
  <1>3. TypeOK'
    BY <1>1, <1>2 DEF TypeOK, IsBook
  <1>4. /\ book'.current = book.current /\ book'.target = book.target
        /\ book'.next = book.next /\ Nodes(book') = Nodes(book)
        /\ \A i \in Nodes(book) : book'.nodes[i] = [book.nodes[i] EXCEPT !.state = Null]
    BY <1>1, <1>2 DEF InvalidateStates, Nodes, BookOver
  <1>5. \A i \in Nodes(book) : /\ book'.nodes[i].state = Null
                               /\ book'.nodes[i].parent = book.nodes[i].parent
                               /\ book'.nodes[i].input = book.nodes[i].input
    BY <1>1, <1>4 DEF BookOver, Node
  <1>6. TreeOK'
    BY <1>4, <1>5 DEF IInv, TreeOK, Active
  <1> QED
    BY <1>3, <1>4, <1>5, <1>6 DEF IInv, AncestorsRetained, HandlesDistinct

\* replay_checkpoint() fills the path from the first gap down.
LEMMA ReplayIInv == IInv /\ ReplayPath => IInv'
  <1> SUFFICES ASSUME IInv, ReplayPath PROVE IInv'
    OBVIOUS
  <1>1. PICK id \in Nodes(book) :
          \E st \in [MissingSuffix(book, id) -> Fresh] :
            /\ \A i, j \in MissingSuffix(book, id) : st[i] = st[j] => i = j
            /\ book' = InstallStates(book, st)
    BY DEF ReplayPath
  <1> DEFINE S == MissingSuffix(book, id)
  <1>2. PICK staged \in [S -> Fresh] :
            /\ \A i, j \in S : staged[i] = staged[j] => i = j
            /\ book' = InstallStates(book, staged)
    BY <1>1
  <1>3. /\ book \in BookOver(Nodes(book)) /\ Nodes(book) \in SUBSET Id
        /\ IsBook(book)
    BY BookShape DEF IInv, TypeOK
  <1>4. \A i \in S : /\ staged[i] \in PetId
                     /\ staged[i] # Null
                     /\ staged[i] \notin Retained(book)
    BY <1>2, NullAssumption DEF Fresh
  <1>5. DOMAIN staged = S
    BY <1>2
  <1>6. S \subseteq Nodes(book)
    BY DEF MissingSuffix, Lineage
  <1>7. book' \in BookOver(Nodes(book))
    BY <1>2, <1>3, <1>4, <1>5, InstallType
  <1>8. TypeOK'
    BY <1>3, <1>7 DEF TypeOK, IsBook
  <1>9. /\ book'.current = book.current /\ book'.target = book.target
        /\ book'.next = book.next /\ Nodes(book') = Nodes(book)
        /\ \A i \in S : book'.nodes[i] = [book.nodes[i] EXCEPT !.state = staged[i]]
        /\ \A i \in Nodes(book) \ S : book'.nodes[i] = book.nodes[i]
    BY <1>2, <1>3, <1>5, <1>6 DEF InstallStates, Nodes, BookOver
  <1>10. /\ \A i \in Nodes(book) : /\ book'.nodes[i].parent = book.nodes[i].parent
                                   /\ book'.nodes[i].input = book.nodes[i].input
         /\ \A i \in S : book'.nodes[i].state = staged[i]
         /\ \A i \in Nodes(book) \ S : book'.nodes[i].state = book.nodes[i].state
    <2> HIDE DEF S
    <2>1. \A i \in Nodes(book) : book.nodes[i] \in Node
      BY <1>3 DEF BookOver
    <2>2. \A i \in S : /\ book'.nodes[i].parent = book.nodes[i].parent
                       /\ book'.nodes[i].input = book.nodes[i].input
                       /\ book'.nodes[i].state = staged[i]
      BY <2>1, <1>6, <1>9 DEF Node
    <2> QED
      BY <2>2, <1>9
  <1> HIDE DEF S
  <1>11. TreeOK'
    BY <1>9, <1>10 DEF IInv, TreeOK, Active
  <1>12. AncestorsRetained'
    <2> SUFFICES ASSUME NEW i \in Nodes(book), book.nodes[i].parent # 0,
                        book'.nodes[i].state # Null
                 PROVE  book'.nodes[book.nodes[i].parent].state # Null
      BY <1>9, <1>10 DEF AncestorsRetained
    <2> DEFINE p == book.nodes[i].parent
    <2>1. p \in Nodes(book)
      BY DEF IInv, TreeOK
    <2>2. CASE p \in S
      BY <2>2, <1>4, <1>10
    <2>3. CASE p \notin S
      <3>1. i \in S => book.nodes[p].state # Null
        BY <2>1, <2>3, <1>3, SuffixParents DEF S
      <3>2. i \notin S => book.nodes[p].state # Null
        BY <1>10 DEF IInv, AncestorsRetained
      <3> QED
        BY <3>1, <3>2, <2>1, <2>3, <1>10
    <2> QED
      BY <2>2, <2>3
  <1>13. HandlesDistinct'
    BY <1>2, <1>4, <1>9, <1>10 DEF IInv, HandlesDistinct, Retained
  <1> QED
    BY <1>8, <1>11, <1>12, <1>13 DEF IInv

\* Every step of the book preserves the invariant.
LEMMA NextIInv == IInv /\ [Next]_book => IInv'
  <1> SUFFICES ASSUME IInv, [Next]_book PROVE IInv'
    OBVIOUS
  <1>1. CASE UNCHANGED book
    BY <1>1 DEF IInv, TypeOK, TreeOK, AncestorsRetained, HandlesDistinct,
                Active, Nodes, IsBook
  <1>2. CASE Next
    BY <1>2, BeginProofIInv, CommitStepIInv, CommitWithoutProofIInv, SelectIInv,
       ClearIInv, InvalidateIInv, ReplayIInv DEF Next
  <1> QED
    BY <1>1, <1>2

\* The invariant holds in every reachable state.
THEOREM BookInvariant == Spec => []IInv
  BY InitIInv, NextIInv, PTL DEF Spec

\* The book is always typed: ids stay within u64 and handles are PET's.
THEOREM TypeCorrect == Spec => []TypeOK
  <1>1. IInv => TypeOK
    BY DEF IInv
  <1> QED
    BY <1>1, BookInvariant, PTL

\* begin, commit, select, clear, invalidate and replay keep one rooted tree
\* whose parents are older than their children.
THEOREM TreeCorrect == Spec => []TreeOK
  <1>1. IInv => TreeOK
    BY DEF IInv
  <1> QED
    BY <1>1, BookInvariant, PTL

\* A checkpoint with a PET handle has them on its whole path, through every
\* interleaving of commits, project-wide invalidation and partial replays.
THEOREM AncestorsCorrect == Spec => []AncestorsRetained
  <1>1. IInv => AncestorsRetained
    BY DEF IInv
  <1> QED
    BY <1>1, BookInvariant, PTL

\* No PET handle is owned by two checkpoints.
THEOREM HandlesCorrect == Spec => []HandlesDistinct
  <1>1. IInv => HandlesDistinct
    BY DEF IInv
  <1> QED
    BY <1>1, BookInvariant, PTL

-----------------------------------------------------------------------------
(* path() and steps_back().                                                *)

\* Parent links lead to older nodes: the part of TreeOK that recursion needs.
Rooted(b) ==
    \A i \in Nodes(b) : b.nodes[i].parent # 0 =>
        b.nodes[i].parent \in Nodes(b) /\ b.nodes[i].parent < i

\* A set of naturals has a least element.
LEMMA LeastNat ==
    ASSUME NEW S \in SUBSET Nat, S # {}
    PROVE  \E i \in S : \A j \in S : i <= j
  <1>1. PICK i \in S : \A j \in S : ~(<<j, i>> \in OpToRel(<, Nat))
    BY NatLessThanWellFounded, WFMin
  <1>2. \A j \in S : ~(j < i)
    BY <1>1 DEF OpToRel
  <1> QED
    BY <1>2

(* What the recursion of path() computes.  The equations of a recursive     *)
(* function hold once some function satisfies them; it is built up from the *)
(* root, since parents are older than their children.                       *)

IsWalk(b, f) ==
    f = [i \in {0} \cup Nodes(b) |->
            IF i = 0 THEN <<>> ELSE Append(f[b.nodes[i].parent], i)]

Walk(b) == CHOOSE f : IsWalk(b, f)

\* f is the walk on the part D of the graph.
WalkOn(b, D, f) ==
    /\ f \in [D -> Seq(Nodes(b))]
    /\ f[0] = <<>>
    /\ \A i \in D \ {0} : f[i] = Append(f[b.nodes[i].parent], i)

\* The local function of path().
LEMMA PathIsWalk == ASSUME NEW b, NEW id PROVE Path(b, id) = Walk(b)[id]
  BY Zenon DEF Path, Walk, IsWalk

\* The equations have a solution.
LEMMA WalkExists ==
    ASSUME NEW b, IsBook(b), Rooted(b)
    PROVE  \E f : WalkOn(b, {0} \cup Nodes(b), f)
  <1> DEFINE D(n) == {0} \cup {j \in Nodes(b) : j <= n}
             S == {n \in Nat : ~\E f : WalkOn(b, D(n), f)}
  <1>1. Nodes(b) \subseteq 1..MaxId
    BY BookShape DEF Id
  <1>2. 0 \notin S
    <2>1. D(0) = {0}
      BY <1>1
    <2>2. WalkOn(b, {0}, [i \in {0} |-> <<>>])
      BY DEF WalkOn
    <2> QED
      BY <2>1, <2>2
  <1>3. ASSUME NEW n \in Nat, n \notin S PROVE n + 1 \notin S
    <2>1. PICK f : WalkOn(b, D(n), f)
      BY <1>3
    <2>2. CASE n + 1 \notin Nodes(b)
      <3>1. D(n + 1) = D(n)
        BY <1>1, <2>2
      <3> QED
        BY <2>1, <3>1
    <2>3. CASE n + 1 \in Nodes(b)
      <3> DEFINE p == b.nodes[n + 1].parent
                 g == [i \in D(n + 1) |-> IF i = n + 1 THEN Append(f[p], n + 1) ELSE f[i]]
      <3>1. D(n + 1) = D(n) \cup {n + 1} /\ n + 1 \notin D(n) /\ 0 \in D(n)
        BY <1>1, <2>3
      <3>2. p \in D(n)
        BY <1>1, <2>3 DEF Rooted
      <3>3. f \in [D(n) -> Seq(Nodes(b))] /\ f[0] = <<>>
        BY <2>1 DEF WalkOn
      <3>4. \A i \in D(n) \ {0} : b.nodes[i].parent \in D(n)
        BY <1>1 DEF Rooted
      <3>5. Append(f[p], n + 1) \in Seq(Nodes(b))
        BY <2>3, <3>2, <3>3
      <3>6. g \in [D(n + 1) -> Seq(Nodes(b))]
        BY <3>1, <3>3, <3>5
      <3>7. g[0] = <<>> /\ \A i \in D(n) : g[i] = f[i]
        BY <3>1, <3>3
      <3>8. g[n + 1] = Append(f[p], n + 1)
        BY <3>1
      <3> HIDE DEF g
      <3>9. \A i \in D(n) \ {0} : g[i] = Append(g[b.nodes[i].parent], i)
        BY <2>1, <3>4, <3>7 DEF WalkOn
      <3>10. g[n + 1] = Append(g[p], n + 1)
        BY <3>2, <3>7, <3>8
      <3> HIDE DEF D
      <3>11. WalkOn(b, D(n + 1), g)
        BY <3>1, <3>6, <3>7, <3>9, <3>10 DEF WalkOn
      <3> QED
        BY <3>11
    <2> QED
      BY <2>2, <2>3
  <1>4. MaxId \notin S
    <2>1. S = {}
      <3> HIDE DEF S
      <3>1. SUFFICES ASSUME S # {}, S \subseteq Nat PROVE FALSE
        BY DEF S
      <3>2. PICK m \in S : \A j \in S : m <= j
        BY <3>1, LeastNat
      <3>3. m \in Nat /\ m # 0
        BY <1>2, <3>1, <3>2
      <3>4. m - 1 \in Nat /\ m - 1 \notin S
        BY <3>1, <3>2, <3>3
      <3>5. (m - 1) + 1 \notin S
        BY <1>3, <3>4
      <3> QED
        BY <3>2, <3>3, <3>5
    <2> QED
      BY <2>1
  <1>5. D(MaxId) = {0} \cup Nodes(b)
    BY <1>1
  <1> QED
    BY <1>4, <1>5

\* Two solutions agree.
LEMMA WalkUnique ==
    ASSUME NEW b, IsBook(b), Rooted(b), NEW f, NEW g,
           WalkOn(b, {0} \cup Nodes(b), f), IsWalk(b, g)
    PROVE  g = f
  <1> DEFINE D == {0} \cup Nodes(b)
             S == {i \in D : g[i] # f[i]}
  <1>1. Nodes(b) \subseteq 1..MaxId
    BY BookShape DEF Id
  <1>2. /\ g = [i \in D |-> g[i]] /\ g[0] = <<>>
        /\ \A i \in Nodes(b) : g[i] = Append(g[b.nodes[i].parent], i)
    <2> DEFINE step(i) == IF i = 0 THEN <<>> ELSE Append(g[b.nodes[i].parent], i)
    <2>1. g = [i \in D |-> step(i)]
      BY Zenon DEF IsWalk
    <2>2. 0 \in D /\ \A i \in Nodes(b) : i \in D /\ i # 0
      BY <1>1
    <2>3. step(0) = <<>> /\ \A i \in Nodes(b) : step(i) = Append(g[b.nodes[i].parent], i)
      BY <2>2
    <2> HIDE DEF step, D
    <2>4. \A i \in D : g[i] = step(i)
      BY <2>1
    <2>5. g = [i \in D |-> g[i]]
      BY <2>1, <2>4
    <2> QED
      BY <2>2, <2>3, <2>4, <2>5
  <1>3. /\ f = [i \in D |-> f[i]] /\ f[0] = <<>>
        /\ \A i \in Nodes(b) : f[i] = Append(f[b.nodes[i].parent], i)
    <2>1. f = [i \in D |-> f[i]]
      BY DEF WalkOn
    <2>2. \A i \in Nodes(b) : i \in D \ {0}
      BY <1>1
    <2> QED
      BY <2>1, <2>2 DEF WalkOn
  <1>4. S = {}
    <2>1. SUFFICES ASSUME S # {} PROVE FALSE
      OBVIOUS
    <2>2. S \in SUBSET Nat
      BY <1>1
    <2>3. PICK m \in S : \A j \in S : m <= j
      BY <2>1, <2>2, LeastNat
    <2>4. m \in Nodes(b) /\ g[m] # f[m]
      BY <1>2, <1>3, <2>3
    <2>5. b.nodes[m].parent \in D /\ b.nodes[m].parent < m
      BY <1>1, <2>4 DEF Rooted
    <2>6. b.nodes[m].parent \notin S
      BY <1>1, <2>3, <2>4, <2>5
    <2>7. g[b.nodes[m].parent] = f[b.nodes[m].parent]
      BY <2>5, <2>6
    <2> QED
      BY <1>2, <1>3, <2>4, <2>7
  <1>5. \A i \in D : g[i] = f[i]
    BY <1>4
  <1> QED
    BY <1>2, <1>3, <1>5

\* The path to a checkpoint extends the path to its parent.
LEMMA PathFacts ==
    ASSUME NEW b, IsBook(b), Rooted(b)
    PROVE  /\ Path(b, 0) = <<>>
           /\ \A i \in Nodes(b) : /\ Path(b, i) \in Seq(Nodes(b))
                                  /\ Path(b, i) = Append(Path(b, b.nodes[i].parent), i)
  <1>1. PICK f : WalkOn(b, {0} \cup Nodes(b), f)
    BY WalkExists
  <1>2. Nodes(b) \subseteq 1..MaxId
    BY BookShape DEF Id
  <1>3. IsWalk(b, f)
    <2>1. f = [i \in {0} \cup Nodes(b) |-> f[i]]
      BY <1>1 DEF WalkOn
    <2>2. \A i \in {0} \cup Nodes(b) :
             f[i] = IF i = 0 THEN <<>> ELSE Append(f[b.nodes[i].parent], i)
      BY <1>1 DEF WalkOn
    <2> QED
      BY <2>1, <2>2 DEF IsWalk
  <1>4. IsWalk(b, Walk(b))
    BY <1>3, Zenon DEF Walk
  <1>5. Walk(b) = f
    BY <1>1, <1>4, WalkUnique
  <1>6. \A i : Path(b, i) = f[i]
    BY <1>5, PathIsWalk
  <1>7. f[0] = <<>> /\ \A i \in Nodes(b) : /\ f[i] \in Seq(Nodes(b))
                                           /\ f[i] = Append(f[b.nodes[i].parent], i)
    <2>1. \A i \in Nodes(b) : i \in ({0} \cup Nodes(b)) \ {0}
      BY <1>2
    <2>2. \A i \in Nodes(b) : f[i] \in Seq(Nodes(b))
      BY <1>1 DEF WalkOn
    <2> QED
      BY <1>1, <2>1, <2>2 DEF WalkOn
  <1> QED
    BY <1>6, <1>7

\* A path ends at its checkpoint and follows parent links up to the root.
IsChain(b, p, id) ==
    /\ p \in Seq(Nodes(b)) /\ Len(p) >= 1
    /\ p[Len(p)] = id
    /\ b.nodes[p[1]].parent = 0
    /\ \A k \in 1..(Len(p) - 1) : b.nodes[p[k + 1]].parent = p[k]

\* path() lists a chain of parent links.
LEMMA PathIsChain ==
    ASSUME NEW b, IsBook(b), Rooted(b)
    PROVE  \A i \in Nodes(b) : IsChain(b, Path(b, i), i)
  <1> DEFINE S == {i \in Nodes(b) : ~IsChain(b, Path(b, i), i)}
  <1>1. Nodes(b) \subseteq 1..MaxId
    BY BookShape DEF Id
  <1>2. SUFFICES ASSUME S # {} PROVE FALSE
    OBVIOUS
  <1>3. S \in SUBSET Nat
    BY <1>1
  <1>4. PICK m \in S : \A j \in S : m <= j
    BY <1>2, <1>3, LeastNat
  <1>5. m \in Nodes(b) /\ ~IsChain(b, Path(b, m), m)
    BY <1>4
  <1> DEFINE p == b.nodes[m].parent
             up == Path(b, p)
             path == Path(b, m)
  <1>6. path \in Seq(Nodes(b)) /\ path = Append(up, m)
    BY <1>5, PathFacts
  <1>7. CASE p = 0
    <2>1. up = <<>>
      BY <1>7, PathFacts
    <2> HIDE DEF path, up
    <2>2. Len(path) = 1 /\ path[1] = m
      BY <1>5, <1>6, <2>1
    <2>3. IsChain(b, path, m)
      BY <1>6, <1>7, <2>2 DEF IsChain
    <2> QED
      BY <1>5, <2>3 DEF path
  <1>8. CASE p # 0
    <2>1. p \in Nodes(b) /\ p < m
      BY <1>5, <1>8 DEF Rooted
    <2>2. p \notin S
      BY <1>1, <1>4, <1>5, <2>1
    <2>3. IsChain(b, up, p)
      BY <2>1, <2>2
    <2> DEFINE n == Len(up)
    <2>4. n \in Nat /\ n >= 1 /\ up \in Seq(Nodes(b)) /\ up[n] = p
      BY <2>3 DEF IsChain
    <2> HIDE DEF up, path
    <2>5. /\ Len(path) = n + 1 /\ path[n + 1] = m
          /\ \A k \in 1..n : path[k] = up[k]
      BY <1>5, <1>6, <2>4
    <2>6. b.nodes[path[1]].parent = 0
      BY <2>3, <2>4, <2>5 DEF IsChain
    <2>7. ASSUME NEW k \in 1..n PROVE b.nodes[path[k + 1]].parent = path[k]
      <3>1. CASE k = n
        BY <2>4, <2>5, <3>1
      <3>2. CASE k # n
        <4>1. k \in 1..(n - 1) /\ k + 1 \in 1..n
          BY <2>4, <3>2
        <4> QED
          BY <2>3, <2>5, <4>1 DEF IsChain
      <3> QED
        BY <3>1, <3>2
    <2>8. IsChain(b, path, m)
      BY <1>6, <2>4, <2>5, <2>6, <2>7 DEF IsChain
    <2> QED
      BY <1>5, <2>8 DEF path
  <1> QED
    BY <1>7, <1>8

\* The elements of a chain are the lineage of its end.
LEMMA ChainIsLineage ==
    ASSUME NEW b, IsBook(b), Rooted(b), NEW id \in Nodes(b), NEW p, IsChain(b, p, id)
    PROVE  {p[k] : k \in 1..Len(p)} = Lineage(b, id)
  <1> DEFINE E == {p[k] : k \in 1..Len(p)}
             n == Len(p)
  <1>1. n \in Nat /\ n >= 1 /\ p \in Seq(Nodes(b)) /\ p[n] = id
    BY DEF IsChain
  <1>2. E \in SUBSET Nodes(b) /\ id \in E
    BY <1>1
  <1>3. ASSUME NEW j \in E, b.nodes[j].parent # 0 PROVE b.nodes[j].parent \in E
    <2>1. PICK k \in 1..n : j = p[k]
      OBVIOUS
    <2>2. k # 1
      BY <1>3, <2>1 DEF IsChain
    <2>3. k - 1 \in 1..(n - 1) /\ (k - 1) + 1 = k /\ k - 1 \in 1..n
      BY <1>1, <2>1, <2>2
    <2>4. b.nodes[p[k]].parent = p[k - 1]
      BY <2>3 DEF IsChain
    <2> QED
      BY <2>1, <2>3, <2>4
  <1>4. Lineage(b, id) \subseteq E
    BY <1>2, <1>3 DEF Lineage
  <1>5. ASSUME NEW S \in SUBSET Nodes(b), id \in S,
               \A j \in S : b.nodes[j].parent # 0 => b.nodes[j].parent \in S
        PROVE  E \subseteq S
    <2> DEFINE M == {d \in 0..(n - 1) : p[n - d] \notin S}
    <2>1. M = {}
      <3>1. SUFFICES ASSUME M # {} PROVE FALSE
        OBVIOUS
      <3>2. M \in SUBSET Nat
        BY <1>1
      <3>3. PICK d \in M : \A e \in M : d <= e
        BY <3>1, <3>2, LeastNat
      <3>4. d \in 0..(n - 1) /\ p[n - d] \notin S
        BY <3>3
      <3>5. d # 0
        BY <1>1, <1>5, <3>4
      <3>6. d - 1 \in 0..(n - 1) /\ d - 1 < d /\ n - d \in 1..(n - 1)
            /\ n - (d - 1) = (n - d) + 1 /\ (n - d) + 1 \in 1..n
        BY <1>1, <3>4, <3>5
      <3>7. p[(n - d) + 1] \in S
        <4>1. d - 1 \notin M
          BY <1>1, <3>2, <3>3, <3>6
        <4>2. p[n - (d - 1)] \in S
          BY <3>6, <4>1
        <4> QED
          BY <3>6, <4>2
      <3>8. b.nodes[p[(n - d) + 1]].parent = p[n - d] /\ p[n - d] \in Nodes(b)
        BY <1>1, <3>6 DEF IsChain
      <3>9. p[n - d] # 0
        BY <3>8, BookShape DEF Id
      <3> QED
        BY <1>5, <3>4, <3>7, <3>8, <3>9
    <2>2. ASSUME NEW k \in 1..n PROVE p[k] \in S
      <3>1. n - k \in 0..(n - 1) /\ n - (n - k) = k
        BY <1>1
      <3>2. n - k \notin M
        BY <2>1
      <3>3. p[n - (n - k)] \in S
        BY <3>1, <3>2
      <3> QED
        BY <3>1, <3>3
    <2> QED
      BY <2>2
  <1>6. E \subseteq Lineage(b, id)
    BY <1>2, <1>5 DEF Lineage
  <1> QED
    BY <1>4, <1>6

IsUp(b, n, f) ==
    f = [k \in 0..n |->
            IF k = 0 THEN b.current
            ELSE IF f[k - 1] = 0 THEN 0 ELSE b.nodes[f[k - 1]].parent]

Up(b, n) == CHOOSE f : IsUp(b, n, f)

\* The local function of steps_back().
LEMMA StepsBackIsUp ==
    ASSUME NEW b, NEW n, n # 0 PROVE StepsBack(b, n) = Up(b, n)[n]
  BY Zenon DEF StepsBack, Up, IsUp

\* The equations of steps_back(), one at a time.
LEMMA UpFacts ==
    ASSUME NEW b, NEW n \in Nat, NEW f, IsUp(b, n, f)
    PROVE  /\ f[0] = b.current
           /\ \A k \in 1..n : f[k] = IF f[k - 1] = 0 THEN 0 ELSE b.nodes[f[k - 1]].parent
  <1> DEFINE step(k) == IF k = 0 THEN b.current
                        ELSE IF f[k - 1] = 0 THEN 0 ELSE b.nodes[f[k - 1]].parent
  <1>1. f = [k \in 0..n |-> step(k)]
    BY Zenon DEF IsUp
  <1>2. 0 \in 0..n /\ \A k \in 1..n : k \in 0..n /\ k # 0
    OBVIOUS
  <1>3. step(0) = b.current
        /\ \A k \in 1..n : step(k) = IF f[k - 1] = 0 THEN 0 ELSE b.nodes[f[k - 1]].parent
    BY <1>2
  <1> HIDE DEF step
  <1>4. \A k \in 0..n : f[k] = step(k)
    BY <1>1
  <1> QED
    BY <1>2, <1>3, <1>4

\* steps_back() climbs the chain and answers 0 past the root.
LEMMA StepsBackClimbs ==
    ASSUME NEW b, IsBook(b), Rooted(b), b.current \in Nodes(b),
           NEW p, IsChain(b, p, b.current), NEW n \in Nat \ {0}
    PROVE  StepsBack(b, n) = IF n < Len(p) THEN p[Len(p) - n] ELSE 0
  <1> DEFINE l == Len(p)
             at(k) == IF k < l THEN p[l - k] ELSE 0
             g == [k \in 0..n |-> at(k)]
  <1>1. l \in Nat /\ l >= 1 /\ p \in Seq(Nodes(b)) /\ p[l] = b.current
        /\ b.nodes[p[1]].parent = 0
        /\ \A k \in 1..(l - 1) : b.nodes[p[k + 1]].parent = p[k]
    BY DEF IsChain
  <1>2. \A k \in 1..l : p[k] \in Nodes(b) /\ p[k] # 0
    BY <1>1, BookShape DEF Id
  <1>3. at(0) = b.current
    BY <1>1
  <1>4. ASSUME NEW k \in 1..n
        PROVE  at(k) = IF at(k - 1) = 0 THEN 0 ELSE b.nodes[at(k - 1)].parent
    <2>1. CASE k < l
      <3>1. k - 1 < l /\ l - (k - 1) = (l - k) + 1 /\ l - k \in 1..(l - 1)
            /\ (l - k) + 1 \in 1..l
        BY <1>1, <2>1
      <3>2. at(k - 1) = p[(l - k) + 1] /\ at(k) = p[l - k]
        BY <2>1, <3>1
      <3>3. at(k - 1) # 0 /\ b.nodes[at(k - 1)].parent = p[l - k]
        BY <1>1, <1>2, <3>1, <3>2
      <3> QED
        BY <3>2, <3>3
    <2>2. CASE k = l
      <3>1. k - 1 < l /\ l - (k - 1) = 1 /\ 1 \in 1..l /\ ~(k < l)
        BY <1>1, <2>2
      <3>2. at(k - 1) = p[1] /\ at(k) = 0
        BY <3>1
      <3> QED
        BY <1>1, <1>2, <3>1, <3>2
    <2>3. CASE k > l
      <3>1. ~(k - 1 < l) /\ ~(k < l)
        BY <1>1, <2>3
      <3> QED
        BY <3>1
    <2> QED
      BY <1>1, <2>1, <2>2, <2>3
  <1> HIDE DEF at
  <1>5. \A k \in 0..n : g[k] = at(k)
    OBVIOUS
  <1>6. IsUp(b, n, g)
    <2> DEFINE step(k) == IF k = 0 THEN b.current
                          ELSE IF g[k - 1] = 0 THEN 0 ELSE b.nodes[g[k - 1]].parent
    <2>1. ASSUME NEW k \in 0..n PROVE at(k) = step(k)
      <3>1. CASE k = 0
        BY <1>3, <3>1
      <3>2. CASE k # 0
        <4>1. k \in 1..n /\ k - 1 \in 0..n
          BY <3>2
        <4>2. g[k - 1] = at(k - 1)
          BY <1>5, <4>1
        <4> QED
          BY <1>4, <3>2, <4>1, <4>2
      <3> QED
        BY <3>1, <3>2
    <2> HIDE DEF g
    <2>2. g = [k \in 0..n |-> step(k)]
      <3> HIDE DEF step
      <3>1. g = [k \in 0..n |-> at(k)]
        BY DEF g
      <3> QED
        BY <2>1, <3>1
    <2> QED
      BY <2>2, Zenon DEF IsUp
  <1> HIDE DEF g
  <1>7. IsUp(b, n, Up(b, n))
    BY <1>6, Zenon DEF Up
  <1> DEFINE f == Up(b, n)
             S == {k \in 0..n : f[k] # at(k)}
  <1>8. /\ f[0] = b.current
        /\ \A k \in 1..n : f[k] = IF f[k - 1] = 0 THEN 0 ELSE b.nodes[f[k - 1]].parent
    BY <1>7, UpFacts
  <1> HIDE DEF f
  <1>9. S = {}
    <2>1. SUFFICES ASSUME S # {} PROVE FALSE
      OBVIOUS
    <2> HIDE DEF S
    <2>2. PICK m \in S : \A j \in S : m <= j
      <3>1. S \in SUBSET Nat
        BY DEF S
      <3> QED
        BY <2>1, <3>1, LeastNat
    <2> USE DEF S
    <2>3. m \in 0..n /\ f[m] # at(m)
      BY <2>2
    <2>4. m # 0
      BY <1>3, <1>8, <2>3
    <2>5. m \in 1..n /\ m - 1 \in 0..n /\ m - 1 < m
      BY <2>3, <2>4
    <2>6. f[m - 1] = at(m - 1)
      BY <2>2, <2>5
    <2> QED
      BY <1>4, <1>8, <2>3, <2>5, <2>6
  <1>10. f[n] = at(n)
    BY <1>9
  <1> QED
    BY <1>10, StepsBackIsUp DEF f, at

\* path() lists the lineage of a checkpoint from the root down, each once, and
\* steps_back() counts from its end.
THEOREM PathsCorrect == Spec => []PathMatchesLineage
  <1>1. IInv => PathMatchesLineage
    <2> SUFFICES ASSUME IInv PROVE PathMatchesLineage
      OBVIOUS
    <2>1. IsBook(book) /\ Rooted(book)
      BY DEF IInv, TypeOK, TreeOK, Rooted
    <2> SUFFICES ASSUME NEW id \in Nodes(book)
                 PROVE  LET path == Path(book, id)
                        IN  /\ {path[k] : k \in 1..Len(path)} = Lineage(book, id)
                            /\ \A k \in 1..(Len(path) - 1) : path[k] < path[k + 1]
                            /\ Len(Fragments(book, id)) = Len(path) - 1
                            /\ id = book.current =>
                                  \A k \in 1..MaxId :
                                     StepsBack(book, k) =
                                        IF k < Len(path) THEN path[Len(path) - k] ELSE 0
      BY DEF PathMatchesLineage
    <2> DEFINE path == Path(book, id)
    <2>2. IsChain(book, path, id)
      BY <2>1, PathIsChain
    <2>3. Fragments(book, id)
            = [k \in 1..(Len(path) - 1) |-> book.nodes[path[k + 1]].input]
      BY DEF Fragments
    <2> HIDE DEF path
    <2>4. path \in Seq(Nodes(book)) /\ Len(path) \in Nat /\ Len(path) >= 1
      BY <2>2 DEF IsChain
    <2>5. {path[k] : k \in 1..Len(path)} = Lineage(book, id)
      BY <2>1, <2>2, ChainIsLineage
    <2>6. ASSUME NEW k \in 1..(Len(path) - 1) PROVE path[k] < path[k + 1]
      <3>1. k \in 1..Len(path) /\ k + 1 \in 1..Len(path)
        BY <2>4
      <3>2. path[k] \in Nodes(book) /\ path[k + 1] \in Nodes(book)
        BY <2>4, <3>1
      <3>3. book.nodes[path[k + 1]].parent = path[k]
        BY <2>2 DEF IsChain
      <3>4. path[k] # 0
        BY <2>1, <3>2, BookShape DEF Id
      <3> QED
        BY <2>1, <3>2, <3>3, <3>4 DEF Rooted
    <2>7. Len(Fragments(book, id)) = Len(path) - 1
      <3> DEFINE n == Len(path) - 1
                 in(k) == book.nodes[path[k + 1]].input
      <3>1. n \in Nat /\ Fragments(book, id) = [k \in 1..n |-> in(k)]
        BY <2>3, <2>4
      <3> HIDE DEF n, in
      <3>2. Len(Fragments(book, id)) = n
        BY <3>1
      <3> QED
        BY <3>2 DEF n
    <2>8. ASSUME id = book.current, NEW k \in 1..MaxId
          PROVE  StepsBack(book, k) = IF k < Len(path) THEN path[Len(path) - k] ELSE 0
      <3>1. k \in Nat \ {0}
        OBVIOUS
      <3> QED
        BY <2>1, <2>2, <2>8, <3>1, StepsBackClimbs
    <2> QED
      BY <2>5, <2>6, <2>7, <2>8 DEF path
  <1> QED
    BY <1>1, BookInvariant, PTL

-----------------------------------------------------------------------------
(* Action properties.                                                      *)

\* allocate(): no id is given out twice on one connection.
THEOREM IdsCorrect == Spec => IdsNeverReused
  <1>1. IInv /\ [Next]_book =>
            [/\ book'.next >= book.next
             /\ \A i \in Nodes(book)' \ Nodes(book) : i > book.next]_book
    <2> SUFFICES ASSUME IInv, Next
                 PROVE  /\ book'.next >= book.next
                        /\ \A i \in Nodes(book)' \ Nodes(book) : i > book.next
      OBVIOUS
    <2>1. book \in BookOver(Nodes(book)) /\ Nodes(book) \in SUBSET Id
      BY BookShape DEF IInv, TypeOK
    <2>2. book.next \in Nat
      BY <2>1 DEF BookOver
    <2>3. CASE BeginProof
      BY <2>2, <2>3 DEF BeginProof, Begin, Nodes
    <2>4. CASE CommitStep
      BY <2>1, <2>2, <2>4 DEF CommitStep, Commit, Nodes, BookOver
    <2>5. CASE CommitWithoutProof
      BY <2>1, <2>2, <2>5 DEF CommitWithoutProof, CommitRefused, Nodes, BookOver
    <2>6. CASE SelectCheckpoint
      BY <2>1, <2>2, <2>6 DEF SelectCheckpoint, Select, Nodes, BookOver
    <2>7. CASE ClearProof
      BY <2>2, <2>7 DEF ClearProof, Clear, EmptyBook, NoNodes, Nodes
    <2>8. CASE Invalidate
      BY <2>1, <2>2, <2>8 DEF Invalidate, InvalidateStates, Nodes, BookOver
    <2>9. CASE ReplayPath
      BY <2>1, <2>2, <2>9 DEF ReplayPath, InstallStates, Nodes, BookOver
    <2> QED
      BY <2>3, <2>4, <2>5, <2>6, <2>7, <2>8, <2>9 DEF Next
  <1> QED
    BY <1>1, BookInvariant, PTL DEF Spec, IdsNeverReused

\* A node that stays in the graph keeps the parent, input and completion bit it
\* was committed with; begin() and clear() keep none.
THEOREM HistoryCorrect == Spec => HistoryImmutable
  <1> DEFINE Same(i) == /\ book'.nodes[i].parent = book.nodes[i].parent
                        /\ book'.nodes[i].input = book.nodes[i].input
                        /\ book'.nodes[i].finished = book.nodes[i].finished
  <1>1. IInv /\ [Next]_book =>
            [\A i \in Nodes(book) \cap Nodes(book)' : Same(i)]_book
    <2> SUFFICES ASSUME IInv, Next, NEW i \in Nodes(book), i \in Nodes(book)'
                 PROVE  Same(i)
      OBVIOUS
    <2>1. book \in BookOver(Nodes(book)) /\ Nodes(book) \in SUBSET Id
      BY BookShape DEF IInv, TypeOK
    <2>2. book.nodes[i] \in Node
      BY <2>1 DEF BookOver
    <2>3. CASE BeginProof
      BY <2>3 DEF BeginProof, IInv, TreeOK
    <2>4. CASE CommitStep
      <3>1. i # book.next + 1
        BY <2>1 DEF IInv, TreeOK, BookOver, Id
      <3>2. book'.nodes[i] = book.nodes[i]
        BY <2>1, <2>4, <3>1 DEF CommitStep, Commit, BookOver
      <3> QED
        BY <3>2
    <2>5. CASE CommitWithoutProof
      BY <2>5 DEF CommitWithoutProof, IInv, TreeOK
    <2>6. CASE SelectCheckpoint
      <3>1. book'.nodes = book.nodes
        BY <2>1, <2>6 DEF SelectCheckpoint, Select, BookOver
      <3> QED
        BY <3>1
    <2>7. CASE ClearProof
      BY <2>7 DEF ClearProof, Clear, EmptyBook, NoNodes, Nodes
    <2>8. CASE Invalidate
      <3>1. book'.nodes[i] = [book.nodes[i] EXCEPT !.state = Null]
        BY <2>1, <2>8 DEF Invalidate, InvalidateStates, BookOver
      <3> QED
        BY <2>2, <3>1 DEF Node
    <2>9. CASE ReplayPath
      <3>1. PICK staged : book' = InstallStates(book, staged)
        BY <2>9 DEF ReplayPath
      <3>2. book'.nodes[i] \in {book.nodes[i], [book.nodes[i] EXCEPT !.state = staged[i]]}
        BY <2>1, <3>1 DEF InstallStates, BookOver
      <3> QED
        BY <2>2, <3>2 DEF Node
    <2> QED
      BY <2>3, <2>4, <2>5, <2>6, <2>7, <2>8, <2>9 DEF Next
  <1> QED
    BY <1>1, BookInvariant, PTL DEF Spec, HistoryImmutable

=============================================================================
