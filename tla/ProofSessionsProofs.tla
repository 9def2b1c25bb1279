----------------------- MODULE ProofSessionsProofs -----------------------
(***************************************************************************)
(* The sessions of a project and the PET process they share, for every     *)
(* number of sessions, checkpoints, fragments and PET ids: what a request  *)
(* may do to the checkpoint graphs of others, and who owns a PET state.    *)
(***************************************************************************)
EXTENDS ProofSessions, WellFoundedInduction, TLAPS

USE MaxIdAssumption

-----------------------------------------------------------------------------
(* What the methods of a book do to it.  Good is the part of the book's own *)
(* invariant that the requests rely on.                                     *)

Good(b) ==
    /\ Active(b) => b.current \in Nodes(b) /\ b.target \in Target
    /\ ~Active(b) => Nodes(b) = {} /\ b.target = Null
    /\ \A i \in Nodes(b) : i <= b.next
    /\ \A i, j \in Nodes(b) : b.nodes[i].parent = 0 => i <= j
    /\ \A i \in Nodes(b) : b.nodes[i].parent # 0 =>
          b.nodes[i].parent \in Nodes(b) /\ b.nodes[i].parent < i

\* No two checkpoints of a book own the same handle.
Distinct(b) ==
    \A i, j \in Nodes(b) :
        b.nodes[i].state # Null /\ b.nodes[i].state = b.nodes[j].state => i = j

\* The books b and c differ in handles only.
SameGraph(b, c) ==
    /\ IsBook(c) /\ Good(c)
    /\ Nodes(c) = Nodes(b)
    /\ c.current = b.current
    /\ c.target = b.target
    /\ c.next = b.next
    /\ Shape(c) = Shape(b)

\* A book is typed over the set of its own nodes.
LEMMA BookShape ==
    ASSUME NEW b, IsBook(b)
    PROVE  /\ Nodes(b) \in SUBSET Id
           /\ b \in BookOver(Nodes(b))
  <1>1. PICK D \in SUBSET Id : b \in BookOver(D)
    BY DEF IsBook
  <1>2. Nodes(b) = D
    BY <1>1 DEF BookOver, Nodes
  <1> QED
    BY <1>1, <1>2

\* begin() returns a book with the new id as its only node.
LEMMA BeginType ==
    ASSUME NEW b, IsBook(b), CanAllocate(b),
           NEW target \in Target, NEW state \in PetId, NEW finished \in BOOLEAN
    PROVE  /\ Begin(b, target, state, finished) \in BookOver({b.next + 1})
           /\ b.next + 1 \in Id
  <1>1. b.next \in 0..MaxId
    BY BookShape DEF BookOver
  <1>2. b.next + 1 \in Id
    BY <1>1 DEF CanAllocate, Id
  <1>3. [parent |-> 0, state |-> state, input |-> Null, finished |-> finished] \in Node
    BY DEF Node
  <1> QED
    BY <1>1, <1>2, <1>3 DEF Begin, BookOver, Id

\* commit() returns a book with one more node.
LEMMA CommitType ==
    ASSUME NEW b, IsBook(b), CanAllocate(b),
           NEW state \in PetId, NEW input \in Input, NEW finished \in BOOLEAN
    PROVE  /\ Commit(b, state, input, finished)
                \in BookOver(Nodes(b) \cup {b.next + 1})
           /\ b.next + 1 \in Id
  <1>1. /\ b \in BookOver(Nodes(b))
        /\ Nodes(b) \in SUBSET Id
    BY BookShape
  <1>2. b.next + 1 \in Id
    BY <1>1 DEF CanAllocate, Id, BookOver
  <1> DEFINE new == [parent |-> b.current, state |-> state,
                     input |-> input, finished |-> finished]
             nodes == [i \in Nodes(b) \cup {b.next + 1} |->
                          IF i = b.next + 1 THEN new ELSE b.nodes[i]]
  <1>3. new \in Node
    BY <1>1 DEF Node, BookOver
  <1>4. nodes \in [Nodes(b) \cup {b.next + 1} -> Node]
    BY <1>1, <1>3 DEF BookOver
  <1>5. Commit(b, state, input, finished)
          = [b EXCEPT !.next = b.next + 1, !.current = b.next + 1, !.nodes = nodes]
    BY DEF Commit
  <1> HIDE DEF nodes, new
  <1>6. b.next + 1 \in 0..MaxId
    BY <1>2 DEF Id
  <1>7. [b EXCEPT !.next = b.next + 1, !.current = b.next + 1, !.nodes = nodes]
          \in BookOver(Nodes(b) \cup {b.next + 1})
    BY <1>1, <1>4, <1>6 DEF BookOver
  <1> QED
    BY <1>2, <1>5, <1>7

\* Replacing handles changes neither the nodes nor their types.
LEMMA InstallType ==
    ASSUME NEW b, IsBook(b), NEW staged, \A i \in DOMAIN staged : staged[i] \in PetId
    PROVE  InstallStates(b, staged) \in BookOver(Nodes(b))
  <1>1. b \in BookOver(Nodes(b))
    BY BookShape
  <1> DEFINE nodes == [i \in Nodes(b) |->
                          IF i \in DOMAIN staged
                          THEN [b.nodes[i] EXCEPT !.state = staged[i]]
                          ELSE b.nodes[i]]
  <1>2. nodes \in [Nodes(b) -> Node]
    BY <1>1 DEF BookOver, Node
  <1>3. InstallStates(b, staged) = [b EXCEPT !.nodes = nodes]
    BY DEF InstallStates
  <1> HIDE DEF nodes
  <1> QED
    BY <1>1, <1>2, <1>3 DEF BookOver

\* Forgetting handles likewise.
LEMMA InvalidateType ==
    ASSUME NEW b, IsBook(b)
    PROVE  InvalidateStates(b) \in BookOver(Nodes(b))
  <1>1. b \in BookOver(Nodes(b))
    BY BookShape
  <1> DEFINE nodes == [i \in Nodes(b) |-> [b.nodes[i] EXCEPT !.state = Null]]
  <1>2. nodes \in [Nodes(b) -> Node]
    BY <1>1 DEF BookOver, Node
  <1>3. InvalidateStates(b) = [b EXCEPT !.nodes = nodes]
    BY DEF InvalidateStates
  <1> HIDE DEF nodes
  <1> QED
    BY <1>1, <1>2, <1>3 DEF BookOver

\* clear() leaves an empty book that keeps its counter.
LEMMA ClearType ==
    ASSUME NEW b, IsBook(b)
    PROVE  Clear(b) \in BookOver({})
  <1>1. NoNodes \in [{} -> Node]
    BY DEF NoNodes
  <1>2. b.next \in 0..MaxId
    BY BookShape DEF BookOver
  <1>3. 0 \in 0..MaxId
    OBVIOUS
  <1> QED
    BY <1>1, <1>2, <1>3 DEF Clear, EmptyBook, BookOver

\* The fields of a typed book.
LEMMA BookFields ==
    ASSUME NEW b, IsBook(b)
    PROVE  /\ Nodes(b) \subseteq Id
           /\ b = [next |-> b.next, target |-> b.target,
                   current |-> b.current, nodes |-> b.nodes]
           /\ b.next \in 0..MaxId
           /\ b.target \in Target \cup {Null}
           /\ b.current \in 0..MaxId
           /\ b.nodes \in [Nodes(b) -> Node]
  BY BookShape DEF BookOver

\* Forgetting the handles changes nothing else.
LEMMA InvalidateFacts ==
    ASSUME NEW b, IsBook(b), Good(b)
    PROVE  /\ SameGraph(b, InvalidateStates(b))
           /\ Retained(InvalidateStates(b)) = {}
           /\ Distinct(InvalidateStates(b))
  <1> DEFINE c == InvalidateStates(b)
             nodes == [i \in Nodes(b) |-> [b.nodes[i] EXCEPT !.state = Null]]
  <1>1. c \in BookOver(Nodes(b)) /\ Nodes(b) \subseteq Id
    BY InvalidateType, BookShape
  <1>2. IsBook(c)
    BY <1>1 DEF IsBook
  <1>3. c = [b EXCEPT !.nodes = nodes]
    BY DEF InvalidateStates
  <1>4. b \in BookOver(Nodes(b))
    BY BookShape
  <1>5. nodes \in [Nodes(b) -> Node]
    BY <1>4 DEF BookOver, Node
  <1>6. \A i \in Nodes(b) : /\ nodes[i].state = Null
                            /\ nodes[i].parent = b.nodes[i].parent
                            /\ [nodes[i] EXCEPT !.state = Null]
                                 = [b.nodes[i] EXCEPT !.state = Null]
    BY <1>4 DEF BookOver, Node
  <1> HIDE DEF nodes
  <1>7. /\ c.nodes = nodes /\ Nodes(c) = Nodes(b)
        /\ c.current = b.current /\ c.target = b.target /\ c.next = b.next
    BY <1>3, <1>4, <1>5 DEF BookOver, Nodes
  <1> HIDE DEF c
  <1>8. Good(c)
    BY <1>6, <1>7 DEF Good, Active
  <1>9. Shape(c) = Shape(b)
    BY <1>6, <1>7 DEF Shape
  <1>10. Retained(c) = {} /\ Distinct(c)
    BY <1>6, <1>7 DEF Retained, Distinct
  <1> QED
    BY <1>2, <1>7, <1>8, <1>9, <1>10 DEF SameGraph, c

\* Installing staged handles likewise.
LEMMA InstallFacts ==
    ASSUME NEW b, IsBook(b), Good(b),
           NEW staged, DOMAIN staged \subseteq Nodes(b),
           \A i \in DOMAIN staged : staged[i] \in PetId
    PROVE  /\ SameGraph(b, InstallStates(b, staged))
           /\ \A i \in Nodes(b) :
                 InstallStates(b, staged).nodes[i].state =
                    IF i \in DOMAIN staged THEN staged[i] ELSE b.nodes[i].state
  <1> DEFINE c == InstallStates(b, staged)
             nodes == [i \in Nodes(b) |->
                          IF i \in DOMAIN staged
                          THEN [b.nodes[i] EXCEPT !.state = staged[i]]
                          ELSE b.nodes[i]]
  <1>1. c \in BookOver(Nodes(b)) /\ Nodes(b) \subseteq Id
    BY InstallType, BookShape
  <1>2. IsBook(c)
    BY <1>1 DEF IsBook
  <1>3. c = [b EXCEPT !.nodes = nodes]
    BY DEF InstallStates
  <1>4. b \in BookOver(Nodes(b))
    BY BookShape
  <1>5. nodes \in [Nodes(b) -> Node]
    BY <1>4 DEF BookOver, Node
  <1>6. \A i \in Nodes(b) : /\ nodes[i].state = IF i \in DOMAIN staged THEN staged[i]
                                                ELSE b.nodes[i].state
                            /\ nodes[i].parent = b.nodes[i].parent
                            /\ [nodes[i] EXCEPT !.state = Null]
                                 = [b.nodes[i] EXCEPT !.state = Null]
    BY <1>4 DEF BookOver, Node
  <1> HIDE DEF nodes
  <1>7. /\ c.nodes = nodes /\ Nodes(c) = Nodes(b)
        /\ c.current = b.current /\ c.target = b.target /\ c.next = b.next
    BY <1>3, <1>4, <1>5 DEF BookOver, Nodes
  <1> HIDE DEF c
  <1>8. Good(c)
    BY <1>6, <1>7 DEF Good, Active
  <1>9. Shape(c) = Shape(b)
    BY <1>6, <1>7 DEF Shape
  <1> QED
    BY <1>2, <1>6, <1>7, <1>8, <1>9 DEF SameGraph, c

\* clear() leaves an inactive book without handles.
LEMMA ClearFacts ==
    ASSUME NEW b, IsBook(b)
    PROVE  /\ IsBook(Clear(b)) /\ Good(Clear(b)) /\ Distinct(Clear(b))
           /\ Nodes(Clear(b)) = {} /\ ~Active(Clear(b)) /\ Retained(Clear(b)) = {}
           /\ Clear(b) = [next |-> b.next, target |-> Null, current |-> 0,
                          nodes |-> NoNodes]
  <1>1. Clear(b) \in BookOver({})
    BY ClearType
  <1>2. Clear(b) = [next |-> b.next, target |-> Null, current |-> 0, nodes |-> NoNodes]
    BY DEF Clear, EmptyBook
  <1>3. DOMAIN NoNodes = {}
    BY DEF NoNodes
  <1>4. IsBook(Clear(b))
    BY <1>1 DEF IsBook
  <1>5. Nodes(Clear(b)) = {} /\ ~Active(Clear(b)) /\ Clear(b).target = Null
    BY <1>2, <1>3 DEF Nodes, Active
  <1> QED
    BY <1>2, <1>4, <1>5 DEF Good, Distinct, Retained

\* select() of an existing checkpoint.
LEMMA SelectFacts ==
    ASSUME NEW b, IsBook(b), Good(b), Active(b), NEW id \in Nodes(b)
    PROVE  /\ IsBook(Select(b, id)) /\ Good(Select(b, id))
           /\ Select(b, id).nodes = b.nodes
           /\ Nodes(Select(b, id)) = Nodes(b) /\ Active(Select(b, id))
           /\ Retained(Select(b, id)) = Retained(b)
           /\ Distinct(b) => Distinct(Select(b, id))
  <1>1. b \in BookOver(Nodes(b)) /\ Nodes(b) \subseteq Id
    BY BookShape
  <1>2. id \in 1..MaxId
    BY <1>1 DEF Id
  <1>3. Select(b, id) \in BookOver(Nodes(b))
    BY <1>1, <1>2 DEF Select, BookOver
  <1>4. /\ Select(b, id).nodes = b.nodes
        /\ Select(b, id).current = id
        /\ Select(b, id).target = b.target
        /\ Select(b, id).next = b.next
    BY <1>1 DEF Select, BookOver
  <1>5. IsBook(Select(b, id))
    BY <1>1, <1>3 DEF IsBook
  <1>6. Nodes(Select(b, id)) = Nodes(b) /\ Active(Select(b, id))
    BY <1>2, <1>4 DEF Nodes, Active
  <1>7. Good(Select(b, id))
    BY <1>4, <1>6 DEF Good
  <1> QED
    BY <1>4, <1>5, <1>6, <1>7 DEF Retained, Distinct

\* begin() makes a book of one checkpoint.
LEMMA BeginFacts ==
    ASSUME NEW b, IsBook(b), CanAllocate(b),
           NEW target \in Target, NEW state \in PetId, NEW finished \in BOOLEAN
    PROVE  LET c == Begin(b, target, state, finished)
           IN  /\ IsBook(c) /\ Good(c) /\ Distinct(c)
               /\ Active(c)
               /\ Retained(c) = {state}
  <1> DEFINE c == Begin(b, target, state, finished)
             n == b.next + 1
  <1>1. c \in BookOver({n}) /\ n \in Id
    BY BeginType
  <1>2. IsBook(c)
    BY <1>1 DEF IsBook
  <1>3. /\ c.current = n /\ c.target = target /\ c.next = n
        /\ Nodes(c) = {n}
        /\ c.nodes[n].state = state /\ c.nodes[n].parent = 0
    BY DEF Begin, Nodes
  <1> HIDE DEF c, n
  <1>4. n \in Nat /\ n # 0
    BY <1>1 DEF Id
  <1>5. Active(c)
    BY <1>3, <1>4 DEF Active
  <1>6. Good(c)
    BY <1>3, <1>4, <1>5 DEF Good
  <1>7. state # Null
    BY NullAssumption
  <1>8. Distinct(c) /\ Retained(c) = {state}
    BY <1>3, <1>7 DEF Distinct, Retained
  <1> QED
    BY <1>2, <1>5, <1>6, <1>8 DEF c

\* commit() adds a checkpoint and selects it.
LEMMA CommitFacts ==
    ASSUME NEW b, IsBook(b), Good(b), Active(b), CanAllocate(b),
           NEW state \in PetId, NEW input \in Input, NEW finished \in BOOLEAN
    PROVE  LET c == Commit(b, state, input, finished)
           IN  /\ IsBook(c) /\ Good(c)
               /\ Active(c)
               /\ Retained(c) = Retained(b) \cup {state}
               /\ Distinct(b) /\ state \notin Retained(b) => Distinct(c)
  <1> DEFINE c == Commit(b, state, input, finished)
             n == b.next + 1
  <1>1. c \in BookOver(Nodes(b) \cup {n}) /\ n \in Id
    BY CommitType
  <1>2. IsBook(c)
    <2>1. Nodes(b) \cup {n} \in SUBSET Id
      BY <1>1, BookShape
    <2> QED
      BY <1>1, <2>1 DEF IsBook
  <1>3. b \in BookOver(Nodes(b)) /\ Nodes(b) \subseteq Id
    BY BookShape
  <1>4. /\ c.current = n /\ c.target = b.target /\ c.next = n
        /\ c.nodes = [i \in Nodes(b) \cup {n} |->
                         IF i = n THEN [parent |-> b.current, state |-> state,
                                        input |-> input, finished |-> finished]
                         ELSE b.nodes[i]]
    BY <1>3 DEF Commit, BookOver
  <1>5. Nodes(c) = Nodes(b) \cup {n}
    BY <1>4 DEF Nodes
  <1>6. n \notin Nodes(b) /\ n \in Nat /\ n # 0 /\ \A i \in Nodes(b) : i \in Nat /\ i < n
    BY <1>1, <1>3 DEF Good, Id, BookOver
  <1>7. /\ c.nodes[n].state = state /\ c.nodes[n].parent = b.current
        /\ \A i \in Nodes(b) : c.nodes[i] = b.nodes[i]
    BY <1>4, <1>6
  <1>8. b.current # 0 /\ b.target \in Target
    BY DEF Active, Good
  <1> HIDE DEF c, n
  <1>9. Active(c)
    BY <1>4, <1>6 DEF Active
  <1>10. Good(c)
    <2>1. \A i \in Nodes(c) : i <= c.next
      BY <1>4, <1>5, <1>6
    <2>2. \A i, j \in Nodes(c) : c.nodes[i].parent = 0 => i <= j
      BY <1>5, <1>6, <1>7, <1>8 DEF Good
    <2>3. b.current \in Nodes(b)
      BY DEF Good
    <2>4. \A i \in Nodes(c) : c.nodes[i].parent # 0 =>
             c.nodes[i].parent \in Nodes(c) /\ c.nodes[i].parent < i
      BY <1>5, <1>6, <1>7, <2>3 DEF Good
    <2> QED
      BY <1>4, <1>5, <1>8, <1>9, <2>1, <2>2, <2>4 DEF Good
  <1>11. state # Null
    BY NullAssumption
  <1>12. Retained(c) = Retained(b) \cup {state}
    BY <1>5, <1>7, <1>11 DEF Retained
  <1>13. Distinct(b) /\ state \notin Retained(b) => Distinct(c)
    <2> SUFFICES ASSUME Distinct(b), state \notin Retained(b),
                        NEW i \in Nodes(c), NEW j \in Nodes(c),
                        c.nodes[i].state # Null, c.nodes[i].state = c.nodes[j].state
                 PROVE  i = j
      BY DEF Distinct
    <2>1. \A k \in Nodes(b) : b.nodes[k].state # state
      BY <1>11 DEF Retained
    <2> QED
      BY <1>5, <1>7, <2>1 DEF Distinct
  <1> QED
    BY <1>2, <1>9, <1>10, <1>12, <1>13 DEF c

\* A book without a proof is what clear() leaves.
LEMMA InactiveIsClear ==
    ASSUME NEW b, IsBook(b), Good(b), ~Active(b)
    PROVE  Clear(b) = b /\ Retained(b) = {}
  <1>1. b = [next |-> b.next, target |-> b.target, current |-> b.current, nodes |-> b.nodes]
    BY BookFields
  <1>2. b.target = Null /\ b.current = 0 /\ Nodes(b) = {}
    BY DEF Good, Active
  <1>3. b.nodes = NoNodes
    BY <1>2, BookFields DEF NoNodes, Nodes
  <1> QED
    BY <1>1, <1>2, <1>3, ClearFacts DEF Retained

\* A nonempty set of naturals has a least element.
LEMMA LeastNat ==
    ASSUME NEW S \in SUBSET Nat, S # {}
    PROVE  \E i \in S : \A j \in S : i <= j
  <1>1. PICK i \in S : \A j \in S : ~(<<j, i>> \in OpToRel(<, Nat))
    BY NatLessThanWellFounded, WFMin
  <1>2. \A j \in S : ~(j < i)
    BY <1>1 DEF OpToRel
  <1> QED
    BY <1>2

-----------------------------------------------------------------------------
(* What the recursion of path() computes.  The equations of a recursive     *)
(* function hold once some function satisfies them; it is built up from the *)
(* root, since parents are older than their children.                       *)

IsWalk(b, f) ==
    f = [i \in {0} \cup Nodes(b) |->
            IF i = 0 THEN <<>> ELSE Append(f[b.nodes[i].parent], i)]

Walk(b) == CHOOSE f : IsWalk(b, f)

\* f is the walk on the part D of the graph.
WalkOn(b, D, f) ==
    /\ f \in [D -> Seq(Nodes(b))]
    /\ f[0] = <<>>
    /\ \A i \in D \ {0} : f[i] = Append(f[b.nodes[i].parent], i)

\* The local function of path().
LEMMA PathIsWalk == ASSUME NEW b, NEW id PROVE Path(b, id) = Walk(b)[id]
  BY Zenon DEF Path, Walk, IsWalk

\* The equations have a solution.
LEMMA WalkExists ==
    ASSUME NEW b, IsBook(b), Good(b)
    PROVE  \E f : WalkOn(b, {0} \cup Nodes(b), f)
  <1> DEFINE D(n) == {0} \cup {j \in Nodes(b) : j <= n}
             S == {n \in Nat : ~\E f : WalkOn(b, D(n), f)}
  <1>1. Nodes(b) \subseteq 1..MaxId
    BY BookFields DEF Id
  <1>2. 0 \notin S
    <2>1. D(0) = {0}
      BY <1>1
    <2>2. WalkOn(b, {0}, [i \in {0} |-> <<>>])
      BY DEF WalkOn
    <2> QED
      BY <2>1, <2>2
  <1>3. ASSUME NEW n \in Nat, n \notin S PROVE n + 1 \notin S
    <2>1. PICK f : WalkOn(b, D(n), f)
      BY <1>3
    <2>2. CASE n + 1 \notin Nodes(b)
      <3>1. D(n + 1) = D(n)
        BY <1>1, <2>2
      <3> QED
        BY <2>1, <3>1
    <2>3. CASE n + 1 \in Nodes(b)
      <3> DEFINE p == b.nodes[n + 1].parent
                 g == [i \in D(n + 1) |-> IF i = n + 1 THEN Append(f[p], n + 1) ELSE f[i]]
      <3>1. D(n + 1) = D(n) \cup {n + 1} /\ n + 1 \notin D(n) /\ 0 \in D(n)
        BY <1>1, <2>3
      <3>2. p \in D(n)
        BY <1>1, <2>3 DEF Good
      <3>3. f \in [D(n) -> Seq(Nodes(b))] /\ f[0] = <<>>
        BY <2>1 DEF WalkOn
      <3>4. \A i \in D(n) \ {0} : b.nodes[i].parent \in D(n)
        BY <1>1 DEF Good
      <3>5. Append(f[p], n + 1) \in Seq(Nodes(b))
        BY <2>3, <3>2, <3>3
      <3>6. g \in [D(n + 1) -> Seq(Nodes(b))]
        BY <3>1, <3>3, <3>5
      <3>7. g[0] = <<>> /\ \A i \in D(n) : g[i] = f[i]
        BY <3>1, <3>3
      <3>8. g[n + 1] = Append(f[p], n + 1)
        BY <3>1
      <3> HIDE DEF g
      <3>9. \A i \in D(n) \ {0} : g[i] = Append(g[b.nodes[i].parent], i)
        BY <2>1, <3>4, <3>7 DEF WalkOn
      <3>10. g[n + 1] = Append(g[p], n + 1)
        BY <3>2, <3>7, <3>8
      <3> HIDE DEF D
      <3>11. WalkOn(b, D(n + 1), g)
        BY <3>1, <3>6, <3>7, <3>9, <3>10 DEF WalkOn
      <3> QED
        BY <3>11
    <2> QED
      BY <2>2, <2>3
  <1>4. MaxId \notin S
    <2>1. S = {}
      <3> HIDE DEF S
      <3>1. SUFFICES ASSUME S # {}, S \subseteq Nat PROVE FALSE
        BY DEF S
      <3>2. PICK m \in S : \A j \in S : m <= j
        BY <3>1, LeastNat
      <3>3. m \in Nat /\ m # 0
        BY <1>2, <3>1, <3>2
      <3>4. m - 1 \in Nat /\ m - 1 \notin S
        BY <3>1, <3>2, <3>3
      <3>5. (m - 1) + 1 \notin S
        BY <1>3, <3>4
      <3> QED
        BY <3>2, <3>3, <3>5
    <2> QED
      BY <2>1
  <1>5. D(MaxId) = {0} \cup Nodes(b)
    BY <1>1
  <1> QED
    BY <1>4, <1>5

\* Two solutions agree.
LEMMA WalkUnique ==
    ASSUME NEW b, IsBook(b), Good(b), NEW f, NEW g,
           WalkOn(b, {0} \cup Nodes(b), f), IsWalk(b, g)
    PROVE  g = f
  <1> DEFINE D == {0} \cup Nodes(b)
             S == {i \in D : g[i] # f[i]}
  <1>1. Nodes(b) \subseteq 1..MaxId
    BY BookFields DEF Id
  <1>2. /\ g = [i \in D |-> g[i]] /\ g[0] = <<>>
        /\ \A i \in Nodes(b) : g[i] = Append(g[b.nodes[i].parent], i)
    <2> DEFINE step(i) == IF i = 0 THEN <<>> ELSE Append(g[b.nodes[i].parent], i)
    <2>1. g = [i \in D |-> step(i)]
      BY Zenon DEF IsWalk
    <2>2. 0 \in D /\ \A i \in Nodes(b) : i \in D /\ i # 0
      BY <1>1
    <2>3. step(0) = <<>> /\ \A i \in Nodes(b) : step(i) = Append(g[b.nodes[i].parent], i)
      BY <2>2
    <2> HIDE DEF step, D
    <2>4. \A i \in D : g[i] = step(i)
      BY <2>1
    <2>5. g = [i \in D |-> g[i]]
      BY <2>1, <2>4
    <2> QED
      BY <2>2, <2>3, <2>4, <2>5
  <1>3. /\ f = [i \in D |-> f[i]] /\ f[0] = <<>>
        /\ \A i \in Nodes(b) : f[i] = Append(f[b.nodes[i].parent], i)
    <2>1. f = [i \in D |-> f[i]]
      BY DEF WalkOn
    <2>2. \A i \in Nodes(b) : i \in D \ {0}
      BY <1>1
    <2> QED
      BY <2>1, <2>2 DEF WalkOn
  <1>4. S = {}
    <2>1. SUFFICES ASSUME S # {} PROVE FALSE
      OBVIOUS
    <2>2. S \in SUBSET Nat
      BY <1>1
    <2>3. PICK m \in S : \A j \in S : m <= j
      BY <2>1, <2>2, LeastNat
    <2>4. m \in Nodes(b) /\ g[m] # f[m]
      BY <1>2, <1>3, <2>3
    <2>5. b.nodes[m].parent \in D /\ b.nodes[m].parent < m
      BY <1>1, <2>4 DEF Good
    <2>6. b.nodes[m].parent \notin S
      BY <1>1, <2>3, <2>4, <2>5
    <2>7. g[b.nodes[m].parent] = f[b.nodes[m].parent]
      BY <2>5, <2>6
    <2> QED
      BY <1>2, <1>3, <2>4, <2>7
  <1>5. \A i \in D : g[i] = f[i]
    BY <1>4
  <1> QED
    BY <1>2, <1>3, <1>5

\* The path to a checkpoint extends the path to its parent.
LEMMA PathFacts ==
    ASSUME NEW b, IsBook(b), Good(b)
    PROVE  /\ Path(b, 0) = <<>>
           /\ \A i \in Nodes(b) : /\ Path(b, i) \in Seq(Nodes(b))
                                  /\ Path(b, i) = Append(Path(b, b.nodes[i].parent), i)
  <1>1. PICK f : WalkOn(b, {0} \cup Nodes(b), f)
    BY WalkExists
  <1>2. Nodes(b) \subseteq 1..MaxId
    BY BookFields DEF Id
  <1>3. IsWalk(b, f)
    <2>1. f = [i \in {0} \cup Nodes(b) |-> f[i]]
      BY <1>1 DEF WalkOn
    <2>2. \A i \in {0} \cup Nodes(b) :
             f[i] = IF i = 0 THEN <<>> ELSE Append(f[b.nodes[i].parent], i)
      BY <1>1 DEF WalkOn
    <2> QED
      BY <2>1, <2>2 DEF IsWalk
  <1>4. IsWalk(b, Walk(b))
    BY <1>3, Zenon DEF Walk
  <1>5. Walk(b) = f
    BY <1>1, <1>4, WalkUnique
  <1>6. \A i : Path(b, i) = f[i]
    BY <1>5, PathIsWalk
  <1>7. f[0] = <<>> /\ \A i \in Nodes(b) : /\ f[i] \in Seq(Nodes(b))
                                           /\ f[i] = Append(f[b.nodes[i].parent], i)
    <2>1. \A i \in Nodes(b) : i \in ({0} \cup Nodes(b)) \ {0}
      BY <1>2
    <2>2. \A i \in Nodes(b) : f[i] \in Seq(Nodes(b))
      BY <1>1 DEF WalkOn
    <2> QED
      BY <1>1, <2>1, <2>2 DEF WalkOn
  <1> QED
    BY <1>6, <1>7

\* Sequences of one length with the same elements are equal.
LEMMA SeqEq ==
    ASSUME NEW T, NEW s \in Seq(T), NEW t \in Seq(T), NEW n, Len(s) = n, Len(t) = n,
           \A k \in 1..n : s[k] = t[k]
    PROVE  s = t
  OBVIOUS

\* So do its fragments: the root has none.
LEMMA FragmentsFacts ==
    ASSUME NEW b, IsBook(b), Good(b), NEW i \in Nodes(b)
    PROVE  LET p == b.nodes[i].parent
           IN  /\ p = 0 => Fragments(b, i) = <<>>
               /\ p # 0 => Fragments(b, i) = Append(Fragments(b, p), b.nodes[i].input)
               /\ Fragments(b, i) \in Seq(Input \cup {Null})
  <1> DEFINE p == b.nodes[i].parent
             path == Path(b, i)
             up == Path(b, p)
  <1>1. path \in Seq(Nodes(b)) /\ path = Append(up, i)
    BY PathFacts
  <1>2. b.nodes \in [Nodes(b) -> Node]
    BY BookFields
  <1>3. Fragments(b, i) = [k \in 1..(Len(path) - 1) |-> b.nodes[path[k + 1]].input]
    BY DEF Fragments
  <1>4. \A k \in 1..(Len(path) - 1) : b.nodes[path[k + 1]].input \in Input \cup {Null}
    BY <1>1, <1>2 DEF Node
  <1>5. CASE p = 0
    <2>1. up = <<>>
      BY <1>5, PathFacts
    <2>2. Len(path) = 1
      BY <1>1, <2>1
    <2>3. Fragments(b, i) = <<>>
      BY <1>3, <2>2
    <2> QED
      BY <1>5, <2>3
  <1>6. CASE p # 0
    <2>1. p \in Nodes(b)
      BY <1>6 DEF Good
    <2>2. up \in Seq(Nodes(b)) /\ up = Append(Path(b, b.nodes[p].parent), p)
      BY <2>1, PathFacts
    <2>3. Fragments(b, p) = [k \in 1..(Len(up) - 1) |-> b.nodes[up[k + 1]].input]
      BY DEF Fragments
    <2> HIDE DEF path, up, p
    <2>4. Len(path) = Len(up) + 1 /\ path[Len(up) + 1] = i /\ Len(up) \in Nat
          /\ \A k \in 1..Len(up) : path[k] = up[k]
      BY <1>1, <2>2
    <2>5. Len(up) >= 1
      <3>1. Path(b, b.nodes[p].parent) \in Seq(Nodes(b))
        <4>1. CASE b.nodes[p].parent = 0
          <5>1. Path(b, b.nodes[p].parent) = <<>>
            BY <4>1, PathFacts
          <5>2. <<>> \in Seq(Nodes(b))
            OBVIOUS
          <5> QED
            BY <5>1, <5>2
        <4>2. CASE b.nodes[p].parent # 0
          BY <2>1, <4>2, PathFacts DEF Good
        <4> QED
          BY <4>1, <4>2
      <3> QED
        BY <2>2, <3>1
    <2>6. \A k \in 1..(Len(up) - 1) : b.nodes[up[k + 1]].input \in Input \cup {Null}
      BY <1>2, <2>2 DEF Node
    <2>7. /\ Fragments(b, p) \in Seq(Input \cup {Null}) /\ Len(Fragments(b, p)) = Len(up) - 1
          /\ \A k \in 1..(Len(up) - 1) : Fragments(b, p)[k] = b.nodes[up[k + 1]].input
      <3> DEFINE n == Len(up) - 1
                 in(k) == b.nodes[up[k + 1]].input
      <3>1. n \in Nat /\ Fragments(b, p) = [k \in 1..n |-> in(k)]
        BY <2>3, <2>4, <2>5
      <3>2. \A k \in 1..n : in(k) \in Input \cup {Null}
        BY <2>6
      <3> HIDE DEF n, in
      <3>3. /\ Fragments(b, p) \in Seq(Input \cup {Null}) /\ Len(Fragments(b, p)) = n
            /\ \A k \in 1..n : Fragments(b, p)[k] = in(k)
        BY <3>1, <3>2
      <3> QED
        BY <3>3 DEF n, in
    <2>8. b.nodes[i].input \in Input \cup {Null}
      BY <1>2 DEF Node
    <2>9. Fragments(b, i) = [k \in 1..Len(up) |-> b.nodes[path[k + 1]].input]
      BY <1>3, <2>4
    <2>10. Fragments(b, i) \in Seq(Input \cup {Null}) /\ Len(Fragments(b, i)) = Len(up)
      BY <1>3, <1>4, <2>4, <2>5, <2>9
    <2>11. \A k \in 1..Len(up) :
              Fragments(b, i)[k] = Append(Fragments(b, p), b.nodes[i].input)[k]
      <3> SUFFICES ASSUME NEW k \in 1..Len(up)
                   PROVE  Fragments(b, i)[k] = Append(Fragments(b, p), b.nodes[i].input)[k]
        OBVIOUS
      <3>1. Fragments(b, i)[k] = b.nodes[path[k + 1]].input
        BY <2>9
      <3>2. CASE k = Len(up)
        BY <2>4, <2>5, <2>7, <3>1, <3>2
      <3>3. CASE k # Len(up)
        <4>1. k \in 1..(Len(up) - 1) /\ k + 1 \in 1..Len(up)
          BY <2>4, <2>5, <3>3
        <4>2. Append(Fragments(b, p), b.nodes[i].input)[k] = Fragments(b, p)[k]
          BY <2>7, <2>8, <4>1
        <4> QED
          BY <2>4, <2>7, <3>1, <4>1, <4>2
      <3> QED
        BY <3>2, <3>3
    <2>12. Append(Fragments(b, p), b.nodes[i].input) \in Seq(Input \cup {Null})
           /\ Len(Append(Fragments(b, p), b.nodes[i].input)) = Len(up)
      BY <2>4, <2>5, <2>7, <2>8
    <2>13. Fragments(b, i) = Append(Fragments(b, p), b.nodes[i].input)
      BY <2>10, <2>11, <2>12, SeqEq
    <2> QED
      BY <2>10, <2>13, <1>6 DEF p
  <1> QED
    BY <1>5, <1>6

\* Fragments depend on parents and inputs only.
LEMMA FragmentsSame ==
    ASSUME NEW b, IsBook(b), Good(b), NEW c, IsBook(c), Good(c),
           \A i \in Nodes(b) : /\ i \in Nodes(c)
                               /\ c.nodes[i].parent = b.nodes[i].parent
                               /\ c.nodes[i].input = b.nodes[i].input
    PROVE  \A i \in Nodes(b) : Fragments(c, i) = Fragments(b, i)
  <1> DEFINE S == {i \in Nodes(b) : Fragments(c, i) # Fragments(b, i)}
  <1>1. Nodes(b) \subseteq 1..MaxId
    BY BookFields DEF Id
  <1>2. S = {}
    <2>1. SUFFICES ASSUME S # {} PROVE FALSE
      OBVIOUS
    <2>2. S \in SUBSET Nat
      BY <1>1
    <2>3. PICK m \in S : \A j \in S : m <= j
      BY <2>1, <2>2, LeastNat
    <2>4. m \in Nodes(b) /\ Fragments(c, m) # Fragments(b, m)
      BY <2>3
    <2>5. b.nodes[m].parent # 0
      BY <2>4, FragmentsFacts
    <2>6. b.nodes[m].parent \in Nodes(b) /\ b.nodes[m].parent < m
      BY <2>4, <2>5 DEF Good
    <2>7. b.nodes[m].parent \notin S
      BY <1>1, <2>3, <2>4, <2>6
    <2>8. Fragments(c, b.nodes[m].parent) = Fragments(b, b.nodes[m].parent)
      BY <2>6, <2>7
    <2> QED
      BY <2>4, <2>5, <2>8, FragmentsFacts
  <1> QED
    BY <1>2

-----------------------------------------------------------------------------
(* What requests do to PET's table.                                        *)

\* A PET is typed over the ids of its own table.
LEMMA PetShape ==
    ASSUME NEW p, IsPet(p)
    PROVE  /\ DOMAIN p.table \in SUBSET PetId
           /\ p \in [proc : {"none", "dead", "live"}, table : [DOMAIN p.table -> Contents]]
  <1>1. PICK D \in SUBSET PetId :
            p \in [proc : {"none", "dead", "live"}, table : [D -> Contents]]
    BY DEF IsPet
  <1>2. DOMAIN p.table = D
    BY <1>1
  <1> QED
    BY <1>1, <1>2

\* A process without exported states, or none.
LEMMA EmptyPet ==
    ASSUME NEW proc \in {"none", "dead", "live"}
    PROVE  /\ IsPet([NoPet EXCEPT !.proc = proc])
           /\ [NoPet EXCEPT !.proc = proc].proc = proc
           /\ DOMAIN [NoPet EXCEPT !.proc = proc].table = {}
           /\ NoPet = [NoPet EXCEPT !.proc = "none"]
  <1>1. NoNodes \in [{} -> Contents] /\ DOMAIN NoNodes = {}
    BY DEF NoNodes
  <1>2. /\ [NoPet EXCEPT !.proc = proc] = [proc |-> proc, table |-> NoNodes]
        /\ NoPet = [NoPet EXCEPT !.proc = "none"]
    BY DEF NoPet
  <1>3. [proc |-> proc, table |-> NoNodes]
           \in [proc : {"none", "dead", "live"}, table : [{} -> Contents]]
    BY <1>1
  <1>4. IsPet([proc |-> proc, table |-> NoNodes])
    BY <1>3 DEF IsPet
  <1> QED
    BY <1>1, <1>2, <1>4

\* Without a child.
LEMMA NoPetFacts == IsPet(NoPet) /\ NoPet.proc = "none" /\ DOMAIN NoPet.table = {}
  <1>1. NoPet = [NoPet EXCEPT !.proc = "none"]
    BY EmptyPet
  <1>2. /\ IsPet([NoPet EXCEPT !.proc = "none"])
        /\ [NoPet EXCEPT !.proc = "none"].proc = "none"
        /\ DOMAIN [NoPet EXCEPT !.proc = "none"].table = {}
    BY EmptyPet
  <1> QED
    BY <1>1, <1>2

\* ensure_process().
LEMMA SpawnedFacts ==
    ASSUME IsPet(pet)
    PROVE  /\ IsPet(Spawned)
           /\ Spawned.proc = IF pet.proc = "none" THEN "live" ELSE pet.proc
           /\ pet.proc = "none" => DOMAIN Spawned.table = {}
           /\ pet.proc # "none" => Spawned = pet
  <1>1. CASE pet.proc = "none"
    <2>1. Spawned = [NoPet EXCEPT !.proc = "live"]
      BY <1>1 DEF Spawned
    <2>2. /\ IsPet([NoPet EXCEPT !.proc = "live"])
          /\ [NoPet EXCEPT !.proc = "live"].proc = "live"
          /\ DOMAIN [NoPet EXCEPT !.proc = "live"].table = {}
      BY EmptyPet
    <2> QED
      BY <1>1, <2>1, <2>2
  <1>2. CASE pet.proc # "none"
    BY <1>2 DEF Spawned
  <1> QED
    BY <1>1, <1>2

\* refresh_workspace().
LEMMA RefreshedFacts ==
    ASSUME NEW p \in Refreshed
    PROVE  IsPet(p) /\ DOMAIN p.table = {}
  <1>1. /\ IsPet([NoPet EXCEPT !.proc = "live"])
        /\ DOMAIN [NoPet EXCEPT !.proc = "live"].table = {}
    BY EmptyPet
  <1> QED
    BY <1>1, NoPetFacts DEF Refreshed

\* PET never hands out an id it still uses.
LEMMA FreeIdFacts ==
    ASSUME NEW p, IsPet(p), HasRoom(p)
    PROVE  FreeId(p) \in PetId /\ FreeId(p) \notin DOMAIN p.table
  <1>1. \E i \in PetId : i \notin DOMAIN p.table
    BY PetShape DEF HasRoom
  <1> QED
    BY <1>1 DEF FreeId

\* An export adds one id.
LEMMA ExportFacts ==
    ASSUME NEW p, IsPet(p), HasRoom(p), NEW content \in Contents
    PROVE  /\ IsPet(Export(p, content))
           /\ Export(p, content).proc = p.proc
           /\ DOMAIN Export(p, content).table = DOMAIN p.table \cup {FreeId(p)}
  <1> DEFINE D == DOMAIN p.table \cup {FreeId(p)}
             table == [i \in D |-> IF i = FreeId(p) THEN content ELSE p.table[i]]
  <1>1. FreeId(p) \in PetId
    BY FreeIdFacts
  <1>2. /\ DOMAIN p.table \in SUBSET PetId
        /\ p \in [proc : {"none", "dead", "live"}, table : [DOMAIN p.table -> Contents]]
    BY PetShape
  <1>3. D \in SUBSET PetId
    BY <1>1, <1>2
  <1>4. table \in [D -> Contents]
    BY <1>2
  <1>5. Export(p, content) = [p EXCEPT !.table = table]
    BY DEF Export
  <1> HIDE DEF table
  <1>6. /\ [p EXCEPT !.table = table]
              \in [proc : {"none", "dead", "live"}, table : [D -> Contents]]
        /\ [p EXCEPT !.table = table].proc = p.proc
        /\ [p EXCEPT !.table = table].table = table
    BY <1>2, <1>4
  <1>7. DOMAIN table = D
    BY <1>4
  <1>8. IsPet(Export(p, content))
    BY <1>3, <1>5, <1>6 DEF IsPet
  <1> QED
    BY <1>5, <1>6, <1>7, <1>8

\* A release removes exactly the ids it names.
LEMMA ReleaseFacts ==
    ASSUME NEW p, IsPet(p), NEW ids
    PROVE  /\ IsPet(Release(p, ids))
           /\ Release(p, ids).proc = p.proc
           /\ DOMAIN Release(p, ids).table = DOMAIN p.table \ ids
  <1> DEFINE D == DOMAIN p.table \ ids
             table == [i \in D |-> p.table[i]]
  <1>2. /\ DOMAIN p.table \in SUBSET PetId
        /\ p \in [proc : {"none", "dead", "live"}, table : [DOMAIN p.table -> Contents]]
    BY PetShape
  <1>3. D \in SUBSET PetId
    BY <1>2
  <1>4. table \in [D -> Contents]
    BY <1>2
  <1>5. Release(p, ids) = [p EXCEPT !.table = table]
    BY DEF Release
  <1> HIDE DEF table
  <1>6. /\ [p EXCEPT !.table = table]
              \in [proc : {"none", "dead", "live"}, table : [D -> Contents]]
        /\ [p EXCEPT !.table = table].proc = p.proc
        /\ [p EXCEPT !.table = table].table = table
    BY <1>2, <1>4
  <1>7. DOMAIN table = D
    BY <1>4
  <1>8. IsPet(Release(p, ids))
    BY <1>3, <1>5, <1>6 DEF IsPet
  <1> QED
    BY <1>5, <1>6, <1>7, <1>8

\* One more fragment.
LEMMA AfterFacts ==
    ASSUME NEW content \in Contents, NEW input \in Input \cup {Null}
    PROVE  After(content, input) \in Contents
  <1>1. content.frags \in Seq(Input \cup {Null})
    BY DEF Contents
  <1>2. Append(content.frags, input) \in Seq(Input \cup {Null})
    BY <1>1
  <1>3. After(content, input) = [content EXCEPT !.frags = Append(content.frags, input)]
    BY DEF After
  <1> QED
    BY <1>2, <1>3 DEF Contents

\* A release leaves the other states alone.
LEMMA ReleasedTable ==
    ASSUME NEW p, IsPet(p), NEW ids
    PROVE  \A h \in DOMAIN Release(p, ids).table :
              h \in DOMAIN p.table /\ Release(p, ids).table[h] = p.table[h]
  <1> DEFINE table == [i \in DOMAIN p.table \ ids |-> p.table[i]]
  <1>1. p \in [proc : {"none", "dead", "live"}, table : [DOMAIN p.table -> Contents]]
    BY PetShape
  <1>2. Release(p, ids) = [p EXCEPT !.table = table]
    BY DEF Release
  <1>3. \A h \in DOMAIN table : h \in DOMAIN p.table /\ table[h] = p.table[h]
    OBVIOUS
  <1> HIDE DEF table
  <1>4. [p EXCEPT !.table = table].table = table
    BY <1>1
  <1> QED
    BY <1>2, <1>3, <1>4

\* An export leaves them alone too, and its id stands for the new one.
LEMMA ExportedTable ==
    ASSUME NEW p, IsPet(p), HasRoom(p), NEW content \in Contents
    PROVE  /\ Export(p, content).table[FreeId(p)] = content
           /\ \A h \in DOMAIN p.table : Export(p, content).table[h] = p.table[h]
  <1> DEFINE table == [i \in DOMAIN p.table \cup {FreeId(p)} |->
                          IF i = FreeId(p) THEN content ELSE p.table[i]]
  <1>1. p \in [proc : {"none", "dead", "live"}, table : [DOMAIN p.table -> Contents]]
    BY PetShape
  <1>2. Export(p, content) = [p EXCEPT !.table = table]
    BY DEF Export
  <1>3. FreeId(p) \notin DOMAIN p.table
    BY FreeIdFacts
  <1>4. table[FreeId(p)] = content /\ \A h \in DOMAIN p.table : table[h] = p.table[h]
    BY <1>3
  <1> HIDE DEF table
  <1>5. [p EXCEPT !.table = table].table = table
    BY <1>1
  <1> QED
    BY <1>2, <1>4, <1>5

-----------------------------------------------------------------------------
(* The control of a request.                                               *)

ProofTools == {"check", "try", "goals", "ask", "rewind", "abandon"}
OpenTools == {"prove", "declare"}
GoalTools == {"check", "try", "goals", "ask"}

BooksOK == DOMAIN book = Session /\ \A s \in Session : IsBook(book[s]) /\ Good(book[s])

LinksOK ==
    /\ attached \in [Session -> BOOLEAN]
    /\ conn \in [Session -> {"open", "dropping", "closed"}]

WorldOK ==
    /\ source \in Target /\ upstream \in Env
    /\ compiled \in Target /\ env \in Env /\ layout \in BOOLEAN

\* Which tool can be where, and that its session cannot leave meanwhile.
ControlOK ==
    /\ At("idle") => call = NoCall
    /\ ~At("idle") => call.s \in Session /\ conn[call.s] = "open" /\ attached[call.s]
    /\ At("validate") => call.tool \in {"check", "try", "goals", "rewind"}
    /\ At("reconcile") => call.tool \in Tool \ {"abandon"}
    /\ At("replay") =>
          \/ call.ret = "goals" /\ call.tool \in GoalTools
          \/ call.ret = "run" /\ call.tool \in {"check", "try"}
          \/ call.ret = "rewind" /\ call.tool = "rewind"
    /\ At("goals") => call.tool \in GoalTools
    /\ At("run") => call.tool \in {"check", "try"}
    /\ At("discard") => call.tool = "try"
    /\ call.pc \in {"close", "commit", "lost", "publish", "write"} =>
          call.tool = "check"
    /\ call.pc \in {"open", "begin"} => call.tool \in OpenTools
    /\ At("audit") => call.tool = "prove"
    /\ At("inspect") => call.tool = "list"
    /\ call.pc \in {"locate", "answer"} => call.tool = "at"
    /\ At("rewind") => call.tool = "rewind"
    /\ At("retire") => call.tool = "abandon"

\* What the request carries at each point.
DataOK ==
    /\ call.req = "committed" <=> call.pc \in {"lost", "publish", "write"}
    /\ call.temp # Null <=>
          call.pc \in {"discard", "close", "commit", "begin", "answer"}
    /\ call.pc \in {"close", "commit"} => call.input \in Input
    /\ At("begin") => call.anchor \in Target
    /\ ~At("replay") => call.staged = NoNodes /\ call.todo = {}
    /\ At("replay") =>
          /\ call.todo = MissingSuffix(Mine, WorkId)
          /\ DOMAIN call.staged \subseteq call.todo

\* The request and the proof it was admitted for.
ProofOK ==
    ~At("idle") =>
        /\ call.tool \in OpenTools => ~Active(Mine)
        /\ call.tool \in ProofTools => Active(Mine)
        /\ call.tool = "rewind" => call.goal \in Nodes(Mine)

CallOK == IsCall(call) /\ ControlOK /\ DataOK /\ ProofOK

TInv == BooksOK /\ LinksOK /\ IsPet(pet) /\ CallOK /\ WorldOK

-----------------------------------------------------------------------------
(* Steps that many actions share.                                          *)

\* A call is typed over the checkpoints it has staged.
LEMMA CallShape ==
    ASSUME NEW c, IsCall(c)
    PROVE  DOMAIN c.staged \in SUBSET Id /\ c \in CallOver(DOMAIN c.staged)
  <1>1. PICK D \in SUBSET Id : c \in CallOver(D)
    BY DEF IsCall
  <1>2. DOMAIN c.staged = D
    BY <1>1 DEF CallOver
  <1> QED
    BY <1>1, <1>2

\* No request: typed, and it owns nothing.
LEMMA NoCallFacts ==
    /\ IsCall(NoCall)
    /\ NoCall.pc = "idle" /\ NoCall.req = "active" /\ NoCall.temp = Null
    /\ NoCall.staged = NoNodes /\ NoCall.todo = {} /\ NoCall.tool = "none"
  <1>1. NoNodes \in [{} -> PetId]
    BY DEF NoNodes
  <1>2. <<>> \in Seq(Input \cup {Null})
    OBVIOUS
  <1>3. /\ NoCall.pc = "idle" /\ NoCall.req = "active" /\ NoCall.temp = Null
        /\ NoCall.staged = NoNodes /\ NoCall.todo = {} /\ NoCall.tool = "none"
    BY DEF NoCall
  <1>4. 0 \in 0..MaxAttempts /\ 0 \in 0..MaxId
    BY SessionsAssumption
  <1>5. NoCall \in CallOver({})
    BY <1>1, <1>2, <1>4 DEF NoCall, CallOver, Pcs
  <1> QED
    BY <1>3, <1>5 DEF IsCall

\* Answering leaves no request.
LEMMA EndCall == End => CallOK'
  <1> SUFFICES ASSUME End PROVE CallOK'
    OBVIOUS
  <1>1. call' = NoCall
    BY DEF End
  <1> QED
    BY <1>1, NoCallFacts DEF CallOK, ControlOK, DataOK, ProofOK, At

\* Forgetting the handles of a project keeps every graph.
LEMMA InvalidatedFacts ==
    ASSUME NEW books, NEW caller,
           \A s \in Session : IsBook(books[s]) /\ Good(books[s])
    PROVE  /\ DOMAIN Invalidated(books, caller) = Session
           /\ \A s \in Session :
                 /\ SameGraph(books[s], Invalidated(books, caller)[s])
                 /\ Retained(Invalidated(books, caller)[s]) \subseteq Retained(books[s])
                 /\ Distinct(books[s]) => Distinct(Invalidated(books, caller)[s])
                 /\ s = caller \/ (conn[s] = "open" /\ attached[s])
                      => Retained(Invalidated(books, caller)[s]) = {}
                 /\ Invalidated(books, caller)[s] \in {books[s], InvalidateStates(books[s])}
  <1>1. DOMAIN Invalidated(books, caller) = Session
    BY DEF Invalidated
  <1>2. ASSUME NEW s \in Session
        PROVE  /\ SameGraph(books[s], Invalidated(books, caller)[s])
               /\ Retained(Invalidated(books, caller)[s]) \subseteq Retained(books[s])
               /\ Distinct(books[s]) => Distinct(Invalidated(books, caller)[s])
               /\ s = caller \/ (conn[s] = "open" /\ attached[s])
                    => Retained(Invalidated(books, caller)[s]) = {}
               /\ Invalidated(books, caller)[s] \in {books[s], InvalidateStates(books[s])}
    <2>1. /\ SameGraph(books[s], InvalidateStates(books[s]))
          /\ Retained(InvalidateStates(books[s])) = {}
          /\ Distinct(InvalidateStates(books[s]))
      BY <1>2, InvalidateFacts
    <2>2. SameGraph(books[s], books[s])
      BY DEF SameGraph
    <2>3. Invalidated(books, caller)[s] =
             IF s = caller \/ (conn[s] = "open" /\ attached[s])
             THEN InvalidateStates(books[s]) ELSE books[s]
      BY DEF Invalidated
    <2> QED
      BY <2>1, <2>2, <2>3
  <1> QED
    BY <1>1, <1>2

\* Invalidated books are books.
LEMMA InvalidatedBooks ==
    ASSUME BooksOK, NEW caller, book' = Invalidated(book, caller)
    PROVE  BooksOK' /\ \A s \in Session : SameGraph(book[s], book'[s])
  <1>1. \A s \in Session : IsBook(book[s]) /\ Good(book[s])
    BY DEF BooksOK
  <1> QED
    BY <1>1, InvalidatedFacts DEF BooksOK, SameGraph

\* The end of an epoch.
LEMMA EndEpochFacts ==
    ASSUME TInv, EndEpoch
    PROVE  /\ BooksOK' /\ IsPet(pet)' /\ CallOK'
           /\ \A s \in Session : SameGraph(book[s], book'[s])
  <1>1. pet' = NoPet /\ book' = Invalidated(book, call.s) /\ End
    BY DEF EndEpoch
  <1>2. BooksOK
    BY DEF TInv
  <1> QED
    BY <1>1, <1>2, InvalidatedBooks, EndCall, NoPetFacts

\* An answer that leaves PET and the books alone.
LEMMA EndErrorFacts ==
    ASSUME TInv, EndError
    PROVE  /\ BooksOK' /\ IsPet(pet)' /\ CallOK'
           /\ \A s \in Session : SameGraph(book[s], book'[s])
  <1>1. End /\ book' = book /\ pet' = pet
    BY DEF EndError
  <1> QED
    BY <1>1, EndCall DEF TInv, BooksOK, SameGraph

\* A step of the request that keeps its control fields.
LEMMA BooksSame ==
    ASSUME BooksOK, UNCHANGED book
    PROVE  BooksOK' /\ \A s \in Session : SameGraph(book[s], book'[s])
  BY DEF BooksOK, SameGraph

\* Links and world stay.
LEMMA LocalFacts ==
    ASSUME TInv, Local
    PROVE  LinksOK' /\ WorldOK' /\ UNCHANGED <<links, world>>
  BY DEF TInv, Local, LinksOK, WorldOK, links, world, artifacts

\* Moving to another step changes nothing else of a request.
LEMMA GotoFacts ==
    ASSUME IsCall(call), NEW pc \in Pcs, Goto(pc)
    PROVE  /\ IsCall(call')
           /\ call'.s = call.s /\ call'.tool = call.tool
           /\ call'.pc = pc /\ call'.req = call.req
           /\ call'.left = call.left /\ call'.ret = call.ret
           /\ call'.goal = call.goal /\ call'.todo = call.todo
           /\ call'.staged = call.staged /\ call'.temp = call.temp
           /\ call'.input = call.input /\ call'.fin = call.fin
           /\ call'.close = call.close /\ call'.anchor = call.anchor
           /\ call'.closed = call.closed
  <1>1. DOMAIN call.staged \in SUBSET Id /\ call \in CallOver(DOMAIN call.staged)
    BY CallShape
  <1>2. call' = [call EXCEPT !.pc = pc]
    BY DEF Goto
  <1>3. call' = [s |-> call.s, tool |-> call.tool, pc |-> pc,
                 req |-> call.req, left |-> call.left, ret |-> call.ret,
                 goal |-> call.goal, todo |-> call.todo,
                 staged |-> call.staged, temp |-> call.temp,
                 input |-> call.input, fin |-> call.fin,
                 close |-> call.close, anchor |-> call.anchor,
                 closed |-> call.closed]
    BY <1>1, <1>2 DEF CallOver
  <1>4. call' \in CallOver(DOMAIN call.staged)
    BY <1>1, <1>3 DEF CallOver, Pcs
  <1> QED
    BY <1>1, <1>3, <1>4 DEF IsCall

\* A cancellation only marks the request.
LEMMA CancelFacts ==
    ASSUME IsCall(call), call' = [call EXCEPT !.req = "cancelled"]
    PROVE  /\ IsCall(call')
           /\ call'.s = call.s /\ call'.tool = call.tool
           /\ call'.pc = call.pc /\ call'.req = "cancelled"
           /\ call'.left = call.left /\ call'.ret = call.ret
           /\ call'.goal = call.goal /\ call'.todo = call.todo
           /\ call'.staged = call.staged /\ call'.temp = call.temp
           /\ call'.input = call.input /\ call'.fin = call.fin
           /\ call'.close = call.close /\ call'.anchor = call.anchor
           /\ call'.closed = call.closed
  <1>1. DOMAIN call.staged \in SUBSET Id /\ call \in CallOver(DOMAIN call.staged)
    BY CallShape
  <1>2. call' = [call EXCEPT !.req = "cancelled"]
    OBVIOUS
  <1>3. call' = [s |-> call.s, tool |-> call.tool, pc |-> call.pc,
                 req |-> "cancelled", left |-> call.left,
                 ret |-> call.ret, goal |-> call.goal,
                 todo |-> call.todo, staged |-> call.staged,
                 temp |-> call.temp, input |-> call.input,
                 fin |-> call.fin, close |-> call.close,
                 anchor |-> call.anchor, closed |-> call.closed]
    BY <1>1, <1>2 DEF CallOver
  <1>4. call' \in CallOver(DOMAIN call.staged)
    BY <1>1, <1>3 DEF CallOver, Pcs
  <1> QED
    BY <1>1, <1>3, <1>4 DEF IsCall

\* A replay remembers where to return and what is missing.
LEMMA ReplayBeginCall ==
    ASSUME IsCall(call), call.pc \in {"goals", "run", "rewind"},
           NEW todo \in SUBSET Id,
           call' = [call EXCEPT !.pc = "replay", !.ret = call.pc, !.todo = todo]
    PROVE  /\ IsCall(call')
           /\ call'.s = call.s /\ call'.tool = call.tool
           /\ call'.pc = "replay" /\ call'.req = call.req
           /\ call'.left = call.left /\ call'.ret = call.pc
           /\ call'.goal = call.goal /\ call'.todo = todo
           /\ call'.staged = call.staged /\ call'.temp = call.temp
           /\ call'.input = call.input /\ call'.fin = call.fin
           /\ call'.close = call.close /\ call'.anchor = call.anchor
           /\ call'.closed = call.closed
  <1>1. DOMAIN call.staged \in SUBSET Id /\ call \in CallOver(DOMAIN call.staged)
    BY CallShape
  <1>2. call' = [call EXCEPT !.pc = "replay", !.ret = call.pc, !.todo = todo]
    OBVIOUS
  <1>3. call' = [s |-> call.s, tool |-> call.tool, pc |-> "replay",
                 req |-> call.req, left |-> call.left, ret |-> call.pc,
                 goal |-> call.goal, todo |-> todo,
                 staged |-> call.staged, temp |-> call.temp,
                 input |-> call.input, fin |-> call.fin,
                 close |-> call.close, anchor |-> call.anchor,
                 closed |-> call.closed]
    BY <1>1, <1>2 DEF CallOver
  <1>4. call' \in CallOver(DOMAIN call.staged)
    BY <1>1, <1>3 DEF CallOver, Pcs
  <1> QED
    BY <1>1, <1>3, <1>4 DEF IsCall

\* The next alternative starts without a state.
LEMMA AlternativeCall ==
    ASSUME IsCall(call), NEW left \in 0..MaxAttempts, NEW fin \in BOOLEAN,
           call' = [call EXCEPT !.left = left, !.pc = "run",
                                !.temp = Null, !.input = Null, !.fin = fin]
    PROVE  /\ IsCall(call')
           /\ call'.s = call.s /\ call'.tool = call.tool
           /\ call'.pc = "run" /\ call'.req = call.req
           /\ call'.left = left /\ call'.ret = call.ret
           /\ call'.goal = call.goal /\ call'.todo = call.todo
           /\ call'.staged = call.staged /\ call'.temp = Null
           /\ call'.input = Null /\ call'.fin = fin
           /\ call'.close = call.close /\ call'.anchor = call.anchor
           /\ call'.closed = call.closed
  <1>1. DOMAIN call.staged \in SUBSET Id /\ call \in CallOver(DOMAIN call.staged)
    BY CallShape
  <1>2. call' = [call EXCEPT !.left = left, !.pc = "run",
                        !.temp = Null, !.input = Null, !.fin = fin]
    OBVIOUS
  <1>3. call' = [s |-> call.s, tool |-> call.tool, pc |-> "run",
                 req |-> call.req, left |-> left, ret |-> call.ret,
                 goal |-> call.goal, todo |-> call.todo,
                 staged |-> call.staged, temp |-> Null, input |-> Null,
                 fin |-> fin, close |-> call.close,
                 anchor |-> call.anchor, closed |-> call.closed]
    BY <1>1, <1>2 DEF CallOver
  <1>4. call' \in CallOver(DOMAIN call.staged)
    BY <1>1, <1>3 DEF CallOver, Pcs
  <1> QED
    BY <1>1, <1>3, <1>4 DEF IsCall

\* The outcome of the terminator is kept.
LEMMA ClosedCall ==
    ASSUME IsCall(call), NEW close \in {"ok", "lost", "refused"},
           NEW closed \in Seq(Input \cup {Null}),
           call' = [call EXCEPT !.pc = "commit", !.close = close, !.closed = closed]
    PROVE  /\ IsCall(call')
           /\ call'.s = call.s /\ call'.tool = call.tool
           /\ call'.pc = "commit" /\ call'.req = call.req
           /\ call'.left = call.left /\ call'.ret = call.ret
           /\ call'.goal = call.goal /\ call'.todo = call.todo
           /\ call'.staged = call.staged /\ call'.temp = call.temp
           /\ call'.input = call.input /\ call'.fin = call.fin
           /\ call'.close = close /\ call'.anchor = call.anchor
           /\ call'.closed = closed
  <1>1. DOMAIN call.staged \in SUBSET Id /\ call \in CallOver(DOMAIN call.staged)
    BY CallShape
  <1>2. call' = [call EXCEPT !.pc = "commit", !.close = close, !.closed = closed]
    OBVIOUS
  <1>3. call' = [s |-> call.s, tool |-> call.tool, pc |-> "commit",
                 req |-> call.req, left |-> call.left, ret |-> call.ret,
                 goal |-> call.goal, todo |-> call.todo,
                 staged |-> call.staged, temp |-> call.temp,
                 input |-> call.input, fin |-> call.fin,
                 close |-> close, anchor |-> call.anchor,
                 closed |-> closed]
    BY <1>1, <1>2 DEF CallOver
  <1>4. call' \in CallOver(DOMAIN call.staged)
    BY <1>1, <1>3 DEF CallOver, Pcs
  <1> QED
    BY <1>1, <1>3, <1>4 DEF IsCall

\* A committed request no longer owns the state.
LEMMA CommittedCall ==
    ASSUME IsCall(call), NEW pc \in {"publish", "lost"},
           call' = [call EXCEPT !.pc = pc, !.req = "committed",
                                !.temp = Null, !.input = Null]
    PROVE  /\ IsCall(call')
           /\ call'.s = call.s /\ call'.tool = call.tool
           /\ call'.pc = pc /\ call'.req = "committed"
           /\ call'.left = call.left /\ call'.ret = call.ret
           /\ call'.goal = call.goal /\ call'.todo = call.todo
           /\ call'.staged = call.staged /\ call'.temp = Null
           /\ call'.input = Null /\ call'.fin = call.fin
           /\ call'.close = call.close /\ call'.anchor = call.anchor
           /\ call'.closed = call.closed
  <1>1. DOMAIN call.staged \in SUBSET Id /\ call \in CallOver(DOMAIN call.staged)
    BY CallShape
  <1>2. call' = [call EXCEPT !.pc = pc, !.req = "committed", !.temp = Null, !.input = Null]
    OBVIOUS
  <1>3. call' = [s |-> call.s, tool |-> call.tool, pc |-> pc,
                 req |-> "committed", left |-> call.left,
                 ret |-> call.ret, goal |-> call.goal,
                 todo |-> call.todo, staged |-> call.staged,
                 temp |-> Null, input |-> Null, fin |-> call.fin,
                 close |-> call.close, anchor |-> call.anchor,
                 closed |-> call.closed]
    BY <1>1, <1>2 DEF CallOver
  <1>4. call' \in CallOver(DOMAIN call.staged)
    BY <1>1, <1>3 DEF CallOver, Pcs
  <1> QED
    BY <1>1, <1>3, <1>4 DEF IsCall

\* A temporary context belongs to the request.
LEMMA ContextCall ==
    ASSUME IsCall(call), NEW h \in PetId,
           call' = [call EXCEPT !.pc = "answer", !.temp = h]
    PROVE  /\ IsCall(call')
           /\ call'.s = call.s /\ call'.tool = call.tool
           /\ call'.pc = "answer" /\ call'.req = call.req
           /\ call'.left = call.left /\ call'.ret = call.ret
           /\ call'.goal = call.goal /\ call'.todo = call.todo
           /\ call'.staged = call.staged /\ call'.temp = h
           /\ call'.input = call.input /\ call'.fin = call.fin
           /\ call'.close = call.close /\ call'.anchor = call.anchor
           /\ call'.closed = call.closed
  <1>1. DOMAIN call.staged \in SUBSET Id /\ call \in CallOver(DOMAIN call.staged)
    BY CallShape
  <1>2. call' = [call EXCEPT !.pc = "answer", !.temp = h]
    OBVIOUS
  <1>3. call' = [s |-> call.s, tool |-> call.tool, pc |-> "answer",
                 req |-> call.req, left |-> call.left, ret |-> call.ret,
                 goal |-> call.goal, todo |-> call.todo,
                 staged |-> call.staged, temp |-> h,
                 input |-> call.input, fin |-> call.fin,
                 close |-> call.close, anchor |-> call.anchor,
                 closed |-> call.closed]
    BY <1>1, <1>2 DEF CallOver
  <1>4. call' \in CallOver(DOMAIN call.staged)
    BY <1>1, <1>3 DEF CallOver, Pcs
  <1> QED
    BY <1>1, <1>3, <1>4 DEF IsCall

\* A published proof is audited.
LEMMA AuditCall ==
    ASSUME IsCall(call), NEW anchor \in Target,
           call' = [call EXCEPT !.pc = "audit", !.anchor = anchor]
    PROVE  /\ IsCall(call')
           /\ call'.s = call.s /\ call'.tool = call.tool
           /\ call'.pc = "audit" /\ call'.req = call.req
           /\ call'.left = call.left /\ call'.ret = call.ret
           /\ call'.goal = call.goal /\ call'.todo = call.todo
           /\ call'.staged = call.staged /\ call'.temp = call.temp
           /\ call'.input = call.input /\ call'.fin = call.fin
           /\ call'.close = call.close /\ call'.anchor = anchor
           /\ call'.closed = call.closed
  <1>1. DOMAIN call.staged \in SUBSET Id /\ call \in CallOver(DOMAIN call.staged)
    BY CallShape
  <1>2. call' = [call EXCEPT !.pc = "audit", !.anchor = anchor]
    OBVIOUS
  <1>3. call' = [s |-> call.s, tool |-> call.tool, pc |-> "audit",
                 req |-> call.req, left |-> call.left, ret |-> call.ret,
                 goal |-> call.goal, todo |-> call.todo,
                 staged |-> call.staged, temp |-> call.temp,
                 input |-> call.input, fin |-> call.fin,
                 close |-> call.close, anchor |-> anchor,
                 closed |-> call.closed]
    BY <1>1, <1>2 DEF CallOver
  <1>4. call' \in CallOver(DOMAIN call.staged)
    BY <1>1, <1>3 DEF CallOver, Pcs
  <1> QED
    BY <1>1, <1>3, <1>4 DEF IsCall

\* One more staged state.
LEMMA StageCall ==
    ASSUME IsCall(call), NEW n \in Id, NEW h \in PetId,
           call' = [call EXCEPT !.staged =
                       [i \in DOMAIN call.staged \cup {n} |->
                           IF i = n THEN h ELSE call.staged[i]]]
    PROVE  /\ IsCall(call')
           /\ DOMAIN call'.staged = DOMAIN call.staged \cup {n}
           /\ \A i \in DOMAIN call'.staged :
                 call'.staged[i] = IF i = n THEN h ELSE call.staged[i]
           /\ call'.s = call.s /\ call'.tool = call.tool /\ call'.pc = call.pc
           /\ call'.req = call.req /\ call'.left = call.left /\ call'.ret = call.ret
           /\ call'.goal = call.goal /\ call'.todo = call.todo
           /\ call'.temp = call.temp /\ call'.input = call.input
           /\ call'.fin = call.fin /\ call'.close = call.close
           /\ call'.anchor = call.anchor /\ call'.closed = call.closed
  <1> DEFINE D == DOMAIN call.staged \cup {n}
             staged == [i \in D |-> IF i = n THEN h ELSE call.staged[i]]
  <1>1. DOMAIN call.staged \in SUBSET Id /\ call \in CallOver(DOMAIN call.staged)
    BY CallShape
  <1>2. call' = [call EXCEPT !.staged = staged]
    OBVIOUS
  <1>3. staged \in [D -> PetId] /\ D \in SUBSET Id
    BY <1>1 DEF CallOver
  <1>4. DOMAIN staged = D /\ \A i \in D : staged[i] = IF i = n THEN h ELSE call.staged[i]
    OBVIOUS
  <1> HIDE DEF staged, D
  <1>5. call' \in CallOver(D)
    BY <1>1, <1>2, <1>3 DEF CallOver
  <1>6. /\ call'.staged = staged
        /\ call'.s = call.s /\ call'.tool = call.tool /\ call'.pc = call.pc
        /\ call'.req = call.req /\ call'.left = call.left /\ call'.ret = call.ret
        /\ call'.goal = call.goal /\ call'.todo = call.todo
        /\ call'.temp = call.temp /\ call'.input = call.input
        /\ call'.fin = call.fin /\ call'.close = call.close
        /\ call'.anchor = call.anchor /\ call'.closed = call.closed
    BY <1>1, <1>2 DEF CallOver
  <1>7. IsCall(call')
    BY <1>3, <1>5 DEF IsCall
  <1> QED
    BY <1>4, <1>6, <1>7 DEF D

\* The replay is over.
LEMMA InstalledCall ==
    ASSUME IsCall(call), call.ret \in {"goals", "run", "rewind"},
           call' = [call EXCEPT !.pc = call.ret, !.ret = "none",
                                !.todo = {}, !.staged = NoNodes]
    PROVE  /\ IsCall(call')
           /\ call'.s = call.s /\ call'.tool = call.tool /\ call'.pc = call.ret
           /\ call'.req = call.req /\ call'.left = call.left /\ call'.ret = "none"
           /\ call'.goal = call.goal /\ call'.todo = {} /\ call'.staged = NoNodes
           /\ call'.temp = call.temp /\ call'.input = call.input
           /\ call'.fin = call.fin /\ call'.close = call.close
           /\ call'.anchor = call.anchor /\ call'.closed = call.closed
  <1>1. DOMAIN call.staged \in SUBSET Id /\ call \in CallOver(DOMAIN call.staged)
    BY CallShape
  <1>2. NoNodes \in [{} -> PetId]
    BY DEF NoNodes
  <1>3. call' \in CallOver({})
    BY <1>1, <1>2 DEF CallOver, Pcs
  <1>4. /\ call'.s = call.s /\ call'.tool = call.tool /\ call'.pc = call.ret
        /\ call'.req = call.req /\ call'.left = call.left /\ call'.ret = "none"
        /\ call'.goal = call.goal /\ call'.todo = {} /\ call'.staged = NoNodes
        /\ call'.temp = call.temp /\ call'.input = call.input
        /\ call'.fin = call.fin /\ call'.close = call.close
        /\ call'.anchor = call.anchor /\ call'.closed = call.closed
    BY <1>1 DEF CallOver
  <1> QED
    BY <1>3, <1>4 DEF IsCall

\* The request keeps its proof as long as the graph does.
LEMMA ProofKept ==
    ASSUME TInv, ~At("idle"), \A s \in Session : SameGraph(book[s], book'[s]),
           call'.s = call.s, call'.tool = call.tool, call'.goal = call.goal
    PROVE  ProofOK'
  <1>1. call.s \in Session
    BY DEF TInv, CallOK, ControlOK
  <1>2. SameGraph(Mine, Mine')
    BY <1>1 DEF Mine
  <1>3. Nodes(Mine') = Nodes(Mine) /\ Mine'.current = Mine.current
    BY <1>2 DEF SameGraph
  <1> QED
    BY <1>3 DEF TInv, CallOK, ProofOK, Active, At

\* The next checkpoint to rebuild is one of the missing ones, and the least.
LEMMA NextMissingFacts ==
    ASSUME TInv, Replaying
    PROVE  /\ NextMissing \in call.todo \ DOMAIN call.staged
           /\ NextMissing \in Nodes(Mine) /\ NextMissing \in Id
           /\ \A j \in call.todo \ DOMAIN call.staged : NextMissing <= j
           /\ Mine.nodes[NextMissing].input \in Input \cup {Null}
  <1>1. call.s \in Session /\ IsBook(Mine)
    BY DEF TInv, CallOK, ControlOK, BooksOK, Replaying, At, Mine
  <1>2. /\ call.todo = MissingSuffix(Mine, WorkId)
        /\ DOMAIN call.staged \subseteq call.todo
        /\ call.todo # DOMAIN call.staged
    BY DEF TInv, CallOK, DataOK, Replaying
  <1>3. call.todo \subseteq Nodes(Mine)
    BY <1>2 DEF MissingSuffix, Lineage
  <1>4. Nodes(Mine) \subseteq Id
    BY <1>1, BookFields
  <1> DEFINE S == call.todo \ DOMAIN call.staged
  <1>5. S \in SUBSET Nat /\ S # {}
    BY <1>2, <1>3, <1>4 DEF Id
  <1>6. \E i \in S : \A j \in S : i <= j
    BY <1>5, LeastNat
  <1>7. NextMissing \in S /\ \A j \in S : NextMissing <= j
    BY <1>6 DEF NextMissing
  <1>8. Mine.nodes \in [Nodes(Mine) -> Node]
    BY <1>1, BookFields
  <1> QED
    BY <1>3, <1>4, <1>7, <1>8 DEF Node

\* The checkpoint a request works on exists.
LEMMA WorkIdFacts ==
    ASSUME TInv, call.pc \in {"goals", "run", "rewind", "replay"}
    PROVE  /\ call.s \in Session /\ IsBook(Mine) /\ Good(Mine) /\ Active(Mine)
           /\ WorkId \in Nodes(Mine) /\ WorkId \in Id
           /\ Mine.current \in Nodes(Mine)
           /\ Handle \in PetId \cup {Null}
           /\ MissingSuffix(Mine, WorkId) \in SUBSET Id
           /\ MissingSuffix(Mine, WorkId) \subseteq Nodes(Mine)
  <1>1. call.s \in Session /\ IsBook(Mine) /\ Good(Mine)
    BY DEF TInv, CallOK, ControlOK, BooksOK, At, Mine
  <1>2. call.tool \in ProofTools
    BY DEF TInv, CallOK, ControlOK, At, ProofTools, GoalTools
  <1>3. Active(Mine) /\ (call.tool = "rewind" => call.goal \in Nodes(Mine))
    BY <1>2 DEF TInv, CallOK, ProofOK, At
  <1>4. Mine.current \in Nodes(Mine)
    BY <1>1, <1>3 DEF Good
  <1>5. WorkId \in Nodes(Mine)
    BY <1>3, <1>4 DEF WorkId
  <1>6. Nodes(Mine) \subseteq Id /\ Mine.nodes \in [Nodes(Mine) -> Node]
    BY <1>1, BookFields
  <1>7. MissingSuffix(Mine, WorkId) \subseteq Nodes(Mine)
    BY DEF MissingSuffix, Lineage
  <1>8. Handle \in PetId \cup {Null}
    BY <1>5, <1>6 DEF Handle, Node
  <1> QED
    BY <1>1, <1>3, <1>4, <1>5, <1>6, <1>7, <1>8

-----------------------------------------------------------------------------
(* Every action keeps TInv, and says whose graph it may change.            *)

\* A graph changes between calls, or by an uncancelled call of its session
\* that was asked to change it.
MayChange(s) ==
    /\ ~Cancelled
    /\ At("idle") \/ (call.s = s /\ call.tool \in {"check", "rewind", "prove", "declare", "abandon"})

GraphStep == \A s \in Session : SameGraph(book[s], book'[s]) \/ MayChange(s)

\* Where reconcile_artifact() leads.
LEMMA AfterReconcileFacts ==
    /\ call.tool \in OpenTools => AfterReconcile = "open"
    /\ call.tool = "at" => AfterReconcile = "locate"
    /\ call.tool = "list" => AfterReconcile = "inspect"
    /\ call.tool = "rewind" => AfterReconcile = "rewind"
    /\ call.tool \in GoalTools => AfterReconcile = "goals"
  <1>1. call.tool \in OpenTools => AfterReconcile = "open"
    BY Zenon DEF AfterReconcile, OpenTools
  <1>2. call.tool = "at" => AfterReconcile = "locate"
    BY Zenon DEF AfterReconcile
  <1>3. call.tool = "list" => AfterReconcile = "inspect"
    BY Zenon DEF AfterReconcile
  <1>4. call.tool = "rewind" => AfterReconcile = "rewind"
    BY Zenon DEF AfterReconcile
  <1>5. call.tool \in GoalTools => AfterReconcile = "goals"
    BY Zenon DEF AfterReconcile, GoalTools
  <1> QED
    BY <1>1, <1>2, <1>3, <1>4, <1>5

\* Where a call starts.
LEMMA FirstPcFacts ==
    ASSUME NEW tool \in Tool
    PROVE  /\ tool \in {"check", "try", "goals", "rewind"} => FirstPc(tool) = "validate"
           /\ tool = "abandon" => FirstPc(tool) = "retire"
           /\ tool \in {"ask", "at", "prove", "declare", "list"} => FirstPc(tool) = "reconcile"
  <1>1. tool \in {"check", "try", "goals", "rewind"} => FirstPc(tool) = "validate"
    BY Zenon DEF FirstPc
  <1>2. tool = "abandon" => FirstPc(tool) = "retire"
    BY Zenon DEF FirstPc
  <1>3. tool \in {"ask", "at", "prove", "declare", "list"} => FirstPc(tool) = "reconcile"
    BY Zenon DEF FirstPc
  <1> QED
    BY <1>1, <1>2, <1>3

\* A step that answers, with books, links and world accounted for.
LEMMA Assemble ==
    ASSUME TInv, Local, BooksOK', IsPet(pet'), CallOK',
           \A s \in Session : SameGraph(book[s], book'[s]) \/ MayChange(s)
    PROVE  TInv' /\ GraphStep
  BY LocalFacts DEF TInv, GraphStep

\* validate_target().
LEMMA ValidateTargetT == ASSUME TInv, ValidateTarget PROVE TInv' /\ GraphStep
  <1>1. Local /\ At("validate") /\ book' = book /\ pet' = pet
    BY DEF ValidateTarget
  <1>2. BooksOK' /\ \A s \in Session : SameGraph(book[s], book'[s])
    BY <1>1, BooksSame DEF TInv
  <1>3. CASE End
    BY <1>1, <1>2, <1>3, EndCall, Assemble DEF TInv
  <1>4. CASE Goto("reconcile")
    <2>1. IsCall(call) /\ "reconcile" \in Pcs
      BY DEF TInv, CallOK, Pcs
    <2>2. /\ IsCall(call') /\ call'.pc = "reconcile"
          /\ call'.s = call.s /\ call'.tool = call.tool /\ call'.goal = call.goal
          /\ call'.req = call.req /\ call'.temp = call.temp /\ call'.staged = call.staged
          /\ call'.todo = call.todo
      BY <1>4, <2>1, GotoFacts
    <2>3. ControlOK'
      BY <1>1, <2>2, LocalFacts DEF TInv, CallOK, ControlOK, At, Tool, links
    <2>4. DataOK'
      BY <1>1, <2>2 DEF TInv, CallOK, DataOK, At
    <2>5. ProofOK'
      BY <1>1, <1>2, <2>2, ProofKept DEF At
    <2> QED
      BY <1>1, <1>2, <2>2, <2>3, <2>4, <2>5, Assemble DEF CallOK, TInv
  <1> QED
    BY <1>3, <1>4 DEF ValidateTarget

\* reconcile_artifact().
LEMMA ReconcileT == ASSUME TInv, Reconcile PROVE TInv' /\ GraphStep
  <1>1. /\ At("reconcile")
        /\ attached' = attached /\ conn' = conn /\ source' = source
        /\ upstream' = upstream /\ layout' = layout
    BY DEF Reconcile, links
  <1>2. LinksOK'
    BY <1>1 DEF TInv, LinksOK
  <1>3. CASE EndEpoch /\ env' \in {env, upstream} /\ UNCHANGED compiled
    <2>1. WorldOK'
      BY <1>1, <1>3 DEF TInv, WorldOK
    <2> QED
      BY <1>2, <1>3, <2>1, EndEpochFacts DEF TInv, GraphStep
  <1>4. CASE /\ ~Cancelled
             /\ env' = upstream
             /\ compiled' = source
             /\ IF <<compiled, env>> # <<source, upstream>>
                THEN pet' = NoPet /\ book' = Invalidated(book, call.s)
                ELSE UNCHANGED <<pet, book>>
             /\ Goto(AfterReconcile)
    <2>1. WorldOK'
      BY <1>1, <1>4 DEF TInv, WorldOK
    <2>2. /\ IsPet(pet') /\ BooksOK'
          /\ \A s \in Session : SameGraph(book[s], book'[s])
      <3>1. CASE pet' = NoPet /\ book' = Invalidated(book, call.s)
        BY <3>1, NoPetFacts, InvalidatedBooks DEF TInv
      <3>2. CASE UNCHANGED <<pet, book>>
        BY <3>2, BooksSame DEF TInv
      <3> QED
        BY <1>4, <3>1, <3>2
    <2>3. IsCall(call) /\ call.tool \in Tool \ {"abandon"} /\ call.s \in Session
      BY <1>1 DEF TInv, CallOK, ControlOK, At
    <2>4. /\ AfterReconcile \in {"open", "locate", "inspect", "rewind", "goals"}
          /\ AfterReconcile = "open" => call.tool \in OpenTools
          /\ AfterReconcile = "locate" => call.tool = "at"
          /\ AfterReconcile = "inspect" => call.tool = "list"
          /\ AfterReconcile = "rewind" => call.tool = "rewind"
          /\ AfterReconcile = "goals" => call.tool \in GoalTools
      BY <2>3, AfterReconcileFacts DEF Tool, OpenTools, GoalTools
    <2>5. AfterReconcile \in Pcs
      BY <2>4 DEF Pcs
    <2>6. /\ IsCall(call') /\ call'.pc = AfterReconcile
          /\ call'.s = call.s /\ call'.tool = call.tool /\ call'.goal = call.goal
          /\ call'.req = call.req /\ call'.temp = call.temp /\ call'.staged = call.staged
          /\ call'.todo = call.todo
      BY <1>4, <2>3, <2>5, GotoFacts
    <2>7. ControlOK'
      BY <1>1, <2>4, <2>6 DEF TInv, CallOK, ControlOK, At
    <2>8. DataOK'
      BY <1>1, <2>4, <2>6 DEF TInv, CallOK, DataOK, At
    <2>9. ProofOK'
      BY <1>1, <2>2, <2>6, ProofKept DEF At
    <2> QED
      BY <1>2, <2>1, <2>2, <2>6, <2>7, <2>8, <2>9 DEF TInv, CallOK, GraphStep
  <1>5. CASE EndError /\ UNCHANGED artifacts
    <2>1. WorldOK'
      BY <1>1, <1>5 DEF TInv, WorldOK, artifacts
    <2> QED
      BY <1>2, <1>5, <2>1, EndErrorFacts DEF TInv, GraphStep
  <1> QED
    BY <1>3, <1>4, <1>5 DEF Reconcile

\* The start of a replay.
LEMMA ReplayBeginT == ASSUME TInv, ReplayBegin PROVE TInv' /\ GraphStep
  <1>1. /\ Local /\ book' = book /\ pet' = pet
        /\ call.pc \in {"goals", "run", "rewind"}
        /\ call' = [call EXCEPT !.pc = "replay", !.ret = call.pc,
                                !.todo = MissingSuffix(Mine, WorkId)]
    BY DEF ReplayBegin
  <1>2. BooksOK' /\ \A s \in Session : SameGraph(book[s], book'[s])
    BY <1>1, BooksSame DEF TInv
  <1>3. MissingSuffix(Mine, WorkId) \in SUBSET Id
    BY <1>1, WorkIdFacts
  <1>4. /\ IsCall(call') /\ call'.pc = "replay" /\ call'.ret = call.pc
        /\ call'.s = call.s /\ call'.tool = call.tool /\ call'.goal = call.goal
        /\ call'.req = call.req /\ call'.temp = call.temp /\ call'.staged = call.staged
        /\ call'.todo = MissingSuffix(Mine, WorkId)
    BY <1>1, <1>3, ReplayBeginCall DEF TInv, CallOK
  <1>5. ControlOK'
    BY <1>1, <1>4, LocalFacts DEF TInv, CallOK, ControlOK, At, links, GoalTools
  <1>6. Mine' = Mine /\ WorkId' = WorkId
    BY <1>1, <1>4 DEF Mine, WorkId
  <1>7. DOMAIN call'.staged = {}
    BY <1>1, <1>4 DEF TInv, CallOK, DataOK, At, NoNodes
  <1>8. DataOK'
    BY <1>1, <1>4, <1>6, <1>7 DEF TInv, CallOK, DataOK, At
  <1>9. ProofOK'
    BY <1>1, <1>2, <1>4, ProofKept DEF At
  <1> QED
    BY <1>1, <1>2, <1>4, <1>5, <1>8, <1>9, Assemble DEF CallOK, TInv

\* One more staged state, whoever exported it.
LEMMA StageT ==
    ASSUME TInv, Replaying, Local, book' = book, NEW p, IsPet(p), HasRoom(p), Stage(p)
    PROVE  CallOK'
  <1>1. /\ NextMissing \in call.todo \ DOMAIN call.staged
        /\ NextMissing \in Nodes(Mine) /\ NextMissing \in Id
    BY NextMissingFacts
  <1>2. FreeId(p) \in PetId
    BY FreeIdFacts
  <1>3. call' = [call EXCEPT !.staged =
                    [i \in DOMAIN call.staged \cup {NextMissing} |->
                        IF i = NextMissing THEN FreeId(p) ELSE call.staged[i]]]
    BY DEF Stage
  <1>4. /\ IsCall(call')
        /\ DOMAIN call'.staged = DOMAIN call.staged \cup {NextMissing}
        /\ call'.s = call.s /\ call'.tool = call.tool /\ call'.pc = call.pc
        /\ call'.req = call.req /\ call'.ret = call.ret
        /\ call'.goal = call.goal /\ call'.todo = call.todo
        /\ call'.temp = call.temp
    BY <1>1, <1>2, <1>3, StageCall DEF TInv, CallOK
  <1>5. At("replay")
    BY DEF Replaying
  <1>6. ControlOK'
    BY <1>4, <1>5, LocalFacts DEF TInv, CallOK, ControlOK, At, links
  <1>7. Mine' = Mine /\ WorkId' = WorkId
    BY <1>4 DEF Mine, WorkId
  <1>8. DataOK'
    BY <1>1, <1>4, <1>5, <1>7 DEF TInv, CallOK, DataOK, At
  <1>9. \A s \in Session : SameGraph(book[s], book'[s])
    BY BooksSame DEF TInv
  <1>10. ProofOK'
    BY <1>4, <1>5, <1>9, ProofKept DEF At
  <1> QED
    BY <1>4, <1>6, <1>8, <1>10 DEF CallOK

\* The state of a root is typed.
LEMMA RootContentType == ASSUME TInv PROVE RootContent \in Contents
  BY DEF TInv, WorldOK, RootContent, Contents

\* replay_root().
LEMMA ReplayRootT == ASSUME TInv, ReplayRoot PROVE TInv' /\ GraphStep
  <1>1. Local /\ Replaying
    BY DEF ReplayRoot
  <1>2. IsPet(Spawned)
    BY SpawnedFacts DEF TInv
  <1>3. CASE EndError
    BY <1>1, <1>3, EndErrorFacts, Assemble
  <1>4. CASE EndEpoch
    BY <1>1, <1>4, EndEpochFacts, Assemble
  <1>5. CASE /\ HasRoom(Spawned) /\ pet' = Export(Spawned, RootContent)
             /\ Stage(Spawned) /\ UNCHANGED book
    <2>1. IsPet(pet')
      BY <1>2, <1>5, ExportFacts, RootContentType
    <2>2. CallOK'
      BY <1>1, <1>2, <1>5, StageT
    <2> QED
      BY <1>1, <1>5, <2>1, <2>2, BooksSame, Assemble DEF TInv
  <1>6. CASE pet' = Spawned /\ End /\ UNCHANGED book
    BY <1>1, <1>2, <1>6, EndCall, BooksSame, Assemble DEF TInv
  <1> QED
    BY <1>3, <1>4, <1>5, <1>6 DEF ReplayRoot

\* One fragment again.
LEMMA ReplayStepT == ASSUME TInv, ReplayStep PROVE TInv' /\ GraphStep
  <1>1. Local /\ Replaying
    BY DEF ReplayStep
  <1>2. IsPet(pet)
    BY DEF TInv
  <1>3. CASE EndError
    BY <1>1, <1>3, EndErrorFacts, Assemble
  <1>4. CASE EndEpoch
    BY <1>1, <1>4, EndEpochFacts, Assemble
  <1>5. CASE /\ HasRoom(pet) /\ ReplayBase \in DOMAIN pet.table
             /\ pet' = Export(pet, After(pet.table[ReplayBase],
                                         Mine.nodes[NextMissing].input))
             /\ Stage(pet) /\ UNCHANGED book
    <2>1. pet.table[ReplayBase] \in Contents
      BY <1>2, <1>5, PetShape
    <2>2. After(pet.table[ReplayBase], Mine.nodes[NextMissing].input) \in Contents
      BY <1>1, <2>1, AfterFacts, NextMissingFacts
    <2>3. IsPet(pet')
      BY <1>2, <1>5, <2>2, ExportFacts
    <2>4. CallOK'
      BY <1>1, <1>2, <1>5, StageT
    <2> QED
      BY <1>1, <1>5, <2>3, <2>4, BooksSame, Assemble DEF TInv
  <1>6. CASE pet' = Release(pet, StagedIds) /\ End /\ UNCHANGED book
    BY <1>1, <1>2, <1>6, EndCall, BooksSame, ReleaseFacts, Assemble DEF TInv
  <1> QED
    BY <1>3, <1>4, <1>5, <1>6 DEF ReplayStep

\* What a completed replay hands over is typed.
LEMMA StagedTypes ==
    ASSUME TInv, At("replay")
    PROVE  /\ \A i \in DOMAIN call.staged : call.staged[i] \in PetId
           /\ DOMAIN call.staged \subseteq Nodes(Mine)
           /\ call.s \in Session /\ IsBook(Mine) /\ Good(Mine) /\ Active(Mine)
  <1>1. call.staged \in [DOMAIN call.staged -> PetId]
    BY CallShape DEF TInv, CallOK, CallOver
  <1>2. DOMAIN call.staged \subseteq MissingSuffix(Mine, WorkId)
    BY DEF TInv, CallOK, DataOK
  <1> QED
    BY <1>1, <1>2, WorkIdFacts DEF At

\* The last loop of replay_checkpoint().
LEMMA ReplayInstallT == ASSUME TInv, ReplayInstall PROVE TInv' /\ GraphStep
  <1> DEFINE replaced == {Mine.nodes[i].state : i \in call.todo} \ {Null}
             installed == [book EXCEPT ![call.s] = InstallStates(Mine, call.staged)]
             lost == replaced # {} /\ LiveCallFails
  <1>1. Local /\ At("replay")
    BY DEF ReplayInstall
  <1>2. /\ book' = IF lost THEN Invalidated(installed, call.s) ELSE installed
        /\ pet' = IF lost THEN NoPet ELSE Release(pet, replaced)
        /\ call' = IF lost THEN NoCall
                   ELSE [call EXCEPT !.pc = call.ret, !.ret = "none",
                                     !.todo = {}, !.staged = NoNodes]
    BY DEF ReplayInstall
  <1> HIDE DEF replaced, lost
  <1>3. /\ SameGraph(Mine, InstallStates(Mine, call.staged))
        /\ call.s \in Session
    BY <1>1, StagedTypes, InstallFacts
  <1>4. DOMAIN installed = Session /\ \A s \in Session : SameGraph(book[s], installed[s])
    <2>1. DOMAIN book = Session /\ \A s \in Session : SameGraph(book[s], book[s])
      BY DEF TInv, BooksOK, SameGraph
    <2> QED
      BY <1>3, <2>1 DEF Mine
  <1> HIDE DEF installed
  <1>5. \A s \in Session : IsBook(installed[s]) /\ Good(installed[s])
    BY <1>4 DEF SameGraph
  <1>6. CASE lost
    <2>1. \A s \in Session : SameGraph(installed[s], book'[s])
      BY <1>2, <1>5, <1>6, InvalidatedFacts
    <2>2. \A s \in Session : SameGraph(book[s], book'[s])
      BY <1>4, <2>1 DEF SameGraph
    <2>3. BooksOK'
      <3>1. DOMAIN book' = Session
        BY <1>2, <1>5, <1>6, InvalidatedFacts
      <3> QED
        BY <2>2, <3>1 DEF BooksOK, SameGraph
    <2>4. CallOK'
      BY <1>2, <1>6, EndCall DEF End
    <2> QED
      BY <1>1, <1>2, <1>6, <2>2, <2>3, <2>4, NoPetFacts, Assemble
  <1>7. CASE ~lost
    <2>1. \A s \in Session : SameGraph(book[s], book'[s])
      BY <1>2, <1>4, <1>7
    <2>2. BooksOK'
      BY <1>2, <1>4, <1>5, <1>7 DEF BooksOK
    <2>3. IsPet(pet')
      BY <1>2, <1>7, ReleaseFacts DEF TInv
    <2>4. call.ret \in {"goals", "run", "rewind"}
      BY <1>1 DEF TInv, CallOK, ControlOK
    <2>5. /\ IsCall(call') /\ call'.pc = call.ret
          /\ call'.s = call.s /\ call'.tool = call.tool /\ call'.goal = call.goal
          /\ call'.req = call.req /\ call'.temp = call.temp /\ call'.staged = NoNodes
          /\ call'.todo = {}
      BY <1>2, <1>7, <2>4, InstalledCall DEF TInv, CallOK
    <2>6. ControlOK'
      BY <1>1, <2>4, <2>5, LocalFacts DEF TInv, CallOK, ControlOK, At, links
    <2>7. DataOK'
      BY <1>1, <2>4, <2>5 DEF TInv, CallOK, DataOK, At
    <2>8. ProofOK'
      BY <1>1, <2>1, <2>5, ProofKept DEF At
    <2> QED
      BY <1>1, <2>1, <2>2, <2>3, <2>5, <2>6, <2>7, <2>8, Assemble DEF CallOK
  <1> QED
    BY <1>6, <1>7

\* The next alternative, or the answer.
LEMMA AlternativeT ==
    ASSUME TInv, Local, call.pc \in {"run", "discard"}, NextAlternative,
           \A s \in Session : SameGraph(book[s], book'[s])
    PROVE  CallOK'
  <1>1. CASE End
    BY <1>1, EndCall
  <1>2. CASE call.left > 1 /\ ~End
    <2>1. call.left \in 0..MaxAttempts
      BY CallShape DEF TInv, CallOK, CallOver
    <2>2. call.left - 1 \in 0..MaxAttempts
      BY <1>2, <2>1, SessionsAssumption
    <2>3. call' = [call EXCEPT !.left = call.left - 1, !.pc = "run",
                               !.temp = Null, !.input = Null, !.fin = FALSE]
      BY <1>2 DEF NextAlternative
    <2>4. /\ IsCall(call') /\ call'.pc = "run"
          /\ call'.s = call.s /\ call'.tool = call.tool /\ call'.goal = call.goal
          /\ call'.req = call.req /\ call'.temp = Null /\ call'.staged = call.staged
          /\ call'.todo = call.todo
      BY <2>2, <2>3, AlternativeCall DEF TInv, CallOK
    <2>5. ControlOK'
      BY <2>4, LocalFacts DEF TInv, CallOK, ControlOK, At, links
    <2>6. DataOK'
      BY <2>4 DEF TInv, CallOK, DataOK, At
    <2>7. ProofOK'
      BY <2>4, ProofKept DEF At
    <2> QED
      BY <2>4, <2>5, <2>6, <2>7 DEF CallOK
  <1> QED
    BY <1>1, <1>2 DEF NextAlternative

\* engine.goals() and query_state().
LEMMA ReadGoalsT == ASSUME TInv, ReadGoals PROVE TInv' /\ GraphStep
  <1>1. Local /\ At("goals")
    BY DEF ReadGoals
  <1>2. CASE EndError
    BY <1>1, <1>2, EndErrorFacts, Assemble
  <1>3. CASE EndEpoch
    BY <1>1, <1>3, EndEpochFacts, Assemble
  <1>4. CASE End /\ UNCHANGED <<book, pet>>
    BY <1>1, <1>4, EndErrorFacts, Assemble DEF EndError
  <1>5. CASE call.tool \notin {"goals", "ask"} /\ Goto("run") /\ UNCHANGED <<book, pet>>
    <2>1. BooksOK' /\ \A s \in Session : SameGraph(book[s], book'[s])
      BY <1>5, BooksSame DEF TInv
    <2>2. IsCall(call) /\ "run" \in Pcs
      BY DEF TInv, CallOK, Pcs
    <2>3. /\ IsCall(call') /\ call'.pc = "run"
          /\ call'.s = call.s /\ call'.tool = call.tool /\ call'.goal = call.goal
          /\ call'.req = call.req /\ call'.temp = call.temp /\ call'.staged = call.staged
          /\ call'.todo = call.todo
      BY <1>5, <2>2, GotoFacts
    <2>4. ControlOK'
      BY <1>1, <1>5, <2>3, LocalFacts DEF TInv, CallOK, ControlOK, At, GoalTools, links
    <2>5. DataOK'
      BY <1>1, <2>3 DEF TInv, CallOK, DataOK, At
    <2>6. ProofOK'
      BY <1>1, <2>1, <2>3, ProofKept DEF At
    <2> QED
      BY <1>1, <1>5, <2>1, <2>3, <2>4, <2>5, <2>6, Assemble DEF CallOK, TInv
  <1> QED
    BY <1>2, <1>3, <1>4, <1>5 DEF ReadGoals

\* An accepted fragment.
LEMMA RunAcceptedT == ASSUME TInv, RunAccepted PROVE TInv' /\ GraphStep
  <1>1. /\ Local /\ At("run") /\ book' = book /\ HasRoom(pet)
        /\ Handle \in DOMAIN pet.table
    BY DEF RunAccepted, RunReady, Running
  <1>2. PICK input \in Input, fin \in BOOLEAN :
          /\ call' = [call EXCEPT !.temp = FreeId(pet), !.input = input, !.fin = fin,
                                  !.pc = IF call.tool = "try" THEN "discard"
                                         ELSE IF fin THEN "close" ELSE "commit"]
          /\ pet' = Export(pet, After(pet.table[Handle], input))
    BY DEF RunAccepted
  <1> DEFINE pc == IF call.tool = "try" THEN "discard"
                   ELSE IF fin THEN "close" ELSE "commit"
  <1>3. /\ pc \in {"discard", "close", "commit"}
        /\ pc = "discard" <=> call.tool = "try"
    OBVIOUS
  <1>4. pc \in Pcs
    BY <1>3 DEF Pcs
  <1>5. call' = [call EXCEPT !.temp = FreeId(pet), !.input = input, !.fin = fin, !.pc = pc]
    BY <1>2
  <1> HIDE DEF pc
  <1>6. FreeId(pet) \in PetId
    BY <1>1, FreeIdFacts DEF TInv
  <1>7. /\ IsCall(call') /\ call'.pc = pc
        /\ call'.s = call.s /\ call'.tool = call.tool /\ call'.goal = call.goal
        /\ call'.req = call.req /\ call'.temp = FreeId(pet) /\ call'.staged = call.staged
        /\ call'.todo = call.todo /\ call'.input = input
    <2>1. DOMAIN call.staged \in SUBSET Id /\ call \in CallOver(DOMAIN call.staged)
      BY CallShape DEF TInv, CallOK
    <2>2. call' = [s |-> call.s, tool |-> call.tool, pc |-> pc, req |-> call.req,
                   left |-> call.left, ret |-> call.ret, goal |-> call.goal,
                   todo |-> call.todo, staged |-> call.staged, temp |-> FreeId(pet),
                   input |-> input, fin |-> fin, close |-> call.close,
                   anchor |-> call.anchor, closed |-> call.closed]
      BY <1>5, <2>1 DEF CallOver
    <2>3. call' \in CallOver(DOMAIN call.staged)
      BY <1>4, <1>6, <2>1, <2>2 DEF CallOver
    <2> QED
      BY <2>1, <2>2, <2>3 DEF IsCall
  <1>8. pet.table[Handle] \in Contents
    BY <1>1, PetShape DEF TInv
  <1>9. IsPet(pet')
    BY <1>1, <1>2, <1>8, AfterFacts, ExportFacts DEF TInv
  <1>10. BooksOK' /\ \A s \in Session : SameGraph(book[s], book'[s])
    BY <1>1, BooksSame DEF TInv
  <1>11. ControlOK'
    BY <1>1, <1>3, <1>7, LocalFacts DEF TInv, CallOK, ControlOK, At, links
  <1>12. DataOK'
    BY <1>1, <1>3, <1>6, <1>7, NullAssumption DEF TInv, CallOK, DataOK, At
  <1>13. ProofOK'
    BY <1>1, <1>7, <1>10, ProofKept DEF At
  <1> QED
    BY <1>1, <1>7, <1>9, <1>10, <1>11, <1>12, <1>13, Assemble DEF CallOK

\* The other outcomes of one alternative.
LEMMA RunOthersT ==
    ASSUME TInv, RunRejected \/ RunTimedOut \/ RunFailed \/ RunGoalsFault
    PROVE  TInv' /\ GraphStep
  <1>1. CASE RunRejected
    <2>1. /\ Local /\ call.pc \in {"run", "discard"} /\ NextAlternative
          /\ book' = book /\ pet' = pet
      BY <1>1 DEF RunRejected, RunReady, Running, At
    <2> QED
      BY <2>1, BooksSame, AlternativeT, Assemble DEF TInv
  <1>2. CASE RunTimedOut
    <2>1. /\ Local /\ call.pc \in {"run", "discard"} /\ NextAlternative
          /\ book' = Invalidated(book, call.s) /\ pet' = NoPet
      BY <1>2 DEF RunTimedOut, RunReady, Running, At
    <2>2. BooksOK' /\ \A s \in Session : SameGraph(book[s], book'[s])
      BY <2>1, InvalidatedBooks DEF TInv
    <2> QED
      BY <2>1, <2>2, NoPetFacts, AlternativeT, Assemble DEF TInv
  <1>3. CASE RunFailed
    <2>1. Local /\ (EndError \/ EndEpoch)
      BY <1>3 DEF RunFailed
    <2> QED
      BY <2>1, EndErrorFacts, EndEpochFacts, Assemble
  <1>4. CASE RunGoalsFault
    <2>1. Local /\ pet' \in {Spawned, NoPet} /\ End /\ book' = book
      BY <1>4 DEF RunGoalsFault
    <2>2. IsPet(pet')
      BY <2>1, SpawnedFacts, NoPetFacts DEF TInv
    <2> QED
      BY <2>1, <2>2, EndCall, BooksSame, Assemble DEF TInv
  <1> QED
    BY <1>1, <1>2, <1>3, <1>4

\* try lets go of an accepted state.
LEMMA DiscardT == ASSUME TInv, Discard PROVE TInv' /\ GraphStep
  <1>1. Local /\ At("discard")
    BY DEF Discard
  <1>2. CASE EndEpoch
    BY <1>1, <1>2, EndEpochFacts, Assemble
  <1>3. CASE pet' = Release(pet, {call.temp}) /\ NextAlternative /\ UNCHANGED book
    <2>1. BooksOK' /\ \A s \in Session : SameGraph(book[s], book'[s])
      BY <1>3, BooksSame DEF TInv
    <2> QED
      BY <1>1, <1>3, <2>1, ReleaseFacts, AlternativeT, Assemble DEF TInv, At
  <1> QED
    BY <1>2, <1>3 DEF Discard

\* close_proof().
LEMMA CloseProofT == ASSUME TInv, CloseProof PROVE TInv' /\ GraphStep
  <1>1. Local /\ At("close")
    BY DEF CloseProof
  <1>2. CASE EndEpoch
    BY <1>1, <1>2, EndEpochFacts, Assemble
  <1>3. CASE ~EndEpoch
    <2>1. /\ book' = book
          /\ pet' \in {pet, NoPet}
          /\ \E close \in {"ok", "lost", "refused"}, closed \in Seq(Input \cup {Null}) :
                call' = [call EXCEPT !.pc = "commit", !.close = close, !.closed = closed]
      <3>1. <<>> \in Seq(Input \cup {Null})
        OBVIOUS
      <3>2. call.temp \in DOMAIN pet.table =>
               pet.table[call.temp].frags \in Seq(Input \cup {Null})
        BY PetShape DEF TInv, Contents
      <3> QED
        BY <1>3, <3>1, <3>2 DEF CloseProof
    <2>2. PICK close \in {"ok", "lost", "refused"}, closed \in Seq(Input \cup {Null}) :
             call' = [call EXCEPT !.pc = "commit", !.close = close, !.closed = closed]
      BY <2>1
    <2>3. /\ IsCall(call') /\ call'.pc = "commit"
          /\ call'.s = call.s /\ call'.tool = call.tool /\ call'.goal = call.goal
          /\ call'.req = call.req /\ call'.temp = call.temp /\ call'.staged = call.staged
          /\ call'.todo = call.todo /\ call'.input = call.input
      BY <2>2, ClosedCall DEF TInv, CallOK
    <2>4. BooksOK' /\ \A s \in Session : SameGraph(book[s], book'[s])
      BY <2>1, BooksSame DEF TInv
    <2>5. ControlOK'
      BY <1>1, <2>3, LocalFacts DEF TInv, CallOK, ControlOK, At, links
    <2>6. DataOK'
      BY <1>1, <2>3 DEF TInv, CallOK, DataOK, At
    <2>7. ProofOK'
      BY <1>1, <2>3, <2>4, ProofKept DEF At
    <2>8. IsPet(pet')
      BY <2>1, NoPetFacts DEF TInv
    <2> QED
      BY <1>1, <2>3, <2>4, <2>5, <2>6, <2>7, <2>8, Assemble DEF CallOK
  <1> QED
    BY <1>2, <1>3

\* The caller's book changes, the others stay.
LEMMA CallerBook ==
    ASSUME TInv, call.s \in Session, NEW b, IsBook(b), Good(b),
           book' = [book EXCEPT ![call.s] = b]
    PROVE  /\ BooksOK' /\ book'[call.s] = b
           /\ \A s \in Session : s # call.s => book'[s] = book[s]
           /\ \A s \in Session : s # call.s => SameGraph(book[s], book'[s])
  BY DEF TInv, BooksOK, SameGraph

\* commit_or_cancelled() and the new checkpoint.
LEMMA CommitCheckpointT == ASSUME TInv, CommitCheckpoint PROVE TInv' /\ GraphStep
  <1> DEFINE c == Commit(Mine, call.temp, call.input, call.fin)
  <1>1. Local /\ At("commit")
    BY DEF CommitCheckpoint
  <1>2. CASE EndEpoch
    BY <1>1, <1>2, EndEpochFacts, Assemble
  <1>3. CASE pet' = Release(pet, {call.temp}) /\ End /\ UNCHANGED book
    BY <1>1, <1>3, EndCall, BooksSame, ReleaseFacts, Assemble DEF TInv
  <1>4. CASE /\ ~Cancelled /\ CanAllocate(Mine)
             /\ book' = [book EXCEPT ![call.s] = c]
             /\ IF call.close \in {"ok", "lost"}
                THEN call' = [call EXCEPT
                        !.pc = IF call.close = "ok" THEN "publish" ELSE "lost",
                        !.req = "committed", !.temp = Null, !.input = Null]
                ELSE End
             /\ UNCHANGED pet
    <2>1. /\ call.s \in Session /\ call.tool = "check" /\ IsBook(Mine) /\ Good(Mine)
          /\ Active(Mine)
      BY <1>1 DEF TInv, CallOK, ControlOK, ProofOK, ProofTools, BooksOK, Mine, At
    <2>2. call.temp \in PetId /\ call.input \in Input /\ call.fin \in BOOLEAN
      <3>1. call.temp \in PetId \cup {Null} /\ call.fin \in BOOLEAN
        BY CallShape DEF TInv, CallOK, CallOver
      <3> QED
        BY <1>1, <3>1 DEF TInv, CallOK, DataOK, At
    <2>3. IsBook(c) /\ Good(c) /\ Active(c)
      BY <1>4, <2>1, <2>2, CommitFacts
    <2> HIDE DEF c
    <2>4. /\ BooksOK' /\ book'[call.s] = c
          /\ \A s \in Session : s # call.s => SameGraph(book[s], book'[s])
      BY <1>4, <2>1, <2>3, CallerBook
    <2>5. \A s \in Session : SameGraph(book[s], book'[s]) \/ MayChange(s)
      BY <1>4, <2>1, <2>4 DEF MayChange
    <2>6. CASE End
      BY <1>1, <1>4, <2>4, <2>5, <2>6, EndCall, Assemble DEF TInv
    <2>7. CASE ~End
      <3> DEFINE pc == IF call.close = "ok" THEN "publish" ELSE "lost"
      <3>1. /\ pc \in {"publish", "lost"}
            /\ call' = [call EXCEPT !.pc = pc, !.req = "committed",
                                    !.temp = Null, !.input = Null]
        BY <1>4, <2>7
      <3> HIDE DEF pc
      <3>2. /\ IsCall(call') /\ call'.pc = pc
            /\ call'.s = call.s /\ call'.tool = call.tool /\ call'.goal = call.goal
            /\ call'.req = "committed" /\ call'.temp = Null /\ call'.staged = call.staged
            /\ call'.todo = call.todo
        BY <3>1, CommittedCall DEF TInv, CallOK
      <3>3. ControlOK'
        BY <1>1, <3>1, <3>2, LocalFacts DEF TInv, CallOK, ControlOK, At, links
      <3>4. DataOK'
        BY <1>1, <3>1, <3>2 DEF TInv, CallOK, DataOK, At
      <3>5. ProofOK'
        BY <2>1, <2>3, <2>4, <3>1, <3>2 DEF ProofOK, Mine, At, OpenTools, ProofTools
      <3> QED
        BY <1>1, <1>4, <2>4, <2>5, <3>2, <3>3, <3>4, <3>5, Assemble DEF CallOK, TInv
    <2> QED
      BY <2>6, <2>7
  <1> QED
    BY <1>2, <1>3, <1>4 DEF CommitCheckpoint

\* A committed proof whose terminator was not answered.
LEMMA ReportLossT == ASSUME TInv, ReportLoss PROVE TInv' /\ GraphStep
  BY EndEpochFacts, Assemble DEF ReportLoss

\* The caller's proof is dropped by a request that is not cancelled.
LEMMA CallerCleared ==
    ASSUME TInv, ~At("idle"), ~Cancelled,
           call.tool \in {"check", "rewind", "prove", "declare", "abandon"},
           book' = [book EXCEPT ![call.s] = Clear(Mine)]
    PROVE  /\ BooksOK'
           /\ \A s \in Session : SameGraph(book[s], book'[s]) \/ MayChange(s)
  <1>1. call.s \in Session /\ IsBook(Mine)
    BY DEF TInv, CallOK, ControlOK, BooksOK, Mine
  <1>2. IsBook(Clear(Mine)) /\ Good(Clear(Mine))
    BY <1>1, ClearFacts
  <1> QED
    BY <1>1, <1>2, CallerBook DEF MayChange

\* begin_epoch().
LEMMA BeginEpochT == ASSUME TInv, BeginEpoch PROVE TInv' /\ GraphStep
  <1>1. Local /\ At("publish") /\ pet' = pet
    BY DEF BeginEpoch
  <1>2. ~At("idle") /\ ~Cancelled /\ call.tool = "check"
    BY <1>1 DEF TInv, CallOK, ControlOK, DataOK, At, Cancelled
  <1>3. CASE book' = [book EXCEPT ![call.s] = Clear(Mine)] /\ End
    BY <1>1, <1>2, <1>3, CallerCleared, EndCall, Assemble DEF TInv
  <1>4. CASE book' = Invalidated(book, call.s) /\ Goto("write")
    <2>1. BooksOK' /\ \A s \in Session : SameGraph(book[s], book'[s])
      BY <1>4, InvalidatedBooks DEF TInv
    <2>2. IsCall(call) /\ "write" \in Pcs
      BY DEF TInv, CallOK, Pcs
    <2>3. /\ IsCall(call') /\ call'.pc = "write"
          /\ call'.s = call.s /\ call'.tool = call.tool /\ call'.goal = call.goal
          /\ call'.req = call.req /\ call'.temp = call.temp /\ call'.staged = call.staged
          /\ call'.todo = call.todo
      BY <1>4, <2>2, GotoFacts
    <2>4. ControlOK'
      BY <1>1, <2>3, LocalFacts DEF TInv, CallOK, ControlOK, At, links
    <2>5. DataOK'
      BY <1>1, <2>3 DEF TInv, CallOK, DataOK, At
    <2>6. ProofOK'
      BY <1>1, <2>1, <2>3, ProofKept DEF At
    <2> QED
      BY <1>1, <2>1, <2>3, <2>4, <2>5, <2>6, Assemble DEF CallOK, TInv
  <1>5. CASE End /\ UNCHANGED book
    BY <1>1, <1>5, EndErrorFacts, Assemble DEF EndError
  <1> QED
    BY <1>3, <1>4, <1>5 DEF BeginEpoch

\* The ways publication ends.
LEMMA PublishT ==
    ASSUME TInv, PublishSucceeds \/ PublishFails \/ RollbackFails
    PROVE  TInv' /\ GraphStep
  <1>1. At("write") /\ End
    BY DEF PublishSucceeds, PublishFails, RollbackFails
  <1>2. ~At("idle") /\ ~Cancelled /\ call.tool = "check"
    BY <1>1 DEF TInv, CallOK, ControlOK, DataOK, At, Cancelled
  <1>3. book' = book \/ book' = [book EXCEPT ![call.s] = Clear(Mine)]
    BY DEF PublishSucceeds, PublishFails, RollbackFails
  <1>4. /\ BooksOK'
        /\ \A s \in Session : SameGraph(book[s], book'[s]) \/ MayChange(s)
    BY <1>2, <1>3, CallerCleared, BooksSame DEF TInv
  <1>5. IsPet(pet')
    <2>1. pet' \in Refreshed \cup {pet}
      BY DEF PublishSucceeds, PublishFails, RollbackFails, Refreshed
    <2> QED
      BY <2>1, RefreshedFacts DEF TInv
  <1>6. LinksOK'
    BY DEF TInv, LinksOK, PublishSucceeds, PublishFails, RollbackFails, links
  <1>7. WorldOK'
    BY DEF TInv, WorldOK, PublishSucceeds, PublishFails, RollbackFails
  <1>8. CallOK'
    BY <1>1, EndCall
  <1> QED
    BY <1>4, <1>5, <1>6, <1>7, <1>8 DEF TInv, GraphStep

\* list_decls().
LEMMA InspectT == ASSUME TInv, Inspect PROVE TInv' /\ GraphStep
  <1>1. Local
    BY DEF Inspect
  <1>2. CASE EndEpoch
    BY <1>1, <1>2, EndEpochFacts, Assemble
  <1>3. CASE pet' = Spawned /\ End /\ UNCHANGED book
    BY <1>1, <1>3, SpawnedFacts, EndCall, BooksSame, Assemble DEF TInv
  <1> QED
    BY <1>2, <1>3 DEF Inspect

\* query_at().
LEMMA OpenContextT == ASSUME TInv, OpenContext PROVE TInv' /\ GraphStep
  <1>1. Local /\ At("locate")
    BY DEF OpenContext
  <1>2. CASE EndEpoch
    BY <1>1, <1>2, EndEpochFacts, Assemble
  <1>3. CASE pet' = Spawned /\ End /\ UNCHANGED book
    BY <1>1, <1>3, SpawnedFacts, EndCall, BooksSame, Assemble DEF TInv
  <1>4. CASE /\ HasRoom(Spawned)
             /\ pet' = Export(Spawned, RootContent)
             /\ call' = [call EXCEPT !.pc = "answer", !.temp = FreeId(Spawned)]
             /\ UNCHANGED book
    <2>1. IsPet(Spawned)
      BY SpawnedFacts DEF TInv
    <2>2. IsPet(pet') /\ FreeId(Spawned) \in PetId
      BY <1>4, <2>1, ExportFacts, RootContentType, FreeIdFacts
    <2>3. /\ IsCall(call') /\ call'.pc = "answer"
          /\ call'.s = call.s /\ call'.tool = call.tool /\ call'.goal = call.goal
          /\ call'.req = call.req /\ call'.temp = FreeId(Spawned) /\ call'.staged = call.staged
          /\ call'.todo = call.todo
      BY <1>4, <2>2, ContextCall DEF TInv, CallOK
    <2>4. BooksOK' /\ \A s \in Session : SameGraph(book[s], book'[s])
      BY <1>4, BooksSame DEF TInv
    <2>5. ControlOK'
      BY <1>1, <2>3, LocalFacts DEF TInv, CallOK, ControlOK, At, links
    <2>6. DataOK'
      BY <1>1, <2>2, <2>3, NullAssumption DEF TInv, CallOK, DataOK, At
    <2>7. ProofOK'
      BY <1>1, <2>3, <2>4, ProofKept DEF At
    <2> QED
      BY <1>1, <2>2, <2>3, <2>4, <2>5, <2>6, <2>7, Assemble DEF CallOK
  <1> QED
    BY <1>2, <1>3, <1>4 DEF OpenContext

\* The query's context is released.
LEMMA AnswerQueryT == ASSUME TInv, AnswerQuery PROVE TInv' /\ GraphStep
  <1>1. Local
    BY DEF AnswerQuery
  <1>2. CASE EndEpoch
    BY <1>1, <1>2, EndEpochFacts, Assemble
  <1>3. CASE pet' = Release(pet, {call.temp}) /\ End /\ UNCHANGED book
    BY <1>1, <1>3, ReleaseFacts, EndCall, BooksSame, Assemble DEF TInv
  <1> QED
    BY <1>2, <1>3 DEF AnswerQuery

\* open_declaration() and declare().
LEMMA OpenDeclarationT == ASSUME TInv, OpenDeclaration PROVE TInv' /\ GraphStep
  <1>1. Local /\ At("open") /\ IsPet(Spawned) /\ source \in Target
    BY SpawnedFacts DEF OpenDeclaration, TInv, WorldOK
  <1>2. CASE EndEpoch
    BY <1>1, <1>2, EndEpochFacts, Assemble
  <1>3. CASE pet' = Spawned /\ End /\ UNCHANGED book
    BY <1>1, <1>3, EndCall, BooksSame, Assemble DEF TInv
  <1>4. CASE /\ HasRoom(Spawned)
             /\ \E fin \in BOOLEAN :
                   call' = [call EXCEPT !.pc = "begin", !.temp = FreeId(Spawned),
                                        !.fin = fin, !.anchor = source]
             /\ pet' = Export(Spawned, RootContent)
             /\ UNCHANGED book
    <2>1. PICK fin \in BOOLEAN :
             call' = [call EXCEPT !.pc = "begin", !.temp = FreeId(Spawned),
                                  !.fin = fin, !.anchor = source]
      BY <1>4
    <2>2. IsPet(pet') /\ FreeId(Spawned) \in PetId
      BY <1>1, <1>4, ExportFacts, RootContentType, FreeIdFacts
    <2>3. /\ IsCall(call') /\ call'.pc = "begin"
          /\ call'.s = call.s /\ call'.tool = call.tool /\ call'.goal = call.goal
          /\ call'.req = call.req /\ call'.temp = FreeId(Spawned) /\ call'.staged = call.staged
          /\ call'.todo = call.todo /\ call'.anchor = source
      <3>1. DOMAIN call.staged \in SUBSET Id /\ call \in CallOver(DOMAIN call.staged)
        BY CallShape DEF TInv, CallOK
      <3>2. call' = [s |-> call.s, tool |-> call.tool, pc |-> "begin", req |-> call.req,
                     left |-> call.left, ret |-> call.ret, goal |-> call.goal,
                     todo |-> call.todo, staged |-> call.staged,
                     temp |-> FreeId(Spawned), input |-> call.input, fin |-> fin,
                     close |-> call.close, anchor |-> source, closed |-> call.closed]
        BY <2>1, <3>1 DEF CallOver
      <3>3. call' \in CallOver(DOMAIN call.staged)
        BY <1>1, <2>2, <3>1, <3>2 DEF CallOver, Pcs
      <3> QED
        BY <3>1, <3>2, <3>3 DEF IsCall
    <2>4. BooksOK' /\ \A s \in Session : SameGraph(book[s], book'[s])
      BY <1>4, BooksSame DEF TInv
    <2>5. ControlOK'
      BY <1>1, <2>3, LocalFacts DEF TInv, CallOK, ControlOK, At, links
    <2>6. DataOK'
      BY <1>1, <2>2, <2>3, NullAssumption DEF TInv, CallOK, DataOK, At
    <2>7. ProofOK'
      BY <1>1, <2>3, <2>4, ProofKept DEF At
    <2> QED
      BY <1>1, <2>2, <2>3, <2>4, <2>5, <2>6, <2>7, Assemble DEF CallOK
  <1>5. CASE /\ call.tool = "prove"
             /\ pet' = Spawned
             /\ call' = [call EXCEPT !.pc = "audit", !.anchor = source]
             /\ book' = Invalidated(book, call.s)
    <2>1. /\ IsCall(call') /\ call'.pc = "audit"
          /\ call'.s = call.s /\ call'.tool = call.tool /\ call'.goal = call.goal
          /\ call'.req = call.req /\ call'.temp = call.temp /\ call'.staged = call.staged
          /\ call'.todo = call.todo
      BY <1>1, <1>5, AuditCall DEF TInv, CallOK
    <2>2. BooksOK' /\ \A s \in Session : SameGraph(book[s], book'[s])
      BY <1>5, InvalidatedBooks DEF TInv
    <2>3. ControlOK'
      BY <1>1, <1>5, <2>1, LocalFacts DEF TInv, CallOK, ControlOK, At, links
    <2>4. DataOK'
      BY <1>1, <2>1 DEF TInv, CallOK, DataOK, At
    <2>5. ProofOK'
      BY <1>1, <2>1, <2>2, ProofKept DEF At
    <2> QED
      BY <1>1, <1>5, <2>1, <2>2, <2>3, <2>4, <2>5, Assemble DEF CallOK
  <1> QED
    BY <1>2, <1>3, <1>4, <1>5 DEF OpenDeclaration

\* enrich_declaration_error() and validate_published().
LEMMA EnrichAuditT ==
    ASSUME TInv, EnrichFault \/ AuditPublished
    PROVE  TInv' /\ GraphStep
  <1>1. Local
    BY DEF EnrichFault, AuditPublished
  <1>2. CASE EndEpoch
    BY <1>1, <1>2, EndEpochFacts, Assemble
  <1>3. CASE EndError
    BY <1>1, <1>3, EndErrorFacts, Assemble
  <1>4. CASE pet' \in Refreshed /\ End /\ UNCHANGED book
    BY <1>1, <1>4, RefreshedFacts, EndCall, BooksSame, Assemble DEF TInv
  <1> QED
    BY <1>2, <1>3, <1>4 DEF EnrichFault, AuditPublished, Refreshed

\* begin_proof().
LEMMA BeginProofT == ASSUME TInv, BeginProof PROVE TInv' /\ GraphStep
  <1> DEFINE c == Begin(Mine, call.anchor, call.temp, call.fin)
  <1>1. Local /\ At("begin")
    BY DEF BeginProof
  <1>2. CASE EndEpoch
    BY <1>1, <1>2, EndEpochFacts, Assemble
  <1>3. CASE pet' = Release(pet, {call.temp}) /\ End /\ UNCHANGED book
    BY <1>1, <1>3, EndCall, BooksSame, ReleaseFacts, Assemble DEF TInv
  <1>4. CASE /\ ~Cancelled /\ CanAllocate(Mine)
             /\ book' = [book EXCEPT ![call.s] = c]
             /\ End
             /\ UNCHANGED pet
    <2>1. call.s \in Session /\ call.tool \in OpenTools /\ IsBook(Mine)
      BY <1>1 DEF TInv, CallOK, ControlOK, BooksOK, Mine, At
    <2>2. call.temp \in PetId /\ call.anchor \in Target /\ call.fin \in BOOLEAN
      <3>1. call.temp \in PetId \cup {Null} /\ call.fin \in BOOLEAN
        BY CallShape DEF TInv, CallOK, CallOver
      <3> QED
        BY <1>1, <3>1 DEF TInv, CallOK, DataOK, At
    <2>3. IsBook(c) /\ Good(c)
      BY <1>4, <2>1, <2>2, BeginFacts
    <2> HIDE DEF c
    <2>4. /\ BooksOK'
          /\ \A s \in Session : s # call.s => SameGraph(book[s], book'[s])
      BY <1>4, <2>1, <2>3, CallerBook
    <2>5. \A s \in Session : SameGraph(book[s], book'[s]) \/ MayChange(s)
      BY <1>4, <2>1, <2>4 DEF MayChange, OpenTools
    <2> QED
      BY <1>1, <1>4, <2>4, <2>5, EndCall, Assemble DEF TInv
  <1> QED
    BY <1>2, <1>3, <1>4 DEF BeginProof

\* The selection of a checkpoint.
LEMMA RewindToT == ASSUME TInv, RewindTo PROVE TInv' /\ GraphStep
  <1>1. Local /\ At("rewind")
    BY DEF RewindTo
  <1>2. CASE EndEpoch
    BY <1>1, <1>2, EndEpochFacts, Assemble
  <1>3. CASE /\ ~Cancelled
             /\ book' = [book EXCEPT ![call.s] = Select(Mine, call.goal)]
             /\ End
             /\ UNCHANGED pet
    <2>1. /\ call.s \in Session /\ call.tool = "rewind" /\ IsBook(Mine) /\ Good(Mine)
          /\ Active(Mine) /\ call.goal \in Nodes(Mine)
      BY <1>1 DEF TInv, CallOK, ControlOK, ProofOK, ProofTools, BooksOK, Mine, At
    <2>2. IsBook(Select(Mine, call.goal)) /\ Good(Select(Mine, call.goal))
      BY <2>1, SelectFacts
    <2>3. /\ BooksOK'
          /\ \A s \in Session : s # call.s => SameGraph(book[s], book'[s])
      BY <1>3, <2>1, <2>2, CallerBook
    <2>4. \A s \in Session : SameGraph(book[s], book'[s]) \/ MayChange(s)
      BY <1>3, <2>1, <2>3 DEF MayChange
    <2> QED
      BY <1>1, <1>3, <2>3, <2>4, EndCall, Assemble DEF TInv
  <1> QED
    BY <1>2, <1>3 DEF RewindTo

\* Clearing one book and forgetting the handles of the others.
LEMMA ClearedBooks ==
    ASSUME BooksOK, NEW s \in Session,
           LET cleared == [book EXCEPT ![s] = Clear(book[s])]
           IN  book' \in {cleared, Invalidated(cleared, s)}
    PROVE  /\ BooksOK'
           /\ \A t \in Session : t # s => SameGraph(book[t], book'[t])
           /\ SameGraph(Clear(book[s]), book'[s])
  <1> DEFINE cleared == [book EXCEPT ![s] = Clear(book[s])]
  <1>1. IsBook(Clear(book[s])) /\ Good(Clear(book[s]))
    BY ClearFacts DEF BooksOK
  <1>2. /\ DOMAIN cleared = Session /\ cleared[s] = Clear(book[s])
        /\ \A t \in Session : t # s => cleared[t] = book[t]
    BY DEF BooksOK
  <1> HIDE DEF cleared
  <1>3. \A t \in Session : IsBook(cleared[t]) /\ Good(cleared[t])
    BY <1>1, <1>2 DEF BooksOK
  <1>4. DOMAIN book' = Session /\ \A t \in Session : SameGraph(cleared[t], book'[t])
    <2>1. CASE book' = cleared
      BY <1>2, <1>3, <2>1 DEF SameGraph
    <2>2. CASE book' = Invalidated(cleared, s)
      BY <1>3, <2>2, InvalidatedFacts
    <2> QED
      BY <2>1, <2>2 DEF cleared
  <1> QED
    BY <1>2, <1>4 DEF BooksOK, SameGraph

\* retire_proof().
LEMMA RetireT ==
    ASSUME TInv, NEW s \in Session, Retire(s)
    PROVE  /\ BooksOK' /\ IsPet(pet')
           /\ \A t \in Session : t # s => SameGraph(book[t], book'[t])
  <1> DEFINE cleared == [book EXCEPT ![s] = Clear(book[s])]
  <1>1. \/ book' = cleared /\ pet' = Release(pet, Retained(book[s]))
        \/ book' = Invalidated(cleared, s) /\ pet' = NoPet
    BY DEF Retire
  <1>2. IsPet(pet')
    BY <1>1, ReleaseFacts, NoPetFacts DEF TInv
  <1>3. book' \in {cleared, Invalidated(cleared, s)}
    BY <1>1
  <1> QED
    BY <1>2, <1>3, ClearedBooks DEF TInv

\* abandon.
LEMMA AbandonT == ASSUME TInv, Abandon PROVE TInv' /\ GraphStep
  <1>1. Local /\ At("retire")
    BY DEF Abandon
  <1>2. CASE EndEpoch
    BY <1>1, <1>2, EndEpochFacts, Assemble
  <1>3. CASE ~Cancelled /\ Retire(call.s) /\ End
    <2>1. call.s \in Session /\ call.tool = "abandon"
      BY <1>1 DEF TInv, CallOK, ControlOK, At
    <2>2. /\ BooksOK' /\ IsPet(pet')
          /\ \A t \in Session : t # call.s => SameGraph(book[t], book'[t])
      BY <1>3, <2>1, RetireT
    <2>3. \A s \in Session : SameGraph(book[s], book'[s]) \/ MayChange(s)
      BY <1>3, <2>1, <2>2 DEF MayChange
    <2> QED
      BY <1>1, <1>3, <2>2, <2>3, EndCall, Assemble
  <1>4. CASE EndError
    BY <1>1, <1>4, EndErrorFacts, Assemble
  <1> QED
    BY <1>2, <1>3, <1>4 DEF Abandon

\* Between calls nothing is asked of anybody.
LEMMA IdleFacts ==
    ASSUME TInv, At("idle")
    PROVE  ~Cancelled /\ call = NoCall /\ \A s \in Session : MayChange(s)
  BY NoCallFacts DEF TInv, CallOK, ControlOK, MayChange, Cancelled

\* The request stays nobody's.
LEMMA IdleKept == ASSUME TInv, At("idle"), call' = call PROVE CallOK'
  BY IdleFacts, EndCall DEF End

\* A reading of the Dune layout.
LEMMA RefreshLayoutT ==
    ASSUME TInv, NEW s, RefreshLayout(s)
    PROVE  /\ BooksOK' /\ IsPet(pet') /\ layout' \in BOOLEAN
           /\ \A t \in Session : SameGraph(book[t], book'[t])
  <1>1. CASE pet' = NoPet /\ book' = Invalidated(book, s)
    BY <1>1, NoPetFacts, InvalidatedBooks DEF TInv, RefreshLayout
  <1>2. CASE UNCHANGED <<pet, book>>
    BY <1>2, BooksSame DEF TInv, RefreshLayout
  <1> QED
    BY <1>1, <1>2 DEF RefreshLayout

\* start, a switch of project, and the end of a connection.
LEMMA LinkStepsT ==
    ASSUME TInv, NEW s \in Session,
           Reattach(s) \/ SwitchAway(s) \/ Attach(s) \/ DropSession(s)
    PROVE  TInv' /\ GraphStep
  <1>1. At("idle") /\ call' = call
    BY DEF Reattach, SwitchAway, Attach, DropSession
  <1>2. CallOK' /\ GraphStep
    BY <1>1, IdleKept, IdleFacts DEF GraphStep
  <1>3. CASE Reattach(s)
    <2>1. LinksOK' /\ WorldOK'
      <3>1. layout' \in BOOLEAN
        BY <1>3 DEF Reattach, TInv, WorldOK
      <3> QED
        BY <1>3, <3>1 DEF Reattach, TInv, LinksOK, WorldOK, links, artifacts
    <2>2. BooksOK' /\ IsPet(pet')
      <3>1. CASE /\ pet' = NoPet
                 /\ book' = Invalidated([book EXCEPT ![s] = Clear(book[s])], s)
        BY <3>1, ClearedBooks, NoPetFacts DEF TInv
      <3>2. CASE Retire(s)
        BY <3>2, RetireT
      <3> QED
        BY <1>3, <3>1, <3>2 DEF Reattach
    <2> QED
      BY <1>2, <2>1, <2>2 DEF TInv
  <1>4. CASE SwitchAway(s)
    <2>1. LinksOK' /\ WorldOK'
      BY <1>4 DEF SwitchAway, TInv, LinksOK, WorldOK, world, artifacts
    <2>2. BooksOK' /\ IsPet(pet')
      BY <1>4, RetireT DEF SwitchAway
    <2> QED
      BY <1>2, <2>1, <2>2 DEF TInv
  <1>5. CASE Attach(s)
    <2>1. BooksOK' /\ IsPet(pet') /\ layout' \in BOOLEAN
      BY <1>5, RefreshLayoutT DEF Attach
    <2>2. LinksOK' /\ WorldOK'
      BY <1>5, <2>1 DEF Attach, TInv, LinksOK, WorldOK, artifacts
    <2> QED
      BY <1>2, <2>1, <2>2 DEF TInv
  <1>6. CASE DropSession(s)
    <2>1. LinksOK' /\ WorldOK'
      BY <1>6 DEF DropSession, TInv, LinksOK, WorldOK, world, artifacts
    <2>2. IsPet(pet')
      BY <1>6, ReleaseFacts, NoPetFacts DEF DropSession, TInv
    <2>3. BooksOK'
      <3>1. CASE attached[s]
        BY <1>6, <3>1, ClearedBooks DEF DropSession, TInv
      <3>2. CASE ~attached[s]
        BY <1>6, <3>2, BooksSame DEF DropSession, TInv
      <3> QED
        BY <3>1, <3>2
    <2> QED
      BY <1>2, <2>1, <2>2, <2>3 DEF TInv
  <1> QED
    BY <1>3, <1>4, <1>5, <1>6

\* A connection that starts to close leaves the request in flight alone.
LEMMA DisconnectT ==
    ASSUME TInv, NEW s \in Session, Disconnect(s)
    PROVE  TInv' /\ GraphStep
  <1>1. /\ book' = book /\ attached' = attached /\ pet' = pet /\ call' = call
        /\ source' = source /\ upstream' = upstream /\ compiled' = compiled
        /\ env' = env /\ layout' = layout
        /\ call.s # s /\ conn' = [conn EXCEPT ![s] = "dropping"]
    BY DEF Disconnect, world, artifacts
  <1>2. LinksOK'
    BY <1>1 DEF TInv, LinksOK
  <1>3. \A t \in Session : t # s => conn'[t] = conn[t]
    BY <1>1 DEF TInv, LinksOK
  <1>4. ControlOK'
    BY <1>1, <1>3 DEF TInv, CallOK, ControlOK, At
  <1>5. DataOK' /\ ProofOK'
    BY <1>1 DEF TInv, CallOK, DataOK, ProofOK, At, Mine, WorkId
  <1>6. BooksOK' /\ \A t \in Session : SameGraph(book[t], book'[t])
    BY <1>1, BooksSame DEF TInv
  <1> QED
    BY <1>1, <1>2, <1>4, <1>5, <1>6 DEF TInv, CallOK, WorldOK, GraphStep

\* Admission under the barrier.
LEMMA AdmitT == ASSUME TInv, NEW s \in Session, Admit(s) PROVE TInv' /\ GraphStep
  <1>1. /\ At("idle") /\ conn[s] = "open" /\ attached[s] /\ RefreshLayout(s)
        /\ attached' = attached /\ conn' = conn /\ source' = source
        /\ upstream' = upstream /\ compiled' = compiled /\ env' = env
    BY DEF Admit, links, artifacts
  <1>2. PICK tool \in Tool :
          /\ Admissible(s, tool)
          /\ \E goal \in IF tool = "rewind" THEN Nodes(book[s]) ELSE {0},
                left \in IF tool \in {"check", "try"} THEN 1..MaxAttempts ELSE {0} :
                call' = [NoCall EXCEPT !.s = s, !.tool = tool, !.goal = goal,
                                       !.left = left, !.pc = FirstPc(tool)]
    BY DEF Admit
  <1>3. PICK goal \in IF tool = "rewind" THEN Nodes(book[s]) ELSE {0},
             left \in IF tool \in {"check", "try"} THEN 1..MaxAttempts ELSE {0} :
                call' = [NoCall EXCEPT !.s = s, !.tool = tool, !.goal = goal,
                                       !.left = left, !.pc = FirstPc(tool)]
    BY <1>2
  <1>4. goal \in 0..MaxId /\ left \in 0..MaxAttempts
    <2>1. Nodes(book[s]) \subseteq Id
      BY BookFields DEF TInv, BooksOK
    <2>2. MaxAttempts \in Nat
      BY SessionsAssumption
    <2> QED
      BY <1>3, <2>1, <2>2 DEF Id
  <1>5. /\ FirstPc(tool) \in {"validate", "retire", "reconcile"}
        /\ FirstPc(tool) = "validate" => tool \in {"check", "try", "goals", "rewind"}
        /\ FirstPc(tool) = "retire" => tool = "abandon"
        /\ FirstPc(tool) = "reconcile" => tool \in Tool \ {"abandon"}
    BY FirstPcFacts DEF Tool
  <1>6. FirstPc(tool) \in Pcs
    BY <1>5 DEF Pcs
  <1>7. /\ IsCall(call')
        /\ call'.s = s /\ call'.tool = tool /\ call'.pc = FirstPc(tool)
        /\ call'.req = "active" /\ call'.goal = goal
        /\ call'.todo = {} /\ call'.staged = NoNodes
        /\ call'.temp = Null
    <2>1. NoNodes \in [{} -> PetId] /\ <<>> \in Seq(Input \cup {Null})
      BY DEF NoNodes
    <2>2. call' = [s |-> s, tool |-> tool, pc |-> FirstPc(tool), req |-> "active",
                   left |-> left, ret |-> "none", goal |-> goal, todo |-> {},
                   staged |-> NoNodes, temp |-> Null, input |-> Null, fin |-> FALSE,
                   close |-> "none", anchor |-> Null, closed |-> <<>>]
      BY <1>3 DEF NoCall
    <2>3. call' \in CallOver({})
      BY <1>4, <1>6, <2>1, <2>2 DEF CallOver
    <2> QED
      BY <2>2, <2>3 DEF IsCall
  <1>8. /\ BooksOK' /\ IsPet(pet') /\ layout' \in BOOLEAN
        /\ \A t \in Session : SameGraph(book[t], book'[t])
    BY <1>1, RefreshLayoutT
  <1>9. ControlOK'
    BY <1>1, <1>5, <1>7 DEF ControlOK, At
  <1>10. DataOK'
    BY <1>5, <1>7 DEF DataOK, At
  <1>11. ProofOK'
    <2>1. Mine' = book'[s]
      BY <1>7 DEF Mine
    <2>2. Nodes(book'[s]) = Nodes(book[s]) /\ book'[s].current = book[s].current
      BY <1>8 DEF SameGraph
    <2> QED
      BY <1>2, <1>3, <1>7, <2>1, <2>2 DEF ProofOK, Admissible, Active, OpenTools, ProofTools
  <1>12. LinksOK' /\ WorldOK'
    BY <1>1, <1>8 DEF TInv, LinksOK, WorldOK
  <1> QED
    BY <1>7, <1>8, <1>9, <1>10, <1>11, <1>12 DEF TInv, CallOK, GraphStep

\* What happens around the call.
LEMMA EnvironmentT == ASSUME TInv, Environment PROVE TInv' /\ GraphStep
  <1>1. CASE Cancel
    <2>1. /\ book' = book /\ pet' = pet /\ UNCHANGED <<links, world>>
          /\ ~At("idle") /\ call.req = "active"
          /\ call' = [call EXCEPT !.req = "cancelled"]
      BY <1>1 DEF Cancel
    <2>2. Local
      BY <2>1 DEF Local
    <2>3. /\ IsCall(call') /\ call'.pc = call.pc /\ call'.req = "cancelled"
          /\ call'.s = call.s /\ call'.tool = call.tool /\ call'.goal = call.goal
          /\ call'.temp = call.temp /\ call'.staged = call.staged
          /\ call'.todo = call.todo /\ call'.ret = call.ret
          /\ call'.input = call.input /\ call'.anchor = call.anchor
      BY <2>1, CancelFacts DEF TInv, CallOK
    <2>4. BooksOK' /\ \A s \in Session : SameGraph(book[s], book'[s])
      BY <2>1, BooksSame DEF TInv
    <2>5. ControlOK'
      BY <2>1, <2>3 DEF TInv, CallOK, ControlOK, At, links
    <2>6. DataOK'
      BY <2>1, <2>3 DEF TInv, CallOK, DataOK, At, Mine, WorkId
    <2>7. ProofOK'
      BY <2>1, <2>3, <2>4, ProofKept
    <2> QED
      BY <2>1, <2>2, <2>3, <2>4, <2>5, <2>6, <2>7, Assemble DEF CallOK, TInv
  <1>2. ASSUME PetDies \/ EditSource \/ EditUpstream \/ ChangeLayout
        PROVE  TInv' /\ GraphStep
    <2>1. /\ book' = book /\ call' = call /\ attached' = attached /\ conn' = conn
      BY <1>2 DEF PetDies, EditSource, EditUpstream, ChangeLayout, links
    <2>2. BooksOK' /\ \A s \in Session : SameGraph(book[s], book'[s])
      BY <2>1, BooksSame DEF TInv
    <2>3. CallOK'
      BY <2>1 DEF TInv, CallOK, ControlOK, DataOK, ProofOK, At, Mine, WorkId
    <2>4. LinksOK'
      BY <2>1 DEF TInv, LinksOK
    <2>5. WorldOK'
      BY <1>2 DEF TInv, WorldOK, PetDies, EditSource, EditUpstream, ChangeLayout,
                  world, artifacts
    <2>6. IsPet(pet')
      BY <1>2, EmptyPet DEF TInv, PetDies, EditSource, EditUpstream, ChangeLayout
    <2> QED
      BY <2>2, <2>3, <2>4, <2>5, <2>6 DEF TInv, GraphStep
  <1> QED
    BY <1>1, <1>2 DEF Environment

\* Nothing happens.
LEMMA StutterT == ASSUME TInv, UNCHANGED vars PROVE TInv' /\ GraphStep
  <1>1. /\ book' = book /\ call' = call /\ attached' = attached /\ conn' = conn
        /\ pet' = pet /\ source' = source /\ upstream' = upstream
        /\ compiled' = compiled /\ env' = env /\ layout' = layout
    BY DEF vars
  <1>2. BooksOK' /\ \A s \in Session : SameGraph(book[s], book'[s])
    BY <1>1, BooksSame DEF TInv
  <1>3. CallOK'
    BY <1>1 DEF TInv, CallOK, ControlOK, DataOK, ProofOK, At, Mine, WorkId
  <1> QED
    BY <1>1, <1>2, <1>3 DEF TInv, GraphStep, LinksOK, WorldOK

\* TInv is inductive, and no step changes a graph it must not change.
LEMMA NextT == TInv /\ [Next]_vars => TInv' /\ GraphStep
  <1> SUFFICES ASSUME TInv, [Next]_vars PROVE TInv' /\ GraphStep
    OBVIOUS
  <1>1. CASE UNCHANGED vars
    BY <1>1, StutterT
  <1>2. CASE CallStep
    <2>1. CASE ValidateTarget \/ Reconcile \/ ReplayBegin \/ ReplayRoot \/ ReplayStep \/ ReplayInstall
      BY <2>1, ValidateTargetT, ReconcileT, ReplayBeginT, ReplayRootT, ReplayStepT, ReplayInstallT
    <2>2. CASE ReadGoals \/ RunAccepted \/ RunRejected \/ RunTimedOut \/ RunFailed \/ RunGoalsFault
      BY <2>2, ReadGoalsT, RunAcceptedT, RunOthersT
    <2>3. CASE Discard \/ CloseProof \/ CommitCheckpoint \/ ReportLoss
      BY <2>3, DiscardT, CloseProofT, CommitCheckpointT, ReportLossT
    <2>4. CASE BeginEpoch \/ PublishSucceeds \/ PublishFails \/ RollbackFails
      BY <2>4, BeginEpochT, PublishT
    <2>5. CASE Inspect \/ OpenContext \/ AnswerQuery \/ OpenDeclaration \/ EnrichFault
               \/ BeginProof \/ AuditPublished
      BY <2>5, InspectT, OpenContextT, AnswerQueryT, OpenDeclarationT, EnrichAuditT, BeginProofT
    <2>6. CASE RewindTo \/ Abandon
      BY <2>6, RewindToT, AbandonT
    <2> QED
      BY <1>2, <2>1, <2>2, <2>3, <2>4, <2>5, <2>6 DEF CallStep
  <1>3. CASE Environment
    BY <1>3, EnvironmentT
  <1>4. ASSUME NEW s \in Session,
               \/ Admit(s) \/ Reattach(s) \/ SwitchAway(s) \/ Attach(s)
               \/ Disconnect(s) \/ DropSession(s)
        PROVE  TInv' /\ GraphStep
    BY <1>4, AdmitT, LinkStepsT, DisconnectT
  <1> QED
    BY <1>1, <1>2, <1>3, <1>4 DEF Next

\* The server starts in TInv.
LEMMA InitT == Init => TInv
  <1> SUFFICES ASSUME Init PROVE TInv
    OBVIOUS
  <1>1. EmptyBook = [next |-> 0, target |-> Null, current |-> 0, nodes |-> NoNodes]
    BY DEF EmptyBook
  <1>2. NoNodes \in [{} -> Node] /\ DOMAIN NoNodes = {}
    BY DEF NoNodes
  <1>3. EmptyBook \in BookOver({})
    BY <1>1, <1>2 DEF BookOver
  <1>4. IsBook(EmptyBook)
    BY <1>3 DEF IsBook
  <1>5. Good(EmptyBook)
    BY <1>1, <1>2 DEF Good, Active, Nodes
  <1>6. BooksOK
    BY <1>4, <1>5 DEF Init, BooksOK
  <1>7. CallOK
    BY NoCallFacts DEF Init, CallOK, ControlOK, DataOK, ProofOK, At
  <1> QED
    BY <1>6, <1>7, NoPetFacts DEF Init, TInv, LinksOK, WorldOK

\* The control of a request and the graphs it works on, in every behaviour.
THEOREM SessionsInvariant == Spec => []TInv
  <1>1. TInv /\ [Next]_vars => TInv'
    BY NextT
  <1> QED
    BY InitT, <1>1, PTL DEF Spec

\* Books, links, PET and the request are always typed.
THEOREM SessionsTyped == Spec => []TypeOK
  <1>1. TInv => TypeOK
    BY DEF TInv, TypeOK, BooksOK, LinksOK, CallOK, WorldOK
  <1> QED
    BY <1>1, SessionsInvariant, PTL

\* A request the client managed to cancel changes no checkpoint graph, whatever
\* fails meanwhile.
THEOREM CancelledHarmless == Spec => CancelledLeavesGraphs
  <1>1. TInv /\ [Next]_vars =>
            [Cancelled => \A s \in Session : Shape(book[s])' = Shape(book[s])]_vars
    <2> SUFFICES ASSUME TInv, [Next]_vars, Cancelled, NEW s \in Session
                 PROVE  Shape(book[s])' = Shape(book[s])
      OBVIOUS
    <2>1. SameGraph(book[s], book'[s])
      BY NextT DEF GraphStep, MayChange
    <2> QED
      BY <2>1 DEF SameGraph, Shape, Nodes
  <1> QED
    BY <1>1, SessionsInvariant, PTL DEF Spec, CancelledLeavesGraphs

\* try, query and list change no graph, and no call changes another session's.
THEOREM OnlyOwnersChange == Spec => GraphsChangeOnlyByOwner
  <1>1. TInv /\ [Next]_vars =>
            [\A s \in Session :
                ~At("idle") /\ (call.s # s \/ call.tool \in {"try", "goals", "ask", "at", "list"})
                   => Shape(book[s])' = Shape(book[s])]_vars
    <2> SUFFICES ASSUME TInv, [Next]_vars, NEW s \in Session, ~At("idle"),
                        call.s # s \/ call.tool \in {"try", "goals", "ask", "at", "list"}
                 PROVE  Shape(book[s])' = Shape(book[s])
      OBVIOUS
    <2>1. SameGraph(book[s], book'[s])
      BY NextT DEF GraphStep, MayChange
    <2> QED
      BY <2>1 DEF SameGraph, Shape, Nodes
  <1> QED
    BY <1>1, SessionsInvariant, PTL DEF Spec, GraphsChangeOnlyByOwner

-----------------------------------------------------------------------------
(* Who owns a PET state.  A rendering failure that hides the loss of PET    *)
(* ("goals", "enrich") and a connection that closes on its own              *)
(* ("disconnect") leave handles of an old process behind; without them      *)
(* every handle is owned once and names a state of the present process.     *)

Mild == Faults \subseteq {"edit_race", "rollback"}

\* The loss of PET is known to the request and not yet to the books.
Unnoticed == At("lost") \/ (At("commit") /\ call.close = "lost")

\* Everybody stays connected, and a session elsewhere has no proof here.
HOpen == \A s \in Session : conn[s] = "open" /\ (~attached[s] => ~Active(book[s]))

\* A handle has one owner.
HBooks ==
    /\ \A s \in Session : Distinct(book[s])
    /\ \A s, t \in Session : s # t => Retained(book[s]) \cap Retained(book[t]) = {}

\* Handles are states of the live process; without a process there are none.
HPet ==
    /\ pet.proc = "live" =>
          \A s \in Session : Retained(book[s]) \subseteq DOMAIN pet.table
    /\ pet.proc = "none" /\ ~Unnoticed => \A s \in Session : Retained(book[s]) = {}
    /\ pet.proc # "live" => DOMAIN pet.table = {}

\* What the request owns is fresh, and nobody else's.
HReq ==
    /\ call.pc \in {"write", "audit"} => \A s \in Session : Retained(book[s]) = {}
    /\ \A s \in Session : call.temp \notin Retained(book[s])
    /\ pet.proc = "live" /\ call.temp # Null => call.temp \in DOMAIN pet.table
    /\ call.temp # Null /\ ~Unnoticed => pet.proc # "none"
    /\ \A s \in Session : StagedIds \cap Retained(book[s]) = {}
    /\ \A i, j \in DOMAIN call.staged : call.staged[i] = call.staged[j] => i = j
    /\ pet.proc = "live" => StagedIds \subseteq DOMAIN pet.table
    /\ StagedIds # {} => pet.proc # "none"
    /\ call.pc \in {"close", "commit"} => Mine.nodes[Mine.current].state # Null

HInv == HOpen /\ HBooks /\ HPet /\ HReq

\* One step of the state machine of a book, on values.
BookStep(b, c) ==
    \/ c = b
    \/ c = InvalidateStates(b)
    \/ Active(b) /\ c = Clear(b)
    \/ Active(b) /\ \E id \in Nodes(b) : c = Select(b, id)
    \/ /\ ~Active(b) /\ CanAllocate(b)
       /\ \E target \in Target, state \in PetId \ Retained(b), finished \in BOOLEAN :
             c = Begin(b, target, state, finished)
    \/ /\ Active(b) /\ CanAllocate(b) /\ b.nodes[b.current].state # Null
       /\ \E state \in PetId \ Retained(b), input \in Input, finished \in BOOLEAN :
             c = Commit(b, state, input, finished)
    \/ /\ Active(b)
       /\ \E id \in Nodes(b) :
          \E staged \in [MissingSuffix(b, id) -> PetId \ Retained(b)] :
             /\ \A i, j \in MissingSuffix(b, id) : staged[i] = staged[j] => i = j
             /\ c = InstallStates(b, staged)

BookSteps == \A s \in Session : BookStep(book[s], book'[s])


\* A book without nodes has nothing to forget.
LEMMA InvalidateEmpty ==
    ASSUME NEW b, IsBook(b), Nodes(b) = {}
    PROVE  InvalidateStates(b) = b
  <1>1. /\ b = [next |-> b.next, target |-> b.target,
                current |-> b.current, nodes |-> b.nodes]
        /\ b.nodes \in [Nodes(b) -> Node]
    BY BookFields
  <1>2. [i \in Nodes(b) |-> [b.nodes[i] EXCEPT !.state = Null]] = b.nodes
    BY <1>1
  <1>3. InvalidateStates(b) = [b EXCEPT !.nodes = b.nodes]
    BY <1>2 DEF InvalidateStates
  <1> QED
    BY <1>1, <1>3

\* Forgetting what was just installed is forgetting what was there.
LEMMA InvalidateInstalled ==
    ASSUME NEW b, IsBook(b), Good(b),
           NEW staged, DOMAIN staged \subseteq Nodes(b),
           \A i \in DOMAIN staged : staged[i] \in PetId
    PROVE  InvalidateStates(InstallStates(b, staged)) = InvalidateStates(b)
  <1> DEFINE nodes == [i \in Nodes(b) |->
                          IF i \in DOMAIN staged
                          THEN [b.nodes[i] EXCEPT !.state = staged[i]]
                          ELSE b.nodes[i]]
  <1>1. b \in BookOver(Nodes(b))
    BY BookShape
  <1>2. InstallStates(b, staged) = [b EXCEPT !.nodes = nodes]
    BY DEF InstallStates
  <1>3. \A i \in Nodes(b) : [nodes[i] EXCEPT !.state = Null] = [b.nodes[i] EXCEPT !.state = Null]
    BY <1>1 DEF BookOver, Node
  <1>4. DOMAIN nodes = Nodes(b)
    OBVIOUS
  <1> HIDE DEF nodes
  <1>5. [b EXCEPT !.nodes = nodes].nodes = nodes
    BY <1>1 DEF BookOver
  <1>6. Nodes([b EXCEPT !.nodes = nodes]) = Nodes(b)
    BY <1>4, <1>5 DEF Nodes
  <1>7. [i \in Nodes(b) |-> [nodes[i] EXCEPT !.state = Null]]
           = [i \in Nodes(b) |-> [b.nodes[i] EXCEPT !.state = Null]]
    BY <1>3
  <1> DEFINE empty == [i \in Nodes(b) |-> [b.nodes[i] EXCEPT !.state = Null]]
  <1>8. InvalidateStates([b EXCEPT !.nodes = nodes])
           = [[b EXCEPT !.nodes = nodes] EXCEPT !.nodes = empty]
    BY <1>5, <1>6, <1>7 DEF InvalidateStates
  <1>9. InvalidateStates(b) = [b EXCEPT !.nodes = empty]
    BY DEF InvalidateStates
  <1> HIDE DEF empty
  <1>10. [[b EXCEPT !.nodes = nodes] EXCEPT !.nodes = empty] = [b EXCEPT !.nodes = empty]
    BY <1>1 DEF BookOver
  <1> QED
    BY <1>2, <1>8, <1>9, <1>10

\* No book keeps a handle once all are forgotten.
LEMMA AllForgotten ==
    ASSUME HOpen, NEW caller, NEW books,
           \A s \in Session : /\ IsBook(books[s]) /\ Good(books[s])
                              /\ Active(books[s]) => Active(book[s])
    PROVE  \A s \in Session : Retained(Invalidated(books, caller)[s]) = {}
  <1> TAKE s \in Session
  <1>1. /\ Retained(Invalidated(books, caller)[s]) \subseteq Retained(books[s])
        /\ conn[s] = "open" /\ attached[s] => Retained(Invalidated(books, caller)[s]) = {}
    BY InvalidatedFacts
  <1>2. ~attached[s] => Retained(books[s]) = {}
    BY InactiveIsClear DEF HOpen
  <1> QED
    BY <1>1, <1>2 DEF HOpen

\* Books without handles.
LEMMA Emptied ==
    ASSUME \A s \in Session : Retained(book'[s]) = {},
           pet'.proc # "live" => DOMAIN pet'.table = {}
    PROVE  HBooks' /\ HPet'
  <1>1. ASSUME NEW s \in Session PROVE Distinct(book'[s])
    BY DEF Distinct, Retained
  <1>2. HBooks'
    BY <1>1 DEF HBooks
  <1>3. HPet'
    BY DEF HPet
  <1> QED
    BY <1>2, <1>3

\* A request that owns nothing.
LEMMA OwnsNothing ==
    ASSUME call'.temp = Null, call'.staged = NoNodes,
           call'.pc \notin {"close", "commit"},
           call'.pc \in {"write", "audit"} => \A s \in Session : Retained(book'[s]) = {}
    PROVE  HReq'
  <1>1. StagedIds' = {} /\ DOMAIN call'.staged = {}
    BY DEF StagedIds, NoNodes
  <1>2. \A s \in Session : Null \notin Retained(book'[s])
    BY DEF Retained
  <1> QED
    BY <1>1, <1>2 DEF HReq

\* Nobody asks for anything.
LEMMA NoRequest == ASSUME End PROVE HReq'
  <1>1. call' = NoCall
    BY DEF End
  <1> QED
    BY <1>1, OwnsNothing, NoCallFacts

\* While a request runs, only its own session's proof comes or goes.
LEMMA OpenKept ==
    ASSUME TInv, HOpen, GraphStep, ~At("idle"), attached' = attached, conn' = conn
    PROVE  HOpen'
  <1> SUFFICES ASSUME NEW s \in Session, ~attached[s] PROVE ~Active(book'[s])
    BY DEF HOpen
  <1>1. s # call.s
    BY DEF TInv, CallOK, ControlOK
  <1>2. SameGraph(book[s], book'[s])
    BY <1>1 DEF GraphStep, MayChange
  <1> QED
    BY <1>2 DEF SameGraph, HOpen, Active

\* The other parts, with the links of a step of the request.
LEMMA AssembleH ==
    ASSUME TInv, HInv, GraphStep, ~At("idle"), Local, HBooks', HPet', HReq'
    PROVE  HInv'
  <1>1. attached' = attached /\ conn' = conn
    BY DEF Local, links
  <1> QED
    BY <1>1, OpenKept DEF HInv

\* Same books.
LEMMA SameSteps == ASSUME book' = book PROVE BookSteps
  BY DEF BookSteps, BookStep

\* Forgotten handles.
LEMMA ForgottenSteps ==
    ASSUME TInv, NEW caller, book' = Invalidated(book, caller)
    PROVE  BookSteps
  <1>1. \A s \in Session : IsBook(book[s]) /\ Good(book[s])
    BY DEF TInv, BooksOK
  <1>2. \A s \in Session : book'[s] \in {book[s], InvalidateStates(book[s])}
    BY <1>1, InvalidatedFacts
  <1> QED
    BY <1>2 DEF BookSteps, BookStep

\* Forgetting the handles of a project.
LEMMA ForgottenH ==
    ASSUME TInv, HInv, NEW caller, book' = Invalidated(book, caller)
    PROVE  BookSteps /\ \A s \in Session : Retained(book'[s]) = {}
  <1>1. \A s \in Session : IsBook(book[s]) /\ Good(book[s])
    BY DEF TInv, BooksOK
  <1>2. \A s \in Session : Retained(Invalidated(book, caller)[s]) = {}
    BY <1>1, AllForgotten DEF HInv
  <1> QED
    BY <1>2, ForgottenSteps

\* The end of an epoch.
LEMMA EndEpochH ==
    ASSUME TInv, HInv, EndEpoch
    PROVE  BookSteps /\ HBooks' /\ HPet' /\ HReq'
  <1>1. pet' = NoPet /\ book' = Invalidated(book, call.s) /\ End
    BY DEF EndEpoch
  <1>2. BookSteps /\ \A s \in Session : Retained(book'[s]) = {}
    BY <1>1, ForgottenH
  <1>3. HBooks' /\ HPet'
    BY <1>1, <1>2, Emptied, NoPetFacts
  <1> QED
    BY <1>1, <1>2, <1>3, NoRequest

\* An answer that keeps the books.
LEMMA EndSameH ==
    ASSUME TInv, HInv, End, book' = book,
           pet'.proc = "live" => \A s \in Session : Retained(book[s]) \subseteq DOMAIN pet'.table,
           pet'.proc = "none" => \A s \in Session : Retained(book[s]) = {},
           pet'.proc # "live" => DOMAIN pet'.table = {}
    PROVE  BookSteps /\ HBooks' /\ HPet' /\ HReq'
  <1>1. HBooks'
    BY DEF HInv, HBooks
  <1>2. HPet'
    BY DEF HPet
  <1> QED
    BY <1>1, <1>2, NoRequest, SameSteps

\* An answer that keeps PET too.
LEMMA EndErrorH ==
    ASSUME TInv, HInv, End, UNCHANGED <<book, pet>>, ~Unnoticed
    PROVE  BookSteps /\ HBooks' /\ HPet' /\ HReq'
  <1>1. /\ pet.proc = "live" => \A s \in Session : Retained(book[s]) \subseteq DOMAIN pet.table
        /\ pet.proc = "none" => \A s \in Session : Retained(book[s]) = {}
        /\ pet.proc # "live" => DOMAIN pet.table = {}
    BY DEF HInv, HPet
  <1> QED
    BY <1>1, EndSameH

\* An answer after a missing child was started.
LEMMA EndSpawnedH ==
    ASSUME TInv, HInv, End, book' = book, pet' = Spawned, ~Unnoticed
    PROVE  BookSteps /\ HBooks' /\ HPet' /\ HReq'
  <1>1. /\ Spawned.proc = IF pet.proc = "none" THEN "live" ELSE pet.proc
        /\ pet.proc = "none" => DOMAIN Spawned.table = {}
        /\ pet.proc # "none" => Spawned = pet
    BY SpawnedFacts DEF TInv
  <1>2. /\ pet.proc = "live" => \A s \in Session : Retained(book[s]) \subseteq DOMAIN pet.table
        /\ pet.proc = "none" => \A s \in Session : Retained(book[s]) = {}
        /\ pet.proc # "live" => DOMAIN pet.table = {}
    BY DEF HInv, HPet
  <1> QED
    BY <1>1, <1>2, EndSameH

\* An answer after a release of states that no book owns.
LEMMA EndReleaseH ==
    ASSUME TInv, HInv, End, book' = book, ~Unnoticed, NEW ids,
           \A s \in Session : ids \cap Retained(book[s]) = {},
           pet' = Release(pet, ids)
    PROVE  BookSteps /\ HBooks' /\ HPet' /\ HReq'
  <1>1. pet'.proc = pet.proc /\ DOMAIN pet'.table = DOMAIN pet.table \ ids
    BY ReleaseFacts DEF TInv
  <1>2. /\ pet.proc = "live" => \A s \in Session : Retained(book[s]) \subseteq DOMAIN pet.table
        /\ pet.proc = "none" => \A s \in Session : Retained(book[s]) = {}
        /\ pet.proc # "live" => DOMAIN pet.table = {}
    BY DEF HInv, HPet
  <1> QED
    BY <1>1, <1>2, EndSameH

\* A step of the request that touches no state.
LEMMA KeptH ==
    ASSUME TInv, HInv, book' = book, pet' = pet,
           call'.temp = call.temp, call'.staged = call.staged, call'.s = call.s,
           Unnoticed => Unnoticed',
           call'.pc \in {"write", "audit"} => call.pc = call'.pc,
           call'.pc \in {"close", "commit"} => call.pc \in {"close", "commit"}
    PROVE  BookSteps /\ HBooks' /\ HPet' /\ HReq'
  <1>1. HBooks'
    BY DEF HInv, HBooks
  <1>2. HPet'
    BY DEF HInv, HPet
  <1>3. StagedIds' = StagedIds /\ Mine' = Mine
    BY DEF StagedIds, Mine
  <1>4. HReq'
    BY <1>3 DEF HInv, HReq
  <1> QED
    BY <1>1, <1>2, <1>4, SameSteps

\* A live process for the next export.
LEMMA LiveSpawned ==
    ASSUME TInv, HInv, ~WorkspaceCallFails, ~Unnoticed
    PROVE  /\ IsPet(Spawned) /\ Spawned.proc = "live"
           /\ \A s \in Session : Retained(book[s]) \subseteq DOMAIN Spawned.table
           /\ StagedIds \subseteq DOMAIN Spawned.table
  <1>1. /\ IsPet(Spawned)
        /\ Spawned.proc = IF pet.proc = "none" THEN "live" ELSE pet.proc
        /\ pet.proc # "none" => Spawned = pet
    BY SpawnedFacts DEF TInv
  <1>2. pet.proc \in {"none", "live"}
    BY PetShape DEF TInv, WorkspaceCallFails
  <1>3. CASE pet.proc = "none"
    BY <1>1, <1>3 DEF HInv, HPet, HReq
  <1>4. CASE pet.proc = "live"
    BY <1>1, <1>4 DEF HInv, HPet, HReq
  <1> QED
    BY <1>2, <1>3, <1>4

\* An export leaves the books alone, and its id is nobody's.
LEMMA ExportedH ==
    ASSUME TInv, HInv, book' = book, NEW p, NEW content \in Contents,
           IsPet(p), HasRoom(p), p.proc = "live",
           \A s \in Session : Retained(book[s]) \subseteq DOMAIN p.table,
           pet' = Export(p, content)
    PROVE  /\ BookSteps /\ HBooks' /\ HPet'
           /\ pet'.proc = "live"
           /\ DOMAIN pet'.table = DOMAIN p.table \cup {FreeId(p)}
           /\ FreeId(p) \in PetId /\ FreeId(p) # Null /\ FreeId(p) \notin DOMAIN p.table
           /\ \A s \in Session : FreeId(p) \notin Retained(book[s])
  <1>1. pet'.proc = "live" /\ DOMAIN pet'.table = DOMAIN p.table \cup {FreeId(p)}
    BY ExportFacts
  <1>2. FreeId(p) \in PetId /\ FreeId(p) \notin DOMAIN p.table
    BY FreeIdFacts
  <1>3. HBooks'
    BY DEF HInv, HBooks
  <1>4. HPet'
    BY <1>1 DEF HPet
  <1> QED
    BY <1>1, <1>2, <1>3, <1>4, SameSteps, NullAssumption

\* A request that now owns one exported state.
LEMMA OwnsOneH ==
    ASSUME book' = book, pet'.proc = "live",
           call'.temp \in DOMAIN pet'.table,
           \A s \in Session : call'.temp \notin Retained(book[s]),
           call'.staged = NoNodes,
           call'.pc \in {"close", "commit"} => Mine'.nodes[Mine'.current].state # Null,
           call'.pc \notin {"write", "audit"}
    PROVE  HReq'
  <1>1. StagedIds' = {} /\ DOMAIN call'.staged = {}
    BY DEF StagedIds, NoNodes
  <1> QED
    BY <1>1 DEF HReq

\* validate_target().
LEMMA ValidateTargetH ==
    ASSUME TInv, HInv, GraphStep, ValidateTarget PROVE HInv' /\ BookSteps
  <1>1. Local /\ At("validate") /\ ~At("idle") /\ ~Unnoticed /\ UNCHANGED <<book, pet>>
    BY DEF ValidateTarget, At, Unnoticed
  <1>2. CASE End
    BY <1>1, <1>2, EndErrorH, AssembleH
  <1>3. CASE Goto("reconcile")
    <2>1. /\ call'.pc = "reconcile" /\ call'.temp = call.temp
          /\ call'.staged = call.staged /\ call'.s = call.s
      BY <1>3, GotoFacts DEF TInv, CallOK, Pcs
    <2> QED
      BY <1>1, <2>1, KeptH, AssembleH
  <1> QED
    BY <1>2, <1>3 DEF ValidateTarget

\* reconcile_artifact().
LEMMA ReconcileH ==
    ASSUME TInv, HInv, GraphStep, Reconcile PROVE HInv' /\ BookSteps
  <1>1. /\ At("reconcile") /\ ~At("idle") /\ ~Unnoticed
        /\ attached' = attached /\ conn' = conn
    BY DEF Reconcile, At, Unnoticed, links
  <1>2. HOpen'
    BY <1>1, OpenKept DEF HInv
  <1>3. CASE EndEpoch
    BY <1>2, <1>3, EndEpochH DEF HInv
  <1>4. CASE Goto(AfterReconcile)
    <2>1. call.tool \in Tool \ {"abandon"}
      BY <1>1 DEF TInv, CallOK, ControlOK
    <2>2. AfterReconcile \in {"open", "locate", "inspect", "rewind", "goals"}
      BY <2>1, AfterReconcileFacts DEF Tool, OpenTools, GoalTools
    <2>3. AfterReconcile \in Pcs
      BY <2>2 DEF Pcs
    <2>4. /\ call'.pc = AfterReconcile /\ call'.temp = call.temp
          /\ call'.staged = call.staged /\ call'.s = call.s
      BY <1>4, <2>3, GotoFacts DEF TInv, CallOK
    <2>5. CASE pet' = NoPet /\ book' = Invalidated(book, call.s)
      <3>1. BookSteps /\ \A s \in Session : Retained(book'[s]) = {}
        BY <2>5, ForgottenH
      <3>2. HBooks' /\ HPet'
        BY <2>5, <3>1, Emptied, NoPetFacts
      <3>3. call.temp = Null /\ call.staged = NoNodes
        BY <1>1 DEF TInv, CallOK, DataOK, At
      <3>4. HReq'
        BY <2>2, <2>4, <3>3, OwnsNothing
      <3> QED
        BY <1>2, <3>1, <3>2, <3>4 DEF HInv
    <2>6. CASE UNCHANGED <<pet, book>>
      BY <1>1, <1>2, <2>2, <2>4, <2>6, KeptH DEF HInv
    <2>7. CASE EndEpoch
      BY <1>3, <2>7
    <2> QED
      BY <2>5, <2>6, <2>7 DEF Reconcile, EndError
  <1>5. CASE EndError
    BY <1>1, <1>2, <1>5, EndErrorH DEF EndError, HInv
  <1> QED
    BY <1>3, <1>4, <1>5 DEF Reconcile

\* The start of a replay.
LEMMA ReplayBeginH ==
    ASSUME TInv, HInv, GraphStep, ReplayBegin PROVE HInv' /\ BookSteps
  <1>1. /\ Local /\ book' = book /\ pet' = pet
        /\ call.pc \in {"goals", "run", "rewind"} /\ ~At("idle") /\ ~Unnoticed
        /\ call' = [call EXCEPT !.pc = "replay", !.ret = call.pc,
                                !.todo = MissingSuffix(Mine, WorkId)]
    BY DEF ReplayBegin, At, Unnoticed
  <1>2. MissingSuffix(Mine, WorkId) \in SUBSET Id
    BY <1>1, WorkIdFacts
  <1>3. /\ call'.pc = "replay" /\ call'.temp = call.temp
        /\ call'.staged = call.staged /\ call'.s = call.s
    BY <1>1, <1>2, ReplayBeginCall DEF TInv, CallOK
  <1> QED
    BY <1>1, <1>3, KeptH, AssembleH

\* One more staged state: fresh, and different from those staged before.
LEMMA StageH ==
    ASSUME TInv, HInv, Replaying, book' = book, NEW p, NEW content \in Contents,
           IsPet(p), HasRoom(p), p.proc = "live",
           \A s \in Session : Retained(book[s]) \subseteq DOMAIN p.table,
           StagedIds \subseteq DOMAIN p.table,
           pet' = Export(p, content), Stage(p)
    PROVE  BookSteps /\ HBooks' /\ HPet' /\ HReq'
  <1>1. /\ BookSteps /\ HBooks' /\ HPet' /\ pet'.proc = "live"
        /\ DOMAIN pet'.table = DOMAIN p.table \cup {FreeId(p)}
        /\ FreeId(p) \in PetId /\ FreeId(p) # Null /\ FreeId(p) \notin DOMAIN p.table
        /\ \A s \in Session : FreeId(p) \notin Retained(book[s])
    BY ExportedH
  <1>2. /\ NextMissing \in Id /\ NextMissing \notin DOMAIN call.staged
    BY NextMissingFacts
  <1>3. call' = [call EXCEPT !.staged =
                    [i \in DOMAIN call.staged \cup {NextMissing} |->
                        IF i = NextMissing THEN FreeId(p) ELSE call.staged[i]]]
    BY DEF Stage
  <1>4. /\ DOMAIN call'.staged = DOMAIN call.staged \cup {NextMissing}
        /\ \A i \in DOMAIN call'.staged :
              call'.staged[i] = IF i = NextMissing THEN FreeId(p) ELSE call.staged[i]
        /\ call'.s = call.s /\ call'.pc = call.pc /\ call'.temp = call.temp
    BY <1>1, <1>2, <1>3, StageCall DEF TInv, CallOK
  <1>5. call.pc = "replay" /\ call.temp = Null
    BY DEF Replaying, At, TInv, CallOK, DataOK
  <1>6. StagedIds' = StagedIds \cup {FreeId(p)}
    BY <1>2, <1>4 DEF StagedIds
  <1>7. \A i \in DOMAIN call.staged : call.staged[i] \in StagedIds
    BY DEF StagedIds
  <1>8. \A i, j \in DOMAIN call'.staged : call'.staged[i] = call'.staged[j] => i = j
    <2> SUFFICES ASSUME NEW i \in DOMAIN call'.staged, NEW j \in DOMAIN call'.staged,
                        call'.staged[i] = call'.staged[j]
                 PROVE  i = j
      OBVIOUS
    <2>1. CASE i = NextMissing \/ j = NextMissing
      BY <1>1, <1>4, <1>7, <2>1
    <2>2. CASE i # NextMissing /\ j # NextMissing
      BY <1>4, <2>2 DEF HInv, HReq
    <2> QED
      BY <2>1, <2>2
  <1>9. \A s \in Session : Null \notin Retained(book[s])
    BY DEF Retained
  <1>10. \A s \in Session : StagedIds' \cap Retained(book[s]) = {}
    BY <1>1, <1>6 DEF HInv, HReq
  <1>11. HReq'
    BY <1>1, <1>4, <1>5, <1>6, <1>8, <1>9, <1>10 DEF HReq
  <1> QED
    BY <1>1, <1>11

\* replay_root().
LEMMA ReplayRootH ==
    ASSUME TInv, HInv, GraphStep, ReplayRoot PROVE HInv' /\ BookSteps
  <1>1. Local /\ Replaying /\ ~At("idle") /\ ~Unnoticed
    BY DEF ReplayRoot, Replaying, At, Unnoticed
  <1>2. CASE EndError
    BY <1>1, <1>2, EndErrorH, AssembleH DEF EndError
  <1>3. CASE EndEpoch
    BY <1>1, <1>3, EndEpochH, AssembleH
  <1>4. CASE /\ ~WorkspaceCallFails /\ HasRoom(Spawned)
             /\ pet' = Export(Spawned, RootContent) /\ Stage(Spawned) /\ UNCHANGED book
    BY <1>1, <1>4, LiveSpawned, RootContentType, StageH, AssembleH
  <1>5. CASE pet' = Spawned /\ End /\ UNCHANGED book
    BY <1>1, <1>5, EndSpawnedH, AssembleH
  <1> QED
    BY <1>2, <1>3, <1>4, <1>5 DEF ReplayRoot

\* One fragment again.
LEMMA ReplayStepH ==
    ASSUME TInv, HInv, GraphStep, ReplayStep PROVE HInv' /\ BookSteps
  <1>1. Local /\ Replaying /\ ~At("idle") /\ ~Unnoticed
    BY DEF ReplayStep, Replaying, At, Unnoticed
  <1>2. CASE EndError
    BY <1>1, <1>2, EndErrorH, AssembleH DEF EndError
  <1>3. CASE EndEpoch
    BY <1>1, <1>3, EndEpochH, AssembleH
  <1>4. CASE /\ ~LiveCallFails /\ HasRoom(pet) /\ ReplayBase \in DOMAIN pet.table
             /\ pet' = Export(pet, After(pet.table[ReplayBase],
                                         Mine.nodes[NextMissing].input))
             /\ Stage(pet) /\ UNCHANGED book
    <2>1. pet.table[ReplayBase] \in Contents
      BY <1>4, PetShape DEF TInv
    <2>2. After(pet.table[ReplayBase], Mine.nodes[NextMissing].input) \in Contents
      BY <1>1, <2>1, AfterFacts, NextMissingFacts
    <2>3. /\ IsPet(pet) /\ pet.proc = "live" /\ StagedIds \subseteq DOMAIN pet.table
          /\ \A s \in Session : Retained(book[s]) \subseteq DOMAIN pet.table
      BY <1>4 DEF TInv, LiveCallFails, HInv, HPet, HReq
    <2> QED
      BY <1>1, <1>4, <2>2, <2>3, StageH, AssembleH
  <1>5. CASE pet' = Release(pet, StagedIds) /\ End /\ UNCHANGED book
    <2>1. \A s \in Session : StagedIds \cap Retained(book[s]) = {}
      BY DEF HInv, HReq
    <2> QED
      BY <1>1, <1>5, <2>1, EndReleaseH, AssembleH
  <1> QED
    BY <1>2, <1>3, <1>4, <1>5 DEF ReplayStep

\* Only the caller's book changes.
LEMMA CallerStep ==
    ASSUME TInv, call.s \in Session, NEW b, book' = [book EXCEPT ![call.s] = b],
           BookStep(Mine, b)
    PROVE  BookSteps
  BY DEF TInv, BooksOK, BookSteps, BookStep, Mine

\* The last loop of replay_checkpoint().
LEMMA ReplayInstallH ==
    ASSUME TInv, HInv, GraphStep, ReplayInstall PROVE HInv' /\ BookSteps
  <1> DEFINE replaced == {Mine.nodes[i].state : i \in call.todo} \ {Null}
             new == InstallStates(Mine, call.staged)
             installed == [book EXCEPT ![call.s] = new]
             lost == replaced # {} /\ LiveCallFails
  <1>1. /\ Local /\ At("replay") /\ ~At("idle") /\ ~Unnoticed
        /\ call.todo = DOMAIN call.staged
    BY DEF ReplayInstall, At, Unnoticed
  <1>2. /\ book' = IF lost THEN Invalidated(installed, call.s) ELSE installed
        /\ pet' = IF lost THEN NoPet ELSE Release(pet, replaced)
        /\ call' = IF lost THEN NoCall
                   ELSE [call EXCEPT !.pc = call.ret, !.ret = "none",
                                     !.todo = {}, !.staged = NoNodes]
    BY DEF ReplayInstall
  <1>3. /\ \A i \in DOMAIN call.staged : call.staged[i] \in PetId
        /\ DOMAIN call.staged \subseteq Nodes(Mine)
        /\ call.s \in Session /\ IsBook(Mine) /\ Good(Mine) /\ Active(Mine)
    BY <1>1, StagedTypes
  <1>4. /\ SameGraph(Mine, new)
        /\ \A i \in Nodes(Mine) :
              new.nodes[i].state = IF i \in DOMAIN call.staged THEN call.staged[i]
                                   ELSE Mine.nodes[i].state
    BY <1>3, InstallFacts
  <1>5. BookStep(Mine, new)
    <2>1. /\ WorkId \in Nodes(Mine)
          /\ DOMAIN call.staged = MissingSuffix(Mine, WorkId)
      BY <1>1, WorkIdFacts DEF TInv, CallOK, DataOK, At
    <2>2. call.staged \in [DOMAIN call.staged -> PetId]
      BY CallShape DEF TInv, CallOK, CallOver
    <2>3. \A i \in DOMAIN call.staged : call.staged[i] \in PetId \ Retained(Mine)
      BY <1>3 DEF HInv, HReq, StagedIds, Mine
    <2>4. call.staged \in [MissingSuffix(Mine, WorkId) -> PetId \ Retained(Mine)]
      BY <2>1, <2>2, <2>3
    <2>5. \A i, j \in MissingSuffix(Mine, WorkId) :
             call.staged[i] = call.staged[j] => i = j
      BY <2>1 DEF HInv, HReq
    <2>6. \E id \in Nodes(Mine) :
          \E staged \in [MissingSuffix(Mine, id) -> PetId \ Retained(Mine)] :
             /\ \A i, j \in MissingSuffix(Mine, id) : staged[i] = staged[j] => i = j
             /\ new = InstallStates(Mine, staged)
      BY <2>1, <2>4, <2>5
    <2> QED
      BY <1>3, <2>6 DEF BookStep
  <1>6. /\ DOMAIN installed = Session /\ installed[call.s] = new
        /\ \A s \in Session : s # call.s => installed[s] = book[s]
    BY <1>3 DEF TInv, BooksOK
  <1>7. InvalidateStates(new) = InvalidateStates(Mine)
    BY <1>3, InvalidateInstalled
  <1>8. \A i \in call.todo : Mine.nodes[i].state # Null => Mine.nodes[i].state \in replaced
    OBVIOUS
  <1>9. replaced \subseteq Retained(Mine)
    BY <1>1, <1>3 DEF Retained
  <1>10. \A h \in replaced : \E i \in call.todo : h = Mine.nodes[i].state /\ h # Null
    OBVIOUS
  <1> HIDE DEF replaced, new, installed
  <1>11. \A s \in Session : /\ IsBook(installed[s]) /\ Good(installed[s])
                            /\ Active(installed[s]) => Active(book[s])
    BY <1>3, <1>4, <1>6 DEF TInv, BooksOK, SameGraph, Active, Mine
  <1>12. CASE lost
    <2>1. \A s \in Session : Retained(book'[s]) = {}
      BY <1>2, <1>11, <1>12, AllForgotten DEF HInv
    <2>2. HBooks' /\ HPet' /\ HReq'
      BY <1>2, <1>12, <2>1, Emptied, NoPetFacts, NoRequest DEF End
    <2>3. \A s \in Session : book'[s] \in {installed[s], InvalidateStates(installed[s])}
      BY <1>2, <1>11, <1>12, InvalidatedFacts
    <2>4. book'[call.s] = InvalidateStates(new)
      BY <1>2, <1>3, <1>6, <1>12 DEF Invalidated
    <2>5. BookSteps
      BY <1>6, <1>7, <2>3, <2>4 DEF BookSteps, BookStep, Mine
    <2> QED
      BY <1>1, <2>2, <2>5, AssembleH
  <1>13. CASE ~lost
    <2>1. book' = installed /\ pet' = Release(pet, replaced)
      BY <1>2, <1>13
    <2>2. BookSteps
      BY <1>3, <1>5, <2>1, CallerStep DEF installed
    <2>3. Nodes(new) = Nodes(Mine)
      BY <1>4 DEF SameGraph
    <2>4. \A i \in DOMAIN call.staged : call.staged[i] \in StagedIds
      BY DEF StagedIds
    <2>5. \A s \in Session : StagedIds \cap Retained(book[s]) = {}
      BY DEF HInv, HReq
    <2>6. \A i \in Nodes(Mine) : Mine.nodes[i].state # Null => Mine.nodes[i].state \in Retained(Mine)
      BY DEF Retained
    <2>7. StagedIds \cap Retained(Mine) = {} /\ Distinct(Mine)
      BY <1>3, <2>5 DEF HInv, HBooks, Mine
    <2>8. Distinct(new)
      <3> SUFFICES ASSUME NEW i \in Nodes(Mine), NEW j \in Nodes(Mine),
                          new.nodes[i].state # Null,
                          new.nodes[i].state = new.nodes[j].state
                   PROVE  i = j
        BY <2>3 DEF Distinct
      <3>1. CASE i \in DOMAIN call.staged /\ j \in DOMAIN call.staged
        BY <1>4, <3>1 DEF HInv, HReq
      <3>2. CASE i \in DOMAIN call.staged /\ j \notin DOMAIN call.staged
        BY <1>4, <2>4, <2>6, <2>7, <3>2
      <3>3. CASE i \notin DOMAIN call.staged /\ j \in DOMAIN call.staged
        BY <1>4, <2>4, <2>6, <2>7, <3>3
      <3>4. CASE i \notin DOMAIN call.staged /\ j \notin DOMAIN call.staged
        BY <1>4, <2>7, <3>4 DEF Distinct
      <3> QED
        BY <3>1, <3>2, <3>3, <3>4
    <2>9. Retained(new) \subseteq StagedIds \cup (Retained(Mine) \ replaced)
      <3> SUFFICES ASSUME NEW i \in Nodes(Mine), new.nodes[i].state # Null
                   PROVE  new.nodes[i].state \in StagedIds \cup (Retained(Mine) \ replaced)
        BY <2>3 DEF Retained
      <3>1. CASE i \in DOMAIN call.staged
        BY <1>4, <2>4, <3>1
      <3>2. CASE i \notin DOMAIN call.staged
        <4>1. new.nodes[i].state = Mine.nodes[i].state /\ Mine.nodes[i].state \in Retained(Mine)
          BY <1>4, <2>6, <3>2
        <4>2. Mine.nodes[i].state \notin replaced
          BY <1>1, <1>3, <1>10, <2>7, <3>2 DEF Distinct
        <4> QED
          BY <4>1, <4>2
      <3> QED
        BY <3>1, <3>2
    <2>10. \A s \in Session : s # call.s => Retained(book[s]) \cap Retained(Mine) = {}
      BY <1>3 DEF HInv, HBooks, Mine
    <2>11. HBooks'
      <3>1. \A s \in Session : Distinct(book'[s])
        BY <1>6, <2>1, <2>8 DEF HInv, HBooks
      <3>2. \A s \in Session : s # call.s => Retained(book'[s]) \cap Retained(new) = {}
        BY <1>6, <2>1, <2>5, <2>9, <2>10
      <3>3. ASSUME NEW s \in Session, NEW t \in Session, s # t
            PROVE  Retained(book'[s]) \cap Retained(book'[t]) = {}
        <4>1. CASE s = call.s
          BY <1>6, <2>1, <3>2, <3>3, <4>1
        <4>2. CASE t = call.s
          BY <1>6, <2>1, <3>2, <3>3, <4>2
        <4>3. CASE s # call.s /\ t # call.s
          BY <1>6, <2>1, <3>3, <4>3 DEF HInv, HBooks
        <4> QED
          BY <4>1, <4>2, <4>3
      <3> QED
        BY <3>1, <3>3 DEF HBooks
    <2>12. pet'.proc = pet.proc /\ DOMAIN pet'.table = DOMAIN pet.table \ replaced
      BY <2>1, ReleaseFacts DEF TInv
    <2>13. HPet'
      <3>1. pet.proc # "live" => DOMAIN pet'.table = {}
        BY <2>12 DEF HInv, HPet
      <3>2. ASSUME pet.proc = "live", NEW s \in Session
            PROVE  Retained(book'[s]) \subseteq DOMAIN pet'.table
        <4>1. StagedIds \cup Retained(book[s]) \cup Retained(Mine) \subseteq DOMAIN pet.table
          BY <1>3, <3>2 DEF HInv, HPet, HReq, Mine
        <4>2. CASE s = call.s
          BY <1>6, <1>9, <2>1, <2>7, <2>9, <2>12, <4>1, <4>2
        <4>3. CASE s # call.s
          BY <1>6, <1>9, <2>1, <2>10, <2>12, <4>1, <4>3
        <4> QED
          BY <4>2, <4>3
      <3>3. ASSUME pet.proc = "none", NEW s \in Session
            PROVE  Retained(book'[s]) = {}
        <4>1. StagedIds = {} /\ Retained(Mine) = {} /\ Retained(book[s]) = {}
          BY <1>1, <1>3, <3>3 DEF HInv, HPet, HReq, Mine
        <4> QED
          BY <1>6, <2>1, <2>9, <4>1
      <3> QED
        BY <2>12, <3>1, <3>2, <3>3 DEF HPet
    <2>14. HReq'
      <3>1. call.ret \in {"goals", "run", "rewind"} /\ call.temp = Null
        BY <1>1 DEF TInv, CallOK, ControlOK, DataOK, At
      <3>2. call'.temp = Null /\ call'.staged = NoNodes /\ call'.pc = call.ret
        BY <1>2, <1>13, <3>1, InstalledCall DEF TInv, CallOK
      <3> QED
        BY <3>1, <3>2, OwnsNothing
    <2> QED
      BY <1>1, <2>2, <2>11, <2>13, <2>14, AssembleH
  <1> QED
    BY <1>12, <1>13

\* The next alternative owns nothing.
LEMMA AlternativeH ==
    ASSUME TInv, call.pc \in {"run", "discard"}, NextAlternative
    PROVE  HReq'
  <1>1. CASE End
    BY <1>1, NoRequest
  <1>2. CASE call.left > 1 /\ ~End
    <2>1. call.left \in 0..MaxAttempts
      BY CallShape DEF TInv, CallOK, CallOver
    <2>2. call.left - 1 \in 0..MaxAttempts
      BY <1>2, <2>1, SessionsAssumption
    <2>3. call' = [call EXCEPT !.left = call.left - 1, !.pc = "run",
                               !.temp = Null, !.input = Null, !.fin = FALSE]
      BY <1>2 DEF NextAlternative
    <2>4. call'.pc = "run" /\ call'.temp = Null /\ call'.staged = call.staged
      BY <2>2, <2>3, AlternativeCall DEF TInv, CallOK
    <2>5. call.staged = NoNodes
      BY DEF TInv, CallOK, DataOK, At
    <2> QED
      BY <2>4, <2>5, OwnsNothing
  <1> QED
    BY <1>1, <1>2 DEF NextAlternative

\* engine.goals() and query_state().
LEMMA ReadGoalsH ==
    ASSUME TInv, HInv, GraphStep, ReadGoals PROVE HInv' /\ BookSteps
  <1>1. Local /\ At("goals") /\ ~At("idle") /\ ~Unnoticed
    BY DEF ReadGoals, At, Unnoticed
  <1>2. CASE End /\ UNCHANGED <<book, pet>>
    BY <1>1, <1>2, EndErrorH, AssembleH
  <1>3. CASE EndEpoch
    BY <1>1, <1>3, EndEpochH, AssembleH
  <1>4. CASE Goto("run") /\ UNCHANGED <<book, pet>>
    <2>1. /\ call'.pc = "run" /\ call'.temp = call.temp
          /\ call'.staged = call.staged /\ call'.s = call.s
      BY <1>4, GotoFacts DEF TInv, CallOK, Pcs
    <2> QED
      BY <1>1, <1>4, <2>1, KeptH, AssembleH
  <1> QED
    BY <1>2, <1>3, <1>4 DEF ReadGoals, EndError

\* An accepted fragment.
LEMMA RunAcceptedH ==
    ASSUME TInv, HInv, GraphStep, RunAccepted PROVE HInv' /\ BookSteps
  <1>1. /\ Local /\ At("run") /\ ~At("idle") /\ book' = book /\ HasRoom(pet)
        /\ Handle \in DOMAIN pet.table /\ Handle # Null /\ pet.proc = "live"
    BY DEF RunAccepted, RunReady, Running, At, LiveCallFails
  <1>2. PICK input \in Input, fin \in BOOLEAN :
          /\ call' = [call EXCEPT !.temp = FreeId(pet), !.input = input, !.fin = fin,
                                  !.pc = IF call.tool = "try" THEN "discard"
                                         ELSE IF fin THEN "close" ELSE "commit"]
          /\ pet' = Export(pet, After(pet.table[Handle], input))
    BY DEF RunAccepted
  <1>3. After(pet.table[Handle], input) \in Contents
    BY <1>1, PetShape, AfterFacts DEF TInv
  <1>4. IsPet(pet) /\ \A s \in Session : Retained(book[s]) \subseteq DOMAIN pet.table
    BY <1>1 DEF TInv, HInv, HPet
  <1>5. /\ BookSteps /\ HBooks' /\ HPet' /\ pet'.proc = "live"
        /\ DOMAIN pet'.table = DOMAIN pet.table \cup {FreeId(pet)}
        /\ \A s \in Session : FreeId(pet) \notin Retained(book[s])
    BY <1>1, <1>2, <1>3, <1>4, ExportedH
  <1> DEFINE pc == IF call.tool = "try" THEN "discard"
                   ELSE IF fin THEN "close" ELSE "commit"
  <1>6. /\ pc \in {"discard", "close", "commit"}
        /\ call' = [call EXCEPT !.temp = FreeId(pet), !.input = input, !.fin = fin, !.pc = pc]
    BY <1>2
  <1> HIDE DEF pc
  <1>7. /\ call'.pc = pc /\ call'.temp = FreeId(pet)
        /\ call'.staged = call.staged /\ call'.s = call.s
    BY <1>6, CallShape DEF TInv, CallOK, CallOver
  <1>8. call.staged = NoNodes /\ WorkId = Mine.current
    BY <1>1 DEF TInv, CallOK, DataOK, ControlOK, At, WorkId
  <1>9. Mine' = Mine /\ Mine.nodes[Mine.current].state # Null
    BY <1>1, <1>7, <1>8 DEF Mine, Handle
  <1>10. HReq'
    BY <1>1, <1>5, <1>6, <1>7, <1>8, <1>9, OwnsOneH
  <1> QED
    BY <1>1, <1>5, <1>10, AssembleH

\* The other outcomes of one alternative.
LEMMA RunOthersH ==
    ASSUME TInv, HInv, GraphStep, RunRejected \/ RunTimedOut \/ RunFailed
    PROVE  HInv' /\ BookSteps
  <1>1. Local /\ At("run") /\ ~At("idle") /\ ~Unnoticed /\ call.pc \in {"run", "discard"}
    BY DEF RunRejected, RunTimedOut, RunFailed, RunReady, Running, At, Unnoticed
  <1>2. CASE RunRejected
    <2>1. NextAlternative /\ book' = book /\ pet' = pet
      BY <1>2 DEF RunRejected
    <2>2. HBooks' /\ HPet'
      BY <1>1, <2>1 DEF HInv, HBooks, HPet
    <2> QED
      BY <1>1, <2>1, <2>2, AlternativeH, SameSteps, AssembleH
  <1>3. CASE RunTimedOut
    <2>1. NextAlternative /\ book' = Invalidated(book, call.s) /\ pet' = NoPet
      BY <1>3 DEF RunTimedOut
    <2>2. BookSteps /\ \A s \in Session : Retained(book'[s]) = {}
      BY <2>1, ForgottenH
    <2>3. HBooks' /\ HPet'
      BY <2>1, <2>2, Emptied, NoPetFacts
    <2> QED
      BY <1>1, <2>1, <2>2, <2>3, AlternativeH, AssembleH
  <1>4. CASE RunFailed
    <2>1. EndEpoch \/ (End /\ UNCHANGED <<book, pet>>)
      BY <1>4 DEF RunFailed, EndError
    <2> QED
      BY <1>1, <2>1, EndEpochH, EndErrorH, AssembleH
  <1> QED
    BY <1>2, <1>3, <1>4

\* A release of the state the request owns disturbs nobody.
LEMMA ReleaseTempH ==
    ASSUME TInv, HInv, book' = book, ~Unnoticed, pet' = Release(pet, {call.temp})
    PROVE  HBooks' /\ HPet'
  <1>1. pet'.proc = pet.proc /\ DOMAIN pet'.table = DOMAIN pet.table \ {call.temp}
    BY ReleaseFacts DEF TInv
  <1>2. \A s \in Session : call.temp \notin Retained(book[s])
    BY DEF HInv, HReq
  <1>3. HPet'
    BY <1>1, <1>2 DEF HInv, HPet
  <1> QED
    BY <1>3 DEF HInv, HBooks

\* try lets go of an accepted state.
LEMMA DiscardH ==
    ASSUME TInv, HInv, GraphStep, Discard PROVE HInv' /\ BookSteps
  <1>1. Local /\ At("discard") /\ ~At("idle") /\ ~Unnoticed /\ call.pc \in {"run", "discard"}
    BY DEF Discard, At, Unnoticed
  <1>2. CASE EndEpoch
    BY <1>1, <1>2, EndEpochH, AssembleH
  <1>3. CASE pet' = Release(pet, {call.temp}) /\ NextAlternative /\ UNCHANGED book
    BY <1>1, <1>3, ReleaseTempH, AlternativeH, SameSteps, AssembleH
  <1> QED
    BY <1>2, <1>3 DEF Discard

\* close_proof().
LEMMA CloseProofH ==
    ASSUME TInv, HInv, GraphStep, CloseProof PROVE HInv' /\ BookSteps
  <1>1. Local /\ At("close") /\ ~At("idle") /\ ~Unnoticed
    BY DEF CloseProof, At, Unnoticed
  <1>2. CASE EndEpoch
    BY <1>1, <1>2, EndEpochH, AssembleH
  <1>3. CASE ~EndEpoch
    <2>1. /\ book' = book
          /\ \E close \in {"ok", "lost", "refused"}, closed \in Seq(Input \cup {Null}) :
                /\ call' = [call EXCEPT !.pc = "commit", !.close = close, !.closed = closed]
                /\ pet' = pet \/ (pet' = NoPet /\ close = "lost")
      <3>1. <<>> \in Seq(Input \cup {Null})
        OBVIOUS
      <3>2. call.temp \in DOMAIN pet.table =>
               pet.table[call.temp].frags \in Seq(Input \cup {Null})
        BY PetShape DEF TInv, Contents
      <3> QED
        BY <1>3, <3>1, <3>2 DEF CloseProof
    <2>2. PICK close \in {"ok", "lost", "refused"}, closed \in Seq(Input \cup {Null}) :
             /\ call' = [call EXCEPT !.pc = "commit", !.close = close, !.closed = closed]
             /\ pet' = pet \/ (pet' = NoPet /\ close = "lost")
      BY <2>1
    <2>3. /\ call'.pc = "commit" /\ call'.s = call.s /\ call'.temp = call.temp
          /\ call'.staged = call.staged /\ call'.close = close
      BY <2>2, ClosedCall DEF TInv, CallOK
    <2>4. CASE pet' = pet
      BY <1>1, <2>1, <2>3, <2>4, KeptH, AssembleH DEF At
    <2>5. CASE pet' = NoPet /\ close = "lost"
      <3>1. Unnoticed'
        BY <2>3, <2>5 DEF Unnoticed, At
      <3>2. pet'.proc = "none" /\ DOMAIN pet'.table = {}
        BY <2>5, NoPetFacts
      <3>3. HBooks' /\ HPet'
        BY <2>1, <3>1, <3>2 DEF HInv, HBooks, HPet
      <3>4. call.staged = NoNodes
        BY <1>1 DEF TInv, CallOK, DataOK, At
      <3>5. StagedIds' = {} /\ DOMAIN call'.staged = {}
        BY <2>3, <3>4 DEF StagedIds, NoNodes
      <3>6. Mine' = Mine
        BY <2>1, <2>3 DEF Mine
      <3>7. HReq'
        BY <1>1, <2>1, <2>3, <3>1, <3>2, <3>5, <3>6 DEF HInv, HReq, At
      <3> QED
        BY <1>1, <2>1, <3>3, <3>7, SameSteps, AssembleH
    <2> QED
      BY <2>2, <2>4, <2>5
  <1> QED
    BY <1>2, <1>3

\* The caller takes over the state its request owns.
LEMMA CallerTakesH ==
    ASSUME TInv, HInv, call.s \in Session, NEW b, book' = [book EXCEPT ![call.s] = b],
           Distinct(b), Retained(b) \subseteq Retained(Mine) \cup {call.temp},
           pet' = pet, call.temp # Null, pet.proc = "none" => Unnoticed'
    PROVE  HBooks' /\ HPet'
  <1>1. /\ book'[call.s] = b
        /\ \A s \in Session : s # call.s => book'[s] = book[s]
    BY DEF TInv, BooksOK
  <1>2. \A s \in Session : call.temp \notin Retained(book[s])
    BY DEF HInv, HReq
  <1>3. \A s \in Session : s # call.s => Retained(book[s]) \cap Retained(Mine) = {}
    BY DEF HInv, HBooks, Mine
  <1>4. \A s \in Session : s # call.s => Retained(book'[s]) \cap Retained(b) = {}
    BY <1>1, <1>2, <1>3
  <1>5. ASSUME NEW s \in Session, NEW t \in Session, s # t
        PROVE  Retained(book'[s]) \cap Retained(book'[t]) = {}
    <2>1. CASE s = call.s
      BY <1>1, <1>4, <1>5, <2>1
    <2>2. CASE t = call.s
      BY <1>1, <1>4, <1>5, <2>2
    <2>3. CASE s # call.s /\ t # call.s
      BY <1>1, <1>5, <2>3 DEF HInv, HBooks
    <2> QED
      BY <2>1, <2>2, <2>3
  <1>6. HBooks'
    BY <1>1, <1>5 DEF HInv, HBooks
  <1>7. HPet'
    <2>1. pet.proc = "live" => call.temp \in DOMAIN pet.table /\ Retained(Mine) \subseteq DOMAIN pet.table
      BY DEF HInv, HPet, HReq, Mine
    <2> QED
      BY <1>1, <2>1 DEF HInv, HPet
  <1> QED
    BY <1>6, <1>7

\* commit_or_cancelled() and the new checkpoint.
LEMMA CommitCheckpointH ==
    ASSUME TInv, HInv, GraphStep, CommitCheckpoint PROVE HInv' /\ BookSteps
  <1> DEFINE c == Commit(Mine, call.temp, call.input, call.fin)
  <1>1. Local /\ At("commit") /\ ~At("idle")
    BY DEF CommitCheckpoint, At
  <1>2. CASE EndEpoch
    BY <1>1, <1>2, EndEpochH, AssembleH
  <1>3. CASE pet.proc = "live" /\ pet' = Release(pet, {call.temp}) /\ End /\ UNCHANGED book
    <2>1. pet'.proc = "live" /\ DOMAIN pet'.table = DOMAIN pet.table \ {call.temp}
      BY <1>3, ReleaseFacts DEF TInv
    <2>2. /\ \A s \in Session : call.temp \notin Retained(book[s])
          /\ \A s \in Session : Retained(book[s]) \subseteq DOMAIN pet.table
      BY <1>3 DEF HInv, HReq, HPet
    <2> QED
      BY <1>1, <1>3, <2>1, <2>2, EndSameH, AssembleH
  <1>4. CASE /\ CanAllocate(Mine)
             /\ book' = [book EXCEPT ![call.s] = c]
             /\ IF call.close \in {"ok", "lost"}
                THEN call' = [call EXCEPT
                        !.pc = IF call.close = "ok" THEN "publish" ELSE "lost",
                        !.req = "committed", !.temp = Null, !.input = Null]
                ELSE End
             /\ UNCHANGED pet
    <2>1. /\ call.s \in Session /\ IsBook(Mine) /\ Good(Mine) /\ Active(Mine)
          /\ call.staged = NoNodes /\ call.temp # Null
      BY <1>1 DEF TInv, CallOK, ControlOK, DataOK, ProofOK, ProofTools, BooksOK, Mine, At
    <2>2. call.temp \in PetId /\ call.input \in Input /\ call.fin \in BOOLEAN
      <3>1. call.temp \in PetId \cup {Null} /\ call.fin \in BOOLEAN
        BY CallShape DEF TInv, CallOK, CallOver
      <3> QED
        BY <1>1, <3>1 DEF TInv, CallOK, DataOK, At
    <2>3. /\ Distinct(Mine) /\ call.temp \notin Retained(Mine)
          /\ Mine.nodes[Mine.current].state # Null
      BY <1>1, <2>1 DEF HInv, HBooks, HReq, Mine, At
    <2>4. Distinct(c) /\ Retained(c) = Retained(Mine) \cup {call.temp}
      BY <1>4, <2>1, <2>2, <2>3, CommitFacts
    <2>5. \E state \in PetId \ Retained(Mine), input \in Input, finished \in BOOLEAN :
             c = Commit(Mine, state, input, finished)
      BY <2>2, <2>3, Zenon
    <2>6. BookStep(Mine, c)
      BY <1>4, <2>1, <2>3, <2>5 DEF BookStep
    <2> HIDE DEF c
    <2>7. BookSteps
      BY <1>4, <2>1, <2>6, CallerStep
    <2>8. pet.proc = "none" => call.close = "lost"
      BY <1>1, <2>1 DEF HInv, HReq, Unnoticed, At
    <2>9. CASE End
      <3>1. call.close # "lost" \/ Unnoticed'
        <4>1. CASE call.close = "lost"
          <5>1. call' = [call EXCEPT !.pc = "lost", !.req = "committed",
                                     !.temp = Null, !.input = Null]
            BY <1>4, <4>1
          <5>2. call'.pc = "lost"
            BY <5>1, CommittedCall DEF TInv, CallOK
          <5> QED
            BY <5>2 DEF Unnoticed, At
        <4> QED
          BY <4>1
      <3>2. HBooks' /\ HPet'
        BY <1>4, <2>1, <2>4, <2>8, <3>1, CallerTakesH
      <3> QED
        BY <1>1, <2>7, <2>9, <3>2, NoRequest, AssembleH
    <2>10. CASE ~End
      <3> DEFINE pc == IF call.close = "ok" THEN "publish" ELSE "lost"
      <3>1. /\ pc \in {"publish", "lost"}
            /\ call.close = "lost" => pc = "lost"
            /\ call' = [call EXCEPT !.pc = pc, !.req = "committed",
                                    !.temp = Null, !.input = Null]
        BY <1>4, <2>10
      <3> HIDE DEF pc
      <3>2. call'.pc = pc /\ call'.temp = Null /\ call'.staged = call.staged
        BY <3>1, CommittedCall DEF TInv, CallOK
      <3>3. call.close = "lost" => Unnoticed'
        BY <3>1, <3>2 DEF Unnoticed, At
      <3>4. HBooks' /\ HPet'
        BY <1>4, <2>1, <2>4, <2>8, <3>3, CallerTakesH
      <3>5. HReq'
        BY <2>1, <3>1, <3>2, OwnsNothing
      <3> QED
        BY <1>1, <2>7, <3>4, <3>5, AssembleH
    <2> QED
      BY <2>9, <2>10
  <1> QED
    BY <1>2, <1>3, <1>4 DEF CommitCheckpoint

\* A committed proof whose terminator was not answered.
LEMMA ReportLossH ==
    ASSUME TInv, HInv, GraphStep, ReportLoss PROVE HInv' /\ BookSteps
  <1>1. Local /\ ~At("idle") /\ EndEpoch
    BY DEF ReportLoss, At
  <1> QED
    BY <1>1, EndEpochH, AssembleH

\* The caller gives up its proof.
LEMMA CallerClearedH ==
    ASSUME TInv, HInv, ~At("idle"), book' = [book EXCEPT ![call.s] = Clear(Mine)]
    PROVE  /\ BookSteps /\ HBooks'
           /\ \A s \in Session : Retained(book'[s]) \subseteq Retained(book[s])
  <1>1. call.s \in Session /\ IsBook(Mine) /\ Good(Mine)
    BY DEF TInv, CallOK, ControlOK, BooksOK, Mine
  <1>2. Distinct(Clear(Mine)) /\ Retained(Clear(Mine)) = {}
    BY <1>1, ClearFacts
  <1>3. /\ book'[call.s] = Clear(Mine)
        /\ \A s \in Session : s # call.s => book'[s] = book[s]
    BY <1>1 DEF TInv, BooksOK
  <1>4. \A s \in Session : Retained(book'[s]) \subseteq Retained(book[s])
    BY <1>2, <1>3
  <1>5. HBooks'
    BY <1>2, <1>3, <1>4 DEF HInv, HBooks
  <1>6. BookStep(Mine, Clear(Mine))
    BY <1>1, InactiveIsClear DEF BookStep
  <1> QED
    BY <1>1, <1>4, <1>5, <1>6, CallerStep

\* begin_epoch().
LEMMA BeginEpochH ==
    ASSUME TInv, HInv, GraphStep, BeginEpoch PROVE HInv' /\ BookSteps
  <1>1. Local /\ At("publish") /\ ~At("idle") /\ ~Unnoticed /\ pet' = pet
    BY DEF BeginEpoch, At, Unnoticed
  <1>2. CASE book' = [book EXCEPT ![call.s] = Clear(Mine)] /\ End
    <2>1. /\ BookSteps /\ HBooks'
          /\ \A s \in Session : Retained(book'[s]) \subseteq Retained(book[s])
      BY <1>1, <1>2, CallerClearedH
    <2>2. HPet'
      BY <1>1, <2>1 DEF HInv, HPet
    <2> QED
      BY <1>1, <1>2, <2>1, <2>2, NoRequest, AssembleH
  <1>3. CASE book' = Invalidated(book, call.s) /\ Goto("write")
    <2>1. BookSteps /\ \A s \in Session : Retained(book'[s]) = {}
      BY <1>3, ForgottenH
    <2>2. HBooks' /\ HPet'
      BY <1>1, <2>1, Emptied DEF HInv, HPet
    <2>3. /\ call'.pc = "write" /\ call'.temp = call.temp /\ call'.staged = call.staged
      BY <1>3, GotoFacts DEF TInv, CallOK, Pcs
    <2>4. call.temp = Null /\ call.staged = NoNodes
      BY <1>1 DEF TInv, CallOK, DataOK, At
    <2>5. HReq'
      BY <2>1, <2>3, <2>4, OwnsNothing
    <2> QED
      BY <1>1, <2>1, <2>2, <2>5, AssembleH
  <1>4. CASE End /\ UNCHANGED book
    BY <1>1, <1>4, EndErrorH, AssembleH
  <1> QED
    BY <1>2, <1>3, <1>4 DEF BeginEpoch

\* The ways publication ends.
LEMMA PublishH ==
    ASSUME TInv, HInv, GraphStep, PublishSucceeds \/ PublishFails \/ RollbackFails
    PROVE  HInv' /\ BookSteps
  <1>1. /\ At("write") /\ ~At("idle") /\ End /\ attached' = attached /\ conn' = conn
    BY DEF PublishSucceeds, PublishFails, RollbackFails, At, links
  <1>2. HOpen'
    BY <1>1, OpenKept DEF HInv
  <1>3. book' = book \/ book' = [book EXCEPT ![call.s] = Clear(Mine)]
    BY DEF PublishSucceeds, PublishFails, RollbackFails
  <1>4. \A s \in Session : Retained(book[s]) = {}
    BY <1>1 DEF HInv, HReq, At
  <1>5. BookSteps /\ \A s \in Session : Retained(book'[s]) = {}
    <2>1. CASE book' = book
      BY <1>4, <2>1, SameSteps
    <2>2. CASE book' = [book EXCEPT ![call.s] = Clear(Mine)]
      BY <1>1, <1>4, <2>2, CallerClearedH
    <2> QED
      BY <1>3, <2>1, <2>2
  <1>6. pet' \in Refreshed \cup {pet}
    BY DEF PublishSucceeds, PublishFails, RollbackFails, Refreshed
  <1>7. pet'.proc # "live" => DOMAIN pet'.table = {}
    BY <1>6, RefreshedFacts DEF HInv, HPet
  <1> QED
    BY <1>1, <1>2, <1>5, <1>7, Emptied, NoRequest DEF HInv

\* list_decls().
LEMMA InspectH ==
    ASSUME TInv, HInv, GraphStep, Inspect PROVE HInv' /\ BookSteps
  <1>1. Local /\ At("inspect") /\ ~At("idle") /\ ~Unnoticed
    BY DEF Inspect, At, Unnoticed
  <1>2. CASE EndEpoch
    BY <1>1, <1>2, EndEpochH, AssembleH
  <1>3. CASE pet' = Spawned /\ End /\ UNCHANGED book
    BY <1>1, <1>3, EndSpawnedH, AssembleH
  <1> QED
    BY <1>2, <1>3 DEF Inspect

\* query_at().
LEMMA OpenContextH ==
    ASSUME TInv, HInv, GraphStep, OpenContext PROVE HInv' /\ BookSteps
  <1>1. Local /\ At("locate") /\ ~At("idle") /\ ~Unnoticed
    BY DEF OpenContext, At, Unnoticed
  <1>2. CASE EndEpoch
    BY <1>1, <1>2, EndEpochH, AssembleH
  <1>3. CASE pet' = Spawned /\ End /\ UNCHANGED book
    BY <1>1, <1>3, EndSpawnedH, AssembleH
  <1>4. CASE /\ ~WorkspaceCallFails /\ HasRoom(Spawned)
             /\ pet' = Export(Spawned, RootContent)
             /\ call' = [call EXCEPT !.pc = "answer", !.temp = FreeId(Spawned)]
             /\ UNCHANGED book
    <2>1. /\ IsPet(Spawned) /\ Spawned.proc = "live"
          /\ \A s \in Session : Retained(book[s]) \subseteq DOMAIN Spawned.table
      BY <1>1, <1>4, LiveSpawned
    <2>2. /\ BookSteps /\ HBooks' /\ HPet' /\ pet'.proc = "live"
          /\ DOMAIN pet'.table = DOMAIN Spawned.table \cup {FreeId(Spawned)}
          /\ FreeId(Spawned) \in PetId
          /\ \A s \in Session : FreeId(Spawned) \notin Retained(book[s])
      BY <1>4, <2>1, RootContentType, ExportedH
    <2>3. call'.pc = "answer" /\ call'.temp = FreeId(Spawned) /\ call'.staged = call.staged
      BY <1>4, <2>2, ContextCall DEF TInv, CallOK
    <2>4. call.staged = NoNodes
      BY <1>1 DEF TInv, CallOK, DataOK, At
    <2>5. HReq'
      BY <1>4, <2>2, <2>3, <2>4, OwnsOneH
    <2> QED
      BY <1>1, <2>2, <2>5, AssembleH
  <1> QED
    BY <1>2, <1>3, <1>4 DEF OpenContext

\* The query's context is released.
LEMMA AnswerQueryH ==
    ASSUME TInv, HInv, GraphStep, AnswerQuery PROVE HInv' /\ BookSteps
  <1>1. Local /\ At("answer") /\ ~At("idle") /\ ~Unnoticed
    BY DEF AnswerQuery, At, Unnoticed
  <1>2. CASE EndEpoch
    BY <1>1, <1>2, EndEpochH, AssembleH
  <1>3. CASE pet' = Release(pet, {call.temp}) /\ End /\ UNCHANGED book
    BY <1>1, <1>3, ReleaseTempH, NoRequest, SameSteps, AssembleH
  <1> QED
    BY <1>2, <1>3 DEF AnswerQuery

\* open_declaration() and declare().
LEMMA OpenDeclarationH ==
    ASSUME TInv, HInv, GraphStep, OpenDeclaration PROVE HInv' /\ BookSteps
  <1>1. /\ Local /\ At("open") /\ ~At("idle") /\ ~Unnoticed
        /\ call.staged = NoNodes /\ call.temp = Null
    BY DEF OpenDeclaration, At, Unnoticed, TInv, CallOK, DataOK
  <1>2. CASE EndEpoch
    BY <1>1, <1>2, EndEpochH, AssembleH
  <1>3. CASE pet' = Spawned /\ End /\ UNCHANGED book
    BY <1>1, <1>3, EndSpawnedH, AssembleH
  <1>4. CASE /\ ~WorkspaceCallFails /\ HasRoom(Spawned)
             /\ \E fin \in BOOLEAN :
                   call' = [call EXCEPT !.pc = "begin", !.temp = FreeId(Spawned),
                                        !.fin = fin, !.anchor = source]
             /\ pet' = Export(Spawned, RootContent)
             /\ UNCHANGED book
    <2>1. PICK fin \in BOOLEAN :
             call' = [call EXCEPT !.pc = "begin", !.temp = FreeId(Spawned),
                                  !.fin = fin, !.anchor = source]
      BY <1>4
    <2>2. /\ IsPet(Spawned) /\ Spawned.proc = "live"
          /\ \A s \in Session : Retained(book[s]) \subseteq DOMAIN Spawned.table
      BY <1>1, <1>4, LiveSpawned
    <2>3. /\ BookSteps /\ HBooks' /\ HPet' /\ pet'.proc = "live"
          /\ DOMAIN pet'.table = DOMAIN Spawned.table \cup {FreeId(Spawned)}
          /\ \A s \in Session : FreeId(Spawned) \notin Retained(book[s])
      BY <1>4, <2>2, RootContentType, ExportedH
    <2>4. call'.pc = "begin" /\ call'.temp = FreeId(Spawned) /\ call'.staged = call.staged
      BY <2>1, CallShape DEF TInv, CallOK, CallOver
    <2>5. HReq'
      BY <1>1, <1>4, <2>3, <2>4, OwnsOneH
    <2> QED
      BY <1>1, <2>3, <2>5, AssembleH
  <1>5. CASE /\ pet' = Spawned
             /\ call' = [call EXCEPT !.pc = "audit", !.anchor = source]
             /\ book' = Invalidated(book, call.s)
    <2>1. BookSteps /\ \A s \in Session : Retained(book'[s]) = {}
      BY <1>5, ForgottenH
    <2>2. pet'.proc # "live" => DOMAIN pet'.table = {}
      BY <1>5, SpawnedFacts DEF TInv, HInv, HPet
    <2>3. HBooks' /\ HPet'
      BY <2>1, <2>2, Emptied
    <2>4. call'.pc = "audit" /\ call'.temp = call.temp /\ call'.staged = call.staged
      BY <1>5, AuditCall DEF TInv, CallOK, WorldOK
    <2>5. HReq'
      BY <1>1, <2>1, <2>4, OwnsNothing
    <2> QED
      BY <1>1, <2>1, <2>3, <2>5, AssembleH
  <1> QED
    BY <1>2, <1>3, <1>4, <1>5 DEF OpenDeclaration

\* begin_proof().
LEMMA BeginProofH ==
    ASSUME TInv, HInv, GraphStep, BeginProof PROVE HInv' /\ BookSteps
  <1> DEFINE c == Begin(Mine, call.anchor, call.temp, call.fin)
  <1>1. Local /\ At("begin") /\ ~At("idle") /\ ~Unnoticed
    BY DEF BeginProof, At, Unnoticed
  <1>2. CASE EndEpoch
    BY <1>1, <1>2, EndEpochH, AssembleH
  <1>3. CASE pet' = Release(pet, {call.temp}) /\ End /\ UNCHANGED book
    BY <1>1, <1>3, ReleaseTempH, NoRequest, SameSteps, AssembleH
  <1>4. CASE /\ CanAllocate(Mine)
             /\ book' = [book EXCEPT ![call.s] = c]
             /\ End
             /\ UNCHANGED pet
    <2>1. /\ call.s \in Session /\ IsBook(Mine) /\ Good(Mine) /\ ~Active(Mine)
          /\ call.temp # Null
      BY <1>1 DEF TInv, CallOK, ControlOK, DataOK, ProofOK, BooksOK, Mine, At
    <2>2. call.temp \in PetId /\ call.anchor \in Target /\ call.fin \in BOOLEAN
      <3>1. call.temp \in PetId \cup {Null} /\ call.fin \in BOOLEAN
        BY CallShape DEF TInv, CallOK, CallOver
      <3> QED
        BY <1>1, <3>1 DEF TInv, CallOK, DataOK, At
    <2>3. Retained(c) = {call.temp} /\ Distinct(c)
      BY <1>4, <2>1, <2>2, BeginFacts
    <2>4. call.temp \notin Retained(Mine)
      BY <2>1 DEF HInv, HReq, Mine
    <2>5. \E target \in Target, state \in PetId \ Retained(Mine), finished \in BOOLEAN :
             c = Begin(Mine, target, state, finished)
      BY <2>2, <2>4, Zenon
    <2>6. BookStep(Mine, c)
      BY <1>4, <2>1, <2>5 DEF BookStep
    <2>7. pet.proc # "none"
      BY <1>1, <2>1 DEF HInv, HReq
    <2> HIDE DEF c
    <2>8. BookSteps
      BY <1>4, <2>1, <2>6, CallerStep
    <2>9. HBooks' /\ HPet'
      BY <1>4, <2>1, <2>3, <2>7, CallerTakesH
    <2> QED
      BY <1>1, <1>4, <2>8, <2>9, NoRequest, AssembleH
  <1> QED
    BY <1>2, <1>3, <1>4 DEF BeginProof

\* validate_published().
LEMMA AuditPublishedH ==
    ASSUME TInv, HInv, GraphStep, AuditPublished PROVE HInv' /\ BookSteps
  <1>1. Local /\ At("audit") /\ ~At("idle") /\ ~Unnoticed
    BY DEF AuditPublished, At, Unnoticed
  <1>2. CASE EndEpoch
    BY <1>1, <1>2, EndEpochH, AssembleH
  <1>3. CASE EndError
    BY <1>1, <1>3, EndErrorH, AssembleH DEF EndError
  <1>4. CASE pet' \in Refreshed /\ End /\ UNCHANGED book
    <2>1. \A s \in Session : Retained(book'[s]) = {}
      BY <1>1, <1>4 DEF HInv, HReq, At
    <2>2. DOMAIN pet'.table = {}
      BY <1>4, RefreshedFacts
    <2>3. HBooks' /\ HPet'
      BY <2>1, <2>2, Emptied
    <2> QED
      BY <1>1, <1>4, <2>3, NoRequest, SameSteps, AssembleH
  <1> QED
    BY <1>2, <1>3, <1>4 DEF AuditPublished

\* The selection of a checkpoint.
LEMMA RewindToH ==
    ASSUME TInv, HInv, GraphStep, RewindTo PROVE HInv' /\ BookSteps
  <1> DEFINE c == Select(Mine, call.goal)
  <1>1. Local /\ At("rewind") /\ ~At("idle") /\ ~Unnoticed
    BY DEF RewindTo, At, Unnoticed
  <1>2. CASE EndEpoch
    BY <1>1, <1>2, EndEpochH, AssembleH
  <1>3. CASE book' = [book EXCEPT ![call.s] = c] /\ End /\ UNCHANGED pet
    <2>1. /\ call.s \in Session /\ IsBook(Mine) /\ Good(Mine)
          /\ Active(Mine) /\ call.goal \in Nodes(Mine)
      BY <1>1 DEF TInv, CallOK, ControlOK, ProofOK, ProofTools, BooksOK, Mine, At
    <2>2. Distinct(Mine)
      BY <2>1 DEF HInv, HBooks, Mine
    <2>3. Retained(c) = Retained(Mine) /\ Distinct(c)
      BY <2>1, <2>2, SelectFacts
    <2>4. BookStep(Mine, c)
      BY <2>1 DEF BookStep
    <2> HIDE DEF c
    <2>5. BookSteps
      BY <1>3, <2>1, <2>4, CallerStep
    <2>6. /\ DOMAIN book' = Session
          /\ \A s \in Session : /\ Retained(book'[s]) = Retained(book[s])
                                /\ Distinct(book'[s])
      BY <1>3, <2>1, <2>3 DEF TInv, BooksOK, HInv, HBooks, Mine
    <2>7. HBooks'
      BY <2>6 DEF HInv, HBooks
    <2>8. HPet'
      BY <1>1, <1>3, <2>6 DEF HInv, HPet
    <2> QED
      BY <1>1, <1>3, <2>5, <2>7, <2>8, NoRequest, AssembleH
  <1> QED
    BY <1>2, <1>3 DEF RewindTo

\* One proof is given up; the handles of the others may be forgotten too.
LEMMA ClearedH ==
    ASSUME TInv, HInv, NEW s \in Session,
           LET cleared == [book EXCEPT ![s] = Clear(book[s])]
           IN  book' \in {cleared, Invalidated(cleared, s)}
    PROVE  /\ BookSteps /\ HBooks'
           /\ ~Active(book'[s]) /\ Retained(book'[s]) = {}
           /\ \A t \in Session : /\ Active(book'[t]) => Active(book[t])
                                 /\ Retained(book'[t]) \subseteq Retained(book[t])
           /\ book' = Invalidated([book EXCEPT ![s] = Clear(book[s])], s) =>
                 \A t \in Session : Retained(book'[t]) = {}
  <1> DEFINE cleared == [book EXCEPT ![s] = Clear(book[s])]
  <1>1. /\ IsBook(Clear(book[s])) /\ Good(Clear(book[s])) /\ Distinct(Clear(book[s]))
        /\ Nodes(Clear(book[s])) = {} /\ ~Active(Clear(book[s]))
        /\ Retained(Clear(book[s])) = {}
    BY ClearFacts DEF TInv, BooksOK
  <1>2. InvalidateStates(Clear(book[s])) = Clear(book[s])
    BY <1>1, InvalidateEmpty
  <1>3. BookStep(book[s], Clear(book[s]))
    BY InactiveIsClear DEF BookStep, TInv, BooksOK
  <1>4. /\ DOMAIN cleared = Session /\ cleared[s] = Clear(book[s])
        /\ \A t \in Session : t # s => cleared[t] = book[t]
    BY DEF TInv, BooksOK
  <1>5. book' \in {cleared, Invalidated(cleared, s)}
    OBVIOUS
  <1> HIDE DEF cleared
  <1>6. \A t \in Session : /\ IsBook(cleared[t]) /\ Good(cleared[t]) /\ Distinct(cleared[t])
                           /\ Active(cleared[t]) => Active(book[t])
                           /\ Retained(cleared[t]) \subseteq Retained(book[t])
    BY <1>1, <1>4 DEF TInv, BooksOK, HInv, HBooks
  <1>7. \A t \in Session : Retained(Invalidated(cleared, s)[t]) = {}
    BY <1>6, AllForgotten DEF HInv
  <1>8. \A t \in Session : /\ book'[t] \in {cleared[t], InvalidateStates(cleared[t])}
                           /\ book'[t].current = cleared[t].current
                           /\ Distinct(book'[t])
                           /\ Retained(book'[t]) \subseteq Retained(cleared[t])
    <2>1. CASE book' = cleared
      BY <1>6, <2>1
    <2>2. CASE book' = Invalidated(cleared, s)
      BY <1>6, <2>2, InvalidatedFacts DEF SameGraph
    <2> QED
      BY <1>5, <2>1, <2>2
  <1>9. BookSteps
    BY <1>2, <1>3, <1>4, <1>8 DEF BookSteps, BookStep
  <1>10. \A t \in Session : Retained(book'[t]) \subseteq Retained(book[t])
    BY <1>6, <1>8
  <1>11. HBooks'
    BY <1>8, <1>10 DEF HInv, HBooks
  <1>12. \A t \in Session : Active(book'[t]) => Active(book[t])
    BY <1>6, <1>8 DEF Active
  <1>13. ~Active(book'[s]) /\ Retained(book'[s]) = {}
    BY <1>1, <1>4, <1>8 DEF Active
  <1> QED
    BY <1>7, <1>9, <1>10, <1>11, <1>12, <1>13 DEF cleared

\* retire_proof() disturbs no other owner.
LEMMA RetireH ==
    ASSUME TInv, HInv, ~Unnoticed, NEW s \in Session, Retire(s)
    PROVE  /\ BookSteps /\ HBooks' /\ HPet'
           /\ ~Active(book'[s])
           /\ \A t \in Session : Active(book'[t]) => Active(book[t])
  <1> DEFINE cleared == [book EXCEPT ![s] = Clear(book[s])]
  <1>1. \/ book' = cleared /\ pet' = Release(pet, Retained(book[s]))
        \/ book' = Invalidated(cleared, s) /\ pet' = NoPet
    BY DEF Retire
  <1>2. book' \in {cleared, Invalidated(cleared, s)}
    BY <1>1
  <1>3. /\ BookSteps /\ HBooks'
        /\ ~Active(book'[s]) /\ Retained(book'[s]) = {}
        /\ \A t \in Session : /\ Active(book'[t]) => Active(book[t])
                              /\ Retained(book'[t]) \subseteq Retained(book[t])
        /\ book' = Invalidated(cleared, s) => \A t \in Session : Retained(book'[t]) = {}
    BY <1>2, ClearedH
  <1> HIDE DEF cleared
  <1>4. HPet'
    <2>1. CASE book' = cleared /\ pet' = Release(pet, Retained(book[s]))
      <3>1. pet'.proc = pet.proc /\ DOMAIN pet'.table = DOMAIN pet.table \ Retained(book[s])
        BY <2>1, ReleaseFacts DEF TInv
      <3>2. \A t \in Session : Retained(book'[t]) \cap Retained(book[s]) = {}
        <4>1. ASSUME NEW t \in Session, t # s
              PROVE  Retained(book[t]) \cap Retained(book[s]) = {}
          BY <4>1 DEF HInv, HBooks
        <4> QED
          BY <1>3, <4>1
      <3> QED
        BY <1>3, <3>1, <3>2 DEF HInv, HPet
    <2>2. CASE book' = Invalidated(cleared, s) /\ pet' = NoPet
      BY <1>3, <2>2, Emptied, NoPetFacts
    <2> QED
      BY <1>1, <2>1, <2>2
  <1> QED
    BY <1>3, <1>4

\* abandon.
LEMMA AbandonH ==
    ASSUME TInv, HInv, GraphStep, Abandon PROVE HInv' /\ BookSteps
  <1>1. Local /\ At("retire") /\ ~At("idle") /\ ~Unnoticed
    BY DEF Abandon, At, Unnoticed
  <1>2. CASE EndEpoch
    BY <1>1, <1>2, EndEpochH, AssembleH
  <1>3. CASE Retire(call.s) /\ End
    <2>1. call.s \in Session
      BY <1>1 DEF TInv, CallOK, ControlOK
    <2>2. BookSteps /\ HBooks' /\ HPet'
      BY <1>1, <1>3, <2>1, RetireH
    <2> QED
      BY <1>1, <1>3, <2>2, NoRequest, AssembleH
  <1>4. CASE EndError
    BY <1>1, <1>4, EndErrorH, AssembleH DEF EndError
  <1> QED
    BY <1>2, <1>3, <1>4 DEF Abandon

\* Between calls nothing is owned by a request.
LEMMA IdleH ==
    ASSUME TInv, At("idle")
    PROVE  ~Unnoticed /\ (call' = call => HReq')
  <1>1. ~Unnoticed
    BY DEF At, Unnoticed
  <1>2. call = NoCall
    BY IdleFacts
  <1> QED
    BY <1>1, <1>2, NoRequest DEF End

\* A reading of the Dune layout.
LEMMA RefreshLayoutH ==
    ASSUME TInv, HInv, At("idle"), NEW s, RefreshLayout(s), HReq'
    PROVE  /\ BookSteps /\ HBooks' /\ HPet'
           /\ \A t \in Session : Active(book'[t]) => Active(book[t])
  <1>1. \A t \in Session : Active(book'[t]) => Active(book[t])
    BY RefreshLayoutT DEF SameGraph, Active
  <1>2. CASE pet' = NoPet /\ book' = Invalidated(book, s)
    BY <1>1, <1>2, ForgottenH, Emptied, NoPetFacts
  <1>3. CASE UNCHANGED <<pet, book>>
    <2>1. HBooks' /\ HPet'
      BY <1>3, IdleH DEF HInv, HBooks, HPet
    <2> QED
      BY <1>1, <1>3, <2>1, SameSteps
  <1> QED
    BY <1>2, <1>3 DEF RefreshLayout

\* start and a switch of project.
LEMMA LinkStepsH ==
    ASSUME TInv, HInv, NEW s \in Session, Reattach(s) \/ SwitchAway(s) \/ Attach(s)
    PROVE  HInv' /\ BookSteps
  <1>1. At("idle") /\ call' = call /\ conn' = conn /\ attached \in [Session -> BOOLEAN]
    BY DEF Reattach, SwitchAway, Attach, links, TInv, LinksOK
  <1>2. ~Unnoticed /\ HReq'
    BY <1>1, IdleH
  <1>3. CASE Reattach(s)
    <2>1. attached' = attached
      BY <1>3 DEF Reattach, links
    <2>2. /\ BookSteps /\ HBooks' /\ HPet'
          /\ \A t \in Session : Active(book'[t]) => Active(book[t])
      <3>1. CASE /\ pet' = NoPet
                 /\ book' = Invalidated([book EXCEPT ![s] = Clear(book[s])], s)
        BY <3>1, ClearedH, Emptied, NoPetFacts
      <3>2. CASE Retire(s)
        BY <1>2, <3>2, RetireH
      <3> QED
        BY <1>3, <3>1, <3>2 DEF Reattach
    <2> QED
      BY <1>1, <1>2, <2>1, <2>2 DEF HInv, HOpen
  <1>4. CASE SwitchAway(s)
    <2>1. /\ BookSteps /\ HBooks' /\ HPet' /\ ~Active(book'[s])
          /\ \A t \in Session : Active(book'[t]) => Active(book[t])
      BY <1>2, <1>4, RetireH DEF SwitchAway
    <2>2. \A t \in Session : t # s => attached'[t] = attached[t]
      BY <1>1, <1>4 DEF SwitchAway
    <2> QED
      BY <1>1, <1>2, <2>1, <2>2 DEF HInv, HOpen
  <1>5. CASE Attach(s)
    <2>1. /\ BookSteps /\ HBooks' /\ HPet'
          /\ \A t \in Session : Active(book'[t]) => Active(book[t])
      BY <1>1, <1>2, <1>5, RefreshLayoutH DEF Attach
    <2>2. attached'[s] /\ \A t \in Session : t # s => attached'[t] = attached[t]
      BY <1>1, <1>5 DEF Attach
    <2> QED
      BY <1>1, <1>2, <2>1, <2>2 DEF HInv, HOpen
  <1> QED
    BY <1>3, <1>4, <1>5

\* Admission under the barrier.
LEMMA AdmitH ==
    ASSUME TInv, TInv', HInv, NEW s \in Session, Admit(s) PROVE HInv' /\ BookSteps
  <1>1. /\ At("idle") /\ RefreshLayout(s) /\ attached' = attached /\ conn' = conn
    BY DEF Admit, links
  <1>2. PICK tool \in Tool :
          \E goal \in IF tool = "rewind" THEN Nodes(book[s]) ELSE {0},
                left \in IF tool \in {"check", "try"} THEN 1..MaxAttempts ELSE {0} :
                call' = [NoCall EXCEPT !.s = s, !.tool = tool, !.goal = goal,
                                       !.left = left, !.pc = FirstPc(tool)]
    BY DEF Admit
  <1>3. FirstPc(tool) \in {"validate", "retire", "reconcile"}
    BY FirstPcFacts DEF Tool
  <1>4. call'.pc = FirstPc(tool) /\ call'.staged = NoNodes /\ call'.temp = Null
    BY <1>2 DEF NoCall
  <1>5. HReq'
    BY <1>3, <1>4, OwnsNothing
  <1>6. /\ BookSteps /\ HBooks' /\ HPet'
        /\ \A t \in Session : Active(book'[t]) => Active(book[t])
    BY <1>1, <1>5, RefreshLayoutH
  <1> QED
    BY <1>1, <1>5, <1>6 DEF HInv, HOpen

\* What happens around the call.
LEMMA EnvironmentH ==
    ASSUME TInv, HInv, Environment PROVE HInv' /\ BookSteps
  <1>1. book' = book /\ attached' = attached /\ conn' = conn
    BY DEF Environment, Cancel, PetDies, EditSource, EditUpstream, ChangeLayout, links
  <1>2. HOpen'
    BY <1>1 DEF HInv, HOpen
  <1>3. CASE Cancel
    <2>1. pet' = pet /\ call' = [call EXCEPT !.req = "cancelled"]
      BY <1>3 DEF Cancel
    <2>2. /\ call'.pc = call.pc /\ call'.s = call.s /\ call'.close = call.close
          /\ call'.temp = call.temp /\ call'.staged = call.staged
      BY <2>1, CancelFacts DEF TInv, CallOK
    <2>3. Unnoticed' = Unnoticed
      BY <2>2 DEF Unnoticed, At
    <2> QED
      BY <1>1, <1>2, <2>1, <2>2, <2>3, KeptH DEF HInv
  <1>4. CASE PetDies
    <2>1. pet.proc = "live" /\ pet' = [NoPet EXCEPT !.proc = "dead"] /\ call' = call
      BY <1>4 DEF PetDies
    <2>2. pet'.proc = "dead" /\ DOMAIN pet'.table = {}
      BY <2>1, EmptyPet
    <2>3. HBooks'
      BY <1>1 DEF HInv, HBooks
    <2>4. HPet'
      BY <2>2 DEF HPet
    <2>5. StagedIds' = StagedIds /\ Mine' = Mine
      BY <1>1, <2>1 DEF StagedIds, Mine
    <2>6. HReq'
      BY <1>1, <2>1, <2>2, <2>5 DEF HInv, HReq
    <2> QED
      BY <1>1, <1>2, <2>3, <2>4, <2>6, SameSteps DEF HInv
  <1>5. CASE EditSource \/ EditUpstream \/ ChangeLayout
    <2>1. pet' = pet /\ call' = call
      BY <1>5 DEF EditSource, EditUpstream, ChangeLayout
    <2>2. Unnoticed' = Unnoticed
      BY <2>1 DEF Unnoticed, At
    <2> QED
      BY <1>1, <1>2, <2>1, <2>2, KeptH DEF HInv
  <1> QED
    BY <1>3, <1>4, <1>5 DEF Environment

\* HInv is inductive, and every step is a step of every book.
LEMMA NextH ==
    ASSUME Mild, TInv, TInv', GraphStep, HInv, [Next]_vars
    PROVE  HInv' /\ BookSteps
  <1>1. CASE UNCHANGED vars
    <2>1. /\ book' = book /\ call' = call /\ attached' = attached /\ conn' = conn
          /\ pet' = pet
      BY <1>1 DEF vars
    <2>2. HOpen'
      BY <2>1 DEF HInv, HOpen
    <2>3. Unnoticed' = Unnoticed
      BY <2>1 DEF Unnoticed, At
    <2> QED
      BY <2>1, <2>2, <2>3, KeptH DEF HInv
  <1>2. CASE CallStep
    <2>1. CASE ValidateTarget \/ Reconcile \/ ReplayBegin \/ ReplayRoot \/ ReplayStep \/ ReplayInstall
      BY <2>1, ValidateTargetH, ReconcileH, ReplayBeginH, ReplayRootH, ReplayStepH, ReplayInstallH
    <2>2. CASE ReadGoals \/ RunAccepted \/ RunRejected \/ RunTimedOut \/ RunFailed
      BY <2>2, ReadGoalsH, RunAcceptedH, RunOthersH
    <2>3. CASE Discard \/ CloseProof \/ CommitCheckpoint \/ ReportLoss
      BY <2>3, DiscardH, CloseProofH, CommitCheckpointH, ReportLossH
    <2>4. CASE BeginEpoch \/ PublishSucceeds \/ PublishFails \/ RollbackFails
      BY <2>4, BeginEpochH, PublishH
    <2>5. CASE Inspect \/ OpenContext \/ AnswerQuery \/ OpenDeclaration
               \/ BeginProof \/ AuditPublished
      BY <2>5, InspectH, OpenContextH, AnswerQueryH, OpenDeclarationH, BeginProofH, AuditPublishedH
    <2>6. CASE RewindTo \/ Abandon
      BY <2>6, RewindToH, AbandonH
    <2>7. ~RunGoalsFault /\ ~EnrichFault
      BY DEF Mild, RunGoalsFault, EnrichFault
    <2> QED
      BY <1>2, <2>1, <2>2, <2>3, <2>4, <2>5, <2>6, <2>7 DEF CallStep
  <1>3. CASE Environment
    BY <1>3, EnvironmentH
  <1>4. ASSUME NEW s \in Session,
               \/ Admit(s) \/ Reattach(s) \/ SwitchAway(s) \/ Attach(s)
               \/ Disconnect(s) \/ DropSession(s)
        PROVE  HInv' /\ BookSteps
    <2>1. ~Disconnect(s) /\ ~DropSession(s)
      BY DEF Mild, Disconnect, DropSession, HInv, HOpen
    <2> QED
      BY <1>4, <2>1, AdmitH, LinkStepsH
  <1> QED
    BY <1>1, <1>2, <1>3, <1>4 DEF Next

\* The server starts without handles.
LEMMA InitH == Init => HInv
  <1> SUFFICES ASSUME Init PROVE HInv
    OBVIOUS
  <1>1. DOMAIN NoNodes = {}
    BY DEF NoNodes
  <1>2. Nodes(EmptyBook) = {} /\ ~Active(EmptyBook)
    BY <1>1 DEF EmptyBook, Nodes, Active
  <1>3. Retained(EmptyBook) = {} /\ Distinct(EmptyBook)
    BY <1>2 DEF Retained, Distinct
  <1>4. \A s \in Session : book[s] = EmptyBook
    BY DEF Init
  <1>5. HOpen /\ HBooks
    BY <1>2, <1>3, <1>4 DEF Init, HOpen, HBooks
  <1>6. HPet
    BY <1>3, <1>4, NoPetFacts DEF Init, HPet
  <1>7. call.temp = Null /\ call.pc = "idle" /\ DOMAIN call.staged = {} /\ StagedIds = {}
    BY <1>1, NoCallFacts DEF Init, StagedIds
  <1>8. HReq
    BY <1>3, <1>4, <1>7 DEF HReq
  <1> QED
    BY <1>5, <1>6, <1>8 DEF HInv

\* Every PET state a book or the request keeps has one owner, and is a state of
\* the process that is running, with editors writing at any time and with
\* publications that cannot be rolled back.
THEOREM OwnershipInvariant ==
    ASSUME Mild
    PROVE  Spec => [](TInv /\ HInv)
  <1>1. TInv /\ HInv /\ [Next]_vars => TInv' /\ HInv'
    BY NextT, NextH
  <1> QED
    BY InitT, InitH, <1>1, PTL DEF Spec

\* The states of one session are out of reach of another's release.
Separate ==
    \A s, t \in Session :
        s # t /\ Member(s) /\ Member(t) => Retained(book[s]) \cap Retained(book[t]) = {}

\* No two sessions own the same PET state (release_states() of one never takes a
\* state of another).
THEOREM SessionsSeparate ==
    ASSUME Mild
    PROVE  Spec => []Separate
  <1>1. HInv => Separate
    BY DEF HInv, HBooks, Separate
  <1> QED
    BY <1>1, OwnershipInvariant, PTL

\* A step of a book, on values, is a step of its state machine.
LEMMA StepIsBookNext ==
    ASSUME TInv, BookSteps, NEW s \in Session
    PROVE  Book(s)!Next \/ UNCHANGED book[s]
  <1>1. BookStep(book[s], book'[s])
    BY DEF BookSteps
  <1>2. CASE book'[s] = book[s]
    BY <1>2
  <1>3. CASE book'[s] = InvalidateStates(book[s])
    BY <1>3 DEF Book!Next, Book!Invalidate, Book!InvalidateStates, Book!Nodes, InvalidateStates, Nodes
  <1>4. CASE Active(book[s]) /\ book'[s] = Clear(book[s])
    BY <1>4 DEF Book!Next, Book!ClearProof, Book!Clear, Book!Active, Book!EmptyBook, Book!NoNodes,
                Clear, Active, EmptyBook, NoNodes
  <1>5. CASE Active(book[s]) /\ \E id \in Nodes(book[s]) : book'[s] = Select(book[s], id)
    BY <1>5 DEF Book!Next, Book!SelectCheckpoint, Book!Active, Book!Nodes, Book!Select,
                Active, Nodes, Select
  <1>6. CASE /\ ~Active(book[s]) /\ CanAllocate(book[s])
             /\ \E target \in Target, state \in PetId \ Retained(book[s]), finished \in BOOLEAN :
                   book'[s] = Begin(book[s], target, state, finished)
    BY <1>6 DEF Book!Next, Book!BeginProof, Book!Active, Book!CanAllocate, Book!Fresh,
                Book!Retained, Book!Nodes, Book!Begin, Active, CanAllocate, Retained, Nodes, Begin
  <1>7. CASE /\ Active(book[s]) /\ CanAllocate(book[s])
             /\ book[s].nodes[book[s].current].state # Null
             /\ \E state \in PetId \ Retained(book[s]), input \in Input, finished \in BOOLEAN :
                   book'[s] = Commit(book[s], state, input, finished)
    BY <1>7 DEF Book!Next, Book!CommitStep, Book!Active, Book!CanAllocate, Book!Fresh,
                Book!Retained, Book!Nodes, Book!Commit, Active, CanAllocate, Retained, Nodes, Commit
  <1>8. CASE /\ Active(book[s])
             /\ \E id \in Nodes(book[s]) :
                \E staged \in [MissingSuffix(book[s], id) -> PetId \ Retained(book[s])] :
                   /\ \A i, j \in MissingSuffix(book[s], id) : staged[i] = staged[j] => i = j
                   /\ book'[s] = InstallStates(book[s], staged)
    BY <1>8 DEF Book!Next, Book!ReplayPath, Book!Active, Book!Fresh, Book!MissingSuffix,
                Book!Lineage, Book!Retained, Book!Nodes, Book!InstallStates,
                Active, MissingSuffix, Lineage, Retained, Nodes, InstallStates
  <1> QED
    BY <1>1, <1>2, <1>3, <1>4, <1>5, <1>6, <1>7, <1>8 DEF BookStep

\* The book of a new session.
LEMMA InitIsBookInit == Init => \A s \in Session : Book(s)!Init
  BY DEF Init, Book!Init, Book!EmptyBook, Book!NoNodes, EmptyBook, NoNodes

\* What one session sees of the server is the state machine of its own book: a
\* checkpoint gets fresh handles only, below a live parent or along a whole
\* missing suffix, and the calls of others at most forget its handles.
THEOREM SessionsAreBooks ==
    ASSUME Mild
    PROVE  Spec => EverySessionIsABook
  <1>1. TInv /\ HInv /\ [Next]_vars =>
            [\A s \in Session : Book(s)!Next \/ UNCHANGED book[s]]_vars
    <2> SUFFICES ASSUME TInv, HInv, [Next]_vars, NEW s \in Session
                 PROVE  Book(s)!Next \/ UNCHANGED book[s]
      OBVIOUS
    <2>1. BookSteps
      BY NextT, NextH
    <2> QED
      BY <2>1, StepIsBookNext
  <1>2. Init => \A s \in Session : Book(s)!Init
    BY InitIsBookInit
  <1> QED
    BY <1>1, <1>2, OwnershipInvariant, PTL DEF Spec, EverySessionIsABook

\* A step that starts a process, taken while the loss of the last one is known
\* to nobody but the request in flight.
LEMMA NoSilentRestart ==
    ASSUME TInv, HInv, [Next]_vars, Mild, Unnoticed, pet.proc = "none"
    PROVE  pet'.proc # "live"
  <1>1. call.pc \in {"lost", "commit"}
    BY DEF Unnoticed, At
  <1>2. CASE UNCHANGED vars
    BY <1>2 DEF vars
  <1>3. CASE CallStep
    <2>1. CommitCheckpoint \/ ReportLoss
      <3>1. ~RunGoalsFault
        BY DEF Mild, RunGoalsFault
      <3> QED
        BY <1>1, <1>3, <3>1 DEF CallStep, ValidateTarget, Reconcile, ReplayBegin, ReplayRoot,
             ReplayStep, ReplayInstall, Replaying, ReadGoals, RunAccepted, RunRejected,
             RunTimedOut, RunFailed, RunReady, Running, Discard, CloseProof, BeginEpoch,
             PublishSucceeds, PublishFails, RollbackFails, Inspect, OpenContext, AnswerQuery,
             OpenDeclaration, EnrichFault, BeginProof, AuditPublished, RewindTo, Abandon, At
    <2>2. pet' = NoPet \/ pet' = pet \/ pet' = Release(pet, {call.temp})
      BY <2>1 DEF CommitCheckpoint, ReportLoss, EndEpoch
    <2> QED
      BY <2>2, NoPetFacts, ReleaseFacts DEF TInv
  <1>4. CASE Environment
    <2>1. pet' = pet
      BY <1>4 DEF Environment, Cancel, PetDies, EditSource, EditUpstream, ChangeLayout
    <2> QED
      BY <2>1
  <1>5. ASSUME NEW s \in Session,
               \/ Admit(s) \/ Reattach(s) \/ SwitchAway(s) \/ Attach(s)
               \/ Disconnect(s) \/ DropSession(s)
        PROVE  FALSE
    BY <1>1, <1>5 DEF Admit, Reattach, SwitchAway, Attach, Disconnect, DropSession, At,
                      Mild, HInv, HOpen
  <1> QED
    BY <1>2, <1>3, <1>4, <1>5 DEF Next

\* When a replacement process accepts its first request, no connection keeps a
\* handle of the old one.
THEOREM ReplacementsStartClean ==
    ASSUME Mild
    PROVE  Spec => ReplacementStartsClean
  <1>1. TInv /\ HInv /\ [Next]_vars =>
            [pet.proc = "none" /\ pet'.proc = "live" =>
                \A s \in Session : Member(s) => Retained(book[s]) = {}]_vars
    <2> SUFFICES ASSUME TInv, HInv, [Next]_vars, pet.proc = "none", pet'.proc = "live",
                        NEW s \in Session
                 PROVE  Retained(book[s]) = {}
      OBVIOUS
    <2>1. ~Unnoticed
      BY NoSilentRestart
    <2> QED
      BY <2>1 DEF HInv, HPet
  <1> QED
    BY <1>1, OwnershipInvariant, PTL DEF Spec, ReplacementStartsClean

-----------------------------------------------------------------------------
(* Nothing leaks.  When editors leave the file alone while a call runs and  *)
(* a failed publication can be rolled back, PET holds no state that neither *)
(* a checkpoint nor the request in flight owns.                             *)

Calm == Faults = {}

Owned(h) ==
    \/ \E s \in Session : h \in Retained(book[s])
    \/ h \in StagedIds
    \/ h = call.temp

\* From begin_epoch() to the refresh that follows, PET keeps what the books have
\* already forgotten.
OPet ==
    pet.proc = "live" /\ call.pc \notin {"write", "audit"} =>
        \A h \in DOMAIN pet.table : Owned(h)

\* The target stays what validate_target() saw.
OTarget == call.tool = "check" /\ ~At("validate") => TargetValid

OAudit == At("audit") => source = call.anchor

\* replay_checkpoint() walks down the path.
OStaged ==
    At("replay") => \A i \in DOMAIN call.staged, j \in call.todo \ DOMAIN call.staged : i < j

OInv == OPet /\ OTarget /\ OAudit /\ OStaged

\* An answer leaves nothing to check but PET.
LEMMA EndO == ASSUME End PROVE OTarget' /\ OAudit' /\ OStaged'
  <1>1. call' = NoCall
    BY DEF End
  <1> QED
    BY <1>1, NoCallFacts DEF OTarget, OAudit, OStaged, At

\* An empty table.
LEMMA EmptyO == ASSUME DOMAIN pet'.table = {} PROVE OPet'
  BY DEF OPet

\* The end of an epoch.
LEMMA EndEpochO == ASSUME EndEpoch PROVE OInv'
  <1>1. End /\ DOMAIN pet'.table = {}
    BY NoPetFacts DEF EndEpoch
  <1> QED
    BY <1>1, EndO, EmptyO DEF OInv

\* The request lets go of states that are released.
LEMMA ReleasedO ==
    ASSUME TInv, OInv, book' = book, NEW ids, pet' = Release(pet, ids),
           call.pc \notin {"write", "audit"}, StagedIds \subseteq ids,
           call.temp = Null \/ call.temp \in ids
    PROVE  OPet'
  <1>1. pet'.proc = pet.proc /\ DOMAIN pet'.table = DOMAIN pet.table \ ids
    BY ReleaseFacts DEF TInv
  <1>2. DOMAIN pet.table \subseteq PetId
    BY PetShape DEF TInv
  <1>3. Null \notin PetId
    BY NullAssumption
  <1>4. ASSUME pet'.proc = "live", NEW h \in DOMAIN pet'.table PROVE Owned(h)'
    <2>1. Owned(h) /\ h # Null /\ h \notin ids
      BY <1>1, <1>2, <1>3, <1>4 DEF OInv, OPet
    <2> QED
      BY <2>1 DEF Owned
  <1> QED
    BY <1>4 DEF OPet

\* A request that owns nothing, before and after.
LEMMA NothingOwnedO ==
    ASSUME TInv, OInv, book' = book, pet' = pet,
           call.pc \notin {"write", "audit"}, StagedIds = {}, call.temp = Null
    PROVE  OPet'
  <1>1. DOMAIN pet.table \subseteq PetId
    BY PetShape DEF TInv
  <1>2. Null \notin PetId
    BY NullAssumption
  <1>3. ASSUME pet'.proc = "live", NEW h \in DOMAIN pet'.table PROVE Owned(h)'
    <2>1. Owned(h) /\ h # Null
      BY <1>1, <1>2, <1>3 DEF OInv, OPet
    <2> QED
      BY <2>1 DEF Owned
  <1> QED
    BY <1>3 DEF OPet

\* An answer after a missing child was started.
LEMMA SpawnedO ==
    ASSUME TInv, OInv, End, book' = book, pet' = Spawned,
           call.pc \notin {"write", "audit"}, StagedIds = {}, call.temp = Null
    PROVE  OInv'
  <1>1. CASE pet.proc = "none"
    BY <1>1, SpawnedFacts, EmptyO, EndO DEF TInv, OInv
  <1>2. CASE pet.proc # "none"
    <2>1. pet' = pet
      BY <1>2, SpawnedFacts DEF TInv
    <2> QED
      BY <2>1, NothingOwnedO, EndO DEF OInv
  <1> QED
    BY <1>1, <1>2

\* The request keeps what it owns.
LEMMA KeptO ==
    ASSUME OInv, book' = book, pet' = pet, call'.temp = call.temp,
           call'.staged = call.staged, call.pc \notin {"write", "audit"}
    PROVE  OPet'
  <1>1. StagedIds' = StagedIds
    BY DEF StagedIds
  <1> QED
    BY <1>1 DEF OInv, OPet, Owned

\* The request goes on with the same target.
LEMMA TargetO ==
    ASSUME TInv, OInv, ~At("validate"), source' = source,
           call'.s = call.s, call'.tool = call.tool,
           book'[call.s].target = book[call.s].target
    PROVE  OTarget'
  BY DEF OInv, OTarget, TargetValid, Mine

\* A step of the request to a place where only its target and what it owns count.
LEMMA GoesOnO ==
    ASSUME TInv, OInv, Local, ~At("validate"), call'.s = call.s, call'.tool = call.tool,
           call'.pc \notin {"audit", "replay"}, book'[call.s].target = book[call.s].target
    PROVE  OTarget' /\ OAudit' /\ OStaged'
  <1>1. source' = source
    BY DEF Local, world
  <1>2. OTarget'
    BY <1>1, TargetO
  <1> QED
    BY <1>2 DEF OAudit, OStaged, At

\* Before the root there is nothing to replay.
LEMMA RootFirst ==
    ASSUME TInv, OInv, Replaying, ReplaysRoot
    PROVE  DOMAIN call.staged = {} /\ StagedIds = {}
  <1>1. /\ NextMissing \in call.todo \ DOMAIN call.staged
        /\ NextMissing \in Nodes(Mine) /\ NextMissing \in Id
    BY NextMissingFacts
  <1>2. /\ DOMAIN call.staged \subseteq Nodes(Mine) /\ Good(Mine) /\ IsBook(Mine)
    BY StagedTypes DEF Replaying
  <1>3. \A i \in DOMAIN call.staged : NextMissing <= i
    BY <1>1, <1>2 DEF Good, ReplaysRoot
  <1>4. \A i \in DOMAIN call.staged : i < NextMissing
    BY <1>1 DEF OInv, OStaged, Replaying
  <1>5. DOMAIN call.staged \subseteq Id
    BY <1>2, BookFields
  <1>6. DOMAIN call.staged = {}
    BY <1>1, <1>3, <1>4, <1>5 DEF Id
  <1> QED
    BY <1>6 DEF StagedIds

\* One more staged state.
LEMMA StageO ==
    ASSUME TInv, OInv, Replaying, Local, book' = book, NEW p, NEW content \in Contents,
           IsPet(p), HasRoom(p), DOMAIN p.table = {} \/ (p = pet /\ pet.proc = "live"),
           pet' = Export(p, content), Stage(p)
    PROVE  OInv'
  <1>1. /\ FreeId(p) \in PetId
        /\ DOMAIN pet'.table = DOMAIN p.table \cup {FreeId(p)}
    BY FreeIdFacts, ExportFacts
  <1>2. /\ NextMissing \in Id /\ NextMissing \in call.todo \ DOMAIN call.staged
        /\ \A j \in call.todo \ DOMAIN call.staged : NextMissing <= j
    BY NextMissingFacts
  <1>3. call' = [call EXCEPT !.staged =
                    [i \in DOMAIN call.staged \cup {NextMissing} |->
                        IF i = NextMissing THEN FreeId(p) ELSE call.staged[i]]]
    BY DEF Stage
  <1>4. /\ DOMAIN call'.staged = DOMAIN call.staged \cup {NextMissing}
        /\ \A i \in DOMAIN call'.staged :
              call'.staged[i] = IF i = NextMissing THEN FreeId(p) ELSE call.staged[i]
        /\ call'.s = call.s /\ call'.tool = call.tool /\ call'.pc = call.pc
        /\ call'.temp = call.temp /\ call'.todo = call.todo
    BY <1>1, <1>2, <1>3, StageCall DEF TInv, CallOK
  <1>5. StagedIds' = StagedIds \cup {FreeId(p)}
    BY <1>2, <1>4 DEF StagedIds
  <1>6. call.pc = "replay" /\ ~At("validate")
    BY DEF Replaying, At
  <1>7. OPet'
    <2>1. ASSUME NEW h \in DOMAIN pet'.table PROVE Owned(h)'
      <3>1. CASE h = FreeId(p)
        BY <1>5, <3>1 DEF Owned
      <3>2. CASE h # FreeId(p)
        <4>1. h \in DOMAIN pet.table /\ pet.proc = "live"
          BY <1>1, <3>2
        <4>2. Owned(h)
          BY <1>6, <4>1 DEF OInv, OPet
        <4> QED
          BY <1>4, <1>5, <4>2 DEF Owned
      <3> QED
        BY <3>1, <3>2
    <2> QED
      BY <2>1 DEF OPet
  <1>8. source' = source
    BY DEF Local, world
  <1>9. OTarget'
    BY <1>4, <1>6, <1>8, TargetO
  <1>10. call.todo \subseteq Id
    BY CallShape DEF TInv, CallOK, CallOver
  <1>11. OStaged'
    <2> SUFFICES ASSUME NEW i \in DOMAIN call'.staged, NEW j \in call'.todo \ DOMAIN call'.staged
                 PROVE  i < j
      BY DEF OStaged
    <2>1. CASE i = NextMissing
      BY <1>2, <1>4, <1>10, <2>1 DEF Id
    <2>2. CASE i # NextMissing
      BY <1>4, <1>6, <2>2 DEF OInv, OStaged, At
    <2> QED
      BY <2>1, <2>2
  <1>12. OAudit'
    BY <1>4, <1>6 DEF OAudit, At
  <1> QED
    BY <1>7, <1>9, <1>11, <1>12 DEF OInv

\* The way to the first PET request.
LEMMA EarlyO ==
    ASSUME TInv, OInv, ValidateTarget \/ Reconcile \/ ReplayBegin
    PROVE  OInv'
  <1>1. call.pc \in {"validate", "reconcile", "goals", "run", "rewind"} /\ source' = source
    BY DEF ValidateTarget, Reconcile, ReplayBegin, At, Local, world
  <1>2. call.temp = Null /\ call.staged = NoNodes /\ StagedIds = {}
    BY <1>1 DEF TInv, CallOK, DataOK, At, StagedIds, NoNodes
  <1>3. CASE EndEpoch
    BY <1>3, EndEpochO
  <1>4. CASE ValidateTarget
    <2>1. book' = book /\ pet' = pet
      BY <1>4 DEF ValidateTarget
    <2>2. OPet'
      BY <1>1, <1>2, <2>1, NothingOwnedO
    <2>3. CASE End
      BY <2>2, <2>3, EndO DEF OInv
    <2>4. CASE TargetValid /\ Goto("reconcile")
      <3>1. call'.pc = "reconcile" /\ call'.s = call.s
        BY <2>4, GotoFacts DEF TInv, CallOK, Pcs
      <3> QED
        BY <1>1, <2>1, <2>2, <2>4, <3>1 DEF OInv, OTarget, OAudit, OStaged, At, TargetValid, Mine
    <2> QED
      BY <1>4, <2>3, <2>4 DEF ValidateTarget
  <1>5. CASE Reconcile /\ ~EndEpoch /\ ~EndError
    <2>1. /\ At("reconcile") /\ Goto(AfterReconcile)
          /\ (pet' = NoPet /\ book' = Invalidated(book, call.s)) \/ UNCHANGED <<pet, book>>
      BY <1>5 DEF Reconcile
    <2>2. call.tool \in Tool \ {"abandon"} /\ call.s \in Session
      BY <2>1 DEF TInv, CallOK, ControlOK, At
    <2>3. AfterReconcile \in {"open", "locate", "inspect", "rewind", "goals"}
      BY <2>2, AfterReconcileFacts DEF Tool, OpenTools, GoalTools
    <2>4. AfterReconcile \in Pcs
      BY <2>3 DEF Pcs
    <2>5. call'.pc = AfterReconcile /\ call'.s = call.s /\ call'.tool = call.tool
      BY <2>1, <2>4, GotoFacts DEF TInv, CallOK
    <2>6. OPet'
      BY <1>1, <1>2, <2>1, NothingOwnedO, EmptyO, NoPetFacts
    <2>7. book'[call.s].target = book[call.s].target
      BY <2>1, <2>2, InvalidatedBooks DEF TInv, SameGraph
    <2>8. OTarget'
      BY <1>1, <2>1, <2>5, <2>7, TargetO DEF At
    <2> QED
      BY <2>3, <2>5, <2>6, <2>8 DEF OInv, OAudit, OStaged, At
  <1>6. CASE ReplayBegin
    <2>1. /\ book' = book /\ pet' = pet /\ call.pc \in {"goals", "run", "rewind"}
          /\ call' = [call EXCEPT !.pc = "replay", !.ret = call.pc,
                                  !.todo = MissingSuffix(Mine, WorkId)]
      BY <1>6 DEF ReplayBegin
    <2>2. MissingSuffix(Mine, WorkId) \in SUBSET Id
      BY <2>1, WorkIdFacts
    <2>3. /\ call'.pc = "replay" /\ call'.s = call.s /\ call'.tool = call.tool
          /\ call'.staged = call.staged
      BY <2>1, <2>2, ReplayBeginCall DEF TInv, CallOK
    <2>4. OPet'
      BY <1>1, <1>2, <2>1, NothingOwnedO
    <2>5. OTarget'
      BY <1>1, <2>1, <2>3, TargetO DEF At
    <2>6. DOMAIN call'.staged = {}
      BY <1>2, <2>3 DEF NoNodes
    <2> QED
      BY <2>3, <2>4, <2>5, <2>6 DEF OInv, OAudit, OStaged, At
  <1>7. CASE EndError
    BY <1>1, <1>2, <1>7, NothingOwnedO, EndO DEF EndError, OInv
  <1> QED
    BY <1>3, <1>4, <1>5, <1>6, <1>7

\* replay_root().
LEMMA ReplayRootO == ASSUME TInv, OInv, ReplayRoot PROVE OInv'
  <1>1. /\ Local /\ Replaying /\ ReplaysRoot /\ call.pc = "replay"
    BY DEF ReplayRoot, Replaying, At
  <1>2. call.temp = Null /\ StagedIds = {}
    BY <1>1, RootFirst DEF TInv, CallOK, DataOK, At
  <1>3. CASE EndError
    BY <1>1, <1>2, <1>3, NothingOwnedO, EndO DEF EndError, OInv
  <1>4. CASE EndEpoch
    BY <1>4, EndEpochO
  <1>5. CASE /\ ~WorkspaceCallFails /\ HasRoom(Spawned)
             /\ pet' = Export(Spawned, RootContent) /\ Stage(Spawned) /\ UNCHANGED book
    <2>1. /\ IsPet(Spawned)
          /\ DOMAIN Spawned.table = {} \/ (Spawned = pet /\ pet.proc = "live")
      <3>1. pet.proc \in {"none", "live"}
        BY <1>5, PetShape DEF TInv, WorkspaceCallFails
      <3> QED
        BY <3>1, SpawnedFacts DEF TInv
    <2> QED
      BY <1>1, <1>5, <2>1, RootContentType, StageO
  <1>6. CASE pet' = Spawned /\ End /\ UNCHANGED book
    BY <1>1, <1>2, <1>6, SpawnedO
  <1> QED
    BY <1>3, <1>4, <1>5, <1>6 DEF ReplayRoot

\* One fragment again.
LEMMA ReplayStepO == ASSUME TInv, OInv, ReplayStep PROVE OInv'
  <1>1. /\ Local /\ Replaying /\ call.pc = "replay" /\ call.temp = Null
    BY DEF ReplayStep, Replaying, At, TInv, CallOK, DataOK
  <1>2. CASE StagedIds = {} /\ EndError
    BY <1>1, <1>2, NothingOwnedO, EndO DEF EndError, OInv
  <1>3. CASE EndEpoch
    BY <1>3, EndEpochO
  <1>4. CASE /\ ~LiveCallFails /\ HasRoom(pet) /\ ReplayBase \in DOMAIN pet.table
             /\ pet' = Export(pet, After(pet.table[ReplayBase],
                                         Mine.nodes[NextMissing].input))
             /\ Stage(pet) /\ UNCHANGED book
    <2>1. pet.table[ReplayBase] \in Contents
      BY <1>4, PetShape DEF TInv
    <2>2. After(pet.table[ReplayBase], Mine.nodes[NextMissing].input) \in Contents
      BY <1>1, <2>1, AfterFacts, NextMissingFacts
    <2>3. IsPet(pet) /\ pet.proc = "live"
      BY <1>4 DEF TInv, LiveCallFails
    <2> QED
      BY <1>1, <1>4, <2>2, <2>3, StageO
  <1>5. CASE pet' = Release(pet, StagedIds) /\ End /\ UNCHANGED book
    BY <1>1, <1>5, ReleasedO, EndO DEF OInv
  <1> QED
    BY <1>2, <1>3, <1>4, <1>5 DEF ReplayStep

\* The caller's book, and the states it keeps or takes over.
LEMMA CallerO ==
    ASSUME TInv, OInv, call.s \in Session, NEW b, book' = [book EXCEPT ![call.s] = b],
           NEW ids, DOMAIN pet'.table \subseteq DOMAIN pet.table \ ids,
           pet'.proc = pet.proc, call.pc \notin {"write", "audit"},
           Retained(Mine) \cup StagedIds \cup ({call.temp} \ {Null}) \subseteq ids \cup Retained(b)
    PROVE  OPet'
  <1>1. /\ book'[call.s] = b
        /\ \A s \in Session : s # call.s => book'[s] = book[s]
    BY DEF TInv, BooksOK
  <1>2. DOMAIN pet.table \subseteq PetId
    BY PetShape DEF TInv
  <1>3. Null \notin PetId
    BY NullAssumption
  <1>4. ASSUME pet'.proc = "live", NEW h \in DOMAIN pet'.table PROVE Owned(h)'
    <2>1. Owned(h) /\ h # Null /\ h \notin ids
      BY <1>2, <1>3, <1>4 DEF OInv, OPet
    <2>2. CASE \E s \in Session : s # call.s /\ h \in Retained(book[s])
      BY <1>1, <2>2 DEF Owned
    <2>3. CASE h \in Retained(Mine) \cup StagedIds \cup {call.temp}
      <3>1. h \in Retained(book'[call.s])
        BY <1>1, <2>1, <2>3
      <3> QED
        BY <3>1 DEF Owned
    <2> QED
      BY <2>1, <2>2, <2>3 DEF Owned, Mine
  <1> QED
    BY <1>4 DEF OPet

\* The last loop of replay_checkpoint().
LEMMA ReplayInstallO == ASSUME TInv, OInv, ReplayInstall PROVE OInv'
  <1> DEFINE replaced == {Mine.nodes[i].state : i \in call.todo} \ {Null}
             new == InstallStates(Mine, call.staged)
             installed == [book EXCEPT ![call.s] = new]
             lost == replaced # {} /\ LiveCallFails
  <1>1. /\ Local /\ At("replay") /\ ~At("validate") /\ call.pc = "replay"
        /\ call.todo = DOMAIN call.staged
    BY DEF ReplayInstall, At
  <1>2. /\ book' = IF lost THEN Invalidated(installed, call.s) ELSE installed
        /\ pet' = IF lost THEN NoPet ELSE Release(pet, replaced)
        /\ call' = IF lost THEN NoCall
                   ELSE [call EXCEPT !.pc = call.ret, !.ret = "none",
                                     !.todo = {}, !.staged = NoNodes]
    BY DEF ReplayInstall
  <1>3. /\ \A i \in DOMAIN call.staged : call.staged[i] \in PetId
        /\ DOMAIN call.staged \subseteq Nodes(Mine)
        /\ call.s \in Session /\ IsBook(Mine) /\ Good(Mine)
    BY <1>1, StagedTypes
  <1>4. /\ SameGraph(Mine, new)
        /\ \A i \in Nodes(Mine) :
              new.nodes[i].state = IF i \in DOMAIN call.staged THEN call.staged[i]
                                   ELSE Mine.nodes[i].state
    BY <1>3, InstallFacts
  <1>5. \A i \in call.todo : Mine.nodes[i].state # Null => Mine.nodes[i].state \in replaced
    OBVIOUS
  <1> HIDE DEF replaced, new
  <1>6. CASE lost
    <2>1. End /\ DOMAIN pet'.table = {}
      BY <1>2, <1>6, NoPetFacts DEF End
    <2> QED
      BY <2>1, EndO, EmptyO DEF OInv
  <1>7. CASE ~lost
    <2>1. book' = installed /\ pet' = Release(pet, replaced)
      BY <1>2, <1>7
    <2>2. Nodes(new) = Nodes(Mine) /\ new.target = Mine.target
      BY <1>4 DEF SameGraph
    <2>3. StagedIds \subseteq Retained(new)
      <3> SUFFICES ASSUME NEW i \in DOMAIN call.staged PROVE call.staged[i] \in Retained(new)
        BY DEF StagedIds
      <3>1. new.nodes[i].state = call.staged[i] /\ call.staged[i] # Null
        BY <1>3, <1>4, NullAssumption
      <3> QED
        BY <1>3, <2>2, <3>1 DEF Retained
    <2>4. Retained(Mine) \subseteq replaced \cup Retained(new)
      <3> SUFFICES ASSUME NEW i \in Nodes(Mine), Mine.nodes[i].state # Null
                   PROVE  Mine.nodes[i].state \in replaced \cup Retained(new)
        BY DEF Retained
      <3>1. CASE i \in DOMAIN call.staged
        BY <1>1, <1>5, <3>1
      <3>2. CASE i \notin DOMAIN call.staged
        BY <1>4, <2>2, <3>2 DEF Retained
      <3> QED
        BY <3>1, <3>2
    <2>5. call.temp = Null /\ call.ret \in {"goals", "run", "rewind"}
      BY <1>1 DEF TInv, CallOK, ControlOK, DataOK, At
    <2>6. pet'.proc = pet.proc /\ DOMAIN pet'.table = DOMAIN pet.table \ replaced
      BY <2>1, ReleaseFacts DEF TInv
    <2>7. OPet'
      BY <1>1, <1>3, <2>1, <2>3, <2>4, <2>5, <2>6, CallerO
    <2>8. call'.s = call.s /\ call'.tool = call.tool /\ call'.pc = call.ret
      BY <1>2, <1>7, <2>5, InstalledCall DEF TInv, CallOK
    <2>9. book'[call.s].target = book[call.s].target
      BY <1>3, <2>1, <2>2 DEF TInv, BooksOK, Mine
    <2>10. OTarget' /\ OAudit' /\ OStaged'
      BY <1>1, <2>5, <2>8, <2>9, GoesOnO
    <2> QED
      BY <2>7, <2>10 DEF OInv
  <1> QED
    BY <1>6, <1>7

\* The next alternative keeps the target.
LEMMA AlternativeO ==
    ASSUME TInv, OInv, Local, call.pc \in {"run", "discard"}, NextAlternative,
           \A s \in Session : book'[s].target = book[s].target
    PROVE  OTarget' /\ OAudit' /\ OStaged'
  <1>1. CASE End
    BY <1>1, EndO
  <1>2. CASE call.left > 1 /\ ~End
    <2>1. call.left \in 0..MaxAttempts /\ call.s \in Session /\ ~At("validate")
      BY CallShape DEF TInv, CallOK, CallOver, ControlOK, At
    <2>2. call.left - 1 \in 0..MaxAttempts
      BY <1>2, <2>1, SessionsAssumption
    <2>3. call' = [call EXCEPT !.left = call.left - 1, !.pc = "run",
                               !.temp = Null, !.input = Null, !.fin = FALSE]
      BY <1>2 DEF NextAlternative
    <2>4. call'.pc = "run" /\ call'.s = call.s /\ call'.tool = call.tool
      BY <2>2, <2>3, AlternativeCall DEF TInv, CallOK
    <2> QED
      BY <2>1, <2>4, GoesOnO
  <1> QED
    BY <1>1, <1>2 DEF NextAlternative

\* engine.goals(), query_state() and the outcomes of one alternative.
LEMMA RunO ==
    ASSUME TInv, OInv, ReadGoals \/ RunRejected \/ RunTimedOut \/ RunFailed
    PROVE  OInv'
  <1>1. Local /\ call.pc \in {"goals", "run"} /\ ~At("validate")
    BY DEF ReadGoals, RunRejected, RunTimedOut, RunFailed, RunReady, Running, At
  <1>2. call.temp = Null /\ StagedIds = {} /\ call.s \in Session
    BY <1>1 DEF TInv, CallOK, ControlOK, DataOK, At, StagedIds, NoNodes
  <1>3. CASE EndEpoch
    BY <1>3, EndEpochO
  <1>4. CASE End /\ UNCHANGED <<book, pet>>
    BY <1>1, <1>2, <1>4, NothingOwnedO, EndO DEF OInv
  <1>5. CASE ReadGoals /\ Goto("run") /\ UNCHANGED <<book, pet>>
    <2>1. call'.pc = "run" /\ call'.s = call.s /\ call'.tool = call.tool
      BY <1>5, GotoFacts DEF TInv, CallOK, Pcs
    <2> QED
      BY <1>1, <1>2, <1>5, <2>1, NothingOwnedO, GoesOnO DEF OInv
  <1>6. CASE RunRejected
    <2>1. NextAlternative /\ book' = book /\ pet' = pet /\ call.pc = "run"
      BY <1>6 DEF RunRejected, RunReady, Running, At
    <2> QED
      BY <1>1, <1>2, <2>1, NothingOwnedO, AlternativeO DEF OInv
  <1>7. CASE RunTimedOut
    <2>1. /\ NextAlternative /\ book' = Invalidated(book, call.s) /\ pet' = NoPet
          /\ call.pc = "run"
      BY <1>7 DEF RunTimedOut, RunReady, Running, At
    <2>2. \A s \in Session : book'[s].target = book[s].target
      BY <2>1, InvalidatedBooks DEF TInv, SameGraph
    <2> QED
      BY <1>1, <2>1, <2>2, EmptyO, NoPetFacts, AlternativeO DEF OInv
  <1> QED
    BY <1>3, <1>4, <1>5, <1>6, <1>7 DEF ReadGoals, RunFailed, EndError

\* An export that the request owns.
LEMMA ExportedO ==
    ASSUME TInv, OInv, book' = book, NEW p, NEW content \in Contents,
           IsPet(p), HasRoom(p), DOMAIN p.table = {} \/ (p = pet /\ pet.proc = "live"),
           pet' = Export(p, content), call'.temp = FreeId(p),
           call.temp = Null, StagedIds = {}, call.pc \notin {"write", "audit"}
    PROVE  OPet'
  <1>1. DOMAIN pet'.table = DOMAIN p.table \cup {FreeId(p)}
    BY ExportFacts
  <1>2. DOMAIN pet.table \subseteq PetId
    BY PetShape DEF TInv
  <1>3. Null \notin PetId
    BY NullAssumption
  <1>4. ASSUME NEW h \in DOMAIN pet'.table PROVE Owned(h)'
    <2>1. CASE h = FreeId(p)
      BY <2>1 DEF Owned
    <2>2. CASE h # FreeId(p)
      <3>1. h \in DOMAIN pet.table /\ pet.proc = "live" /\ h # Null
        BY <1>1, <1>2, <1>3, <2>2
      <3>2. Owned(h)
        BY <3>1 DEF OInv, OPet
      <3> QED
        BY <3>1, <3>2 DEF Owned
    <2> QED
      BY <2>1, <2>2
  <1> QED
    BY <1>4 DEF OPet

\* An accepted fragment.
LEMMA RunAcceptedO == ASSUME TInv, OInv, RunAccepted PROVE OInv'
  <1>1. /\ Local /\ At("run") /\ ~At("validate") /\ book' = book /\ HasRoom(pet)
        /\ Handle \in DOMAIN pet.table /\ pet.proc = "live" /\ call.pc = "run"
    BY DEF RunAccepted, RunReady, Running, At, LiveCallFails
  <1>2. PICK input \in Input, fin \in BOOLEAN :
          /\ call' = [call EXCEPT !.temp = FreeId(pet), !.input = input, !.fin = fin,
                                  !.pc = IF call.tool = "try" THEN "discard"
                                         ELSE IF fin THEN "close" ELSE "commit"]
          /\ pet' = Export(pet, After(pet.table[Handle], input))
    BY DEF RunAccepted
  <1>3. After(pet.table[Handle], input) \in Contents
    BY <1>1, PetShape, AfterFacts DEF TInv
  <1> DEFINE pc == IF call.tool = "try" THEN "discard"
                   ELSE IF fin THEN "close" ELSE "commit"
  <1>4. /\ pc \in {"discard", "close", "commit"}
        /\ call' = [call EXCEPT !.temp = FreeId(pet), !.input = input, !.fin = fin, !.pc = pc]
    BY <1>2
  <1> HIDE DEF pc
  <1>5. call'.pc = pc /\ call'.temp = FreeId(pet) /\ call'.s = call.s /\ call'.tool = call.tool
    BY <1>4, CallShape DEF TInv, CallOK, CallOver
  <1>6. call.temp = Null /\ StagedIds = {}
    BY <1>1 DEF TInv, CallOK, DataOK, At, StagedIds, NoNodes
  <1>7. OPet'
    BY <1>1, <1>2, <1>3, <1>5, <1>6, ExportedO DEF TInv
  <1> QED
    BY <1>1, <1>4, <1>5, <1>7, GoesOnO DEF OInv

\* try lets go of an accepted state.
LEMMA DiscardO == ASSUME TInv, OInv, Discard PROVE OInv'
  <1>1. Local /\ call.pc = "discard" /\ StagedIds = {}
    BY DEF Discard, At, TInv, CallOK, DataOK, StagedIds, NoNodes
  <1>2. CASE EndEpoch
    BY <1>2, EndEpochO
  <1>3. CASE pet' = Release(pet, {call.temp}) /\ NextAlternative /\ UNCHANGED book
    BY <1>1, <1>3, ReleasedO, AlternativeO DEF OInv
  <1> QED
    BY <1>2, <1>3 DEF Discard

\* close_proof().
LEMMA CloseProofO == ASSUME TInv, OInv, CloseProof PROVE OInv'
  <1>1. Local /\ At("close") /\ ~At("validate") /\ call.pc = "close"
    BY DEF CloseProof, At
  <1>2. CASE EndEpoch
    BY <1>2, EndEpochO
  <1>3. CASE ~EndEpoch
    <2>1. /\ book' = book
          /\ \E close \in {"ok", "lost", "refused"}, closed \in Seq(Input \cup {Null}) :
                /\ call' = [call EXCEPT !.pc = "commit", !.close = close, !.closed = closed]
                /\ pet' = pet \/ pet' = NoPet
      <3>1. <<>> \in Seq(Input \cup {Null})
        OBVIOUS
      <3>2. call.temp \in DOMAIN pet.table =>
               pet.table[call.temp].frags \in Seq(Input \cup {Null})
        BY PetShape DEF TInv, Contents
      <3> QED
        BY <1>3, <3>1, <3>2 DEF CloseProof
    <2>2. PICK close \in {"ok", "lost", "refused"}, closed \in Seq(Input \cup {Null}) :
             /\ call' = [call EXCEPT !.pc = "commit", !.close = close, !.closed = closed]
             /\ pet' = pet \/ pet' = NoPet
      BY <2>1
    <2>3. /\ call'.pc = "commit" /\ call'.s = call.s /\ call'.tool = call.tool
          /\ call'.temp = call.temp /\ call'.staged = call.staged
      BY <2>2, ClosedCall DEF TInv, CallOK
    <2>4. OPet'
      BY <1>1, <2>1, <2>2, <2>3, KeptO, EmptyO, NoPetFacts
    <2> QED
      BY <1>1, <2>1, <2>3, <2>4, GoesOnO DEF OInv
  <1> QED
    BY <1>2, <1>3

\* commit_or_cancelled() and the new checkpoint.
LEMMA CommitCheckpointO == ASSUME TInv, OInv, CommitCheckpoint PROVE OInv'
  <1> DEFINE c == Commit(Mine, call.temp, call.input, call.fin)
  <1>1. /\ Local /\ At("commit") /\ ~At("validate") /\ call.pc = "commit" /\ StagedIds = {}
    BY DEF CommitCheckpoint, At, TInv, CallOK, DataOK, StagedIds, NoNodes
  <1>2. CASE EndEpoch
    BY <1>2, EndEpochO
  <1>3. CASE pet' = Release(pet, {call.temp}) /\ End /\ UNCHANGED book
    BY <1>1, <1>3, ReleasedO, EndO DEF OInv
  <1>4. CASE /\ CanAllocate(Mine)
             /\ book' = [book EXCEPT ![call.s] = c]
             /\ IF call.close \in {"ok", "lost"}
                THEN call' = [call EXCEPT
                        !.pc = IF call.close = "ok" THEN "publish" ELSE "lost",
                        !.req = "committed", !.temp = Null, !.input = Null]
                ELSE End
             /\ UNCHANGED pet
    <2>1. /\ call.s \in Session /\ IsBook(Mine) /\ Good(Mine) /\ Active(Mine)
      BY <1>1 DEF TInv, CallOK, ControlOK, ProofOK, ProofTools, BooksOK, Mine, At
    <2>2. call.temp \in PetId /\ call.input \in Input /\ call.fin \in BOOLEAN
      <3>1. call.temp \in PetId \cup {Null} /\ call.fin \in BOOLEAN
        BY CallShape DEF TInv, CallOK, CallOver
      <3> QED
        BY <1>1, <3>1 DEF TInv, CallOK, DataOK, At
    <2>3. Retained(c) = Retained(Mine) \cup {call.temp}
      BY <1>4, <2>1, <2>2, CommitFacts
    <2>4. c.target = Mine.target
      BY <2>1, BookFields DEF Commit
    <2> HIDE DEF c
    <2>5. book'[call.s].target = book[call.s].target
      BY <1>4, <2>1, <2>4 DEF TInv, BooksOK, Mine
    <2>6. OPet'
      <3> DEFINE ids == {}
      <3>1. /\ DOMAIN pet'.table \subseteq DOMAIN pet.table \ ids
            /\ Retained(Mine) \cup StagedIds \cup ({call.temp} \ {Null})
                 \subseteq ids \cup Retained(c)
        BY <1>1, <1>4, <2>3
      <3> HIDE DEF ids
      <3> QED
        BY <1>1, <1>4, <2>1, <3>1, CallerO
    <2>7. CASE End
      BY <2>6, <2>7, EndO DEF OInv
    <2>8. CASE ~End
      <3> DEFINE pc == IF call.close = "ok" THEN "publish" ELSE "lost"
      <3>1. /\ pc \in {"publish", "lost"}
            /\ call' = [call EXCEPT !.pc = pc, !.req = "committed",
                                    !.temp = Null, !.input = Null]
        BY <1>4, <2>8
      <3> HIDE DEF pc
      <3>2. call'.pc = pc /\ call'.s = call.s /\ call'.tool = call.tool
        BY <3>1, CommittedCall DEF TInv, CallOK
      <3> QED
        BY <1>1, <2>5, <2>6, <3>1, <3>2, GoesOnO DEF OInv
    <2> QED
      BY <2>7, <2>8
  <1> QED
    BY <1>2, <1>3, <1>4 DEF CommitCheckpoint

\* The end of a check that finished its proof.
LEMMA PublishO ==
    ASSUME TInv, OInv, Calm,
           ReportLoss \/ BeginEpoch \/ PublishSucceeds \/ PublishFails \/ RollbackFails
    PROVE  OInv'
  <1>1. CASE ReportLoss
    BY <1>1, EndEpochO DEF ReportLoss
  <1>2. CASE BeginEpoch
    <2>1. At("publish") /\ ~At("validate") /\ Local /\ call.tool = "check" /\ call.s \in Session
      BY <1>2 DEF BeginEpoch, At, TInv, CallOK, ControlOK
    <2>2. TargetValid
      BY <2>1 DEF OInv, OTarget
    <2>3. CASE End /\ UNCHANGED book
      <3>1. StagedIds = {} /\ call.temp = Null /\ call.pc = "publish" /\ pet' = pet
        BY <1>2, <2>1 DEF BeginEpoch, At, TInv, CallOK, DataOK, StagedIds, NoNodes
      <3> QED
        BY <2>3, <3>1, NothingOwnedO, EndO DEF OInv
    <2>4. CASE book' = Invalidated(book, call.s) /\ Goto("write")
      <3>1. call'.pc = "write" /\ call'.s = call.s /\ call'.tool = call.tool
        BY <2>4, GotoFacts DEF TInv, CallOK, Pcs
      <3>2. book'[call.s].target = book[call.s].target
        BY <2>1, <2>4, InvalidatedBooks DEF TInv, SameGraph
      <3>3. OPet'
        BY <3>1 DEF OPet
      <3> QED
        BY <2>1, <3>1, <3>2, <3>3, GoesOnO DEF OInv
    <2> QED
      BY <1>2, <2>2, <2>3, <2>4 DEF BeginEpoch
  <1>3. CASE PublishSucceeds \/ PublishFails
    <2>1. End /\ pet' \in Refreshed
      BY <1>3 DEF PublishSucceeds, PublishFails, Refreshed
    <2> QED
      BY <2>1, RefreshedFacts, EmptyO, EndO DEF OInv
  <1>4. ~RollbackFails
    BY DEF RollbackFails, Calm
  <1> QED
    BY <1>1, <1>2, <1>3, <1>4

\* A live process for an export, or a fresh one.
LEMMA SpawnedCases ==
    ASSUME TInv, ~WorkspaceCallFails
    PROVE  /\ IsPet(Spawned)
           /\ DOMAIN Spawned.table = {} \/ (Spawned = pet /\ pet.proc = "live")
  <1>1. pet.proc \in {"none", "live"}
    BY PetShape DEF TInv, WorkspaceCallFails
  <1> QED
    BY <1>1, SpawnedFacts DEF TInv

\* list_decls() and query_at().
LEMMA QueryO ==
    ASSUME TInv, OInv, Inspect \/ OpenContext \/ AnswerQuery PROVE OInv'
  <1>1. /\ Local /\ call.pc \in {"inspect", "locate", "answer"} /\ ~At("validate")
        /\ StagedIds = {}
    BY DEF Inspect, OpenContext, AnswerQuery, At, TInv, CallOK, DataOK, StagedIds, NoNodes
  <1>2. call.pc \in {"inspect", "locate"} => call.temp = Null
    BY DEF TInv, CallOK, DataOK
  <1>3. CASE EndEpoch
    BY <1>3, EndEpochO
  <1>4. CASE /\ call.pc \in {"inspect", "locate"}
             /\ pet' = Spawned /\ End /\ UNCHANGED book
    BY <1>1, <1>2, <1>4, SpawnedO
  <1>5. CASE /\ At("locate") /\ ~WorkspaceCallFails /\ HasRoom(Spawned)
             /\ pet' = Export(Spawned, RootContent)
             /\ call' = [call EXCEPT !.pc = "answer", !.temp = FreeId(Spawned)]
             /\ UNCHANGED book
    <2>1. /\ IsPet(Spawned)
          /\ DOMAIN Spawned.table = {} \/ (Spawned = pet /\ pet.proc = "live")
      BY <1>5, SpawnedCases
    <2>2. FreeId(Spawned) \in PetId
      BY <1>5, <2>1, FreeIdFacts
    <2>3. /\ call'.pc = "answer" /\ call'.temp = FreeId(Spawned)
          /\ call'.s = call.s /\ call'.tool = call.tool
      BY <1>5, <2>2, ContextCall DEF TInv, CallOK
    <2>4. OPet'
      BY <1>1, <1>2, <1>5, <2>1, <2>3, RootContentType, ExportedO DEF At
    <2> QED
      BY <1>1, <1>5, <2>3, <2>4, GoesOnO DEF OInv
  <1>6. CASE pet' = Release(pet, {call.temp}) /\ End /\ UNCHANGED book
    BY <1>1, <1>6, ReleasedO, EndO DEF OInv
  <1> QED
    BY <1>3, <1>4, <1>5, <1>6 DEF Inspect, OpenContext, AnswerQuery, At

\* open_declaration() and declare().
LEMMA OpenDeclarationO == ASSUME TInv, OInv, OpenDeclaration PROVE OInv'
  <1>1. /\ Local /\ At("open") /\ call.pc = "open" /\ ~At("validate")
        /\ StagedIds = {} /\ call.temp = Null /\ source' = source /\ source \in Target
        /\ call.tool \in OpenTools
    BY DEF OpenDeclaration, At, TInv, CallOK, DataOK, StagedIds, NoNodes, Local, world,
           WorldOK, ControlOK
  <1>2. CASE EndEpoch
    BY <1>2, EndEpochO
  <1>3. CASE pet' = Spawned /\ End /\ UNCHANGED book
    BY <1>1, <1>3, SpawnedO
  <1>4. CASE /\ ~WorkspaceCallFails /\ HasRoom(Spawned)
             /\ \E fin \in BOOLEAN :
                   call' = [call EXCEPT !.pc = "begin", !.temp = FreeId(Spawned),
                                        !.fin = fin, !.anchor = source]
             /\ pet' = Export(Spawned, RootContent)
             /\ UNCHANGED book
    <2>1. PICK fin \in BOOLEAN :
             call' = [call EXCEPT !.pc = "begin", !.temp = FreeId(Spawned),
                                  !.fin = fin, !.anchor = source]
      BY <1>4
    <2>2. /\ IsPet(Spawned)
          /\ DOMAIN Spawned.table = {} \/ (Spawned = pet /\ pet.proc = "live")
      BY <1>4, SpawnedCases
    <2>3. /\ call'.pc = "begin" /\ call'.temp = FreeId(Spawned)
          /\ call'.s = call.s /\ call'.tool = call.tool
      BY <2>1, CallShape DEF TInv, CallOK, CallOver
    <2>4. OPet'
      BY <1>1, <1>4, <2>2, <2>3, RootContentType, ExportedO
    <2> QED
      BY <1>1, <1>4, <2>3, <2>4, GoesOnO DEF OInv
  <1>5. CASE /\ call' = [call EXCEPT !.pc = "audit", !.anchor = source]
             /\ book' = Invalidated(book, call.s)
    <2>1. call'.pc = "audit" /\ call'.anchor = source /\ call'.tool = call.tool
      BY <1>1, <1>5, AuditCall DEF TInv, CallOK
    <2> QED
      BY <1>1, <2>1 DEF OInv, OPet, OTarget, OAudit, OStaged, At, OpenTools
  <1> QED
    BY <1>2, <1>3, <1>4, <1>5 DEF OpenDeclaration

\* begin_proof() and the selection of a checkpoint.
LEMMA BeginRewindO == ASSUME TInv, OInv, BeginProof \/ RewindTo PROVE OInv'
  <1>1. /\ call.pc \in {"begin", "rewind"} /\ StagedIds = {} /\ call.s \in Session
        /\ IsBook(Mine) /\ Good(Mine)
    BY DEF BeginProof, RewindTo, At, TInv, CallOK, ControlOK, DataOK, StagedIds, NoNodes,
           BooksOK, Mine
  <1>2. CASE EndEpoch
    BY <1>2, EndEpochO
  <1>3. CASE pet' = Release(pet, {call.temp}) /\ End /\ UNCHANGED book
    BY <1>1, <1>3, ReleasedO, EndO DEF OInv
  <1>4. ASSUME NEW b, book' = [book EXCEPT ![call.s] = b], End, pet' = pet,
               Retained(Mine) \cup ({call.temp} \ {Null}) \subseteq Retained(b)
        PROVE  OInv'
    <2> DEFINE ids == {}
    <2>1. /\ DOMAIN pet'.table \subseteq DOMAIN pet.table \ ids /\ pet'.proc = pet.proc
          /\ Retained(Mine) \cup StagedIds \cup ({call.temp} \ {Null}) \subseteq ids \cup Retained(b)
      BY <1>1, <1>4
    <2> HIDE DEF ids
    <2>2. OPet'
      BY <1>1, <1>4, <2>1, CallerO
    <2> QED
      BY <1>4, <2>2, EndO DEF OInv
  <1>5. CASE /\ At("begin") /\ CanAllocate(Mine)
             /\ book' = [book EXCEPT ![call.s] =
                            Begin(Mine, call.anchor, call.temp, call.fin)]
             /\ End
             /\ UNCHANGED pet
    <2>1. call.temp \in PetId /\ call.anchor \in Target /\ call.fin \in BOOLEAN
      <3>1. call.temp \in PetId \cup {Null} /\ call.fin \in BOOLEAN
        BY CallShape DEF TInv, CallOK, CallOver
      <3> QED
        BY <1>5, <3>1 DEF TInv, CallOK, DataOK, At
    <2>2. ~Active(Mine)
      BY <1>5 DEF TInv, CallOK, ControlOK, ProofOK, At
    <2>3. Retained(Mine) = {}
      BY <1>1, <2>2, InactiveIsClear
    <2>4. Retained(Begin(Mine, call.anchor, call.temp, call.fin)) = {call.temp}
      BY <1>1, <1>5, <2>1, BeginFacts
    <2> QED
      BY <1>4, <1>5, <2>3, <2>4
  <1>6. CASE /\ At("rewind")
             /\ book' = [book EXCEPT ![call.s] = Select(Mine, call.goal)]
             /\ End
             /\ UNCHANGED pet
    <2>1. Active(Mine) /\ call.goal \in Nodes(Mine) /\ call.temp = Null
      BY <1>6 DEF TInv, CallOK, ControlOK, DataOK, ProofOK, ProofTools, At
    <2>2. Retained(Select(Mine, call.goal)) = Retained(Mine)
      BY <1>1, <2>1, SelectFacts
    <2> QED
      BY <1>4, <1>6, <2>1, <2>2
  <1> QED
    BY <1>2, <1>3, <1>5, <1>6 DEF BeginProof, RewindTo

\* validate_published().
LEMMA AuditPublishedO == ASSUME TInv, OInv, AuditPublished PROVE OInv'
  <1>1. source = call.anchor
    BY DEF AuditPublished, OInv, OAudit
  <1>2. EndEpoch \/ (pet' \in Refreshed /\ End)
    BY <1>1 DEF AuditPublished
  <1> QED
    BY <1>2, EndEpochO, RefreshedFacts, EmptyO, EndO DEF OInv

\* retire_proof() releases what only the retired proof owned.
LEMMA RetireO ==
    ASSUME TInv, OInv, NEW s \in Session, Retire(s),
           call.pc \notin {"write", "audit"}, StagedIds = {}, call.temp = Null
    PROVE  OPet'
  <1> DEFINE cleared == [book EXCEPT ![s] = Clear(book[s])]
  <1>1. CASE book' = cleared /\ pet' = Release(pet, Retained(book[s]))
    <2>1. pet'.proc = pet.proc /\ DOMAIN pet'.table = DOMAIN pet.table \ Retained(book[s])
      BY <1>1, ReleaseFacts DEF TInv
    <2>2. \A t \in Session : t # s => book'[t] = book[t]
      BY <1>1 DEF TInv, BooksOK
    <2>3. DOMAIN pet.table \subseteq PetId
      BY PetShape DEF TInv
    <2>4. Null \notin PetId
      BY NullAssumption
    <2>5. ASSUME pet'.proc = "live", NEW h \in DOMAIN pet'.table PROVE Owned(h)'
      <3>1. Owned(h) /\ h # Null /\ h \notin Retained(book[s])
        BY <2>1, <2>3, <2>4, <2>5 DEF OInv, OPet
      <3>2. \E t \in Session : t # s /\ h \in Retained(book[t])
        BY <3>1 DEF Owned
      <3> QED
        BY <2>2, <3>2 DEF Owned
    <2> QED
      BY <2>5 DEF OPet
  <1>2. CASE pet' = NoPet
    BY <1>2, EmptyO, NoPetFacts
  <1> QED
    BY <1>1, <1>2 DEF Retire

\* abandon.
LEMMA AbandonO == ASSUME TInv, OInv, Abandon PROVE OInv'
  <1>1. /\ call.pc = "retire" /\ StagedIds = {} /\ call.temp = Null /\ call.s \in Session
    BY DEF Abandon, At, TInv, CallOK, ControlOK, DataOK, StagedIds, NoNodes
  <1>2. CASE EndEpoch
    BY <1>2, EndEpochO
  <1>3. CASE Retire(call.s) /\ End
    BY <1>1, <1>3, RetireO, EndO DEF OInv
  <1>4. CASE EndError
    BY <1>1, <1>4, NothingOwnedO, EndO DEF EndError, OInv
  <1> QED
    BY <1>2, <1>3, <1>4 DEF Abandon

\* A reading of the Dune layout between calls.
LEMMA RefreshLayoutO ==
    ASSUME TInv, OInv, At("idle"), NEW s, RefreshLayout(s) PROVE OPet'
  <1>1. call.pc = "idle" /\ call.temp = Null /\ StagedIds = {}
    BY DEF At, TInv, CallOK, DataOK, StagedIds, NoNodes
  <1> QED
    BY <1>1, NothingOwnedO, EmptyO, NoPetFacts DEF RefreshLayout

\* start and a switch of project.
LEMMA LinkStepsO ==
    ASSUME TInv, OInv, NEW s \in Session, Reattach(s) \/ SwitchAway(s) \/ Attach(s)
    PROVE  OInv'
  <1>1. At("idle") /\ call' = call
    BY DEF Reattach, SwitchAway, Attach
  <1>2. call.pc = "idle" /\ call.temp = Null /\ StagedIds = {} /\ call = NoCall
    BY <1>1 DEF At, TInv, CallOK, ControlOK, DataOK, StagedIds, NoNodes
  <1>3. OTarget' /\ OAudit' /\ OStaged'
    BY <1>1, <1>2, EndO DEF End
  <1>4. CASE pet' = NoPet
    BY <1>3, <1>4, EmptyO, NoPetFacts DEF OInv
  <1>5. CASE Retire(s)
    BY <1>2, <1>3, <1>5, RetireO DEF OInv
  <1>6. CASE RefreshLayout(s)
    BY <1>1, <1>3, <1>6, RefreshLayoutO DEF OInv
  <1> QED
    BY <1>4, <1>5, <1>6 DEF Reattach, SwitchAway, Attach

\* Admission under the barrier.
LEMMA AdmitO == ASSUME TInv, OInv, NEW s \in Session, Admit(s) PROVE OInv'
  <1>1. At("idle") /\ RefreshLayout(s)
    BY DEF Admit
  <1>2. PICK tool \in Tool :
          \E goal \in IF tool = "rewind" THEN Nodes(book[s]) ELSE {0},
                left \in IF tool \in {"check", "try"} THEN 1..MaxAttempts ELSE {0} :
                call' = [NoCall EXCEPT !.s = s, !.tool = tool, !.goal = goal,
                                       !.left = left, !.pc = FirstPc(tool)]
    BY DEF Admit
  <1>3. /\ FirstPc(tool) \in {"validate", "retire", "reconcile"}
        /\ tool = "check" => FirstPc(tool) = "validate"
    BY FirstPcFacts DEF Tool
  <1>4. call'.pc = FirstPc(tool) /\ call'.tool = tool
    BY <1>2 DEF NoCall
  <1>5. OTarget' /\ OAudit' /\ OStaged'
    BY <1>3, <1>4 DEF OTarget, OAudit, OStaged, At
  <1> QED
    BY <1>1, <1>5, RefreshLayoutO DEF OInv

\* What happens around the call; editors write between calls only.
LEMMA EnvironmentO == ASSUME TInv, OInv, Calm, Environment PROVE OInv'
  <1>1. book' = book
    BY DEF Environment, Cancel, PetDies, EditSource, EditUpstream, ChangeLayout
  <1>2. CASE Cancel
    <2>1. pet' = pet /\ call' = [call EXCEPT !.req = "cancelled"] /\ source' = source
      BY <1>2 DEF Cancel, world
    <2>2. /\ call'.pc = call.pc /\ call'.s = call.s /\ call'.tool = call.tool
          /\ call'.temp = call.temp /\ call'.staged = call.staged
          /\ call'.todo = call.todo /\ call'.anchor = call.anchor
      BY <2>1, CancelFacts DEF TInv, CallOK
    <2>3. StagedIds' = StagedIds
      BY <2>2 DEF StagedIds
    <2> QED
      BY <1>1, <2>1, <2>2, <2>3 DEF OInv, OPet, Owned, OTarget, OAudit, OStaged, At,
                                     TargetValid, Mine
  <1>3. CASE PetDies
    <2>1. pet' = [NoPet EXCEPT !.proc = "dead"] /\ call' = call /\ source' = source
      BY <1>3 DEF PetDies, world
    <2>2. OPet'
      BY <2>1, EmptyPet, EmptyO
    <2> QED
      BY <1>1, <2>1, <2>2 DEF OInv, OTarget, OAudit, OStaged, At, TargetValid, Mine
  <1>4. CASE EditSource \/ EditUpstream \/ ChangeLayout
    <2>1. pet' = pet /\ call' = call /\ At("idle")
      BY <1>4 DEF EditSource, EditUpstream, ChangeLayout, Calm
    <2>2. call = NoCall /\ StagedIds' = StagedIds
      BY <2>1 DEF TInv, CallOK, ControlOK, StagedIds
    <2>3. OTarget' /\ OAudit' /\ OStaged'
      BY <2>1, <2>2, EndO DEF End
    <2>4. OPet'
      BY <1>1, <2>1, <2>2 DEF OInv, OPet, Owned
    <2> QED
      BY <2>3, <2>4 DEF OInv
  <1> QED
    BY <1>2, <1>3, <1>4 DEF Environment

\* OInv is inductive.
LEMMA NextO ==
    ASSUME Calm, TInv, HInv, OInv, [Next]_vars
    PROVE  OInv'
  <1>1. CASE UNCHANGED vars
    <2>1. book' = book /\ call' = call /\ pet' = pet /\ source' = source
      BY <1>1 DEF vars
    <2>2. StagedIds' = StagedIds
      BY <2>1 DEF StagedIds
    <2> QED
      BY <2>1, <2>2 DEF OInv, OPet, Owned, OTarget, OAudit, OStaged, At, TargetValid, Mine
  <1>2. CASE CallStep
    <2>1. CASE ValidateTarget \/ Reconcile \/ ReplayBegin \/ ReplayRoot \/ ReplayStep \/ ReplayInstall
      BY <2>1, EarlyO, ReplayRootO, ReplayStepO, ReplayInstallO
    <2>2. CASE ReadGoals \/ RunAccepted \/ RunRejected \/ RunTimedOut \/ RunFailed
      BY <2>2, RunO, RunAcceptedO
    <2>3. CASE Discard \/ CloseProof \/ CommitCheckpoint
      BY <2>3, DiscardO, CloseProofO, CommitCheckpointO
    <2>4. CASE ReportLoss \/ BeginEpoch \/ PublishSucceeds \/ PublishFails \/ RollbackFails
      BY <2>4, PublishO
    <2>5. CASE Inspect \/ OpenContext \/ AnswerQuery \/ OpenDeclaration
               \/ BeginProof \/ AuditPublished
      BY <2>5, QueryO, OpenDeclarationO, BeginRewindO, AuditPublishedO
    <2>6. CASE RewindTo \/ Abandon
      BY <2>6, BeginRewindO, AbandonO
    <2>7. ~RunGoalsFault /\ ~EnrichFault
      BY DEF Calm, RunGoalsFault, EnrichFault
    <2> QED
      BY <1>2, <2>1, <2>2, <2>3, <2>4, <2>5, <2>6, <2>7 DEF CallStep
  <1>3. CASE Environment
    BY <1>3, EnvironmentO
  <1>4. ASSUME NEW s \in Session,
               \/ Admit(s) \/ Reattach(s) \/ SwitchAway(s) \/ Attach(s)
               \/ Disconnect(s) \/ DropSession(s)
        PROVE  OInv'
    <2>1. ~Disconnect(s) /\ ~DropSession(s)
      BY DEF Calm, Disconnect, DropSession, HInv, HOpen
    <2> QED
      BY <1>4, <2>1, AdmitO, LinkStepsO
  <1> QED
    BY <1>1, <1>2, <1>3, <1>4 DEF Next

\* The server starts without a process.
LEMMA InitO == Init => OInv
  <1> SUFFICES ASSUME Init PROVE OInv
    OBVIOUS
  <1>1. call = NoCall /\ pet = NoPet
    BY DEF Init
  <1> QED
    BY <1>1, NoCallFacts, NoPetFacts DEF OInv, OPet, OTarget, OAudit, OStaged, At

\* Between calls PET holds exactly the states some checkpoint owns, each owned by
\* one session: rejected, discarded, cancelled, timed-out and replayed work of
\* every call has been released.
THEOREM StatesOwned ==
    ASSUME Calm
    PROVE  Spec => []StatesHaveOneOwner
  <1>1. Mild
    BY DEF Calm, Mild
  <1>2. Spec => [](TInv /\ HInv)
    BY <1>1, OwnershipInvariant
  <1>3. OInv /\ TInv /\ HInv /\ [Next]_vars => OInv'
    BY NextO
  <1>4. TInv /\ HInv /\ OInv => StatesHaveOneOwner
    <2> SUFFICES ASSUME TInv, HInv, OInv PROVE StatesHaveOneOwner
      OBVIOUS
    <2>1. ASSUME At("idle"), pet.proc = "live"
          PROVE  DOMAIN pet.table = UNION {Retained(book[s]) : s \in Session}
      <3>1. \A s \in Session : Retained(book[s]) \subseteq DOMAIN pet.table
        BY <2>1 DEF HInv, HPet
      <3>2. call.pc = "idle" /\ call.temp = Null /\ StagedIds = {}
        BY <2>1 DEF At, TInv, CallOK, DataOK, StagedIds, NoNodes
      <3>3. DOMAIN pet.table \subseteq PetId /\ Null \notin PetId
        BY PetShape, NullAssumption DEF TInv
      <3>4. \A h \in DOMAIN pet.table : \E s \in Session : h \in Retained(book[s])
        BY <2>1, <3>2, <3>3 DEF OInv, OPet, Owned
      <3> QED
        BY <3>1, <3>4
    <2> QED
      BY <2>1 DEF StatesHaveOneOwner, HInv, HBooks
  <1> QED
    BY InitO, <1>2, <1>3, <1>4, PTL DEF Spec


-----------------------------------------------------------------------------
(* What a PET state stands for.  Ids are reused by every new process, so    *)
(* that a kept id still names some state says nothing by itself; FInv says  *)
(* that it is the state its checkpoint's fragments lead to.                 *)

\* Every state was opened in the present environment.
FTable == \A h \in DOMAIN pet.table : pet.table[h].env = env

\* A checkpoint's handle.
FBooks ==
    \A s \in Session : \A i \in Nodes(book[s]) :
        book[s].nodes[i].state \in DOMAIN pet.table =>
            pet.table[book[s].nodes[i].state].frags = Fragments(book[s], i)

\* The state the request will hand to the graph.
FTemp ==
    call.temp \in DOMAIN pet.table =>
        /\ call.pc \in {"close", "commit"} =>
              pet.table[call.temp].frags
                 = Append(Fragments(Mine, Mine.current), call.input)
        /\ At("begin") => pet.table[call.temp].frags = <<>>

\* The states of a replay.
FStaged ==
    At("replay") => \A i \in DOMAIN call.staged :
        call.staged[i] \in DOMAIN pet.table =>
            pet.table[call.staged[i]].frags = Fragments(Mine, i)

\* The text that close_proof() closed, until the checkpoint is committed and after.
FClosed ==
    /\ call.close = "ok" => call.pc \in {"commit", "publish", "write"}
    /\ At("commit") /\ call.close = "ok" =>
          call.closed = Append(Fragments(Mine, Mine.current), call.input)
    /\ call.pc \in {"publish", "write"} =>
          call.closed = Fragments(Mine, Mine.current)

FReq == FTemp /\ FStaged /\ FClosed

FInv == FTable /\ FBooks /\ FReq

\* PET loses states at most.
Kept == \A h \in DOMAIN pet'.table :
            h \in DOMAIN pet.table /\ pet'.table[h] = pet.table[h]

\* The environment changes only with an empty table.
EnvKept == env' = env \/ DOMAIN pet'.table = {}

\* The book c is the book b without some checkpoints, handles or the selection.
Thins(b, c) ==
    \A i \in Nodes(c) : /\ i \in Nodes(b)
                        /\ c.nodes[i].parent = b.nodes[i].parent
                        /\ c.nodes[i].input = b.nodes[i].input
                        /\ c.nodes[i].state \in {b.nodes[i].state, Null}

BooksThin == \A s \in Session : Thins(book[s], book'[s])

\* Books that differ in handles have the same parents and inputs.
LEMMA SameGraphNodes ==
    ASSUME NEW b, IsBook(b), NEW c, SameGraph(b, c)
    PROVE  \A i \in Nodes(b) : /\ i \in Nodes(c)
                               /\ c.nodes[i].parent = b.nodes[i].parent
                               /\ c.nodes[i].input = b.nodes[i].input
  <1> SUFFICES ASSUME NEW i \in Nodes(b)
               PROVE  /\ i \in Nodes(c)
                      /\ c.nodes[i].parent = b.nodes[i].parent
                      /\ c.nodes[i].input = b.nodes[i].input
    OBVIOUS
  <1>1. Nodes(c) = Nodes(b) /\ IsBook(c) /\ Shape(c) = Shape(b)
    BY DEF SameGraph
  <1>2. b.nodes[i] \in Node /\ c.nodes[i] \in Node
    BY <1>1, BookFields
  <1>3. Shape(c).nodes[i] = [c.nodes[i] EXCEPT !.state = Null]
        /\ Shape(b).nodes[i] = [b.nodes[i] EXCEPT !.state = Null]
    BY <1>1 DEF Shape
  <1>4. [c.nodes[i] EXCEPT !.state = Null] = [b.nodes[i] EXCEPT !.state = Null]
    BY <1>1, <1>3
  <1>5. \A n \in Node : /\ [n EXCEPT !.state = Null].parent = n.parent
                        /\ [n EXCEPT !.state = Null].input = n.input
    BY DEF Node
  <1> QED
    BY <1>1, <1>2, <1>4, <1>5

\* Forgetting, clearing and selecting.
LEMMA ThinFacts ==
    ASSUME NEW b, IsBook(b), Good(b)
    PROVE  /\ Thins(b, b)
           /\ Thins(b, InvalidateStates(b))
           /\ Thins(b, Clear(b))
           /\ Active(b) => \A id \in Nodes(b) : Thins(b, Select(b, id))
  <1>1. Thins(b, b)
    BY DEF Thins
  <1>2. Thins(b, InvalidateStates(b))
    <2> DEFINE c == InvalidateStates(b)
    <2>1. SameGraph(b, c) /\ Retained(c) = {}
      BY InvalidateFacts
    <2>2. Nodes(c) = Nodes(b)
      BY <2>1 DEF SameGraph
    <2> HIDE DEF c
    <2>3. \A i \in Nodes(c) : c.nodes[i].state = Null
      BY <2>1 DEF Retained
    <2>4. Thins(b, c)
      BY <2>1, <2>2, <2>3, SameGraphNodes DEF Thins
    <2> QED
      BY <2>4 DEF c
  <1>3. Thins(b, Clear(b))
    BY ClearFacts DEF Thins
  <1>4. ASSUME Active(b), NEW id \in Nodes(b) PROVE Thins(b, Select(b, id))
    <2>1. Select(b, id).nodes = b.nodes /\ Nodes(Select(b, id)) = Nodes(b)
      BY <1>4, SelectFacts
    <2> QED
      BY <2>1 DEF Thins
  <1> QED
    BY <1>1, <1>2, <1>3, <1>4

\* Thinning twice.
LEMMA ThinTwice ==
    ASSUME NEW b, NEW c, NEW d, Thins(b, c), Thins(c, d)
    PROVE  Thins(b, d)
  BY DEF Thins

\* Forgetting the handles of the project.
LEMMA ForgottenF ==
    ASSUME TInv, NEW caller, book' = Invalidated(book, caller)
    PROVE  BooksThin
  <1> SUFFICES ASSUME NEW s \in Session PROVE Thins(book[s], book'[s])
    BY DEF BooksThin
  <1>1. \A t \in Session : IsBook(book[t]) /\ Good(book[t])
    BY DEF TInv, BooksOK
  <1>2. book'[s] \in {book[s], InvalidateStates(book[s])}
    BY <1>1, InvalidatedFacts
  <1> QED
    BY <1>1, <1>2, ThinFacts

\* The books stay.
LEMMA SameF == ASSUME TInv, book' = book PROVE BooksThin
  BY DEF BooksThin, Thins

\* One book is cleared, and the handles of the others may be forgotten.
LEMMA ClearedF ==
    ASSUME TInv, NEW s \in Session,
           LET cleared == [book EXCEPT ![s] = Clear(book[s])]
           IN  book' \in {cleared, Invalidated(cleared, s)}
    PROVE  BooksThin
  <1> DEFINE cleared == [book EXCEPT ![s] = Clear(book[s])]
  <1> SUFFICES ASSUME NEW t \in Session PROVE Thins(book[t], book'[t])
    BY DEF BooksThin
  <1>1. \A u \in Session : IsBook(book[u]) /\ Good(book[u])
    BY DEF TInv, BooksOK
  <1>2. \A u \in Session : cleared[u] = IF u = s THEN Clear(book[s]) ELSE book[u]
    BY DEF TInv, BooksOK
  <1>3. book' \in {cleared, Invalidated(cleared, s)}
    OBVIOUS
  <1> HIDE DEF cleared
  <1>4. \A u \in Session : /\ IsBook(cleared[u]) /\ Good(cleared[u])
                           /\ Thins(book[u], cleared[u])
    BY <1>1, <1>2, ThinFacts, ClearFacts
  <1>5. Invalidated(cleared, s)[t] \in {cleared[t], InvalidateStates(cleared[t])}
    BY <1>4, InvalidatedFacts
  <1>6. Thins(cleared[t], cleared[t]) /\ Thins(cleared[t], InvalidateStates(cleared[t]))
    BY <1>4, ThinFacts
  <1> QED
    BY <1>3, <1>4, <1>5, <1>6, ThinTwice

\* What may happen to PET without an export.
LEMMA KeptFacts ==
    ASSUME IsPet(pet),
           \/ pet' \in {pet, NoPet, Spawned} \cup Refreshed
           \/ \E ids : pet' = Release(pet, ids)
    PROVE  Kept
  <1>1. CASE pet' = pet
    BY <1>1 DEF Kept
  <1>2. CASE DOMAIN pet'.table = {}
    BY <1>2 DEF Kept
  <1>3. CASE pet' = Spawned
    <2>1. Spawned = pet \/ DOMAIN Spawned.table = {}
      BY SpawnedFacts
    <2> QED
      BY <1>1, <1>2, <1>3, <2>1
  <1>4. ASSUME NEW ids, pet' = Release(pet, ids) PROVE Kept
    <2>1. \A h \in DOMAIN pet'.table : h \in DOMAIN pet.table /\ pet'.table[h] = pet.table[h]
      BY <1>4, ReleasedTable
    <2> QED
      BY <2>1 DEF Kept
  <1>5. CASE pet' = NoPet \/ pet' \in Refreshed
    BY <1>2, <1>5, NoPetFacts, RefreshedFacts
  <1> QED
    BY <1>1, <1>3, <1>4, <1>5

\* Thinner books over fewer states.
LEMMA ThinF ==
    ASSUME TInv, TInv', FInv, Kept, EnvKept, BooksThin
    PROVE  FTable' /\ FBooks'
  <1>1. FTable'
    BY DEF FInv, FTable, Kept, EnvKept
  <1>2. ASSUME NEW s \in Session, NEW i \in Nodes(book'[s]),
               book'[s].nodes[i].state \in DOMAIN pet'.table
        PROVE  pet'.table[book'[s].nodes[i].state].frags = Fragments(book'[s], i)
    <2>1. /\ IsBook(book[s]) /\ Good(book[s]) /\ IsBook(book'[s]) /\ Good(book'[s])
      BY DEF TInv, BooksOK
    <2>2. \A j \in Nodes(book'[s]) : /\ j \in Nodes(book[s])
                                     /\ book[s].nodes[j].parent = book'[s].nodes[j].parent
                                     /\ book[s].nodes[j].input = book'[s].nodes[j].input
      BY DEF BooksThin, Thins
    <2>3. Fragments(book[s], i) = Fragments(book'[s], i)
      BY <2>1, <2>2, FragmentsSame
    <2>4. Null \notin DOMAIN pet'.table
      BY PetShape, NullAssumption DEF TInv
    <2>5. i \in Nodes(book[s]) /\ book'[s].nodes[i].state = book[s].nodes[i].state
      BY <1>2, <2>4 DEF BooksThin, Thins
    <2>6. /\ book[s].nodes[i].state \in DOMAIN pet.table
          /\ pet'.table[book'[s].nodes[i].state] = pet.table[book[s].nodes[i].state]
      BY <1>2, <2>5 DEF Kept
    <2> QED
      BY <2>3, <2>5, <2>6 DEF FInv, FBooks
  <1>3. FBooks'
    BY <1>2 DEF FBooks
  <1> QED
    BY <1>1, <1>3

\* Nothing of the request is about contents.
LEMMA PlainF ==
    ASSUME call'.pc \notin {"close", "commit", "begin", "replay", "publish", "write"},
           call'.close # "ok"
    PROVE  FReq'
  BY DEF FReq, FTemp, FStaged, FClosed, At

\* A step that exports nothing, to a place where contents do not count.
LEMMA QuietF ==
    ASSUME TInv, TInv', FInv, Kept, EnvKept, BooksThin,
           call'.pc \notin {"close", "commit", "begin", "replay", "publish", "write"},
           call'.close # "ok"
    PROVE  FInv'
  BY ThinF, PlainF DEF FInv

\* An answer.
LEMMA AnswerF ==
    ASSUME TInv, TInv', FInv, Kept, EnvKept, BooksThin, End
    PROVE  FInv'
  <1>1. call'.pc = "idle" /\ call'.close = "none"
    BY DEF End, NoCall
  <1> QED
    BY <1>1, QuietF

\* The environment between two builds.
LEMMA LocalEnv == ASSUME Local PROVE EnvKept
  BY DEF Local, EnvKept, world, artifacts

\* The end of an epoch.
LEMMA EndEpochF ==
    ASSUME TInv, TInv', FInv, EndEpoch
    PROVE  FInv'
  <1>1. pet' = NoPet /\ book' = Invalidated(book, call.s) /\ End
    BY DEF EndEpoch
  <1>2. Kept /\ EnvKept
    BY <1>1, NoPetFacts DEF Kept, EnvKept
  <1>3. BooksThin
    BY <1>1, ForgottenF
  <1> QED
    BY <1>1, <1>2, <1>3, AnswerF

\* An answer that keeps the books.
LEMMA EndSameF ==
    ASSUME TInv, TInv', FInv, End, Local, book' = book,
           \/ pet' \in {pet, NoPet, Spawned} \cup Refreshed
           \/ \E ids : pet' = Release(pet, ids)
    PROVE  FInv'
  <1>1. Kept
    BY KeptFacts DEF TInv
  <1> QED
    BY <1>1, LocalEnv, SameF, AnswerF

\* The request keeps all that is about contents.
LEMMA KeptF ==
    ASSUME TInv, TInv', FInv, Kept, EnvKept, book' = book,
           call'.s = call.s, call'.pc = call.pc, call'.temp = call.temp,
           call'.input = call.input, call'.staged = call.staged,
           call'.close = call.close, call'.closed = call.closed
    PROVE  FInv'
  <1>1. BooksThin
    BY SameF
  <1>2. FTable' /\ FBooks'
    BY <1>1, ThinF
  <1>3. Mine' = Mine
    BY DEF Mine
  <1>4. FTemp'
    BY <1>3 DEF FInv, FReq, FTemp, Kept, At
  <1>5. FStaged'
    BY <1>3 DEF FInv, FReq, FStaged, Kept, At
  <1>6. FClosed'
    BY <1>3 DEF FInv, FReq, FClosed, At
  <1> QED
    BY <1>2, <1>4, <1>5, <1>6 DEF FInv, FReq

\* An export into the live process, or into a fresh one.
LEMMA ExportF ==
    ASSUME TInv, HInv, FInv, book' = book, Local, NEW p, NEW content \in Contents,
           IsPet(p), HasRoom(p), p.proc = "live",
           p = pet \/ DOMAIN p.table = {},
           \A s \in Session : Retained(book[s]) \subseteq DOMAIN p.table,
           pet' = Export(p, content), content.env = env
    PROVE  /\ FTable' /\ FBooks'
           /\ pet'.table[FreeId(p)] = content
           /\ \A h \in DOMAIN p.table : h \in DOMAIN pet.table /\ pet'.table[h] = pet.table[h]
           /\ FreeId(p) \notin DOMAIN p.table
  <1>1. /\ DOMAIN pet'.table = DOMAIN p.table \cup {FreeId(p)}
        /\ FreeId(p) \notin DOMAIN p.table /\ FreeId(p) \in PetId
    BY ExportFacts, FreeIdFacts
  <1>2. /\ pet'.table[FreeId(p)] = content
        /\ \A h \in DOMAIN p.table : h \in DOMAIN pet.table /\ pet'.table[h] = pet.table[h]
    BY ExportedTable
  <1>3. env' = env
    BY DEF Local, world, artifacts
  <1>4. FTable'
    BY <1>1, <1>2, <1>3 DEF FInv, FTable
  <1>5. ASSUME NEW s \in Session, NEW i \in Nodes(book[s]),
               book[s].nodes[i].state \in DOMAIN pet'.table
        PROVE  pet'.table[book[s].nodes[i].state].frags = Fragments(book[s], i)
    <2>1. DOMAIN pet'.table \subseteq PetId
      BY <1>1, PetShape
    <2>2. book[s].nodes[i].state # Null
      BY <1>5, <2>1, NullAssumption
    <2>3. book[s].nodes[i].state \in Retained(book[s])
      BY <2>2 DEF Retained
    <2>4. book[s].nodes[i].state \in DOMAIN p.table
      BY <2>3
    <2>5. /\ book[s].nodes[i].state \in DOMAIN pet.table
          /\ pet'.table[book[s].nodes[i].state] = pet.table[book[s].nodes[i].state]
      BY <1>2, <2>4
    <2> QED
      BY <2>5 DEF FInv, FBooks
  <1>6. FBooks'
    BY <1>5 DEF FBooks
  <1> QED
    BY <1>1, <1>2, <1>4, <1>6

\* The process a root is opened in, and what it exports.
LEMMA SpawnedF ==
    ASSUME TInv, HInv, ~WorkspaceCallFails, ~Unnoticed
    PROVE  /\ IsPet(Spawned) /\ Spawned.proc = "live"
           /\ Spawned = pet \/ DOMAIN Spawned.table = {}
           /\ \A s \in Session : Retained(book[s]) \subseteq DOMAIN Spawned.table
           /\ RootContent \in Contents
           /\ RootContent.env = env /\ RootContent.frags = <<>>
  <1>1. /\ IsPet(Spawned) /\ Spawned.proc = "live"
        /\ \A s \in Session : Retained(book[s]) \subseteq DOMAIN Spawned.table
    BY LiveSpawned
  <1>2. Spawned = pet \/ DOMAIN Spawned.table = {}
    BY SpawnedFacts DEF TInv
  <1>3. RootContent.env = env /\ RootContent.frags = <<>>
    BY DEF RootContent
  <1> QED
    BY <1>1, <1>2, <1>3, RootContentType

\* What one more fragment makes of a state.
LEMMA AfterFields ==
    ASSUME NEW content \in Contents, NEW input \in Input \cup {Null}
    PROVE  /\ After(content, input) \in Contents
           /\ After(content, input).env = content.env
           /\ After(content, input).frags = Append(content.frags, input)
  <1>1. content = [env |-> content.env, frags |-> content.frags]
    BY DEF Contents
  <1>2. After(content, input) = [env |-> content.env, frags |-> Append(content.frags, input)]
    BY <1>1 DEF After, Contents
  <1>3. /\ After(content, input).env = content.env
        /\ After(content, input).frags = Append(content.frags, input)
    BY <1>2
  <1>4. After(content, input) \in Contents
    BY AfterFacts
  <1> QED
    BY <1>3, <1>4

\* The way to the first PET request.
LEMMA EarlyF ==
    ASSUME TInv, TInv', HInv, FInv, ValidateTarget \/ Reconcile \/ ReplayBegin
    PROVE  FInv'
  <1>1. call.pc \in {"validate", "reconcile", "goals", "run", "rewind"}
    BY DEF ValidateTarget, Reconcile, ReplayBegin, At
  <1>2. call.staged = NoNodes /\ call.close # "ok"
    BY <1>1 DEF TInv, CallOK, DataOK, At, FInv, FReq, FClosed
  <1>3. CASE EndEpoch
    BY <1>3, EndEpochF
  <1>4. CASE ValidateTarget
    <2>1. book' = book /\ pet' = pet /\ Local
      BY <1>4 DEF ValidateTarget
    <2>2. CASE End
      BY <2>1, <2>2, EndSameF
    <2>3. CASE Goto("reconcile")
      <3>1. call'.pc = "reconcile" /\ call'.close = call.close
        BY <2>3, GotoFacts DEF TInv, CallOK, Pcs
      <3>2. Kept
        BY <2>1 DEF Kept
      <3> QED
        BY <1>2, <2>1, <3>1, <3>2, LocalEnv, SameF, QuietF
    <2> QED
      BY <1>4, <2>2, <2>3 DEF ValidateTarget
  <1>5. CASE Reconcile /\ ~EndEpoch /\ ~EndError
    <2>1. /\ At("reconcile") /\ Goto(AfterReconcile) /\ env' = upstream
          /\ IF <<compiled, env>> # <<source, upstream>>
             THEN pet' = NoPet /\ book' = Invalidated(book, call.s)
             ELSE UNCHANGED <<pet, book>>
      BY <1>5 DEF Reconcile
    <2>2. call.tool \in Tool \ {"abandon"}
      BY <2>1 DEF TInv, CallOK, ControlOK, At
    <2>3. AfterReconcile \in {"open", "locate", "inspect", "rewind", "goals"}
      BY <2>2, AfterReconcileFacts DEF Tool, OpenTools, GoalTools
    <2>4. AfterReconcile \in Pcs
      BY <2>3 DEF Pcs
    <2>5. call'.pc = AfterReconcile /\ call'.close = call.close
      BY <2>1, <2>4, GotoFacts DEF TInv, CallOK
    <2>6. CASE pet' = NoPet /\ book' = Invalidated(book, call.s)
      <3>1. Kept /\ EnvKept
        BY <2>6, NoPetFacts DEF Kept, EnvKept
      <3> QED
        BY <1>2, <2>3, <2>5, <2>6, <3>1, ForgottenF, QuietF
    <2>7. CASE UNCHANGED <<pet, book>> /\ env = upstream
      <3>1. Kept /\ EnvKept
        BY <2>1, <2>7 DEF Kept, EnvKept
      <3> QED
        BY <1>2, <2>3, <2>5, <2>7, <3>1, SameF, QuietF
    <2> QED
      BY <2>1, <2>6, <2>7
  <1>6. CASE ReplayBegin
    <2>1. /\ book' = book /\ pet' = pet /\ call.pc \in {"goals", "run", "rewind"} /\ Local
          /\ call' = [call EXCEPT !.pc = "replay", !.ret = call.pc,
                                  !.todo = MissingSuffix(Mine, WorkId)]
      BY <1>6 DEF ReplayBegin
    <2>2. MissingSuffix(Mine, WorkId) \in SUBSET Id
      BY <2>1, WorkIdFacts
    <2>3. call'.pc = "replay" /\ call'.staged = call.staged /\ call'.close = call.close
      BY <2>1, <2>2, ReplayBeginCall DEF TInv, CallOK
    <2>4. Kept
      BY <2>1 DEF Kept
    <2>5. FTable' /\ FBooks'
      BY <2>1, <2>4, LocalEnv, SameF, ThinF
    <2>6. DOMAIN call'.staged = {}
      BY <1>2, <2>3 DEF NoNodes
    <2>7. FReq'
      BY <1>2, <2>3, <2>6 DEF FReq, FTemp, FStaged, FClosed, At
    <2> QED
      BY <2>5, <2>7 DEF FInv
  <1>7. CASE Reconcile /\ EndError
    <2>1. End /\ book' = book /\ pet' = pet /\ At("reconcile")
      BY <1>7 DEF EndError, Reconcile
    <2>2. CASE EnvKept
      <3>1. Kept
        BY <2>1 DEF Kept
      <3> QED
        BY <2>1, <2>2, <3>1, SameF, AnswerF
    <2>3. CASE EndEpoch
      BY <2>3, EndEpochF
    <2> QED
      BY <1>7, <2>1, <2>2, <2>3, NoPetFacts DEF Reconcile, artifacts, EnvKept
  <1> QED
    BY <1>3, <1>4, <1>5, <1>6, <1>7

\* One more staged state, which is what its checkpoint's fragments lead to.
LEMMA StageF ==
    ASSUME TInv, TInv', HInv, FInv, Replaying, Local, book' = book,
           NEW p, NEW content \in Contents,
           IsPet(p), HasRoom(p), p.proc = "live",
           p = pet \/ DOMAIN p.table = {},
           \A s \in Session : Retained(book[s]) \subseteq DOMAIN p.table,
           StagedIds \subseteq DOMAIN p.table,
           content.env = env, content.frags = Fragments(Mine, NextMissing),
           pet' = Export(p, content), Stage(p)
    PROVE  FInv'
  <1>1. /\ FTable' /\ FBooks'
        /\ pet'.table[FreeId(p)] = content
        /\ \A h \in DOMAIN p.table : h \in DOMAIN pet.table /\ pet'.table[h] = pet.table[h]
        /\ FreeId(p) \notin DOMAIN p.table
    BY ExportF
  <1>2. NextMissing \in Id /\ NextMissing \notin DOMAIN call.staged
    BY NextMissingFacts
  <1>3. call' = [call EXCEPT !.staged =
                    [i \in DOMAIN call.staged \cup {NextMissing} |->
                        IF i = NextMissing THEN FreeId(p) ELSE call.staged[i]]]
    BY DEF Stage
  <1>4. FreeId(p) \in PetId
    BY FreeIdFacts
  <1>5. /\ DOMAIN call'.staged = DOMAIN call.staged \cup {NextMissing}
        /\ \A i \in DOMAIN call'.staged :
              call'.staged[i] = IF i = NextMissing THEN FreeId(p) ELSE call.staged[i]
        /\ call'.s = call.s /\ call'.pc = call.pc /\ call'.close = call.close
    BY <1>2, <1>3, <1>4, StageCall DEF TInv, CallOK
  <1>6. call.pc = "replay" /\ Mine' = Mine /\ call.close # "ok"
    BY <1>5 DEF Replaying, At, Mine, FInv, FReq, FClosed
  <1>7. FStaged'
    <2> SUFFICES ASSUME NEW i \in DOMAIN call'.staged
                 PROVE  pet'.table[call'.staged[i]].frags = Fragments(Mine, i)
      BY <1>6 DEF FStaged
    <2>1. CASE i = NextMissing
      BY <1>1, <1>5, <2>1
    <2>2. CASE i # NextMissing
      <3>1. i \in DOMAIN call.staged /\ call'.staged[i] = call.staged[i]
        BY <1>5, <2>2
      <3>2. call.staged[i] \in DOMAIN p.table
        BY <3>1 DEF StagedIds
      <3>3. /\ call.staged[i] \in DOMAIN pet.table
            /\ pet'.table[call.staged[i]] = pet.table[call.staged[i]]
        BY <1>1, <3>2
      <3> QED
        BY <1>6, <3>1, <3>3 DEF FInv, FReq, FStaged, At
    <2> QED
      BY <2>1, <2>2
  <1>8. FTemp' /\ FClosed'
    BY <1>5, <1>6 DEF FTemp, FClosed, At
  <1> QED
    BY <1>1, <1>7, <1>8 DEF FInv, FReq

\* replay_root().
LEMMA ReplayRootF ==
    ASSUME TInv, TInv', HInv, FInv, ReplayRoot PROVE FInv'
  <1>1. Local /\ Replaying /\ ReplaysRoot /\ ~Unnoticed
    BY DEF ReplayRoot, Replaying, At, Unnoticed
  <1>2. CASE EndError
    BY <1>1, <1>2, EndSameF DEF EndError
  <1>3. CASE EndEpoch
    BY <1>3, EndEpochF
  <1>4. CASE /\ ~WorkspaceCallFails /\ HasRoom(Spawned)
             /\ pet' = Export(Spawned, RootContent) /\ Stage(Spawned) /\ UNCHANGED book
    <2>1. /\ IsPet(Spawned) /\ Spawned.proc = "live"
          /\ Spawned = pet \/ DOMAIN Spawned.table = {}
          /\ \A s \in Session : Retained(book[s]) \subseteq DOMAIN Spawned.table
          /\ RootContent \in Contents
          /\ RootContent.env = env /\ RootContent.frags = <<>>
      BY <1>1, <1>4, SpawnedF
    <2>2. StagedIds \subseteq DOMAIN Spawned.table
      BY <1>1, <1>4, LiveSpawned
    <2>3. IsBook(Mine) /\ Good(Mine) /\ NextMissing \in Nodes(Mine)
      BY <1>1, StagedTypes, NextMissingFacts DEF Replaying
    <2>4. Fragments(Mine, NextMissing) = <<>>
      BY <1>1, <2>3, FragmentsFacts DEF ReplaysRoot
    <2> QED
      BY <1>1, <1>4, <2>1, <2>2, <2>4, StageF
  <1>5. CASE pet' = Spawned /\ End /\ UNCHANGED book
    BY <1>1, <1>5, EndSameF
  <1> QED
    BY <1>2, <1>3, <1>4, <1>5 DEF ReplayRoot

\* One fragment again, on the state of the parent.
LEMMA ReplayStepF ==
    ASSUME TInv, TInv', HInv, FInv, ReplayStep PROVE FInv'
  <1>1. Local /\ Replaying /\ ~ReplaysRoot /\ At("replay")
    BY DEF ReplayStep, Replaying
  <1>2. CASE EndError
    BY <1>1, <1>2, EndSameF DEF EndError
  <1>3. CASE EndEpoch
    BY <1>3, EndEpochF
  <1>4. CASE /\ ~LiveCallFails /\ HasRoom(pet) /\ ReplayBase \in DOMAIN pet.table
             /\ pet' = Export(pet, After(pet.table[ReplayBase],
                                         Mine.nodes[NextMissing].input))
             /\ Stage(pet) /\ UNCHANGED book
    <2> DEFINE p == Mine.nodes[NextMissing].parent
               content == After(pet.table[ReplayBase], Mine.nodes[NextMissing].input)
    <2>1. /\ call.s \in Session /\ IsBook(Mine) /\ Good(Mine)
          /\ NextMissing \in Nodes(Mine) /\ NextMissing \in Id
          /\ Mine.nodes[NextMissing].input \in Input \cup {Null}
      BY <1>1, StagedTypes, NextMissingFacts
    <2>2. p # 0 /\ p \in Nodes(Mine)
      BY <1>1, <2>1 DEF ReplaysRoot, Good
    <2>3. pet.table[ReplayBase] \in Contents
      BY <1>4, PetShape DEF TInv
    <2>4. pet.table[ReplayBase].env = env
      BY <1>4 DEF FInv, FTable
    <2>5. pet.table[ReplayBase].frags = Fragments(Mine, p)
      <3>1. CASE p \in DOMAIN call.staged
        <4>1. ReplayBase = call.staged[p]
          BY <3>1 DEF ReplayBase
        <4> QED
          BY <1>1, <1>4, <3>1, <4>1 DEF FInv, FReq, FStaged
      <3>2. CASE p \notin DOMAIN call.staged
        <4>1. ReplayBase = Mine.nodes[p].state
          BY <3>2 DEF ReplayBase
        <4> QED
          BY <1>4, <2>1, <2>2, <4>1 DEF FInv, FBooks, Mine
      <3> QED
        BY <3>1, <3>2
    <2>6. /\ content \in Contents /\ content.env = env
          /\ content.frags = Append(Fragments(Mine, p), Mine.nodes[NextMissing].input)
      BY <2>1, <2>3, <2>4, <2>5, AfterFields
    <2>7. content.frags = Fragments(Mine, NextMissing)
      BY <2>1, <2>2, <2>6, FragmentsFacts
    <2>8. /\ IsPet(pet) /\ pet.proc = "live" /\ StagedIds \subseteq DOMAIN pet.table
          /\ \A s \in Session : Retained(book[s]) \subseteq DOMAIN pet.table
      BY <1>4 DEF TInv, LiveCallFails, HInv, HPet, HReq
    <2>9. pet' = Export(pet, content) /\ Stage(pet) /\ HasRoom(pet) /\ book' = book
      BY <1>4
    <2> HIDE DEF content
    <2> QED
      BY <1>1, <2>6, <2>7, <2>8, <2>9, StageF
  <1>5. CASE pet' = Release(pet, StagedIds) /\ End /\ UNCHANGED book
    BY <1>1, <1>5, EndSameF
  <1> QED
    BY <1>2, <1>3, <1>4, <1>5 DEF ReplayStep

\* The books change in one place only, where every handle is right.
LEMMA CallerF ==
    ASSUME TInv, TInv', FInv, Kept, EnvKept, call.s \in Session,
           NEW b, book' = [book EXCEPT ![call.s] = b],
           \A i \in Nodes(b) : b.nodes[i].state \in DOMAIN pet.table =>
              pet.table[b.nodes[i].state].frags = Fragments(b, i)
    PROVE  FTable' /\ FBooks'
  <1>1. book'[call.s] = b /\ \A s \in Session : s # call.s => book'[s] = book[s]
    BY DEF TInv, BooksOK
  <1>2. FTable'
    BY DEF FInv, FTable, Kept, EnvKept
  <1>3. ASSUME NEW s \in Session, NEW i \in Nodes(book'[s]),
               book'[s].nodes[i].state \in DOMAIN pet'.table
        PROVE  pet'.table[book'[s].nodes[i].state].frags = Fragments(book'[s], i)
    <2>1. /\ book'[s].nodes[i].state \in DOMAIN pet.table
          /\ pet'.table[book'[s].nodes[i].state] = pet.table[book'[s].nodes[i].state]
      BY <1>3 DEF Kept
    <2>2. CASE s = call.s
      BY <1>1, <1>3, <2>1, <2>2
    <2>3. CASE s # call.s
      BY <1>1, <1>3, <2>1, <2>3 DEF FInv, FBooks
    <2> QED
      BY <2>2, <2>3
  <1>4. FBooks'
    BY <1>3 DEF FBooks
  <1> QED
    BY <1>2, <1>4

\* The last loop of replay_checkpoint().
LEMMA ReplayInstallF ==
    ASSUME TInv, TInv', HInv, FInv, ReplayInstall PROVE FInv'
  <1> DEFINE replaced == {Mine.nodes[i].state : i \in call.todo} \ {Null}
             new == InstallStates(Mine, call.staged)
             installed == [book EXCEPT ![call.s] = new]
             lost == replaced # {} /\ LiveCallFails
  <1>1. Local /\ At("replay")
    BY DEF ReplayInstall
  <1>2. /\ book' = IF lost THEN Invalidated(installed, call.s) ELSE installed
        /\ pet' = IF lost THEN NoPet ELSE Release(pet, replaced)
        /\ call' = IF lost THEN NoCall
                   ELSE [call EXCEPT !.pc = call.ret, !.ret = "none",
                                     !.todo = {}, !.staged = NoNodes]
    BY DEF ReplayInstall
  <1>3. /\ \A i \in DOMAIN call.staged : call.staged[i] \in PetId
        /\ DOMAIN call.staged \subseteq Nodes(Mine)
        /\ call.s \in Session /\ IsBook(Mine) /\ Good(Mine)
    BY <1>1, StagedTypes
  <1>4. /\ SameGraph(Mine, new)
        /\ \A i \in Nodes(Mine) :
              new.nodes[i].state = IF i \in DOMAIN call.staged THEN call.staged[i]
                                   ELSE Mine.nodes[i].state
    BY <1>3, InstallFacts
  <1> HIDE DEF replaced, new
  <1>5. CASE lost
    <2>1. DOMAIN pet'.table = {} /\ call' = NoCall
      BY <1>2, <1>5, NoPetFacts
    <2>2. FTable' /\ FBooks'
      BY <2>1 DEF FTable, FBooks
    <2>3. call'.pc = "idle" /\ call'.close = "none"
      BY <2>1 DEF NoCall
    <2> QED
      BY <2>2, <2>3, PlainF DEF FInv
  <1>6. CASE ~lost
    <2>1. book' = installed /\ pet' = Release(pet, replaced)
      BY <1>2, <1>6
    <2>2. Kept
      BY <2>1, KeptFacts DEF TInv
    <2>3. Nodes(new) = Nodes(Mine) /\ IsBook(new) /\ Good(new)
      BY <1>4 DEF SameGraph
    <2>4. \A i \in Nodes(Mine) : Fragments(new, i) = Fragments(Mine, i)
      BY <1>3, <1>4, <2>3, SameGraphNodes, FragmentsSame
    <2>5. ASSUME NEW i \in Nodes(new), new.nodes[i].state \in DOMAIN pet.table
          PROVE  pet.table[new.nodes[i].state].frags = Fragments(new, i)
      <3>1. CASE i \in DOMAIN call.staged
        <4>1. new.nodes[i].state = call.staged[i]
          BY <1>4, <2>3, <2>5, <3>1
        <4> QED
          BY <1>1, <2>3, <2>4, <2>5, <3>1, <4>1 DEF FInv, FReq, FStaged
      <3>2. CASE i \notin DOMAIN call.staged
        <4>1. new.nodes[i].state = Mine.nodes[i].state
          BY <1>4, <2>3, <2>5, <3>2
        <4> QED
          BY <1>3, <2>3, <2>4, <2>5, <4>1 DEF FInv, FBooks, Mine
      <3> QED
        BY <3>1, <3>2
    <2>6. FTable' /\ FBooks'
      BY <1>1, <1>3, <2>1, <2>2, <2>5, LocalEnv, CallerF
    <2>7. call.ret \in {"goals", "run", "rewind"} /\ call.close # "ok"
      BY <1>1 DEF TInv, CallOK, ControlOK, At, FInv, FReq, FClosed
    <2>8. call'.pc = call.ret /\ call'.close = call.close
      BY <1>2, <1>6, <2>7, InstalledCall DEF TInv, CallOK
    <2> QED
      BY <2>6, <2>7, <2>8, PlainF DEF FInv
  <1> QED
    BY <1>5, <1>6

\* The next alternative, whatever became of the last one.
LEMMA AlternativeF ==
    ASSUME TInv, TInv', FInv, Kept, EnvKept, BooksThin,
           call.pc \in {"run", "discard"}, NextAlternative
    PROVE  FInv'
  <1>1. CASE End
    BY <1>1, AnswerF
  <1>2. CASE call.left > 1 /\ ~End
    <2>1. call.left \in 0..MaxAttempts
      BY CallShape DEF TInv, CallOK, CallOver
    <2>2. call.left - 1 \in 0..MaxAttempts
      BY <1>2, <2>1, SessionsAssumption
    <2>3. call' = [call EXCEPT !.left = call.left - 1, !.pc = "run",
                               !.temp = Null, !.input = Null, !.fin = FALSE]
      BY <1>2 DEF NextAlternative
    <2>4. call'.pc = "run" /\ call'.close = call.close
      BY <2>2, <2>3, AlternativeCall DEF TInv, CallOK
    <2>5. call.close # "ok"
      BY DEF FInv, FReq, FClosed
    <2> QED
      BY <2>4, <2>5, QuietF
  <1> QED
    BY <1>1, <1>2 DEF NextAlternative

\* engine.goals(), query_state(), and alternatives that leave nothing.
LEMMA RunF ==
    ASSUME TInv, TInv', HInv, FInv,
           ReadGoals \/ RunRejected \/ RunTimedOut \/ RunFailed \/ Discard
    PROVE  FInv'
  <1>1. Local /\ call.pc \in {"goals", "run", "discard"} /\ EnvKept
    BY LocalEnv DEF ReadGoals, RunRejected, RunTimedOut, RunFailed, RunReady, Running, Discard, At
  <1>2. CASE EndEpoch
    BY <1>2, EndEpochF
  <1>3. CASE End /\ UNCHANGED <<book, pet>>
    BY <1>1, <1>3, EndSameF
  <1>4. CASE Goto("run") /\ UNCHANGED <<book, pet>>
    <2>1. call'.pc = "run" /\ call'.close = call.close /\ call.close # "ok"
      BY <1>1, <1>4, GotoFacts DEF TInv, CallOK, Pcs, FInv, FReq, FClosed
    <2>2. Kept
      BY <1>4 DEF Kept
    <2> QED
      BY <1>1, <1>4, <2>1, <2>2, SameF, QuietF
  <1>5. CASE RunRejected
    <2>1. NextAlternative /\ book' = book /\ pet' = pet /\ call.pc = "run"
      BY <1>5 DEF RunRejected, RunReady, Running, At
    <2>2. Kept
      BY <2>1 DEF Kept
    <2> QED
      BY <1>1, <2>1, <2>2, SameF, AlternativeF
  <1>6. CASE RunTimedOut
    <2>1. /\ NextAlternative /\ book' = Invalidated(book, call.s) /\ pet' = NoPet
          /\ call.pc = "run"
      BY <1>6 DEF RunTimedOut, RunReady, Running, At
    <2>2. Kept
      BY <2>1, NoPetFacts DEF Kept
    <2> QED
      BY <1>1, <2>1, <2>2, ForgottenF, AlternativeF
  <1>7. CASE Discard /\ ~EndEpoch
    <2>1. /\ NextAlternative /\ book' = book /\ pet' = Release(pet, {call.temp})
          /\ call.pc = "discard"
      BY <1>7 DEF Discard, At
    <2>2. Kept
      BY <2>1, KeptFacts DEF TInv
    <2> QED
      BY <1>1, <2>1, <2>2, SameF, AlternativeF
  <1> QED
    BY <1>2, <1>3, <1>4, <1>5, <1>6, <1>7 DEF ReadGoals, RunFailed, EndError

\* An accepted fragment.
LEMMA RunAcceptedF ==
    ASSUME TInv, TInv', HInv, FInv, RunAccepted PROVE FInv'
  <1>1. /\ Local /\ At("run") /\ book' = book /\ HasRoom(pet)
        /\ Handle \in DOMAIN pet.table /\ pet.proc = "live"
    BY DEF RunAccepted, RunReady, Running, LiveCallFails
  <1>2. PICK input \in Input, fin \in BOOLEAN :
          /\ call' = [call EXCEPT !.temp = FreeId(pet), !.input = input, !.fin = fin,
                                  !.pc = IF call.tool = "try" THEN "discard"
                                         ELSE IF fin THEN "close" ELSE "commit"]
          /\ pet' = Export(pet, After(pet.table[Handle], input))
    BY DEF RunAccepted
  <1> DEFINE content == After(pet.table[Handle], input)
  <1>3. call.s \in Session /\ Mine.current \in Nodes(Mine)
    BY <1>1, WorkIdFacts DEF At
  <1>4. Handle = Mine.nodes[Mine.current].state
    BY <1>1 DEF TInv, CallOK, ControlOK, At, WorkId, Handle
  <1>5. pet.table[Handle] \in Contents /\ pet.table[Handle].env = env
    BY <1>1, PetShape DEF TInv, FInv, FTable
  <1>6. pet.table[Handle].frags = Fragments(Mine, Mine.current)
    BY <1>1, <1>3, <1>4 DEF FInv, FBooks, Mine
  <1>7. /\ content \in Contents /\ content.env = env
        /\ content.frags = Append(Fragments(Mine, Mine.current), input)
    BY <1>5, <1>6, AfterFields
  <1>8. IsPet(pet) /\ \A s \in Session : Retained(book[s]) \subseteq DOMAIN pet.table
    BY <1>1 DEF TInv, HInv, HPet
  <1>9. pet' = Export(pet, content)
    BY <1>2
  <1> HIDE DEF content
  <1>10. FTable' /\ FBooks' /\ pet'.table[FreeId(pet)] = content
    BY <1>1, <1>7, <1>8, <1>9, ExportF
  <1> DEFINE pc == IF call.tool = "try" THEN "discard"
                   ELSE IF fin THEN "close" ELSE "commit"
  <1>11. /\ pc \in {"discard", "close", "commit"}
         /\ call' = [call EXCEPT !.temp = FreeId(pet), !.input = input, !.fin = fin, !.pc = pc]
    BY <1>2
  <1> HIDE DEF pc
  <1>12. /\ call'.pc = pc /\ call'.temp = FreeId(pet) /\ call'.input = input
         /\ call'.s = call.s /\ call'.close = call.close
    BY <1>11, CallShape DEF TInv, CallOK, CallOver
  <1>13. Mine' = Mine /\ call.close # "ok"
    BY <1>1, <1>12 DEF Mine, FInv, FReq, FClosed, At
  <1>14. FTemp'
    BY <1>7, <1>10, <1>11, <1>12, <1>13 DEF FTemp, At
  <1>15. FStaged' /\ FClosed'
    BY <1>11, <1>12, <1>13 DEF FStaged, FClosed, At
  <1> QED
    BY <1>10, <1>14, <1>15 DEF FInv, FReq

\* close_proof(): what it closed is what the checkpoint will stand for.
LEMMA CloseProofF ==
    ASSUME TInv, TInv', HInv, FInv, CloseProof PROVE FInv'
  <1>1. Local /\ At("close") /\ EnvKept
    BY LocalEnv DEF CloseProof
  <1>2. CASE EndEpoch
    BY <1>2, EndEpochF
  <1>3. CASE ~EndEpoch
    <2>1. /\ book' = book
          /\ \E close \in {"ok", "lost", "refused"}, closed \in Seq(Input \cup {Null}) :
                /\ call' = [call EXCEPT !.pc = "commit", !.close = close, !.closed = closed]
                /\ pet' = pet \/ pet' = NoPet
                /\ close = "ok" => /\ call.temp \in DOMAIN pet.table
                                   /\ closed = pet.table[call.temp].frags
      <3>1. <<>> \in Seq(Input \cup {Null})
        OBVIOUS
      <3>2. call.temp \in DOMAIN pet.table =>
               pet.table[call.temp].frags \in Seq(Input \cup {Null})
        BY PetShape DEF TInv, Contents
      <3> QED
        BY <1>3, <3>1, <3>2 DEF CloseProof
    <2>2. PICK close \in {"ok", "lost", "refused"}, closed \in Seq(Input \cup {Null}) :
             /\ call' = [call EXCEPT !.pc = "commit", !.close = close, !.closed = closed]
             /\ pet' = pet \/ pet' = NoPet
             /\ close = "ok" => /\ call.temp \in DOMAIN pet.table
                                /\ closed = pet.table[call.temp].frags
      BY <2>1
    <2>3. /\ call'.pc = "commit" /\ call'.s = call.s /\ call'.temp = call.temp
          /\ call'.input = call.input /\ call'.close = close /\ call'.closed = closed
      BY <2>2, ClosedCall DEF TInv, CallOK
    <2>4. Kept
      BY <2>2, KeptFacts DEF TInv
    <2>5. FTable' /\ FBooks'
      BY <1>1, <2>1, <2>4, SameF, ThinF
    <2>6. Mine' = Mine
      BY <2>1, <2>3 DEF Mine
    <2>7. call.temp \in DOMAIN pet.table =>
             pet.table[call.temp].frags = Append(Fragments(Mine, Mine.current), call.input)
      BY <1>1 DEF FInv, FReq, FTemp, At
    <2>8. FTemp'
      BY <2>3, <2>4, <2>6, <2>7 DEF FTemp, Kept, At
    <2>9. FStaged' /\ FClosed'
      BY <2>2, <2>3, <2>6, <2>7 DEF FStaged, FClosed, At
    <2> QED
      BY <2>5, <2>8, <2>9 DEF FInv, FReq
  <1> QED
    BY <1>2, <1>3

\* The fragments of a new checkpoint.
LEMMA CommitFragments ==
    ASSUME NEW b, IsBook(b), Good(b), Active(b), CanAllocate(b),
           NEW state \in PetId, NEW input \in Input, NEW finished \in BOOLEAN
    PROVE  LET c == Commit(b, state, input, finished)
           IN  /\ Nodes(c) = Nodes(b) \cup {c.current} /\ c.current \notin Nodes(b)
               /\ c.nodes[c.current].state = state
               /\ Fragments(c, c.current) = Append(Fragments(b, b.current), input)
               /\ \A i \in Nodes(b) : /\ c.nodes[i].state = b.nodes[i].state
                                      /\ Fragments(c, i) = Fragments(b, i)
  <1> DEFINE c == Commit(b, state, input, finished)
             n == b.next + 1
  <1>1. IsBook(c) /\ Good(c)
    BY CommitFacts
  <1>2. b \in BookOver(Nodes(b)) /\ Nodes(b) \subseteq Id
    BY BookShape
  <1>3. /\ c.current = n
        /\ c.nodes = [i \in Nodes(b) \cup {n} |->
                         IF i = n THEN [parent |-> b.current, state |-> state,
                                        input |-> input, finished |-> finished]
                         ELSE b.nodes[i]]
    BY <1>2 DEF Commit, BookOver
  <1>4. n \notin Nodes(b)
    BY <1>2 DEF Good, Id, BookOver
  <1>5. /\ Nodes(c) = Nodes(b) \cup {n}
        /\ c.nodes[n].state = state /\ c.nodes[n].parent = b.current
        /\ c.nodes[n].input = input
        /\ \A i \in Nodes(b) : i \in Nodes(c) /\ c.nodes[i] = b.nodes[i]
    BY <1>3, <1>4 DEF Nodes
  <1>6. b.current # 0 /\ b.current \in Nodes(b)
    BY DEF Active, Good
  <1> HIDE DEF c, n
  <1>7. \A i \in Nodes(b) : Fragments(c, i) = Fragments(b, i)
    BY <1>1, <1>5, FragmentsSame
  <1>8. n \in Nodes(c) /\ c.nodes[n].parent # 0
    BY <1>5, <1>6
  <1>9. Fragments(c, n) = Append(Fragments(c, c.nodes[n].parent), c.nodes[n].input)
    BY <1>1, <1>8, FragmentsFacts
  <1>10. Fragments(c, n) = Append(Fragments(b, b.current), input)
    BY <1>5, <1>6, <1>7, <1>9
  <1> QED
    BY <1>3, <1>4, <1>5, <1>7, <1>10 DEF c

\* commit_or_cancelled() and the new checkpoint.
LEMMA CommitCheckpointF ==
    ASSUME TInv, TInv', HInv, FInv, CommitCheckpoint PROVE FInv'
  <1> DEFINE c == Commit(Mine, call.temp, call.input, call.fin)
  <1>1. Local /\ At("commit") /\ EnvKept
    BY LocalEnv DEF CommitCheckpoint
  <1>2. CASE EndEpoch
    BY <1>2, EndEpochF
  <1>3. CASE pet' = Release(pet, {call.temp}) /\ End /\ UNCHANGED book
    BY <1>1, <1>3, EndSameF
  <1>4. CASE /\ CanAllocate(Mine)
             /\ book' = [book EXCEPT ![call.s] = c]
             /\ IF call.close \in {"ok", "lost"}
                THEN call' = [call EXCEPT
                        !.pc = IF call.close = "ok" THEN "publish" ELSE "lost",
                        !.req = "committed", !.temp = Null, !.input = Null]
                ELSE End
             /\ UNCHANGED pet
    <2>1. call.s \in Session /\ IsBook(Mine) /\ Good(Mine) /\ Active(Mine)
      BY <1>1 DEF TInv, CallOK, ControlOK, ProofOK, ProofTools, BooksOK, Mine, At
    <2>2. call.temp \in PetId /\ call.input \in Input /\ call.fin \in BOOLEAN
      <3>1. call.temp \in PetId \cup {Null} /\ call.fin \in BOOLEAN
        BY CallShape DEF TInv, CallOK, CallOver
      <3> QED
        BY <1>1, <3>1 DEF TInv, CallOK, DataOK, At
    <2>3. /\ Nodes(c) = Nodes(Mine) \cup {c.current}
          /\ c.nodes[c.current].state = call.temp
          /\ Fragments(c, c.current) = Append(Fragments(Mine, Mine.current), call.input)
          /\ \A i \in Nodes(Mine) : /\ c.nodes[i].state = Mine.nodes[i].state
                                    /\ Fragments(c, i) = Fragments(Mine, i)
      BY <1>4, <2>1, <2>2, CommitFragments
    <2> HIDE DEF c
    <2>4. ASSUME NEW i \in Nodes(c), c.nodes[i].state \in DOMAIN pet.table
          PROVE  pet.table[c.nodes[i].state].frags = Fragments(c, i)
      <3>1. CASE i = c.current
        BY <1>1, <2>3, <2>4, <3>1 DEF FInv, FReq, FTemp, At
      <3>2. CASE i # c.current
        BY <2>1, <2>3, <2>4, <3>2 DEF FInv, FBooks, Mine
      <3> QED
        BY <3>1, <3>2
    <2>5. Kept
      BY <1>4 DEF Kept
    <2>6. FTable' /\ FBooks'
      BY <1>1, <1>4, <2>1, <2>4, <2>5, CallerF
    <2>7. CASE End
      <3>1. call'.pc = "idle" /\ call'.close = "none"
        BY <2>7 DEF End, NoCall
      <3> QED
        BY <2>6, <3>1, PlainF DEF FInv
    <2>8. CASE ~End
      <3> DEFINE pc == IF call.close = "ok" THEN "publish" ELSE "lost"
      <3>1. /\ pc \in {"publish", "lost"} /\ (pc = "publish" <=> call.close = "ok")
            /\ call' = [call EXCEPT !.pc = pc, !.req = "committed",
                                    !.temp = Null, !.input = Null]
        BY <1>4, <2>8
      <3> HIDE DEF pc
      <3>2. /\ call'.pc = pc /\ call'.s = call.s
            /\ call'.close = call.close /\ call'.closed = call.closed
        BY <3>1, CommittedCall DEF TInv, CallOK
      <3>3. Mine' = c
        BY <1>4, <2>1, <3>2 DEF Mine, TInv, BooksOK
      <3>4. call.close = "ok" => call.closed = Fragments(c, c.current)
        BY <1>1, <2>3 DEF FInv, FReq, FClosed, At
      <3>5. FReq'
        BY <3>1, <3>2, <3>3, <3>4 DEF FReq, FTemp, FStaged, FClosed, At
      <3> QED
        BY <2>6, <3>5 DEF FInv
    <2> QED
      BY <2>7, <2>8
  <1> QED
    BY <1>2, <1>3, <1>4 DEF CommitCheckpoint

\* The start of a publication: the handles go, the text stays.
LEMMA BeginEpochF ==
    ASSUME TInv, TInv', HInv, FInv, BeginEpoch PROVE FInv'
  <1>1. /\ Local /\ At("publish") /\ EnvKept /\ pet' = pet
        /\ call.s \in Session
    BY LocalEnv DEF BeginEpoch, TInv, CallOK, ControlOK, At
  <1>2. Kept
    BY <1>1 DEF Kept
  <1>3. CASE book' = [book EXCEPT ![call.s] = Clear(Mine)] /\ End
    <2>1. BooksThin
      BY <1>1, <1>3, ClearedF DEF Mine
    <2> QED
      BY <1>1, <1>2, <1>3, <2>1, AnswerF
  <1>4. CASE book' = Invalidated(book, call.s) /\ Goto("write")
    <2>1. /\ call'.pc = "write" /\ call'.s = call.s /\ call'.close = call.close
          /\ call'.closed = call.closed
      BY <1>4, GotoFacts DEF TInv, CallOK, Pcs
    <2>2. FTable' /\ FBooks'
      BY <1>1, <1>2, <1>4, ForgottenF, ThinF
    <2>3. SameGraph(Mine, Mine') /\ IsBook(Mine) /\ Good(Mine)
      <3>1. \A s \in Session : SameGraph(book[s], book'[s])
        BY <1>4, InvalidatedBooks DEF TInv
      <3> QED
        BY <1>1, <2>1, <3>1 DEF TInv, BooksOK, Mine
    <2>4. Active(Mine)
      BY <1>1 DEF TInv, CallOK, ControlOK, ProofOK, ProofTools, At
    <2>5. /\ Mine.current \in Nodes(Mine) /\ Mine'.current = Mine.current
          /\ IsBook(Mine') /\ Good(Mine')
      BY <2>3, <2>4 DEF SameGraph, Good
    <2>6. Fragments(Mine', Mine'.current) = Fragments(Mine, Mine.current)
      BY <2>3, <2>5, SameGraphNodes, FragmentsSame
    <2>7. FClosed'
      BY <1>1, <2>1, <2>6 DEF FInv, FReq, FClosed, At
    <2>8. FTemp' /\ FStaged'
      BY <2>1 DEF FTemp, FStaged, At
    <2> QED
      BY <2>2, <2>7, <2>8 DEF FInv, FReq
  <1>5. CASE End /\ UNCHANGED book
    BY <1>1, <1>5, EndSameF
  <1> QED
    BY <1>3, <1>4, <1>5 DEF BeginEpoch

\* The end of a check that finished its proof.
LEMMA PublishF ==
    ASSUME TInv, TInv', HInv, FInv,
           ReportLoss \/ PublishSucceeds \/ PublishFails \/ RollbackFails
    PROVE  FInv'
  <1>1. CASE ReportLoss
    BY <1>1, EndEpochF DEF ReportLoss
  <1>2. CASE PublishSucceeds \/ PublishFails \/ RollbackFails
    <2>1. /\ End /\ env' = env /\ At("write") /\ call.s \in Session
          /\ book' \in {book, [book EXCEPT ![call.s] = Clear(Mine)]}
          /\ pet' \in Refreshed \cup {pet}
      BY <1>2 DEF PublishSucceeds, PublishFails, RollbackFails, Refreshed, TInv, CallOK,
                  ControlOK, At
    <2>2. Kept /\ EnvKept
      BY <2>1, KeptFacts DEF TInv, EnvKept
    <2>3. BooksThin
      BY <2>1, SameF, ClearedF DEF Mine
    <2> QED
      BY <2>1, <2>2, <2>3, AnswerF
  <1> QED
    BY <1>1, <1>2

\* list_decls() and the queries on source positions.
LEMMA QueryF ==
    ASSUME TInv, TInv', HInv, FInv, Inspect \/ OpenContext \/ AnswerQuery
    PROVE  FInv'
  <1>1. Local /\ call.pc \in {"inspect", "locate", "answer"} /\ ~Unnoticed /\ call.close # "ok"
    BY DEF Inspect, OpenContext, AnswerQuery, At, Unnoticed, FInv, FReq, FClosed
  <1>2. CASE EndEpoch
    BY <1>2, EndEpochF
  <1>3. CASE pet' = Spawned /\ End /\ UNCHANGED book
    BY <1>1, <1>3, EndSameF
  <1>4. CASE pet' = Release(pet, {call.temp}) /\ End /\ UNCHANGED book
    BY <1>1, <1>4, EndSameF
  <1>5. CASE /\ ~WorkspaceCallFails /\ HasRoom(Spawned)
             /\ pet' = Export(Spawned, RootContent)
             /\ call' = [call EXCEPT !.pc = "answer", !.temp = FreeId(Spawned)]
             /\ UNCHANGED book
    <2>1. /\ IsPet(Spawned) /\ Spawned.proc = "live"
          /\ Spawned = pet \/ DOMAIN Spawned.table = {}
          /\ \A s \in Session : Retained(book[s]) \subseteq DOMAIN Spawned.table
          /\ RootContent \in Contents /\ RootContent.env = env
      BY <1>1, <1>5, SpawnedF
    <2>2. FTable' /\ FBooks'
      BY <1>1, <1>5, <2>1, ExportF
    <2>3. FreeId(Spawned) \in PetId
      BY <1>5, <2>1, FreeIdFacts
    <2>4. call'.pc = "answer" /\ call'.close = call.close
      BY <1>5, <2>3, ContextCall DEF TInv, CallOK
    <2> QED
      BY <1>1, <2>2, <2>4, PlainF DEF FInv
  <1> QED
    BY <1>2, <1>3, <1>4, <1>5 DEF Inspect, OpenContext, AnswerQuery

\* open_declaration() and declare().
LEMMA OpenDeclarationF ==
    ASSUME TInv, TInv', HInv, FInv, OpenDeclaration PROVE FInv'
  <1>1. Local /\ At("open") /\ ~Unnoticed /\ call.close # "ok" /\ EnvKept
    BY LocalEnv DEF OpenDeclaration, At, Unnoticed, FInv, FReq, FClosed
  <1>2. CASE EndEpoch
    BY <1>2, EndEpochF
  <1>3. CASE pet' = Spawned /\ End /\ UNCHANGED book
    BY <1>1, <1>3, EndSameF
  <1>4. CASE /\ ~WorkspaceCallFails /\ HasRoom(Spawned)
             /\ \E fin \in BOOLEAN :
                   call' = [call EXCEPT !.pc = "begin", !.temp = FreeId(Spawned),
                                        !.fin = fin, !.anchor = source]
             /\ pet' = Export(Spawned, RootContent)
             /\ UNCHANGED book
    <2>1. /\ IsPet(Spawned) /\ Spawned.proc = "live"
          /\ Spawned = pet \/ DOMAIN Spawned.table = {}
          /\ \A s \in Session : Retained(book[s]) \subseteq DOMAIN Spawned.table
          /\ RootContent \in Contents
          /\ RootContent.env = env /\ RootContent.frags = <<>>
      BY <1>1, <1>4, SpawnedF
    <2>2. FTable' /\ FBooks' /\ pet'.table[FreeId(Spawned)] = RootContent
      BY <1>1, <1>4, <2>1, ExportF
    <2>3. PICK fin \in BOOLEAN :
             call' = [call EXCEPT !.pc = "begin", !.temp = FreeId(Spawned),
                                  !.fin = fin, !.anchor = source]
      BY <1>4
    <2>4. call'.pc = "begin" /\ call'.temp = FreeId(Spawned) /\ call'.close = call.close
      BY <2>3, CallShape DEF TInv, CallOK, CallOver
    <2>5. FReq'
      BY <1>1, <2>1, <2>2, <2>4 DEF FReq, FTemp, FStaged, FClosed, At
    <2> QED
      BY <2>2, <2>5 DEF FInv
  <1>5. CASE /\ pet' = Spawned
             /\ call' = [call EXCEPT !.pc = "audit", !.anchor = source]
             /\ book' = Invalidated(book, call.s)
    <2>1. call'.pc = "audit" /\ call'.close = call.close
      BY <1>5, AuditCall DEF TInv, CallOK, WorldOK
    <2>2. Kept
      BY <1>5, KeptFacts DEF TInv
    <2> QED
      BY <1>1, <1>5, <2>1, <2>2, ForgottenF, QuietF
  <1> QED
    BY <1>2, <1>3, <1>4, <1>5 DEF OpenDeclaration

\* begin_proof(): the root stands for no fragment.
LEMMA BeginProofF ==
    ASSUME TInv, TInv', HInv, FInv, BeginProof PROVE FInv'
  <1> DEFINE c == Begin(Mine, call.anchor, call.temp, call.fin)
             n == Mine.next + 1
  <1>1. Local /\ At("begin") /\ EnvKept
    BY LocalEnv DEF BeginProof
  <1>2. CASE EndEpoch
    BY <1>2, EndEpochF
  <1>3. CASE pet' = Release(pet, {call.temp}) /\ End /\ UNCHANGED book
    BY <1>1, <1>3, EndSameF
  <1>4. CASE /\ CanAllocate(Mine)
             /\ book' = [book EXCEPT ![call.s] = c]
             /\ End
             /\ UNCHANGED pet
    <2>1. call.s \in Session /\ IsBook(Mine) /\ call.temp # Null
      BY <1>1 DEF TInv, CallOK, ControlOK, DataOK, BooksOK, Mine, At
    <2>2. call.temp \in PetId /\ call.anchor \in Target /\ call.fin \in BOOLEAN
      <3>1. call.temp \in PetId \cup {Null} /\ call.fin \in BOOLEAN
        BY CallShape DEF TInv, CallOK, CallOver
      <3> QED
        BY <1>1, <2>1, <3>1 DEF TInv, CallOK, DataOK, At
    <2>3. IsBook(c) /\ Good(c)
      BY <1>4, <2>1, <2>2, BeginFacts
    <2>4. Nodes(c) = {n} /\ c.nodes[n].state = call.temp /\ c.nodes[n].parent = 0
      BY DEF Begin, Nodes
    <2> HIDE DEF c, n
    <2>5. Fragments(c, n) = <<>>
      BY <2>3, <2>4, FragmentsFacts
    <2>6. \A i \in Nodes(c) : c.nodes[i].state \in DOMAIN pet.table =>
             pet.table[c.nodes[i].state].frags = Fragments(c, i)
      BY <1>1, <2>4, <2>5 DEF FInv, FReq, FTemp
    <2>7. Kept
      BY <1>4 DEF Kept
    <2>8. FTable' /\ FBooks'
      BY <1>1, <1>4, <2>1, <2>6, <2>7, CallerF
    <2>9. call'.pc = "idle" /\ call'.close = "none"
      BY <1>4 DEF End, NoCall
    <2> QED
      BY <2>8, <2>9, PlainF DEF FInv
  <1> QED
    BY <1>2, <1>3, <1>4 DEF BeginProof

\* retire_proof().
LEMMA RetireF ==
    ASSUME TInv, NEW s \in Session, Retire(s)
    PROVE  Kept /\ BooksThin
  <1> DEFINE cleared == [book EXCEPT ![s] = Clear(book[s])]
  <1>1. \/ book' = cleared /\ pet' = Release(pet, Retained(book[s]))
        \/ book' = Invalidated(cleared, s) /\ pet' = NoPet
    BY DEF Retire
  <1>2. book' \in {cleared, Invalidated(cleared, s)}
    BY <1>1
  <1>3. BooksThin
    BY <1>2, ClearedF
  <1>4. Kept
    BY <1>1, KeptFacts DEF TInv
  <1> QED
    BY <1>3, <1>4

\* validate_published(), rewind and abandon.
LEMMA OtherToolsF ==
    ASSUME TInv, TInv', HInv, FInv, AuditPublished \/ RewindTo \/ Abandon
    PROVE  FInv'
  <1>1. Local /\ EnvKept /\ ~At("idle")
    BY LocalEnv DEF AuditPublished, RewindTo, Abandon, At
  <1>2. CASE EndEpoch
    BY <1>2, EndEpochF
  <1>3. CASE EndError
    BY <1>1, <1>3, EndSameF DEF EndError
  <1>4. CASE pet' \in Refreshed /\ End /\ UNCHANGED book
    BY <1>1, <1>4, EndSameF
  <1>5. CASE /\ At("rewind") /\ book' = [book EXCEPT ![call.s] = Select(Mine, call.goal)]
             /\ End /\ UNCHANGED pet
    <2>1. /\ call.s \in Session /\ IsBook(Mine) /\ Good(Mine)
          /\ Active(Mine) /\ call.goal \in Nodes(Mine)
      BY <1>5 DEF TInv, CallOK, ControlOK, ProofOK, ProofTools, BooksOK, Mine, At
    <2>2. Thins(Mine, Select(Mine, call.goal))
      BY <2>1, ThinFacts
    <2>3. BooksThin
      <3> SUFFICES ASSUME NEW s \in Session PROVE Thins(book[s], book'[s])
        BY DEF BooksThin
      <3>1. CASE s = call.s
        BY <1>5, <2>2, <3>1 DEF TInv, BooksOK, Mine
      <3>2. CASE s # call.s
        <4>1. book'[s] = book[s]
          BY <1>5, <3>2 DEF TInv, BooksOK
        <4> QED
          BY <4>1 DEF Thins
      <3> QED
        BY <3>1, <3>2
    <2>4. Kept
      BY <1>5 DEF Kept
    <2> QED
      BY <1>1, <1>5, <2>3, <2>4, AnswerF
  <1>6. CASE Retire(call.s) /\ End
    <2>1. call.s \in Session
      BY <1>1 DEF TInv, CallOK, ControlOK
    <2> QED
      BY <1>1, <1>6, <2>1, RetireF, AnswerF
  <1> QED
    BY <1>2, <1>3, <1>4, <1>5, <1>6 DEF AuditPublished, RewindTo, Abandon

\* Steps between calls: admission and start.
LEMMA BetweenF ==
    ASSUME TInv, TInv', HInv, FInv, NEW s \in Session,
           Admit(s) \/ Reattach(s) \/ SwitchAway(s) \/ Attach(s)
    PROVE  FInv'
  <1>1. /\ At("idle") /\ EnvKept
    BY DEF Admit, Reattach, SwitchAway, Attach, artifacts, world, EnvKept
  <1>2. call = NoCall /\ NoCall.pc = "idle" /\ NoCall.close = "none"
    BY <1>1, IdleFacts DEF NoCall
  <1>3. Kept /\ BooksThin
    <2>1. CASE Retire(s)
      BY <2>1, RetireF
    <2>2. CASE RefreshLayout(s)
      <3>1. \/ pet' = NoPet /\ book' = Invalidated(book, s)
            \/ pet' = pet /\ book' = book
        BY <2>2 DEF RefreshLayout
      <3> QED
        BY <3>1, ForgottenF, SameF, KeptFacts DEF TInv
    <2>3. CASE /\ pet' = NoPet
               /\ book' = Invalidated([book EXCEPT ![s] = Clear(book[s])], s)
      BY <2>3, ClearedF, KeptFacts DEF TInv
    <2> QED
      BY <2>1, <2>2, <2>3 DEF Admit, Reattach, SwitchAway, Attach
  <1>4. CASE Admit(s)
    <2>1. PICK tool \in Tool :
            \E goal \in IF tool = "rewind" THEN Nodes(book[s]) ELSE {0},
                  left \in IF tool \in {"check", "try"} THEN 1..MaxAttempts ELSE {0} :
                  call' = [NoCall EXCEPT !.s = s, !.tool = tool, !.goal = goal,
                                         !.left = left, !.pc = FirstPc(tool)]
      BY <1>4 DEF Admit
    <2>2. FirstPc(tool) \in {"validate", "retire", "reconcile"}
      BY FirstPcFacts DEF Tool
    <2>3. call'.pc = FirstPc(tool) /\ call'.close = "none"
      BY <2>1 DEF NoCall
    <2> QED
      BY <1>1, <1>3, <2>2, <2>3, QuietF
  <1>5. CASE call' = call
    BY <1>1, <1>2, <1>3, <1>5, QuietF
  <1> QED
    BY <1>4, <1>5 DEF Reattach, SwitchAway, Attach

\* What happens around the call.
LEMMA EnvironmentF ==
    ASSUME TInv, TInv', FInv, Environment PROVE FInv'
  <1>1. book' = book /\ EnvKept
    BY DEF Environment, Cancel, PetDies, EditSource, EditUpstream, ChangeLayout,
           world, artifacts, EnvKept
  <1>2. Kept
    <2>1. pet' = pet \/ pet' = [NoPet EXCEPT !.proc = "dead"]
      BY DEF Environment, Cancel, PetDies, EditSource, EditUpstream, ChangeLayout
    <2>2. DOMAIN [NoPet EXCEPT !.proc = "dead"].table = {}
      BY EmptyPet
    <2> QED
      BY <2>1, <2>2 DEF Kept
  <1>3. /\ call'.s = call.s /\ call'.pc = call.pc /\ call'.temp = call.temp
        /\ call'.input = call.input /\ call'.staged = call.staged
        /\ call'.close = call.close /\ call'.closed = call.closed
    <2>1. CASE call' = call
      BY <2>1
    <2>2. CASE Cancel
      BY <2>2, CancelFacts DEF Cancel, TInv, CallOK
    <2> QED
      BY <2>1, <2>2 DEF Environment, PetDies, EditSource, EditUpstream, ChangeLayout
  <1> QED
    BY <1>1, <1>2, <1>3, KeptF

\* FInv is inductive.
LEMMA NextF ==
    ASSUME Mild, TInv, TInv', HInv, FInv, [Next]_vars
    PROVE  FInv'
  <1>1. CASE UNCHANGED vars
    <2>1. book' = book /\ call' = call /\ pet' = pet /\ env' = env
      BY <1>1 DEF vars, world, artifacts
    <2>2. Kept /\ EnvKept
      BY <2>1 DEF Kept, EnvKept
    <2> QED
      BY <2>1, <2>2, KeptF
  <1>2. CASE CallStep
    <2>1. CASE ValidateTarget \/ Reconcile \/ ReplayBegin \/ ReplayRoot \/ ReplayStep \/ ReplayInstall
      BY <2>1, EarlyF, ReplayRootF, ReplayStepF, ReplayInstallF
    <2>2. CASE ReadGoals \/ RunAccepted \/ RunRejected \/ RunTimedOut \/ RunFailed
               \/ Discard \/ CloseProof \/ CommitCheckpoint
      BY <2>2, RunF, RunAcceptedF, CloseProofF, CommitCheckpointF
    <2>3. CASE ReportLoss \/ BeginEpoch \/ PublishSucceeds \/ PublishFails \/ RollbackFails
      BY <2>3, BeginEpochF, PublishF
    <2>4. CASE Inspect \/ OpenContext \/ AnswerQuery \/ OpenDeclaration \/ BeginProof
               \/ AuditPublished \/ RewindTo \/ Abandon
      BY <2>4, QueryF, OpenDeclarationF, BeginProofF, OtherToolsF
    <2>5. ~RunGoalsFault /\ ~EnrichFault
      BY DEF Mild, RunGoalsFault, EnrichFault
    <2> QED
      BY <1>2, <2>1, <2>2, <2>3, <2>4, <2>5 DEF CallStep
  <1>3. CASE Environment
    BY <1>3, EnvironmentF
  <1>4. ASSUME NEW s \in Session,
               \/ Admit(s) \/ Reattach(s) \/ SwitchAway(s) \/ Attach(s)
               \/ Disconnect(s) \/ DropSession(s)
        PROVE  FInv'
    <2>1. ~Disconnect(s) /\ ~DropSession(s)
      BY DEF Mild, Disconnect, DropSession, HInv, HOpen
    <2> QED
      BY <1>4, <2>1, BetweenF
  <1> QED
    BY <1>1, <1>2, <1>3, <1>4 DEF Next

\* The server starts without states.
LEMMA InitF == Init => FInv
  <1> SUFFICES ASSUME Init PROVE FInv
    OBVIOUS
  <1>1. DOMAIN pet.table = {}
    BY NoPetFacts DEF Init
  <1>2. call.pc = "idle" /\ call.close = "none"
    BY DEF Init, NoCall
  <1> QED
    BY <1>1, <1>2 DEF FInv, FTable, FBooks, FReq, FTemp, FStaged, FClosed, At

\* Every PET state a checkpoint, a replay or a request keeps is the state that
\* its fragments lead to in the environment of the last build.
THEOREM ContentsInvariant ==
    ASSUME Mild
    PROVE  Spec => [](TInv /\ HInv /\ FInv)
  <1>1. TInv /\ HInv /\ FInv /\ [Next]_vars => TInv' /\ HInv' /\ FInv'
    BY NextT, NextH, NextF
  <1> QED
    BY InitT, InitH, InitF, <1>1, PTL DEF Spec

\* A kept handle names, in the running process, the state its checkpoint's
\* fragments lead to; a noticed loss leaves no handle (invalidate_states(),
\* replay_checkpoint() and the epochs of dispatch()).
THEOREM HandlesAreFaithful ==
    ASSUME Mild
    PROVE  Spec => []HandlesFaithful
  <1>1. TInv /\ HInv /\ FInv => HandlesFaithful
    <2> SUFFICES ASSUME TInv, HInv, FInv, NEW s \in Session
                 PROVE  /\ At("idle") /\ pet.proc = "none" => Retained(book[s]) = {}
                        /\ pet.proc = "live" =>
                              \A i \in Nodes(book[s]) : LET h == book[s].nodes[i].state IN
                                 h # Null =>
                                    /\ h \in DOMAIN pet.table
                                    /\ pet.table[h] = [env |-> env, frags |-> Fragments(book[s], i)]
      BY DEF HandlesFaithful
    <2>1. At("idle") => ~Unnoticed
      BY DEF At, Unnoticed
    <2>2. ASSUME pet.proc = "live", NEW i \in Nodes(book[s]), book[s].nodes[i].state # Null
          PROVE  LET h == book[s].nodes[i].state
                 IN  /\ h \in DOMAIN pet.table
                     /\ pet.table[h] = [env |-> env, frags |-> Fragments(book[s], i)]
      <3> DEFINE h == book[s].nodes[i].state
      <3>1. h \in DOMAIN pet.table
        BY <2>2 DEF HInv, HPet, Retained
      <3>2. pet.table[h] \in Contents
        BY <3>1, PetShape DEF TInv
      <3>3. pet.table[h].env = env /\ pet.table[h].frags = Fragments(book[s], i)
        BY <3>1 DEF FInv, FTable, FBooks
      <3> QED
        BY <3>1, <3>2, <3>3 DEF Contents
    <2> QED
      BY <2>1, <2>2 DEF HInv, HPet
  <1> QED
    BY <1>1, ContentsInvariant, PTL

\* The text written to the source is the text PET closed with Qed in this call
\* (close_proof(), commit and begin_epoch()).
THEOREM PublishedWasClosed ==
    ASSUME Mild
    PROVE  Spec => []PublishesWhatWasClosed
  <1>1. FInv => PublishesWhatWasClosed
    BY DEF FInv, FReq, FClosed, PublishesWhatWasClosed
  <1> QED
    BY <1>1, ContentsInvariant, PTL
=============================================================================
