---------------------------- MODULE RbTreeProofs ----------------------------
(***************************************************************************)
(* What the lookups of RbTree return, for trees of any size: whenever the  *)
(* pointers are those of one tree (PointersAgree) and the tree is in order *)
(* (InOrder), rb_next, rb_prev, rb_first and rb_last enumerate it, and     *)
(* maps__find finds.                                                       *)
(*                                                                         *)
(* A whole subtree is reasoned about through the function Below(s), which  *)
(* is characterised by conditions on a node and its two children (Shape).  *)
(***************************************************************************)
EXTENDS RbTree, Sequences, TLAPS

LOCAL INSTANCE WellFoundedInduction

\* The fields of a tree. The proofs leave them unexpanded: a pointer followed is
\* then a single term.
Root(s) == s.root
Ch(s, d, n) == s.ch[d][n]
Par(s, n) == s.par[n]

\* The nodes that are in the tree according to their own parent pointer.
Linked(s) == {n \in Node : Par(s, n) # n}

\* What holds at a node n: its subtree is the node and the subtrees of its two
\* children, and the child on side d points back.
ShapeAt(s, sub, n, d) ==
  LET c == Ch(s, d, n)
      k == Ch(s, Other(d), n)
  IN  /\ \A a \in Node : a \in sub[n] <=> a = n \/ a \in sub[c] \/ a \in sub[k]
      /\ n \notin sub[c]
      /\ c # NULL => Par(s, c) = n /\ c # k

\* sub gives the subtree of every pointer, and the root's is the linked nodes.
Shape(s, sub) ==
  /\ sub \in [Ptr -> SUBSET Node] /\ sub[NULL] = {}
  /\ \A a \in Node : a \in sub[Root(s)] <=> Par(s, a) # a
  /\ Root(s) # NULL => Par(s, Root(s)) = NULL
  /\ \A n \in Node, d \in Side : ShapeAt(s, sub, n, d)

\* a is on side d of b, or at the same address.
OnSide(d, a, b) == IF d = "left" THEN Start[a] <= Start[b] ELSE Start[b] <= Start[a]

Ordered(s, sub) ==
  \A n \in Node, d \in Side : \A a \in Node : a \in sub[Ch(s, d, n)] => OnSide(d, a, n)
-----------------------------------------------------------------------------
(***************************************************************************)
(* Subtrees.                                                               *)
(***************************************************************************)
\* The two sides and the order they stand for.
LEMMA Sides ==
  /\ "left" \in Side /\ "right" \in Side
  /\ Other("left") = "right" /\ Other("right") = "left"
  /\ \A d \in Side : /\ Other(d) \in Side /\ Other(d) # d /\ Other(Other(d)) = d
                     /\ \A e \in Side : e = d \/ e = Other(d)
BY DEF Side, Other

\* The types of the fields.
LEMMA TreeTypes ==
  ASSUME NEW s \in Tree
  PROVE  /\ Root(s) \in Ptr
         /\ \A n \in Node : /\ Par(s, n) \in Ptr
                            /\ \A d \in Side : Ch(s, d, n) \in Ptr
BY DEF Tree, Root, Ch, Par

\* OnSide is a preorder, and its mirror image the inverse.
LEMMA OnSideOrder ==
  ASSUME NEW d \in Side, NEW a \in Node, NEW b \in Node, NEW c \in Node
  PROVE  /\ OnSide(d, a, a)
         /\ OnSide(d, a, b) /\ OnSide(d, b, c) => OnSide(d, a, c)
         /\ OnSide(Other(d), a, b) <=> OnSide(d, b, a)
BY RbTreeAssumption DEF OnSide, Side, Other

\* A non-empty set of natural numbers has a least element.
LEMMA LeastNumber ==
  ASSUME NEW K, K \subseteq Nat, K # {}
  PROVE  \E k \in K : \A j \in K : k <= j
<1>1. \E R : IsWellFoundedOn(R, Nat) /\ \A i, j \in Nat : <<i, j>> \in R <=> i < j
  <2>1. \A i, j \in Nat : <<i, j>> \in OpToRel(<, Nat) <=> i < j
    BY DEF OpToRel
  <2> QED BY <2>1, NatLessThanWellFounded, Zenon
<1>2. PICK R : IsWellFoundedOn(R, Nat) /\ \A i, j \in Nat : <<i, j>> \in R <=> i < j
  BY <1>1
<1>3. PICK k \in K : \A j \in K : ~(<<j, k>> \in R)
  <2>1. IsWellFoundedOn(R, Nat)
    BY <1>2
  <2>2. \E k \in K : \A j \in K : ~(<<j, k>> \in R)
    BY <2>1, WFMin, Zenon
  <2> QED BY <2>2
<1>4. \A j \in K : ~(j < k)
  BY <1>2, <1>3
<1> QED BY <1>4

\* f lists the members of X, and possibly others, at the positions 1 to k.
Lists(f, k, X) == \A x \in X : \E i \in 1 .. k : f[i] = x

\* A set of subsets of a finite set has a member that is minimal: the form in
\* which induction over subtrees is used below. It is one with a shortest list.
LEMMA MinimalSet ==
  ASSUME NEW S, IsFiniteSet(S), NEW F, F \subseteq SUBSET S, F # {}
  PROVE  \E X \in F : \A Y \in F : Y \subseteq X => Y = X
<1> DEFINE K == {k \in Nat : \E X \in F : \E f \in [1 .. k -> S] : Lists(f, k, X)}
<1>1. K # {}
  <2>1. PICK q \in Seq(S) : \A x \in S : \E i \in 1 .. Len(q) : q[i] = x
    BY DEF IsFiniteSet
  <2>2. Len(q) \in Nat /\ q \in [1 .. Len(q) -> S]
    OBVIOUS
  <2>3. PICK X \in F : X \subseteq S
    OBVIOUS
  <2>4. Lists(q, Len(q), X)
    BY <2>1, <2>3 DEF Lists
  <2> QED BY <2>2, <2>4
<1>2. PICK k \in K : \A j \in K : k <= j
  <2> HIDE DEF K
  <2>1. K \subseteq Nat
    BY DEF K
  <2> QED BY <1>1, <2>1, LeastNumber
<1>3. PICK X \in F : \E f \in [1 .. k -> S] : Lists(f, k, X)
  OBVIOUS
<1>4. PICK f \in [1 .. k -> S] : Lists(f, k, X)
  BY <1>3
<1>5. ASSUME NEW Y \in F, Y \subseteq X, Y # X
      PROVE  FALSE
  <2>1. PICK a \in X : a \notin Y
    BY <1>5
  <2>2. PICK i \in 1 .. k : f[i] = a
    BY <1>4 DEF Lists
  <2> DEFINE g == [j \in 1 .. k - 1 |-> IF j < i THEN f[j] ELSE f[j + 1]]
  <2>3. k \in Nat /\ k - 1 \in Nat
    OBVIOUS
  <2>4. g \in [1 .. k - 1 -> S]
    BY <2>3
  <2>5. Lists(g, k - 1, Y)
    <3> SUFFICES ASSUME NEW y \in Y PROVE \E j \in 1 .. k - 1 : g[j] = y
      BY DEF Lists
    <3>1. PICK m \in 1 .. k : f[m] = y
      BY <1>4, <1>5 DEF Lists
    <3>2. m # i
      BY <2>1, <2>2, <3>1
    <3>3. CASE m < i
      BY <2>3, <3>1, <3>3
    <3>4. CASE m > i
      <4>1. m - 1 \in 1 .. k - 1 /\ ~(m - 1 < i) /\ (m - 1) + 1 = m
        BY <2>3, <3>4
      <4>2. g[m - 1] = f[(m - 1) + 1]
        BY <4>1
      <4> QED BY <3>1, <4>1, <4>2
    <3> QED BY <3>2, <3>3, <3>4
  <2>6. k - 1 \in K
    BY <2>3, <2>4, <2>5
  <2> QED BY <1>2, <2>3, <2>6
<1> QED BY <1>5

\* The conditions of Shape, read off at one node.
LEMMA AtNode ==
  ASSUME NEW s \in Tree, NEW sub, Shape(s, sub), NEW n \in Node, NEW d \in Side
  PROVE  LET c == Ch(s, d, n)
             k == Ch(s, Other(d), n)
         IN  /\ c \in Ptr /\ (c # NULL => c \in Node) /\ sub[c] \subseteq Node
             /\ n \in sub[n] /\ sub[n] \subseteq Node /\ sub[c] \subseteq sub[n]
             /\ \A a \in Node : a \in sub[n] <=> a = n \/ a \in sub[c] \/ a \in sub[k]
             /\ n \notin sub[c] /\ sub[NULL] = {}
             /\ c # NULL => Par(s, c) = n /\ c # k /\ c \in sub[c] /\ c \in sub[n]
<1> DEFINE c == Ch(s, d, n)
           k == Ch(s, Other(d), n)
<1>1. c \in Ptr /\ (c # NULL => c \in Node)
  BY DEF Tree, Ptr, Ch, Par, Root
<1>2. sub[c] \subseteq Node /\ sub[n] \subseteq Node /\ sub[NULL] = {}
  BY <1>1 DEF Shape, Ptr
<1>3. ShapeAt(s, sub, n, d) /\ (c # NULL => ShapeAt(s, sub, c, d))
  BY <1>1 DEF Shape
<1>4. c # NULL => c \in sub[c]
  <2> HIDE DEF c
  <2> QED BY <1>1, <1>3 DEF ShapeAt
<1> QED BY <1>1, <1>2, <1>3, <1>4 DEF ShapeAt

\* A set of pointers with the property that a node is in it as soon as both of
\* its children are contains them all.
LEMMA SubtreeInduction ==
  ASSUME NEW s \in Tree, NEW sub, Shape(s, sub), NEW P, NULL \in P,
         \A n \in Node : (\A d \in Side : Ch(s, d, n) \in P) => n \in P
  PROVE  Ptr \subseteq P
<1> SUFFICES ASSUME NEW z \in Node, z \notin P PROVE FALSE
  BY DEF Ptr
<1> DEFINE F == {sub[n] : n \in {m \in Node : m \notin P}}
<1>1. F \subseteq SUBSET Node /\ F # {}
  BY DEF Shape, Ptr
<1>2. PICK X \in F : \A Y \in F : Y \subseteq X => Y = X
  <2> HIDE DEF F
  <2> QED BY <1>1, MinimalSet, RbTreeAssumption
<1>3. PICK n \in Node : n \notin P /\ X = sub[n]
  OBVIOUS
<1>4. PICK d \in Side : Ch(s, d, n) \notin P
  BY <1>3
<1>5. Ch(s, d, n) \in Node
  BY <1>4 DEF Tree, Ptr, Ch, Par, Root
<1>6. sub[Ch(s, d, n)] \in F
  BY <1>4, <1>5
<1>7. n \in sub[n] /\ n \notin sub[Ch(s, d, n)] /\ sub[Ch(s, d, n)] \subseteq sub[n]
  BY AtNode
<1> QED BY <1>2, <1>3, <1>6, <1>7

\* The subtree of a node of a subtree lies in it.
LEMMA SubtreeTrans ==
  ASSUME NEW s \in Tree, NEW sub, Shape(s, sub)
  PROVE  \A b \in Ptr : \A a \in Node : a \in sub[b] => sub[a] \subseteq sub[b]
<1> DEFINE P == {b \in Ptr : \A a \in Node : a \in sub[b] => sub[a] \subseteq sub[b]}
<1>1. NULL \in P
  BY DEF Shape, Ptr
<1>2. ASSUME NEW n \in Node, \A d \in Side : Ch(s, d, n) \in P
      PROVE  n \in P
  <2>1. ASSUME NEW a \in Node, a \in sub[n], a # n PROVE sub[a] \subseteq sub[n]
    <3>1. PICK d \in Side : a \in sub[Ch(s, d, n)]
      BY <2>1, AtNode, Sides
    <3>2. sub[a] \subseteq sub[Ch(s, d, n)]
      BY <1>2, <3>1
    <3> QED BY <3>2, AtNode
  <2> QED BY <2>1 DEF Ptr
<1>3. Ptr \subseteq P
  <2> HIDE DEF P
  <2> QED BY <1>1, <1>2, SubtreeInduction
<1> QED BY <1>3

\* Every node of a subtree but its root hangs from a node of the subtree.
LEMMA ParentInSubtree ==
  ASSUME NEW s \in Tree, NEW sub, Shape(s, sub)
  PROVE  \A b \in Ptr : \A a \in Node : a \in sub[b] /\ a # b =>
           Par(s, a) \in sub[b] /\ \E e \in Side : Ch(s, e, Par(s, a)) = a
<1> DEFINE P == {b \in Ptr : \A a \in Node : a \in sub[b] /\ a # b =>
                   Par(s, a) \in sub[b] /\ \E e \in Side : Ch(s, e, Par(s, a)) = a}
<1>1. NULL \in P
  BY DEF Shape, Ptr
<1>2. ASSUME NEW n \in Node, \A d \in Side : Ch(s, d, n) \in P
      PROVE  n \in P
  <2>1. ASSUME NEW a \in Node, a \in sub[n], a # n
        PROVE  Par(s, a) \in sub[n] /\ \E e \in Side : Ch(s, e, Par(s, a)) = a
    <3>1. PICK d \in Side : a \in sub[Ch(s, d, n)]
      BY <2>1, AtNode, Sides
    <3>2. CASE a = Ch(s, d, n)
      <4>1. Par(s, a) = n /\ n \in sub[n]
        BY <3>2, AtNode, RbTreeAssumption
      <4> QED BY <3>2, <4>1
    <3>3. CASE a # Ch(s, d, n)
      BY <1>2, <3>1, <3>3, AtNode
    <3> QED BY <3>2, <3>3
  <2> QED BY <2>1 DEF Ptr
<1>3. Ptr \subseteq P
  <2> HIDE DEF P
  <2> QED BY <1>1, <1>2, SubtreeInduction
<1> QED BY <1>3

\* Two subtrees are nested or disjoint.
LEMMA SubtreesNest ==
  ASSUME NEW s \in Tree, NEW sub, Shape(s, sub)
  PROVE  \A b \in Ptr : \A a \in Node, x \in Node :
           x \in sub[a] /\ x \in sub[b] => a \in sub[b] \/ b \in sub[a]
<1> DEFINE P == {b \in Ptr : \A a \in Node, x \in Node :
                   x \in sub[a] /\ x \in sub[b] => a \in sub[b] \/ b \in sub[a]}
<1>1. NULL \in P
  BY DEF Shape, Ptr
<1>2. ASSUME NEW n \in Node, \A d \in Side : Ch(s, d, n) \in P
      PROVE  n \in P
  <2>1. ASSUME NEW a \in Node, NEW x \in Node, x \in sub[a], x \in sub[n], x # n
        PROVE  a \in sub[n] \/ n \in sub[a]
    <3>1. PICK d \in Side : x \in sub[Ch(s, d, n)]
      BY <2>1, AtNode, Sides
    <3> DEFINE c == Ch(s, d, n)
    <3>2. c \in Node /\ Par(s, c) = n
      BY <3>1, AtNode
    <3>3. a \in sub[c] \/ c \in sub[a]
      BY <1>2, <2>1, <3>1
    <3>4. CASE a \in sub[c]
      BY <3>4, AtNode
    <3>5. CASE c \in sub[a] /\ c # a
      <4>1. Par(s, c) \in sub[a]
        BY <3>2, <3>5, ParentInSubtree DEF Ptr
      <4> QED BY <3>2, <4>1
    <3>6. CASE c = a
      BY <3>2, <3>6, AtNode
    <3> QED BY <3>3, <3>4, <3>5, <3>6
  <2> QED BY <2>1 DEF Ptr
<1>3. Ptr \subseteq P
  <2> HIDE DEF P
  <2> QED BY <1>1, <1>2, SubtreeInduction
<1> QED BY <1>3

\* The subtrees of the two children of a node are disjoint.
LEMMA SidesApart ==
  ASSUME NEW s \in Tree, NEW sub, Shape(s, sub), NEW n \in Node, NEW d \in Side,
         NEW x \in Node, x \in sub[Ch(s, d, n)], x \in sub[Ch(s, Other(d), n)]
  PROVE  FALSE
<1> DEFINE c == Ch(s, d, n)
           k == Ch(s, Other(d), n)
<1>1. /\ c \in Node /\ c # k /\ Par(s, c) = n /\ n \notin sub[c]
      /\ k \in Node /\ Par(s, k) = n /\ n \notin sub[k]
  BY AtNode, Sides
<1>2. c \in sub[k] \/ k \in sub[c]
  BY <1>1, SubtreesNest DEF Ptr
<1> QED BY <1>1, <1>2, ParentInSubtree DEF Ptr

\* Linked nodes: closed under children, parents and subtrees, and each hangs
\* where its parent pointer says; the other nodes have no children.
LEMMA LinkedNodes ==
  ASSUME NEW s \in Tree, NEW sub, Shape(s, sub), NEW n \in Node
  PROVE  /\ n \in Linked(s) => /\ Root(s) \in Node /\ n \in sub[Root(s)]
                               /\ Par(s, n) = NULL <=> n = Root(s)
                               /\ Par(s, n) # NULL =>
                                    /\ Par(s, n) \in Linked(s)
                                    /\ \E e \in Side : Ch(s, e, Par(s, n)) = n
         /\ \A d \in Side : Ch(s, d, n) # NULL => n \in Linked(s) /\ Ch(s, d, n) \in Linked(s)
         /\ Root(s) # NULL => Root(s) \in Linked(s)
<1>0. Root(s) \in Ptr /\ Par(s, n) \in Ptr /\ NULL \notin Node
  BY RbTreeAssumption DEF Tree, Ch, Par, Root
<1>1. n \in Linked(s) => Root(s) \in Node /\ n \in sub[Root(s)]
  BY <1>0 DEF Linked, Shape, Ptr
<1>2. ASSUME n \in Linked(s), n # Root(s)
      PROVE  Par(s, n) \in Linked(s) /\ \E e \in Side : Ch(s, e, Par(s, n)) = n
  <2>1. Par(s, n) \in sub[Root(s)] /\ \E e \in Side : Ch(s, e, Par(s, n)) = n
    BY <1>0, <1>1, <1>2, ParentInSubtree
  <2>2. Par(s, n) \in Node
    BY <1>0, <2>1 DEF Shape
  <2> QED BY <2>1, <2>2 DEF Linked, Shape
<1>3. n \in Linked(s) => (Par(s, n) = NULL <=> n = Root(s))
  BY <1>0, <1>2 DEF Linked, Shape
<1>4. ASSUME NEW d \in Side, Ch(s, d, n) # NULL
      PROVE  n \in Linked(s) /\ Ch(s, d, n) \in Linked(s)
  <2> DEFINE c == Ch(s, d, n)
  <2>1. c \in Node /\ Par(s, c) = n /\ n \notin sub[c] /\ c \in sub[c]
    BY <1>4, AtNode
  <2>2. c \in Linked(s)
    BY <2>1 DEF Linked
  <2>3. c # Root(s)
    BY <1>0, <2>1 DEF Shape
  <2>4. Par(s, c) \in sub[Root(s)]
    BY <1>0, <2>1, <2>2, <2>3, ParentInSubtree DEF Linked, Shape
  <2> QED BY <2>1, <2>2, <2>4 DEF Linked, Shape
<1>5. Root(s) # NULL => Root(s) \in Linked(s)
  BY <1>0 DEF Linked, Shape, Ptr
<1> QED BY <1>1, <1>2, <1>3, <1>4, <1>5

\* A node hangs from one place only.
LEMMA OneParent ==
  ASSUME NEW s \in Tree, NEW sub, Shape(s, sub),
         NEW x \in Node, NEW y \in Node, NEW d \in Side, NEW e \in Side,
         Ch(s, d, x) # NULL, Ch(s, d, x) = Ch(s, e, y)
  PROVE  x = y /\ d = e
BY AtNode, Sides

-----------------------------------------------------------------------------
(***************************************************************************)
(* The recursive functions of RbTree have values: their equations have a   *)
(* solution, whatever the pointers are. It is built from what is reachable.*)
(***************************************************************************)
\* C contains, with an element, all that the relation E leads to from it.
Closed(S, E, C) == \A a \in C, b \in S : <<a, b>> \in E => b \in C

\* What E leads to from a, in any number of steps.
Reach(S, E, a) == {x \in S : \A C \in SUBSET S : a \in C /\ Closed(S, E, C) => x \in C}

\* The first step of a path.
LEMMA ReachStep ==
  ASSUME NEW S, NEW E, NEW a \in S, NEW x \in S
  PROVE  x \in Reach(S, E, a) <=>
           x = a \/ \E b \in S : <<a, b>> \in E /\ x \in Reach(S, E, b)
<1>1. a \in Reach(S, E, a)
  BY DEF Reach
<1>2. ASSUME NEW b \in S, <<a, b>> \in E, x \in Reach(S, E, b)
      PROVE  x \in Reach(S, E, a)
  BY <1>2 DEF Reach, Closed
<1>3. ASSUME x \in Reach(S, E, a)
      PROVE  x = a \/ \E b \in S : <<a, b>> \in E /\ x \in Reach(S, E, b)
  <2> DEFINE C == {y \in S : y = a \/ \E b \in S : <<a, b>> \in E /\ y \in Reach(S, E, b)}
  <2>1. ASSUME NEW y \in C, NEW z \in S, <<y, z>> \in E PROVE z \in C
    <3>1. CASE y = a
      <4>1. z \in Reach(S, E, z)
        BY DEF Reach
      <4> QED BY <2>1, <3>1, <4>1
    <3>2. CASE y # a
      <4>1. PICK b \in S : <<a, b>> \in E /\ y \in Reach(S, E, b)
        BY <3>2
      <4>2. z \in Reach(S, E, b)
        BY <2>1, <4>1 DEF Reach, Closed
      <4> QED BY <4>1, <4>2
    <3> QED BY <3>1, <3>2
  <2>2. a \in C /\ C \in SUBSET S /\ Closed(S, E, C)
    BY <2>1 DEF Closed
  <2>3. x \in C
    <3> HIDE DEF C
    <3> QED BY <1>3, <2>2 DEF Reach
  <2> QED BY <2>3
<1> QED BY <1>1, <1>2, <1>3

\* A loop that goes on from n to next[n] while n \in go and then returns out[n].
Loop(S, go, next, out, f) ==
  f = [n \in S |-> IF n \in go THEN f[next[n]] ELSE out[n]]

\* Such a loop has a result function.
LEMMA LoopHasResult ==
  ASSUME NEW S, NEW go, NEW next, \A n \in S : n \in go => next[n] \in S, NEW out
  PROVE  \E f : Loop(S, go, next, out, f)
<1> DEFINE E == {p \in S \X S : p[1] \in go /\ p[2] = next[p[1]]}
           Stops(n) == {x \in Reach(S, E, n) : x \notin go}
           last(n) == CHOOSE x : x \in Stops(n)
           f == [n \in S |-> out[last(n)]]
<1>0. \A a \in S, b \in S : <<a, b>> \in E <=> a \in go /\ b = next[a]
  OBVIOUS
<1> HIDE DEF E
<1>1. ASSUME NEW n \in S, n \in go PROVE Stops(n) = Stops(next[n])
  <2>1. \A x \in S : x \in Reach(S, E, n) <=> x = n \/ x \in Reach(S, E, next[n])
    BY <1>0, <1>1, ReachStep
  <2>2. Reach(S, E, n) \subseteq S /\ Reach(S, E, next[n]) \subseteq S
    BY DEF Reach
  <2> QED BY <1>1, <2>1, <2>2
<1>2. ASSUME NEW n \in S, n \notin go PROVE Stops(n) = {n}
  <2>1. \A x \in S : x \in Reach(S, E, n) <=> x = n
    BY <1>0, <1>2, ReachStep
  <2>2. Reach(S, E, n) \subseteq S
    BY DEF Reach
  <2> QED BY <1>2, <2>1, <2>2
<1> HIDE DEF Stops
<1>3. ASSUME NEW n \in S PROVE f[n] = IF n \in go THEN f[next[n]] ELSE out[n]
  <2>1. CASE n \in go
    <3>1. next[n] \in S /\ last(n) = last(next[n])
      BY <1>1, <2>1
    <3> HIDE DEF last
    <3> QED BY <2>1, <3>1
  <2>2. CASE n \notin go
    <3>1. last(n) = n
      BY <1>2, <2>2
    <3> HIDE DEF last
    <3> QED BY <2>2, <3>1
  <2> QED BY <2>1, <2>2
<1>4. Loop(S, go, next, out, f)
  BY <1>3 DEF Loop
<1> QED BY <1>4

\* The loops of rb_first, rb_last and of the way down in rb_next and rb_prev.
LEMMA EdgeEquation ==
  ASSUME NEW s \in Tree, NEW d \in Side, NEW n \in Node
  PROVE  Edge(s, d)[n] = IF Ch(s, d, n) = NULL THEN n ELSE Edge(s, d)[Ch(s, d, n)]
<1> DEFINE go == {a \in Node : Ch(s, d, a) # NULL}
           next == [a \in Node |-> Ch(s, d, a)]
           out == [a \in Node |-> a]
           eq(f) == f = [a \in Node |-> IF Ch(s, d, a) = NULL THEN a ELSE f[Ch(s, d, a)]]
<1>1. \A a \in Node : a \in go => next[a] \in Node
  BY TreeTypes DEF Ptr
<1>2. PICK f : Loop(Node, go, next, out, f)
  <2> HIDE DEF go, next, out
  <2> QED BY <1>1, LoopHasResult
<1>3. eq(f)
  <2>1. \A a \in Node : (IF a \in go THEN f[next[a]] ELSE out[a])
                      = (IF Ch(s, d, a) = NULL THEN a ELSE f[Ch(s, d, a)])
    OBVIOUS
  <2> HIDE DEF go, next, out
  <2> QED BY <1>2, <2>1 DEF Loop
<1>4. eq(Edge(s, d))
  BY <1>3, Zenon DEF Edge, Ch
<1> HIDE DEF go, next, out
<1> DEFINE g == Edge(s, d)
<1> HIDE DEF g
<1>5. g = [a \in Node |-> IF Ch(s, d, a) = NULL THEN a ELSE g[Ch(s, d, a)]]
  BY <1>4 DEF g
<1>6. g[n] = IF Ch(s, d, n) = NULL THEN n ELSE g[Ch(s, d, n)]
  BY <1>5, Zenon
<1> QED BY <1>6 DEF g

\* The way up in rb_next and rb_prev.
LEMMA ClimbEquation ==
  ASSUME NEW s \in Tree, NEW d \in Side, NEW n \in Node
  PROVE  Climb(s, d)[n] =
           IF Par(s, n) # NULL /\ Ch(s, d, Par(s, n)) = n THEN Climb(s, d)[Par(s, n)]
           ELSE Par(s, n)
<1> DEFINE up1(a) == Par(s, a) # NULL /\ Ch(s, d, Par(s, a)) = a
           go == {a \in Node : up1(a)}
           next == [a \in Node |-> Par(s, a)]
           out == [a \in Node |-> Par(s, a)]
           eq(f) == f = [a \in Node |-> IF up1(a) THEN f[Par(s, a)] ELSE Par(s, a)]
<1>1. \A a \in Node : a \in go => next[a] \in Node
  BY TreeTypes DEF Ptr
<1>2. PICK f : Loop(Node, go, next, out, f)
  <2> HIDE DEF go, next, out
  <2> QED BY <1>1, LoopHasResult
<1>3. eq(f)
  <2> HIDE DEF up1
  <2>1. \A a \in Node : (IF a \in go THEN f[next[a]] ELSE out[a])
                      = (IF up1(a) THEN f[Par(s, a)] ELSE Par(s, a))
    OBVIOUS
  <2> HIDE DEF go, next, out
  <2> QED BY <1>2, <2>1 DEF Loop
<1>4. eq(Climb(s, d))
  BY <1>3, Zenon DEF Climb, Ch, Par
<1> HIDE DEF go, next, out
<1> DEFINE g == Climb(s, d)
<1> HIDE DEF g
<1>5. g = [a \in Node |-> IF up1(a) THEN g[Par(s, a)] ELSE Par(s, a)]
  BY <1>4 DEF g
<1>6. g[n] = IF up1(n) THEN g[Par(s, n)] ELSE Par(s, n)
  BY <1>5, Zenon
<1> QED BY <1>6 DEF g

\* The loop of maps__find.
LEMMA FindEquation ==
  ASSUME NEW s \in Tree, NEW ip \in Int
  PROVE  /\ FindFrom(s, ip)[NULL] = NULL
         /\ \A n \in Node :
              FindFrom(s, ip)[n] = IF ip < Start[n] THEN FindFrom(s, ip)[Ch(s, "left", n)]
                                   ELSE IF ip >= End[n] THEN FindFrom(s, ip)[Ch(s, "right", n)]
                                   ELSE n
<1> DEFINE go == {a \in Node : ip < Start[a] \/ ip >= End[a]}
           next == [a \in Node |-> Ch(s, IF ip < Start[a] THEN "left" ELSE "right", a)]
           out == [a \in Ptr |-> a]
           eq(f) == f = [a \in Ptr |-> IF a = NULL THEN NULL
                                       ELSE IF ip < Start[a] THEN f[Ch(s, "left", a)]
                                       ELSE IF ip >= End[a] THEN f[Ch(s, "right", a)]
                                       ELSE a]
<1>1. \A a \in Ptr : a \in go => next[a] \in Ptr
  BY TreeTypes, Sides
<1>2. PICK f : Loop(Ptr, go, next, out, f)
  <2> HIDE DEF go, next, out
  <2> QED BY <1>1, LoopHasResult
<1>3. eq(f)
  <2>1. \A a \in Ptr : (IF a \in go THEN f[next[a]] ELSE out[a])
                     = (IF a = NULL THEN NULL
                        ELSE IF ip < Start[a] THEN f[Ch(s, "left", a)]
                        ELSE IF ip >= End[a] THEN f[Ch(s, "right", a)]
                        ELSE a)
    BY RbTreeAssumption DEF Ptr
  <2> HIDE DEF go, next, out
  <2> QED BY <1>2, <2>1 DEF Loop
<1>4. eq(FindFrom(s, ip))
  BY <1>3, Zenon DEF FindFrom, Ch
<1> HIDE DEF go, next, out
<1> DEFINE g == FindFrom(s, ip)
<1> HIDE DEF g
<1>5. g = [a \in Ptr |-> IF a = NULL THEN NULL
                         ELSE IF ip < Start[a] THEN g[Ch(s, "left", a)]
                         ELSE IF ip >= End[a] THEN g[Ch(s, "right", a)]
                         ELSE a]
  BY <1>4 DEF g
<1>6. \A a \in Ptr : g[a] = IF a = NULL THEN NULL
                            ELSE IF ip < Start[a] THEN g[Ch(s, "left", a)]
                            ELSE IF ip >= End[a] THEN g[Ch(s, "right", a)]
                            ELSE a
  BY <1>5, Zenon
<1>7. NULL \in Ptr /\ NULL \notin Node /\ Node \subseteq Ptr
  BY RbTreeAssumption DEF Ptr
<1>8. g[NULL] = NULL
  BY <1>6, <1>7
<1>9. \A n \in Node : g[n] = IF ip < Start[n] THEN g[Ch(s, "left", n)]
                             ELSE IF ip >= End[n] THEN g[Ch(s, "right", n)]
                             ELSE n
  BY <1>6, <1>7, Zenon
<1> QED BY <1>8, <1>9 DEF g

\* The subtree of a node is the node and the subtrees of its children.
LEMMA BelowEquation ==
  ASSUME NEW s \in Tree
  PROVE  /\ DOMAIN Below(s) = Ptr /\ Below(s) = [n \in Ptr |-> Below(s)[n]]
         /\ Below(s)[NULL] = {}
         /\ \A n \in Node : Below(s)[n] =
              {n} \cup Below(s)[Ch(s, "left", n)] \cup Below(s)[Ch(s, "right", n)]
<1> DEFINE E == {p \in Node \X Node : \E d \in Side : p[2] = Ch(s, d, p[1])}
           f == [n \in Ptr |-> IF n = NULL THEN {} ELSE Reach(Node, E, n)]
           body(h, n) == IF n = NULL THEN {}
                         ELSE {n} \cup h[Ch(s, "left", n)] \cup h[Ch(s, "right", n)]
           eq(h) == h = [n \in Ptr |-> body(h, n)]
<1>0. NULL \in Ptr /\ NULL \notin Node /\ Node \subseteq Ptr
  BY RbTreeAssumption DEF Ptr
<1>1. \A a \in Node, b \in Node : <<a, b>> \in E <=> b = Ch(s, "left", a) \/ b = Ch(s, "right", a)
  BY DEF Side
<1>2. ASSUME NEW n \in Node
      PROVE  f[n] = {n} \cup f[Ch(s, "left", n)] \cup f[Ch(s, "right", n)]
  <2> DEFINE l == Ch(s, "left", n)
             r == Ch(s, "right", n)
  <2>1. l \in Ptr /\ r \in Ptr
    BY TreeTypes, Sides
  <2> HIDE DEF E, l, r
  <2>2. ASSUME NEW x \in Node
        PROVE  x \in Reach(Node, E, n) <=> x = n \/ x \in f[l] \/ x \in f[r]
    <3>1. x \in Reach(Node, E, n) <=>
            x = n \/ \E b \in Node : (b = l \/ b = r) /\ x \in Reach(Node, E, b)
      BY <1>1, ReachStep DEF l, r
    <3>2. \A b \in Ptr : x \in f[b] <=> b \in Node /\ x \in Reach(Node, E, b)
      BY <1>0 DEF Ptr
    <3> HIDE DEF f
    <3> QED BY <2>1, <3>1, <3>2
  <2>3. f[n] = Reach(Node, E, n)
    BY <1>0
  <2>4. f[n] \subseteq Node /\ f[l] \subseteq Node /\ f[r] \subseteq Node
    BY <2>1, <2>3 DEF Reach
  <2> HIDE DEF f
  <2>5. f[n] = {n} \cup f[l] \cup f[r]
    BY <2>2, <2>3, <2>4
  <2> QED BY <2>5 DEF l, r
<1>3. eq(f)
  <2>1. f[NULL] = {} /\ DOMAIN f = Ptr /\ f = [n \in Ptr |-> f[n]]
    BY <1>0
  <2> HIDE DEF f
  <2>2. ASSUME NEW n \in Ptr PROVE f[n] = body(f, n)
    BY <1>0, <1>2, <2>1 DEF Ptr
  <2> QED BY <2>1, <2>2
<1>4. eq(Below(s))
  BY <1>3, Zenon DEF Below, Ch
<1> DEFINE g == Below(s)
<1> HIDE DEF g, E, f
<1>5. DOMAIN g = Ptr /\ g = [n \in Ptr |-> g[n]] /\ \A n \in Ptr : g[n] = body(g, n)
  BY <1>4, Zenon DEF g
<1>6. g[NULL] = {} /\ \A n \in Node : g[n] = {n} \cup g[Ch(s, "left", n)] \cup g[Ch(s, "right", n)]
  BY <1>0, <1>5
<1> QED BY <1>5, <1>6 DEF g

-----------------------------------------------------------------------------
(***************************************************************************)
(* The invariants that TLC checks are the conditions on a node and its     *)
(* children.                                                               *)
(***************************************************************************)
\* Subtrees have only nodes: a stray element would be in ever smaller subtrees.
LEMMA SubtreesAreNodes ==
  ASSUME PointersAgree
  PROVE  \A n \in Ptr : Below(t)[n] \subseteq Node
<1> DEFINE sub == Below(t)
           bad == {n \in Node : ~(sub[n] \subseteq Node)}
           F == {sub[n] \cap Node : n \in bad}
<1>0. t \in Tree
  BY DEF PointersAgree
<1>1. /\ sub[NULL] = {} /\ NULL \notin Node
      /\ \A n \in Node : sub[n] = {n} \cup sub[Ch(t, "left", n)] \cup sub[Ch(t, "right", n)]
  BY <1>0, BelowEquation, RbTreeAssumption
<1>2. \A n \in Node, d \in Side : Ch(t, d, n) # NULL => n \notin sub[Ch(t, d, n)]
  BY DEF PointersAgree, Ch
<1> HIDE DEF sub
<1>3. SUFFICES ASSUME bad # {} PROVE FALSE
  <2>1. bad = {} => \A n \in Node : sub[n] \subseteq Node
    OBVIOUS
  <2> QED BY <1>1, <1>3, <2>1 DEF Ptr, sub
<1>4. F \subseteq SUBSET Node /\ F # {}
  BY <1>3
<1>5. PICK X \in F : \A Y \in F : Y \subseteq X => Y = X
  <2> HIDE DEF F
  <2> QED BY <1>4, MinimalSet, RbTreeAssumption
<1>6. PICK n \in bad : X = sub[n] \cap Node
  OBVIOUS
<1>7. PICK d \in Side : ~(sub[Ch(t, d, n)] \subseteq Node)
  <2>1. n \in Node /\ ~(sub[n] \subseteq Node)
    OBVIOUS
  <2>2. ~(sub[Ch(t, "left", n)] \subseteq Node) \/ ~(sub[Ch(t, "right", n)] \subseteq Node)
    BY <1>1, <2>1
  <2> QED BY <2>2, Sides
<1> DEFINE c == Ch(t, d, n)
<1>8. c # NULL /\ c \in Node /\ n \in Node
  BY <1>0, <1>1, <1>7, TreeTypes DEF Ptr
<1>9. n \notin sub[c] /\ n \in sub[n] /\ sub[c] \subseteq sub[n]
  BY <1>1, <1>2, <1>8 DEF Side
<1>10. sub[c] \cap Node \in F
  BY <1>7, <1>8
<1> HIDE DEF F, bad, c
<1> QED BY <1>5, <1>6, <1>8, <1>9, <1>10

\* PointersAgree gives the conditions of Shape.
LEMMA ShapeOfTree ==
  ASSUME PointersAgree
  PROVE  t \in Tree /\ Shape(t, Below(t))
<1> DEFINE sub == Below(t)
<1>0. t \in Tree
  BY DEF PointersAgree
<1>1. /\ sub = [n \in Ptr |-> sub[n]] /\ sub[NULL] = {} /\ NULL \notin Node
      /\ \A n \in Node : sub[n] = {n} \cup sub[Ch(t, "left", n)] \cup sub[Ch(t, "right", n)]
  BY <1>0, BelowEquation, RbTreeAssumption
<1>2. \A n \in Ptr : sub[n] \subseteq Node
  BY SubtreesAreNodes
<1>3. /\ Root(t) # NULL => Par(t, Root(t)) = NULL
      /\ sub[Root(t)] = {n \in Node : Par(t, n) # n}
      /\ \A n \in Node, d \in Side : Ch(t, d, n) # NULL =>
           /\ Par(t, Ch(t, d, n)) = n /\ Ch(t, d, n) # Ch(t, Other(d), n)
           /\ n \notin sub[Ch(t, d, n)]
  BY DEF PointersAgree, Members, RB_EMPTY_NODE, Root, Ch, Par
<1> HIDE DEF sub
<1>4. ASSUME NEW n \in Node, NEW d \in Side PROVE ShapeAt(t, sub, n, d)
  <2>1. \A a \in Node : a \in sub[n] <=> a = n \/ a \in sub[Ch(t, d, n)]
                                               \/ a \in sub[Ch(t, Other(d), n)]
    BY <1>1 DEF Side, Other
  <2> QED BY <1>1, <1>3, <2>1 DEF ShapeAt
<1>5. sub \in [Ptr -> SUBSET Node]
  BY <1>1, <1>2
<1>6. Shape(t, sub)
  BY <1>1, <1>3, <1>4, <1>5 DEF Shape
<1> QED BY <1>0, <1>6 DEF sub

\* InOrder gives the conditions of Ordered: nodes outside the tree have no
\* children.
LEMMA OrderOfTree ==
  ASSUME PointersAgree, InOrder
  PROVE  Ordered(t, Below(t))
<1> DEFINE sub == Below(t)
<1>1. t \in Tree /\ Shape(t, sub)
  BY ShapeOfTree
<1>2. ASSUME NEW n \in Node, NEW d \in Side, NEW a \in Node, a \in sub[Ch(t, d, n)]
      PROVE  OnSide(d, a, n)
  <2>1. n \in sub[Root(t)]
    <3> HIDE DEF sub
    <3>1. Ch(t, d, n) # NULL
      BY <1>1, <1>2 DEF Shape
    <3> QED BY <1>1, <3>1, LinkedNodes
  <2>2. n \in Members(t)
    BY <2>1 DEF Members, Root
  <2>3. /\ \A x \in sub[Ch(t, "left", n)] : Start[x] <= Start[n]
        /\ \A x \in sub[Ch(t, "right", n)] : Start[x] >= Start[n]
    BY <2>2 DEF InOrder, Ch
  <2> HIDE DEF sub
  <2>4. Start[a] \in Int /\ Start[n] \in Int
    BY RbTreeAssumption
  <2> QED BY <1>2, <2>3, <2>4 DEF OnSide, Side
<1> QED BY <1>2 DEF Ordered
-----------------------------------------------------------------------------
(***************************************************************************)
(* maps__find.                                                             *)
(***************************************************************************)
\* Node a's interval contains the address.
Contains(a, ip) == Start[a] <= ip /\ ip < End[a]

\* What the loop of maps__find returns from a subtree.
LEMMA FindInSubtree ==
  ASSUME NEW s \in Tree, NEW sub, Shape(s, sub), Ordered(s, sub), MapsDisjoint, NEW ip \in Int
  PROVE  \A n \in Ptr :
           LET r == FindFrom(s, ip)[n]
           IN  \/ r = NULL /\ \A a \in sub[n] : ~Contains(a, ip)
               \/ r \in sub[n] /\ Contains(r, ip)
<1> DEFINE g == FindFrom(s, ip)
           P == {n \in Ptr : \/ g[n] = NULL /\ \A a \in sub[n] : ~Contains(a, ip)
                             \/ g[n] \in sub[n] /\ Contains(g[n], ip)}
<1>0. /\ g[NULL] = NULL
      /\ \A n \in Node : g[n] = IF ip < Start[n] THEN g[Ch(s, "left", n)]
                                ELSE IF ip >= End[n] THEN g[Ch(s, "right", n)] ELSE n
  BY FindEquation
<1> HIDE DEF g
<1>1. NULL \in P
  BY <1>0 DEF Shape, Ptr
<1>2. ASSUME NEW n \in Node, \A d \in Side : Ch(s, d, n) \in P
      PROVE  n \in P
  <2> DEFINE l == Ch(s, "left", n)
             r == Ch(s, "right", n)
  <2>0. n \in Ptr /\ Start[n] \in Int /\ End[n] \in Int
    BY RbTreeAssumption DEF Ptr
  <2>1. l \in P /\ r \in P
    BY <1>2, Sides
  <2>2. /\ n \in sub[n] /\ sub[n] \subseteq Node /\ sub[l] \subseteq sub[n] /\ sub[r] \subseteq sub[n]
        /\ \A a \in Node : a \in sub[n] <=> a = n \/ a \in sub[l] \/ a \in sub[r]
    BY AtNode, Sides
  <2>3. /\ \A a \in sub[l] : Start[a] <= Start[n]
        /\ \A a \in sub[r] : Start[n] <= Start[a]
    <3>1. /\ \A a \in Node : a \in sub[l] => OnSide("left", a, n)
          /\ \A a \in Node : a \in sub[r] => OnSide("right", a, n)
      BY Sides DEF Ordered
    <3> QED BY <2>2, <3>1 DEF OnSide
  <2> HIDE DEF l, r
  <2>4. CASE ip < Start[n]
    <3>1. g[n] = g[l]
      BY <1>0, <2>4 DEF l
    <3>2. ~Contains(n, ip) /\ \A a \in sub[r] : ~Contains(a, ip)
      <4>1. \A a \in sub[r] : Start[a] \in Int
        BY <2>2, RbTreeAssumption
      <4> QED BY <2>0, <2>3, <2>4, <4>1 DEF Contains
    <3> HIDE DEF Contains
    <3> QED BY <2>0, <2>1, <2>2, <3>1, <3>2
  <2>5. CASE ~(ip < Start[n]) /\ ip >= End[n]
    <3>1. g[n] = g[r]
      BY <1>0, <2>5 DEF r
    <3>2. ASSUME NEW a \in sub[l] PROVE ~Contains(a, ip)
      <4>1. a \in Node /\ Start[a] \in Int /\ End[a] \in Int /\ Start[a] <= Start[n]
        BY <2>2, <2>3, RbTreeAssumption
      <4>2. /\ Start[a] < End[a] /\ Start[n] < End[n]
            /\ \/ Start[a] = Start[n] /\ End[a] = End[n]
               \/ End[a] <= Start[n] \/ End[n] <= Start[a]
        BY <4>1 DEF MapsDisjoint
      <4> QED BY <2>0, <2>5, <4>1, <4>2 DEF Contains
    <3>3. ~Contains(n, ip)
      BY <2>0, <2>5 DEF Contains
    <3> HIDE DEF Contains
    <3> QED BY <2>0, <2>1, <2>2, <3>1, <3>2, <3>3
  <2>6. CASE ~(ip < Start[n]) /\ ~(ip >= End[n])
    <3>1. g[n] = n
      BY <1>0, <2>6
    <3>2. Contains(n, ip)
      BY <2>0, <2>6 DEF Contains
    <3> HIDE DEF Contains
    <3> QED BY <2>0, <2>2, <3>1, <3>2
  <2> QED BY <2>4, <2>5, <2>6
<1>3. Ptr \subseteq P
  <2> HIDE DEF P
  <2> QED BY <1>1, <1>2, SubtreeInduction
<1> QED BY <1>3 DEF g

\* In a tree of any size whose pointers agree and whose nodes are in order,
\* maps__find returns a map that contains the address, and NULL exactly when
\* there is none.
THEOREM FindIsCorrect ==
  ASSUME MapsDisjoint
  PROVE  PointersAgree /\ InOrder => FindsTheMap
<1> SUFFICES ASSUME PointersAgree, InOrder,
                    NEW ip \in Addresses
             PROVE  LET holds == {n \in Members(t) : Start[n] <= ip /\ ip < End[n]}
                    IN  IF holds = {} THEN maps__find(t, ip) = NULL
                        ELSE maps__find(t, ip) \in holds
  BY DEF FindsTheMap
<1> DEFINE holds == {n \in Members(t) : Start[n] <= ip /\ ip < End[n]}
           sub == Below(t)
<1>1. t \in Tree /\ Shape(t, sub) /\ Ordered(t, sub)
  BY ShapeOfTree, OrderOfTree
<1>2. ip \in Int
  BY RbTreeAssumption DEF Addresses
<1>3. Root(t) \in Ptr
  BY <1>1, TreeTypes
<1>4. maps__find(t, ip) = FindFrom(t, ip)[Root(t)] /\ Members(t) = sub[Root(t)]
  BY DEF maps__find, Members, Root
<1>5. sub[Root(t)] \subseteq Node
  BY <1>1, <1>3 DEF Shape
<1> HIDE DEF sub
<1>6. LET r == FindFrom(t, ip)[Root(t)]
      IN  \/ r = NULL /\ \A a \in sub[Root(t)] : ~Contains(a, ip)
          \/ r \in sub[Root(t)] /\ Contains(r, ip)
  BY <1>1, <1>2, <1>3, FindInSubtree
<1>7. IF holds = {} THEN maps__find(t, ip) = NULL ELSE maps__find(t, ip) \in holds
  BY <1>4, <1>5, <1>6 DEF Contains
<1> QED BY <1>7

-----------------------------------------------------------------------------
(***************************************************************************)
(* rb_first, rb_last, rb_next and rb_prev.                                 *)
(***************************************************************************)
\* A set that contains the root, and with a node its children, contains the tree.
LEMMA TopDown ==
  ASSUME NEW s \in Tree, NEW sub, Shape(s, sub), NEW Q, Root(s) # NULL => Root(s) \in Q,
         \A n \in Node, d \in Side : n \in Q /\ Ch(s, d, n) # NULL => Ch(s, d, n) \in Q
  PROVE  Linked(s) \subseteq Q
<1> DEFINE P == {r \in Ptr : r \in Q => \A a \in sub[r] : a \in Q}
<1>1. NULL \in P
  BY DEF Shape, Ptr
<1>2. ASSUME NEW n \in Node, \A d \in Side : Ch(s, d, n) \in P
      PROVE  n \in P
  <2>1. ASSUME n \in Q, NEW a \in sub[n], a # n PROVE a \in Q
    <3>1. a \in Node
      BY AtNode, Sides
    <3>2. PICK d \in Side : a \in sub[Ch(s, d, n)]
      BY <2>1, <3>1, AtNode, Sides
    <3>3. Ch(s, d, n) # NULL
      BY <3>2 DEF Shape
    <3> QED BY <1>2, <2>1, <3>2, <3>3
  <2> QED BY <2>1 DEF Ptr
<1>3. Ptr \subseteq P
  <2> HIDE DEF P
  <2> QED BY <1>1, <1>2, SubtreeInduction
<1>4. ASSUME NEW n \in Linked(s) PROVE n \in Q
  <2>1. n \in Node /\ Root(s) \in Node /\ n \in sub[Root(s)] /\ Root(s) # NULL
    BY LinkedNodes, RbTreeAssumption DEF Linked
  <2> QED BY <1>3, <2>1 DEF Ptr
<1> QED BY <1>4

\* x is the last node on side d of the subtree of n, and the way up from x leads
\* where the way up from n leads.
IsEdge(s, sub, d, n, x) ==
  /\ x \in sub[n] /\ Ch(s, d, x) = NULL /\ Climb(s, d)[x] = Climb(s, d)[n]
  /\ \A a \in sub[n] : OnSide(Other(d), a, x)

\* The way down on one side ends there.
LEMMA EdgeIsLast ==
  ASSUME NEW s \in Tree, NEW sub, Shape(s, sub), Ordered(s, sub), NEW d \in Side, NEW z \in Node
  PROVE  IsEdge(s, sub, d, z, Edge(s, d)[z])
<1> DEFINE E == Edge(s, d)
           P == {n \in Ptr : n # NULL => IsEdge(s, sub, d, n, E[n])}
<1>0. \A n \in Node : E[n] = IF Ch(s, d, n) = NULL THEN n ELSE E[Ch(s, d, n)]
  BY EdgeEquation
<1> HIDE DEF E
<1>1. NULL \in P
  BY DEF Ptr
<1>2. ASSUME NEW n \in Node, \A e \in Side : Ch(s, e, n) \in P
      PROVE  IsEdge(s, sub, d, n, E[n])
  <2> DEFINE c == Ch(s, d, n)
             k == Ch(s, Other(d), n)
  <2>1. /\ n \in sub[n] /\ sub[n] \subseteq Node /\ sub[c] \subseteq sub[n]
        /\ \A a \in Node : a \in sub[n] <=> a = n \/ a \in sub[c] \/ a \in sub[k]
        /\ sub[NULL] = {} /\ Other(d) \in Side
        /\ c # NULL => c \in Node /\ Par(s, c) = n
    BY AtNode, Sides
  <2>2. /\ \A a \in Node : a \in sub[c] => OnSide(d, a, n)
        /\ \A a \in Node : a \in sub[k] => OnSide(Other(d), a, n)
    BY <2>1 DEF Ordered
  <2> HIDE DEF c, k
  <2>3. CASE c = NULL
    <3>1. E[n] = n
      BY <1>0, <2>3 DEF c
    <3>2. \A a \in sub[n] : OnSide(Other(d), a, n)
      BY <2>1, <2>2, <2>3, OnSideOrder
    <3> QED BY <2>1, <2>3, <3>1, <3>2 DEF IsEdge, c
  <2>4. CASE c # NULL
    <3> DEFINE x == E[c]
    <3>1. E[n] = x
      BY <1>0, <2>4 DEF c
    <3> HIDE DEF x
    <3>2. IsEdge(s, sub, d, c, x)
      BY <1>2, <2>4 DEF c, x
    <3>3. x \in Node /\ OnSide(d, x, n) /\ x \in sub[n]
      BY <2>1, <2>2, <3>2 DEF IsEdge
    <3>4. Climb(s, d)[c] = Climb(s, d)[n]
      <4>1. n # NULL
        BY RbTreeAssumption
      <4> QED BY <2>1, <2>4, <4>1, ClimbEquation DEF c
    <3>5. ASSUME NEW a \in sub[n] PROVE OnSide(Other(d), a, x)
      <4>1. a \in Node
        BY <2>1
      <4>2. OnSide(Other(d), n, x)
        BY <3>3, OnSideOrder
      <4>3. CASE a \in sub[c]
        BY <3>2, <4>3 DEF IsEdge
      <4>4. CASE a = n
        BY <4>2, <4>4
      <4>5. CASE a \in sub[k]
        BY <2>1, <2>2, <3>3, <4>1, <4>2, <4>5, OnSideOrder
      <4> QED BY <2>1, <4>1, <4>3, <4>4, <4>5
    <3> QED BY <3>1, <3>2, <3>3, <3>4, <3>5 DEF IsEdge
  <2> QED BY <2>3, <2>4
<1>3. Ptr \subseteq P
  <2>1. \A n \in Node : (\A e \in Side : Ch(s, e, n) \in P) => n \in P
    BY <1>2 DEF Ptr
  <2> HIDE DEF P
  <2> QED BY <1>1, <2>1, SubtreeInduction
<1> QED BY <1>3, RbTreeAssumption DEF E, Ptr

\* A node outside a subtree is on one side of all of it.
LEMMA OutsideIsAside ==
  ASSUME NEW s \in Tree, NEW sub, Shape(s, sub), Ordered(s, sub),
         NEW a \in Linked(s), NEW b \in Linked(s), a \notin sub[b]
  PROVE  \E e \in Side : \A y \in sub[b] : OnSide(e, a, y)
<1> DEFINE Aside(v, w) == \E e \in Side : \A y \in sub[w] : OnSide(e, v, y)
           P == {r \in Ptr : \A v \in sub[r], w \in sub[r] : v \notin sub[w] => Aside(v, w)}
<1> HIDE DEF Aside
<1>1. NULL \in P
  BY DEF Shape, Ptr
<1>2. ASSUME NEW n \in Node, \A d \in Side : Ch(s, d, n) \in P
      PROVE  n \in P
  <2> SUFFICES ASSUME NEW v \in sub[n], NEW w \in sub[n], v \notin sub[w]
               PROVE  Aside(v, w)
    BY DEF Ptr
  <2>1. v \in Node /\ w \in Node /\ w # n
    BY AtNode, Sides
  <2>2. PICK d \in Side : w \in sub[Ch(s, d, n)]
    BY <2>1, AtNode, Sides
  <2> DEFINE c == Ch(s, d, n)
             k == Ch(s, Other(d), n)
  <2>3. /\ c \in Ptr /\ sub[c] \subseteq Node /\ Other(d) \in Side
        /\ v = n \/ v \in sub[c] \/ v \in sub[k]
    BY <2>1, AtNode, Sides
  <2>4. sub[w] \subseteq sub[c]
    BY <2>1, <2>2, <2>3, SubtreeTrans
  <2>5. /\ \A y \in Node : y \in sub[c] => OnSide(d, y, n)
        /\ \A y \in Node : y \in sub[k] => OnSide(Other(d), y, n)
    BY <2>3 DEF Ordered
  <2>6. CASE v \in sub[c]
    BY <1>2, <2>2, <2>6
  <2>7. CASE v = n \/ v \in sub[k]
    <3>1. OnSide(Other(d), v, n)
      BY <2>1, <2>3, <2>5, <2>7, OnSideOrder
    <3>2. ASSUME NEW y \in sub[w] PROVE OnSide(Other(d), v, y)
      <4>1. y \in Node /\ OnSide(d, y, n)
        BY <2>3, <2>4, <2>5
      <4>2. OnSide(Other(d), n, y)
        BY <4>1, OnSideOrder
      <4> QED BY <2>1, <2>3, <3>1, <4>1, <4>2, OnSideOrder
    <3> QED BY <2>3, <3>2 DEF Aside
  <2> QED BY <2>3, <2>6, <2>7
<1>3. Ptr \subseteq P
  <2> HIDE DEF P
  <2> QED BY <1>1, <1>2, SubtreeInduction
<1>4. Root(s) \in Ptr /\ a \in sub[Root(s)] /\ b \in sub[Root(s)]
  BY TreeTypes, LinkedNodes DEF Linked
<1>5. Aside(a, b)
  BY <1>3, <1>4
<1> QED BY <1>5 DEF Aside

\* x is the next node after n on side d, and the way back is a way up.
IsNext(s, d, n, x) ==
  /\ x \in Linked(s) /\ Ch(s, Other(d), x) = NULL /\ Climb(s, Other(d))[x] = n
  /\ OnSide(d, x, n)
  /\ \A a \in Linked(s) : OnSide(Other(d), a, n) \/ OnSide(d, a, x)

\* The way down finds the next node.
LEMMA DownIsNext ==
  ASSUME NEW s \in Tree, NEW sub, Shape(s, sub), Ordered(s, sub),
         NEW n \in Linked(s), NEW d \in Side, Ch(s, d, n) # NULL
  PROVE  IsNext(s, d, n, Edge(s, Other(d))[Ch(s, d, n)])
<1> DEFINE c == Ch(s, d, n)
           k == Ch(s, Other(d), n)
           o == Other(d)
           x == Edge(s, o)[c]
<1>1. n \in Node /\ o \in Side /\ Other(o) = d /\ o # d /\ \A e \in Side : e = d \/ e = o
  BY Sides DEF Linked
<1>2. /\ n \in sub[n] /\ sub[n] \subseteq Node /\ sub[c] \subseteq sub[n]
      /\ \A a \in Node : a \in sub[n] <=> a = n \/ a \in sub[c] \/ a \in sub[k]
      /\ c \in Node /\ Par(s, c) = n /\ c # k
  BY <1>1, AtNode
<1> HIDE DEF o, x
<1>3. IsEdge(s, sub, o, c, x)
  BY <1>1, <1>2, EdgeIsLast DEF x
<1>4. x \in Node /\ OnSide(d, x, n) /\ x \in sub[n]
  BY <1>1, <1>2, <1>3 DEF IsEdge, Ordered
<1>5. Climb(s, o)[c] = n
  BY <1>1, <1>2, ClimbEquation DEF o
<1>6. x \in Linked(s)
  <2>1. Root(s) \in Ptr /\ n \in sub[Root(s)]
    BY <1>1, TreeTypes, LinkedNodes
  <2>2. x \in sub[Root(s)]
    BY <1>1, <1>4, <2>1, SubtreeTrans
  <2> QED BY <1>4, <2>2 DEF Shape, Linked
<1>7. ASSUME NEW a \in Linked(s) PROVE OnSide(o, a, n) \/ OnSide(d, a, x)
  <2>0. a \in Node
    BY DEF Linked
  <2>1. CASE a \in sub[c]
    BY <1>1, <1>3, <2>1 DEF IsEdge
  <2>2. CASE a = n
    BY <1>1, <2>2, OnSideOrder
  <2>3. CASE a \in sub[k]
    BY <1>1, <2>0, <2>3 DEF Ordered, o
  <2>4. CASE a \notin sub[n]
    <3>1. PICK e \in Side : \A y \in sub[n] : OnSide(e, a, y)
      BY <2>4, OutsideIsAside
    <3> QED BY <1>1, <1>2, <1>4, <3>1
  <2> QED BY <1>2, <2>0, <2>1, <2>2, <2>3, <2>4
<1>8. IsNext(s, d, n, x)
  BY <1>3, <1>4, <1>5, <1>6, <1>7 DEF IsNext, IsEdge, o
<1> QED BY <1>8 DEF x, o

\* The way up on side d leads from n to the node whose subtree on the other side
\* has the same last node, and nowhere if n is on the edge of the tree.
LEMMA UpIsBack ==
  ASSUME NEW s \in Tree, NEW sub, Shape(s, sub), NEW z \in Linked(s), NEW d \in Side
  PROVE  LET x == Climb(s, d)[z]
         IN  \/ x = NULL /\ Edge(s, d)[z] = Edge(s, d)[Root(s)]
             \/ x \in Node /\ Ch(s, Other(d), x) # NULL /\ Edge(s, d)[z] = Edge(s, d)[Ch(s, Other(d), x)]
<1> DEFINE C == Climb(s, d)
           E == Edge(s, d)
           o == Other(d)
           Back(n, x) == \/ x = NULL /\ E[n] = E[Root(s)]
                         \/ x \in Node /\ Ch(s, o, x) # NULL /\ E[n] = E[Ch(s, o, x)]
           Q == {n \in Node : Back(n, C[n])}
<1>0. NULL \notin Node /\ Root(s) \in Ptr
  BY TreeTypes, RbTreeAssumption
<1>1. \A n \in Node : E[n] = IF Ch(s, d, n) = NULL THEN n ELSE E[Ch(s, d, n)]
  BY EdgeEquation
<1>2. \A n \in Node : C[n] = IF Par(s, n) # NULL /\ Ch(s, d, Par(s, n)) = n THEN C[Par(s, n)]
                             ELSE Par(s, n)
  BY ClimbEquation
<1>3. o \in Side /\ \A e \in Side : e = d \/ e = o
  BY Sides
<1> HIDE DEF C, E
<1>4. Root(s) # NULL => Root(s) \in Q
  <2>1. Root(s) # NULL => Root(s) \in Node /\ Par(s, Root(s)) = NULL
    BY <1>0 DEF Shape, Ptr
  <2>2. Root(s) # NULL => C[Root(s)] = NULL
    BY <1>2, <2>1
  <2> QED BY <2>1, <2>2
<1>5. ASSUME NEW n \in Node, NEW e \in Side, n \in Q, Ch(s, e, n) # NULL
      PROVE  Ch(s, e, n) \in Q
  <2> DEFINE c == Ch(s, e, n)
  <2>1. c \in Node /\ Par(s, c) = n /\ c # Ch(s, Other(e), n)
    BY <1>5, AtNode
  <2>2. CASE e = d
    <3>1. C[c] = C[n] /\ E[n] = E[c]
      BY <1>0, <1>1, <1>2, <1>5, <2>1, <2>2
    <3> QED BY <1>5, <2>1, <3>1
  <2>3. CASE e = o
    <3>1. C[c] = n
      BY <1>0, <1>2, <2>1, <2>3, Sides
    <3> QED BY <1>5, <2>1, <2>3, <3>1
  <2> QED BY <1>3, <2>2, <2>3
<1>6. Linked(s) \subseteq Q
  <2> HIDE DEF Q
  <2> QED BY <1>4, <1>5, TopDown
<1>7. Back(z, C[z])
  BY <1>6
<1> QED BY <1>7 DEF C, E

\* One step of rb_next or rb_prev: at the end of the tree, or to the next node,
\* from which the opposite step leads back.
LEMMA StepOnce ==
  ASSUME NEW s \in Tree, NEW sub, Shape(s, sub), Ordered(s, sub),
         NEW n \in Linked(s), NEW d \in Side
  PROVE  LET x == rb_step(s, d, n)
         IN  \/ x = NULL /\ n = Edge(s, d)[Root(s)]
             \/ /\ x \in Linked(s) /\ rb_step(s, Other(d), x) = n /\ OnSide(d, x, n)
                /\ \A a \in Linked(s) : OnSide(Other(d), a, n) \/ OnSide(d, a, x)
<1> DEFINE o == Other(d)
           x == rb_step(s, d, n)
<1>1. n \in Node /\ o \in Side /\ Other(o) = d /\ NULL \notin Node
  BY Sides, RbTreeAssumption DEF Linked
<1>2. \A a \in Linked(s), e \in Side :
        rb_step(s, e, a) = IF Ch(s, e, a) # NULL THEN Edge(s, Other(e))[Ch(s, e, a)]
                           ELSE Climb(s, e)[a]
  BY DEF rb_step, RB_EMPTY_NODE, Linked, Ch, Par
<1> HIDE DEF o, x
<1>3. CASE Ch(s, d, n) # NULL
  <2>1. x = Edge(s, o)[Ch(s, d, n)]
    BY <1>2, <1>3 DEF x, o
  <2>2. IsNext(s, d, n, x)
    BY <1>3, <2>1, DownIsNext DEF o
  <2>3. rb_step(s, o, x) = n
    BY <1>1, <1>2, <2>2 DEF IsNext, o
  <2> QED BY <2>2, <2>3 DEF IsNext, o, x
<1>4. CASE Ch(s, d, n) = NULL
  <2>1. x = Climb(s, d)[n] /\ Edge(s, d)[n] = n
    BY <1>1, <1>2, <1>4, EdgeEquation DEF x
  <2>2. \/ x = NULL /\ n = Edge(s, d)[Root(s)]
        \/ x \in Node /\ Ch(s, o, x) # NULL /\ n = Edge(s, d)[Ch(s, o, x)]
    BY <2>1, UpIsBack DEF o
  <2>3. CASE x \in Node /\ Ch(s, o, x) # NULL /\ n = Edge(s, d)[Ch(s, o, x)]
    <3>1. x \in Linked(s)
      BY <1>1, <2>3, LinkedNodes
    <3>2. IsNext(s, o, x, n)
      BY <1>1, <2>3, <3>1, DownIsNext
    <3>3. rb_step(s, o, x) = n
      BY <1>1, <1>2, <2>3, <3>1
    <3>4. OnSide(d, x, n) /\ \A a \in Linked(s) : OnSide(o, a, n) \/ OnSide(d, a, x)
      <4>1. OnSide(o, n, x) /\ \A a \in Linked(s) : OnSide(d, a, x) \/ OnSide(o, a, n)
        BY <1>1, <3>2 DEF IsNext
      <4> QED BY <1>1, <2>3, <4>1, OnSideOrder DEF o
    <3> QED BY <3>1, <3>3, <3>4 DEF o, x
  <2> QED BY <2>2, <2>3 DEF x
<1> QED BY <1>3, <1>4

\* In a tree of any size whose pointers agree and whose nodes are in order,
\* rb_first and rb_last return its ends, rb_next and rb_prev are inverse, and
\* each goes to a node with none in between.
THEOREM StepsAreNeighbours == PointersAgree /\ InOrder => StepIsNeighbour
<1> SUFFICES ASSUME PointersAgree, InOrder PROVE StepIsNeighbour
  OBVIOUS
<1> DEFINE sub == Below(t)
           member == Members(t)
<1>1. t \in Tree /\ Shape(t, sub) /\ Ordered(t, sub)
  BY ShapeOfTree, OrderOfTree
<1>2. member = Linked(t) /\ member = sub[Root(t)] /\ member \subseteq Node
  BY DEF PointersAgree, RB_EMPTY_NODE, Linked, Par, Members, Root
<1>3. Root(t) \in Ptr /\ NULL \notin Node /\ sub[NULL] = {}
  BY <1>1, TreeTypes, RbTreeAssumption DEF Shape
<1>4. \A d \in Side : rb_end(t, d) = IF Root(t) = NULL THEN NULL ELSE Edge(t, d)[Root(t)]
  BY DEF rb_end, Root
<1> HIDE DEF sub, member
<1>5. ASSUME NEW d \in Side PROVE (rb_end(t, d) = NULL) <=> (member = {})
  <2>1. CASE Root(t) = NULL
    BY <1>2, <1>3, <1>4, <2>1
  <2>2. CASE Root(t) # NULL
    <3>1. Root(t) \in Node
      BY <1>3, <2>2 DEF Ptr
    <3>2. Edge(t, d)[Root(t)] \in sub[Root(t)]
      BY <1>1, <3>1, EdgeIsLast DEF IsEdge
    <3> QED BY <1>2, <1>3, <1>4, <2>2, <3>2
  <2> QED BY <2>1, <2>2
<1>6. ASSUME NEW n \in member, NEW d \in Side
      PROVE  LET x == rb_step(t, d, n)
                 lo == IF d = "right" THEN n ELSE x
                 hi == IF d = "right" THEN x ELSE n
             IN  IF x = NULL THEN n = rb_end(t, d)
                 ELSE /\ x \in member /\ rb_step(t, Other(d), x) = n
                      /\ Start[lo] <= Start[hi]
                      /\ \A a \in member : ~(Start[lo] < Start[a] /\ Start[a] < Start[hi])
  <2> DEFINE x == rb_step(t, d, n)
             back == rb_step(t, Other(d), x)
             lo == IF d = "right" THEN n ELSE x
             hi == IF d = "right" THEN x ELSE n
  <2>1. \/ x = NULL /\ n = Edge(t, d)[Root(t)]
        \/ /\ x \in member /\ back = n /\ OnSide(d, x, n)
           /\ \A a \in member : OnSide(Other(d), a, n) \/ OnSide(d, a, x)
    BY <1>1, <1>2, StepOnce
  <2> HIDE DEF x, back
  <2>2. CASE x = NULL
    <3>1. n = Edge(t, d)[Root(t)]
      BY <1>2, <1>3, <2>1, <2>2
    <3>2. Root(t) # NULL
      BY <1>2, <1>3
    <3> QED BY <1>4, <2>2, <3>1, <3>2 DEF x
  <2>3. CASE x # NULL
    <3>1. /\ x \in member /\ back = n /\ OnSide(d, x, n)
          /\ \A a \in member : OnSide(Other(d), a, n) \/ OnSide(d, a, x)
      BY <2>1, <2>3
    <3>2. \A a \in member : Start[a] \in Int
      BY <1>2, RbTreeAssumption
    <3>3. Start[lo] <= Start[hi] /\ \A a \in member : ~(Start[lo] < Start[a] /\ Start[a] < Start[hi])
      <4>1. CASE d = "right"
        BY <3>1, <3>2, <4>1 DEF OnSide, Other
      <4>2. CASE d = "left"
        BY <3>1, <3>2, <4>2 DEF OnSide, Other
      <4> QED BY <4>1, <4>2 DEF Side
    <3> HIDE DEF lo, hi
    <3>4. x = rb_step(t, d, n) /\ back = rb_step(t, Other(d), x)
      BY DEF x, back
    <3> QED BY <2>3, <3>1, <3>3 DEF lo, hi, x, back
  <2> QED BY <2>2, <2>3
<1> QED BY <1>5, <1>6 DEF StepIsNeighbour, member
=============================================================================
