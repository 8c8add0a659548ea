------------------------------- MODULE RbTree -------------------------------
(***************************************************************************)
(* The red-black tree that holds threads, maps, dsos and cache chunks      *)
(* (rbtree.c, rbtree_augmented.h, rbtree.h), at the level of its pointers. *)
(* Every iteration of a loop of the source is one step; left and right     *)
(* mirror images are one definition with a side d and its opposite.        *)
(*                                                                         *)
(* A node n carries the half-open interval [Start[n], End[n]); insertion   *)
(* and lookup are the ones of map.c, which order the nodes by Start.       *)
(***************************************************************************)
EXTENDS Integers, FiniteSets

CONSTANTS
  Node,   \* the nodes, only compared for identity
  Start,  \* map->start of each node
  End,    \* map->end of each node
  NULL

ASSUME RbTreeAssumption ==
  /\ IsFiniteSet(Node) /\ NULL \notin Node
  /\ Start \in [Node -> Int] /\ End \in [Node -> Int]

\* What a pointer to a node holds.
Ptr == Node \cup {NULL}

Side == {"left", "right"}
Other(d) == IF d = "left" THEN "right" ELSE "left"

VARIABLES
  t,     \* the tree: root, ch (rb_left and rb_right), par, col
  pc,    \* idle, descend, insert_color, successor, erase_color
  node,  \* local of the loop in progress
  up,    \* local `parent' of the loop in progress
  arg    \* the node being inserted or erased

vars == <<t, pc, node, up, arg>>

\* A node outside every tree is its own parent (RB_CLEAR_NODE).
Init ==
  /\ t = [root |-> NULL, ch |-> [d \in Side |-> [n \in Node |-> NULL]],
          par |-> [n \in Node |-> n], col |-> [n \in Node |-> "red"]]
  /\ pc = "idle" /\ node = NULL /\ up = NULL /\ arg = NULL

RB_EMPTY_NODE(s, n) == s.par[n] = n

Red(s, n) == n # NULL /\ s.col[n] = "red"

SetChild(s, d, p, n) == [s EXCEPT !.ch[d][p] = n]

rb_set_parent(s, n, p) == [s EXCEPT !.par[n] = p]

rb_set_parent_color(s, n, p, c) == [s EXCEPT !.par[n] = p, !.col[n] = c]

\* Mutant: only the parent is set.
Mutant_Blacken_parent(s, n, p) == IF n = NULL THEN s ELSE rb_set_parent(s, n, p)

\* Mutant: only the colour is set.
Mutant_Blacken_colour(s, n, p) == IF n = NULL THEN s ELSE [s EXCEPT !.col[n] = "black"]

\* `if (n) rb_set_parent_color(n, p, RB_BLACK)'
BlackenIfAny(s, n, p) == IF n = NULL THEN s ELSE rb_set_parent_color(s, n, p, "black")

rb_change_child(s, old, new, p) ==
  IF p = NULL THEN [s EXCEPT !.root = new]
  ELSE SetChild(s, IF s.ch["left"][p] = old THEN "left" ELSE "right", p, new)

rb_rotate_set_parents(s, old, new, c) ==
  rb_change_child(
    rb_set_parent_color(rb_set_parent_color(s, new, s.par[old], s.col[old]), old, new, c),
    old, new, s.par[old])

(***************************************************************************)
(* Insertion: the descent of __maps__insert, rb_link_node, rb_insert_color.*)
(***************************************************************************)
Insert(n) ==
  /\ pc = "idle" /\ RB_EMPTY_NODE(t, n)
  /\ pc' = "descend" /\ arg' = n /\ node' = t.root /\ up' = NULL
  /\ UNCHANGED t

\* Mutant: the comparison is inverted.
Mutant_InsertSide(n, p) == IF Start[n] > Start[p] THEN "left" ELSE "right"

InsertSide(n, p) == IF Start[n] < Start[p] THEN "left" ELSE "right"

\* Mutant: the loop does not advance.
Mutant_Descend ==
  /\ pc = "descend" /\ node # NULL
  /\ up' = node
  /\ UNCHANGED <<t, pc, node, arg>>

Descend ==
  /\ pc = "descend" /\ node # NULL
  /\ up' = node /\ node' = t.ch[InsertSide(arg, node)][node]
  /\ UNCHANGED <<t, pc, arg>>

\* Mutant: the node is linked black.
Mutant_rb_link_node ==
  /\ pc = "descend" /\ node = NULL
  /\ LET clean == rb_set_parent_color(t, arg, up, "black")
     IN  t' = IF up = NULL THEN [clean EXCEPT !.root = arg]
              ELSE SetChild(clean, InsertSide(arg, up), up, arg)
  /\ pc' = "insert_color" /\ node' = arg
  /\ UNCHANGED <<up, arg>>

\* A linked node is red: its parent pointer is stored with colour bit 0.
rb_link_node ==
  /\ pc = "descend" /\ node = NULL
  /\ LET clean == [rb_set_parent_color(t, arg, up, "red") EXCEPT
                     !.ch["left"][arg] = NULL, !.ch["right"][arg] = NULL]
     IN  t' = IF up = NULL THEN [clean EXCEPT !.root = arg]
              ELSE SetChild(clean, InsertSide(arg, up), up, arg)
  /\ pc' = "insert_color" /\ node' = arg
  /\ UNCHANGED <<up, arg>>

\* Case 2 rotates at p when n is its inner child; case 3 then rotates at g.
InsertRotate(s, n, p, g, d) ==
  LET o     == Other(d)
      inner == s.ch[o][p] = n
      in1   == s.ch[d][n]
      s1    == IF ~inner THEN s
               ELSE rb_set_parent_color(
                      BlackenIfAny(SetChild(SetChild(s, o, p, in1), d, n, p), in1, p),
                      p, n, "red")
      q     == IF inner THEN n ELSE p
      in2   == s1.ch[o][q]
  IN  rb_rotate_set_parents(
        BlackenIfAny(SetChild(SetChild(s1, d, g, in2), o, q, g), in2, g), g, q, "red")

Done == pc' = "idle" /\ node' = NULL /\ up' = NULL /\ arg' = NULL

\* One iteration of __rb_insert with the locals node and parent (up).
rb_insert ==
  /\ pc = "insert_color"
  /\ IF up = NULL
     THEN t' = rb_set_parent_color(t, node, NULL, "black") /\ Done
     ELSE IF ~Red(t, up)
     THEN UNCHANGED t /\ Done
     ELSE LET g == t.par[up]
              d == IF t.ch["right"][g] = up THEN "right" ELSE "left"
              u == t.ch[Other(d)][g]
          IN  IF Red(t, u)
              THEN /\ t' = rb_set_parent_color(
                             rb_set_parent_color(
                               rb_set_parent_color(t, u, g, "black"), up, g, "black"),
                             g, t.par[g], "red")
                   /\ node' = g /\ up' = t.par[g]
                   /\ UNCHANGED <<pc, arg>>
              ELSE t' = InsertRotate(t, node, up, g, d) /\ Done

(***************************************************************************)
(* Removal: __rb_erase_augmented, ____rb_erase_color, RB_CLEAR_NODE.       *)
(***************************************************************************)
\* rb_erase_init clears the node after the rebalancing; nothing reads it in
\* between, so it is cleared when it is unlinked. What is left in its child
\* pointers and colour is overwritten by rb_link_node before it is read again;
\* the model forgets it.
Unlinked(s, n) == [rb_set_parent_color(s, n, n, "red") EXCEPT
                     !.ch["left"][n] = NULL, !.ch["right"][n] = NULL]

\* Mutant: the fixup starts one level too high.
Mutant_Rebalance(p) ==
  IF p = NULL THEN Done
  ELSE pc' = "erase_color" /\ node' = NULL /\ up' = t.par[p] /\ UNCHANGED arg

\* Rebalance at p if there is one, else the removal is over.
Rebalance(p) ==
  IF p = NULL THEN Done
  ELSE pc' = "erase_color" /\ node' = NULL /\ up' = p /\ UNCHANGED arg

\* Case 1: at most one child.
EraseEasy(n) ==
  LET l == t.ch["left"][n]
      r == t.ch["right"][n]
      c == IF l = NULL THEN r ELSE l
      p == t.par[n]
      s == rb_change_child(t, n, c, p)
  IN  /\ pc = "idle" /\ ~RB_EMPTY_NODE(t, n)
      /\ l = NULL \/ r = NULL
      /\ arg' = n
      /\ t' = Unlinked(IF c = NULL THEN s
                       ELSE rb_set_parent_color(s, c, p, t.col[n]), n)
      /\ IF c = NULL /\ t.col[n] = "black" /\ p # NULL
         THEN pc' = "erase_color" /\ node' = NULL /\ up' = p
         ELSE pc' = "idle" /\ node' = NULL /\ up' = NULL

\* Two children: look for the successor, starting at the right child.
EraseInner(n) ==
  /\ pc = "idle" /\ ~RB_EMPTY_NODE(t, n)
  /\ t.ch["left"][n] # NULL /\ t.ch["right"][n] # NULL
  /\ pc' = "successor" /\ arg' = n /\ node' = t.ch["right"][n] /\ up' = t.ch["right"][n]
  /\ UNCHANGED t

SuccessorLoop ==
  /\ pc = "successor" /\ t.ch["left"][node] # NULL
  /\ up' = node /\ node' = t.ch["left"][node]
  /\ UNCHANGED <<t, pc, arg>>

\* Cases 2 and 3: the successor takes the place and the colour of the node.
ReplaceBySuccessor(s, n, succ, p) ==
  LET right == s.ch["right"][n]
      left  == s.ch["left"][n]
      c2    == s.ch["right"][succ]
      s1    == IF succ = right THEN s
               ELSE rb_set_parent(SetChild(SetChild(s, "left", p, c2), "right", succ, right),
                                  right, succ)
      s2    == rb_set_parent(SetChild(s1, "left", succ, left), left, succ)
      s3    == rb_change_child(s2, n, succ, s.par[n])
      s4    == rb_set_parent_color(s3, succ, s.par[n], s.col[n])
  IN  BlackenIfAny(s4, c2, p)

\* Mutant: the successor is unlinked and the node stays.
Mutant_EraseReplace ==
  LET c2 == t.ch["right"][node]
      p  == t.par[node]
  IN  /\ pc = "successor" /\ t.ch["left"][node] = NULL
      /\ t' = Unlinked(BlackenIfAny(rb_change_child(t, node, c2, p), c2, p), node)
      /\ Rebalance(IF c2 = NULL /\ t.col[node] = "black" THEN p ELSE NULL)

EraseReplace ==
  /\ pc = "successor" /\ t.ch["left"][node] = NULL
  /\ t' = Unlinked(ReplaceBySuccessor(t, arg, node, up), arg)
  /\ Rebalance(IF t.ch["right"][node] = NULL /\ t.col[node] = "black" THEN up ELSE NULL)

\* Case 1 of the fixup: a red sibling sb is rotated above p.
EraseCase1(s, p, sb, d) ==
  LET in == s.ch[d][sb]
  IN  rb_rotate_set_parents(
        rb_set_parent_color(SetChild(SetChild(s, Other(d), p, in), d, sb, p), in, p, "black"),
        p, sb, "red")

\* Case 3: the sibling's red inner child is rotated above it.
EraseCase3(s, p, sb, in, d) ==
  LET o == Other(d)
      c == s.ch[o][in]
  IN  BlackenIfAny(SetChild(SetChild(SetChild(s, d, sb, c), o, in, sb), o, p, in), c, sb)

\* Case 4: the sibling is rotated above p and takes its colour; out is its
\* outer child.
EraseCase4(s, p, sb, out, d) ==
  LET in == s.ch[d][sb]
      s1 == rb_set_parent_color(SetChild(SetChild(s, Other(d), p, in), d, sb, p),
                                out, sb, "black")
      s2 == IF in = NULL THEN s1 ELSE rb_set_parent(s1, in, p)
  IN  rb_rotate_set_parents(s2, p, sb, "black")

\* One iteration of ____rb_erase_color with the locals node and parent (up).
rb_erase_color ==
  /\ pc = "erase_color"
  /\ LET d   == IF t.ch["right"][up] # node THEN "left" ELSE "right"
         o   == Other(d)
         sb0 == t.ch[o][up]
         s   == IF Red(t, sb0) THEN EraseCase1(t, up, sb0, d) ELSE t
         sb  == IF Red(t, sb0) THEN t.ch[d][sb0] ELSE sb0
         out == s.ch[o][sb]
         in  == s.ch[d][sb]
     IN  IF Red(s, out)
         THEN t' = EraseCase4(s, up, sb, out, d) /\ Done
         ELSE IF Red(s, in)
         THEN t' = EraseCase4(EraseCase3(s, up, sb, in, d), up, in, sb, d) /\ Done
         ELSE LET flip == rb_set_parent_color(s, sb, up, "red")
              IN  IF Red(s, up)
                  THEN t' = [flip EXCEPT !.col[up] = "black"] /\ Done
                  ELSE /\ t' = flip
                       /\ IF s.par[up] = NULL THEN Done
                          ELSE node' = up /\ up' = s.par[up] /\ UNCHANGED <<pc, arg>>

\* The steps of a call that has begun.
Continue ==
  \/ Descend \/ rb_link_node \/ rb_insert
  \/ SuccessorLoop \/ EraseReplace \/ rb_erase_color

Next == Continue \/ \E n \in Node : Insert(n) \/ EraseEasy(n) \/ EraseInner(n)

Spec == Init /\ [][Next]_vars

\* A call that has begun is carried to its end.
FairSpec == Spec /\ WF_vars(Continue)
-----------------------------------------------------------------------------
(***************************************************************************)
(* Lookups, which change nothing.                                          *)
(***************************************************************************)
\* The loops of rb_first and rb_last, and of the way down in rb_next and rb_prev.
Edge(s, d) ==
  LET f[n \in Node] == IF s.ch[d][n] = NULL THEN n ELSE f[s.ch[d][n]] IN f

\* rb_first (d = left) and rb_last (d = right).
rb_end(s, d) == IF s.root = NULL THEN NULL ELSE Edge(s, d)[s.root]

\* The way up in rb_next and rb_prev.
Climb(s, d) ==
  LET f[n \in Node] ==
        IF s.par[n] # NULL /\ s.ch[d][s.par[n]] = n THEN f[s.par[n]] ELSE s.par[n]
  IN  f

\* Mutant: the way up stops at the first parent.
Mutant_rb_step(s, d, n) ==
  IF RB_EMPTY_NODE(s, n) THEN NULL
  ELSE IF s.ch[d][n] # NULL THEN Edge(s, Other(d))[s.ch[d][n]]
  ELSE s.par[n]

\* rb_next (d = right) and rb_prev (d = left).
rb_step(s, d, n) ==
  IF RB_EMPTY_NODE(s, n) THEN NULL
  ELSE IF s.ch[d][n] # NULL THEN Edge(s, Other(d))[s.ch[d][n]]
  ELSE Climb(s, d)[n]

\* Mutant: the end of an interval belongs to it.
Mutant_FindFrom(s, ip) ==
  LET f[n \in Ptr] == IF n = NULL THEN NULL
                      ELSE IF ip < Start[n] THEN f[s.ch["left"][n]]
                      ELSE IF ip > End[n] THEN f[s.ch["right"][n]]
                      ELSE n
  IN  f

\* The loop of maps__find.
FindFrom(s, ip) ==
  LET f[n \in Ptr] == IF n = NULL THEN NULL
                      ELSE IF ip < Start[n] THEN f[s.ch["left"][n]]
                      ELSE IF ip >= End[n] THEN f[s.ch["right"][n]]
                      ELSE n
  IN  f

maps__find(s, ip) == FindFrom(s, ip)[s.root]
-----------------------------------------------------------------------------
(***************************************************************************)
(* Properties.                                                             *)
(***************************************************************************)
\* The nodes between n and the root, n included.
PathUp(s) ==
  LET f[n \in Ptr] == IF n = NULL THEN {} ELSE {n} \cup f[s.par[n]] IN f

\* The nodes of the subtree of n.
Below(s) ==
  LET f[n \in Ptr] == IF n = NULL THEN {}
                      ELSE {n} \cup f[s.ch["left"][n]] \cup f[s.ch["right"][n]]
  IN  f

Members(s) == Below(s)[s.root]

\* Black nodes on the path from the root to a leaf hanging from n.
BlackCount(s, n) == Cardinality({a \in PathUp(s)[n] : s.col[a] = "black"})

\* The leaves: sides on which a member has no child.
Leaf(s) == {x \in Members(s) \X Side : s.ch[x[2]][x[1]] = NULL}

EqualBlackCounts(s) == Cardinality({BlackCount(s, x[1]) : x \in Leaf(s)}) <= 1

Tree == [root : Ptr, ch : [Side -> [Node -> Ptr]], par : [Node -> Ptr],
         col : [Node -> {"red", "black"}]]

\* In every state, rotations included, the pointers are those of one tree: a
\* child points back to its parent, no node is below itself or a child twice,
\* and the nodes reachable from the root are exactly those that are not
\* RB_EMPTY_NODE: the asserts of map__exit and thread__delete test what they
\* mean to test.
PointersAgree ==
  /\ t \in Tree
  /\ t.root # NULL => t.par[t.root] = NULL
  /\ \A n \in Node, d \in Side : LET c == t.ch[d][n] IN
       c # NULL => t.par[c] = n /\ c # t.ch[Other(d)][n] /\ n \notin Below(t)[c]
  /\ Members(t) = {n \in Node : ~RB_EMPTY_NODE(t, n)}

\* rbtree.c, properties 2, 4 and 5: whenever no operation is in progress the
\* root is black, a red node has black children and all leaf paths have the
\* same number of black nodes.
RedBlack ==
  pc = "idle" =>
    /\ ~Red(t, t.root)
    /\ \A n \in Members(t), d \in Side : Red(t, n) => ~Red(t, t.ch[d][n])
    /\ EqualBlackCounts(t)

\* The loop invariants that ____rb_erase_color states: node is black or NULL,
\* it is not the root, and the leaf paths through it are one black node short
\* of all the others.
EraseLoopInvariant ==
  pc = "erase_color" =>
    /\ up # NULL /\ up \in Members(t) /\ ~Red(t, node)
    /\ \E d \in Side : t.ch[d][up] = node
    /\ LET short == {x \in Leaf(t) : IF node = NULL THEN x[1] = up
                                     ELSE x[1] \in Below(t)[node]}
           Counts(S) == {BlackCount(t, x[1]) : x \in S}
       IN  \A i \in Counts(short), j \in Counts(Leaf(t) \ short) : i + 1 = j

\* The loop invariant of __rb_insert: node is red, and it is the only node
\* that can make a red parent have a red child.
InsertLoopInvariant ==
  pc = "insert_color" =>
    /\ Red(t, node) /\ t.par[node] = up
    /\ \A n \in Members(t) \ {node} : Red(t, n) => ~Red(t, t.par[n])
    /\ EqualBlackCounts(t)

\* In every state, in the middle of rebalancing included, walking the tree
\* with rb_first and rb_next gives the nodes in the order of Start.
InOrder ==
  \A n \in Members(t) :
    /\ \A a \in Below(t)[t.ch["left"][n]] : Start[a] <= Start[n]
    /\ \A a \in Below(t)[t.ch["right"][n]] : Start[a] >= Start[n]

\* rb_next and rb_prev are inverse and visit the members in order: the
\* successor is not before the node, and nothing lies between the two.
StepIsNeighbour ==
  pc = "idle" => LET member == Members(t) IN
    /\ \A d \in Side : (rb_end(t, d) = NULL) <=> (member = {})
    /\ \A n \in member, d \in Side :
         LET x == rb_step(t, d, n)
             lo == IF d = "right" THEN n ELSE x
             hi == IF d = "right" THEN x ELSE n
         IN  IF x = NULL THEN n = rb_end(t, d)
             ELSE /\ x \in member /\ rb_step(t, Other(d), x) = n
                  /\ Start[lo] <= Start[hi]
                  /\ \A a \in member : ~(Start[lo] < Start[a] /\ Start[a] < Start[hi])

\* What the kernel guarantees of the mappings of one address space, and a map
\* that is reported twice: intervals are not empty, and equal or apart.
MapsDisjoint ==
  \A a, b \in Node :
    /\ Start[a] < End[a]
    /\ \/ Start[a] = Start[b] /\ End[a] = End[b]
       \/ End[a] <= Start[b]
       \/ End[b] <= Start[a]

Addresses == UNION {Start[n] .. End[n] : n \in Node}

\* With intervals as in MapsDisjoint, maps__find returns one that
\* contains the address, and NULL exactly when there is none.
FindsTheMap ==
  pc = "idle" => LET member == Members(t) IN
    \A ip \in Addresses :
      LET holds == {n \in member : Start[n] <= ip /\ ip < End[n]}
      IN  IF holds = {} THEN maps__find(t, ip) = NULL ELSE maps__find(t, ip) \in holds

\* Only the node of the operation in progress joins or leaves the tree.
OnlyArgMoves ==
  [][LET old == Members(t)
         new == Members(t')
     IN  (old \ new) \cup (new \ old) \subseteq {arg, arg'}]_t

\* Every insertion and removal ends: whatever is in progress, the tree is at
\* rest again later.
OperationsEnd == []<>(pc = "idle")
=============================================================================
