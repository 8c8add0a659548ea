------------------------------ MODULE MCRbTree ------------------------------
(***************************************************************************)
(* An instance of RbTree: ten maps, some of them adjacent and one of them  *)
(* there twice.                                                            *)
(***************************************************************************)
EXTENDS RbTree

\* Ten nodes are the least with which the removal's loop goes up the tree.
Nodes == 1 .. 10

\* [2,4) [4,5) [6,8) ...: odd ones touch the next. The last repeats
\* the fifth, as when thread_map is called again for a process.
MapNumber(n) == IF n = 10 THEN 5 ELSE n
MapStart == [n \in Nodes |-> 2 * MapNumber(n)]
MapEnd == [n \in Nodes |-> 2 * MapNumber(n) + (IF MapNumber(n) % 2 = 1 THEN 2 ELSE 1)]

\* FindsTheMap is about such maps.
ASSUME MapsDisjoint
=============================================================================
