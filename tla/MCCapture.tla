----------------------------- MODULE MCCapture -----------------------------
(***************************************************************************)
(* Capture on two cpus with rings of two contexts.                         *)
(***************************************************************************)
EXTENDS Capture, TLC

CONSTANTS c1, c2, w1

TwoCpus == {c1, c2}

\* Cpus are interchangeable.
Symmetry == Permutations(TwoCpus)
=============================================================================
