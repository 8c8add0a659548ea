------------------------------ MODULE MCMachine ------------------------------
(***************************************************************************)
(* Instances of Machine for TLC.  Tids 1 and 3 share a bucket of the table *)
(* of two, 2 has the other one.                                            *)
(***************************************************************************)
EXTENDS Machine

CONSTANTS libc, prog
=============================================================================
