----------------------------- MODULE MCDsoCache -----------------------------
(***************************************************************************)
(* Instances of DsoCache for TLC: chunks of 4 bytes.                       *)
(***************************************************************************)
EXTENDS DsoCache

CONSTANTS r1, r2

\* File of 10 bytes: two full chunks and a short one; every range that begins
\* before end of file, the ones that cross it included.
BeforeEof == {q \in (0 .. 9) \X (1 .. 11) : q[1] \in {0, 3, 4, 7, 9}}

\* Ranges inside the file, one crossing each chunk boundary.
InsideFile == {<<0, 2>>, <<2, 4>>, <<6, 4>>}

\* Three chunks may be linked and each reader may have one more. The allocator
\* gives the lowest free address, so what was freed is soon in use again.
Addresses == 1 .. 3 + Cardinality(Reader)
FirstFit == [used \in SUBSET Addr |->
              {a \in Addr \ used : \A b \in Addr \ used : a <= b}]

\* A range that begins exactly at end of file.
AtEof == {<<8, 1>>, <<10, 1>>}
=============================================================================
