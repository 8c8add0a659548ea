------------------------------ MODULE MCUnwind ------------------------------
(***************************************************************************)
(* A 5-bit address space with 2-byte words. The stack pointers put the     *)
(* capture below, across and against the end of the address space.         *)
(***************************************************************************)
EXTENDS Unwind

Pointers == {9, 28, 31}

\* One in each map and one in none.
CodeAddresses == {4, 8, 15, 25}

\* libc is mapped twice (two segments), prog once with its header in front of
\* the mapped part of the file.
TheMaps == {[start |-> 2, end |-> 6, pgoff |-> 3, dso |-> "libc"],
            [start |-> 6, end |-> 9, pgoff |-> 1, dso |-> "libc"],
            [start |-> 20, end |-> 26, pgoff |-> 12, dso |-> "prog"]}

\* The header is not the only section.
TheSections ==
  [libc |-> <<[name |-> ".text", sh_offset |-> 3], [name |-> ".eh_frame_hdr", sh_offset |-> 4],
              [name |-> ".eh_frame", sh_offset |-> 30]>>,
   prog |-> <<[name |-> ".eh_frame_hdr", sh_offset |-> 4], [name |-> ".text", sh_offset |-> 12]>>]

\* omit, ptr, pcrel|sdata4, datarel|sdata4 (refused), pcrel|udata8.
Encodings == {255, 0, 27, 59, 20}
=============================================================================
