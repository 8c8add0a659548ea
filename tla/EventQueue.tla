----------------------------- MODULE EventQueue -----------------------------
(***************************************************************************)
(* What the Queue of examples/queue.h promises to the tracing program:     *)
(* contexts are taken once each, by any worker, in the order in which they *)
(* were pushed.                                                            *)
(***************************************************************************)
EXTENDS Sequences

CONSTANTS Event, Worker

VARIABLES
  contents,  \* pushed and not yet taken
  taken      \* what was taken, in order, and by whom

Init == contents = <<>> /\ taken = <<>>

Push(e) == contents' = Append(contents, e) /\ UNCHANGED taken

Take(w) ==
  /\ contents # <<>>
  /\ taken' = Append(taken, <<Head(contents), w>>)
  /\ contents' = Tail(contents)

Next == (\E e \in Event : Push(e)) \/ (\E w \in Worker : Take(w))

Spec == Init /\ [][Next]_<<contents, taken>>
=============================================================================
