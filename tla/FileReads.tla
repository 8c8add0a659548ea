----------------------------- MODULE FileReads -----------------------------
(***************************************************************************)
(* What the data cache of a dso promises to its readers: a read is         *)
(* answered once, with an error or with the file's own bytes of its range, *)
(* cut at end of file, as if there were no chunks and no other reader.     *)
(***************************************************************************)
EXTENDS Integers

CONSTANTS Reader, FileSize, Request, NULL

VARIABLE call  \* each reader's last call: state, req, and the answer ret

NoCall == [state |-> "idle", req |-> NULL, ret |-> 0]

Init == call = [r \in Reader |-> NoCall]

Ask(r, q) ==
  /\ call[r].state # "busy"
  /\ call' = [call EXCEPT ![r] = [state |-> "busy", req |-> q, ret |-> 0]]

Refuse(r, q) ==
  /\ call[r].state # "busy"
  /\ call' = [call EXCEPT ![r] = [state |-> "done", req |-> q, ret |-> -1]]

\* Bytes of the range q that the file has.
InFile(q) == IF q[1] + q[2] <= FileSize THEN q[2] ELSE FileSize - q[1]

Answer(r) ==
  /\ call[r].state = "busy"
  /\ \E n \in {-1, InFile(call[r].req)} :
       call' = [call EXCEPT ![r] = [state |-> "done", req |-> call[r].req, ret |-> n]]

Next == \E r \in Reader : Answer(r) \/ \E q \in Request : Ask(r, q) \/ Refuse(r, q)

Spec == Init /\ [][Next]_call
=============================================================================
