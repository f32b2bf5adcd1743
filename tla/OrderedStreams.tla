----------------------------- MODULE OrderedStreams -----------------------------
(***************************************************************************)
(* What the analysis of a capture takes a connection for: in each          *)
(* direction the bytes that were sent, in order, as far as they came.  Who *)
(* is the client is no part of it.                                         *)
(***************************************************************************)
EXTENDS Sequences

CONSTANT Ends
VARIABLES
  coming,     \* the chunks each end sent that are still to come
  received    \* the bytes that came from it

Init == received = [e \in Ends |-> <<>>]

Receive(e) ==
  /\ coming[e] # <<>>
  /\ coming' = [coming EXCEPT ![e] = Tail(@)]
  /\ received' = [received EXCEPT ![e] = @ \o Head(coming[e]).bytes]

Next == \E e \in Ends : Receive(e)
Spec == Init /\ [][Next]_<<coming, received>>
=================================================================================
