------------------------------ MODULE AtomicFiles ------------------------------
(***************************************************************************)
(* What certdiag promises of the files it writes results to: a reader, or  *)
(* a crash, never sees half of one, and they change one at a time.         *)
(***************************************************************************)
CONSTANT Torn
VARIABLE file   \* path -> content

Init == \A q \in DOMAIN file : file[q] # Torn

Publish(q) ==
  /\ file' = [file EXCEPT ![q] = file'[q]]
  /\ file'[q] # Torn

Next == \E q \in DOMAIN file : Publish(q)
Spec == Init /\ [][Next]_file
===============================================================================
