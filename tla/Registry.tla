------------------------------ MODULE Registry ------------------------------
(***************************************************************************)
(* What the compiler expects of the two tables it looks names up in: a key *)
(* is registered once, and from then on it has the value it was given.     *)
(***************************************************************************)
CONSTANTS Keys, Values, Missing

VARIABLE entries

Init == entries = [k \in Keys |-> Missing]

Register(k) ==
  /\ entries[k] = Missing
  /\ entries'[k] \in Values
  /\ entries' = [entries EXCEPT ![k] = entries'[k]]

Next == \E k \in Keys : Register(k)

Spec == Init /\ [][Next]_entries
=============================================================================
