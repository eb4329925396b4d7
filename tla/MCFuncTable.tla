---------------------------- MODULE MCFuncTable -----------------------------
(* Four functions.  In the compiler's maps of four slots, and two probes,  *)
(* the put of the last makes the map grow.  When g and h came after f,     *)
(* they move before f to the slots f is probed for then, and the map grows *)
(* again inside of the first resize.                                       *)
EXTENDS FuncTable

CONSTANTS f, g, h, k

Four   == {f, g, h, k}
Homes  == [x \in Four |-> CASE x = f -> 11 [] x = g -> 3 [] x = h -> 4 [] x = k -> 0]
=============================================================================
