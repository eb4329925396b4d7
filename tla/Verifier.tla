------------------------------ MODULE Verifier ------------------------------
(***************************************************************************)
(* When is code safe to run on a machine that checks nothing?              *)
(*                                                                         *)
(* Code is well formed when every boundary between instructions has one    *)
(* stack depth, the same whichever way control came there, and no          *)
(* instruction pops more than that, exceeds the stack of the frame, names  *)
(* a slot outside of it or jumps into the middle of an instruction.        *)
(***************************************************************************)
EXTENDS Bytecode

(* Where control may go from the instruction at position i.                *)
Successors(code, i) ==
  LET op == code[i].op IN
  CASE op \in {"JMP", "RJMP"} -> {JumpTarget(code, i)}
    [] op \in {"JEZ", "JNEZ"} -> {i + 3, JumpTarget(code, i)}
    [] OTHER                  -> {i + Size(op)}

DepthAfter(code, i, d) == d - Pops(code[i].op) + Pushes(code[i].op)

(* The depth at every boundary, taken over from one of the instructions    *)
(* before it that leads there (backward jumps lead to known positions).    *)
Depths(code) ==
  LET d[i \in 1..Len(code)+1] ==
        LET before == {j \in Starts(code) : j < i /\ i \in Successors(code, j)}
        IN  IF i = 1 \/ before = {} THEN 0
            ELSE LET j == CHOOSE j \in before : TRUE IN DepthAfter(code, j, d[j])
  IN  [i \in Boundaries(code) |-> d[i]]

(* d is a consistent assignment of depths to the code of a frame with a    *)
(* stack of cap bytes and n slots, whose calls take args words.            *)
WellFormed(code, d, cap, n, args) ==
  /\ 1 \in Boundaries(code)
  /\ d \in [Boundaries(code) -> Nat]
  /\ d[1] = 0
  /\ \A i \in Starts(code) :
       LET op == code[i].op IN
       /\ op \in Opcodes
       /\ d[i] >= Pops(op)
       /\ 4 * DepthAfter(code, i, d[i]) <= cap
       /\ op \in {"ILOAD", "ISAVE", "FLOAD", "FSAVE"} => code[i].arg \in 0..n-1
       /\ op = "CALL" => d[i] >= args
       /\ \A t \in Successors(code, i) : t \in Boundaries(code) /\ d[t] = DepthAfter(code, i, d[i])

Verified(code, cap, n, args) == WellFormed(code, Depths(code), cap, n, args)
=============================================================================
