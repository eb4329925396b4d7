------------------------------ MODULE MCExprs -------------------------------
(***************************************************************************)
(* The statements, conditions and function headers the instances for TLC   *)
(* are made of: small sets, one for each question a run asks.              *)
(***************************************************************************)
EXTENDS Integers, Sequences

IntLit(n)    == [tok |-> "lit", type |-> "int", val |-> n]
FloatLit     == [tok |-> "lit", type |-> "float", val |-> 0]
Id(x)        == [tok |-> "id", name |-> x]
Op(o)        == [tok |-> "bin", op |-> o]
Set(x)       == [tok |-> "asg", name |-> x]
Group        == [tok |-> "grp"]
CallOf(g, n) == [tok |-> "call", name |-> g, args |-> n]

None        == {}
TwoIdents   == {"a", "b"}
ThreeIdents == {"a", "b", "c"}
FourIdents  == {"a", "b", "c", "d"}

IntArg  == [name |-> "a", type |-> "int"]
OneFunc == { [name |-> "f", args |-> <<IntArg>>] }

(* a < 1, and the conditions of the reference runs.                        *)
ACond      == { <<Id("a"), IntLit(1), Op("lt")>> }
ValueConds == { <<Id("a"), IntLit(2), Op("lt")>>, <<Id("a"), IntLit(1), Op("eq")>> }

(* Assignments of both types, with the cast of an int among them.          *)
Assignments == {
  <<IntLit(1), Set("a")>>,
  <<FloatLit, Set("b")>>,
  <<Id("a"), Id("b"), Op("add"), Set("b")>> }

(* Statements that leave values on the stack: an unused value, and the     *)
(* argument of a call.                                                     *)
Leaks == {
  <<Id("a"), IntLit(1), Id("a"), Op("add"), Op("add")>>,
  <<IntLit(0), CallOf("f", 1)>> }

(* Statements that leave the stack as they found it, for loops.            *)
LoopStats == {
  <<IntLit(0), Set("a")>>,
  <<IntLit(1), Id("a"), IntLit(1), Op("add"), Op("add"), Set("b")>>,
  <<Id("b"), IntLit(1), Op("add"), Set("a")>> }

(* c is often assigned for the first time in a block, and again in the     *)
(* next one; the subtractions tell their operands apart.                   *)
ValueStats == {
  <<IntLit(0), Set("a")>>,
  <<IntLit(1), Id("a"), IntLit(2), Op("add"), Op("sub"), Set("c")>>,
  <<Id("a"), IntLit(1), Op("add"), Set("a")>>,
  <<Id("c"), Id("a"), Op("sub"), Set("b")>> }

(* The same with a float among the variables.                              *)
MixedStats == ValueStats \cup { <<Id("a"), FloatLit, Op("mul"), Set("b")>> }

(* The call runs a function with a variable of the same name.              *)
GroupedCall == { <<Id("a"), IntLit(1), Op("add"), Group, CallOf("f", 1)>> }

(* One name after the other, for scopes; a condition that defines c.       *)
Definitions == { <<IntLit(1), Set(x)>> : x \in FourIdents }
DefiningCond == { <<IntLit(1), Set("c")>>, <<Id("a"), IntLit(1), Op("lt")>> }

(* A value that every iteration leaves behind, and the step of the loop.   *)
LeakInLoop == {
  <<Id("a")>>,
  <<Id("a"), IntLit(1), Op("add"), Set("a")>> }

CallZero == { <<IntLit(0), CallOf("f", 1)>> }
LoopCond == { <<Id("a"), IntLit(2), Op("lt")>> }

(* a = 1 + 1 + ... + 1 with 12 literals takes 73 bytes.                    *)
LongSum == { <<IntLit(1)>> \o [i \in 1..22 |-> IF i % 2 = 1 THEN IntLit(1) ELSE Op("add")]
                           \o <<Set("a")>> }
=============================================================================
