------------------------------- MODULE Source -------------------------------
(***************************************************************************)
(* What a program of the shell language means, without a compiler: an      *)
(* interpreter that walks the statements and keeps values by name.  It is  *)
(* the reference the compiled code is held against.                        *)
(*                                                                         *)
(* An environment is a sequence of blocks, innermost last; a block maps    *)
(* the names defined in it to values.  Values are the words of Vm.         *)
(***************************************************************************)
EXTENDS Vm

ExprNode(e)         == [node |-> "expr", expr |-> e]
IfNode(c, yes, no)  == [node |-> "if", cond |-> c, yes |-> yes, no |-> no]
WhileNode(c, body)  == [node |-> "while", cond |-> c, body |-> body]

EmptyBlock == [x \in {} |-> NoWord]

Binding(env, x) == {i \in DOMAIN env : x \in DOMAIN env[i]}
Value(env, x)   == env[Max(Binding(env, x))][x]

(* An assignment changes the innermost variable of that name, or defines   *)
(* one in the innermost block.  A float variable takes an int as a float.  *)
Assign(env, x, w) ==
  IF Binding(env, x) = {}
  THEN LET b == Last(env)
       IN  [env EXCEPT ![Len(env)] = [y \in DOMAIN b \cup {x} |-> IF y = x THEN w ELSE b[y]]]
  ELSE [env EXCEPT ![Max(Binding(env, x))][x] = IF @.type = "float" THEN FloatWord ELSE w]

Operation(op, a, b) ==
  LET truth(holds) == IntWord(IF holds THEN 1 ELSE 0)
      float == a.type = "float" \/ b.type = "float"
  IN  CASE op = "eq"  -> truth(a.val = b.val)
        [] op = "neq" -> truth(a.val # b.val)
        [] op = "lt"  -> truth(a.val < b.val)
        [] op = "gt"  -> truth(a.val > b.val)
        [] op = "ngt" -> truth(a.val <= b.val)
        [] op = "nlt" -> truth(a.val >= b.val)
        [] op \in {"add", "sub", "mul", "div"} /\ float -> FloatWord
        [] op = "add" -> IntWord(a.val + b.val)
        [] op = "sub" -> IntWord(a.val - b.val)
        [] op = "mul" -> IntWord(a.val * b.val)
        [] op = "div" -> IntWord(Quotient(a.val, b.val))

(* The value and the effect of one node on [env, ws], ws the values of the *)
(* operands so far.  A function sees nothing of its caller and returns     *)
(* nothing: a call has no effect.                                          *)
EvalNode(s, t) ==
  LET n == Len(s.ws) IN
  CASE t.tok = "lit" -> [s EXCEPT !.ws = Append(@, IF t.type = "int" THEN IntWord(t.val)
                                                                     ELSE FloatWord)]
    [] t.tok = "id"  -> [s EXCEPT !.ws = Append(@, Value(s.env, t.name))]
    [] t.tok = "grp" -> s
    [] t.tok = "bin" -> [s EXCEPT !.ws = Append(SubSeq(@, 1, n - 2),
                                                Operation(t.op, s.ws[n-1], s.ws[n]))]
    [] t.tok = "asg" -> [s EXCEPT !.env = Assign(@, t.name, s.ws[n])]
    [] t.tok = "call" -> [s EXCEPT !.ws = SubSeq(@, 1, n - t.args)]

Eval(e, env) == FoldLeft(EvalNode, [env |-> env, ws |-> <<>>], e)

Truth(e, env) == Last(Eval(e, env).ws) # IntWord(0)

(* Statements, with a bound on the iterations of loops: <<>> stands for a  *)
(* program that is still running when the bound is reached.                *)
RECURSIVE Exec(_, _, _), ExecAll(_, _, _), Block(_, _, _)

Exec(st, env, fuel) ==
  IF env = <<>> THEN <<>> ELSE
  CASE st.node = "expr" -> Eval(st.expr, env).env
    [] st.node = "if" -> Block(IF Truth(st.cond, env) THEN st.yes ELSE st.no, env, fuel)
    [] st.node = "while" ->
         IF ~Truth(st.cond, env) THEN env
         ELSE IF fuel = 0 THEN <<>>
              ELSE LET after == Block(st.body, env, fuel)
                   IN  Exec(st, after, fuel - 1)

ExecAll(sts, env, fuel) ==
  IF sts = <<>> THEN env ELSE ExecAll(Tail(sts), Exec(Head(sts), env, fuel), fuel)

Block(sts, env, fuel) ==
  LET after == ExecAll(sts, Append(env, EmptyBlock), fuel)
  IN  IF after = <<>> THEN <<>> ELSE Front(after)
=============================================================================
