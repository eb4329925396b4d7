---------------------------- MODULE ShellMeaning ----------------------------
(***************************************************************************)
(* The shell next to the reference interpreter: the variable program holds *)
(* the statements compiled so far of every open scope, and env what the    *)
(* complete statements of the root mean.  Neither affects the shell.       *)
(***************************************************************************)
EXTENDS Shell, Source

CONSTANT Fuel   \* bound: iterations of a loop, more than the values of the variables allow

ASSUME FuelAssumption == Fuel \in Nat

VARIABLES
  program,    \* per open scope: [cond, first, stats] with the blocks as they are read
  env         \* the environment of the reference interpreter; <<>> when it ran out of fuel

meaningvars == <<shellvars, program, env>>

Unread(cond, first) == [cond |-> cond, first |-> first, stats |-> <<>>]

MeaningInit ==
  /\ ShellInit
  /\ program = <<Unread(<<>>, <<>>)>>
  /\ env = <<EmptyBlock>>

Compiling(A) == Idle /\ Emitted = <<>> /\ A /\ UNCHANGED vmvars

(* A statement is complete in the scope n: one more of its block, and at   *)
(* the root it is executed.                                                *)
Complete(progs, st) ==
  /\ program' = [progs EXCEPT ![Len(progs)].stats = IF Len(progs) = 1 THEN <<>> ELSE Append(@, st)]
  /\ env' = IF Len(progs) = 1 THEN Exec(st, env, Fuel) ELSE env

Open(cond) == program' = Append(program, Unread(cond, <<>>)) /\ UNCHANGED env

inner == Last(program)

MeaningNext ==
  \/ \E e \in Statements : Compiling(ExprStat(e)) /\ Complete(program, ExprNode(e))
  \/ \E e \in CondExprs : Compiling(OpenIf(e) \/ OpenWhile(e)) /\ Open(e)
  \/ Compiling(Else) /\ program' = [program EXCEPT ![top] = Unread(inner.cond, inner.stats)]
                     /\ UNCHANGED env
  \/ Compiling(CloseIf) /\ Complete(Front(program), IfNode(inner.cond, inner.first, inner.stats))
  \/ Compiling(CloseWhile) /\ Complete(Front(program), WhileNode(inner.cond, inner.stats))
  \/ \E d \in FuncDecls : Compiling(OpenFunc(d)) /\ Open(<<>>)
  \/ Compiling(CloseFunc) /\ program' = Front(program) /\ UNCHANGED env
  \/ \E e \in Statements \cup CondExprs : Compiling(RejectExpr(e)) /\ UNCHANGED <<program, env>>
  \/ (PushChunk \/ ExecuteStep) /\ UNCHANGED <<program, env>>

MeaningSpec == MeaningInit /\ [][MeaningNext]_meaningvars

(* Whenever the shell is back at its prompt every variable of the session  *)
(* has, in the slot the compiler gave it, the value the program means:     *)
(* blocks were skipped and repeated as written, operands were combined in  *)
(* order and cast where the types differ, and no two live variables shared *)
(* a slot.                                                                 *)
MeaningPreserved ==
  Idle /\ Emitted = <<>> /\ top = 1 /\ status = "run" =>
    /\ env # <<>>
    /\ \A j \in DOMAIN scopes[1].vars :
         LET v == scopes[1].vars[j]
         IN  frames[1].locals[v.index + 1] = Value(env, v.name)
=============================================================================
