------------------------------ MODULE Compiler ------------------------------
(***************************************************************************)
(* The compiler of the Phantom shell: from statements, in the order the    *)
(* recursive descent of compile_statement meets them, to bytecode.         *)
(*                                                                         *)
(* The recursion over the syntax tree is unfolded: the scope handlers the  *)
(* C code keeps on its own call stack are the sequence scopes, innermost   *)
(* last, and every statement, and every beginning and end of a block, is   *)
(* one action.  The tree itself is never stored: which node comes next is  *)
(* chosen when it is compiled, so a behaviour is a program together with   *)
(* its compilation.                                                        *)
(*                                                                         *)
(* An expression is the sequence of its nodes in postfix order, the order  *)
(* in which the parser reduces them and the compiler emits their code.     *)
(***************************************************************************)
EXTENDS Verifier, SequencesExt

CONSTANTS
  Idents,         \* names of variables
  StatExprs,      \* expressions that occur as statements
  TopExprs,       \* those that occur as statements outside of blocks only
  RootExprs,      \* those that occur as statements of the root scope only
  CondExprs,      \* expressions that occur as conditions of if and while
  FuncDecls,      \* function headers: [name, args], args a sequence of [name, type]
  ByteRange,      \* values of a ubyte_t: 256 in the source
  RootVarsCap,    \* vars_cap of the root scope: 64
  FuncVarsCap,    \* vars_cap of a function scope: 128
  WithWhile,      \* whether the program may contain while statements
  MaxStats,       \* bound: statements of a session
  MaxNesting      \* bound: scopes open at once

ASSUME BytesAssumption  == ByteRange \in Nat \ {0}
ASSUME CapsAssumption   == RootVarsCap \in Nat /\ FuncVarsCap \in Nat
ASSUME BoundsAssumption == MaxStats \in Nat /\ MaxNesting \in Nat /\ WithWhile \in BOOLEAN
ASSUME DeclsAssumption  ==
  \A d \in FuncDecls : d.args \in Seq([name : Idents, type : ValueTypes])

(* The nodes of an expression; a literal has no sign.                      *)
Nodes ==
  [tok : {"lit"}, type : ValueTypes, val : Nat]
    \cup [tok : {"id", "asg"}, name : Idents]
    \cup [tok : {"grp"}]
    \cup [tok : {"un", "bin"}, op : STRING]
    \cup [tok : {"call"}, name : STRING, args : Nat]

(* The operands of a node, and how many nodes of the first n have no       *)
(* parent among them.                                                      *)
Operands(t) ==
  CASE t.tok \in {"grp", "un", "asg"} -> 1
    [] t.tok = "bin"                  -> 2
    [] t.tok = "call"                 -> t.args
    [] OTHER                          -> 0

Roots(e) ==
  LET h[n \in 0..Len(e)] == IF n = 0 THEN 0 ELSE h[n-1] - Operands(e[n]) + 1 IN h

(* e is a tree in postfix order.                                           *)
IsExpr(e) ==
  /\ e \in Seq(Nodes)
  /\ \A n \in 1..Len(e) : Operands(e[n]) <= Roots(e)[n-1]
  /\ Roots(e)[Len(e)] = 1

AllExprs == UNION {StatExprs, TopExprs, RootExprs, CondExprs}

ASSUME ExprsAssumption  == \A e \in AllExprs : IsExpr(e)

VARIABLES
  scopes,     \* variables of each open scope handler, root first
  stacks,     \* the stack sizes each open scope handler books
  emitters,   \* per scope: code emitted so far, and the finished part before it
  descs,      \* global_func_map: functions defined, in order of definition
  funcs,      \* global_funcs.funcs: handles registered, in order
  status,     \* "run", or "panic" after compiler_panic
  stats       \* statements compiled

vars == <<scopes, stacks, emitters, descs, funcs, status, stats>>

ShortRange == ByteRange * ByteRange   \* values of a uint16_t
SizeRange  == 16 * ShortRange         \* stands for 2^64: a multiple of ShortRange no stack size reaches

-----------------------------------------------------------------------------
(* Scopes and the variables visible in the innermost one.                  *)

ScopeKinds == {"root", "func", "then", "else", "body"}
Var        == [name : Idents, type : ValueTypes, index : 0..ByteRange-1]
Scope      == [kind : ScopeKinds, cap : Nat, off : Nat, vars : Seq(Var), max : Nat]

NewScope(kind, cap, off) ==
  [kind |-> kind, cap |-> cap, off |-> off, vars |-> <<>>, max |-> 0]

top == Len(scopes)

(* frame_find_root_scope: the function scope, or the root scope.           *)
Base == IF top >= 2 /\ scopes[2].kind = "func" THEN 2 ELSE 1

(* Seeded fault: a block numbers its variables from 0.                     *)
NextSlotOwn(s) == Len(scopes[s].vars)

(* vars_size + vars_off: the first slot that is free in scope s.           *)
NextSlot(s) == Len(scopes[s].vars) + scopes[s].off

Declaring(x) == {s \in Base..top : \E j \in DOMAIN scopes[s].vars : scopes[s].vars[j].name = x}
Declared(x)  == Declaring(x) # {}

(* frame_lookup_var_by_name: the innermost scope, and there the first.     *)
Lookup(x) ==
  LET v == scopes[Max(Declaring(x))].vars
  IN  v[Min({j \in DOMAIN v : v[j].name = x})]

(* frame_define_var, when the scope has space for one more.                *)
HasSpace == Len(scopes[top].vars) < scopes[top].cap

(* Seeded fault: the index is not cut to a byte.                           *)
NewVarWide(x, type) == [name |-> x, type |-> type, index |-> NextSlot(top)]

NewVar(x, type) == [name |-> x, type |-> type, index |-> NextSlot(top) % ByteRange]

Raised(max, size) == IF size > max THEN size ELSE max

-----------------------------------------------------------------------------
(* Expressions.  Compiling one node pushes a term: the static type that    *)
(* ast_node_trace_data_type finds for it ("absent" for an unknown name,    *)
(* "call" for a call, neither of which can be traced), its code, and       *)
(* whether it is a binary operation without a group around it.             *)

Term(type, code, bare) == [type |-> type, code |-> code, bare |-> bare]

Literal(t) == Term(t.type, Encode(ConstOpcode(t.type), t.val), FALSE)

Ident(x) ==
  IF Declared(x)
  THEN Term(Lookup(x).type, Encode(LoadOpcode(Lookup(x).type), Lookup(x).index), FALSE)
  ELSE Term("absent", <<>>, FALSE)


(* type_select_cast_method and ast_new_node_cast: only int to float.       *)
Widened(term, type) ==
  IF term.type = type THEN term.code ELSE term.code \o Encode("I2F", 0)

CommonType(l, r) == IF l.type = r.type THEN l.type ELSE "float"

Traced(term) == term.type \in ValueTypes

Failed == [ok |-> FALSE, stk |-> <<>>]

Node(acc, n, term) ==
  [ok |-> TRUE, stk |-> Append(SubSeq(acc.stk, 1, Len(acc.stk) - n), term)]

(* Seeded fault: the right operand is compiled first.                      *)
BinaryOpSwapped(acc, op) ==
  LET n    == Len(acc.stk)
      l    == acc.stk[n-1]
      r    == acc.stk[n]
      type == CommonType(l, r)
      opcodes == IF type = "int" THEN IntOpcode ELSE FloatOpcode
  IN  IF Traced(l) /\ Traced(r) /\ op \in DOMAIN opcodes
      THEN Node(acc, 2, Term(type, Widened(r, type) \o Widened(l, type)
                                     \o Encode(opcodes[op], 0), TRUE))
      ELSE Failed

BinaryOp(acc, op) ==
  LET n    == Len(acc.stk)
      l    == acc.stk[n-1]
      r    == acc.stk[n]
      type == CommonType(l, r)
      opcodes == IF type = "int" THEN IntOpcode ELSE FloatOpcode
  IN  IF Traced(l) /\ Traced(r) /\ op \in DOMAIN opcodes
      THEN Node(acc, 2, Term(type, Widened(l, type) \o Widened(r, type)
                                     \o Encode(opcodes[op], 0), TRUE))
      ELSE Failed

(* The operand is not traced, and the opcode is always the integer one.    *)
UnaryOp(acc, op) ==
  LET x == Last(acc.stk)
  IN  IF op # "neg" THEN Failed
      ELSE Node(acc, 1, Term(x.type,
             IF x.type = "absent" THEN <<>> ELSE x.code \o Encode("INEG", 0), FALSE))

(* Assignment to a variable that is declared.                              *)
Assignment(acc, x) ==
  LET r == Last(acc.stk)
      v == Lookup(x)
  IN  IF Declared(x) /\ Traced(r) /\ (v.type = r.type \/ v.type = "float")
      THEN Node(acc, 1, Term(v.type, Widened(r, v.type)
                                       \o Encode(SaveOpcode(v.type), v.index), TRUE))
      ELSE Failed

(* compile_function_call: the arguments stay where their code leaves them; *)
(* a function whose body is being compiled has no constant yet, and its    *)
(* index stays 0.                                                          *)
ConstIndex(f) ==
  LET i == CHOOSE i \in DOMAIN descs : descs[i].name = f
  IN  IF i <= Len(funcs) THEN i - 1 ELSE 0

Call(acc, f, n) ==
  LET args == SubSeq(acc.stk, Len(acc.stk) - n + 1, Len(acc.stk))
  IN  IF (\E i \in DOMAIN descs : descs[i].name = f) /\ n \in 1..2 /\ ~args[n].bare
      THEN Node(acc, n, Term("call", (IF n = 1 THEN args[1].code ELSE args[1].code \o args[2].code)
                                       \o Encode("CALL", ConstIndex(f)), TRUE))
      ELSE Failed

CompileNode(acc, t) ==
  IF ~acc.ok THEN Failed ELSE
  CASE t.tok = "lit"  -> Node(acc, 0, Literal(t))
    [] t.tok = "id"   -> Node(acc, 0, Ident(t.name))
    [] t.tok = "grp"  -> Node(acc, 1, [Last(acc.stk) EXCEPT !.bare = FALSE])
    [] t.tok = "un"   -> UnaryOp(acc, t.op)
    [] t.tok = "bin"  -> BinaryOp(acc, t.op)
    [] t.tok = "asg"  -> Assignment(acc, t.name)
    [] t.tok = "call" -> Call(acc, t.name, t.args)

(* The terms after each of the first nodes.                                *)
TermsAfter(e) ==
  LET acc[n \in 0..Len(e)] ==
        IF n = 0 THEN [ok |-> TRUE, stk |-> <<>>] ELSE CompileNode(acc[n-1], e[n])
  IN  acc

CompileNodes(e) == TermsAfter(e)[Len(e)]

(* An outermost assignment to an unknown name defines a variable of the    *)
(* innermost scope, after the right side is traced.                        *)
Defines(e) == Last(e).tok = "asg" /\ ~Declared(Last(e).name)

RightSide(e) == CompileNodes(Front(e))

Rejected == [ok |-> FALSE, def |-> <<>>, code |-> <<>>]

(* compile_expression: the variables it defines (none or one) and the code *)
(* it emits, unless it ends in compiler_panic.                             *)
Compile(e) ==
  IF Defines(e)
  THEN LET r == RightSide(e)
           v == NewVar(Last(e).name, r.stk[1].type)
       IN  IF r.ok /\ Traced(r.stk[1]) /\ HasSpace
           THEN [ok |-> TRUE, def |-> <<v>>,
                 code |-> r.stk[1].code \o Encode(SaveOpcode(v.type), v.index)]
           ELSE Rejected
  ELSE LET r == CompileNodes(e)
       IN  IF r.ok THEN [ok |-> TRUE, def |-> <<>>, code |-> r.stk[1].code]
           ELSE Rejected

(* frame_increment_stack_size for every opcode emitted, on a size_t.       *)
Counted(s, cell) ==
  LET n == (s.size + StackInc(cell.op)) % SizeRange
  IN  [size |-> n, max |-> Raised(s.max, n)]

Track(size, max, code) ==
  LET t[n \in 0..Len(code)] ==
        IF n = 0 THEN [size |-> size, max |-> max] ELSE Counted(t[n-1], code[n])
  IN  t[Len(code)]

-----------------------------------------------------------------------------
(* What every statement does to the innermost scope when its expression e  *)
(* is compiled there with result r.                                        *)

Room == status = "run" /\ stats < MaxStats

(* The expressions that may be a statement of the innermost scope.         *)
Statements ==
  UNION {StatExprs,
         IF scopes[top].kind \in {"root", "func"} THEN TopExprs ELSE {},
         IF scopes[top].kind = "root" THEN RootExprs ELSE {}}

(* Seeded fault: the maximum is kept in the block and not in the frame.    *)
ExtendedOwnMax(r) ==
  [scopes EXCEPT ![top].max = Raised(@, NextSlot(top) + Len(r.def)),
                 ![top].vars = @ \o r.def]

(* The variable the expression defines stays visible in the scope.         *)
Extended(r) ==
  [scopes EXCEPT ![Base].max = Raised(@, NextSlot(top) + Len(r.def)),
                 ![top].vars = @ \o r.def]

(* The size is restored, but the root scope keeps the higher maximum.      *)
Restored(r) ==
  [scopes EXCEPT ![Base].max = Raised(@, NextSlot(top) + Len(r.def))]

Booked(r) ==
  LET s == Track(stacks[top].size, stacks[Base].max, r.code)
  IN  [stacks EXCEPT ![top].size = s.size, ![Base].max = s.max]

NewStack(size)  == [size |-> size, max |-> 0]
Emitter(head)   == [head |-> head, code |-> <<>>]
Emit(ems, code) == [ems EXCEPT ![Len(ems)].code = @ \o code]

Init ==
  /\ scopes   = <<NewScope("root", RootVarsCap, 0)>>
  /\ stacks   = <<NewStack(0)>>
  /\ emitters = <<Emitter(<<>>)>>
  /\ descs    = <<>>
  /\ funcs    = <<>>
  /\ status   = "run"
  /\ stats    = 0

(* compile_statement on an expression: its value, if any, stays on the     *)
(* stack.                                                                  *)
ExprStat(e) ==
  LET r == Compile(e) IN
  /\ Room
  /\ r.ok
  /\ scopes'   = Extended(r)
  /\ stacks'   = Booked(r)
  /\ emitters' = Emit(emitters, r.code)
  /\ stats'    = stats + 1
  /\ UNCHANGED <<descs, funcs, status>>

(* compiler_panic in any expression ends the process.                      *)
RejectExpr(e) ==
  /\ Room
  /\ ~Compile(e).ok
  /\ status' = "panic"
  /\ UNCHANGED <<scopes, stacks, emitters, descs, funcs, stats>>

(* compile_if_statement up to the true block: the condition goes to the    *)
(* enclosing emitter at once, the block inherits the booked stack size.    *)
OpenIf(e) ==
  LET r     == Compile(e)
      outer == Extended(r)
      sizes == Booked(r)
  IN
  /\ Room
  /\ top < MaxNesting
  /\ r.ok
  /\ scopes'   = Append(outer, NewScope("then", outer[top].cap,
                                        Len(outer[top].vars) + outer[top].off))
  /\ stacks'   = Append(sizes, NewStack(sizes[top].size))
  /\ emitters' = Append(Emit(emitters, r.code), Emitter(<<>>))
  /\ stats'    = stats + 1
  /\ UNCHANGED <<descs, funcs, status>>

(* The true block ends; the false block, empty when there is no else,      *)
(* begins with what the enclosing scope has.                               *)
Else ==
  /\ status = "run"
  /\ scopes[top].kind = "then"
  /\ scopes'   = Append(Front(scopes), NewScope("else", scopes[top-1].cap, NextSlot(top-1)))
  /\ stacks'   = [stacks EXCEPT ![top] = NewStack(stacks[top-1].size)]
  /\ emitters' = [emitters EXCEPT ![top] = Emitter(emitters[top].code)]
  /\ UNCHANGED <<descs, funcs, status, stats>>

(* The high byte of an offset is computed as (ubyte_t) size >> 8, which is *)
(* always 0: only the low byte is left.                                    *)
LowByte(size) == size % ByteRange

(* Seeded fault: the skip is counted from its own first byte.              *)
IfCodeLongSkip(true, false) ==
  LET taken == true \o Encode("JMP", Len(false) + 3)
  IN  IF Len(taken) >= ShortRange THEN <<>>
      ELSE Encode("JEZ", LowByte(Len(taken))) \o taken \o false

(* Seeded fault: the way back forgets the branch behind the condition.     *)
WhileCodeShortBack(cond, body) ==
  cond \o Encode("JEZ", LowByte(Len(body) + 3))
       \o body \o Encode("RJMP", LowByte(Len(cond) + Len(body) + 3))

(* What compile_if_statement emits after both blocks: the skip over the    *)
(* false block is left out when it is too long, and everything is when the *)
(* true block is.                                                          *)
IfCode(true, false) ==
  LET skip  == IF Len(false) >= ShortRange THEN <<>> ELSE Encode("JMP", Len(false))
      taken == true \o skip
  IN  IF Len(taken) >= ShortRange THEN <<>>
      ELSE Encode("JEZ", LowByte(Len(taken))) \o taken \o false

(* What compile_while_statement emits: over the body, and back.            *)
WhileCode(cond, body) ==
  cond \o Encode("JEZ", LowByte(Len(body) + 3))
       \o body \o Encode("RJMP", LowByte(Len(cond) + Len(body) + 6))

(* Seeded faults: the stack of the block stays; its variables stay.        *)
CloseBlockKeepStack(code) ==
  /\ scopes'   = Front(scopes)
  /\ emitters' = Emit(Front(emitters), code)
  /\ UNCHANGED <<stacks, descs, funcs, status, stats>>

CloseBlockKeepVars(code) ==
  /\ scopes'   = [Front(scopes) EXCEPT ![top-1].vars = @ \o scopes[top].vars]
  /\ stacks'   = Front(stacks)
  /\ emitters' = Emit(Front(emitters), code)
  /\ UNCHANGED <<descs, funcs, status, stats>>

(* A block is done: its scope is destroyed, code goes to the outer emitter *)
CloseBlock(code) ==
  /\ scopes'   = Front(scopes)
  /\ stacks'   = Front(stacks)
  /\ emitters' = Emit(Front(emitters), code)
  /\ UNCHANGED <<descs, funcs, status, stats>>

CloseIf ==
  /\ status = "run"
  /\ scopes[top].kind = "else"
  /\ CloseBlock(IfCode(emitters[top].head, emitters[top].code))

(* compile_while_statement up to the body: the condition is kept aside, a  *)
(* variable it defines is forgotten, and the body starts with an empty     *)
(* booked stack.                                                           *)
OpenWhile(e) ==
  LET r == Compile(e) IN
  /\ WithWhile
  /\ Room
  /\ top < MaxNesting
  /\ r.ok
  /\ scopes'   = Append(Restored(r), NewScope("body", scopes[top].cap, NextSlot(top)))
  /\ stacks'   = Append(Booked(r), NewStack(0))
  /\ emitters' = Append(emitters, Emitter(r.code))
  /\ stats'    = stats + 1
  /\ UNCHANGED <<descs, funcs, status>>

CloseWhile ==
  /\ status = "run"
  /\ scopes[top].kind = "body"
  /\ IF Len(emitters[top].code) >= ShortRange
     THEN status' = "panic" /\ UNCHANGED <<scopes, stacks, emitters, descs, funcs, stats>>
     ELSE CloseBlock(WhileCode(emitters[top].head, emitters[top].code))

(* The scope of a function: its arguments are its first variables.         *)
ArgVars(args) ==
  [j \in DOMAIN args |->
     [name |-> args[j].name, type |-> args[j].type, index |-> (j - 1) % ByteRange]]

FuncScope(args) ==
  [kind |-> "func", cap |-> FuncVarsCap, off |-> 0, vars |-> ArgVars(args), max |-> Len(args)]

(* compile_func up to the body: compiler_define_func, then one variable    *)
(* per argument.  Functions are compiled in the root scope only.           *)
OpenFunc(d) ==
  /\ Room
  /\ top = 1
  /\ top < MaxNesting
  /\ stats' = stats + 1
  /\ UNCHANGED funcs
  /\ IF (\E i \in DOMAIN descs : descs[i].name = d.name) \/ Len(d.args) > FuncVarsCap
     THEN status' = "panic" /\ UNCHANGED <<scopes, stacks, emitters, descs>>
     ELSE /\ scopes'   = Append(scopes, FuncScope(d.args))
          /\ stacks'   = Append(stacks, NewStack(0))
          /\ emitters' = Append(emitters, Emitter(<<>>))
          /\ descs'    = Append(descs, d)
          /\ UNCHANGED status

(* Seeded fault: the handle takes the current size, not the maximum.       *)
HandleNoMax(d, scope, stack, code) ==
  [name |-> d.name, args |-> Len(d.args), vars |-> scope.max % ShortRange,
   stack |-> stack.size % ShortRange, code |-> code]

(* The rest of compile_func: sizes are cut to 16 bits (vars in words), the *)
(* signature becomes the next constant and the handle the next function.   *)
Handle(d, scope, stack, code) ==
  [name |-> d.name, args |-> Len(d.args), vars |-> scope.max % ShortRange,
   stack |-> stack.max % ShortRange, code |-> code]

CloseFunc ==
  /\ status = "run"
  /\ scopes[top].kind = "func"
  /\ funcs'    = Append(funcs, Handle(Last(descs), scopes[top], stacks[top], emitters[top].code))
  /\ scopes'   = Front(scopes)
  /\ stacks'   = Front(stacks)
  /\ emitters' = Front(emitters)
  /\ UNCHANGED <<descs, status, stats>>

Next ==
  \/ \E e \in Statements : ExprStat(e)
  \/ \E e \in Statements \cup CondExprs : RejectExpr(e)
  \/ \E e \in CondExprs : OpenIf(e) \/ OpenWhile(e)
  \/ Else \/ CloseIf \/ CloseWhile
  \/ \E d \in FuncDecls : OpenFunc(d)
  \/ CloseFunc

Spec == Init /\ [][Next]_vars

-----------------------------------------------------------------------------
(* Properties.                                                             *)

TypeOK ==
  /\ scopes \in Seq(Scope)
  /\ scopes # <<>>
  /\ Len(stacks) = Len(scopes) /\ Len(emitters) = Len(scopes)
  /\ status \in {"run", "panic"}
  /\ stats \in 0..MaxStats

(* The variables a name can refer to in the innermost scope, by place.     *)
Visible == {p \in (Base..top) \X (1..Raised(RootVarsCap, FuncVarsCap)) :
              p[2] \in DOMAIN scopes[p[1]].vars}

(* Two variables visible at the same time never share a slot, and every    *)
(* slot lies in the frame the root scope of the code will have, whatever   *)
(* blocks were opened and closed before: frame_define_var numbers a block  *)
(* from vars_off, and a while statement forgets what its condition         *)
(* defined.  An index is one byte: beyond ByteRange variables slots do     *)
(* coincide.                                                               *)
SlotsInFrame ==
  \A p \in Visible : scopes[p[1]].vars[p[2]].index < scopes[Base].max

SlotsDistinct ==
  scopes[Base].max <= ByteRange =>
    \A p, q \in Visible :
      p # q => scopes[p[1]].vars[p[2]].index # scopes[q[1]].vars[q[2]].index

(* Every jump in code that is complete, nested in whatever other code,     *)
(* lands on an instruction of that code or just behind it.                 *)
Finished == {emitters[i].code : i \in DOMAIN emitters} \cup {funcs[i].code : i \in DOMAIN funcs}

JumpsLand ==
  \A code \in Finished : \A i \in Jumps(code) : JumpTarget(code, i) \in Boundaries(code)

(* The body of every function that is registered passes the verifier with  *)
(* the sizes in its handle, on every path and not only on those that run:  *)
(* one depth at every point, enough stack for it, jumps to instructions.   *)
(* Every call of a session with one function is to that function.          *)
FunctionsVerify ==
  \A i \in DOMAIN funcs :
    Verified(funcs[i].code, funcs[i].stack, funcs[i].vars, Last(funcs).args)
=============================================================================
