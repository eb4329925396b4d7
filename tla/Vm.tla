--------------------------------- MODULE Vm ---------------------------------
(***************************************************************************)
(* The stack machine that executes bytecode: vm_execute_opcodes and the    *)
(* handlers it dispatches to, one action per family of handlers.           *)
(*                                                                         *)
(* The machine knows no types: a word is 32 bits, whatever was stored.     *)
(* Here a word carries a tag that says what put it there: "int", "float",  *)
(* or "none" for memory that malloc returned and nothing has written, and  *)
(* for the result of an operation on operands of the wrong kind.  A word   *)
(* that is not an "int" is compared and tested with either outcome.  The   *)
(* value of a float is abstracted away.                                    *)
(*                                                                         *)
(* The handlers check nothing.  Where one would read or write outside the  *)
(* memory of its frame the machine goes to a trap, which stands for        *)
(* undefined behaviour and ends the behaviour here.                        *)
(***************************************************************************)
EXTENDS Bytecode, SequencesExt

CONSTANTS
  IntRange,       \* values of an int32_t: 2^32 in the source
  RootStack,      \* GLOBAL_STACK_CAPACITY in bytes: 1024
  RootLocals,     \* GLOBAL_VARIABLES_CAPACITY in words: 256
  CallStackMax    \* CALL_STACK_MAX_SIZE: 128

ASSUME RangeAssumption == IntRange \in Nat \ {0} /\ IntRange % 2 = 0
ASSUME RootAssumption  == RootStack \in Nat /\ RootLocals \in Nat
ASSUME DepthAssumption == CallStackMax \in Nat \ {0}

VARIABLES
  frames,     \* the call stack and, per frame, the C-local program counter and code
  trap        \* "none", or why the machine stopped

vmvars == <<frames, trap>>

Int32 == -(IntRange \div 2) .. (IntRange \div 2) - 1
(* Seeded fault: integers do not wrap around.                              *)
WrapNot(n) == n

Wrap(n) == ((n + IntRange \div 2) % IntRange) - IntRange \div 2

IntWord(n) == [type |-> "int", val |-> Wrap(n)]
FloatWord  == [type |-> "float", val |-> 0]
NoWord     == [type |-> "none", val |-> 0]
Word       == [type : {"int"}, val : Int32] \cup {FloatWord, NoWord}

Uninitialised(n) == [i \in 1..n |-> NoWord]

Frame(code, locals, cap) ==
  [code |-> code, pc |-> 0, stack |-> <<>>, locals |-> locals, cap |-> cap]

current == Last(frames)
depth   == Len(current.stack)

(* The loop condition of vm_execute_opcodes compares pc as an unsigned     *)
(* number, so a negative pc ends the loop too.                             *)
Running(frame) == frame.pc \in 0..Len(frame.code)-1

Idle == trap = "none" /\ Len(frames) = 1 /\ ~Running(frames[1])

(* The handle a CALL with this operand finds.  Every constant lies at      *)
(* offset 0 of the pool, where registering the next one overwrites it, so  *)
(* every index names the signature, and finds the handle, registered last. *)
Resolve(handles, k) == handles[Len(handles)]

-----------------------------------------------------------------------------
(* The instruction at the program counter of the top frame.                *)

Ready == trap = "none" /\ Running(current)
instr == current.code[current.pc + 1]

At(ops) == Ready /\ instr.op \in ops

(* The stack pointer of the top frame stays within its stack.              *)
Fits(op) == /\ depth >= Pops(op)
            /\ 4 * (depth - Pops(op) + Pushes(op)) <= current.cap

OperandWords == SubSeq(current.stack, depth - Pops(instr.op) + 1, depth)
Rest         == SubSeq(current.stack, 1, depth - Pops(instr.op))

(* The handler leaves this stack and moves the program counter by delta.   *)
Moved(frame, stack, delta) == [frame EXCEPT !.stack = stack, !.pc = frame.pc + delta]

Continue(stack, delta) ==
  /\ frames' = [frames EXCEPT ![Len(frames)] = Moved(current, stack, delta)]
  /\ UNCHANGED trap

Stop(why) == trap' = why /\ UNCHANGED frames

-----------------------------------------------------------------------------
Const ==
  /\ At({"ICONST", "FCONST"})
  /\ Fits(instr.op)
  /\ Continue(Append(current.stack, IF instr.op = "ICONST" THEN IntWord(instr.arg) ELSE FloatWord), 5)

Load ==
  /\ At({"ILOAD", "FLOAD"})
  /\ Fits(instr.op)
  /\ instr.arg < Len(current.locals)
  /\ Continue(Append(current.stack, current.locals[instr.arg + 1]), 2)

(* Seeded fault: the stack pointer is not moved back.                      *)
SaveKeeps ==
  /\ At({"ISAVE", "FSAVE"})
  /\ Fits(instr.op)
  /\ instr.arg < Len(current.locals)
  /\ frames' = [frames EXCEPT ![Len(frames)] =
                   [Moved(current, current.stack, 2) EXCEPT !.locals[instr.arg + 1] = Last(current.stack)]]
  /\ UNCHANGED trap

Save ==
  /\ At({"ISAVE", "FSAVE"})
  /\ Fits(instr.op)
  /\ instr.arg < Len(current.locals)
  /\ frames' = [frames EXCEPT ![Len(frames)] =
                   [Moved(current, Rest, 2) EXCEPT !.locals[instr.arg + 1] = Last(current.stack)]]
  /\ UNCHANGED trap

(* Integer division of C: towards zero.                                    *)
Quotient(a, b) ==
  LET Abs(n) == IF n < 0 THEN -n ELSE n
  IN  IF (a < 0) = (b < 0) THEN Abs(a) \div Abs(b) ELSE -(Abs(a) \div Abs(b))

IntArith(op, a, b) ==
  CASE op = "IADD" -> a + b
    [] op = "ISUB" -> a - b
    [] op = "IMUL" -> a * b
    [] op = "IDIV" -> Quotient(a, b)

Ints(ws) == \A i \in DOMAIN ws : ws[i].type = "int"

Arith ==
  LET ws == OperandWords IN
  /\ At({"IADD", "ISUB", "IMUL", "IDIV"})
  /\ Fits(instr.op)
  /\ ~(instr.op = "IDIV" /\ ws[2] = IntWord(0))
  /\ Continue(Append(Rest, IF Ints(ws) THEN IntWord(IntArith(instr.op, ws[1].val, ws[2].val))
                                       ELSE NoWord), 1)

Holds(op, a, b) ==
  CASE op = "IEQ"  -> a = b
    [] op = "INEQ" -> a # b
    [] op = "ILT"  -> a < b
    [] op = "INGT" -> a <= b
    [] op = "IGT"  -> a > b
    [] op = "INLT" -> a >= b

Compare ==
  LET ws == OperandWords IN
  /\ At({"IEQ", "INEQ", "ILT", "INGT", "IGT", "INLT"})
  /\ Fits(instr.op)
  /\ \E b \in 0..1 :
       /\ Ints(ws) => (b = 1) = Holds(instr.op, ws[1].val, ws[2].val)
       /\ Continue(Append(Rest, IntWord(b)), 1)

FloatArith ==
  /\ At({"FADD", "FSUB", "FMUL", "FDIV"})
  /\ Fits(instr.op)
  /\ Continue(Append(Rest, IF \A i \in 1..2 : OperandWords[i].type = "float"
                           THEN FloatWord ELSE NoWord), 1)

IntToFloat ==
  /\ At({"I2F"})
  /\ Fits(instr.op)
  /\ Continue(Append(Rest, IF Ints(OperandWords) THEN FloatWord ELSE NoWord), 1)

(* JEZ and JNEZ jump from the next instruction by their operand.           *)
Branch ==
  /\ At({"JEZ", "JNEZ"})
  /\ Fits(instr.op)
  /\ \E zero \in BOOLEAN :
       /\ Ints(OperandWords) => zero = (Last(current.stack).val = 0)
       /\ Continue(Rest, IF zero = (instr.op = "JEZ") THEN 3 + instr.arg ELSE 3)

Jump ==
  /\ At({"JMP", "RJMP"})
  /\ Continue(current.stack, IF instr.op = "JMP" THEN 3 + instr.arg ELSE 3 - instr.arg)

(* Seeded fault: the arguments are taken from the stack.                   *)
CallFuncPops(handles) ==
  /\ At({"CALL"})
  /\ Len(frames) < CallStackMax
  /\ LET h    == Resolve(handles, instr.arg)
         args == SubSeq(current.stack, depth - h.args + 1, depth)
     IN  /\ depth >= h.args
         /\ frames' = Append([frames EXCEPT ![Len(frames)].stack = SubSeq(@, 1, depth - h.args)],
                             Frame(h.code, args \o Uninitialised(h.vars - h.args), h.stack))
  /\ UNCHANGED trap

(* CALL copies the arguments from the top of the caller's stack and leaves *)
(* them there; the new frame gets memory of the sizes in the handle.       *)
CallFunc(handles) ==
  /\ At({"CALL"})
  /\ Len(frames) < CallStackMax
  /\ LET h    == Resolve(handles, instr.arg)
         args == SubSeq(current.stack, depth - h.args + 1, depth)
     IN  /\ depth >= h.args
         /\ frames' = Append(frames, Frame(h.code, args \o Uninitialised(h.vars - h.args), h.stack))
  /\ UNCHANGED trap

(* Seeded faults: the caller goes on at its CALL, or at the operand of it. *)
ReturnToCall ==
  /\ trap = "none"
  /\ Len(frames) > 1
  /\ ~Running(current)
  /\ frames' = Front(frames)
  /\ UNCHANGED trap

ReturnToOperand ==
  /\ trap = "none"
  /\ Len(frames) > 1
  /\ ~Running(current)
  /\ frames' = [Front(frames) EXCEPT ![Len(frames) - 1].pc = @ + 1]
  /\ UNCHANGED trap

(* The code of a called function is at its end: its frame is freed and the *)
(* caller goes on after the CALL.                                          *)
Return ==
  /\ trap = "none"
  /\ Len(frames) > 1
  /\ ~Running(current)
  /\ frames' = [Front(frames) EXCEPT ![Len(frames) - 1].pc = @ + 3]
  /\ UNCHANGED trap

-----------------------------------------------------------------------------
(* The ways a handler leaves the memory of its frame, and vm_do_panic.     *)

StackTrap ==
  \/ Ready /\ instr.op # "CALL" /\ depth < Pops(instr.op) /\ Stop("underflow")
  \/ Ready /\ depth >= Pops(instr.op) /\ ~Fits(instr.op) /\ Stop("overflow")

LocalsTrap ==
  /\ At({"ILOAD", "FLOAD", "ISAVE", "FSAVE"})
  /\ Fits(instr.op)
  /\ instr.arg >= Len(current.locals)
  /\ Stop("locals")

CallTrap(handles) ==
  /\ At({"CALL"})
  /\ IF Len(frames) >= CallStackMax THEN Stop("callstack")
     ELSE depth < Resolve(handles, instr.arg).args /\ Stop("underflow")

DivisionTrap == /\ At({"IDIV"}) /\ Fits("IDIV")
                /\ Last(current.stack) = IntWord(0) /\ Stop("division")

(* An operand byte is fetched as an opcode.                                *)
OperandTrap == At({"OPERAND"}) /\ Stop("operand")

(* INEG and FNEG are emitted but have no handler.                          *)
PanicTrap == At({"INEG", "FNEG"}) /\ Stop("panic")

VmInit ==
  /\ frames = <<Frame(<<>>, Uninitialised(RootLocals), RootStack)>>
  /\ trap   = "none"

Execute(handles) ==
  \/ Const \/ Load \/ Save
  \/ Arith \/ Compare \/ FloatArith \/ IntToFloat
  \/ Branch \/ Jump
  \/ CallFunc(handles) \/ Return
  \/ StackTrap \/ LocalsTrap \/ CallTrap(handles) \/ DivisionTrap \/ OperandTrap \/ PanicTrap

(* vm_execute_opcodes, called for a chunk of root code.                    *)
Push(chunk) ==
  /\ Idle
  /\ frames' = [frames EXCEPT ![1].code = chunk, ![1].pc = 0]
  /\ UNCHANGED trap

-----------------------------------------------------------------------------
(* The type invariant, whatever code the machine runs.                     *)
CellFrame == [code : Seq(Cell), pc : Int, stack : Seq(Word), locals : Seq(Word), cap : Nat]

MachineTypeOK ==
  /\ frames \in Seq(CellFrame)
  /\ frames # <<>>
  /\ trap \in {"none", "underflow", "overflow", "locals", "callstack",
               "division", "operand", "panic"}
=============================================================================
