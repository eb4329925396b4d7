------------------------------ MODULE Bytecode ------------------------------
(***************************************************************************)
(* The instruction set of the Phantom shell virtual machine, as the        *)
(* compiler writes it and the machine reads it.                            *)
(*                                                                         *)
(* Code is a sequence of cells, one per byte: the opcode byte of an        *)
(* instruction is a cell that carries the whole instruction, and every     *)
(* operand byte that follows it is the cell OperandByte.  Len(code) is the     *)
(* size in bytes, so the offsets the compiler computes and the program     *)
(* counter the machine keeps are exact.                                    *)
(***************************************************************************)
EXTENDS Integers, Sequences

(* The mnemonics of opcodes.h the compiler can emit (INEG and FNEG have no *)
(* handler in the machine).                                                *)
Opcodes == {"ILOAD", "ISAVE", "FLOAD", "FSAVE", "ICONST", "FCONST",
            "IADD", "ISUB", "IMUL", "IDIV", "INEG", "I2F",
            "IEQ", "INEQ", "ILT", "INGT", "IGT", "INLT",
            "FADD", "FSUB", "FMUL", "FDIV", "FNEG",
            "JMP", "RJMP", "JEZ", "JNEZ", "CALL"}

ValueTypes == {"int", "float"}

(* int_operator_to_opcode and float_operator_to_opcode: an operator that   *)
(* is not in the domain has no opcode for that type.                       *)
IntOpcode == [add |-> "IADD", sub |-> "ISUB", mul |-> "IMUL", div |-> "IDIV",
              neg |-> "INEG", eq |-> "IEQ", neq |-> "INEQ", lt |-> "ILT",
              ngt |-> "INGT", gt |-> "IGT", nlt |-> "INLT"]

FloatOpcode == [add |-> "FADD", sub |-> "FSUB", mul |-> "FMUL",
                div |-> "FDIV", neg |-> "FNEG", eq |-> "IEQ", neq |-> "INEQ"]

(* The macros OPCODE_LOAD and OPCODE_SAVE, and the literals' opcodes.      *)
LoadOpcode(type)  == IF type = "int" THEN "ILOAD" ELSE "FLOAD"
SaveOpcode(type)  == IF type = "int" THEN "ISAVE" ELSE "FSAVE"
ConstOpcode(type) == IF type = "int" THEN "ICONST" ELSE "FCONST"

(* Operand bytes that follow the opcode byte.                              *)
OperandBytes(op) ==
  CASE op \in {"ICONST", "FCONST"}                       -> 4
    [] op \in {"JMP", "RJMP", "JEZ", "JNEZ", "CALL"}     -> 2
    [] op \in {"ILOAD", "ISAVE", "FLOAD", "FSAVE"}       -> 1
    [] OTHER                                             -> 0

OperandByte == [op |-> "OPERAND", arg |-> 0]

(* An operand is read as an unsigned number (a literal is then wrapped).   *)
Cell == [op : Opcodes \cup {"OPERAND"}, arg : Nat]

Size(op) == 1 + OperandBytes(op)

(* The bytes of one instruction: compiler_emit_0, _1, _2 and _n.           *)
Encode(op, arg) ==
  <<[op |-> op, arg |-> arg]>> \o [i \in 1..OperandBytes(op) |-> OperandByte]

(* Seeded fault: the entry of ICONST is missing from the map.              *)
StackIncNoIconst(op) ==
  CASE op \in {"ILOAD", "FLOAD", "FCONST"}               -> 4
    [] op \in {"ISAVE", "FSAVE", "JEZ", "JNEZ",
               "IADD", "ISUB", "IMUL", "IDIV",
               "IEQ", "INEQ", "ILT", "INGT", "IGT", "INLT",
               "FADD", "FSUB", "FMUL", "FDIV"}           -> -4
    [] op \in {"JMP", "RJMP"}                            -> -2
    [] OTHER                                             -> 0

(* opcode_to_stack_inc_map: the change of the stack size in bytes that the *)
(* compiler books for an opcode when it emits it inside an expression.     *)
StackInc(op) ==
  CASE op \in {"ILOAD", "FLOAD", "ICONST", "FCONST"}     -> 4
    [] op \in {"ISAVE", "FSAVE", "JEZ", "JNEZ",
               "IADD", "ISUB", "IMUL", "IDIV",
               "IEQ", "INEQ", "ILT", "INGT", "IGT", "INLT",
               "FADD", "FSUB", "FMUL", "FDIV"}           -> -4
    [] op \in {"JMP", "RJMP"}                            -> -2
    [] OTHER                                             -> 0

(* What the handlers of the machine take from the stack and leave on it,   *)
(* in words.  CALL reads its arguments but takes nothing.                  *)
Pops(op) ==
  CASE op \in {"ISAVE", "FSAVE", "I2F", "JEZ", "JNEZ"}   -> 1
    [] op \in {"IADD", "ISUB", "IMUL", "IDIV",
               "IEQ", "INEQ", "ILT", "INGT", "IGT", "INLT",
               "FADD", "FSUB", "FMUL", "FDIV"}           -> 2
    [] OTHER                                             -> 0

Pushes(op) ==
  CASE op \in {"ILOAD", "FLOAD", "ICONST", "FCONST"}     -> 1
    [] op = "I2F" \/ Pops(op) = 2                        -> 1
    [] OTHER                                             -> 0

(* Byte positions (1-based) where an instruction of the code starts, and   *)
(* the positions control may be at: those and the end of the code.         *)
Starts(code)     == {i \in DOMAIN code : code[i].op # "OPERAND"}
Boundaries(code) == Starts(code) \cup {Len(code) + 1}

(* Where the jump that starts at position i of the code goes.              *)
JumpTarget(code, i) ==
  IF code[i].op = "RJMP" THEN i + 3 - code[i].arg ELSE i + 3 + code[i].arg

Jumps(code) == {i \in DOMAIN code : code[i].op \in {"JMP", "RJMP", "JEZ", "JNEZ"}}
=============================================================================
