------------------------------- MODULE VmProof -------------------------------
(***************************************************************************)
(* Proofs about the machine whatever code and handles it is given: what    *)
(* one step can be, and that its state stays typed.                        *)
(***************************************************************************)
EXTENDS Vm, Verifier, TLAPS

(* The 32-bit arithmetic stays in its range.                               *)
LEMMA WrapInRange ==
  ASSUME NEW n \in Int PROVE Wrap(n) \in Int32
<1>1. IntRange \in Nat \ {0} /\ IntRange % 2 = 0
  BY RangeAssumption
<1>2. PICK h \in Int : h = IntRange \div 2 /\ IntRange = 2 * h
  BY <1>1
<1>3. PICK m \in Int : m = (n + h) % IntRange /\ 0 <= m /\ m < IntRange
  BY <1>1, <1>2
<1>4. Wrap(n) = m - h
  BY <1>2, <1>3 DEF Wrap
<1> QED
  BY <1>2, <1>3, <1>4 DEF Int32

LEMMA IntWordTyped ==
  ASSUME NEW n \in Int PROVE IntWord(n) \in Word
BY WrapInRange DEF IntWord, Word

(* What is known of the frame that runs, and of its instruction.           *)
LEMMA CurrentTyped ==
  ASSUME MachineTypeOK
  PROVE  /\ Len(frames) \in Nat \ {0}
         /\ frames \in Seq(CellFrame)
         /\ current = frames[Len(frames)]
         /\ current \in CellFrame
         /\ depth \in Nat
         /\ Ready => /\ current.pc + 1 \in 1..Len(current.code)
                     /\ instr \in Cell
<1>1. Len(frames) \in Nat \ {0} /\ current = frames[Len(frames)] /\ current \in CellFrame
  BY DEF MachineTypeOK, current, Last
<1>2. depth \in Nat
  BY <1>1 DEF depth, CellFrame
<1>3. ASSUME Ready
      PROVE  current.pc + 1 \in 1..Len(current.code) /\ instr \in Cell
  BY <1>1, <1>3 DEF Ready, Running, instr, CellFrame
<1> QED
  BY <1>1, <1>2, <1>3 DEF MachineTypeOK

LEMMA PopsBound ==
  ASSUME NEW op
  PROVE  /\ Pops(op) \in 0..2 /\ Pushes(op) \in 0..1
         /\ op \in {"ISAVE", "FSAVE", "I2F", "JEZ", "JNEZ"} => Pops(op) = 1
         /\ op \in {"IADD", "ISUB", "IMUL", "IDIV", "IEQ", "INEQ", "ILT", "INGT", "IGT",
                    "INLT", "FADD", "FSUB", "FMUL", "FDIV"} => Pops(op) = 2
BY DEF Pops, Pushes

(* The words an instruction takes, and those it leaves in place.           *)
LEMMA OperandsTyped ==
  ASSUME MachineTypeOK, Ready, Fits(instr.op)
  PROVE  /\ OperandWords \in Seq(Word) /\ Len(OperandWords) = Pops(instr.op)
         /\ Rest \in Seq(Word) /\ Len(Rest) = depth - Pops(instr.op)
         /\ \A i \in 1..Pops(instr.op) : OperandWords[i] \in Word
         /\ Pops(instr.op) > 0 => Last(current.stack) \in Word
<1> DEFINE p == Pops(instr.op)
<1>1. current \in CellFrame /\ depth \in Nat /\ depth = Len(current.stack)
  BY CurrentTyped DEF depth
<1>2. p \in 0..2 /\ p <= depth
  BY PopsBound DEF Fits
<1>3. current.stack \in Seq(Word)
  BY <1>1 DEF CellFrame
<1> HIDE DEF p
<1>4. OperandWords \in Seq(Word) /\ Len(OperandWords) = p
  BY <1>1, <1>2, <1>3 DEF OperandWords, p
<1>5. Rest \in Seq(Word) /\ Len(Rest) = depth - p
  BY <1>1, <1>2, <1>3 DEF Rest, p
<1>6. p > 0 => Last(current.stack) \in Word
  BY <1>1, <1>2, <1>3 DEF Last
<1> QED
  BY <1>2, <1>4, <1>5, <1>6 DEF p

(* A handler that leaves a typed stack leaves a typed machine.             *)
LEMMA MovedTyped ==
  ASSUME NEW fr \in CellFrame, NEW s \in Seq(Word), NEW d \in Int
  PROVE  /\ Moved(fr, s, d) \in CellFrame
         /\ Moved(fr, s, d).code = fr.code /\ Moved(fr, s, d).cap = fr.cap
         /\ Moved(fr, s, d).locals = fr.locals
         /\ Moved(fr, s, d).stack = s /\ Moved(fr, s, d).pc = fr.pc + d
<1> DEFINE C == Seq(Cell)
           W == Seq(Word)
           n == fr.pc + d
<1>1. CellFrame = [code : C, pc : Int, stack : W, locals : W, cap : Nat]
  BY DEF CellFrame
<1>2. s \in W /\ n \in Int
  BY DEF CellFrame
<1>3. Moved(fr, s, d) = [fr EXCEPT !.stack = s, !.pc = n]
  BY DEF Moved
<1> HIDE DEF C, W, n
<1>4. [fr EXCEPT !.stack = s, !.pc = n] \in CellFrame
  BY <1>1, <1>2
<1>5. n = fr.pc + d
  BY DEF n
<1> QED
  BY <1>1, <1>2, <1>3, <1>4, <1>5

LEMMA TopReplacedTyped ==
  ASSUME MachineTypeOK, NEW fr \in CellFrame,
         frames' = [frames EXCEPT ![Len(frames)] = fr], trap' = trap
  PROVE  MachineTypeOK'
<1>1. Len(frames) \in Nat \ {0} /\ frames \in Seq(CellFrame)
  BY CurrentTyped
<1>2. frames' \in Seq(CellFrame) /\ frames' # <<>>
  BY <1>1
<1> QED
  BY <1>2 DEF MachineTypeOK

(* What an instruction computes is a word.                                 *)
LEMMA ConstantsTyped == FloatWord \in Word /\ NoWord \in Word /\ Int32 \subseteq Int
BY RangeAssumption DEF Word, Int32

LEMMA WrapZero == Wrap(0) = 0
<1>1. PICK h \in Nat \ {0} : h = IntRange \div 2 /\ IntRange = 2 * h
  BY RangeAssumption
<1>2. (0 + h) % (2 * h) = h
  BY <1>1
<1> QED
  BY <1>1, <1>2 DEF Wrap

LEMMA QuotientInt ==
  ASSUME NEW a \in Int, NEW b \in Int, b # 0
  PROVE  Quotient(a, b) \in Int
<1> DEFINE A(n) == IF n < 0 THEN -n ELSE n
<1>1. A(a) \in Nat /\ A(b) \in Nat \ {0}
  OBVIOUS
<1>2. A(a) \div A(b) \in Int
  BY <1>1
<1>3. Quotient(a, b) = IF (a < 0) = (b < 0) THEN A(a) \div A(b) ELSE -(A(a) \div A(b))
  BY DEF Quotient
<1> QED
  BY <1>2, <1>3

LEMMA ArithInt ==
  ASSUME NEW op \in {"IADD", "ISUB", "IMUL", "IDIV"}, NEW a \in Int, NEW b \in Int,
         op = "IDIV" => b # 0
  PROVE  IntArith(op, a, b) \in Int
<1>1. CASE op = "IADD"
  BY <1>1 DEF IntArith
<1>2. CASE op = "ISUB"
  BY <1>2 DEF IntArith
<1>3. CASE op = "IMUL"
  BY <1>3 DEF IntArith
<1>4. CASE op = "IDIV"
  BY <1>4, QuotientInt DEF IntArith
<1> QED
  BY <1>1, <1>2, <1>3, <1>4

LEMMA IntOperand ==
  ASSUME NEW w \in Word, w.type = "int"
  PROVE  w.val \in Int /\ (w.val = 0 => w = IntWord(0))
<1>1. w \in [type : {"int"}, val : Int32]
  BY DEF Word, FloatWord, NoWord
<1> QED
  BY <1>1, WrapZero, ConstantsTyped DEF IntWord

(* One instruction of the top frame, other than CALL: that frame moves to  *)
(* a successor, with the depth the verifier computes for it.               *)
Stepped ==
  /\ Ready
  /\ trap' = trap
  /\ \E fr \in CellFrame :
       /\ frames' = [frames EXCEPT ![Len(frames)] = fr]
       /\ fr.code = current.code /\ fr.cap = current.cap
       /\ Len(fr.locals) = Len(current.locals)
       /\ fr.pc + 1 \in Successors(current.code, current.pc + 1)
       /\ Len(fr.stack) = DepthAfter(current.code, current.pc + 1, depth)

LEMMA AtInstr ==
  ASSUME Ready
  PROVE  /\ DepthAfter(current.code, current.pc + 1, depth)
              = depth - Pops(instr.op) + Pushes(instr.op)
         /\ instr.op \notin {"JMP", "RJMP", "JEZ", "JNEZ"} =>
              Successors(current.code, current.pc + 1) = {current.pc + 1 + Size(instr.op)}
BY DEF DepthAfter, Successors, instr

(* Instructions that put one word in the place of those they take.         *)
LEMMA OperationSteps ==
  ASSUME MachineTypeOK, Ready, Fits(instr.op), NEW w \in Word,
         Continue(Append(Rest, w), Size(instr.op)),
         Pushes(instr.op) = 1, instr.op \notin {"JMP", "RJMP", "JEZ", "JNEZ"},
         Size(instr.op) \in Nat
  PROVE  Stepped
<1> DEFINE s == Append(Rest, w)
           fr == Moved(current, s, Size(instr.op))
<1>1. current \in CellFrame /\ depth \in Nat
  BY CurrentTyped
<1>2. s \in Seq(Word) /\ Len(s) = depth - Pops(instr.op) + 1
  BY <1>1, OperandsTyped
<1>3. frames' = [frames EXCEPT ![Len(frames)] = fr] /\ trap' = trap
  BY DEF Continue
<1> HIDE DEF s
<1>4. /\ fr \in CellFrame /\ fr.code = current.code /\ fr.cap = current.cap
      /\ fr.locals = current.locals /\ fr.stack = s /\ fr.pc = current.pc + Size(instr.op)
  BY <1>1, <1>2, MovedTyped
<1> HIDE DEF fr
<1>5. fr.pc + 1 \in Successors(current.code, current.pc + 1)
  BY <1>1, <1>4, AtInstr DEF CellFrame
<1>6. Len(fr.stack) = DepthAfter(current.code, current.pc + 1, depth)
  BY <1>1, <1>2, <1>4, AtInstr
<1> QED
  BY <1>3, <1>4, <1>5, <1>6 DEF Stepped

LEMMA ArithSteps == ASSUME MachineTypeOK, Arith PROVE Stepped
<1>1. Ready /\ Fits(instr.op) /\ instr.op \in {"IADD", "ISUB", "IMUL", "IDIV"}
  BY DEF Arith, At
<1>2. Pops(instr.op) = 2 /\ Pushes(instr.op) = 1 /\ Size(instr.op) = 1
  BY <1>1 DEF Pops, Pushes, Size, OperandBytes
<1>3. OperandWords[1] \in Word /\ OperandWords[2] \in Word /\ DOMAIN OperandWords = 1..2
  BY <1>1, <1>2, OperandsTyped
<1>4. PICK w : /\ w = IF Ints(OperandWords)
                      THEN IntWord(IntArith(instr.op, OperandWords[1].val, OperandWords[2].val))
                      ELSE NoWord
               /\ Continue(Append(Rest, w), 1)
  BY DEF Arith
<1>5. w \in Word
  <2>1. CASE Ints(OperandWords)
    <3>1. OperandWords[1].type = "int" /\ OperandWords[2].type = "int"
      BY <2>1, <1>3 DEF Ints
    <3>2. IntArith(instr.op, OperandWords[1].val, OperandWords[2].val) \in Int
      BY <3>1, <1>1, <1>3, IntOperand, ArithInt DEF Arith
    <3> QED
      BY <3>2, <2>1, <1>4, IntWordTyped
  <2>2. CASE ~Ints(OperandWords)
    BY <2>2, <1>4, ConstantsTyped
  <2> QED
    BY <2>1, <2>2
<1> QED
  BY <1>1, <1>2, <1>4, <1>5, OperationSteps

LEMMA CompareSteps == ASSUME MachineTypeOK, Compare PROVE Stepped
<1>1. /\ Ready /\ Fits(instr.op)
      /\ instr.op \in {"IEQ", "INEQ", "ILT", "INGT", "IGT", "INLT"}
  BY DEF Compare, At
<1>2. Pops(instr.op) = 2 /\ Pushes(instr.op) = 1 /\ Size(instr.op) = 1
  BY <1>1 DEF Pops, Pushes, Size, OperandBytes
<1>3. PICK b \in 0..1 : Continue(Append(Rest, IntWord(b)), 1)
  BY DEF Compare
<1>4. PICK w : w = IntWord(b) /\ Continue(Append(Rest, w), 1)
  BY <1>3
<1>5. w \in Word
  BY <1>4, IntWordTyped
<1> QED
  BY <1>1, <1>2, <1>4, <1>5, OperationSteps

LEMMA FloatArithSteps == ASSUME MachineTypeOK, FloatArith PROVE Stepped
<1>1. Ready /\ Fits(instr.op) /\ instr.op \in {"FADD", "FSUB", "FMUL", "FDIV"}
  BY DEF FloatArith, At
<1>2. Pops(instr.op) = 2 /\ Pushes(instr.op) = 1 /\ Size(instr.op) = 1
  BY <1>1 DEF Pops, Pushes, Size, OperandBytes
<1>3. PICK w : /\ w = IF \A i \in 1..2 : OperandWords[i].type = "float"
                      THEN FloatWord ELSE NoWord
               /\ Continue(Append(Rest, w), 1)
  BY DEF FloatArith
<1>4. w \in Word
  BY <1>3, ConstantsTyped
<1> QED
  BY <1>1, <1>2, <1>3, <1>4, OperationSteps

LEMMA IntToFloatSteps == ASSUME MachineTypeOK, IntToFloat PROVE Stepped
<1>1. Ready /\ Fits(instr.op) /\ instr.op = "I2F"
  BY DEF IntToFloat, At
<1>2. Pushes(instr.op) = 1 /\ Size(instr.op) = 1
  BY <1>1 DEF Pushes, Size, OperandBytes
<1>3. PICK w : /\ w = IF Ints(OperandWords) THEN FloatWord ELSE NoWord
               /\ Continue(Append(Rest, w), 1)
  BY DEF IntToFloat
<1>4. w \in Word
  BY <1>3, ConstantsTyped
<1> QED
  BY <1>1, <1>2, <1>3, <1>4, OperationSteps

(* An instruction that takes nothing leaves the whole stack.               *)
LEMMA RestWhole ==
  ASSUME MachineTypeOK, Pops(instr.op) = 0
  PROVE  Rest = current.stack
<1>1. current.stack \in Seq(Word) /\ depth = Len(current.stack)
  BY CurrentTyped DEF CellFrame, depth
<1> QED
  BY <1>1 DEF Rest

LEMMA ConstSteps == ASSUME MachineTypeOK, Const PROVE Stepped
<1>1. Ready /\ Fits(instr.op) /\ instr.op \in {"ICONST", "FCONST"} /\ instr \in Cell
  BY CurrentTyped DEF Const, At
<1>2. Pops(instr.op) = 0 /\ Pushes(instr.op) = 1 /\ Size(instr.op) = 5
  BY <1>1 DEF Pops, Pushes, Size, OperandBytes
<1>3. PICK w : /\ w = IF instr.op = "ICONST" THEN IntWord(instr.arg) ELSE FloatWord
               /\ Continue(Append(Rest, w), 5)
  BY <1>2, RestWhole DEF Const
<1>4. w \in Word
  BY <1>1, <1>3, IntWordTyped, ConstantsTyped DEF Cell
<1> QED
  BY <1>1, <1>2, <1>3, <1>4, OperationSteps

LEMMA LoadSteps == ASSUME MachineTypeOK, Load PROVE Stepped
<1>1. /\ Ready /\ Fits(instr.op) /\ instr.op \in {"ILOAD", "FLOAD"}
      /\ instr \in Cell /\ current \in CellFrame
  BY CurrentTyped DEF Load, At
<1>2. Pops(instr.op) = 0 /\ Pushes(instr.op) = 1 /\ Size(instr.op) = 2
  BY <1>1 DEF Pops, Pushes, Size, OperandBytes
<1>3. PICK w : w = current.locals[instr.arg + 1] /\ Continue(Append(Rest, w), 2)
  BY <1>2, RestWhole DEF Load
<1>4. w \in Word
  BY <1>1, <1>3 DEF Load, Cell, CellFrame
<1> QED
  BY <1>1, <1>2, <1>3, <1>4, OperationSteps

LEMMA SaveSteps == ASSUME MachineTypeOK, Save PROVE Stepped
<1>1. /\ Ready /\ Fits(instr.op) /\ instr.op \in {"ISAVE", "FSAVE"}
      /\ instr \in Cell /\ current \in CellFrame /\ depth \in Nat
  BY CurrentTyped DEF Save, At
<1>2. Pops(instr.op) = 1 /\ Pushes(instr.op) = 0 /\ Size(instr.op) = 2
  BY <1>1 DEF Pops, Pushes, Size, OperandBytes
<1>3. Rest \in Seq(Word) /\ Len(Rest) = depth - 1 /\ Last(current.stack) \in Word
  BY <1>1, <1>2, OperandsTyped
<1> DEFINE k  == instr.arg + 1
           mv == Moved(current, Rest, 2)
           fr == [mv EXCEPT !.locals[k] = Last(current.stack)]
<1>4. /\ mv \in CellFrame /\ mv.code = current.code /\ mv.cap = current.cap
      /\ mv.locals = current.locals /\ mv.stack = Rest /\ mv.pc = current.pc + 2
  BY <1>1, <1>3, MovedTyped
<1>5. k \in 1..Len(current.locals)
  BY <1>1 DEF Save, Cell, CellFrame
<1>6. frames' = [frames EXCEPT ![Len(frames)] = fr] /\ trap' = trap
  BY DEF Save
<1> HIDE DEF mv, k
<1> DEFINE ls == [mv.locals EXCEPT ![k] = Last(current.stack)]
<1>7. ls \in Seq(Word) /\ Len(ls) = Len(current.locals)
  BY <1>1, <1>3, <1>4, <1>5 DEF CellFrame
<1>8. /\ fr \in CellFrame /\ fr.code = mv.code /\ fr.cap = mv.cap
      /\ fr.locals = ls /\ fr.stack = mv.stack /\ fr.pc = mv.pc
  <2> DEFINE C == Seq(Cell)
             W == Seq(Word)
  <2>1. CellFrame = [code : C, pc : Int, stack : W, locals : W, cap : Nat] /\ ls \in W
    BY <1>7 DEF CellFrame
  <2>2. fr = [mv EXCEPT !.locals = ls]
    OBVIOUS
  <2> HIDE DEF C, W, ls, fr
  <2> QED
    BY <1>4, <2>1, <2>2
<1> HIDE DEF fr, ls
<1>9. fr.pc + 1 \in Successors(current.code, current.pc + 1)
  BY <1>1, <1>2, <1>4, <1>8, AtInstr DEF CellFrame
<1>10. Len(fr.stack) = DepthAfter(current.code, current.pc + 1, depth)
  BY <1>1, <1>2, <1>3, <1>4, <1>8, AtInstr
<1> QED
  BY <1>1, <1>4, <1>6, <1>7, <1>8, <1>9, <1>10 DEF Stepped

(* Jumps: the other successor of an instruction is its target.             *)
LEMMA JumpSteps ==
  ASSUME MachineTypeOK, Branch \/ Jump
  PROVE  Stepped
<1>1. /\ Ready /\ instr.op \in {"JEZ", "JNEZ", "JMP", "RJMP"} /\ instr \in Cell
      /\ current \in CellFrame /\ depth \in Nat
  BY CurrentTyped DEF Branch, Jump, At
<1>2. PICK s \in Seq(Word), d \in Int :
        /\ frames' = [frames EXCEPT ![Len(frames)] = Moved(current, s, d)]
        /\ Len(s) = depth - Pops(instr.op)
        /\ current.pc + 1 + d \in Successors(current.code, current.pc + 1)
  <2>1. CASE Branch
    <3>1. Fits(instr.op) /\ instr.op \in {"JEZ", "JNEZ"}
      BY <2>1 DEF Branch, At
    <3>2. Rest \in Seq(Word) /\ Len(Rest) = depth - Pops(instr.op)
      BY <1>1, <3>1, OperandsTyped
    <3>3. Successors(current.code, current.pc + 1)
            = {current.pc + 1 + 3, current.pc + 1 + 3 + instr.arg}
      BY <3>1 DEF Successors, JumpTarget, instr
    <3>4. Continue(Rest, 3) \/ Continue(Rest, 3 + instr.arg)
      BY <2>1 DEF Branch
    <3>5. CASE Continue(Rest, 3)
      <4>1. PICK d \in Int : d = 3
        OBVIOUS
      <4>2. current.pc + 1 + d \in Successors(current.code, current.pc + 1)
        BY <3>3, <4>1
      <4>3. frames' = [frames EXCEPT ![Len(frames)] = Moved(current, Rest, d)]
        BY <3>5, <4>1 DEF Continue
      <4> QED
        BY <3>2, <4>2, <4>3
    <3>6. CASE Continue(Rest, 3 + instr.arg)
      <4>1. 3 + instr.arg \in Int
        BY <1>1 DEF Cell
      <4>2. current.pc + 1 + (3 + instr.arg) = current.pc + 1 + 3 + instr.arg
        BY <1>1 DEF Cell, CellFrame
      <4> QED
        BY <3>2, <3>3, <3>6, <4>1, <4>2 DEF Continue
    <3> QED
      BY <3>4, <3>5, <3>6
  <2>2. CASE Jump
    <3>1. instr.op \in {"JMP", "RJMP"} /\ Pops(instr.op) = 0
      BY <2>2 DEF Jump, At, Pops
    <3> DEFINE d == IF instr.op = "JMP" THEN 3 + instr.arg ELSE 3 - instr.arg
    <3>2. d \in Int /\ Continue(current.stack, d)
      BY <1>1, <2>2 DEF Jump, Cell
    <3>3. current.pc + 1 + d \in Successors(current.code, current.pc + 1)
      <4>1. PICK p \in Int, a \in Int : p = current.pc + 1 /\ a = instr.arg
        BY <1>1 DEF Cell, CellFrame
      <4>2. p + d = IF instr.op = "JMP" THEN p + 3 + a ELSE p + 3 - a
        BY <4>1
      <4>3. instr = current.code[p]
        BY <4>1 DEF instr
      <4> QED
        BY <3>1, <4>1, <4>2, <4>3 DEF Successors, JumpTarget
    <3>4. current.stack \in Seq(Word) /\ Len(current.stack) = depth - Pops(instr.op)
      BY <1>1, <3>1 DEF CellFrame, depth
    <3> HIDE DEF d
    <3> QED
      BY <3>2, <3>3, <3>4 DEF Continue
  <2> QED
    BY <2>1, <2>2
<1> DEFINE fr == Moved(current, s, d)
<1>3. /\ fr \in CellFrame /\ fr.code = current.code /\ fr.cap = current.cap
      /\ fr.locals = current.locals /\ fr.stack = s /\ fr.pc = current.pc + d
  BY <1>1, MovedTyped
<1>4. frames' = [frames EXCEPT ![Len(frames)] = fr] /\ trap' = trap
  BY <1>2 DEF Branch, Jump, Continue
<1> HIDE DEF fr
<1>5. fr.pc + 1 \in Successors(current.code, current.pc + 1)
  <2>1. fr.pc + 1 = current.pc + 1 + d
    BY <1>1, <1>3 DEF CellFrame
  <2> QED
    BY <1>2, <2>1
<1>6. Len(fr.stack) = DepthAfter(current.code, current.pc + 1, depth)
  <2>1. Pushes(instr.op) = 0
    BY <1>1 DEF Pushes, Pops
  <2> QED
    BY <1>1, <1>2, <1>3, <2>1, AtInstr, PopsBound
<1> QED
  BY <1>1, <1>3, <1>4, <1>5, <1>6 DEF Stepped

(* The last n words of a stack, and two sequences in a row.                *)
LEMMA Suffix ==
  ASSUME NEW S, NEW s \in Seq(S), NEW n \in Nat, n <= Len(s)
  PROVE  /\ SubSeq(s, Len(s) - n + 1, Len(s)) \in Seq(S)
         /\ Len(SubSeq(s, Len(s) - n + 1, Len(s))) = n
<1> DEFINE m == Len(s) - n + 1
<1>1. m \in Nat /\ m = Len(s) - n + 1 /\ m >= 1 /\ m <= Len(s) + 1
  OBVIOUS
<1> HIDE DEF m
<1>2. Len(SubSeq(s, m, Len(s))) = n
  BY <1>1
<1>3. \A i \in 1..n : SubSeq(s, m, Len(s))[i] \in S
  BY <1>1
<1>4. SubSeq(s, m, Len(s)) \in Seq(S)
  BY <1>1, <1>2, <1>3
<1> QED
  BY <1>1, <1>2, <1>4

LEMMA FrontTyped ==
  ASSUME NEW S, NEW s \in Seq(S), Len(s) > 1
  PROVE  /\ Front(s) \in Seq(S) /\ Len(Front(s)) = Len(s) - 1 /\ Len(Front(s)) \in Nat \ {0}
         /\ \A i \in 1..Len(s)-1 : Front(s)[i] = s[i]
<1> DEFINE n == Len(s) - 1
<1>1. n \in Nat \ {0} /\ n <= Len(s)
  <2>1. PICK l \in Nat : l = Len(s) /\ l > 1
    OBVIOUS
  <2>2. l - 1 \in Nat /\ l - 1 # 0 /\ l - 1 <= l
    BY <2>1
  <2> QED
    BY <2>1, <2>2
<1>4. Front(s) = SubSeq(s, 1, n)
  BY DEF Front
<1> HIDE DEF n
<1>2. Len(SubSeq(s, 1, n)) = n /\ \A i \in 1..n : SubSeq(s, 1, n)[i] = s[i] /\ s[i] \in S
  BY <1>1
<1>3. SubSeq(s, 1, n) \in Seq(S)
  BY <1>1, <1>2
<1> QED
  BY <1>1, <1>2, <1>3, <1>4 DEF n

LEMMA Concatenation ==
  ASSUME NEW S, NEW s \in Seq(S), NEW t \in Seq(S)
  PROVE  s \o t \in Seq(S) /\ Len(s \o t) = Len(s) + Len(t)
OBVIOUS

(* What a CALL relies on of the handle it finds.                           *)
HandleTyped(h) ==
  h.code \in Seq(Cell) /\ h.args \in Nat /\ h.vars \in Nat /\ h.stack \in Nat

(* CALL pushes a frame with the handle's sizes and keeps the caller's.     *)
LEMMA CallPushes ==
  ASSUME MachineTypeOK, NEW handles, CallFunc(handles),
         NEW h, h = Resolve(handles, instr.arg), HandleTyped(h)
  PROVE  \E fr \in CellFrame :
           /\ frames' = Append(frames, fr)
           /\ fr.code = h.code /\ fr.cap = h.stack
           /\ h.args <= h.vars => Len(fr.locals) = h.vars
           /\ h.vars <= Len(fr.locals)
           /\ fr.pc = 0 /\ fr.stack = <<>>
<1> DEFINE args == SubSeq(current.stack, depth - h.args + 1, depth)
           n == h.vars - h.args
           rest == Uninitialised(n)
           locals == args \o rest
           fr == Frame(h.code, locals, h.stack)
<1>1. h.code \in Seq(Cell) /\ h.args \in Nat /\ h.vars \in Nat /\ h.stack \in Nat
  BY DEF HandleTyped
<1>2. current.stack \in Seq(Word) /\ depth = Len(current.stack) /\ depth \in Nat
  BY CurrentTyped DEF CellFrame, depth
<1>3. depth >= h.args /\ frames' = Append(frames, fr)
  BY DEF CallFunc
<1>4. args \in Seq(Word) /\ Len(args) = h.args
  BY <1>1, <1>2, <1>3, Suffix
<1>5. rest \in Seq(Word) /\ Len(rest) = IF h.args <= h.vars THEN n ELSE 0
  <2>1. CASE h.args <= h.vars
    <3>1. n \in Nat
      BY <1>1, <2>1
    <3> HIDE DEF n
    <3>2. rest \in [1..n -> Word]
      BY ConstantsTyped DEF Uninitialised
    <3> QED
      BY <2>1, <3>1, <3>2
  <2>2. CASE ~(h.args <= h.vars)
    <3>1. 1..n = {}
      BY <1>1, <2>2
    <3>2. rest = <<>>
      BY <3>1 DEF Uninitialised
    <3> HIDE DEF rest
    <3> QED
      BY <2>2, <3>2
  <2> QED
    BY <2>1, <2>2
<1>6. locals \in Seq(Word) /\ Len(locals) = Len(args) + Len(rest)
  <2> HIDE DEF args, rest
  <2> QED
    BY <1>4, <1>5, Concatenation
<1>7. (h.args <= h.vars => Len(locals) = h.vars) /\ h.vars <= Len(locals)
  <2> HIDE DEF args, rest, locals
  <2> QED
    BY <1>1, <1>4, <1>5, <1>6
<1> HIDE DEF locals
<1>8. fr = [code |-> h.code, pc |-> 0, stack |-> <<>>, locals |-> locals, cap |-> h.stack]
  BY DEF Frame
<1>9. <<>> \in Seq(Word)
  OBVIOUS
<1> HIDE DEF fr
<1>10. fr \in CellFrame
  BY <1>1, <1>6, <1>8, <1>9 DEF CellFrame
<1> QED
  BY <1>3, <1>7, <1>8, <1>10

(* A return takes the top frame away and moves the one below behind its    *)
(* CALL.                                                                   *)
LEMMA ReturnPops ==
  ASSUME MachineTypeOK, Return
  PROVE  /\ Len(frames) > 1
         /\ \E fr \in CellFrame :
              /\ frames' = [Front(frames) EXCEPT ![Len(frames) - 1] = fr]
              /\ fr.code = frames[Len(frames) - 1].code /\ fr.cap = frames[Len(frames) - 1].cap
              /\ fr.locals = frames[Len(frames) - 1].locals
              /\ fr.stack = frames[Len(frames) - 1].stack
              /\ fr.pc = frames[Len(frames) - 1].pc + 3
<1> DEFINE m  == Len(frames) - 1
           fr == [frames[m] EXCEPT !.pc = @ + 3]
<1>1. Len(frames) \in Nat \ {0} /\ frames \in Seq(CellFrame) /\ Len(frames) > 1
  BY CurrentTyped DEF Return
<1>2. m \in 1..Len(frames) /\ frames[m] \in CellFrame /\ Front(frames)[m] = frames[m]
  BY <1>1 DEF Front
<1>3. frames' = [Front(frames) EXCEPT ![m] = fr]
  BY <1>2 DEF Return
<1>4. /\ fr \in CellFrame /\ fr.code = frames[m].code /\ fr.cap = frames[m].cap
      /\ fr.locals = frames[m].locals /\ fr.stack = frames[m].stack
      /\ fr.pc = frames[m].pc + 3
  <2> DEFINE C == Seq(Cell)
             W == Seq(Word)
  <2>1. CellFrame = [code : C, pc : Int, stack : W, locals : W, cap : Nat]
    BY DEF CellFrame
  <2> HIDE DEF C, W, m
  <2> QED
    BY <1>2, <2>1
<1> QED
  BY <1>1, <1>3, <1>4

-----------------------------------------------------------------------------
(* Type correctness, for any code.                                         *)

Traps == {"none", "underflow", "overflow", "locals", "callstack",
          "division", "operand", "panic"}

Trapped == frames' = frames /\ trap' \in Traps

(* What one step of the machine can be.                                    *)
LEMMA StepCases ==
  ASSUME MachineTypeOK, NEW handles, Execute(handles)
  PROVE  \/ Stepped
         \/ CallFunc(handles)
         \/ Return
         \/ /\ Trapped
            /\ \/ StackTrap \/ LocalsTrap \/ CallTrap(handles)
               \/ DivisionTrap \/ OperandTrap \/ PanicTrap
<1>1. CASE Const \/ Load \/ Save \/ Arith \/ Compare \/ FloatArith \/ IntToFloat \/ Branch \/ Jump
  BY <1>1, ConstSteps, LoadSteps, SaveSteps, ArithSteps, CompareSteps, FloatArithSteps,
     IntToFloatSteps, JumpSteps
<1>2. CASE StackTrap \/ LocalsTrap \/ CallTrap(handles)
           \/ DivisionTrap \/ OperandTrap \/ PanicTrap
  <2>1. Trapped
    BY <1>2 DEF StackTrap, LocalsTrap, CallTrap, DivisionTrap, OperandTrap, PanicTrap, Stop,
                Trapped, Traps
  <2> QED
    BY <1>2, <2>1
<1> QED
  BY <1>1, <1>2 DEF Execute

(* A step whose CALL, if it is one, finds a handle keeps the types.        *)
LEMMA MachineStep ==
  ASSUME MachineTypeOK, NEW handles, Execute(handles),
         Ready /\ instr.op = "CALL" => HandleTyped(Resolve(handles, instr.arg))
  PROVE  MachineTypeOK'
<1>3. CASE Stepped
  <2>1. PICK fr \in CellFrame : frames' = [frames EXCEPT ![Len(frames)] = fr]
    BY <1>3 DEF Stepped
  <2> QED
    BY <1>3, <2>1, TopReplacedTyped DEF Stepped
<1>4. CASE CallFunc(handles)
  <2>1. frames \in Seq(CellFrame) /\ trap \in Traps
    BY DEF MachineTypeOK, Traps
  <2>2. PICK fr \in CellFrame : frames' = Append(frames, fr)
    <3>1. Ready /\ instr.op = "CALL"
      BY <1>4 DEF CallFunc, At
    <3>2. PICK h : h = Resolve(handles, instr.arg)
      OBVIOUS
    <3> QED
      BY <1>4, <3>1, <3>2, CallPushes
  <2>3. frames' \in Seq(CellFrame) /\ frames' # <<>>
    BY <2>1, <2>2
  <2>4. trap' = trap
    BY <1>4 DEF CallFunc
  <2> QED
    BY <2>1, <2>3, <2>4 DEF MachineTypeOK, Traps
<1>5. CASE Return
  <2>1. frames \in Seq(CellFrame) /\ Len(frames) > 1 /\ trap' = trap
    BY <1>5 DEF MachineTypeOK, Return
  <2>2. PICK fr \in CellFrame : frames' = [Front(frames) EXCEPT ![Len(frames) - 1] = fr]
    BY <1>5, ReturnPops
  <2>3. /\ Front(frames) \in Seq(CellFrame) /\ Len(Front(frames)) = Len(frames) - 1
        /\ Len(Front(frames)) \in Nat \ {0}
    BY <2>1, FrontTyped
  <2>4. frames' \in Seq(CellFrame) /\ frames' # <<>>
    BY <2>2, <2>3
  <2> QED
    BY <2>1, <2>4 DEF MachineTypeOK
<1>6. CASE Trapped
  BY <1>6 DEF MachineTypeOK, Trapped, Traps
<1> QED
  BY <1>3, <1>4, <1>5, <1>6, StepCases
=============================================================================
