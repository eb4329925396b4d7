----------------------------- MODULE ShellProof -----------------------------
(***************************************************************************)
(* The session inherits what is proved of the compiler: the machine runs   *)
(* between two steps of it, and takes from the root's emitter, but no step *)
(* of the machine, whatever it runs into, touches a scope handler.  And    *)
(* the machine inherits what is proved of the code: it stays inside of it, *)
(* and inside the locals and the stacks of its frames.                     *)
(***************************************************************************)
EXTENDS Shell, CodeProof, VmProof

(* The chunk is taken from the emitter, which stays in its place.          *)
LEMMA PushKeepsCompiler ==
  ASSUME TypeInv, PushChunk
  PROVE  TypeInv'
<1>1. /\ scopes' = scopes /\ stacks' = stacks /\ status' = status /\ stats' = stats
      /\ emitters' = [emitters EXCEPT ![1].code = <<>>]
  BY DEF PushChunk
<1>2. Len(scopes) \in Nat
  BY DEF TypeInv, ScopesInv, ScopesOK
<1> DEFINE e == [emitters[1] EXCEPT !.code = <<>>]
<1>3. emitters' = [emitters EXCEPT ![1] = e]
  BY <1>1
<1> HIDE DEF e
<1>4. IsList(emitters', Len(scopes))
  BY <1>2, <1>3, ListUpdates, Zenon DEF TypeInv, Parallel
<1>5. Parallel(scopes', stacks', emitters')
  BY <1>1, <1>4 DEF TypeInv, Parallel
<1>6. ScopesInv'
  BY <1>1 DEF TypeInv, ScopesInv
<1> QED
  BY <1>1, <1>5, <1>6 DEF TypeInv

LEMMA SessionStep == TypeInv /\ [ShellNext]_shellvars => TypeInv'
<1> SUFFICES ASSUME TypeInv, [ShellNext]_shellvars PROVE TypeInv'
  OBVIOUS
<1>1. CASE CompileStep
  BY <1>1, TypeStep DEF CompileStep
<1>2. CASE PushChunk
  BY <1>2, PushKeepsCompiler
<1>3. CASE ExecuteStep
  BY <1>3, TypeStep DEF ExecuteStep
<1>4. CASE UNCHANGED shellvars
  BY <1>4, TypeStep DEF shellvars
<1> QED
  BY <1>1, <1>2, <1>3, <1>4 DEF ShellNext

LEMMA SessionInv == ShellSpec => []TypeInv
<1>1. ShellInit => TypeInv
  BY TypeInit DEF ShellInit
<1> QED
  BY <1>1, SessionStep, PTL DEF ShellSpec

(* Whatever the session has run, and wherever the machine is in it: scope  *)
(* handlers, booked stacks and emitters are opened and closed together.    *)
THEOREM SessionTyped == ShellSpec => []TypeOK
BY SessionInv, InvTyped, PTL

(* Also while code runs, which may be in the middle of a statement at the  *)
(* root, every visible variable has a slot below the maximum of its frame. *)
THEOREM SessionSlotsInFrame == ShellSpec => []SlotsInFrame
<1>1. TypeInv => SlotsInFrame
  BY SlotsFit DEF TypeInv
<1> QED
  BY <1>1, SessionInv, PTL

(* And no two of them share one, as long as a byte can name them all.      *)
THEOREM SessionSlotsDistinct == ShellSpec => []SlotsDistinct
<1>1. TypeInv => SlotsDistinct
  BY SlotsDiffer DEF TypeInv
<1> QED
  BY <1>1, SessionInv, PTL

-----------------------------------------------------------------------------
(* The code the machine runs.                                              *)

(* The slots of the root scope fit the frame the machine keeps for it.     *)
FramesFit == SizesFit /\ scopes[1].max <= RootLocals

(* A frame runs whole instructions; if K, they name its slots only, and if *)
(* J, the program counter is at an instruction or behind the last.         *)
FrameOK(fr, f, J, K) ==
  /\ \E m \in Nat : Good(fr.code, m, f, J) /\ (K => m <= Len(fr.locals))
  /\ J => fr.pc + 1 \in Boundaries(fr.code)

(* A frame that is not on top has not left its CALL.                       *)
Waiting(fr) == fr.pc + 1 \in Starts(fr.code) /\ fr.code[fr.pc + 1].op = "CALL"

MachineOK(J, K) ==
  /\ MachineTypeOK
  /\ \A i \in 1..Len(frames) : FrameOK(frames[i], funcs # <<>>, J, K)
  /\ J => \A i \in 1..Len(frames)-1 : Waiting(frames[i])
  /\ Len(frames[1].locals) = RootLocals
  /\ J => trap # "operand"
  /\ K => trap # "locals"

SessionOK(J, K) == CodeInv(J, K) /\ MachineOK(J, K)

(* The instruction that is about to run.                                   *)
LEMMA InstrIn ==
  ASSUME NEW J, NEW K, MachineOK(J, K), Ready, instr.op # "OPERAND"
  PROVE  /\ current.pc + 1 \in Starts(current.code)
         /\ current.pc + 1 + Size(instr.op) \in Boundaries(current.code)
         /\ instr.op \in Opcodes
         /\ instr.op = "CALL" => funcs # <<>>
         /\ K => (instr.op \in LocalOps => instr.arg < Len(current.locals))
<1>1. /\ Len(frames) \in 1..Len(frames) /\ current = frames[Len(frames)]
      /\ current.pc + 1 \in 1..Len(current.code) /\ current \in CellFrame
  BY CurrentTyped DEF MachineOK
<1>2. PICK m \in Nat : Good(current.code, m, funcs # <<>>, J) /\ (K => m <= Len(current.locals))
  BY <1>1 DEF MachineOK, FrameOK
<1>3. PICK i : i = current.pc + 1 /\ current.code[i] = instr
  BY DEF instr
<1>4. i \in Starts(current.code)
  <2>1. i \in DOMAIN current.code
    BY <1>1, <1>3 DEF CellFrame
  <2> QED
    BY <1>3, <2>1 DEF Starts
<1>5. instr \in Instrs(m, funcs # <<>>) /\ i + Size(instr.op) \in Boundaries(current.code)
  BY <1>2, <1>3, <1>4 DEF Good, Laid
<1>6. /\ instr.op \in Opcodes /\ instr.arg \in Nat
      /\ instr.op \in LocalOps => instr.arg < m
      /\ instr.op = "CALL" => funcs # <<>>
  BY <1>5 DEF Instrs
<1>7. K => (instr.op \in LocalOps => instr.arg < Len(current.locals))
  <2>1. Len(current.locals) \in Nat
    BY <1>1 DEF CellFrame
  <2> QED
    BY <1>2, <1>6, <2>1
<1> QED
  BY <1>3, <1>4, <1>5, <1>6, <1>7

(* Every CALL finds the handle of a function that is complete.             *)
LEMMA Resolved ==
  ASSUME NEW J, NEW K, FuncsOK(funcs, J, K), funcs # <<>>, NEW k
  PROVE  HandleOK(Resolve(funcs, k), J, K)
<1>1. PICK n \in Nat : IsList(funcs, n) /\ \A i \in 1..n : HandleOK(funcs[i], J, K)
  BY DEF FuncsOK
<1>2. n # 0 /\ Len(funcs) = n
  BY <1>1 DEF IsList
<1> QED
  BY <1>1, <1>2 DEF Resolve

LEMMA HandleIsTyped ==
  ASSUME NEW J, NEW K, NEW h, HandleOK(h, J, K)
  PROVE  HandleTyped(h)
BY DEF HandleOK, HandleTyped, Good, Laid

(* The frames, after a step of the machine.                                *)
LEMMA TopStepped ==
  ASSUME NEW J, NEW K, MachineOK(J, K), Stepped, instr.op \notin {"OPERAND", "CALL"}
  PROVE  \E fr : /\ frames' = [frames EXCEPT ![Len(frames)] = fr]
                 /\ FrameOK(fr, funcs # <<>>, J, K)
                 /\ Len(fr.locals) = Len(frames[Len(frames)].locals)
<1>1. PICK fr \in CellFrame :
       /\ frames' = [frames EXCEPT ![Len(frames)] = fr]
       /\ fr.code = current.code
       /\ Len(fr.locals) = Len(current.locals)
       /\ fr.pc + 1 \in Successors(current.code, current.pc + 1)
  BY DEF Stepped
<1>2. Ready /\ Len(frames) \in 1..Len(frames) /\ current = frames[Len(frames)]
  BY CurrentTyped DEF MachineOK, Stepped
<1>3. PICK m \in Nat : Good(current.code, m, funcs # <<>>, J) /\ (K => m <= Len(current.locals))
  BY <1>2 DEF MachineOK, FrameOK
<1>4. /\ current.pc + 1 \in Starts(current.code) /\ instr.op \in Opcodes
      /\ current.pc + 1 + Size(instr.op) \in Boundaries(current.code)
  BY <1>2, InstrIn
<1>5. ASSUME J PROVE fr.pc + 1 \in Boundaries(fr.code)
  <2>1. Lands(current.code)
    BY <1>3, <1>5 DEF Good
  <2>2. CASE instr.op \in {"JMP", "RJMP", "JEZ", "JNEZ"}
    <3>1. current.pc + 1 \in Jumps(current.code)
      BY <1>4, <2>2 DEF Jumps, Starts, instr
    <3>2. JumpTarget(current.code, current.pc + 1) \in Boundaries(current.code)
      BY <2>1, <3>1 DEF Lands, JumpsTo
    <3>3. instr.op \in {"JEZ", "JNEZ"} => Size(instr.op) = 3
      BY DEF Size, OperandBytes
    <3>4. CASE instr.op \in {"JMP", "RJMP"}
      <4>1. Successors(current.code, current.pc + 1) = {JumpTarget(current.code, current.pc + 1)}
        BY <3>4 DEF Successors, instr
      <4> QED
        BY <1>1, <3>2, <4>1
    <3>5. CASE instr.op \in {"JEZ", "JNEZ"}
      <4>1. Successors(current.code, current.pc + 1)
              = {current.pc + 1 + 3, JumpTarget(current.code, current.pc + 1)}
        BY <3>5 DEF Successors, instr
      <4> QED
        BY <1>1, <1>4, <3>2, <3>3, <3>5, <4>1
    <3> QED
      BY <2>2, <3>4, <3>5
  <2>3. CASE instr.op \notin {"JMP", "RJMP", "JEZ", "JNEZ"}
    <3>1. Successors(current.code, current.pc + 1) = {current.pc + 1 + Size(instr.op)}
      BY <1>2, <2>3, AtInstr
    <3> QED
      BY <1>1, <1>4, <3>1
  <2> QED
    BY <2>2, <2>3
<1>6. FrameOK(fr, funcs # <<>>, J, K)
  BY <1>1, <1>3, <1>5 DEF FrameOK
<1> QED
  BY <1>1, <1>2, <1>6

LEMMA TopReplacedOK ==
  ASSUME NEW J, NEW K, MachineOK(J, K), MachineTypeOK', trap' = trap, funcs' = funcs,
         NEW fr, frames' = [frames EXCEPT ![Len(frames)] = fr],
         FrameOK(fr, funcs # <<>>, J, K),
         Len(fr.locals) = Len(frames[Len(frames)].locals)
  PROVE  MachineOK(J, K)'
<1>1. PICK n \in Nat \ {0} : n = Len(frames) /\ frames \in Seq(CellFrame)
  BY CurrentTyped DEF MachineOK
<1>2. /\ Len(frames') = n /\ frames'[n] = fr
      /\ \A i \in 1..n : i # n => frames'[i] = frames[i]
  BY <1>1
<1>3. ASSUME NEW i \in 1..n PROVE FrameOK(frames'[i], funcs' # <<>>, J, K)
  BY <1>1, <1>2 DEF MachineOK
<1>4. ASSUME J, NEW i \in 1..n-1 PROVE Waiting(frames'[i])
  <2>1. i \in 1..n /\ i # n
    BY <1>1
  <2> QED
    BY <1>1, <1>2, <1>4, <2>1 DEF MachineOK
<1>5. Len(frames'[1].locals) = RootLocals
  <2>1. 1 \in 1..n
    BY <1>1
  <2> QED
    BY <1>1, <1>2, <2>1 DEF MachineOK
<1> QED
  BY <1>1, <1>2, <1>3, <1>4, <1>5 DEF MachineOK

LEMMA CallKeepsOK ==
  ASSUME NEW J, NEW K, MachineOK(J, K), MachineTypeOK', FuncsOK(funcs, J, K), funcs' = funcs,
         CallFunc(funcs)
  PROVE  MachineOK(J, K)'
<1>1. Ready /\ instr.op = "CALL" /\ trap' = trap
  BY DEF CallFunc, At
<1>2. current.pc + 1 \in Starts(current.code) /\ funcs # <<>>
  BY <1>1, InstrIn
<1>3. PICK h : h = Resolve(funcs, instr.arg) /\ HandleOK(h, J, K) /\ HandleTyped(h)
  BY <1>2, Resolved, HandleIsTyped
<1>4. PICK fr \in CellFrame :
        /\ frames' = Append(frames, fr) /\ fr.code = h.code
        /\ h.vars <= Len(fr.locals) /\ fr.pc = 0
  BY <1>3, CallPushes DEF MachineOK
<1>5. PICK m \in Nat : Good(h.code, m, TRUE, J) /\ (K => m = h.vars)
  BY <1>3 DEF HandleOK
<1>6. FrameOK(fr, funcs # <<>>, J, K)
  <2>1. Good(fr.code, m, funcs # <<>>, J)
    BY <1>2, <1>4, <1>5
  <2>2. fr.pc + 1 \in Boundaries(fr.code)
    <3>1. 1 \in Boundaries(fr.code)
      BY <2>1 DEF Good, Laid
    <3> QED
      BY <1>4, <3>1
  <2>3. K => m <= Len(fr.locals)
    BY <1>4, <1>5
  <2> QED
    BY <2>1, <2>2, <2>3 DEF FrameOK
<1>7. PICK n \in Nat \ {0} : n = Len(frames) /\ frames \in Seq(CellFrame) /\ current = frames[n]
  BY CurrentTyped DEF MachineOK
<1>8. /\ Len(frames') = n + 1 /\ frames'[n+1] = fr
      /\ \A i \in 1..n : frames'[i] = frames[i]
  BY <1>4, <1>7
<1>9. ASSUME NEW i \in 1..n+1 PROVE FrameOK(frames'[i], funcs' # <<>>, J, K)
  <2>1. CASE i = n + 1
    BY <1>6, <1>8, <2>1
  <2>2. CASE i # n + 1
    <3>1. i \in 1..n
      BY <2>2
    <3> QED
      BY <1>7, <1>8, <3>1 DEF MachineOK
  <2> QED
    BY <2>1, <2>2
<1>10. ASSUME J, NEW i \in 1..n PROVE Waiting(frames'[i])
  <2>1. CASE i = n
    BY <1>1, <1>2, <1>7, <1>8, <2>1 DEF Waiting, instr
  <2>2. CASE i # n
    <3>1. i \in 1..n-1
      BY <2>2
    <3> QED
      BY <1>7, <1>8, <1>10, <3>1 DEF MachineOK
  <2> QED
    BY <2>1, <2>2
<1>11. Len(frames'[1].locals) = RootLocals
  <2>1. 1 \in 1..n
    BY <1>7
  <2> QED
    BY <1>7, <1>8, <2>1 DEF MachineOK
<1>12. n + 1 - 1 = n
  BY <1>7
<1> QED
  BY <1>1, <1>8, <1>9, <1>10, <1>11, <1>12 DEF MachineOK

LEMMA ReturnKeepsOK ==
  ASSUME NEW J, NEW K, MachineOK(J, K), MachineTypeOK', funcs' = funcs, Return
  PROVE  MachineOK(J, K)'
<1>1. PICK r \in Nat \ {0} : Len(frames) = r + 1 /\ Len(frames) - 1 = r /\ frames \in Seq(CellFrame)
  <2>1. Len(frames) \in Nat /\ Len(frames) > 1 /\ frames \in Seq(CellFrame)
    BY CurrentTyped DEF Return, MachineOK
  <2> QED
    BY <2>1
<1>2. PICK fr \in CellFrame :
        /\ frames' = [Front(frames) EXCEPT ![r] = fr]
        /\ fr.code = frames[r].code /\ fr.locals = frames[r].locals /\ fr.pc = frames[r].pc + 3
  BY <1>1, ReturnPops DEF MachineOK
<1>3. /\ Front(frames) \in Seq(CellFrame) /\ Len(Front(frames)) = r
      /\ \A i \in 1..r : Front(frames)[i] = frames[i]
  BY <1>1, FrontTyped
<1>4. /\ Len(frames') = r /\ frames'[r] = fr
      /\ \A i \in 1..r : i # r => frames'[i] = frames[i]
  BY <1>1, <1>2, <1>3
<1>5. r \in 1..Len(frames) /\ r \in 1..Len(frames)-1 /\ frames[r] \in CellFrame
  BY <1>1
<1>6. FrameOK(frames[r], funcs # <<>>, J, K) /\ (J => Waiting(frames[r]))
  BY <1>5 DEF MachineOK
<1>7. FrameOK(fr, funcs # <<>>, J, K)
  <2>1. PICK m \in Nat : Good(frames[r].code, m, funcs # <<>>, J) /\ (K => m <= Len(frames[r].locals))
    BY <1>6 DEF FrameOK
  <2>2. ASSUME J PROVE fr.pc + 1 \in Boundaries(fr.code)
    <3> DEFINE i == frames[r].pc + 1
    <3>1. i \in Starts(frames[r].code) /\ frames[r].code[i].op = "CALL"
      BY <1>6, <2>2 DEF Waiting
    <3>2. i + Size("CALL") \in Boundaries(frames[r].code)
      BY <2>1, <3>1 DEF Good, Laid
    <3>3. Size("CALL") = 3
      BY DEF Size, OperandBytes
    <3>4. fr.pc + 1 = i + 3
      BY <1>2, <1>5 DEF CellFrame
    <3> QED
      BY <1>2, <3>2, <3>3, <3>4
  <2> QED
    BY <1>2, <2>1, <2>2 DEF FrameOK
<1>8. ASSUME NEW i \in 1..r PROVE FrameOK(frames'[i], funcs' # <<>>, J, K)
  <2>1. CASE i = r
    BY <1>4, <1>7, <2>1
  <2>2. CASE i # r
    <3>1. i \in 1..Len(frames)
      BY <1>1
    <3> QED
      BY <1>4, <2>2, <3>1 DEF MachineOK
  <2> QED
    BY <2>1, <2>2
<1>9. ASSUME J, NEW i \in 1..r-1 PROVE Waiting(frames'[i])
  <2>1. i \in 1..Len(frames)-1 /\ i \in 1..r /\ i # r
    BY <1>1
  <2> QED
    BY <1>4, <1>9, <2>1 DEF MachineOK
<1>10. Len(frames'[1].locals) = RootLocals
  <2>1. Len(frames[1].locals) = RootLocals
    BY DEF MachineOK
  <2>2. CASE r = 1
    BY <1>2, <1>4, <2>1, <2>2
  <2>3. CASE r # 1
    <3>1. 1 \in 1..r
      BY <1>1
    <3> QED
      BY <1>4, <2>1, <2>3, <3>1
  <2> QED
    BY <2>2, <2>3
<1>11. trap' = trap
  BY DEF Return
<1> QED
  BY <1>4, <1>8, <1>9, <1>10, <1>11 DEF MachineOK

LEMMA TrapKeepsOK ==
  ASSUME NEW J, NEW K, MachineOK(J, K), MachineTypeOK', funcs' = funcs, frames' = frames,
         StackTrap \/ LocalsTrap \/ CallTrap(funcs) \/ DivisionTrap \/ OperandTrap \/ PanicTrap
  PROVE  MachineOK(J, K)'
<1>1. ASSUME J PROVE ~OperandTrap
  <2> SUFFICES ASSUME OperandTrap PROVE FALSE
    OBVIOUS
  <2>1. Ready /\ instr.op = "OPERAND"
    BY DEF OperandTrap, At
  <2>2. /\ Len(frames) \in 1..Len(frames) /\ current = frames[Len(frames)]
        /\ current.pc + 1 \in 1..Len(current.code)
    BY <2>1, CurrentTyped DEF MachineOK
  <2>3. current.pc + 1 \in Boundaries(current.code)
    BY <1>1, <2>2 DEF MachineOK, FrameOK
  <2>4. current.pc + 1 \in Starts(current.code)
    BY <2>2, <2>3 DEF Boundaries
  <2> QED
    BY <2>1, <2>4 DEF Starts, instr
<1>2. ASSUME K PROVE ~LocalsTrap
  <2> SUFFICES ASSUME LocalsTrap PROVE FALSE
    OBVIOUS
  <2>1. /\ Ready /\ instr.op \in LocalOps /\ instr.op # "OPERAND"
        /\ instr.arg >= Len(current.locals)
    BY DEF LocalsTrap, At, LocalOps
  <2>2. instr.arg < Len(current.locals)
    BY <1>2, <2>1, InstrIn
  <2>3. instr.arg \in Nat /\ Len(current.locals) \in Nat
    BY <2>1, CurrentTyped DEF MachineOK, Cell, CellFrame
  <2> QED
    BY <2>1, <2>2, <2>3
<1>3. trap' = "operand" => OperandTrap
  BY DEF StackTrap, LocalsTrap, CallTrap, DivisionTrap, PanicTrap, Stop
<1>4. trap' = "locals" => LocalsTrap
  BY DEF StackTrap, CallTrap, DivisionTrap, OperandTrap, PanicTrap, Stop
<1> QED
  BY <1>1, <1>2, <1>3, <1>4 DEF MachineOK

LEMMA ExecuteKeepsOK ==
  ASSUME NEW J, NEW K, MachineOK(J, K), FuncsOK(funcs, J, K), Execute(funcs), funcs' = funcs
  PROVE  MachineOK(J, K)'
<1>1. MachineTypeOK
  BY DEF MachineOK
<1>2. ASSUME Ready, instr.op = "CALL" PROVE HandleTyped(Resolve(funcs, instr.arg))
  BY <1>2, InstrIn, Resolved, HandleIsTyped
<1>3. MachineTypeOK'
  BY <1>1, <1>2, MachineStep
<1>4. CASE Const \/ Load \/ Save \/ Arith \/ Compare \/ FloatArith \/ IntToFloat \/ Branch \/ Jump
  <2>1. Stepped
    BY <1>1, <1>4, ConstSteps, LoadSteps, SaveSteps, ArithSteps, CompareSteps, FloatArithSteps,
       IntToFloatSteps, JumpSteps
  <2>2. instr.op \notin {"OPERAND", "CALL"}
    BY <1>4 DEF Const, Load, Save, Arith, Compare, FloatArith, IntToFloat, Branch, Jump, At
  <2>3. PICK fr : /\ frames' = [frames EXCEPT ![Len(frames)] = fr]
                  /\ FrameOK(fr, funcs # <<>>, J, K)
                  /\ Len(fr.locals) = Len(frames[Len(frames)].locals)
    BY <2>1, <2>2, TopStepped
  <2>4. trap' = trap
    BY <2>1 DEF Stepped
  <2> QED
    BY <1>3, <2>3, <2>4, TopReplacedOK
<1>5. CASE CallFunc(funcs)
  BY <1>3, <1>5, CallKeepsOK
<1>6. CASE Return
  BY <1>3, <1>6, ReturnKeepsOK
<1>7. CASE StackTrap \/ LocalsTrap \/ CallTrap(funcs) \/ DivisionTrap \/ OperandTrap \/ PanicTrap
  <2>1. frames' = frames
    BY <1>7 DEF StackTrap, LocalsTrap, CallTrap, DivisionTrap, OperandTrap, PanicTrap, Stop
  <2> QED
    BY <1>3, <1>7, <2>1, TrapKeepsOK
<1> QED
  BY <1>4, <1>5, <1>6, <1>7 DEF Execute

(* The compiler goes on: the frames stay as they are.                      *)
LEMMA FuncsStay ==
  ASSUME NEW J, NEW K, CodeInv(J, K), Next
  PROVE  funcs # <<>> => funcs' # <<>>
<1>1. PICK n \in Nat : IsList(funcs, n)
  BY DEF CodeInv, FuncsOK
<1>2. CASE CloseFunc
  <2>1. PICK h : funcs' = Append(funcs, h)
    BY <1>2 DEF CloseFunc
  <2> QED
    BY <1>1, <2>1, ListGrows DEF IsLonger
<1>3. CASE ~CloseFunc
  BY <1>3 DEF Next, ExprStat, RejectExpr, OpenIf, OpenWhile, Else, CloseIf, CloseWhile, CloseBlock, OpenFunc
<1> QED
  BY <1>2, <1>3

LEMMA CompileKeepsOK ==
  ASSUME NEW J, NEW K, SessionOK(J, K), J => OffsetsFit, K => FramesFit, CompileStep
  PROVE  SessionOK(J, K)'
<1>1. CodeInv(J, K)'
  BY CodeStep DEF SessionOK, CompileStep, FramesFit
<1>2. frames' = frames /\ trap' = trap
  BY DEF CompileStep, vmvars
<1>3. funcs # <<>> => funcs' # <<>>
  BY FuncsStay DEF SessionOK, CompileStep
<1>4. ASSUME NEW i \in 1..Len(frames) PROVE FrameOK(frames[i], funcs' # <<>>, J, K)
  <2>1. PICK m \in Nat : Good(frames[i].code, m, funcs # <<>>, J) /\ (K => m <= Len(frames[i].locals))
    BY DEF SessionOK, MachineOK, FrameOK
  <2>2. m <= m
    OBVIOUS
  <2>3. Good(frames[i].code, m, funcs' # <<>>, J)
    BY <1>3, <2>1, <2>2, GoodMore, Zenon
  <2>4. J => frames[i].pc + 1 \in Boundaries(frames[i].code)
    BY DEF SessionOK, MachineOK, FrameOK
  <2> QED
    BY <2>1, <2>3, <2>4 DEF FrameOK
<1>5. MachineTypeOK'
  BY <1>2 DEF SessionOK, MachineOK, MachineTypeOK
<1>6. MachineOK(J, K)'
  BY <1>2, <1>4, <1>5 DEF SessionOK, MachineOK
<1> QED
  BY <1>1, <1>6 DEF SessionOK

(* A chunk of root code is pushed.                                         *)
LEMMA PushKeepsOK ==
  ASSUME NEW J, NEW K, SessionOK(J, K), K => FramesFit, PushChunk
  PROVE  SessionOK(J, K)'
<1>1. /\ ScopesOK(scopes) /\ EmittersOK(scopes, emitters, funcs, J) /\ FuncsOK(funcs, J, K)
      /\ DescsOK(scopes, descs, funcs) /\ StacksOK(stacks, Len(scopes))
      /\ status \in {"run", "panic"}
  BY DEF SessionOK, CodeInv
<1>2. UNCHANGED <<scopes, stacks, descs, funcs, status>> /\ Push(Emitted)
  BY DEF PushChunk
<1>3. PICK t \in Nat \ {0} : t = Len(scopes) /\ emitters \in Seq(Chunk) /\ Len(emitters) = t /\ 1 \in 1..t
  BY <1>1 DEF ScopesOK, EmittersOK
<1> DEFINE c == [emitters[1] EXCEPT !.code = <<>>]
<1>4. c \in Chunk /\ c.head = emitters[1].head /\ c.code = <<>>
  <2>1. <<>> \in Seq(Cell)
    OBVIOUS
  <2>2. emitters[1] \in Chunk
    BY <1>3
  <2> QED
    BY <2>1, <2>2 DEF Chunk
<1>5. emitters' = [emitters EXCEPT ![1] = c]
  BY DEF PushChunk
<1> HIDE DEF c
<1>6. /\ emitters' \in Seq(Chunk) /\ Len(emitters') = t /\ emitters'[1] = c
      /\ \A i \in 1..t : i # 1 => emitters'[i] = emitters[i]
  BY <1>3, <1>4, <1>5
<1>7. EmittersOK(scopes, emitters', funcs, J)
  <2>1. ASSUME NEW i \in 1..t
        PROVE  /\ Good(emitters'[i].head, MaxFor(scopes, i), CallsFor(scopes, funcs, i), J)
               /\ Good(emitters'[i].code, MaxFor(scopes, i), CallsFor(scopes, funcs, i), J)
    <3>1. /\ Good(emitters[i].head, MaxFor(scopes, i), CallsFor(scopes, funcs, i), J)
          /\ Good(emitters[i].code, MaxFor(scopes, i), CallsFor(scopes, funcs, i), J)
      BY <1>1, <1>3 DEF EmittersOK
    <3> QED
      BY <1>4, <1>6, <3>1, GoodEmpty
  <2> QED
    BY <1>3, <1>6, <2>1 DEF EmittersOK
<1>8. CodeInv(J, K)'
  BY <1>1, <1>2, <1>7 DEF CodeInv
<1>9. PICK m \in Nat : m = scopes[1].max /\ Good(Emitted, m, funcs # <<>>, J)
  <2>1. FrameOf(scopes, 1) = 1 /\ MaxFor(scopes, 1) \in Nat
    <3>1. FrameOf(scopes, 1) \in {1, FrameBase(scopes)} /\ MaxFor(scopes, 1) \in Nat
          /\ FrameBase(scopes) \in {1, 2}
      BY <1>1, <1>3, FrameOfIn
    <3> QED
      BY <3>1 DEF FrameOf
  <2>2. MaxFor(scopes, 1) = scopes[1].max /\ (CallsFor(scopes, funcs, 1) => funcs # <<>>)
    BY <2>1 DEF MaxFor, CallsFor
  <2>3. Good(Emitted, MaxFor(scopes, 1), CallsFor(scopes, funcs, 1), J)
    BY <1>1, <1>3 DEF EmittersOK, Emitted
  <2>4. MaxFor(scopes, 1) <= MaxFor(scopes, 1)
    BY <2>1
  <2>5. Good(Emitted, MaxFor(scopes, 1), funcs # <<>>, J)
    BY <2>1, <2>2, <2>3, <2>4, GoodMore, Zenon
  <2> QED
    BY <2>1, <2>2, <2>5
<1>10. /\ Len(frames) = 1 /\ frames \in Seq(CellFrame) /\ frames[1] \in CellFrame
       /\ Len(frames[1].locals) = RootLocals /\ trap \in Traps /\ trap = "none"
  BY <1>2 DEF SessionOK, MachineOK, MachineTypeOK, Push, Idle, Traps
<1> DEFINE fr == [frames[1] EXCEPT !.code = Emitted, !.pc = 0]
<1>11. fr \in CellFrame /\ fr.code = Emitted /\ fr.pc = 0 /\ fr.locals = frames[1].locals
  <2>1. Emitted \in Seq(Cell)
    BY <1>9 DEF Good, Laid
  <2> DEFINE C == Seq(Cell)
             W == Seq(Word)
  <2>2. CellFrame = [code : C, pc : Int, stack : W, locals : W, cap : Nat] /\ Emitted \in C
    BY <2>1 DEF CellFrame
  <2>3. PICK q, g : q = Emitted /\ g = frames[1]
    OBVIOUS
  <2>4. q \in C /\ g \in [code : C, pc : Int, stack : W, locals : W, cap : Nat]
    BY <1>10, <2>2, <2>3
  <2>5. PICK h : h = [g EXCEPT !.code = q, !.pc = 0]
    OBVIOUS
  <2> HIDE DEF C, W
  <2>8. h = [code |-> q, pc |-> 0, stack |-> g.stack, locals |-> g.locals, cap |-> g.cap]
    BY <2>4, <2>5
  <2>6. /\ h \in [code : C, pc : Int, stack : W, locals : W, cap : Nat]
        /\ h.code = q /\ h.pc = 0 /\ h.locals = g.locals
    BY <2>4, <2>8
  <2>7. fr = h
    BY <2>3, <2>5
  <2> HIDE DEF fr
  <2> QED
    BY <2>2, <2>3, <2>6, <2>7
<1>12. frames' = [frames EXCEPT ![1] = fr] /\ trap' = trap
  BY <1>2 DEF Push
<1> HIDE DEF fr
<1>13. frames' \in Seq(CellFrame) /\ Len(frames') = 1 /\ frames'[1] = fr
  <2>1. frames \in Seq(CellFrame) /\ Len(frames) = 1 /\ fr \in CellFrame
    BY <1>10, <1>11
  <2> QED
    BY <1>12, <2>1
<1>14. FrameOK(fr, funcs # <<>>, J, K)
  <2>1. fr.pc + 1 \in Boundaries(fr.code)
    BY <1>9, <1>11 DEF Good, Laid
  <2>2. K => m <= Len(fr.locals)
    BY <1>9, <1>10, <1>11 DEF FramesFit
  <2> QED
    BY <1>9, <1>11, <2>1, <2>2 DEF FrameOK
<1>15. MachineTypeOK'
  BY <1>10, <1>12, <1>13 DEF MachineTypeOK
<1>16. MachineOK(J, K)'
  <2>1. \A i \in 1..Len(frames') : FrameOK(frames'[i], funcs' # <<>>, J, K)
    BY <1>2, <1>13, <1>14
  <2>2. \A i \in 1..Len(frames')-1 : Waiting(frames'[i])
    BY <1>13
  <2> QED
    BY <1>10, <1>11, <1>12, <1>13, <1>15, <2>1, <2>2 DEF MachineOK
<1> QED
  BY <1>8, <1>16 DEF SessionOK

LEMMA SessionInit == ASSUME NEW J, NEW K, ShellInit PROVE SessionOK(J, K)
<1>1. CodeInv(J, K)
  BY CodeInit DEF ShellInit
<1> DEFINE fr == Frame(<<>>, Uninitialised(RootLocals), RootStack)
<1>2. Uninitialised(RootLocals) \in Seq(Word) /\ Len(Uninitialised(RootLocals)) = RootLocals
  BY RootAssumption, ConstantsTyped DEF Uninitialised
<1>3. fr = [code |-> <<>>, pc |-> 0, stack |-> <<>>, locals |-> Uninitialised(RootLocals), cap |-> RootStack]
  BY DEF Frame
<1>4. frames = <<fr>> /\ trap = "none"
  BY DEF ShellInit, VmInit
<1> HIDE DEF fr
<1>5. <<>> \in Seq(Word) /\ <<>> \in Seq(Cell)
  OBVIOUS
<1>6. fr \in CellFrame
  BY <1>2, <1>3, <1>5, RootAssumption DEF CellFrame
<1>7. frames \in Seq(CellFrame) /\ Len(frames) = 1 /\ frames[1] = fr
  BY <1>4, <1>6
<1>8. MachineTypeOK
  BY <1>4, <1>7 DEF MachineTypeOK
<1>9. FrameOK(fr, funcs # <<>>, J, K)
  <2>1. Good(<<>>, 0, funcs # <<>>, J)
    BY GoodEmpty
  <2>2. 1 \in Boundaries(<<>>)
    BY <2>1 DEF Good, Laid
  <2>3. 0 <= Len(fr.locals)
    BY <1>2, <1>3, RootAssumption
  <2> QED
    BY <1>3, <2>1, <2>2, <2>3 DEF FrameOK
<1>10. MachineOK(J, K)
  <2>1. \A i \in 1..Len(frames) : FrameOK(frames[i], funcs # <<>>, J, K)
    BY <1>7, <1>9
  <2>2. \A i \in 1..Len(frames)-1 : Waiting(frames[i])
    BY <1>7
  <2> QED
    BY <1>2, <1>3, <1>4, <1>7, <1>8, <2>1, <2>2 DEF MachineOK
<1> QED
  BY <1>1, <1>10 DEF SessionOK

LEMMA SessionStepOK ==
  ASSUME NEW J, NEW K, SessionOK(J, K), J => OffsetsFit, K => FramesFit, [ShellNext]_shellvars
  PROVE  SessionOK(J, K)'
<1>1. CASE CompileStep
  BY <1>1, CompileKeepsOK
<1>2. CASE PushChunk
  BY <1>2, PushKeepsOK
<1>3. CASE ExecuteStep
  <2>1. UNCHANGED vars /\ Execute(funcs) /\ funcs' = funcs
    BY <1>3 DEF ExecuteStep, vars
  <2>2. CodeInv(J, K)'
    BY <2>1 DEF SessionOK, CodeInv, vars
  <2>3. MachineOK(J, K)'
    BY <2>1, ExecuteKeepsOK DEF SessionOK, CodeInv
  <2> QED
    BY <2>2, <2>3 DEF SessionOK
<1>4. CASE UNCHANGED shellvars
  BY <1>4 DEF shellvars, vars, vmvars, SessionOK, CodeInv, MachineOK, MachineTypeOK
<1> QED
  BY <1>1, <1>2, <1>3, <1>4 DEF ShellNext

-----------------------------------------------------------------------------
(* What follows for the session.                                           *)

LEMMA SessionAlways == ShellSpec => []SessionOK(FALSE, FALSE)
<1>1. ShellInit => SessionOK(FALSE, FALSE)
  BY SessionInit
<1>2. SessionOK(FALSE, FALSE) /\ [ShellNext]_shellvars => SessionOK(FALSE, FALSE)'
  BY SessionStepOK
<1> QED
  BY <1>1, <1>2, PTL DEF ShellSpec

LEMMA SessionShellTyped == ASSUME SessionOK(FALSE, FALSE) PROVE ShellTypeOK
<1>1. /\ ScopesOK(scopes) /\ EmittersOK(scopes, emitters, funcs, FALSE)
      /\ DescsOK(scopes, descs, funcs) /\ StacksOK(stacks, Len(scopes))
      /\ status \in {"run", "panic"} /\ MachineTypeOK
  BY DEF SessionOK, CodeInv, MachineOK
<1>2. /\ scopes \in Seq(Scope)
      /\ Len(stacks) = Len(scopes) /\ Len(emitters) = Len(scopes)
  BY <1>1 DEF ScopesOK, EmittersOK, StacksOK
<1>3. \A i \in DOMAIN stacks : stacks[i].size \in 0..SizeRange-1 /\ stacks[i].max \in 0..SizeRange-1
  <2>1. \A i \in DOMAIN stacks : stacks[i] \in Sizing
    BY <1>1 DEF StacksOK
  <2> QED
    BY <2>1 DEF Sizing
<1>4. Len(descs) \in {Len(funcs), Len(funcs) + 1}
  <2>1. PICK n \in Nat : /\ IsList(funcs, n)
                         /\ Len(descs) = IF FrameBase(scopes) = 2 THEN n + 1 ELSE n
    BY <1>1 DEF DescsOK
  <2>2. Len(funcs) = n
    BY <2>1 DEF IsList
  <2> QED
    BY <2>1, <2>2
<1>5. \A i \in DOMAIN frames : frames[i].stack \in Seq(Word) /\ frames[i].locals \in Seq(Word)
  <2>1. \A i \in DOMAIN frames : frames[i] \in CellFrame
    BY <1>1 DEF MachineTypeOK
  <2> QED
    BY <2>1 DEF CellFrame
<1> QED
  BY <1>1, <1>2, <1>3, <1>4, <1>5 DEF ShellTypeOK

(* Compiler and machine together stay typed: every CALL that runs finds a  *)
(* function that is complete, also one in the middle of a statement, and   *)
(* the sizes the compiler books stay in the range of their type.           *)
THEOREM SessionShellTypeOK == ShellSpec => []ShellTypeOK
BY SessionAlways, SessionShellTyped, PTL

LEMMA SessionControl == ASSUME SessionOK(TRUE, FALSE) PROVE ControlInCode
<1>1. trap # "operand" /\ MachineTypeOK
  BY DEF SessionOK, MachineOK
<1>2. ASSUME NEW i \in DOMAIN frames PROVE frames[i].pc \in 0..Len(frames[i].code)
  <2>1. i \in 1..Len(frames) /\ frames[i] \in CellFrame
    BY <1>1 DEF MachineTypeOK
  <2>2. frames[i].pc + 1 \in Boundaries(frames[i].code)
    BY <2>1 DEF SessionOK, MachineOK, FrameOK
  <2>3. frames[i].code \in Seq(Cell) /\ frames[i].pc \in Int
    BY <2>1 DEF CellFrame
  <2>4. Len(frames[i].code) \in Nat /\ DOMAIN frames[i].code = 1..Len(frames[i].code)
    BY <2>3
  <2>5. frames[i].pc + 1 \in 1..Len(frames[i].code)+1
    BY <2>2, <2>4 DEF Boundaries, Starts
  <2> QED
    BY <2>3, <2>4, <2>5
<1> QED
  BY <1>1, <1>2 DEF ControlInCode

(* No frame ever fetches an operand as an opcode, and none leaves its code *)
(* but at the end: neither after a jump nor when a call comes back.        *)
THEOREM SessionControlInCode == ShellSpec /\ []OffsetsFit => []ControlInCode
<1>1. ShellInit => SessionOK(TRUE, FALSE)
  BY SessionInit
<1>2. OffsetsFit /\ SessionOK(TRUE, FALSE) /\ [ShellNext]_shellvars => SessionOK(TRUE, FALSE)'
  BY SessionStepOK
<1>3. SessionOK(TRUE, FALSE) => ControlInCode
  BY SessionControl
<1> QED
  BY <1>1, <1>2, <1>3, PTL DEF ShellSpec

(* Also while the machine takes code from the root's emitter, every jump   *)
(* in code that is complete lands.                                         *)
THEOREM SessionJumpsLand == ShellSpec /\ []OffsetsFit => []JumpsLand
<1>1. ShellInit => SessionOK(TRUE, FALSE)
  BY SessionInit
<1>2. OffsetsFit /\ SessionOK(TRUE, FALSE) /\ [ShellNext]_shellvars => SessionOK(TRUE, FALSE)'
  BY SessionStepOK
<1>3. SessionOK(TRUE, FALSE) => JumpsLand
  BY CodeInvLands DEF SessionOK
<1> QED
  BY <1>1, <1>2, <1>3, PTL DEF ShellSpec

(* No instruction names a slot its frame does not have, in the root or in  *)
(* a function, whatever blocks came before it, as long as the root scope   *)
(* stays within the machine's global variables and sizes within 16 bits.   *)
THEOREM SessionLocalsInFrame == ShellSpec /\ []FramesFit => []LocalsInFrame
<1>1. ShellInit => SessionOK(FALSE, TRUE)
  BY SessionInit
<1>2. FramesFit /\ SessionOK(FALSE, TRUE) /\ [ShellNext]_shellvars => SessionOK(FALSE, TRUE)'
  BY SessionStepOK
<1>3. SessionOK(FALSE, TRUE) => LocalsInFrame
  BY DEF SessionOK, MachineOK, LocalsInFrame
<1> QED
  BY <1>1, <1>2, <1>3, PTL DEF ShellSpec

-----------------------------------------------------------------------------
(* The depth of the stack while the machine runs.                          *)

(* The root's stack holds what is booked for it and, where loops start     *)
(* with nothing booked, once more what was on it when they did.            *)
RootStackFits == stacks[1].max + (IF WithWhile THEN stacks[1].size ELSE 0) <= RootStack

(* The frame is as deep as its code is at the program counter, and will be *)
(* e words deep at the end.                                                *)
Runs(fr, e, n) ==
  \E d \in [Int -> Nat] : /\ Flow(fr.code, d, fr.cap, n)
                          /\ Len(fr.stack) = d[fr.pc + 1]
                          /\ d[Len(fr.code) + 1] = e

RunsOn(fr, n) == \E e \in Nat : Runs(fr, e, n)

(* The frames above the root's, and the root's, which ends at depth z.     *)
MachineDeep(z, n) ==
  /\ Runs(frames[1], z, n) /\ frames[1].cap = RootStack
  /\ \A i \in 2..Len(frames) : RunsOn(frames[i], n)
  /\ trap \notin {"overflow", "underflow"}

LEMMA FramesRun ==
  ASSUME MachineTypeOK, NEW z \in Nat, NEW n, MachineDeep(z, n), NEW i \in 1..Len(frames)
  PROVE  RunsOn(frames[i], n)
<1>1. CASE i = 1
  BY <1>1 DEF MachineDeep, RunsOn
<1>2. CASE i # 1
  <2>1. i \in 2..Len(frames)
    BY <1>2, CurrentTyped
  <2> QED
    BY <2>1 DEF MachineDeep
<1> QED
  BY <1>1, <1>2

(* A frame goes on to a successor of its instruction.                      *)
LEMMA RunsNext ==
  ASSUME NEW fr \in CellFrame, NEW fs \in CellFrame, NEW e, NEW n, Runs(fr, e, n),
         fr.pc + 1 \in Starts(fr.code), fs.code = fr.code, fs.cap = fr.cap,
         fs.pc + 1 \in Successors(fr.code, fr.pc + 1),
         Len(fs.stack) = DepthAfter(fr.code, fr.pc + 1, Len(fr.stack))
  PROVE  Runs(fs, e, n)
<1>1. PICK d \in [Int -> Nat] : /\ Flow(fr.code, d, fr.cap, n) /\ Len(fr.stack) = d[fr.pc + 1]
                                /\ d[Len(fr.code) + 1] = e
  BY DEF Runs
<1>2. d[fs.pc + 1] = DepthAfter(fr.code, fr.pc + 1, d[fr.pc + 1])
  BY <1>1 DEF Flow, Meets
<1>3. Len(fs.stack) = d[fs.pc + 1]
  BY <1>1, <1>2
<1> QED
  BY <1>1, <1>3 DEF Runs

(* The frames up to the one that is changed stay.                          *)
LEMMA TopRuns ==
  ASSUME MachineTypeOK, NEW z \in Nat, NEW n, MachineDeep(z, n), trap' = trap,
         NEW m \in Nat \ {0}, m <= Len(frames), Len(frames') = m,
         \A i \in 1..m : i # m => frames'[i] = frames[i],
         NEW fr, frames'[m] = fr, fr.cap = frames[m].cap,
         \A e : Runs(frames[m], e, n) => Runs(fr, e, n)
  PROVE  MachineDeep(z, n)'
<1>1. Runs(frames'[1], z, n) /\ frames'[1].cap = RootStack
  <2>1. Runs(frames[1], z, n) /\ frames[1].cap = RootStack
    BY DEF MachineDeep
  <2>2. CASE m = 1
    BY <2>1, <2>2
  <2>3. CASE m # 1
    <3>1. 1 \in 1..m
      OBVIOUS
    <3> QED
      BY <2>1, <2>3, <3>1
  <2> QED
    BY <2>2, <2>3
<1>2. ASSUME NEW i \in 2..m PROVE RunsOn(frames'[i], n)
  <2>1. i \in 1..m /\ i \in 1..Len(frames)
    BY CurrentTyped
  <2>2. RunsOn(frames[i], n)
    BY <2>1, FramesRun
  <2>3. CASE i = m
    BY <2>2, <2>3 DEF RunsOn
  <2>4. CASE i # m
    BY <2>1, <2>2, <2>4
  <2> QED
    BY <2>3, <2>4
<1>3. (\A i \in 2..Len(frames) : RunsOn(frames[i], n))'
  BY <1>2
<1>4. (trap \notin {"overflow", "underflow"})'
  BY DEF MachineDeep
<1>5. (Runs(frames[1], z, n) /\ frames[1].cap = RootStack)'
  BY <1>1
<1> QED
  BY <1>3, <1>4, <1>5 DEF MachineDeep

LEMMA SteppedRuns ==
  ASSUME NEW J, NEW K, MachineOK(J, K), NEW z \in Nat, NEW n, MachineDeep(z, n), Stepped,
         instr.op \notin {"OPERAND", "CALL"}
  PROVE  MachineDeep(z, n)'
<1>1. /\ Len(frames) \in Nat \ {0} /\ frames \in Seq(CellFrame) /\ current = frames[Len(frames)]
      /\ current \in CellFrame /\ Ready /\ MachineTypeOK
  BY CurrentTyped DEF Stepped, MachineOK
<1>2. PICK m \in Nat \ {0} : m = Len(frames)
  BY <1>1
<1>3. PICK fr \in CellFrame :
        /\ frames' = [frames EXCEPT ![m] = fr]
        /\ fr.code = current.code /\ fr.cap = current.cap
        /\ fr.pc + 1 \in Successors(current.code, current.pc + 1)
        /\ Len(fr.stack) = DepthAfter(current.code, current.pc + 1, Len(current.stack))
  BY <1>2 DEF Stepped, depth
<1>4. Len(frames') = m /\ frames'[m] = fr /\ \A k \in 1..m : k # m => frames'[k] = frames[k]
  BY <1>1, <1>2, <1>3
<1>5. current.pc + 1 \in Starts(current.code)
  BY <1>1, InstrIn
<1>6. ASSUME NEW e, Runs(frames[m], e, n) PROVE Runs(fr, e, n)
  <2>1. Runs(current, e, n)
    BY <1>1, <1>2, <1>6
  <2> QED
    BY <1>1, <1>3, <1>5, <2>1, RunsNext
<1>7. trap' = trap /\ fr.cap = frames[m].cap /\ m <= Len(frames)
  BY <1>1, <1>2, <1>3 DEF Stepped
<1> QED
  BY <1>1, <1>4, <1>6, <1>7, TopRuns

LEMMA ReturnRuns ==
  ASSUME NEW K, MachineOK(TRUE, K), NEW z \in Nat, NEW n, MachineDeep(z, n), Return
  PROVE  MachineDeep(z, n)'
<1>1. PICK r \in Nat \ {0} : Len(frames) = r + 1 /\ Len(frames) - 1 = r /\ frames \in Seq(CellFrame)
  <2>1. Len(frames) \in Nat /\ Len(frames) > 1 /\ frames \in Seq(CellFrame)
    BY CurrentTyped DEF Return, MachineOK
  <2> QED
    BY <2>1
<1>2. PICK fr \in CellFrame :
        /\ frames' = [Front(frames) EXCEPT ![r] = fr]
        /\ fr.code = frames[r].code /\ fr.cap = frames[r].cap
        /\ fr.stack = frames[r].stack /\ fr.pc = frames[r].pc + 3
  BY <1>1, ReturnPops DEF MachineOK
<1>3. /\ Front(frames) \in Seq(CellFrame) /\ Len(Front(frames)) = r
      /\ \A i \in 1..r : Front(frames)[i] = frames[i]
  BY <1>1, FrontTyped
<1>4. /\ Len(frames') = r /\ frames'[r] = fr
      /\ \A i \in 1..r : i # r => frames'[i] = frames[i]
  BY <1>1, <1>2, <1>3
<1>5. r \in 1..Len(frames)-1 /\ frames[r] \in CellFrame /\ r <= Len(frames)
  BY <1>1
<1>6. PICK g \in CellFrame : g = frames[r] /\ Waiting(g)
  BY <1>5 DEF MachineOK
<1>7. g.pc + 1 \in Starts(g.code) /\ g.code[g.pc + 1].op = "CALL" /\ g.pc \in Int /\ Len(g.stack) \in Nat
  BY <1>6 DEF Waiting, CellFrame
<1>8. fr.pc + 1 \in Successors(g.code, g.pc + 1)
  BY <1>2, <1>6, <1>7 DEF Successors, Size, OperandBytes
<1>9. Len(fr.stack) = DepthAfter(g.code, g.pc + 1, Len(g.stack))
  BY <1>2, <1>6, <1>7 DEF DepthAfter, Pops, Pushes
<1>10. ASSUME NEW e, Runs(frames[r], e, n) PROVE Runs(fr, e, n)
  BY <1>2, <1>6, <1>7, <1>8, <1>9, <1>10, RunsNext
<1>11. trap' = trap /\ MachineTypeOK
  BY DEF Return, MachineOK
<1> QED
  BY <1>2, <1>4, <1>5, <1>10, <1>11, TopRuns

(* A CALL finds code that has the stack it needs.                          *)
LEMMA CalledFits ==
  ASSUME NEW J, NEW K, FuncsOK(funcs, J, K), funcs # <<>>, NEW n, FuncsFit(funcs, n), NEW k
  PROVE  HandleFits(Resolve(funcs, k), n)
<1>1. PICK l \in Nat : IsList(funcs, l)
  BY DEF FuncsOK
<1>2. l # 0 /\ Len(funcs) = l /\ DOMAIN funcs = 1..l
  BY <1>1 DEF IsList
<1>3. l \in DOMAIN funcs
  BY <1>2
<1> QED
  BY <1>2, <1>3 DEF Resolve, FuncsFit

LEMMA CallRuns ==
  ASSUME NEW J, NEW K, MachineOK(J, K), FuncsOK(funcs, J, K), NEW z \in Nat, NEW n,
         FuncsFit(funcs, n), MachineDeep(z, n), CallFunc(funcs)
  PROVE  MachineDeep(z, n)'
<1>1. Ready /\ instr.op = "CALL" /\ trap' = trap
  BY DEF CallFunc, At
<1>2. funcs # <<>>
  BY <1>1, InstrIn
<1>3. PICK h : h = Resolve(funcs, instr.arg) /\ HandleTyped(h) /\ HandleFits(h, n)
  BY <1>2, Resolved, HandleIsTyped, CalledFits
<1>4. PICK fr \in CellFrame :
        /\ frames' = Append(frames, fr) /\ fr.code = h.code /\ fr.cap = h.stack
        /\ fr.pc = 0 /\ fr.stack = <<>>
  BY <1>3, CallPushes DEF MachineOK
<1>5. RunsOn(fr, n)
  <2>1. PICK e \in Nat : Follows(h.code, 0, e, h.stack, n)
    BY <1>3 DEF HandleFits
  <2>2. PICK d \in [Int -> Nat] : d[1] = 0 /\ d[Len(h.code)+1] = e /\ Flow(h.code, d, h.stack, n)
    BY <2>1 DEF Follows
  <2>3. Len(fr.stack) = d[fr.pc + 1]
    BY <1>4, <2>2
  <2> QED
    BY <1>4, <2>2, <2>3 DEF Runs, RunsOn
<1>6. PICK m \in Nat \ {0} : m = Len(frames) /\ frames \in Seq(CellFrame) /\ MachineTypeOK
  BY CurrentTyped DEF MachineOK
<1>7. /\ Len(frames') = m + 1 /\ frames'[m+1] = fr
      /\ \A i \in 1..m : frames'[i] = frames[i]
  BY <1>4, <1>6
<1>8. ASSUME NEW i \in 2..m+1 PROVE RunsOn(frames'[i], n)
  <2>1. CASE i = m + 1
    BY <1>5, <1>7, <2>1
  <2>2. CASE i # m + 1
    <3>1. i \in 1..m
      BY <2>2
    <3> QED
      BY <1>6, <1>7, <3>1, FramesRun
  <2> QED
    BY <2>1, <2>2
<1>9. frames'[1] = frames[1]
  <2>1. 1 \in 1..m
    BY <1>6
  <2> QED
    BY <1>7, <2>1
<1>10. (\A i \in 2..Len(frames) : RunsOn(frames[i], n))'
  BY <1>7, <1>8
<1>11. (Runs(frames[1], z, n) /\ frames[1].cap = RootStack)'
  BY <1>9 DEF MachineDeep
<1>12. (trap \notin {"overflow", "underflow"})'
  BY <1>1 DEF MachineDeep
<1> QED
  BY <1>10, <1>11, <1>12 DEF MachineDeep

(* No handler finds its operands missing or leaves its stack.              *)
LEMMA TrapRuns ==
  ASSUME NEW K, MachineOK(TRUE, K), FuncsOK(funcs, TRUE, K), NEW z \in Nat, NEW n \in Nat,
         FuncsFit(funcs, n), MachineDeep(z, n), frames' = frames,
         StackTrap \/ LocalsTrap \/ CallTrap(funcs) \/ DivisionTrap \/ OperandTrap \/ PanicTrap
  PROVE  MachineDeep(z, n)'
<1>1. Ready
  BY DEF StackTrap, LocalsTrap, CallTrap, DivisionTrap, OperandTrap, PanicTrap, At
<1>2. /\ Len(frames) \in 1..Len(frames) /\ current = frames[Len(frames)] /\ current \in CellFrame
      /\ current.pc + 1 \in 1..Len(current.code) /\ depth \in Nat /\ MachineTypeOK
  BY <1>1, CurrentTyped DEF MachineOK
<1>3. current.pc + 1 \in Starts(current.code)
  <2>1. current.pc + 1 \in Boundaries(current.code)
    BY <1>2 DEF MachineOK, FrameOK
  <2>2. Len(current.code) \in Nat
    BY <1>2 DEF CellFrame
  <2> QED
    BY <1>2, <2>1, <2>2 DEF Boundaries
<1>4. PICK i : i = current.pc + 1 /\ instr = current.code[i]
  BY DEF instr
<1>5. instr.op # "OPERAND"
  BY <1>3, <1>4 DEF Starts
<1>6. PICK d \in [Int -> Nat] : Flow(current.code, d, current.cap, n) /\ depth = d[i]
  <2>1. RunsOn(current, n)
    BY <1>2, FramesRun
  <2> QED
    BY <1>4, <2>1 DEF RunsOn, Runs, depth
<1>7. /\ depth >= Pops(instr.op) /\ 4 * (depth - Pops(instr.op) + Pushes(instr.op)) <= current.cap
      /\ instr.op = "CALL" => depth >= n
  <2>1. Meets(current.code, d, i, current.cap, n)
    BY <1>3, <1>4, <1>6 DEF Flow
  <2> QED
    BY <1>4, <1>6, <2>1 DEF Meets, DepthAfter
<1>8. ~StackTrap
  <2>1. Fits(instr.op)
    BY <1>7 DEF Fits
  <2>2. ~(depth < Pops(instr.op))
    <3>1. Pops(instr.op) \in Nat
      BY PopsBound
    <3> QED
      BY <1>2, <1>7, <3>1
  <2> QED
    BY <2>1, <2>2 DEF StackTrap
<1>9. ASSUME CallTrap(funcs) PROVE trap' = "callstack"
  <2>1. instr.op = "CALL"
    BY <1>9 DEF CallTrap, At
  <2>2. funcs # <<>>
    BY <1>1, <1>5, <2>1, InstrIn
  <2>3. Resolve(funcs, instr.arg).args = n
    BY <2>2, CalledFits DEF HandleFits
  <2>4. ~(depth < Resolve(funcs, instr.arg).args)
    BY <1>2, <1>7, <2>1, <2>3
  <2> QED
    BY <1>9, <2>4 DEF CallTrap, Stop
<1>10. trap' \notin {"overflow", "underflow"}
  BY <1>8, <1>9 DEF LocalsTrap, DivisionTrap, OperandTrap, PanicTrap, Stop
<1> QED
  BY <1>10 DEF MachineDeep

LEMMA ExecuteRuns ==
  ASSUME NEW K, MachineOK(TRUE, K), FuncsOK(funcs, TRUE, K), NEW z \in Nat, NEW n \in Nat,
         FuncsFit(funcs, n), MachineDeep(z, n), Execute(funcs)
  PROVE  MachineDeep(z, n)'
<1>1. MachineTypeOK
  BY DEF MachineOK
<1>2. CASE Const \/ Load \/ Save \/ Arith \/ Compare \/ FloatArith \/ IntToFloat \/ Branch \/ Jump
  <2>1. Stepped
    BY <1>1, <1>2, ConstSteps, LoadSteps, SaveSteps, ArithSteps, CompareSteps, FloatArithSteps,
       IntToFloatSteps, JumpSteps
  <2>2. instr.op \notin {"OPERAND", "CALL"}
    BY <1>2 DEF Const, Load, Save, Arith, Compare, FloatArith, IntToFloat, Branch, Jump, At
  <2> QED
    BY <2>1, <2>2, SteppedRuns
<1>3. CASE CallFunc(funcs)
  BY <1>3, CallRuns
<1>4. CASE Return
  BY <1>4, ReturnRuns
<1>5. CASE StackTrap \/ LocalsTrap \/ CallTrap(funcs) \/ DivisionTrap \/ OperandTrap \/ PanicTrap
  <2>1. frames' = frames
    BY <1>5 DEF StackTrap, LocalsTrap, CallTrap, DivisionTrap, OperandTrap, PanicTrap, Stop
  <2> QED
    BY <1>5, <2>1, TrapRuns
<1> QED
  BY <1>2, <1>3, <1>4, <1>5 DEF Execute

(* The root's frame is where its code ends when the machine is idle.       *)
LEMMA IdleDepth ==
  ASSUME NEW K, MachineOK(TRUE, K), NEW z \in Nat, NEW n, MachineDeep(z, n), Idle
  PROVE  Len(frames[1].stack) = z
<1>1. frames[1] \in CellFrame /\ 1 \in 1..Len(frames) /\ ~Running(frames[1])
  BY DEF Idle, MachineOK, MachineTypeOK
<1>2. PICK fr \in CellFrame : fr = frames[1] /\ fr.pc + 1 \in Boundaries(fr.code) /\ ~Running(fr)
  BY <1>1 DEF MachineOK, FrameOK
<1>3. /\ fr.code \in Seq(Cell) /\ fr.pc \in Int /\ Len(fr.code) \in Nat
      /\ DOMAIN fr.code = 1..Len(fr.code)
  BY DEF CellFrame
<1>4. fr.pc + 1 = Len(fr.code) + 1
  BY <1>2, <1>3 DEF Boundaries, Starts, Running
<1> QED
  BY <1>2, <1>4 DEF MachineDeep, Runs

(* The root's emitter, from the depth of the frame to k words and, if a    *)
(* condition waits for its blocks, one more.                               *)
RootLevel(z, k, n) ==
  /\ 4 * (k + Pending(scopes, 1)) <= stacks[1].size
  /\ Level(scopes[1].kind, stacks[1].size, emitters[1], z, k + Pending(scopes, 1), stacks[1].max, k, n)

LEMMA RootIs ==
  ASSUME ScopesOK(scopes), NEW z \in Nat, NEW n, DepthInv(z, n)
  PROVE  \E k \in Nat : RootLevel(z, k, n)
<1>1. FrameBase(scopes) \in {1, 2} /\ Len(scopes) \in Nat \ {0} /\ 1 \in 1..Len(scopes)
  BY DEF FrameBase, ScopesOK
<1>2. CASE FrameBase(scopes) = 1
  <2>1. PICK k \in Nat : Nested(scopes, stacks, emitters, 1, Len(scopes), z, k, n)
    BY <1>2 DEF DepthInv, FrameFits, Origin
  <2>2. RootLevel(z, k, n)
    BY <1>1, <2>1 DEF Nested, LevelAt, RootLevel
  <2> QED
    BY <2>2
<1>3. CASE FrameBase(scopes) = 2
  <2>1. PICK k \in Nat : Nested(scopes, stacks, emitters, 1, 1, z, k, n)
    BY <1>3 DEF DepthInv, RootFits
  <2>2. 1 \in 1..1
    OBVIOUS
  <2>3. RootLevel(z, k, n)
    BY <2>1, <2>2 DEF Nested, LevelAt, RootLevel
  <2> QED
    BY <2>3
<1> QED
  BY <1>1, <1>2, <1>3

(* What is emitted at the root is taken; it leaves the root at depth y.    *)
LEMMA LevelTaken ==
  ASSUME NEW kind, NEW size, NEW max, NEW chunk, NEW c, c.code = <<>>, c.head = chunk.head,
         NEW z, NEW y \in Nat, NEW k, NEW n, Level(kind, size, chunk, z, y, max, k, n)
  PROVE  Level(kind, size, c, y, y, max, k, n)
<1>1. Follows(<<>>, y, y, max + 4 * Slack(k), n)
  BY FollowsEmpty
<1> QED
  BY <1>1 DEF Level

LEMMA NestedTaken ==
  ASSUME NEW t \in Nat \ {0}, NEW em, NEW es, es[1].code = <<>>, es[1].head = em[1].head,
         \A i \in 1..t : i # 1 => es[i] = em[i],
         NEW z, NEW k \in Nat, NEW n, Nested(scopes, stacks, em, 1, t, z, k, n),
         NEW y \in Nat, y = k + Pending(scopes, 1)
  PROVE  Nested(scopes, stacks, es, 1, t, y, k, n)
<1>1. ASSUME NEW i \in 1..t
      PROVE  LevelAt(scopes, stacks, es, i, IF i = 1 THEN y ELSE k, stacks[1].max, k, n)
  <2>1. LevelAt(scopes, stacks, em, i, IF i = 1 THEN z ELSE k, stacks[1].max, k, n)
    BY DEF Nested
  <2>2. CASE i = 1
    <3>1. Level(scopes[1].kind, stacks[1].size, em[1], z, y, stacks[1].max, k, n)
      BY <2>1, <2>2 DEF LevelAt
    <3>2. Level(scopes[1].kind, stacks[1].size, es[1], y, y, stacks[1].max, k, n)
      BY <3>1, LevelTaken
    <3> QED
      BY <2>2, <3>2 DEF LevelAt
  <2>3. CASE i # 1
    <3>1. es[i] = em[i]
      BY <2>3
    <3> QED
      BY <2>1, <2>3, <3>1 DEF LevelAt
  <2> QED
    BY <2>2, <2>3
<1> QED
  BY <1>1 DEF Nested

(* The rest of the frame, when the root's code is taken.                   *)
LEMMA FunctionKept ==
  ASSUME NEW em, NEW es, \A i \in 1..Len(scopes) : i # 1 => es[i] = em[i],
         ScopesOK(scopes), FrameBase(scopes) = 2, NEW z, NEW y, NEW n,
         FrameFits(scopes, stacks, em, z, n)
  PROVE  FrameFits(scopes, stacks, es, y, n)
<1>1. PICK t \in Nat : t = Len(scopes)
  BY DEF ScopesOK
<1>2. PICK k \in Nat : Nested(scopes, stacks, em, 2, t, 0, k, n) /\ (WithWhile => k = 0)
  BY <1>1 DEF FrameFits, Origin
<1>3. ASSUME NEW i \in 2..t
      PROVE  LevelAt(scopes, stacks, es, i, IF i = 2 THEN 0 ELSE k, stacks[2].max, k, n)
  <2>1. i \in 1..t /\ i # 1
    OBVIOUS
  <2>2. es[i] = em[i]
    BY <1>1, <2>1
  <2> QED
    BY <1>2, <2>2 DEF Nested, LevelAt
<1>4. Nested(scopes, stacks, es, 2, t, 0, k, n)
  BY <1>2, <1>3 DEF Nested
<1>5. 0 = IF 2 = 2 THEN 0 ELSE y
  OBVIOUS
<1>6. 2 = FrameBase(scopes) /\ (WithWhile /\ 2 = 2 => k = 0)
  BY <1>2
<1> QED
  BY <1>1, <1>4, <1>5, <1>6, FrameIs

LEMMA PushDepth ==
  ASSUME NEW K, CodeInv(TRUE, K), NEW z \in Nat, NEW n, DepthInv(z, n), PushChunk
  PROVE  \E y \in Nat : /\ DepthInv(y, n)'
                        /\ Follows(Emitted, z, y, RootStack, n) \/ ~RootStackFits
<1>1. /\ ScopesOK(scopes) /\ EmittersOK(scopes, emitters, funcs, TRUE) /\ StacksOK(stacks, Len(scopes))
  BY DEF CodeInv
<1>2. UNCHANGED <<scopes, stacks, funcs>> /\ emitters' = [emitters EXCEPT ![1].code = <<>>]
  BY DEF PushChunk
<1>3. PICK t \in Nat \ {0} : t = Len(scopes) /\ emitters \in Seq(Chunk) /\ Len(emitters) = t /\ 1 \in 1..t
  BY <1>1 DEF ScopesOK, EmittersOK
<1>4. PICK c : c = [emitters[1] EXCEPT !.code = <<>>]
  OBVIOUS
<1>5. c.head = emitters[1].head /\ c.code = <<>>
  <2>1. emitters[1] \in Chunk
    BY <1>3
  <2> QED
    BY <1>4, <2>1 DEF Chunk
<1>6. PICK es : es = emitters'
  OBVIOUS
<1>7. es[1] = c /\ \A i \in 1..t : i # 1 => es[i] = emitters[i]
  BY <1>2, <1>3, <1>4, <1>6
<1>8. FrameBase(scopes) \in {1, 2}
  BY DEF FrameBase
<1>9. PICK k \in Nat, y \in Nat : /\ RootLevel(z, k, n) /\ y = k + Pending(scopes, 1)
                                  /\ FrameFits(scopes, stacks, es, y, n)
                                  /\ RootFits(scopes, stacks, es, y, n)
  <2>1. CASE FrameBase(scopes) = 1
    <3>1. PICK k \in Nat : Nested(scopes, stacks, emitters, 1, t, z, k, n)
      BY <1>3, <2>1 DEF DepthInv, FrameFits, Origin
    <3>2. PICK y \in Nat : y = k + Pending(scopes, 1)
      BY PendingIs
    <3>3. Nested(scopes, stacks, es, 1, t, y, k, n)
      BY <1>5, <1>7, <3>1, <3>2, NestedTaken
    <3>4. FrameFits(scopes, stacks, es, y, n)
      <4>1. y = IF 1 = 2 THEN 0 ELSE y
        OBVIOUS
      <4>2. 1 = FrameBase(scopes) /\ (WithWhile /\ 1 = 2 => k = 0)
        BY <2>1
      <4> QED
        BY <1>3, <3>3, <4>1, <4>2, FrameIs
    <3>5. RootFits(scopes, stacks, es, y, n)
      BY <2>1 DEF RootFits
    <3>6. RootLevel(z, k, n)
      BY <1>3, <3>1 DEF Nested, LevelAt, RootLevel
    <3> QED
      BY <3>2, <3>4, <3>5, <3>6
  <2>2. CASE FrameBase(scopes) = 2
    <3>1. PICK k \in Nat : Nested(scopes, stacks, emitters, 1, 1, z, k, n)
      BY <2>2 DEF DepthInv, RootFits
    <3>2. PICK y \in Nat : y = k + Pending(scopes, 1)
      BY PendingIs
    <3>3. Nested(scopes, stacks, es, 1, 1, y, k, n)
      <4>1. \A i \in 1..1 : i # 1 => es[i] = emitters[i]
        OBVIOUS
      <4> QED
        BY <1>5, <1>7, <3>1, <3>2, <4>1, NestedTaken
    <3>4. FrameFits(scopes, stacks, es, y, n)
      BY <1>1, <1>3, <1>7, <2>2, FunctionKept DEF DepthInv
    <3>5. RootFits(scopes, stacks, es, y, n)
      BY <3>3 DEF RootFits
    <3>6. RootLevel(z, k, n)
      <4>1. 1 \in 1..1
        OBVIOUS
      <4> QED
        BY <3>1, <4>1 DEF Nested, LevelAt, RootLevel
    <3> QED
      BY <3>2, <3>4, <3>5, <3>6
  <2> QED
    BY <1>8, <2>1, <2>2
<1>10. DepthInv(y, n)'
  BY <1>2, <1>6, <1>9 DEF DepthInv
<1>11. ASSUME RootStackFits PROVE Follows(Emitted, z, y, RootStack, n)
  <2>1. PICK s \in Nat, m \in Nat : s = stacks[1].size /\ m = stacks[1].max
    <3>1. stacks[1] \in Sizing
      BY <1>1, <1>3 DEF StacksOK
    <3> QED
      BY <3>1, SizeRangePositive DEF Sizing
  <2>2. PICK w \in Int : w = m + 4 * Slack(k) /\ w <= RootStack
    <3>1. 4 * k <= s
      BY <1>9, <2>1, PendingIs DEF RootLevel
    <3>2. CASE WithWhile
      BY <1>11, <2>1, <3>1, <3>2, RootAssumption DEF RootStackFits, Slack
    <3>3. CASE ~WithWhile
      BY <1>11, <2>1, <3>3, RootAssumption DEF RootStackFits, Slack
    <3> QED
      BY <3>2, <3>3
  <2>3. Follows(Emitted, z, y, w, n)
    BY <1>9, <2>1, <2>2 DEF RootLevel, Level, Emitted
  <2>4. Whole(Emitted)
    <3>1. Good(Emitted, MaxFor(scopes, 1), CallsFor(scopes, funcs, 1), TRUE)
      BY <1>1, <1>3 DEF EmittersOK, Emitted
    <3> QED
      BY <3>1, GoodWhole
  <2> QED
    BY <2>2, <2>3, <2>4, FollowsMore, RootAssumption
<1> QED
  BY <1>10, <1>11

LEMMA PushRuns ==
  ASSUME NEW K, SessionOK(TRUE, K), NEW z \in Nat, NEW n, DepthInv(z, n), MachineDeep(z, n),
         PushChunk, RootStackFits
  PROVE  \E y \in Nat : DepthInv(y, n)' /\ MachineDeep(y, n)'
<1>1. CodeInv(TRUE, K) /\ MachineOK(TRUE, K)
  BY DEF SessionOK
<1>2. PICK y \in Nat : DepthInv(y, n)' /\ Follows(Emitted, z, y, RootStack, n)
  BY <1>1, PushDepth
<1>3. Idle /\ frames' = [frames EXCEPT ![1].code = Emitted, ![1].pc = 0] /\ trap' = trap
  BY DEF PushChunk, Push
<1>4. Len(frames) = 1 /\ frames \in Seq(CellFrame) /\ frames[1] \in CellFrame
  BY <1>1, <1>3 DEF Idle, MachineOK, MachineTypeOK
<1>5. Len(frames[1].stack) = z
  BY <1>1, <1>3, IdleDepth
<1>6. PICK g, q : g = frames[1] /\ q = Emitted
  OBVIOUS
<1>7. PICK fr : fr = [g EXCEPT !.code = q, !.pc = 0]
  OBVIOUS
<1>8. DOMAIN g = {"code", "pc", "stack", "locals", "cap"}
  BY <1>4, <1>6 DEF CellFrame
<1>9. fr.code = q /\ fr.pc = 0 /\ fr.stack = g.stack /\ fr.cap = g.cap
  BY <1>7, <1>8
<1>10. frames' = [frames EXCEPT ![1] = fr]
  BY <1>3, <1>6, <1>7
<1>11. Len(frames') = 1 /\ frames'[1] = fr
  BY <1>4, <1>10
<1>12. fr.cap = RootStack
  BY <1>6, <1>9 DEF MachineDeep
<1>13. Runs(fr, y, n)
  <2>1. PICK d \in [Int -> Nat] : d[1] = z /\ d[Len(q)+1] = y /\ Flow(q, d, RootStack, n)
    BY <1>2, <1>6 DEF Follows
  <2>2. Len(fr.stack) = d[fr.pc + 1]
    BY <1>5, <1>6, <1>9, <2>1
  <2> QED
    BY <1>9, <1>12, <2>1, <2>2 DEF Runs
<1>14. (Runs(frames[1], y, n) /\ frames[1].cap = RootStack)'
  BY <1>11, <1>12, <1>13
<1>15. (\A i \in 2..Len(frames) : RunsOn(frames[i], n))'
  BY <1>11
<1>16. (trap \notin {"overflow", "underflow"})'
  BY <1>3 DEF MachineDeep
<1>17. MachineDeep(y, n)'
  BY <1>14, <1>15, <1>16 DEF MachineDeep
<1> QED
  BY <1>2, <1>17

-----------------------------------------------------------------------------
(* The inductive invariant of the session: some depth z at which the chunk *)
(* the machine runs will end and at which what is emitted goes on.         *)
SessionDepth(n) == \E z \in Nat : DepthInv(z, n) /\ MachineDeep(z, n)

LEMMA SessionDepthInit == ASSUME ShellInit, NEW n PROVE SessionDepth(n)
<1>1. DepthInv(0, n)
  BY DepthInit DEF ShellInit
<1>2. PICK fr : fr = Frame(<<>>, Uninitialised(RootLocals), RootStack)
  OBVIOUS
<1>3. frames = <<fr>> /\ trap = "none" /\ Len(frames) = 1 /\ frames[1] = fr
  BY <1>2 DEF ShellInit, VmInit
<1>4. fr.code = <<>> /\ fr.pc = 0 /\ fr.stack = <<>> /\ fr.cap = RootStack
  BY <1>2 DEF Frame
<1>5. Runs(fr, 0, n)
  <2>1. Follows(<<>>, 0, 0, RootStack, n)
    BY FollowsEmpty
  <2>2. PICK d \in [Int -> Nat] : d[1] = 0 /\ d[Len(<<>>)+1] = 0 /\ Flow(<<>>, d, RootStack, n)
    BY <2>1 DEF Follows
  <2>3. Len(fr.stack) = d[fr.pc + 1]
    BY <1>4, <2>2
  <2> QED
    BY <1>4, <2>2, <2>3 DEF Runs
<1>6. \A i \in 2..Len(frames) : RunsOn(frames[i], n)
  BY <1>3
<1>7. MachineDeep(0, n)
  BY <1>3, <1>4, <1>5, <1>6 DEF MachineDeep
<1> QED
  BY <1>1, <1>7 DEF SessionDepth

LEMMA SessionDepthStep ==
  ASSUME NEW K, SessionOK(TRUE, K), NEW n \in Nat, Disciplined(n), SessionDepth(n),
         [ShellNext]_shellvars, [UsesDeclared]_vars,
         OffsetsFit, StacksFit, StacksFit', RootStackFits
  PROVE  SessionDepth(n)'
<1>1. PICK z \in Nat : DepthInv(z, n) /\ MachineDeep(z, n)
  BY DEF SessionDepth
<1>2. CodeInv(TRUE, K) /\ MachineOK(TRUE, K) /\ FuncsOK(funcs, TRUE, K) /\ FuncsFit(funcs, n)
  BY <1>1 DEF SessionOK, CodeInv, DepthInv
<1>3. CASE CompileStep
  <2>1. Next /\ frames' = frames /\ trap' = trap
    BY <1>3 DEF CompileStep, vmvars
  <2>2. DepthInv(z, n)'
    BY <1>1, <1>2, <2>1, DepthStep
  <2>3. MachineDeep(z, n)'
    BY <1>1, <2>1 DEF MachineDeep
  <2> QED
    BY <2>2, <2>3 DEF SessionDepth
<1>4. CASE PushChunk
  BY <1>1, <1>4, PushRuns DEF SessionDepth
<1>5. CASE ExecuteStep
  <2>1. UNCHANGED <<scopes, stacks, emitters, funcs>> /\ Execute(funcs)
    BY <1>5 DEF ExecuteStep, vars
  <2>2. DepthInv(z, n)'
    BY <1>1, <2>1 DEF DepthInv
  <2>3. MachineDeep(z, n)'
    BY <1>1, <1>2, <2>1, ExecuteRuns
  <2> QED
    BY <2>2, <2>3 DEF SessionDepth
<1>6. CASE UNCHANGED shellvars
  BY <1>1, <1>6 DEF shellvars, vars, vmvars, SessionDepth, DepthInv, MachineDeep
<1> QED
  BY <1>3, <1>4, <1>5, <1>6 DEF ShellNext

StackInv(n)    == SessionOK(TRUE, FALSE) /\ SessionDepth(n)
VerifiedInv(n) == SessionOK(TRUE, TRUE) /\ SessionDepth(n)

LEMMA StackInit == ASSUME ShellInit, NEW n PROVE StackInv(n) /\ VerifiedInv(n)
<1>1. SessionOK(TRUE, FALSE) /\ SessionOK(TRUE, TRUE)
  BY SessionInit
<1> QED
  BY <1>1, SessionDepthInit DEF StackInv, VerifiedInv

(* What a session keeps to: loops and blocks whose offsets fit a byte,     *)
(* booked stacks that fit a handle and the stack of the machine.           *)
SessionFits == OffsetsFit /\ StacksFit /\ RootStackFits

LEMMA StackStep ==
  ASSUME NEW n \in Nat, Disciplined(n), StackInv(n), [ShellNext]_shellvars, [UsesDeclared]_vars,
         SessionFits, StacksFit'
  PROVE  StackInv(n)'
<1>1. SessionOK(TRUE, FALSE) /\ SessionDepth(n) /\ OffsetsFit /\ StacksFit /\ RootStackFits
  BY DEF StackInv, SessionFits
<1>2. SessionOK(TRUE, FALSE)'
  BY <1>1, SessionStepOK
<1>3. SessionDepth(n)'
  BY <1>1, SessionDepthStep
<1> QED
  BY <1>2, <1>3 DEF StackInv

LEMMA VerifiedStep ==
  ASSUME NEW n \in Nat, Disciplined(n), VerifiedInv(n), [ShellNext]_shellvars, [UsesDeclared]_vars,
         SessionFits, FramesFit, StacksFit'
  PROVE  VerifiedInv(n)'
<1>1. SessionOK(TRUE, TRUE) /\ SessionDepth(n) /\ OffsetsFit /\ StacksFit /\ RootStackFits
  BY DEF VerifiedInv, SessionFits
<1>2. SessionOK(TRUE, TRUE)'
  BY <1>1, SessionStepOK
<1>3. SessionDepth(n)'
  BY <1>1, SessionDepthStep
<1> QED
  BY <1>2, <1>3 DEF VerifiedInv

LEMMA StackAlways ==
  ASSUME NEW n \in Nat, Disciplined(n)
  PROVE  ShellSpec /\ [][UsesDeclared]_vars /\ []SessionFits => []StackInv(n)
<1>1. ShellInit => StackInv(n)
  BY StackInit
<1>2. StackInv(n) /\ [ShellNext]_shellvars /\ [UsesDeclared]_vars /\ SessionFits /\ StacksFit' => StackInv(n)'
  BY StackStep
<1>3. SessionFits => StacksFit
  BY DEF SessionFits
<1> QED
  BY <1>1, <1>2, <1>3, PTL DEF ShellSpec

(* No handler ever pops what is not there or leaves the stack of its       *)
(* frame, in the root or in a function, wherever the machine is and        *)
(* whatever statements it ran before: what the compiler books covers what  *)
(* vm_execute_opcode_call allocates and the handlers use.                  *)
THEOREM SessionStackInFrame ==
  ASSUME NEW n \in Nat, Disciplined(n)
  PROVE  ShellSpec /\ [][UsesDeclared]_vars /\ []SessionFits => []StackInFrame
<1>1. StackInv(n) => StackInFrame
  BY DEF StackInv, SessionDepth, MachineDeep, StackInFrame
<1> QED
  BY <1>1, StackAlways, PTL

LEMMA BookedDepth == ASSUME NEW n \in Nat, StackInv(n) PROVE BookedCoversDepth
<1> SUFFICES ASSUME Idle, Emitted = <<>> PROVE 4 * Len(frames[1].stack) <= stacks[1].size
  BY DEF BookedCoversDepth
<1>1. PICK z \in Nat : DepthInv(z, n) /\ MachineDeep(z, n)
  BY DEF StackInv, SessionDepth
<1>2. PICK K : SessionOK(TRUE, K)
  BY DEF StackInv
<1>3. ScopesOK(scopes) /\ MachineOK(TRUE, K)
  BY <1>2 DEF SessionOK, CodeInv
<1>4. Len(frames[1].stack) = z
  BY <1>1, <1>3, IdleDepth
<1>5. PICK k \in Nat : RootLevel(z, k, n)
  BY <1>1, <1>3, RootIs
<1>6. Follows(<<>>, z, k + Pending(scopes, 1), stacks[1].max + 4 * Slack(k), n)
  BY <1>5 DEF RootLevel, Level, Emitted
<1>7. z = k + Pending(scopes, 1)
  <2>1. Len(<<>>) + 1 = 1
    OBVIOUS
  <2> QED
    BY <1>6, <2>1 DEF Follows
<1> QED
  BY <1>4, <1>5, <1>7 DEF RootLevel

(* Between two statements the machine's root stack, with every value that  *)
(* statements have left on it, is no deeper than what is booked for the    *)
(* root scope, although the two are kept by different components.          *)
THEOREM SessionBookedCoversDepth ==
  ASSUME NEW n \in Nat, Disciplined(n)
  PROVE  ShellSpec /\ [][UsesDeclared]_vars /\ []SessionFits => []BookedCoversDepth
<1>1. StackInv(n) => BookedCoversDepth
  BY BookedDepth
<1> QED
  BY <1>1, StackAlways, PTL

LEMMA SessionVerifies == ASSUME NEW n \in Nat, VerifiedInv(n) PROVE FunctionsVerify
<1>1. CodeInv(TRUE, TRUE) /\ FuncsFit(funcs, n)
  BY DEF VerifiedInv, SessionOK, SessionDepth, DepthInv
<1> QED
  BY <1>1, DepthVerifies

(* Also while code of the session runs, which may be in the middle of a    *)
(* statement, the code of every function verifies with its handle's sizes. *)
THEOREM SessionFunctionsVerify ==
  ASSUME NEW n \in Nat, Disciplined(n)
  PROVE  ShellSpec /\ [][UsesDeclared]_vars /\ []SessionFits /\ []FramesFit => []FunctionsVerify
<1>1. ShellInit => VerifiedInv(n)
  BY StackInit
<1>2. VerifiedInv(n) /\ [ShellNext]_shellvars /\ [UsesDeclared]_vars /\ SessionFits /\ FramesFit /\ StacksFit'
        => VerifiedInv(n)'
  BY VerifiedStep
<1>3. SessionFits => StacksFit
  BY DEF SessionFits
<1>4. VerifiedInv(n) => FunctionsVerify
  BY SessionVerifies
<1> QED
  BY <1>1, <1>2, <1>3, <1>4, PTL DEF ShellSpec
=============================================================================
