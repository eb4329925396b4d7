---------------------------- MODULE VmSafetyProof ----------------------------
(***************************************************************************)
(* Proofs about the machine: whatever the code, its state stays typed; and *)
(* verified code, of any length, never leaves the memory of its frames.    *)
(***************************************************************************)
EXTENDS VmSafety, VmProof

(* Every call is to the one function of the program.                       *)
LEMMA FuncTyped ==
  ASSUME program \in Programs
  PROVE  /\ HandleTyped(program.func) /\ program.func.args <= program.func.vars
         /\ \A k : Resolve(<<program.func>>, k) = program.func
BY ProgramsAssumption DEF HandleTyped, Resolve

LEMMA FuncPushed ==
  ASSUME MachineTypeOK, program \in Programs, CallFunc(<<program.func>>)
  PROVE  \E fr \in CellFrame :
           /\ frames' = Append(frames, fr)
           /\ fr.code = program.func.code /\ fr.cap = program.func.stack
           /\ Len(fr.locals) = program.func.vars
           /\ fr.pc = 0 /\ fr.stack = <<>>
<1>1. PICK h : h = program.func /\ h = Resolve(<<program.func>>, instr.arg)
               /\ HandleTyped(h) /\ h.args <= h.vars
  BY FuncTyped
<1>2. PICK fr \in CellFrame :
           /\ frames' = Append(frames, fr)
           /\ fr.code = h.code /\ fr.cap = h.stack
           /\ Len(fr.locals) = h.vars
           /\ fr.pc = 0 /\ fr.stack = <<>>
  BY <1>1, CallPushes
<1> QED
  BY <1>1, <1>2

-----------------------------------------------------------------------------
(* Type correctness, for any code.                                         *)

LEMMA TypeStep ==
  ASSUME MachineTypeOK, program \in Programs, [SafetyNext]_safetyvars
  PROVE  MachineTypeOK' /\ program' \in Programs
<1>1. program' = program
  BY DEF SafetyNext, safetyvars
<1>2. CASE UNCHANGED safetyvars
  BY <1>2 DEF safetyvars, vmvars, MachineTypeOK
<1>3. CASE SafetyNext
  <2>1. Execute(<<program.func>>)
    BY <1>3 DEF SafetyNext
  <2>2. HandleTyped(Resolve(<<program.func>>, instr.arg))
    BY FuncTyped
  <2>3. MachineTypeOK'
    BY <2>1, <2>2, MachineStep
  <2> QED
    BY <1>1, <2>3
<1> QED
  BY <1>1, <1>2, <1>3

LEMMA InitTyped == SafetyInit => MachineTypeOK /\ program \in Programs
<1> SUFFICES ASSUME SafetyInit PROVE MachineTypeOK
  BY DEF SafetyInit
<1> DEFINE fr == Frame(program.chunk, Uninitialised(RootLocals), RootStack)
<1>1. program.chunk \in Seq(Cell)
  BY ProgramsAssumption DEF SafetyInit
<1>2. Uninitialised(RootLocals) \in Seq(Word) /\ RootStack \in Nat
  BY RootAssumption, ConstantsTyped DEF Uninitialised
<1>3. fr \in CellFrame
  <2>1. fr = [code |-> program.chunk, pc |-> 0, stack |-> <<>>,
              locals |-> Uninitialised(RootLocals), cap |-> RootStack]
    BY DEF Frame
  <2>2. <<>> \in Seq(Word)
    OBVIOUS
  <2> HIDE DEF fr
  <2> QED
    BY <1>1, <1>2, <2>1, <2>2 DEF CellFrame
<1>4. frames = <<fr>> /\ trap = "none"
  BY DEF SafetyInit
<1> HIDE DEF fr
<1> QED
  BY <1>3, <1>4 DEF MachineTypeOK

(* Whatever code the machine is given, its frames stay well typed: words   *)
(* stay in 32 bits and every slot keeps holding a word.                    *)
THEOREM MachineTyped == SafetySpec => []MachineTypeOK
<1>1. MachineTypeOK /\ program \in Programs /\ [SafetyNext]_safetyvars
        => MachineTypeOK' /\ (program \in Programs)'
  BY TypeStep
<1> QED
  BY <1>1, InitTyped, PTL DEF SafetySpec

-----------------------------------------------------------------------------
(* Verified code: every frame is where the verifier says it can be.        *)

(* What the verifier promises of one instruction.                          *)
LEMMA VerifiedAt ==
  ASSUME NEW code, NEW cap, NEW n, NEW args, Verified(code, cap, n, args)
  PROVE  /\ 1 \in Boundaries(code)
         /\ Depths(code)[1] = 0
         /\ \A i \in Starts(code) :
              /\ code[i].op \in Opcodes
              /\ Depths(code)[i] >= Pops(code[i].op)
              /\ 4 * DepthAfter(code, i, Depths(code)[i]) <= cap
              /\ code[i].op \in {"ILOAD", "ISAVE", "FLOAD", "FSAVE"} => code[i].arg \in 0..n-1
              /\ code[i].op = "CALL" => Depths(code)[i] >= args
              /\ \A t \in Successors(code, i) :
                   t \in Boundaries(code) /\ Depths(code)[t] = DepthAfter(code, i, Depths(code)[i])
BY DEF Verified, WellFormed

FrameVerified(fr) ==
  /\ Verified(fr.code, fr.cap, Len(fr.locals), program.func.args)
  /\ fr.pc + 1 \in Boundaries(fr.code)
  /\ Len(fr.stack) = Depths(fr.code)[fr.pc + 1]

LEMMA FramesVerified ==
  ASSUME MachineTypeOK, DepthsAgree, ProgramVerified, NEW k \in 1..Len(frames)
  PROVE  FrameVerified(frames[k])
<1>1. CASE k = 1
  BY <1>1 DEF DepthsAgree, ProgramVerified, FrameVerified, FrameAgrees
<1>2. CASE k # 1
  <2>1. k \in 2..Len(frames)
    BY <1>2, CurrentTyped
  <2> QED
    BY <2>1 DEF DepthsAgree, ProgramVerified, FrameVerified, FrameAgrees
<1> QED
  BY <1>1, <1>2

(* The top frame, when it runs, is at the start of an instruction the      *)
(* verifier has accepted.                                                  *)
LEMMA CurrentVerified ==
  ASSUME MachineTypeOK, DepthsAgree, ProgramVerified, Ready
  PROVE  /\ FrameVerified(current)
         /\ current.pc + 1 \in Starts(current.code)
         /\ instr.op \in Opcodes
         /\ depth >= Pops(instr.op)
         /\ 4 * (depth - Pops(instr.op) + Pushes(instr.op)) <= current.cap
         /\ instr.op \in {"ILOAD", "ISAVE", "FLOAD", "FSAVE"} =>
              instr.arg \in 0..Len(current.locals)-1
         /\ instr.op = "CALL" => depth >= program.func.args
<1>1. Len(frames) \in Nat \ {0} /\ current = frames[Len(frames)] /\ current \in CellFrame
      /\ current.pc + 1 \in 1..Len(current.code)
  BY CurrentTyped
<1>2. FrameVerified(current)
  BY <1>1, FramesVerified
<1>3. current.pc + 1 \in Starts(current.code)
  <2>1. current.pc + 1 # Len(current.code) + 1
    BY <1>1 DEF CellFrame
  <2> QED
    BY <1>2, <2>1 DEF FrameVerified, Boundaries
<1>4. depth = Depths(current.code)[current.pc + 1]
  BY <1>2 DEF FrameVerified, depth
<1> QED
  BY <1>2, <1>3, <1>4, VerifiedAt DEF FrameVerified, DepthAfter, instr

(* No handler leaves the memory of the frame.                              *)
LEMMA NoTrap ==
  ASSUME MachineTypeOK, program \in Programs, DepthsAgree, ProgramVerified,
         \/ StackTrap \/ LocalsTrap \/ CallTrap(<<program.func>>)
         \/ DivisionTrap \/ OperandTrap \/ PanicTrap
  PROVE  trap' \in {"callstack", "division", "panic"}
<1>1. Ready
  BY DEF StackTrap, LocalsTrap, CallTrap, DivisionTrap, OperandTrap, PanicTrap, At
<1>2. depth \in Nat /\ current \in CellFrame /\ instr \in Cell
  BY <1>1, CurrentTyped
<1>3. ~StackTrap
  BY <1>1, <1>2, CurrentVerified, PopsBound DEF StackTrap, Fits
<1>4. ~LocalsTrap
  <2>1. instr.op \in {"ILOAD", "ISAVE", "FLOAD", "FSAVE"} => instr.arg < Len(current.locals)
    BY <1>1, <1>2, CurrentVerified DEF CellFrame, Cell
  <2> QED
    BY <1>2, <2>1 DEF LocalsTrap, At, CellFrame, Cell
<1>5. ~OperandTrap
  BY <1>1, CurrentVerified DEF OperandTrap, At, Opcodes
<1>6. ASSUME CallTrap(<<program.func>>) PROVE trap' = "callstack"
  <2>1. Resolve(<<program.func>>, instr.arg) = program.func
    BY DEF Resolve
  <2>2. instr.op = "CALL"
    BY <1>6 DEF CallTrap, At
  <2>3. ~(depth < program.func.args)
    <3>1. depth >= program.func.args
      BY <1>1, <2>2, CurrentVerified
    <3>2. program.func.args \in Nat
      BY ProgramsAssumption
    <3> QED
      BY <1>2, <3>1, <3>2
  <2> QED
    BY <1>6, <2>1, <2>3 DEF CallTrap, Stop
<1>7. DivisionTrap => trap' = "division"
  BY DEF DivisionTrap, Stop
<1>8. PanicTrap => trap' = "panic"
  BY DEF PanicTrap, Stop
<1> QED
  BY <1>3, <1>4, <1>5, <1>6, <1>7, <1>8

(* The conjuncts of DepthsAgree for one frame, by its place.               *)
PlaceAgrees(fr, k) ==
  IF k = 1 THEN fr.code = program.chunk /\ FrameAgrees(fr, RootStack, RootLocals)
  ELSE fr.code = program.func.code /\ FrameAgrees(fr, program.func.stack, program.func.vars)

AtCall(fr) == fr.pc + 1 \in Starts(fr.code) /\ fr.code[fr.pc + 1].op = "CALL"

LEMMA AgreeByPlace ==
  ASSUME MachineTypeOK, ProgramVerified
  PROVE  DepthsAgree <=> /\ \A k \in 1..Len(frames) : PlaceAgrees(frames[k], k)
                         /\ \A k \in 1..Len(frames)-1 : AtCall(frames[k])
<1>1. Len(frames) \in Nat \ {0}
  BY CurrentTyped
<1>2. (\A k \in 1..Len(frames) : PlaceAgrees(frames[k], k))
        <=> /\ PlaceAgrees(frames[1], 1)
            /\ \A k \in 2..Len(frames) : PlaceAgrees(frames[k], k)
  BY <1>1
<1>3. \A k \in 2..Len(frames) : k # 1
  BY <1>1
<1> QED
  BY <1>2, <1>3 DEF DepthsAgree, PlaceAgrees, AtCall

(* A frame that moves to a successor, as the verifier counts, stays where  *)
(* the verifier says.                                                      *)
LEMMA MovedAgrees ==
  ASSUME NEW fr \in CellFrame, NEW fr2 \in CellFrame, NEW k,
         PlaceAgrees(fr, k), FrameVerified(fr), fr.pc + 1 \in Starts(fr.code),
         fr2.code = fr.code, fr2.cap = fr.cap, Len(fr2.locals) = Len(fr.locals),
         fr2.pc + 1 \in Successors(fr.code, fr.pc + 1),
         Len(fr2.stack) = DepthAfter(fr.code, fr.pc + 1, Len(fr.stack))
  PROVE  PlaceAgrees(fr2, k)
<1>1. /\ fr2.pc + 1 \in Boundaries(fr.code)
      /\ Depths(fr.code)[fr2.pc + 1] = DepthAfter(fr.code, fr.pc + 1, Len(fr.stack))
  BY VerifiedAt DEF FrameVerified
<1> QED
  BY <1>1 DEF PlaceAgrees, FrameAgrees

LEMMA StartAgrees ==
  ASSUME NEW fr \in CellFrame, ProgramVerified, NEW k,
         IF k = 1 THEN /\ fr.code = program.chunk /\ fr.cap = RootStack
                       /\ Len(fr.locals) = RootLocals
                  ELSE /\ fr.code = program.func.code /\ fr.cap = program.func.stack
                       /\ Len(fr.locals) = program.func.vars,
         fr.pc = 0, fr.stack = <<>>
  PROVE  PlaceAgrees(fr, k)
<1>1. 1 \in Boundaries(fr.code) /\ Depths(fr.code)[1] = 0
  BY VerifiedAt DEF ProgramVerified
<1> QED
  BY <1>1 DEF PlaceAgrees, FrameAgrees

(* A changed frame on top of unchanged ones.                               *)
LEMMA TopAgrees ==
  ASSUME MachineTypeOK, MachineTypeOK', ProgramVerified, program' = program, DepthsAgree,
         NEW m \in 1..Len(frames), Len(frames') = m,
         \A k \in 1..m-1 : frames'[k] = frames[k],
         PlaceAgrees(frames'[m], m)
  PROVE  DepthsAgree'
<1>1. Len(frames) \in Nat \ {0}
  BY CurrentTyped
<1>2. ProgramVerified'
  BY DEF ProgramVerified
<1>3. /\ \A k \in 1..Len(frames) : PlaceAgrees(frames[k], k)
      /\ \A k \in 1..Len(frames)-1 : AtCall(frames[k])
  BY AgreeByPlace
<1>4. ASSUME NEW k \in 1..m PROVE PlaceAgrees(frames'[k], k)
  <2>1. CASE k = m
    BY <2>1
  <2>2. CASE k # m
    <3>1. k \in 1..m-1 /\ k \in 1..Len(frames)
      BY <1>1, <2>2
    <3> QED
      BY <1>3, <3>1
  <2> QED
    BY <2>1, <2>2
<1>5. ASSUME NEW k \in 1..m-1 PROVE AtCall(frames'[k])
  <2>1. k \in 1..Len(frames)-1 /\ frames'[k] = frames[k]
    BY <1>1
  <2> QED
    BY <1>3, <2>1
<1>7. (\A k \in 1..Len(frames) : PlaceAgrees(frames[k], k))'
  BY <1>4 DEF PlaceAgrees, FrameAgrees
<1>8. (\A k \in 1..Len(frames)-1 : AtCall(frames[k]))'
  BY <1>5 DEF AtCall
<1>9. (DepthsAgree <=> /\ \A k \in 1..Len(frames) : PlaceAgrees(frames[k], k)
                       /\ \A k \in 1..Len(frames)-1 : AtCall(frames[k]))'
  BY <1>2, AgreeByPlace, PTL
<1> QED
  BY <1>7, <1>8, <1>9

LEMMA SteppedAgrees ==
  ASSUME MachineTypeOK, MachineTypeOK', ProgramVerified, program' = program, DepthsAgree,
         Stepped
  PROVE  DepthsAgree'
<1> DEFINE m == Len(frames)
<1>1. /\ m \in Nat \ {0} /\ frames \in Seq(CellFrame) /\ current = frames[m]
      /\ current \in CellFrame /\ Ready
  BY CurrentTyped DEF Stepped
<1>2. PICK fr \in CellFrame :
        /\ frames' = [frames EXCEPT ![m] = fr]
        /\ fr.code = current.code /\ fr.cap = current.cap
        /\ Len(fr.locals) = Len(current.locals)
        /\ fr.pc + 1 \in Successors(current.code, current.pc + 1)
        /\ Len(fr.stack) = DepthAfter(current.code, current.pc + 1, Len(current.stack))
  BY DEF Stepped, depth
<1>3. Len(frames') = m /\ frames'[m] = fr /\ \A k \in 1..m-1 : frames'[k] = frames[k]
  BY <1>1, <1>2
<1>4. PlaceAgrees(current, m)
  BY <1>1, AgreeByPlace
<1>5. FrameVerified(current) /\ current.pc + 1 \in Starts(current.code)
  BY <1>1, CurrentVerified
<1>6. PlaceAgrees(fr, m)
  BY <1>1, <1>2, <1>4, <1>5, MovedAgrees
<1>7. m \in 1..Len(frames)
  BY <1>1
<1> HIDE DEF m
<1> QED
  BY <1>3, <1>6, <1>7, TopAgrees

LEMMA CallAgrees ==
  ASSUME MachineTypeOK, MachineTypeOK', program \in Programs, ProgramVerified,
         program' = program, DepthsAgree, CallFunc(<<program.func>>)
  PROVE  DepthsAgree'
<1> DEFINE m == Len(frames)
<1>1. /\ m \in Nat \ {0} /\ frames \in Seq(CellFrame) /\ current = frames[m] /\ Ready
      /\ instr.op = "CALL"
  BY CurrentTyped DEF CallFunc, At
<1>2. PICK fr \in CellFrame :
        /\ frames' = Append(frames, fr)
        /\ fr.code = program.func.code /\ fr.cap = program.func.stack
        /\ Len(fr.locals) = program.func.vars
        /\ fr.pc = 0 /\ fr.stack = <<>>
  BY FuncPushed
<1>3. Len(frames') = m + 1 /\ frames'[m+1] = fr /\ \A k \in 1..m : frames'[k] = frames[k]
  BY <1>1, <1>2
<1>4. m + 1 # 1
  BY <1>1
<1>5. PlaceAgrees(fr, m + 1)
  BY <1>2, <1>4, StartAgrees
<1>6. AtCall(current)
  BY <1>1, CurrentVerified DEF AtCall, instr
<1>7. /\ \A k \in 1..m : PlaceAgrees(frames[k], k)
      /\ \A k \in 1..m-1 : AtCall(frames[k])
  BY AgreeByPlace
<1>8. ASSUME NEW k \in 1..m+1 PROVE PlaceAgrees(frames'[k], k)
  <2>1. CASE k = m + 1
    BY <1>3, <1>5, <2>1
  <2>2. CASE k # m + 1
    <3>1. k \in 1..m
      BY <1>1, <2>2
    <3> QED
      BY <1>3, <1>7, <3>1
  <2> QED
    BY <2>1, <2>2
<1>9. ASSUME NEW k \in 1..(m+1)-1 PROVE AtCall(frames'[k])
  <2>1. k \in 1..m /\ frames'[k] = frames[k]
    BY <1>1, <1>3
  <2>2. CASE k = m
    BY <1>1, <1>6, <2>1, <2>2
  <2>3. CASE k # m
    <3>1. k \in 1..m-1
      BY <1>1, <2>1, <2>3
    <3> QED
      BY <1>7, <2>1, <3>1
  <2> QED
    BY <2>2, <2>3
<1> HIDE DEF m
<1>10. ProgramVerified'
  BY DEF ProgramVerified
<1>11. (\A k \in 1..Len(frames) : PlaceAgrees(frames[k], k))'
  BY <1>3, <1>8 DEF PlaceAgrees, FrameAgrees
<1>12. (\A k \in 1..Len(frames)-1 : AtCall(frames[k]))'
  BY <1>3, <1>9 DEF AtCall
<1>13. (DepthsAgree <=> /\ \A k \in 1..Len(frames) : PlaceAgrees(frames[k], k)
                        /\ \A k \in 1..Len(frames)-1 : AtCall(frames[k]))'
  BY <1>10, AgreeByPlace, PTL
<1> QED
  BY <1>11, <1>12, <1>13

LEMMA ReturnAgrees ==
  ASSUME MachineTypeOK, MachineTypeOK', ProgramVerified, program' = program, DepthsAgree,
         Return
  PROVE  DepthsAgree'
<1> DEFINE m == Len(frames) - 1
<1>1. Len(frames) \in Nat \ {0} /\ Len(frames) > 1 /\ frames \in Seq(CellFrame)
  BY CurrentTyped DEF Return
<1>2. m \in 1..Len(frames) /\ m \in 1..Len(frames)-1 /\ m \in Nat \ {0} /\ frames[m] \in CellFrame
  <2>1. PICK l \in Nat : l = Len(frames) /\ l > 1
    BY <1>1
  <2>2. l - 1 \in 1..l /\ l - 1 \in 1..l-1 /\ l - 1 \in Nat /\ l - 1 # 0
    BY <2>1
  <2> QED
    BY <1>1, <2>1, <2>2
<1>3. PICK fr \in CellFrame :
        /\ frames' = [Front(frames) EXCEPT ![m] = fr]
        /\ fr.code = frames[m].code /\ fr.cap = frames[m].cap
        /\ fr.locals = frames[m].locals /\ fr.stack = frames[m].stack
        /\ fr.pc = frames[m].pc + 3
  BY ReturnPops
<1>4. Front(frames) \in Seq(CellFrame) /\ Len(Front(frames)) = m
      /\ \A k \in 1..m : Front(frames)[k] = frames[k]
  BY <1>1, FrontTyped
<1>5. PlaceAgrees(frames[m], m) /\ AtCall(frames[m])
  BY <1>2, AgreeByPlace
<1>6. FrameVerified(frames[m])
  BY <1>2, FramesVerified
<1> HIDE DEF m
<1>7. Len(frames') = m /\ frames'[m] = fr /\ \A k \in 1..m-1 : frames'[k] = frames[k]
  BY <1>2, <1>3, <1>4
<1>8. fr.pc + 1 \in Successors(frames[m].code, frames[m].pc + 1)
  BY <1>2, <1>3, <1>5 DEF AtCall, Successors, Size, OperandBytes, CellFrame
<1>9. Len(fr.stack) = DepthAfter(frames[m].code, frames[m].pc + 1, Len(frames[m].stack))
  BY <1>2, <1>3, <1>5 DEF AtCall, DepthAfter, Pops, Pushes, CellFrame
<1>10. PlaceAgrees(fr, m)
  BY <1>2, <1>3, <1>5, <1>6, <1>8, <1>9, MovedAgrees DEF AtCall
<1> QED
  BY <1>2, <1>7, <1>10, TopAgrees

-----------------------------------------------------------------------------
(* The inductive invariant: on verified code every frame is at a place the *)
(* verifier knows, with the depth it has there, and no handler has left    *)
(* its memory.                                                             *)
SafetyInv ==
  /\ MachineTypeOK
  /\ program \in Programs
  /\ DepthsAgree
  /\ VerifiedIsSafe

LEMMA SafetyInvInit == SafetyInit => SafetyInv
<1> SUFFICES ASSUME SafetyInit PROVE DepthsAgree /\ VerifiedIsSafe
  BY InitTyped DEF SafetyInv
<1>1. VerifiedIsSafe
  BY DEF SafetyInit, VerifiedIsSafe
<1>2. ASSUME ProgramVerified PROVE DepthsAgree
  <2>1. MachineTypeOK
    BY InitTyped
  <2> DEFINE fr == Frame(program.chunk, Uninitialised(RootLocals), RootStack)
  <2>2. frames = <<fr>> /\ Len(frames) = 1 /\ frames[1] = fr
    BY DEF SafetyInit
  <2>3. /\ fr.code = program.chunk /\ fr.cap = RootStack /\ fr.pc = 0 /\ fr.stack = <<>>
        /\ fr.locals = Uninitialised(RootLocals)
    BY DEF Frame
  <2>4. Len(Uninitialised(RootLocals)) = RootLocals
    BY RootAssumption DEF Uninitialised
  <2>5. fr \in CellFrame
    BY <2>1, <2>2 DEF MachineTypeOK
  <2> HIDE DEF fr
  <2>6. PlaceAgrees(fr, 1)
    BY <1>2, <2>3, <2>4, <2>5, StartAgrees
  <2>7. \A k \in 1..Len(frames) : PlaceAgrees(frames[k], k)
    BY <2>2, <2>6
  <2>8. \A k \in 1..Len(frames)-1 : AtCall(frames[k])
    BY <2>2
  <2> QED
    BY <1>2, <2>1, <2>7, <2>8, AgreeByPlace
<1>3. ~ProgramVerified => DepthsAgree
  BY DEF DepthsAgree
<1> QED
  BY <1>1, <1>2, <1>3

LEMMA SafetyInvStep == SafetyInv /\ [SafetyNext]_safetyvars => SafetyInv'
<1> SUFFICES ASSUME SafetyInv, [SafetyNext]_safetyvars PROVE SafetyInv'
  OBVIOUS
<1>1. MachineTypeOK /\ program \in Programs /\ DepthsAgree /\ VerifiedIsSafe
  BY DEF SafetyInv
<1>2. MachineTypeOK' /\ program' \in Programs
  BY <1>1, TypeStep
<1>3. program' = program
  BY DEF SafetyNext, safetyvars
<1>4. ProgramVerified' <=> ProgramVerified
  BY <1>3 DEF ProgramVerified
<1>5. CASE ~ProgramVerified
  BY <1>2, <1>4, <1>5 DEF SafetyInv, DepthsAgree, VerifiedIsSafe
<1>6. CASE ProgramVerified /\ UNCHANGED safetyvars
  BY <1>1, <1>6 DEF SafetyInv, DepthsAgree, VerifiedIsSafe, safetyvars, vmvars, MachineTypeOK,
                    FrameAgrees, ProgramVerified
<1>7. CASE ProgramVerified /\ Stepped
  <2>1. DepthsAgree'
    BY <1>1, <1>2, <1>3, <1>7, SteppedAgrees
  <2>2. VerifiedIsSafe'
    BY <1>1, <1>7 DEF VerifiedIsSafe, Stepped
  <2> QED
    BY <1>2, <2>1, <2>2 DEF SafetyInv
<1>8. CASE ProgramVerified /\ CallFunc(<<program.func>>)
  <2>1. DepthsAgree'
    BY <1>1, <1>2, <1>3, <1>8, CallAgrees
  <2>2. VerifiedIsSafe'
    BY <1>1, <1>8 DEF VerifiedIsSafe, CallFunc
  <2> QED
    BY <1>2, <2>1, <2>2 DEF SafetyInv
<1>9. CASE ProgramVerified /\ Return
  <2>1. DepthsAgree'
    BY <1>1, <1>2, <1>3, <1>9, ReturnAgrees
  <2>2. VerifiedIsSafe'
    BY <1>1, <1>9 DEF VerifiedIsSafe, Return
  <2> QED
    BY <1>2, <2>1, <2>2 DEF SafetyInv
<1>10. CASE /\ ProgramVerified /\ Trapped
            /\ \/ StackTrap \/ LocalsTrap \/ CallTrap(<<program.func>>)
               \/ DivisionTrap \/ OperandTrap \/ PanicTrap
  <2>1. trap' \in {"callstack", "division", "panic"}
    BY <1>1, <1>10, NoTrap
  <2>2. VerifiedIsSafe'
    BY <2>1 DEF VerifiedIsSafe
  <2>3. DepthsAgree'
    BY <1>1, <1>3, <1>10 DEF Trapped, DepthsAgree, FrameAgrees, ProgramVerified
  <2> QED
    BY <1>2, <2>2, <2>3 DEF SafetyInv
<1> QED
  BY <1>1, <1>5, <1>6, <1>7, <1>8, <1>9, <1>10, StepCases DEF SafetyNext

(* Whatever verified code does, at every moment the depth of every frame's *)
(* stack is the one the verifier computed for its program counter.         *)
THEOREM DepthsAlwaysAgree == SafetySpec => []DepthsAgree
<1>1. SafetyInv => DepthsAgree
  BY DEF SafetyInv
<1> QED
  BY <1>1, SafetyInvInit, SafetyInvStep, PTL DEF SafetySpec

(* A verified program, of any length and through any depth of calls, never *)
(* makes a handler leave the stack or the locals of its frame and never    *)
(* fetches an operand byte as an opcode, although vm.c checks none of it.  *)
THEOREM VerifiedCodeIsSafe == SafetySpec => []VerifiedIsSafe
<1>1. SafetyInv => VerifiedIsSafe
  BY DEF SafetyInv
<1> QED
  BY <1>1, SafetyInvInit, SafetyInvStep, PTL DEF SafetySpec
=============================================================================
