------------------------------ MODULE VmSafety ------------------------------
(***************************************************************************)
(* The machine alone, on any code: the root frame starts with some chunk   *)
(* and calls reach some function.  Verified code never makes a handler     *)
(* leave the memory of its frame, at any depth of calls, although the      *)
(* handlers check nothing.                                                 *)
(***************************************************************************)
EXTENDS Vm, Verifier

CONSTANT Programs   \* a set of [chunk, func], func a function handle

ASSUME ProgramsAssumption ==
  \A p \in Programs :
    /\ p.chunk \in Seq(Cell)
    /\ p.func.code \in Seq(Cell)
    /\ p.func.args \in Nat /\ p.func.vars \in Nat /\ p.func.stack \in Nat
    /\ p.func.args <= p.func.vars

VARIABLE program

safetyvars == <<vmvars, program>>

SafetyInit ==
  /\ program \in Programs
  /\ frames = <<Frame(program.chunk, Uninitialised(RootLocals), RootStack)>>
  /\ trap = "none"

SafetyNext == Execute(<<program.func>>) /\ UNCHANGED program

SafetySpec == SafetyInit /\ [][SafetyNext]_safetyvars

ProgramVerified ==
  /\ Verified(program.chunk, RootStack, RootLocals, program.func.args)
  /\ Verified(program.func.code, program.func.stack, program.func.vars, program.func.args)

(* Running verified code, no handler reads or writes outside of the stack  *)
(* and the locals of its frame, and no operand byte is taken for an        *)
(* opcode: vm.c relies on the compiler for all of this.                    *)
VerifiedIsSafe ==
  ProgramVerified => trap \notin {"underflow", "overflow", "locals", "operand"}

(* Every frame of verified code has the depth the verifier computed for    *)
(* the place it is at; all but the last one wait at a call.                *)
FrameAgrees(fr, cap, n) ==
  /\ fr.pc + 1 \in Boundaries(fr.code)
  /\ Len(fr.stack) = Depths(fr.code)[fr.pc + 1]
  /\ fr.cap = cap /\ Len(fr.locals) = n

DepthsAgree ==
  ProgramVerified =>
    /\ frames[1].code = program.chunk
    /\ FrameAgrees(frames[1], RootStack, RootLocals)
    /\ \A k \in 2..Len(frames) :
         /\ frames[k].code = program.func.code
         /\ FrameAgrees(frames[k], program.func.stack, program.func.vars)
    /\ \A k \in 1..Len(frames)-1 :
         frames[k].pc + 1 \in Starts(frames[k].code) /\ frames[k].code[frames[k].pc + 1].op = "CALL"
=============================================================================
