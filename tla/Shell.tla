------------------------------- MODULE Shell --------------------------------
(***************************************************************************)
(* The interactive shell: the compiler and the machine in one process.     *)
(*                                                                         *)
(* The emitter of the root scope is the unbuffered one: what a statement   *)
(* emits at the root is executed before the compiler goes on, so that the  *)
(* condition of an if has been evaluated when its blocks are compiled, and *)
(* a while statement or the rest of an if is executed when it is complete. *)
(***************************************************************************)
EXTENDS Compiler, Vm

shellvars == <<vars, vmvars>>

ShellInit == Init /\ VmInit

Emitted == emitters[1].code

(* The compiler runs while the machine does not.                           *)
CompileStep ==
  /\ Idle
  /\ Emitted = <<>>
  /\ Next
  /\ UNCHANGED vmvars

(* emitter_emit_unbuffered: the chunk goes straight to the machine.        *)
PushChunk ==
  /\ Emitted # <<>>
  /\ Push(Emitted)
  /\ emitters' = [emitters EXCEPT ![1].code = <<>>]
  /\ UNCHANGED <<scopes, stacks, descs, funcs, status, stats>>

ExecuteStep == Execute(funcs) /\ UNCHANGED vars

ShellNext == CompileStep \/ PushChunk \/ ExecuteStep

ShellSpec == ShellInit /\ [][ShellNext]_shellvars

(* The process is single-threaded: once code is emitted or running nothing *)
(* else happens until it is done.                                          *)
FairShell == ShellSpec /\ WF_shellvars(PushChunk \/ ExecuteStep)

-----------------------------------------------------------------------------
(* Properties.                                                             *)

ShellTypeOK ==
  /\ scopes \in Seq(Scope)
  /\ Len(stacks) = Len(scopes) /\ Len(emitters) = Len(scopes)
  /\ \A i \in DOMAIN stacks : stacks[i].size \in 0..SizeRange-1 /\ stacks[i].max \in 0..SizeRange-1
  /\ Len(descs) \in {Len(funcs), Len(funcs) + 1}
  /\ status \in {"run", "panic"}
  /\ \A i \in DOMAIN frames : /\ frames[i].stack \in Seq(Word)
                              /\ frames[i].locals \in Seq(Word)

(* Every frame, of the root and of a called function, has the stack its    *)
(* code needs, and no instruction pops what is not there: compiler_scope.c *)
(* books the depth the code reaches, vm_execute_opcode_call allocates it   *)
(* and the handlers check nothing.                                         *)
StackInFrame == trap \notin {"overflow", "underflow"}

(* Every slot an instruction names lies in the locals of its frame: the    *)
(* maximum frame_define_var propagates covers the deepest nest of blocks.  *)
LocalsInFrame == trap # "locals"

(* Every instruction finds operands of the kind the compiler traced for    *)
(* it: an int operation never sees the bits of a float, and nothing reads  *)
(* a slot before the program stored to it, although sibling blocks share   *)
(* slots and a branch may be skipped.                                      *)
Kinds(ws, type) == \A i \in DOMAIN ws : ws[i].type = type


(* Control stays in the code: every jump lands on an instruction or just   *)
(* behind the last one.                                                    *)
ControlInCode ==
  /\ trap # "operand"
  /\ \A i \in DOMAIN frames : frames[i].pc \in 0..Len(frames[i].code)

(* Between two statements the root's stack is never deeper than what the   *)
(* compiler has booked for the root scope.                                 *)
BookedCoversDepth ==
  Idle /\ Emitted = <<>> /\ status = "run" => 4 * Len(frames[1].stack) <= stacks[1].size

(* A program without while statements always gives the prompt back.        *)
PromptReturns == []<>(trap # "none" \/ (Idle /\ Emitted = <<>>))
=============================================================================
