------------------------------- MODULE Stream -------------------------------
(***************************************************************************)
(* What the compiler expects of a buffered emitter: the bytes that are     *)
(* emitted are read back in the order in which they were emitted.          *)
(***************************************************************************)
EXTENDS Sequences

CONSTANT Chunks   \* what is emitted at once

VARIABLES
  input,      \* what was emitted last
  written,    \* the bytes emitted so far
  read        \* the bytes read back, <<>> before

vars == <<input, written, read>>

Init == input = <<>> /\ written = <<>> /\ read = <<>>

Emit(chunk) == input' = chunk /\ written' = written \o chunk /\ UNCHANGED read

Read == read' = written /\ UNCHANGED <<input, written>>

Next == (\E chunk \in Chunks : Emit(chunk)) \/ Read

Spec == Init /\ [][Next]_vars
=============================================================================
