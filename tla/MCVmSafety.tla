----------------------------- MODULE MCVmSafety -----------------------------
(* Instances of VmSafety for TLC: all short programs over a choice of      *)
(* instructions, most of them nonsense.                                    *)
EXTENDS VmSafety

Instructions == {
  Encode("ICONST", 0), Encode("FCONST", 0), Encode("ILOAD", 0), Encode("ISAVE", 1),
  Encode("IADD", 0), Encode("IDIV", 0), Encode("IEQ", 0), Encode("FADD", 0),
  Encode("I2F", 0), Encode("INEG", 0), Encode("JEZ", 1), Encode("JMP", 2),
  Encode("RJMP", 5), Encode("CALL", 0) }

Sequences(n) == UNION {[1..k -> Instructions] : k \in 0..n}

Functions == {
  [name |-> "f", args |-> 1, vars |-> 1, stack |-> 4,
   code |-> Encode("ILOAD", 0) \o Encode("JEZ", 3) \o Encode("CALL", 0)],
  [name |-> "f", args |-> 1, vars |-> 1, stack |-> 4,
   code |-> Encode("ICONST", 1) \o Encode("ISAVE", 0)],
  [name |-> "f", args |-> 2, vars |-> 2, stack |-> 8,
   code |-> Encode("ILOAD", 0) \o Encode("FLOAD", 1) \o Encode("FADD", 0)] }

(* Code that begins with nothing on the stack, and with two words.         *)
Prologues == {<<>>, Encode("ICONST", 1) \o Encode("ICONST", 0)}

ShortPrograms ==
  {[chunk |-> p \o FlattenSeq(s), func |-> g] :
     p \in Prologues, s \in Sequences(3), g \in Functions}
=============================================================================
