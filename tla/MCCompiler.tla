----------------------------- MODULE MCCompiler -----------------------------
(* Instances of Compiler for TLC.                                          *)
EXTENDS Compiler, MCExprs
=============================================================================
