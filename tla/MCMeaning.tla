----------------------------- MODULE MCMeaning ------------------------------
(* Instances of ShellMeaning for TLC.                                      *)
EXTENDS ShellMeaning, MCExprs
=============================================================================
