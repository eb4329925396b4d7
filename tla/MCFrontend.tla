----------------------------- MODULE MCFrontend -----------------------------
(* Instances of Frontend: all tokens, and those of if statements with elif *)
(* parts, which a newline ends.                                            *)
EXTENDS Frontend

ElifTokens == {"if", "elif", "expr", "close", "newline"}
=============================================================================
