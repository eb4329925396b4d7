------------------------------ MODULE Frontend ------------------------------
(***************************************************************************)
(* The lexer and the parser: which statements of a session are handed to   *)
(* the compiler, and when.                                                 *)
(*                                                                         *)
(* The parser compiles a statement as soon as it has reduced it, unless it *)
(* is part of another one.  Whether it is, it does not know from its own   *)
(* stack, but from three fields of lexer_state that the lexer changes when *)
(* it reads a keyword and the parser when it has reduced a statement: and  *)
(* the lexer is one token ahead where an else or elif may follow.          *)
(*                                                                         *)
(* A token is a keyword, a brace ("scope" opens one that is a statement of *)
(* its own, "close" closes any), or what stands for all of an expression   *)
(* or of a function's head.  Only tokens the grammar allows are read, and  *)
(* the keyword class, which no rule has and which ends the session.        *)
(***************************************************************************)
EXTENDS Integers, SequencesExt, FiniteSetsExt

CONSTANTS
  Tokens,         \* the tokens a session may contain
  MaxTokens,      \* bound: tokens of a session
  MaxOpen         \* bound: statements open at once

Keywords == {"if", "while", "switch", "func"}
Starts   == Keywords \cup {"expr", "return", "scope"}
AllTokens == Starts \cup {"else", "elif", "case", "close", "newline", "class"}

ASSUME TokensAssumption == Tokens \subseteq AllTokens
ASSUME TokenBoundsAssumption == MaxTokens \in Nat /\ MaxOpen \in Nat

VARIABLES
  lexer_state,    \* is_inside_func, is_inside_class, and the two counters
  ahead,          \* the token read and not yet shifted, or "none"
  open,           \* the statements begun, outermost first
  begun,          \* the number of statements begun, which numbers them
  compiled,       \* the statements handed to the compiler
  finished,       \* the statements completed outside of any other
  status,         \* "run"; "panic", "crash" or "ended" when the session is over
  drift,          \* history: switch keywords, less elif parts reduced
  confused,       \* history: what was read that confuses the counters
  tokens          \* tokens read

vars == <<lexer_state, ahead, open, begun, compiled, finished, status, drift, confused, tokens>>

(* A statement that is open: its kind and number, whether its braces are   *)
(* open ("body", or "else"), it is waiting for an else or elif ("closed"), *)
(* for its elif part ("chain"), for a case ("first", "cases"), or can be   *)
(* reduced ("ready"); and what happens when it is compiled: "run", or how  *)
(* that ends the session.                                                  *)
Part(kind, id, phase) == [kind |-> kind, id |-> id, phase |-> phase, ends |-> "run"]

inner   == Last(open)
InList  == open # <<>> => inner.phase \in {"body", "else"}
Waiting == open # <<>> /\ inner.phase = "closed"

Phase(phase) == [open EXCEPT ![Len(open)].phase = phase]

Init ==
  /\ lexer_state = [func |-> FALSE, class |-> FALSE, selection |-> 0, iteration |-> 0]
  /\ ahead = "none" /\ open = <<>> /\ begun = 0
  /\ compiled = <<>> /\ finished = <<>> /\ status = "run"
  /\ drift = 0 /\ confused = {} /\ tokens = 0

-----------------------------------------------------------------------------
(* The lexer.                                                              *)

(* The tokens that may come next.                                          *)
Legal ==
  UNION {
    IF InList \/ Waiting THEN Starts \cup {"class"} ELSE {},
    IF Waiting THEN {"else", "elif", "newline"} ELSE {},
    IF (InList \/ Waiting) /\ \E i \in DOMAIN open : open[i].phase \in {"body", "else"}
      THEN {"close"} ELSE {},
    IF open # <<>> /\ inner.phase \in {"first", "cases"} THEN {"case"} ELSE {},
    IF open # <<>> /\ inner.phase = "cases" THEN {"close"} ELSE {}}

(* lexer_handle_keyword_...                                                *)
HandleKeyword(tok) ==
  [lexer_state EXCEPT
     !.func      = IF tok = "func" THEN TRUE ELSE @,
     !.class     = IF tok = "class" THEN TRUE ELSE @,
     !.selection = IF tok \in {"if", "switch"} THEN @ + 1 ELSE @,
     !.iteration = IF tok = "while" THEN @ + 1 ELSE @]

(* What confuses the counters: elif and switch, a function inside of a     *)
(* statement, braces at the root, and a keyword that follows the brace of  *)
(* an if statement of the root with no newline between.                    *)
Confusing(tok) ==
  UNION {
    {tok} \cap {"elif", "switch"},
    IF tok = "func" /\ open # <<>> THEN {"nested"} ELSE {},
    IF tok = "scope" /\ open = <<>> THEN {"block"} ELSE {},
    IF tok \in Keywords \cup {"scope"} /\ Waiting /\ Len(open) = 1 THEN {"behind"} ELSE {}}

tidy == confused = {}

Lex(tok) ==
  /\ status = "run" /\ ahead = "none"
  /\ tokens < MaxTokens
  /\ tok \in Legal
  /\ ahead' = tok
  /\ lexer_state' = HandleKeyword(tok)
  /\ drift' = IF tok = "switch" THEN drift + 1 ELSE drift
  /\ confused' = confused \cup Confusing(tok)
  /\ tokens' = tokens + 1
  /\ UNCHANGED <<open, begun, compiled, finished, status>>

-----------------------------------------------------------------------------
(* The parser, shifting a token.                                           *)

Shift(tok) == status = "run" /\ ahead = tok /\ ahead' = "none"

Begin(kind) ==
  /\ kind \in {"if", "while", "func", "switch", "scope"}
  /\ Shift(kind)
  /\ InList
  /\ Len(open) < MaxOpen
  /\ open' = Append(open, Part(kind, begun + 1, IF kind = "switch" THEN "first" ELSE "body"))
  /\ begun' = begun + 1
  /\ UNCHANGED <<lexer_state, compiled, finished, status, drift, confused, tokens>>

BeginElif ==
  /\ Shift("elif")
  /\ Waiting
  /\ Len(open) < MaxOpen
  /\ open' = Append(Phase("chain"), Part("elif", begun + 1, "body"))
  /\ begun' = begun + 1
  /\ UNCHANGED <<lexer_state, compiled, finished, status, drift, confused, tokens>>

BeginElse ==
  /\ Shift("else")
  /\ Waiting
  /\ open' = Phase("else")
  /\ UNCHANGED <<lexer_state, begun, compiled, finished, status, drift, confused, tokens>>

BeginCase ==
  /\ Shift("case")
  /\ open # <<>>
  /\ Len(open) < MaxOpen
  /\ open' = Append(Phase("cases"), Part("case", begun + 1, "body"))
  /\ begun' = begun + 1
  /\ UNCHANGED <<lexer_state, compiled, finished, status, drift, confused, tokens>>

(* A brace ends a scope: only of an if or elif part it is not known yet    *)
(* whether it is the end.                                                  *)
CloseBrace ==
  /\ Shift("close")
  /\ open # <<>>
  /\ inner.phase \in {"body", "else", "cases"}
  /\ open' = Phase(IF inner.kind \in {"if", "elif"} /\ inner.phase = "body"
                   THEN "closed" ELSE "ready")
  /\ UNCHANGED <<lexer_state, begun, compiled, finished, status, drift, confused, tokens>>

Newline ==
  /\ Shift("newline")
  /\ InList
  /\ UNCHANGED <<lexer_state, open, begun, compiled, finished, status, drift, confused, tokens>>

(* yyparse returns at a syntax error.                                      *)
SyntaxError ==
  /\ Shift("class")
  /\ InList
  /\ status' = "ended"
  /\ UNCHANGED <<lexer_state, open, begun, compiled, finished, drift, confused, tokens>>

-----------------------------------------------------------------------------
(* The parser, reducing.                                                   *)

(* Seeded fault: a missing node is left out.                               *)
DereferencedNever(outer, null) == "run"

(* ast_link_node_stat_list: a node that is missing, because it is compiled *)
(* and freed, is dereferenced, unless it stands at the root.               *)
Dereferenced(outer, null) == IF null /\ outer # <<>> THEN "crash" ELSE "run"

(* How the compilation of the innermost statement in list ends, when a     *)
(* part is added that ends it in this way.                                 *)
Ending(list, ends) ==
  [list EXCEPT ![Len(list)].ends = IF @ = "run" THEN ends ELSE @]

(* A statement is reduced with the lists in outer around it, and compiled  *)
(* if compiles holds; counted says whether the compiler knows its kind.    *)
Reduced(outer, id, ends, compiles, counted) ==
  LET null == compiles /\ ends = "run" IN
  /\ compiled' = IF null THEN Append(compiled, id) ELSE compiled
  /\ finished' = IF outer = <<>> /\ counted THEN Append(finished, id) ELSE finished
  /\ status' = IF compiles /\ ~null THEN ends ELSE Dereferenced(outer, null)
  /\ open' = IF outer = <<>> \/ null THEN outer ELSE Ending(outer, ends)
  /\ UNCHANGED <<confused, tokens>>

(* Seeded faults: the statement's own keyword is not discounted; a loop    *)
(* around the statement is not looked at.                                  *)
IfCompilesOwn == ~lexer_state.func /\ lexer_state.selection = 0 /\ lexer_state.iteration = 0

IfCompilesInLoop == ~lexer_state.func /\ lexer_state.selection - 1 = 0

(* The conditions in ast_new_node_stat_expr, _if and _while.               *)
ExprCompiles == ~lexer_state.func /\ lexer_state.selection = 0 /\ lexer_state.iteration = 0
IfCompiles == ~lexer_state.func /\ lexer_state.selection - 1 = 0 /\ lexer_state.iteration = 0
WhileCompiles == ~lexer_state.func /\ lexer_state.selection = 0 /\ lexer_state.iteration - 1 = 0

ReduceExpr ==
  /\ Shift("expr")
  /\ InList
  /\ begun' = begun + 1
  /\ Reduced(open, begun + 1, "run", ExprCompiles, TRUE)
  /\ UNCHANGED <<lexer_state, drift>>

(* The compiler panics at a return statement.                              *)
ReduceReturn ==
  /\ Shift("return")
  /\ InList
  /\ begun' = begun + 1
  /\ Reduced(open, begun + 1, "panic", FALSE, FALSE)
  /\ UNCHANGED <<lexer_state, drift>>

(* A rule is reduced as soon as it is complete, but after the true block   *)
(* of an if or elif the next token is read first.                          *)
Complete(kind) ==
  /\ status = "run" /\ open # <<>>
  /\ inner.kind = kind
  /\ inner.phase = "ready" \/ (inner.phase = "closed" /\ ahead \notin {"none", "else", "elif"})
  /\ UNCHANGED <<ahead, begun>>

Discounted == [lexer_state EXCEPT !.selection = @ - 1]

ReduceIf ==
  /\ Complete("if")
  /\ Reduced(Front(open), inner.id, inner.ends, IfCompiles, TRUE)
  /\ lexer_state' = Discounted
  /\ UNCHANGED drift

(* An elif part is an if statement of its own, which becomes the false     *)
(* scope of what it belongs to: nothing when it was compiled, and else the *)
(* compiler takes a pointer in it, which is null, for that of the scope's  *)
(* statements.                                                             *)
ReduceElif ==
  LET null  == IfCompiles /\ inner.ends = "run"
      outer == [Front(open) EXCEPT ![Len(open) - 1].phase = "ready"]
  IN
  /\ Complete("elif")
  /\ compiled' = IF null THEN Append(compiled, inner.id) ELSE compiled
  /\ status' = IF IfCompiles THEN inner.ends ELSE "run"
  /\ open' = IF null THEN outer ELSE Ending(outer, "crash")
  /\ lexer_state' = Discounted
  /\ drift' = drift - 1
  /\ UNCHANGED <<finished, confused, tokens>>

(* Nothing is done when a switch statement is reduced, and the compiler    *)
(* panics when it meets one.                                               *)
ReduceSwitch ==
  /\ Complete("switch")
  /\ Reduced(Front(open), inner.id, "panic", FALSE, FALSE)
  /\ UNCHANGED <<lexer_state, drift>>

ReduceCase ==
  /\ Complete("case")
  /\ open' = Front(open)
  /\ UNCHANGED <<lexer_state, compiled, finished, status, drift, confused, tokens>>

(* Seeded faults: the counter is decremented at the brace and here; it     *)
(* stays.                                                                  *)
LoopLeftTwice == [lexer_state EXCEPT !.iteration = @ - 2]

LoopLeftNot == lexer_state

LoopLeft == [lexer_state EXCEPT !.iteration = @ - 1]

ReduceWhile ==
  /\ Complete("while")
  /\ Reduced(Front(open), inner.id, inner.ends, WhileCompiles, TRUE)
  /\ lexer_state' = LoopLeft
  /\ UNCHANGED drift

(* A function is compiled at once, and a scope in braces cannot be.        *)
ReduceFunc ==
  /\ Complete("func")
  /\ Reduced(Front(open), inner.id, inner.ends, TRUE, TRUE)
  /\ lexer_state' = [lexer_state EXCEPT !.func = FALSE]
  /\ UNCHANGED drift

ReduceScope ==
  /\ Complete("scope")
  /\ Reduced(Front(open), inner.id, "panic", FALSE, FALSE)
  /\ UNCHANGED <<lexer_state, drift>>

Next ==
  \/ \E tok \in Tokens : Lex(tok)
  \/ \E kind \in Starts : Begin(kind)
  \/ BeginElif \/ BeginElse \/ BeginCase \/ CloseBrace \/ Newline \/ SyntaxError
  \/ ReduceExpr \/ ReduceReturn
  \/ ReduceIf \/ ReduceElif \/ ReduceSwitch \/ ReduceCase
  \/ ReduceWhile \/ ReduceFunc \/ ReduceScope

Spec == Init /\ [][Next]_vars

-----------------------------------------------------------------------------
(* Properties.                                                             *)

PartSet ==
  [kind : Starts \cup {"elif", "case"}, id : Nat,
   phase : {"body", "else", "closed", "chain", "first", "cases", "ready"},
   ends : {"run", "panic", "crash"}]

TypeOK ==
  /\ lexer_state \in [func : BOOLEAN, class : BOOLEAN, selection : Int, iteration : Nat]
  /\ ahead \in AllTokens \cup {"none"}
  /\ open \in Seq(PartSet)
  /\ compiled \in Seq(Nat) /\ finished \in Seq(Nat)
  /\ status \in {"run", "panic", "crash", "ended"}
  /\ begun \in Nat /\ drift \in Int

OpenParts(kind) == {i \in DOMAIN open : open[i].kind = kind}
Read(tok)       == IF ahead = tok THEN 1 ELSE 0

(* The counters of the lexer and the stack of the parser agree, whatever   *)
(* was read: is_inside_iteration_stat is the number of loops that are open *)
(* and is_inside_selection_stat that of if statements, off by what switch  *)
(* and elif have done to it so far.                                        *)
CountersMatch ==
  /\ lexer_state.iteration = Cardinality(OpenParts("while")) + Read("while")
  /\ lexer_state.selection = Cardinality(OpenParts("if")) + Read("if") + drift

(* Every statement of the root reaches the compiler when it is complete,   *)
(* once, in the order of the session, and no part of a statement does, as  *)
(* long as nothing confused the counters: at every depth of nesting the    *)
(* conditions on lexer_state tell the root from what is inside.            *)
RootInOrder == tidy /\ status = "run" => compiled = finished

(* Such a session ends by a panic of the compiler or a syntax error, never *)
(* by a null pointer where a statement is linked or compiled.              *)
TidyNeverCrashes == tidy => status # "crash"

(* Whatever was read, nothing runs twice or out of order: a part that is   *)
(* compiled on its own is never compiled again with the statement it       *)
(* belongs to, although that statement goes on.                            *)
NothingTwice == \A i, j \in DOMAIN compiled : i < j => compiled[i] < compiled[j]

(* Every statement that is complete has been compiled, also in a session   *)
(* with elif parts.                                                        *)
EveryStatementCompiled ==
  confused \subseteq {"elif"} /\ status = "run" /\ open = <<>> /\ ahead = "none" =>
    \A i \in DOMAIN finished : \E j \in DOMAIN compiled : compiled[j] = finished[i]
=============================================================================
