---------------------------- MODULE FrontendProof ----------------------------
(***************************************************************************)
(* Proofs about the lexer and the parser, for sessions of any length and   *)
(* statements nested to any depth: the counters of the lexer count what is *)
(* open on the parser's stack, so the statements of the root are compiled, *)
(* all of them and in order, and nothing else is.                          *)
(***************************************************************************)
EXTENDS Frontend, FiniteSetTheorems, TLAPS

(* The parts of a kind in a list, and their number.                        *)
PartsOf(list, kind) == {i \in DOMAIN list : list[i].kind = kind}

Count(list, kind) == Cardinality(PartsOf(list, kind))

(* The parts open in a session that nothing confused.                      *)
OpenShape(list) ==
  /\ \A i \in 1..Len(list) :
       /\ list[i].kind \in {"if", "while", "func", "scope"}
       /\ list[i].phase \in {"body", "else", "closed", "ready"}
       /\ list[i].phase \in {"else", "closed"} => list[i].kind = "if"
       /\ list[i].ends # "crash"
       /\ i < Len(list) => list[i].phase \in {"body", "else"}
       /\ i > 1 => list[i].kind # "func"
  /\ list # <<>> => list[1].kind # "scope"

(* The token ahead of such a session.                                      *)
AheadShape ==
  /\ ahead \notin {"elif", "switch", "case"}
  /\ open # <<>> /\ inner.phase = "ready" => ahead = "none"
  /\ ahead = "func" => open = <<>>
  /\ ahead \in Keywords \cup {"scope"} /\ Waiting => Len(open) > 1
  /\ ahead = "scope" => open # <<>>

(* While a function is read its flag is set, and at no other time.         *)
FuncFlag ==
  lexer_state.func <=> (ahead = "func" \/ (open # <<>> /\ open[1].kind = "func"))

(* What holds as long as nothing confused the counters.                    *)
TidyShape ==
  /\ drift = 0
  /\ OpenShape(open)
  /\ AheadShape
  /\ FuncFlag
  /\ status # "crash"
  /\ status = "run" => compiled = finished

(* The inductive invariant.                                                *)
FrontendInv == TypeOK /\ CountersMatch /\ (tidy => TidyShape)

-----------------------------------------------------------------------------
(* Lists of parts, and how many parts of a kind they have.                 *)

LEMMA MoreThanOne ==
  ASSUME NEW n \in Nat \ {0}, n # 1
  PROVE  n > 1
OBVIOUS

LEMMA PartFields ==
  ASSUME NEW part \in PartSet
  PROVE  /\ part.kind \in Starts \cup {"elif", "case"} /\ part.id \in Nat
         /\ part.phase \in {"body", "else", "closed", "chain", "first", "cases", "ready"}
         /\ part.ends \in {"run", "panic", "crash"}
BY DEF PartSet

LEMMA FrontOfParts ==
  ASSUME NEW list \in Seq(PartSet), list # <<>>
  PROVE  /\ Len(list) \in Nat \ {0}
         /\ Last(list) = list[Len(list)] /\ Last(list) \in PartSet
         /\ Front(list) \in Seq(PartSet) /\ Len(Front(list)) = Len(list) - 1
         /\ \A i \in 1..Len(list)-1 : Front(list)[i] = list[i]
<1>1. PICK n \in Nat \ {0} : n = Len(list) /\ list[n] \in PartSet
  OBVIOUS
<1>2. /\ Len(SubSeq(list, 1, n - 1)) = n - 1
      /\ \A i \in 1..n-1 : SubSeq(list, 1, n - 1)[i] = list[i]
      /\ SubSeq(list, 1, n - 1) \in Seq(PartSet)
  BY <1>1
<1> QED
  BY <1>1, <1>2 DEF Last, Front

LEMMA CountNat ==
  ASSUME NEW list \in Seq(PartSet), NEW kind
  PROVE  /\ IsFiniteSet(PartsOf(list, kind)) /\ Count(list, kind) \in Nat
         /\ list = <<>> => Count(list, kind) = 0
<1>1. IsFiniteSet(1..Len(list)) /\ PartsOf(list, kind) \in SUBSET (1..Len(list))
  BY FS_Interval DEF PartsOf
<1>2. IsFiniteSet(PartsOf(list, kind))
  BY <1>1, FS_Subset
<1>3. list = <<>> => PartsOf(list, kind) = {}
  BY DEF PartsOf
<1> QED
  BY <1>2, <1>3, FS_CardinalityType, FS_EmptySet DEF Count

LEMMA CountOne ==
  ASSUME NEW list \in Seq(PartSet), NEW kind, NEW i \in 1..Len(list), list[i].kind = kind
  PROVE  Count(list, kind) >= 1
<1>1. i \in PartsOf(list, kind)
  BY DEF PartsOf
<1>2. Count(list, kind) # 0
  BY <1>1, CountNat, FS_EmptySet DEF Count
<1> QED
  BY <1>2, CountNat

LEMMA CountTwo ==
  ASSUME NEW list \in Seq(PartSet), NEW kind, NEW i \in 1..Len(list), NEW j \in 1..Len(list),
         i # j, list[i].kind = kind, list[j].kind = kind
  PROVE  Count(list, kind) >= 2
<1> DEFINE parts == PartsOf(list, kind)
<1>1. i \in parts /\ j \in parts /\ IsFiniteSet(parts)
  BY CountNat DEF PartsOf
<1>2. IsFiniteSet(parts \ {i}) /\ Cardinality(parts \ {i}) = Cardinality(parts) - 1
  BY <1>1, FS_RemoveElement
<1>3. j \in parts \ {i}
  BY <1>1
<1> HIDE DEF parts
<1>4. Cardinality(parts \ {i}) # 0
  BY <1>2, <1>3, FS_EmptySet
<1>5. Cardinality(parts \ {i}) \in Nat
  BY <1>2, FS_CardinalityType
<1>6. Count(list, kind) = Cardinality(parts) /\ Count(list, kind) \in Nat
  BY CountNat DEF Count, parts
<1> QED
  BY <1>2, <1>4, <1>5, <1>6

LEMMA CountAppend ==
  ASSUME NEW list \in Seq(PartSet), NEW part \in PartSet, NEW kind
  PROVE  Count(Append(list, part), kind)
           = Count(list, kind) + (IF part.kind = kind THEN 1 ELSE 0)
<1> DEFINE parts == PartsOf(list, kind)
           n     == Len(list) + 1
<1>1. IsFiniteSet(parts)
  BY CountNat
<1>0. n \notin parts
  BY DEF PartsOf
<1>2. DOMAIN Append(list, part) = 1..n /\ Append(list, part)[n] = part
      /\ \A i \in 1..Len(list) : Append(list, part)[i] = list[i]
  OBVIOUS
<1>3. PartsOf(Append(list, part), kind) = IF part.kind = kind THEN parts \cup {n} ELSE parts
  BY <1>2 DEF PartsOf
<1>4. Cardinality(parts \cup {n}) = Cardinality(parts) + 1
  BY <1>0, <1>1, FS_AddElement
<1>5. Count(list, kind) = Cardinality(parts) /\ Count(list, kind) \in Nat
  BY CountNat DEF Count
<1>6. CASE part.kind = kind
  BY <1>3, <1>4, <1>5, <1>6 DEF Count
<1>7. CASE part.kind # kind
  BY <1>3, <1>5, <1>7 DEF Count
<1> QED
  BY <1>6, <1>7

LEMMA CountSame ==
  ASSUME NEW list \in Seq(PartSet), NEW other \in Seq(PartSet), NEW kind,
         Len(other) = Len(list), \A i \in 1..Len(list) : other[i].kind = list[i].kind
  PROVE  Count(other, kind) = Count(list, kind)
<1>1. PartsOf(other, kind) = PartsOf(list, kind)
  BY DEF PartsOf
<1> QED
  BY <1>1 DEF Count

LEMMA CountFront ==
  ASSUME NEW list \in Seq(PartSet), list # <<>>, NEW kind
  PROVE  Count(list, kind)
           = Count(Front(list), kind) + (IF Last(list).kind = kind THEN 1 ELSE 0)
<1>1. Front(list) \in Seq(PartSet) /\ Last(list) \in PartSet
  BY FrontOfParts
<1>2. Append(Front(list), Last(list)) \in Seq(PartSet)
  BY <1>1
<1>3. /\ Len(Append(Front(list), Last(list))) = Len(list)
      /\ \A i \in 1..Len(list) : Append(Front(list), Last(list))[i] = list[i]
  BY <1>1, FrontOfParts
<1>4. Count(Append(Front(list), Last(list)), kind) = Count(list, kind)
  BY <1>2, <1>3, CountSame
<1> QED
  BY <1>1, <1>4, CountAppend

(* A change of the innermost part, of its phase or of how it ends.         *)
LEMMA EndingParts ==
  ASSUME NEW list \in Seq(PartSet), list # <<>>, NEW ends \in {"run", "panic", "crash"}
  PROVE  /\ Ending(list, ends) \in Seq(PartSet) /\ Len(Ending(list, ends)) = Len(list)
         /\ Ending(list, ends) # <<>>
         /\ \A i \in 1..Len(list) :
              /\ Ending(list, ends)[i].kind = list[i].kind
              /\ Ending(list, ends)[i].phase = list[i].phase
              /\ Ending(list, ends)[i].ends \in {list[i].ends, ends}
<1>1. Len(list) \in 1..Len(list) /\ list[Len(list)] \in PartSet
  BY FrontOfParts
<1> DEFINE last == [list[Len(list)] EXCEPT !.ends = IF @ = "run" THEN ends ELSE @]
<1>2. last \in PartSet /\ last.kind = list[Len(list)].kind /\ last.phase = list[Len(list)].phase
      /\ last.ends \in {list[Len(list)].ends, ends}
  BY <1>1, PartFields DEF PartSet
<1>3. Ending(list, ends) = [list EXCEPT ![Len(list)] = last]
  BY DEF Ending
<1> HIDE DEF last
<1> QED
  BY <1>1, <1>2, <1>3

LEMMA PhaseParts ==
  ASSUME open \in Seq(PartSet), open # <<>>,
         NEW phase \in {"body", "else", "closed", "chain", "first", "cases", "ready"}
  PROVE  /\ Phase(phase) \in Seq(PartSet) /\ Len(Phase(phase)) = Len(open)
         /\ Phase(phase) # <<>>
         /\ \A i \in 1..Len(open) :
              /\ Phase(phase)[i].kind = open[i].kind
              /\ Phase(phase)[i].ends = open[i].ends
              /\ Phase(phase)[i].phase = IF i = Len(open) THEN phase ELSE open[i].phase
<1>1. Len(open) \in 1..Len(open) /\ open[Len(open)] \in PartSet
  BY FrontOfParts
<1> DEFINE last == [open[Len(open)] EXCEPT !.phase = phase]
<1>2. last \in PartSet /\ last.kind = open[Len(open)].kind /\ last.ends = open[Len(open)].ends
      /\ last.phase = phase
  BY <1>1, PartFields DEF PartSet
<1>3. Phase(phase) = [open EXCEPT ![Len(open)] = last]
  BY DEF Phase
<1> HIDE DEF last
<1> QED
  BY <1>1, <1>2, <1>3

-----------------------------------------------------------------------------
(* The counters.                                                           *)

(* CountersMatch, of any list, token, state of the lexer and drift.        *)
Counts(list, token, state, d) ==
  /\ state.iteration = Count(list, "while") + (IF token = "while" THEN 1 ELSE 0)
  /\ state.selection = Count(list, "if") + (IF token = "if" THEN 1 ELSE 0) + d

LEMMA CountersCounts ==
  /\ CountersMatch <=> Counts(open, ahead, lexer_state, drift)
  /\ CountersMatch' <=> Counts(open', ahead', lexer_state', drift')
BY DEF CountersMatch, Counts, Count, PartsOf, OpenParts, Read

Ends == {"run", "panic", "crash"}

LexerStates == [func : BOOLEAN, class : BOOLEAN, selection : Int, iteration : Nat]

(* What a reduction leaves: the lists around it.                           *)
LEMMA ReducedOuter ==
  ASSUME TypeOK, NEW outer \in Seq(PartSet), NEW id \in Nat, NEW ends \in Ends,
         NEW compiles \in BOOLEAN, NEW counted \in BOOLEAN,
         Reduced(outer, id, ends, compiles, counted)
  PROVE  /\ open' \in Seq(PartSet) /\ Len(open') = Len(outer)
         /\ \A i \in 1..Len(outer) :
              /\ open'[i].kind = outer[i].kind /\ open'[i].phase = outer[i].phase
              /\ open'[i].ends \in {outer[i].ends, ends}
         /\ compiled' \in Seq(Nat) /\ finished' \in Seq(Nat)
         /\ status' \in {"run", "panic", "crash"}
         /\ \A kind : Count(open', kind) = Count(outer, kind)
<1>1. compiled' \in Seq(Nat) /\ finished' \in Seq(Nat)
  BY DEF TypeOK, Reduced
<1>2. status' \in {"run", "panic", "crash"}
  BY DEF Reduced, Dereferenced, Ends
<1>3. /\ open' \in Seq(PartSet) /\ Len(open') = Len(outer)
      /\ \A i \in 1..Len(outer) :
           /\ open'[i].kind = outer[i].kind /\ open'[i].phase = outer[i].phase
           /\ open'[i].ends \in {outer[i].ends, ends}
  <2>1. CASE open' = outer
    BY <2>1
  <2>2. CASE outer # <<>> /\ open' = Ending(outer, ends)
    BY <2>2, EndingParts DEF Ends
  <2> QED
    BY <2>1, <2>2 DEF Reduced
<1>4. \A kind : Count(open', kind) = Count(outer, kind)
  BY <1>3, CountSame
<1> QED
  BY <1>1, <1>2, <1>3, <1>4

(* The innermost part, when there is one.                                  *)
LEMMA InnerPart ==
  ASSUME TypeOK, open # <<>>
  PROVE  /\ inner \in PartSet /\ inner = open[Len(open)] /\ Len(open) \in Nat \ {0}
         /\ inner.id \in Nat /\ inner.ends \in Ends
         /\ Front(open) \in Seq(PartSet) /\ Len(Front(open)) = Len(open) - 1
         /\ \A i \in 1..Len(open)-1 : Front(open)[i] = open[i]
         /\ \A kind : Count(open, kind)
                        = Count(Front(open), kind) + (IF inner.kind = kind THEN 1 ELSE 0)
         /\ \A kind : Count(Front(open), kind) \in Nat
<1>1. open \in Seq(PartSet)
  BY DEF TypeOK
<1> QED
  BY <1>1, FrontOfParts, CountFront, CountNat, PartFields DEF inner, Ends

(* The step of every action that reads or shifts a token.                  *)
LEMMA LexCounts ==
  ASSUME TypeOK, CountersMatch, NEW tok \in Tokens, Lex(tok)
  PROVE  TypeOK' /\ CountersMatch'
<1>1. tok \in AllTokens /\ tok # "none"
  BY TokensAssumption DEF AllTokens, Starts, Keywords
<1>2. lexer_state' \in LexerStates
  <2> DEFINE func  == IF tok = "func" THEN TRUE ELSE lexer_state.func
             class == IF tok = "class" THEN TRUE ELSE lexer_state.class
             sel   == IF tok \in {"if", "switch"} THEN lexer_state.selection + 1
                      ELSE lexer_state.selection
             iter  == IF tok = "while" THEN lexer_state.iteration + 1
                      ELSE lexer_state.iteration
  <2>1. lexer_state.func \in BOOLEAN /\ lexer_state.class \in BOOLEAN
        /\ lexer_state.selection \in Int /\ lexer_state.iteration \in Nat
    BY DEF TypeOK
  <2>2. func \in BOOLEAN /\ class \in BOOLEAN
    BY <2>1
  <2>3. sel \in Int /\ iter \in Nat
    BY <2>1
  <2>4. lexer_state' = [lexer_state EXCEPT !.func = func, !.class = class,
                                           !.selection = sel, !.iteration = iter]
    BY DEF Lex, HandleKeyword
  <2> HIDE DEF func, class, sel, iter
  <2> QED
    BY <2>2, <2>3, <2>4 DEF TypeOK, LexerStates
<1>3. drift' \in Int
  BY DEF Lex, TypeOK
<1>4. TypeOK'
  BY <1>1, <1>2, <1>3 DEF Lex, TypeOK, LexerStates
<1>5. Counts(open, "none", lexer_state, drift)
  BY CountersCounts DEF Lex
<1>6. /\ lexer_state'.iteration = lexer_state.iteration + (IF tok = "while" THEN 1 ELSE 0)
      /\ lexer_state'.selection
           = lexer_state.selection + (IF tok \in {"if", "switch"} THEN 1 ELSE 0)
      /\ drift' = drift + (IF tok = "switch" THEN 1 ELSE 0)
      /\ open' = open /\ ahead' = tok
  BY DEF Lex, TypeOK, HandleKeyword
<1>7. Count(open, "while") \in Nat /\ Count(open, "if") \in Nat /\ drift \in Int
  BY CountNat DEF TypeOK
<1>8. Counts(open', ahead', lexer_state', drift')
  BY <1>5, <1>6, <1>7 DEF Counts
<1> QED
  BY <1>4, <1>8, CountersCounts

LEMMA BeginCounts ==
  ASSUME TypeOK, CountersMatch, NEW kind \in Starts, Begin(kind)
  PROVE  TypeOK' /\ CountersMatch'
<1> DEFINE part == Part(kind, begun + 1, IF kind = "switch" THEN "first" ELSE "body")
<1>1. part \in PartSet /\ part.kind = kind
  BY DEF Begin, TypeOK, Part, PartSet
<1>2. open' = Append(open, part) /\ open' \in Seq(PartSet)
  BY <1>1 DEF Begin, TypeOK
<1>3. TypeOK'
  BY <1>2 DEF Begin, Shift, TypeOK
<1>4. \A k : Count(open', k) = Count(open, k) + (IF kind = k THEN 1 ELSE 0)
  BY <1>1, <1>2, CountAppend DEF TypeOK
<1>5. Counts(open, kind, lexer_state, drift) /\ ahead' = "none"
  BY CountersCounts DEF Begin, Shift
<1>6. Count(open, "while") \in Nat /\ Count(open, "if") \in Nat /\ drift \in Int
  BY CountNat DEF TypeOK
<1>7. Counts(open', ahead', lexer_state', drift')
  BY <1>4, <1>5, <1>6 DEF Counts, Begin
<1> QED
  BY <1>3, <1>7, CountersCounts

(* A part of an if or switch statement begins.                             *)
LEMMA BeginPartCounts ==
  ASSUME TypeOK, CountersMatch, BeginElif \/ BeginCase
  PROVE  TypeOK' /\ CountersMatch'
<1>1. open # <<>> /\ open \in Seq(PartSet)
  BY DEF BeginElif, BeginCase, Waiting, TypeOK
<1>2. PICK kind \in {"elif", "case"}, phase \in {"chain", "cases"} :
        /\ open' = Append(Phase(phase), Part(kind, begun + 1, "body"))
        /\ ahead = kind
  BY DEF BeginElif, BeginCase, Shift
<1>3. Part(kind, begun + 1, "body") \in PartSet
  BY <1>2 DEF TypeOK, Part, PartSet
<1>4. Phase(phase) \in Seq(PartSet)
      /\ \A k : Count(Phase(phase), k) = Count(open, k)
  BY <1>1, <1>2, PhaseParts, CountSame
<1>5. open' \in Seq(PartSet)
  BY <1>2, <1>3, <1>4
<1>6. TypeOK'
  BY <1>5 DEF BeginElif, BeginCase, Shift, TypeOK
<1>7. \A k \in {"if", "while"} : Count(open', k) = Count(open, k)
  <2> TAKE k \in {"if", "while"}
  <2>1. Part(kind, begun + 1, "body").kind # k
    BY <1>2 DEF Part
  <2>2. Count(open, k) \in Nat
    BY <1>1, CountNat
  <2> QED
    BY <1>2, <1>3, <1>4, <2>1, <2>2, CountAppend
<1>8. Counts(open, "none", lexer_state, drift)
  BY <1>2, CountersCounts DEF Counts
<1>9. Counts(open', ahead', lexer_state', drift')
  BY <1>7, <1>8 DEF Counts, BeginElif, BeginCase, Shift
<1> QED
  BY <1>6, <1>9, CountersCounts

LEMMA ShiftCounts ==
  ASSUME TypeOK, CountersMatch, BeginElse \/ CloseBrace \/ Newline \/ SyntaxError
  PROVE  TypeOK' /\ CountersMatch'
<1>1. open' \in Seq(PartSet) /\ \A k : Count(open', k) = Count(open, k)
  <2>1. CASE open' = open
    BY <2>1 DEF TypeOK
  <2>2. CASE \E phase \in {"else", "closed", "ready"} : open # <<>> /\ open' = Phase(phase)
    <3>1. PICK phase \in {"else", "closed", "ready"} : open # <<>> /\ open' = Phase(phase)
      BY <2>2
    <3>2. open \in Seq(PartSet)
      BY DEF TypeOK
    <3> QED
      BY <3>1, <3>2, PhaseParts, CountSame
  <2> QED
    BY <2>1, <2>2 DEF BeginElse, CloseBrace, Newline, SyntaxError, Waiting
<1>2. TypeOK'
  BY <1>1 DEF BeginElse, CloseBrace, Newline, SyntaxError, Shift, TypeOK
<1>3. Counts(open, "none", lexer_state, drift) /\ ahead' = "none"
  BY CountersCounts DEF Counts, BeginElse, CloseBrace, Newline, SyntaxError, Shift
<1>4. Counts(open', ahead', lexer_state', drift')
  BY <1>1, <1>3 DEF Counts, BeginElse, CloseBrace, Newline, SyntaxError
<1> QED
  BY <1>2, <1>4, CountersCounts

(* The step of every action that reduces a rule.                           *)
LEMMA CompilesTyped ==
  /\ ExprCompiles \in BOOLEAN /\ IfCompiles \in BOOLEAN /\ WhileCompiles \in BOOLEAN
  /\ FALSE \in BOOLEAN /\ TRUE \in BOOLEAN
BY DEF ExprCompiles, IfCompiles, WhileCompiles

(* Expressions and return statements have one token, and no part.          *)
LEMMA SimpleCounts ==
  ASSUME TypeOK, CountersMatch, ReduceExpr \/ ReduceReturn
  PROVE  TypeOK' /\ CountersMatch'
<1>1. open \in Seq(PartSet) /\ begun + 1 \in Nat /\ "run" \in Ends /\ "panic" \in Ends
  BY DEF TypeOK, Ends
<1>2. /\ open' \in Seq(PartSet)
      /\ compiled' \in Seq(Nat) /\ finished' \in Seq(Nat)
      /\ status' \in {"run", "panic", "crash"}
      /\ \A kind : Count(open', kind) = Count(open, kind)
  <2>1. CASE ReduceExpr
    BY <1>1, <2>1, CompilesTyped, ReducedOuter DEF ReduceExpr
  <2>2. CASE ReduceReturn
    BY <1>1, <2>2, CompilesTyped, ReducedOuter DEF ReduceReturn
  <2> QED
    BY <2>1, <2>2
<1>3. ahead \in {"expr", "return"} /\ ahead' = "none" /\ begun' = begun + 1
      /\ lexer_state' = lexer_state /\ drift' = drift
  BY DEF ReduceExpr, ReduceReturn, Shift
<1>4. TypeOK'
  BY <1>2, <1>3 DEF TypeOK
<1>5. Counts(open', ahead', lexer_state', drift')
  BY <1>2, <1>3, CountersCounts DEF Counts
<1> QED
  BY <1>4, <1>5, CountersCounts

(* The innermost part is complete, and goes.                               *)
LEMMA PartGoes ==
  ASSUME TypeOK, NEW kind, Complete(kind), NEW ends \in Ends,
         NEW compiles \in BOOLEAN, NEW counted \in BOOLEAN,
         Reduced(Front(open), inner.id, ends, compiles, counted)
  PROVE  /\ open' \in Seq(PartSet)
         /\ compiled' \in Seq(Nat) /\ finished' \in Seq(Nat)
         /\ status' \in {"run", "panic", "crash"}
         /\ \A k : Count(open', k) \in Nat
         /\ \A k : Count(open, k) = Count(open', k) + (IF kind = k THEN 1 ELSE 0)
         /\ ahead' = ahead /\ begun' = begun
<1>1. open # <<>> /\ inner.kind = kind /\ ahead' = ahead /\ begun' = begun
  BY DEF Complete
<1>2. Front(open) \in Seq(PartSet) /\ inner.id \in Nat
  BY <1>1, InnerPart
<1>3. /\ open' \in Seq(PartSet)
      /\ compiled' \in Seq(Nat) /\ finished' \in Seq(Nat)
      /\ status' \in {"run", "panic", "crash"}
      /\ \A k : Count(open', k) = Count(Front(open), k)
  BY <1>2, ReducedOuter
<1> QED
  BY <1>1, <1>3, InnerPart

LEMMA BlockCounts ==
  ASSUME TypeOK, CountersMatch, ReduceIf \/ ReduceWhile \/ ReduceFunc \/ ReduceScope \/ ReduceSwitch
  PROVE  TypeOK' /\ CountersMatch'
<1>1. lexer_state.func \in BOOLEAN /\ lexer_state \in LexerStates /\ drift \in Int
  BY DEF TypeOK, LexerStates
<1>2. "panic" \in Ends /\ (open # <<>> => inner.ends \in Ends)
  BY InnerPart DEF Ends
<1>3. PICK kind \in {"if", "while", "func", "scope", "switch"} :
        /\ open' \in Seq(PartSet)
        /\ compiled' \in Seq(Nat) /\ finished' \in Seq(Nat)
        /\ status' \in {"run", "panic", "crash"}
        /\ \A k : Count(open', k) \in Nat
        /\ \A k : Count(open, k) = Count(open', k) + (IF kind = k THEN 1 ELSE 0)
        /\ ahead' = ahead /\ begun' = begun /\ drift' = drift
        /\ lexer_state' = CASE kind = "if" -> Discounted
                            [] kind = "while" -> LoopLeft
                            [] kind = "func" -> [lexer_state EXCEPT !.func = FALSE]
                            [] OTHER -> lexer_state
  <2>1. CASE ReduceIf
    BY <1>2, <2>1, CompilesTyped, PartGoes DEF ReduceIf, Complete
  <2>2. CASE ReduceWhile
    BY <1>2, <2>2, CompilesTyped, PartGoes DEF ReduceWhile, Complete
  <2>3. CASE ReduceFunc
    BY <1>2, <2>3, CompilesTyped, PartGoes DEF ReduceFunc, Complete
  <2>4. CASE ReduceScope
    BY <1>2, <2>4, CompilesTyped, PartGoes DEF ReduceScope
  <2>5. CASE ReduceSwitch
    BY <1>2, <2>5, CompilesTyped, PartGoes DEF ReduceSwitch
  <2> QED
    BY <2>1, <2>2, <2>3, <2>4, <2>5
<1>4. Counts(open, ahead, lexer_state, drift)
  BY CountersCounts
<1>5. /\ lexer_state'.iteration
           = lexer_state.iteration - (IF kind = "while" THEN 1 ELSE 0)
      /\ lexer_state'.selection
           = lexer_state.selection - (IF kind = "if" THEN 1 ELSE 0)
  BY <1>1, <1>3 DEF LexerStates, Discounted, LoopLeft
<1>6. PICK loops \in Nat, ifs \in Nat :
        /\ loops = Count(open', "while") /\ ifs = Count(open', "if")
        /\ Count(open, "while") = loops + (IF kind = "while" THEN 1 ELSE 0)
        /\ Count(open, "if") = ifs + (IF kind = "if" THEN 1 ELSE 0)
  BY <1>3
<1>7. /\ lexer_state'.iteration = loops + (IF ahead = "while" THEN 1 ELSE 0)
      /\ lexer_state'.selection = ifs + (IF ahead = "if" THEN 1 ELSE 0) + drift
      /\ lexer_state'.iteration \in Nat
  BY <1>1, <1>4, <1>5, <1>6 DEF Counts
<1>10. Counts(open', ahead', lexer_state', drift')
  BY <1>3, <1>6, <1>7 DEF Counts
<1>8. lexer_state' \in LexerStates
  <2>1. CASE kind = "if"
    BY <1>1, <1>3, <2>1 DEF LexerStates, Discounted
  <2>2. CASE kind = "while"
    <3>1. lexer_state' = [lexer_state EXCEPT !.iteration = lexer_state.iteration - 1]
      BY <1>3, <2>2 DEF LoopLeft
    <3>2. lexer_state.iteration - 1 \in Nat
      BY <1>1, <1>5, <1>7, <2>2 DEF LexerStates
    <3> QED
      BY <1>1, <3>1, <3>2 DEF LexerStates
  <2>3. CASE kind = "func"
    BY <1>1, <1>3, <2>3 DEF LexerStates
  <2>4. CASE kind \in {"scope", "switch"}
    BY <1>1, <1>3, <2>4 DEF LexerStates
  <2> QED
    BY <2>1, <2>2, <2>3, <2>4
<1>9. TypeOK'
  BY <1>1, <1>3, <1>8 DEF TypeOK, LexerStates
<1> QED
  BY <1>9, <1>10, CountersCounts

(* An elif part is counted as an if statement when it is reduced, and not  *)
(* when it was read: drift has the difference.                             *)
LEMMA ElifCounts ==
  ASSUME TypeOK, CountersMatch, ReduceElif
  PROVE  TypeOK' /\ CountersMatch'
<1> DEFINE outer == [Front(open) EXCEPT ![Len(open) - 1].phase = "ready"]
<1>1. open # <<>> /\ inner.kind = "elif" /\ ahead' = ahead /\ begun' = begun
  BY DEF ReduceElif, Complete
<1>2. Front(open) \in Seq(PartSet) /\ Len(Front(open)) = Len(open) - 1
      /\ Len(open) \in Nat \ {0}
  BY <1>1, InnerPart
<1>3. ASSUME Len(open) = 1
      PROVE  open' \in Seq(PartSet) /\ \A k : Count(open', k) = Count(Front(open), k)
  <2>1. outer = <<>> /\ Ending(<<>>, "crash") = <<>> /\ Front(open) = <<>>
    BY <1>2, <1>3 DEF Ending
  <2>2. open' = <<>>
    BY <2>1 DEF ReduceElif
  <2> QED
    BY <2>1, <2>2
<1>4. ASSUME Len(open) > 1
      PROVE  open' \in Seq(PartSet) /\ \A k : Count(open', k) = Count(Front(open), k)
  <2>1. Len(open) - 1 \in 1..Len(open)-1 /\ Front(open)[Len(open) - 1] \in PartSet
    BY <1>2, <1>4
  <2>2. [Front(open)[Len(open) - 1] EXCEPT !.phase = "ready"] \in PartSet
        /\ [Front(open)[Len(open) - 1] EXCEPT !.phase = "ready"].kind
              = Front(open)[Len(open) - 1].kind
    BY <2>1 DEF PartSet
  <2>3. /\ outer \in Seq(PartSet) /\ Len(outer) = Len(Front(open)) /\ outer # <<>>
        /\ \A i \in 1..Len(Front(open)) : outer[i].kind = Front(open)[i].kind
    BY <1>2, <2>1, <2>2
  <2> HIDE DEF outer
  <2>4. open' \in {outer, Ending(outer, "crash")}
    BY DEF ReduceElif, outer
  <2>5. /\ open' \in Seq(PartSet)
        /\ \A k : Count(open', k) = Count(outer, k)
    BY <2>3, <2>4, EndingParts, CountSame
  <2> QED
    BY <1>2, <2>3, <2>5, CountSame
<1>7. open' \in Seq(PartSet) /\ \A k : Count(open', k) = Count(Front(open), k)
  BY <1>2, <1>3, <1>4
<1>8. \A k \in {"if", "while"} : Count(open', k) = Count(open, k)
  BY <1>1, <1>7, InnerPart
<1>9. /\ lexer_state \in LexerStates /\ drift \in Int
      /\ lexer_state' = Discounted /\ drift' = drift - 1
  BY DEF ReduceElif, TypeOK, LexerStates
<1>10. lexer_state' \in LexerStates /\ lexer_state'.iteration = lexer_state.iteration
       /\ lexer_state'.selection = lexer_state.selection - 1
  BY <1>9 DEF LexerStates, Discounted
<1>11. compiled' \in Seq(Nat) /\ finished' \in Seq(Nat)
       /\ status' \in {"run", "panic", "crash"}
  BY <1>1, InnerPart DEF ReduceElif, TypeOK, Ends
<1>12. TypeOK'
  BY <1>1, <1>7, <1>9, <1>10, <1>11 DEF TypeOK, LexerStates
<1>13. PICK loops \in Nat, ifs \in Nat : loops = Count(open, "while") /\ ifs = Count(open, "if")
  BY CountNat DEF TypeOK
<1>14. Counts(open, ahead, lexer_state, drift)
  BY CountersCounts
<1>15. Count(open', "while") = loops /\ Count(open', "if") = ifs
  BY <1>8, <1>13
<1>16. Counts(open', ahead', lexer_state', drift')
  BY <1>1, <1>9, <1>10, <1>13, <1>14, <1>15 DEF Counts
<1> QED
  BY <1>12, <1>16, CountersCounts

LEMMA CaseCounts ==
  ASSUME TypeOK, CountersMatch, ReduceCase
  PROVE  TypeOK' /\ CountersMatch'
<1>1. open # <<>> /\ inner.kind = "case" /\ ahead' = ahead /\ begun' = begun
      /\ lexer_state' = lexer_state /\ drift' = drift /\ open' = Front(open)
  BY DEF ReduceCase, Complete
<1>2. open' \in Seq(PartSet) /\ \A k \in {"if", "while"} : Count(open', k) = Count(open, k)
  BY <1>1, InnerPart
<1>3. TypeOK'
  BY <1>1, <1>2 DEF ReduceCase, TypeOK
<1>4. Counts(open', ahead', lexer_state', drift')
  BY <1>1, <1>2, CountersCounts DEF Counts
<1> QED
  BY <1>3, <1>4, CountersCounts

LEMMA CountersInit == Init => TypeOK /\ CountersMatch
<1> SUFFICES ASSUME Init PROVE TypeOK /\ CountersMatch
  OBVIOUS
<1>1. TypeOK
  BY DEF Init, TypeOK
<1>2. Count(open, "while") = 0 /\ Count(open, "if") = 0
  BY <1>1, CountNat DEF Init, TypeOK
<1>3. Counts(open, ahead, lexer_state, drift)
  BY <1>2 DEF Init, Counts
<1> QED
  BY <1>1, <1>3, CountersCounts

LEMMA CountersStep ==
  ASSUME TypeOK, CountersMatch, [Next]_vars
  PROVE  TypeOK' /\ CountersMatch'
<1>1. CASE \E tok \in Tokens : Lex(tok)
  BY <1>1, LexCounts
<1>2. CASE \E kind \in Starts : Begin(kind)
  BY <1>2, BeginCounts
<1>3. CASE BeginElif \/ BeginCase
  BY <1>3, BeginPartCounts
<1>4. CASE BeginElse \/ CloseBrace \/ Newline \/ SyntaxError
  BY <1>4, ShiftCounts
<1>5. CASE ReduceExpr \/ ReduceReturn
  BY <1>5, SimpleCounts
<1>6. CASE ReduceIf \/ ReduceWhile \/ ReduceFunc \/ ReduceScope \/ ReduceSwitch
  BY <1>6, BlockCounts
<1>7. CASE ReduceElif
  BY <1>7, ElifCounts
<1>8. CASE ReduceCase
  BY <1>8, CaseCounts
<1>9. CASE UNCHANGED vars
  <2>1. TypeOK'
    BY <1>9 DEF vars, TypeOK
  <2>2. Counts(open', ahead', lexer_state', drift')
    BY <1>9, CountersCounts DEF vars
  <2> QED
    BY <2>1, <2>2, CountersCounts
<1> QED
  BY <1>1, <1>2, <1>3, <1>4, <1>5, <1>6, <1>7, <1>8, <1>9 DEF Next

(* The parser's state is typed: the counter of loops is never negative.    *)
THEOREM FrontendTyped == Spec => []TypeOK
<1>1. Init => TypeOK /\ CountersMatch
  BY CountersInit
<1>2. TypeOK /\ CountersMatch /\ [Next]_vars => TypeOK' /\ CountersMatch'
  BY CountersStep
<1> QED
  BY <1>1, <1>2, PTL DEF Spec

(* However deep statements are nested, the counters of the lexer are the   *)
(* numbers of loops and if statements on the parser's stack, up to what    *)
(* switch and elif have done to them.                                      *)
THEOREM CountersAlwaysMatch == Spec => []CountersMatch
<1>1. Init => TypeOK /\ CountersMatch
  BY CountersInit
<1>2. TypeOK /\ CountersMatch /\ [Next]_vars => TypeOK' /\ CountersMatch'
  BY CountersStep
<1> QED
  BY <1>1, <1>2, PTL DEF Spec

-----------------------------------------------------------------------------
(* Sessions that nothing confused.                                         *)

LEMMA LexTidy ==
  ASSUME TypeOK, TidyShape, NEW tok \in Tokens, Lex(tok), confused' = {}
  PROVE  TidyShape'
<1>1. Confusing(tok) = {}
  BY DEF Lex
<1>2. /\ tok \notin {"elif", "switch"}
      /\ tok = "func" => open = <<>>
      /\ tok = "scope" => open # <<>>
      /\ tok \in Keywords \cup {"scope"} /\ Waiting => Len(open) # 1
  BY <1>1 DEF Confusing
<1>3. open # <<>> => /\ inner = open[Len(open)] /\ Len(open) \in 1..Len(open)
                     /\ inner.phase \in {"body", "else", "closed", "ready"}
  BY InnerPart DEF TidyShape, OpenShape
<1>4. tok \in Legal
  BY DEF Lex
<1>5. tok # "case" /\ (open # <<>> => inner.phase # "ready")
  BY <1>3, <1>4 DEF Legal, InList, Waiting, Starts, Keywords
<1>6. Waiting => Len(open) \in Nat \ {0}
  BY InnerPart DEF Waiting
<1>7. open' = open /\ ahead' = tok /\ status' = status /\ compiled' = compiled
      /\ finished' = finished /\ ahead = "none" /\ inner' = inner /\ (Waiting' <=> Waiting)
  BY DEF Lex, inner, Waiting
<1>8. lexer_state'.func = IF tok = "func" THEN TRUE ELSE lexer_state.func
  BY DEF Lex, HandleKeyword, TypeOK
<1>9. AheadShape'
  <2>1. ahead' \notin {"elif", "switch", "case"}
    BY <1>2, <1>5, <1>7
  <2>2. (open # <<>> /\ inner.phase = "ready" => ahead = "none")'
    BY <1>5, <1>7
  <2>3. (ahead = "func" => open = <<>>)' /\ (ahead = "scope" => open # <<>>)'
    BY <1>2, <1>7
  <2>4. ASSUME Waiting, tok \in Keywords \cup {"scope"}
        PROVE  Len(open) > 1
    <3>1. Len(open) # 1 /\ Len(open) \in Nat \ {0}
      BY <1>2, <1>6, <2>4
    <3> QED
      BY <3>1, MoreThanOne
  <2>5. (ahead \in Keywords \cup {"scope"} /\ Waiting => Len(open) > 1)'
    BY <1>7, <2>4
  <2> QED
    BY <2>1, <2>2, <2>3, <2>5 DEF AheadShape
<1>10. FuncFlag'
  BY <1>7, <1>8 DEF FuncFlag, TidyShape
<1> QED
  BY <1>2, <1>7, <1>9, <1>10 DEF Lex, TidyShape, OpenShape

LEMMA BeginTidy ==
  ASSUME TypeOK, TidyShape, NEW kind \in Starts, Begin(kind)
  PROVE  TidyShape'
<1> DEFINE part == Part(kind, begun + 1, IF kind = "switch" THEN "first" ELSE "body")
           n    == Len(open) + 1
<1>1. ahead = kind /\ ahead' = "none" /\ kind \in {"if", "while", "func", "switch", "scope"}
      /\ lexer_state' = lexer_state /\ drift' = drift /\ status' = status
      /\ compiled' = compiled /\ finished' = finished
  BY DEF Begin, Shift
<1>2. kind # "switch" /\ (kind = "func" => open = <<>>) /\ (kind = "scope" => open # <<>>)
  BY <1>1 DEF TidyShape, AheadShape
<1>3. part \in PartSet /\ part.kind = kind /\ part.phase = "body" /\ part.ends = "run"
  BY <1>2 DEF Part, PartSet, Begin, TypeOK
<1>4. open' = Append(open, part) /\ open \in Seq(PartSet)
  BY DEF Begin, TypeOK
<1>5. /\ Len(open') = n /\ n \in Nat \ {0} /\ Len(open) \in Nat /\ open' # <<>>
      /\ open'[n] = part /\ \A i \in 1..Len(open) : open'[i] = open[i]
  BY <1>3, <1>4
<1> HIDE DEF part
<1>6. open # <<>> => inner = open[Len(open)] /\ inner.phase \in {"body", "else"}
  BY InnerPart DEF Begin, InList
<1>7. OpenShape(open')
  <2>1. ASSUME NEW i \in 1..Len(open')
        PROVE  /\ open'[i].kind \in {"if", "while", "func", "scope"}
               /\ open'[i].phase \in {"body", "else", "closed", "ready"}
               /\ open'[i].phase \in {"else", "closed"} => open'[i].kind = "if"
               /\ open'[i].ends # "crash"
               /\ i < Len(open') => open'[i].phase \in {"body", "else"}
               /\ i > 1 => open'[i].kind # "func"
    <3>1. CASE i = n
      <4>1. open = <<>> => n = 1
        BY <1>4
      <4>2. i > 1 => kind # "func"
        BY <1>2, <3>1, <4>1
      <4> QED
        BY <1>1, <1>2, <1>3, <1>5, <3>1, <4>2
    <3>2. CASE i \in 1..Len(open)
      <4>1. open # <<>> /\ open'[i] = open[i] /\ (i = Len(open) \/ i < Len(open))
        BY <1>4, <1>5, <3>2
      <4> QED
        BY <1>5, <1>6, <3>2, <4>1 DEF TidyShape, OpenShape
    <3> QED
      BY <1>5, <3>1, <3>2
  <2>2. open'[1].kind # "scope"
    <3>1. CASE open = <<>>
      BY <1>2, <1>3, <1>4, <1>5, <3>1
    <3>2. CASE open # <<>>
      BY <1>4, <1>5, <3>2 DEF TidyShape, OpenShape
    <3> QED
      BY <3>1, <3>2
  <2> QED
    BY <2>1, <2>2 DEF OpenShape
<1>8. AheadShape'
  BY <1>1 DEF AheadShape, Keywords
<1>9. FuncFlag'
  <2>1. CASE open = <<>>
    BY <1>1, <1>3, <1>4, <1>5, <2>1 DEF FuncFlag, TidyShape
  <2>2. CASE open # <<>>
    <3>1. open'[1] = open[1] /\ open' # <<>> /\ kind # "func"
      BY <1>2, <1>4, <1>5, <2>2
    <3> QED
      BY <1>1, <2>2, <3>1 DEF FuncFlag, TidyShape
  <2> QED
    BY <2>1, <2>2
<1> QED
  BY <1>1, <1>7, <1>8, <1>9 DEF TidyShape, OpenShape

(* The lists that change in no kind, and in the phase or the end of their  *)
(* innermost part only, keep their shape.                                  *)
LEMMA SameShape ==
  ASSUME NEW list \in Seq(PartSet), NEW other \in Seq(PartSet), OpenShape(list),
         list # <<>>, Len(other) = Len(list),
         \A i \in 1..Len(list) : /\ other[i].kind = list[i].kind /\ other[i].ends # "crash"
                                 /\ i < Len(list) => other[i].phase = list[i].phase,
         other[Len(list)].phase \in {"body", "else", "closed", "ready"},
         other[Len(list)].phase \in {"else", "closed"} => list[Len(list)].kind = "if"
  PROVE  OpenShape(other) /\ other # <<>> /\ other[1].kind = list[1].kind
<1>1. Len(list) \in Nat \ {0} /\ 1 \in 1..Len(list) /\ other # <<>>
  BY FrontOfParts
<1>2. ASSUME NEW i \in 1..Len(other)
      PROVE  /\ other[i].kind \in {"if", "while", "func", "scope"}
             /\ other[i].phase \in {"body", "else", "closed", "ready"}
             /\ other[i].phase \in {"else", "closed"} => other[i].kind = "if"
             /\ other[i].ends # "crash"
             /\ i < Len(other) => other[i].phase \in {"body", "else"}
             /\ i > 1 => other[i].kind # "func"
  <2>1. CASE i = Len(list)
    BY <1>1, <2>1 DEF OpenShape
  <2>2. CASE i < Len(list)
    BY <1>1, <2>2 DEF OpenShape
  <2> QED
    BY <1>1, <2>1, <2>2
<1> QED
  BY <1>1, <1>2 DEF OpenShape

LEMMA ShiftTidy ==
  ASSUME TypeOK, TidyShape, BeginElse \/ CloseBrace \/ Newline \/ SyntaxError
  PROVE  TidyShape'
<1>1. ahead \in {"else", "close", "newline", "class"} /\ ahead' = "none"
      /\ lexer_state' = lexer_state /\ drift' = drift /\ status' \in {status, "ended"}
      /\ compiled' = compiled /\ finished' = finished
  BY DEF BeginElse, CloseBrace, Newline, SyntaxError, Shift
<1>2. OpenShape(open') /\ (open' # <<>> <=> open # <<>>)
      /\ (open # <<>> => open'[1].kind = open[1].kind)
  <2>1. CASE Newline \/ SyntaxError
    BY <2>1 DEF Newline, SyntaxError, TidyShape
  <2>2. ASSUME BeginElse \/ CloseBrace
        PROVE  open # <<>> /\ OpenShape(open') /\ open' # <<>> /\ open'[1].kind = open[1].kind
    <3>1. open # <<>> /\ open \in Seq(PartSet) /\ OpenShape(open)
          /\ inner = open[Len(open)] /\ Len(open) \in Nat \ {0}
      BY <2>2, InnerPart DEF BeginElse, CloseBrace, Waiting, TypeOK, TidyShape
    <3>2. PICK phase \in {"else", "closed", "ready"} :
            /\ open' = Phase(phase)
            /\ phase \in {"else", "closed"} => inner.kind = "if"
      <4>1. CASE BeginElse
        <5>1. inner.phase = "closed"
          BY <4>1 DEF BeginElse, Waiting
        <5>2. inner.kind = "if"
          BY <3>1, <5>1 DEF OpenShape
        <5> QED
          BY <4>1, <5>2 DEF BeginElse
      <4>2. CASE CloseBrace
        <5>1. inner.kind # "elif"
          BY <3>1 DEF OpenShape
        <5> QED
          BY <4>2, <5>1 DEF CloseBrace
      <4> QED
        BY <2>2, <4>1, <4>2
    <3>3. /\ open' \in Seq(PartSet) /\ Len(open') = Len(open)
          /\ \A i \in 1..Len(open) :
               /\ open'[i].kind = open[i].kind
               /\ open'[i].ends = open[i].ends
               /\ open'[i].phase = IF i = Len(open) THEN phase ELSE open[i].phase
      BY <3>1, <3>2, PhaseParts
    <3>4. \A i \in 1..Len(open) : open[i].ends # "crash"
      BY <3>1 DEF OpenShape
    <3>5. Len(open) \in 1..Len(open) /\ open'[Len(open)].phase = phase
      BY <3>1, <3>3
    <3>6. \A i \in 1..Len(open) : i < Len(open) => open'[i].phase = open[i].phase
      BY <3>1, <3>3
    <3> QED
      BY <3>1, <3>2, <3>3, <3>4, <3>5, <3>6, SameShape
  <2> QED
    BY <2>1, <2>2
<1>3. AheadShape'
  BY <1>1 DEF AheadShape, Keywords
<1>4. FuncFlag'
  BY <1>1, <1>2 DEF FuncFlag, TidyShape
<1>5. status' # "crash" /\ (status' = "run" => status = "run")
  BY <1>1 DEF TidyShape
<1> QED
  BY <1>1, <1>2, <1>3, <1>4, <1>5 DEF TidyShape

(* The outermost statement is counted, or has set its flag.                *)
LEMMA OutermostCounted ==
  ASSUME TypeOK, CountersMatch, TidyShape, open # <<>>
  PROVE  /\ lexer_state.selection \in Int /\ lexer_state.iteration \in Nat
         /\ 1 \in 1..Len(open) /\ Len(open) \in 1..Len(open)
         /\ open[1].kind = "func" => lexer_state.func
         /\ open[1].kind = "if" => lexer_state.selection >= 1
         /\ open[1].kind = "while" => lexer_state.iteration >= 1
         /\ open[1].kind \in {"if", "while", "func"}
<1>1. open \in Seq(PartSet) /\ Len(open) \in Nat \ {0} /\ lexer_state \in LexerStates
  BY InnerPart DEF TypeOK, LexerStates
<1>2. 1 \in 1..Len(open) /\ Len(open) \in 1..Len(open)
  BY <1>1
<1>3. open[1].kind \in {"if", "while", "func"}
  BY <1>2 DEF TidyShape, OpenShape
<1>4. PICK loops \in Nat, ifs \in Nat :
        /\ loops = Count(open, "while") /\ ifs = Count(open, "if")
        /\ open[1].kind = "while" => loops >= 1
        /\ open[1].kind = "if" => ifs >= 1
  BY <1>1, <1>2, CountNat, CountOne
<1>5. /\ lexer_state.iteration = loops + (IF ahead = "while" THEN 1 ELSE 0)
      /\ lexer_state.selection = ifs + (IF ahead = "if" THEN 1 ELSE 0) + 0
  BY <1>4, CountersCounts DEF Counts, TidyShape
<1>6. open[1].kind = "func" => lexer_state.func
  BY DEF TidyShape, FuncFlag
<1> QED
  BY <1>1, <1>2, <1>3, <1>4, <1>5, <1>6 DEF LexerStates

(* A statement of the root is compiled on its own, and no part of one is.  *)
LEMMA ExprAtRoot ==
  ASSUME TypeOK, CountersMatch, TidyShape, ahead = "expr"
  PROVE  ExprCompiles <=> open = <<>>
<1>1. CASE open = <<>>
  <2>1. Count(open, "while") = 0 /\ Count(open, "if") = 0
    BY <1>1, CountNat DEF TypeOK
  <2>2. lexer_state.selection = 0 /\ lexer_state.iteration = 0
    BY <2>1, CountersCounts DEF Counts, TidyShape
  <2>3. ~lexer_state.func
    BY <1>1 DEF TidyShape, FuncFlag
  <2> QED
    BY <1>1, <2>2, <2>3 DEF ExprCompiles
<1>2. CASE open # <<>>
  BY <1>2, OutermostCounted DEF ExprCompiles
<1> QED
  BY <1>1, <1>2

(* At the end of an if or while statement two of its kind are counted if   *)
(* it is in one, and else only itself.                                     *)
LEMMA OwnCount ==
  ASSUME TypeOK, CountersMatch, TidyShape, NEW kind \in {"if", "while"}, Complete(kind)
  PROVE  /\ open[1].kind = kind /\ Len(open) > 1 => Count(open, kind) >= 2
         /\ Len(open) = 1 => \A k : Count(open, k) = IF k = kind THEN 1 ELSE 0
         /\ Len(open) = 1 => ahead \notin Keywords
<1>1. open # <<>> /\ inner.kind = kind
      /\ (inner.phase = "ready" \/ inner.phase = "closed")
  BY DEF Complete
<1>2. open \in Seq(PartSet) /\ inner = open[Len(open)] /\ Len(open) \in Nat \ {0}
      /\ Front(open) \in Seq(PartSet) /\ Len(Front(open)) = Len(open) - 1
  BY <1>1, InnerPart DEF TypeOK
<1>3. open[1].kind = kind /\ Len(open) > 1 => Count(open, kind) >= 2
  BY <1>1, <1>2, CountTwo
<1>4. ASSUME Len(open) = 1, NEW k
      PROVE  Count(open, k) = IF k = kind THEN 1 ELSE 0
  <2>1. Front(open) = <<>>
    BY <1>2, <1>4
  <2>2. Count(Front(open), k) = 0
    BY <1>2, <2>1, CountNat
  <2>3. Count(open, k) = Count(Front(open), k) + (IF inner.kind = k THEN 1 ELSE 0)
    BY <1>1, InnerPart
  <2> QED
    BY <1>1, <2>2, <2>3
<1>5. Len(open) = 1 => ahead \notin Keywords
  BY <1>1 DEF TidyShape, AheadShape, Waiting, Keywords
<1> QED
  BY <1>3, <1>4, <1>5

LEMMA IfAtRoot ==
  ASSUME TypeOK, CountersMatch, TidyShape, Complete("if")
  PROVE  IfCompiles <=> Len(open) = 1
<1>1. open # <<>> /\ inner.kind = "if" /\ Len(open) \in Nat \ {0} /\ inner = open[Len(open)]
  BY InnerPart DEF Complete
<1>2. CASE Len(open) = 1
  <2>1. lexer_state.selection = 1 /\ lexer_state.iteration = 0
    BY <1>2, OwnCount, CountersCounts DEF Counts, TidyShape, Keywords
  <2>2. ~lexer_state.func
    BY <1>1, <1>2, OwnCount DEF TidyShape, FuncFlag, Keywords
  <2> QED
    BY <1>2, <2>1, <2>2 DEF IfCompiles
<1>3. CASE Len(open) # 1
  <2>1. Len(open) > 1
    BY <1>1, <1>3, MoreThanOne
  <2>2. PICK ifs \in Nat : ifs = Count(open, "if")
    BY CountNat DEF TypeOK
  <2>3. open[1].kind = "if" => ifs >= 2
    BY <2>1, <2>2, OwnCount
  <2>4. lexer_state.selection = ifs + (IF ahead = "if" THEN 1 ELSE 0) + 0
    BY <2>2, CountersCounts DEF Counts, TidyShape
  <2>5. open[1].kind = "if" => lexer_state.selection - 1 # 0
    BY <2>3, <2>4
  <2> QED
    BY <1>1, <1>3, <2>5, OutermostCounted DEF IfCompiles
<1> QED
  BY <1>2, <1>3

LEMMA WhileAtRoot ==
  ASSUME TypeOK, CountersMatch, TidyShape, Complete("while")
  PROVE  WhileCompiles <=> Len(open) = 1
<1>1. open # <<>> /\ inner.kind = "while" /\ Len(open) \in Nat \ {0} /\ inner = open[Len(open)]
  BY InnerPart DEF Complete
<1>2. CASE Len(open) = 1
  <2>1. lexer_state.selection = 0 /\ lexer_state.iteration = 1
    BY <1>2, OwnCount, CountersCounts DEF Counts, TidyShape, Keywords
  <2>2. ~lexer_state.func
    BY <1>1, <1>2, OwnCount DEF TidyShape, FuncFlag, Keywords
  <2> QED
    BY <1>2, <2>1, <2>2 DEF WhileCompiles
<1>3. CASE Len(open) # 1
  <2>1. Len(open) > 1
    BY <1>1, <1>3, MoreThanOne
  <2>2. PICK loops \in Nat : loops = Count(open, "while")
    BY CountNat DEF TypeOK
  <2>3. open[1].kind = "while" => loops >= 2
    BY <2>1, <2>2, OwnCount
  <2>4. lexer_state.iteration = loops + (IF ahead = "while" THEN 1 ELSE 0)
    BY <2>2, CountersCounts DEF Counts
  <2>5. open[1].kind = "while" => lexer_state.iteration - 1 # 0
    BY <2>3, <2>4
  <2> QED
    BY <1>1, <1>3, <2>5, OutermostCounted DEF WhileCompiles
<1> QED
  BY <1>2, <1>3

(* A reduction that compiles what stands at the root, and nothing else.    *)
LEMMA ReducedTidy ==
  ASSUME TypeOK, TidyShape, status = "run",
         NEW outer \in Seq(PartSet), OpenShape(outer),
         outer # <<>> => outer[Len(outer)].phase \in {"body", "else"},
         NEW id \in Nat, NEW ends \in {"run", "panic"},
         NEW compiles \in BOOLEAN, NEW counted \in BOOLEAN,
         outer # <<>> => ~compiles,
         outer = <<>> => (compiles <=> counted),
         Reduced(outer, id, ends, compiles, counted)
  PROVE  /\ OpenShape(open') /\ (open' # <<>> <=> outer # <<>>)
         /\ outer # <<>> => /\ open'[1].kind = outer[1].kind
                            /\ open' # <<>> /\ open'[Len(open')].phase \in {"body", "else"}
         /\ status' # "crash"
         /\ status' = "run" => compiled' = finished'
<1>1. compiled = finished
  BY DEF TidyShape
<1>2. CASE outer = <<>>
  <2>1. open' = <<>>
    BY <1>2 DEF Reduced
  <2>2. CASE compiles
    BY <1>1, <1>2, <2>1, <2>2 DEF Reduced, Dereferenced
  <2>3. CASE ~compiles
    BY <1>1, <1>2, <2>1, <2>3 DEF Reduced, Dereferenced
  <2> QED
    BY <2>2, <2>3
<1>3. CASE outer # <<>>
  <2>1. /\ open' = Ending(outer, ends) /\ compiled' = compiled /\ finished' = finished
        /\ status' = "run"
    BY <1>3 DEF Reduced, Dereferenced
  <2>2. Len(outer) \in 1..Len(outer)
    BY <1>3, FrontOfParts
  <2>3. /\ open' \in Seq(PartSet) /\ Len(open') = Len(outer) /\ open' # <<>>
        /\ \A i \in 1..Len(outer) :
             /\ open'[i].kind = outer[i].kind /\ open'[i].phase = outer[i].phase
             /\ open'[i].ends \in {outer[i].ends, ends}
    BY <1>3, <2>1, EndingParts
  <2>4. \A i \in 1..Len(outer) : open'[i].ends # "crash"
    BY <2>3 DEF OpenShape
  <2>5. open'[Len(outer)].phase \in {"body", "else"}
        /\ (open'[Len(outer)].phase \in {"else", "closed"} => outer[Len(outer)].kind = "if")
    BY <1>3, <2>2, <2>3 DEF OpenShape
  <2>6. OpenShape(open') /\ open'[1].kind = outer[1].kind
    BY <1>3, <2>3, <2>4, <2>5, SameShape
  <2> QED
    BY <1>1, <1>3, <2>1, <2>3, <2>5, <2>6
<1> QED
  BY <1>2, <1>3

LEMMA SimpleTidy ==
  ASSUME TypeOK, CountersMatch, TidyShape, ReduceExpr \/ ReduceReturn
  PROVE  TidyShape'
<1>1. /\ status = "run" /\ ahead \in {"expr", "return"} /\ ahead' = "none"
      /\ lexer_state' = lexer_state /\ drift' = drift /\ InList
  BY DEF ReduceExpr, ReduceReturn, Shift
<1>0. open \in Seq(PartSet) /\ begun + 1 \in Nat /\ OpenShape(open)
  BY DEF TypeOK, TidyShape
<1>2. open # <<>> => open[Len(open)].phase \in {"body", "else"}
  BY <1>1, InnerPart DEF InList
<1>3. /\ OpenShape(open') /\ (open' # <<>> <=> open # <<>>)
      /\ open # <<>> => open'[1].kind = open[1].kind
      /\ status' # "crash"
      /\ status' = "run" => compiled' = finished'
  <2>1. CASE ReduceExpr
    <3>1. ExprCompiles <=> open = <<>>
      BY <2>1, ExprAtRoot DEF ReduceExpr, Shift
    <3>2. Reduced(open, begun + 1, "run", ExprCompiles, TRUE)
      BY <2>1 DEF ReduceExpr
    <3> QED
      BY <1>0, <1>1, <1>2, <3>1, <3>2, CompilesTyped, ReducedTidy
  <2>2. CASE ReduceReturn
    <3>1. Reduced(open, begun + 1, "panic", FALSE, FALSE)
      BY <2>2 DEF ReduceReturn
    <3> QED
      BY <1>0, <1>1, <1>2, <3>1, CompilesTyped, ReducedTidy
  <2> QED
    BY <2>1, <2>2
<1>4. AheadShape'
  BY <1>1 DEF AheadShape, Keywords
<1>5. FuncFlag'
  BY <1>1, <1>3 DEF FuncFlag, TidyShape
<1> QED
  BY <1>1, <1>3, <1>4, <1>5 DEF TidyShape

(* The lists around the innermost part have their shape too.               *)
LEMMA FrontShape ==
  ASSUME TypeOK, TidyShape, open # <<>>
  PROVE  /\ Front(open) \in Seq(PartSet) /\ OpenShape(Front(open))
         /\ Len(open) \in Nat \ {0} /\ (Front(open) # <<>> <=> Len(open) > 1)
         /\ Front(open) # <<>> => /\ Front(open)[Len(Front(open))].phase \in {"body", "else"}
                                  /\ Front(open)[1] = open[1]
         /\ inner.ends \in {"run", "panic"} /\ inner.id \in Nat
<1>1. /\ inner \in PartSet /\ inner = open[Len(open)] /\ Len(open) \in Nat \ {0}
      /\ Front(open) \in Seq(PartSet) /\ Len(Front(open)) = Len(open) - 1
      /\ \A i \in 1..Len(open)-1 : Front(open)[i] = open[i]
  BY InnerPart
<1>2. Front(open) # <<>> <=> Len(open) > 1
  BY <1>1
<1>3. ASSUME NEW i \in 1..Len(Front(open))
      PROVE  /\ Front(open)[i] = open[i] /\ i \in 1..Len(open) /\ i < Len(open)
  BY <1>1
<1>4. OpenShape(open)
  BY DEF TidyShape
<1>5. \A i \in 1..Len(Front(open)) :
        /\ Front(open)[i].kind \in {"if", "while", "func", "scope"}
        /\ Front(open)[i].phase \in {"body", "else"}
        /\ Front(open)[i].phase \in {"else", "closed"} => Front(open)[i].kind = "if"
        /\ Front(open)[i].ends # "crash"
        /\ i > 1 => Front(open)[i].kind # "func"
  BY <1>3, <1>4 DEF OpenShape
<1>6. Front(open) # <<>> => /\ 1 \in 1..Len(Front(open))
                            /\ Len(Front(open)) \in 1..Len(Front(open))
  BY <1>1
<1>7. OpenShape(Front(open))
  BY <1>3, <1>4, <1>5, <1>6 DEF OpenShape
<1>8. inner.ends \in {"run", "panic"} /\ inner.id \in Nat
  BY <1>1, <1>4, PartFields DEF OpenShape
<1> QED
  BY <1>1, <1>2, <1>3, <1>5, <1>6, <1>7, <1>8

(* The innermost statement is complete: it is compiled if it stands at the *)
(* root, and its flag is taken back if it is a function.                   *)
LEMMA BlockTidy ==
  ASSUME TypeOK, CountersMatch, TidyShape,
         ReduceIf \/ ReduceWhile \/ ReduceFunc \/ ReduceScope
  PROVE  TidyShape'
<1>1. /\ status = "run" /\ open # <<>> /\ ahead' = ahead /\ drift' = drift
      /\ inner.phase = "ready" \/ inner.phase = "closed"
  BY DEF ReduceIf, ReduceWhile, ReduceFunc, ReduceScope, Complete
<1>2. /\ Front(open) \in Seq(PartSet) /\ OpenShape(Front(open))
      /\ Len(open) \in Nat \ {0} /\ (Front(open) # <<>> <=> Len(open) > 1)
      /\ Front(open) # <<>> => /\ Front(open)[Len(Front(open))].phase \in {"body", "else"}
                               /\ Front(open)[1] = open[1]
      /\ inner.ends \in {"run", "panic"} /\ inner.id \in Nat
  BY <1>1, FrontShape
<1>3. Front(open) = <<>> <=> Len(open) = 1
  <2>1. CASE Len(open) = 1
    <3>1. ~(Len(open) > 1)
      BY <2>1
    <3> QED
      BY <1>2, <2>1, <3>1
  <2>2. CASE Len(open) # 1
    <3>1. Len(open) > 1
      BY <1>2, <2>2, MoreThanOne
    <3> QED
      BY <1>2, <2>2, <3>1
  <2> QED
    BY <2>1, <2>2
<1>4. inner = open[Len(open)] /\ Len(open) \in 1..Len(open) /\ 1 \in 1..Len(open)
  BY <1>1, <1>2 DEF inner, Last
<1>5. /\ OpenShape(open') /\ (open' # <<>> <=> Front(open) # <<>>)
      /\ Front(open) # <<>> => /\ open'[1].kind = Front(open)[1].kind
                               /\ open' # <<>> /\ open'[Len(open')].phase \in {"body", "else"}
      /\ status' # "crash"
      /\ status' = "run" => compiled' = finished'
  <2>1. CASE ReduceIf
    <3>1. Complete("if") /\ Reduced(Front(open), inner.id, inner.ends, IfCompiles, TRUE)
      BY <2>1 DEF ReduceIf
    <3>2. IfCompiles <=> Front(open) = <<>>
      BY <1>3, <3>1, IfAtRoot
    <3> QED
      BY <1>1, <1>2, <3>1, <3>2, CompilesTyped, ReducedTidy
  <2>2. CASE ReduceWhile
    <3>1. Complete("while") /\ Reduced(Front(open), inner.id, inner.ends, WhileCompiles, TRUE)
      BY <2>2 DEF ReduceWhile
    <3>2. WhileCompiles <=> Front(open) = <<>>
      BY <1>3, <3>1, WhileAtRoot
    <3> QED
      BY <1>1, <1>2, <3>1, <3>2, CompilesTyped, ReducedTidy
  <2>3. CASE ReduceFunc
    <3>1. Complete("func") /\ Reduced(Front(open), inner.id, inner.ends, TRUE, TRUE)
      BY <2>3 DEF ReduceFunc
    <3>2. ~(Len(open) > 1)
      BY <1>4, <3>1 DEF Complete, TidyShape, OpenShape
    <3>3. Front(open) = <<>>
      BY <1>2, <3>2
    <3> QED
      BY <1>1, <1>2, <3>1, <3>3, CompilesTyped, ReducedTidy
  <2>4. CASE ReduceScope
    <3>1. Complete("scope") /\ Reduced(Front(open), inner.id, "panic", FALSE, FALSE)
      BY <2>4 DEF ReduceScope
    <3> QED
      BY <1>1, <1>2, <3>1, CompilesTyped, ReducedTidy
  <2> QED
    BY <2>1, <2>2, <2>3, <2>4
<1>6. ahead # "func" /\ (ahead = "scope" => Len(open) > 1)
  BY <1>1 DEF TidyShape, AheadShape, Waiting
<1>7. open' # <<>> => inner' = open'[Len(open')] /\ inner'.phase \in {"body", "else"}
  BY <1>5 DEF inner, Last
<1>8. AheadShape'
  <2>1. ahead' \notin {"elif", "switch", "case"} /\ ahead' # "func"
    BY <1>1, <1>6 DEF TidyShape, AheadShape
  <2>2. ~Waiting' /\ (open' # <<>> => inner'.phase # "ready")
    BY <1>7 DEF Waiting
  <2>3. ahead' = "scope" => open' # <<>>
    BY <1>1, <1>2, <1>5, <1>6
  <2> QED
    BY <2>1, <2>2, <2>3 DEF AheadShape
<1>9. FuncFlag'
  <2>1. CASE ReduceFunc
    <3>1. ~(Len(open) > 1)
      BY <1>4, <2>1 DEF ReduceFunc, Complete, TidyShape, OpenShape
    <3>2. open' = <<>>
      BY <1>2, <1>5, <3>1
    <3>3. lexer_state'.func = FALSE
      BY <2>1 DEF ReduceFunc, TypeOK
    <3> QED
      BY <1>1, <1>6, <3>2, <3>3 DEF FuncFlag
  <2>2. CASE ReduceIf \/ ReduceWhile \/ ReduceScope
    <3>1. lexer_state'.func = lexer_state.func
      BY <2>2 DEF ReduceIf, ReduceWhile, ReduceScope, Discounted, LoopLeft, TypeOK
    <3>2. lexer_state.func <=> open[1].kind = "func"
      BY <1>1, <1>6 DEF TidyShape, FuncFlag
    <3>3. CASE Len(open) = 1
      <4>1. open[1].kind # "func"
        BY <1>4, <2>2, <3>3 DEF ReduceIf, ReduceWhile, ReduceScope, Complete
      <4>2. open' = <<>>
        BY <1>3, <1>5, <3>3
      <4> QED
        BY <1>1, <1>6, <3>1, <3>2, <4>1, <4>2 DEF FuncFlag
    <3>4. CASE Len(open) # 1
      <4>1. open' # <<>> /\ open'[1].kind = open[1].kind
        BY <1>2, <1>3, <1>5, <3>4
      <4> QED
        BY <1>1, <1>6, <3>1, <3>2, <4>1 DEF FuncFlag
    <3> QED
      BY <3>3, <3>4
  <2> QED
    BY <2>1, <2>2
<1> QED
  BY <1>1, <1>5, <1>8, <1>9 DEF TidyShape

(* The parts of switch statements and elif are not met in such a session.  *)
LEMMA NoOtherParts ==
  ASSUME TypeOK, TidyShape
  PROVE  ~(BeginElif \/ BeginCase \/ ReduceElif \/ ReduceSwitch \/ ReduceCase)
<1>1. ~(BeginElif \/ BeginCase)
  BY DEF BeginElif, BeginCase, Shift, TidyShape, AheadShape
<1>2. open # <<>> => inner.kind \in {"if", "while", "func", "scope"}
  BY InnerPart DEF TidyShape, OpenShape
<1> QED
  BY <1>1, <1>2 DEF ReduceElif, ReduceSwitch, ReduceCase, Complete

LEMMA TidyStep ==
  ASSUME TypeOK, CountersMatch, TidyShape, [Next]_vars, confused' = {}
  PROVE  TidyShape'
<1>1. CASE \E tok \in Tokens : Lex(tok)
  BY <1>1, LexTidy
<1>2. CASE \E kind \in Starts : Begin(kind)
  BY <1>2, BeginTidy
<1>3. CASE BeginElse \/ CloseBrace \/ Newline \/ SyntaxError
  BY <1>3, ShiftTidy
<1>4. CASE ReduceExpr \/ ReduceReturn
  BY <1>4, SimpleTidy
<1>5. CASE ReduceIf \/ ReduceWhile \/ ReduceFunc \/ ReduceScope
  BY <1>5, BlockTidy
<1>6. CASE UNCHANGED vars
  BY <1>6 DEF vars, TidyShape, OpenShape, AheadShape, FuncFlag, Waiting, inner
<1> QED
  BY <1>1, <1>2, <1>3, <1>4, <1>5, <1>6, NoOtherParts DEF Next

(* What was read stays read.                                               *)
LEMMA ConfusedGrows ==
  ASSUME [Next]_vars
  PROVE  confused \subseteq confused'
<1>1. CASE \E tok \in Tokens : Lex(tok)
  BY <1>1 DEF Lex
<1>2. CASE (\E kind \in Starts : Begin(kind)) \/ BeginElif \/ BeginElse \/ BeginCase
           \/ CloseBrace \/ Newline \/ SyntaxError
  BY <1>2 DEF Begin, BeginElif, BeginElse, BeginCase, CloseBrace, Newline, SyntaxError
<1>3. CASE \/ ReduceExpr \/ ReduceReturn \/ ReduceIf \/ ReduceElif \/ ReduceSwitch
           \/ ReduceCase \/ ReduceWhile \/ ReduceFunc \/ ReduceScope
  BY <1>3 DEF ReduceExpr, ReduceReturn, ReduceIf, ReduceElif, ReduceSwitch, ReduceCase,
              ReduceWhile, ReduceFunc, ReduceScope, Reduced
<1>4. CASE UNCHANGED vars
  BY <1>4 DEF vars
<1> QED
  BY <1>1, <1>2, <1>3, <1>4 DEF Next

LEMMA InvInit == Init => FrontendInv
<1> SUFFICES ASSUME Init PROVE FrontendInv
  OBVIOUS
<1>1. TypeOK /\ CountersMatch
  BY CountersInit
<1>2. drift = 0 /\ open = <<>> /\ ahead = "none" /\ status = "run" /\ compiled = finished
      /\ lexer_state.func = FALSE
  BY DEF Init
<1>3. OpenShape(open) /\ AheadShape /\ FuncFlag
  BY <1>2 DEF OpenShape, AheadShape, FuncFlag, Keywords
<1> QED
  BY <1>1, <1>2, <1>3 DEF FrontendInv, TidyShape

LEMMA InvStep == FrontendInv /\ [Next]_vars => FrontendInv'
<1> SUFFICES ASSUME FrontendInv, [Next]_vars PROVE FrontendInv'
  OBVIOUS
<1>1. TypeOK' /\ CountersMatch'
  BY CountersStep DEF FrontendInv
<1>2. ASSUME confused' = {}
      PROVE  TidyShape'
  <2>1. confused = {}
    BY <1>2, ConfusedGrows
  <2> QED
    BY <1>2, <2>1, TidyStep DEF FrontendInv, tidy
<1> QED
  BY <1>1, <1>2 DEF FrontendInv, tidy

(* In a session of any length that nothing confused, what has been handed  *)
(* to the compiler is what was completed at the root, in this order.       *)
THEOREM RootAlwaysInOrder == Spec => []RootInOrder
<1>1. FrontendInv => RootInOrder
  BY DEF FrontendInv, RootInOrder, TidyShape
<1> QED
  BY <1>1, InvInit, InvStep, PTL DEF Spec

(* Such a session dereferences no missing node.                            *)
THEOREM TidySafe == Spec => []TidyNeverCrashes
<1>1. FrontendInv => TidyNeverCrashes
  BY DEF FrontendInv, TidyNeverCrashes, TidyShape
<1> QED
  BY <1>1, InvInit, InvStep, PTL DEF Spec

-----------------------------------------------------------------------------
(***************************************************************************)
(* Proof that no statement is compiled twice or behind a later one,        *)
(* whatever was read: not even in a session with elif, switch, or nested   *)
(* functions, whose counters no longer say where the parser is.            *)
(*                                                                         *)
(* The only part that can be compiled on its own and leave the session     *)
(* running is an elif.  When it is, the counter is down to zero, and what  *)
(* could raise it again for the statements around the elif, which have     *)
(* smaller numbers, is a switch inside of them, at which the compiler      *)
(* panics.                                                                 *)
(***************************************************************************)

IfKinds == {"if", "elif"}

(* The if and elif parts inside of part i of a list.                       *)
Above(list, i) == {k \in i+1..Len(list) : list[k].kind \in IfKinds}

(* What is inside of part i, or was, lets the compiler give up.            *)
Given(list, i) ==
  \E k \in i..Len(list) : list[k].ends # "run" \/ (k > i /\ list[k].kind = "switch")

(* A part that begins no earlier than part i has been compiled.            *)
Passed(list, done, i) == \E j \in 1..Len(done) : done[j] >= list[i].id

Pending(tok) == IF tok \in {"if", "switch"} THEN 1 ELSE 0

(* The counter is too low for part i to be compiled when it is complete.   *)
Low(list, i, tok, n) ==
  \/ n - Cardinality(Above(list, i)) - Pending(tok) <= -1
  \/ i = Len(list) /\ list[i].phase = "ready" /\ n <= 0

(* A part that was passed is never compiled.                               *)
PassedOver(list, done, tok, n) ==
  \A i \in 1..Len(list) : Passed(list, done, i) =>
    /\ list[i].kind \notin {"while", "func"}
    /\ list[i].kind \in IfKinds /\ ~Given(list, i) => Low(list, i, tok, n)

(* Parts have ascending numbers, given out so far.                         *)
Numbers(list, done, b) ==
  /\ \A i \in 1..Len(list) : list[i].id <= b
  /\ \A i, j \in 1..Len(list) : i < j => list[i].id < list[j].id
  /\ \A j \in 1..Len(done) : done[j] <= b

Shapes(list, func) ==
  \A i \in 1..Len(list) :
    /\ list[i].phase \in {"closed", "chain"} => list[i].kind \in IfKinds
    /\ list[i].phase \in {"first", "cases"} => list[i].kind = "switch"
    /\ list[i].kind = "case" => i > 1 /\ list[i-1].kind = "switch"
    /\ list[i].kind = "elif" => i > 1 /\ list[i-1].kind \in IfKinds
    /\ list[i].kind = "func" => func

CaseAhead(list, tok) ==
  tok = "case" => list # <<>> /\ list[Len(list)].phase \in {"first", "cases"}

FuncAhead(list, tok, func) ==
  /\ tok = "func" => func
  /\ \A i \in 1..Len(list) :
       list[i].kind = "func" /\ list[i].phase = "ready" => i = Len(list) /\ tok = "none"

Ascending(s) == \A i, j \in 1..Len(s) : i < j => s[i] < s[j]

(* The inductive invariant, of any state of the parser.                    *)
InOrder(list, done, b, tok, state) ==
  /\ Numbers(list, done, b)
  /\ Shapes(list, state.func)
  /\ CaseAhead(list, tok)
  /\ FuncAhead(list, tok, state.func)
  /\ PassedOver(list, done, tok, state.selection)

OrderInv ==
  /\ TypeOK /\ CountersMatch
  /\ Ascending(compiled)
  /\ status = "run" => InOrder(open, compiled, begun, ahead, lexer_state)

-----------------------------------------------------------------------------
(* Lists of parts.                                                         *)

LEMMA AboveNat ==
  ASSUME NEW list \in Seq(PartSet), NEW i \in Nat
  PROVE  IsFiniteSet(Above(list, i)) /\ Cardinality(Above(list, i)) \in Nat
<1>1. IsFiniteSet(i+1..Len(list)) /\ Above(list, i) \in SUBSET (i+1..Len(list))
  BY FS_Interval DEF Above
<1> QED
  BY <1>1, FS_Subset, FS_CardinalityType

LEMMA AboveLast ==
  ASSUME NEW list \in Seq(PartSet)
  PROVE  Cardinality(Above(list, Len(list))) = 0
<1>1. Above(list, Len(list)) = {}
  BY DEF Above
<1> QED
  BY <1>1, FS_EmptySet

LEMMA AboveSame ==
  ASSUME NEW list \in Seq(PartSet), NEW other \in Seq(PartSet), NEW i \in Nat,
         Len(other) = Len(list), \A k \in 1..Len(list) : other[k].kind = list[k].kind
  PROVE  Above(other, i) = Above(list, i)
BY DEF Above

LEMMA AboveAppend ==
  ASSUME NEW list \in Seq(PartSet), NEW part \in PartSet, NEW i \in 1..Len(list)
  PROVE  Cardinality(Above(Append(list, part), i))
           = Cardinality(Above(list, i)) + (IF part.kind \in IfKinds THEN 1 ELSE 0)
<1> DEFINE parts == Above(list, i)
           n     == Len(list) + 1
<1>1. IsFiniteSet(parts) /\ Cardinality(parts) \in Nat
  BY AboveNat
<1>2. n \notin parts
  BY DEF Above
<1>3. /\ Len(Append(list, part)) = n /\ Append(list, part)[n] = part
      /\ \A k \in 1..Len(list) : Append(list, part)[k] = list[k]
  OBVIOUS
<1>4. Above(Append(list, part), i) = IF part.kind \in IfKinds THEN parts \cup {n} ELSE parts
  BY <1>3 DEF Above
<1>5. Cardinality(parts \cup {n}) = Cardinality(parts) + 1
  BY <1>1, <1>2, FS_AddElement
<1> QED
  BY <1>1, <1>4, <1>5

LEMMA AboveFront ==
  ASSUME NEW list \in Seq(PartSet), list # <<>>, NEW i \in 1..Len(list)-1
  PROVE  Cardinality(Above(list, i))
           = Cardinality(Above(Front(list), i))
             + (IF list[Len(list)].kind \in IfKinds THEN 1 ELSE 0)
<1>1. /\ Front(list) \in Seq(PartSet) /\ Last(list) = list[Len(list)] /\ Last(list) \in PartSet
      /\ Len(Front(list)) = Len(list) - 1 /\ \A k \in 1..Len(list)-1 : Front(list)[k] = list[k]
  BY FrontOfParts
<1>2. Append(Front(list), Last(list)) \in Seq(PartSet)
  BY <1>1
<1>3. /\ Len(Append(Front(list), Last(list))) = Len(list)
      /\ \A k \in 1..Len(list) : Append(Front(list), Last(list))[k] = list[k]
  BY <1>1, FrontOfParts
<1>4. i \in Nat /\ i \in 1..Len(Front(list))
  BY <1>1
<1>5. Above(Append(Front(list), Last(list)), i) = Above(list, i)
  BY <1>2, <1>3, <1>4, AboveSame
<1> QED
  BY <1>1, <1>4, <1>5, AboveAppend

LEMMA EndingNumbers ==
  ASSUME NEW list \in Seq(PartSet), list # <<>>, NEW ends \in {"run", "panic", "crash"}
  PROVE  /\ \A i \in 1..Len(list) :
              /\ Ending(list, ends)[i].id = list[i].id
              /\ list[i].ends # "run" => Ending(list, ends)[i].ends # "run"
         /\ ends # "run" => Ending(list, ends)[Len(list)].ends # "run"
<1>1. Len(list) \in 1..Len(list) /\ list[Len(list)] \in PartSet
  BY FrontOfParts
<1> DEFINE last == [list[Len(list)] EXCEPT !.ends = IF @ = "run" THEN ends ELSE @]
<1>2. last.id = list[Len(list)].id
      /\ last.ends = IF list[Len(list)].ends = "run" THEN ends ELSE list[Len(list)].ends
  BY <1>1 DEF PartSet
<1>3. Ending(list, ends) = [list EXCEPT ![Len(list)] = last]
  BY DEF Ending
<1> HIDE DEF last
<1> QED
  BY <1>1, <1>2, <1>3

LEMMA EndingKept ==
  ASSUME NEW list \in Seq(PartSet), list # <<>>, NEW ends \in Ends,
         NEW other, other = Ending(list, ends)
  PROVE  /\ other \in Seq(PartSet) /\ Len(other) = Len(list)
         /\ \A i \in 1..Len(list) :
              /\ other[i].kind = list[i].kind /\ other[i].id = list[i].id
              /\ other[i].phase = list[i].phase
              /\ list[i].ends # "run" => other[i].ends # "run"
         /\ ends # "run" => other[Len(list)].ends # "run"
<1>1. ends \in {"run", "panic", "crash"}
  BY DEF Ends
<1>2. /\ other \in Seq(PartSet) /\ Len(other) = Len(list)
      /\ \A i \in 1..Len(list) : other[i].kind = list[i].kind /\ other[i].phase = list[i].phase
  BY <1>1, EndingParts
<1>3. /\ \A i \in 1..Len(list) :
           other[i].id = list[i].id /\ (list[i].ends # "run" => other[i].ends # "run")
      /\ ends # "run" => other[Len(list)].ends # "run"
  BY <1>1, EndingNumbers
<1> QED
  BY <1>2, <1>3

LEMMA PhaseNumbers ==
  ASSUME open \in Seq(PartSet), open # <<>>, NEW phase
  PROVE  \A i \in 1..Len(open) : Phase(phase)[i].id = open[i].id
<1>1. Len(open) \in 1..Len(open) /\ open[Len(open)] \in PartSet
  BY FrontOfParts
<1> DEFINE last == [open[Len(open)] EXCEPT !.phase = phase]
<1>2. last.id = open[Len(open)].id
  BY <1>1 DEF PartSet
<1>3. Phase(phase) = [open EXCEPT ![Len(open)] = last]
  BY DEF Phase
<1> HIDE DEF last
<1> QED
  BY <1>1, <1>2, <1>3

LEMMA AscendingAppend ==
  ASSUME NEW s \in Seq(Nat), Ascending(s), NEW n \in Nat, \A j \in 1..Len(s) : s[j] < n
  PROVE  Ascending(Append(s, n)) /\ \A j \in 1..Len(Append(s, n)) : Append(s, n)[j] <= n
<1>1. /\ Len(Append(s, n)) = Len(s) + 1 /\ Append(s, n)[Len(s) + 1] = n
      /\ \A j \in 1..Len(s) : Append(s, n)[j] = s[j] /\ s[j] \in Nat
  OBVIOUS
<1> QED
  BY <1>1 DEF Ascending

-----------------------------------------------------------------------------
(* What is passed stays passed over, when a list keeps its parts, gets one *)
(* or loses one.                                                           *)

LEMMA PassedSame ==
  ASSUME NEW list \in Seq(PartSet), NEW other \in Seq(PartSet), NEW done \in Seq(Nat),
         NEW tok, NEW tk, NEW n \in Int, NEW m \in Int,
         Len(other) = Len(list),
         \A i \in 1..Len(list) : /\ other[i].kind = list[i].kind
                                 /\ other[i].id = list[i].id
                                 /\ list[i].ends # "run" => other[i].ends # "run",
         list # <<>> => list[Len(list)].phase # "ready",
         m - Pending(tk) = n - Pending(tok),
         PassedOver(list, done, tok, n)
  PROVE  PassedOver(other, done, tk, m)
<1> SUFFICES ASSUME NEW i \in 1..Len(other), Passed(other, done, i)
             PROVE  /\ other[i].kind \notin {"while", "func"}
                    /\ other[i].kind \in IfKinds /\ ~Given(other, i) => Low(other, i, tk, m)
  BY DEF PassedOver
<1>1. Passed(list, done, i)
  BY DEF Passed
<1>2. Given(list, i) => Given(other, i)
  BY DEF Given
<1>0. i \in Nat
  OBVIOUS
<1>3. Above(other, i) = Above(list, i) /\ Cardinality(Above(list, i)) \in Nat
  BY <1>0, AboveSame, AboveNat
<1>4. ASSUME Low(list, i, tok, n) PROVE Low(other, i, tk, m)
  <2>1. list # <<>> /\ ~(i = Len(list) /\ list[i].phase = "ready")
    OBVIOUS
  <2>2. n - Cardinality(Above(list, i)) - Pending(tok) <= -1
    BY <1>4, <2>1 DEF Low
  <2>3. Pending(tok) \in Int /\ Pending(tk) \in Int
    BY DEF Pending
  <2>4. m - Cardinality(Above(other, i)) - Pending(tk) <= -1
    BY <1>3, <2>2, <2>3
  <2> QED
    BY <2>4 DEF Low
<1> QED
  BY <1>1, <1>2, <1>4 DEF PassedOver

LEMMA PassedAppend ==
  ASSUME NEW list \in Seq(PartSet), NEW part \in PartSet, NEW done \in Seq(Nat),
         NEW tok, NEW tk, NEW n \in Int,
         list # <<>> => list[Len(list)].phase # "ready",
         \A j \in 1..Len(done) : done[j] < part.id,
         part.kind = "switch" \/ Pending(tok) <= Pending(tk) + (IF part.kind \in IfKinds THEN 1 ELSE 0),
         PassedOver(list, done, tok, n)
  PROVE  PassedOver(Append(list, part), done, tk, n)
<1> DEFINE other == Append(list, part)
<1>1. /\ Len(other) = Len(list) + 1 /\ other[Len(list) + 1] = part
      /\ \A k \in 1..Len(list) : other[k] = list[k]
  OBVIOUS
<1>2. part.id \in Nat /\ \A j \in 1..Len(done) : done[j] \in Nat
  BY PartFields
<1>3. ~Passed(other, done, Len(list) + 1)
  BY <1>1, <1>2 DEF Passed
<1> SUFFICES ASSUME NEW i \in 1..Len(list), Passed(other, done, i)
             PROVE  /\ other[i].kind \notin {"while", "func"}
                    /\ other[i].kind \in IfKinds /\ ~Given(other, i) => Low(other, i, tk, n)
  BY <1>1, <1>3 DEF PassedOver
<1> HIDE DEF other
<1>4. Passed(list, done, i) /\ other[i] = list[i]
  BY <1>1 DEF Passed
<1>5. list[i].kind \notin {"while", "func"}
      /\ (list[i].kind \in IfKinds /\ ~Given(list, i) => Low(list, i, tok, n))
  BY <1>4 DEF PassedOver
<1>6. Given(list, i) => Given(other, i)
  BY <1>1 DEF Given
<1>7. part.kind = "switch" => Given(other, i)
  BY <1>1 DEF Given
<1>8. ASSUME Low(list, i, tok, n), part.kind # "switch"
      PROVE  Low(other, i, tk, n)
  <2> DEFINE a == Cardinality(Above(list, i))
             b == Cardinality(Above(other, i))
             u == Pending(tok)
             v == Pending(tk)
             d == IF part.kind \in IfKinds THEN 1 ELSE 0
  <2>1. list # <<>> /\ ~(i = Len(list) /\ list[i].phase = "ready")
    OBVIOUS
  <2>2. n - a - u <= -1
    BY <1>8, <2>1 DEF Low
  <2>3. u \in Int /\ v \in Int /\ d \in Int /\ u <= v + d
    BY <1>8 DEF Pending
  <2>4. a \in Nat /\ b = a + d
    BY AboveNat, AboveAppend DEF other
  <2> HIDE DEF a, b, u, v, d
  <2>5. n - b - v <= -1
    BY <2>2, <2>3, <2>4
  <2> QED
    BY <2>5 DEF Low, b, v
<1> QED
  BY <1>4, <1>5, <1>6, <1>7, <1>8

LEMMA PassedFront ==
  ASSUME NEW list \in Seq(PartSet), list # <<>>, NEW other \in Seq(PartSet),
         NEW done \in Seq(Nat), NEW tok, NEW n \in Int, NEW m \in Int,
         Len(other) = Len(list) - 1,
         \A i \in 1..Len(list)-1 : other[i].kind = list[i].kind /\ other[i].id = list[i].id,
         \A i \in 1..Len(list)-1 : list[i].kind \in IfKinds /\ Given(list, i) => Given(other, i),
         m = n - (IF list[Len(list)].kind \in IfKinds THEN 1 ELSE 0),
         PassedOver(list, done, tok, n)
  PROVE  PassedOver(other, done, tok, m)
<1> SUFFICES ASSUME NEW i \in 1..Len(other), Passed(other, done, i)
             PROVE  /\ other[i].kind \notin {"while", "func"}
                    /\ other[i].kind \in IfKinds /\ ~Given(other, i) => Low(other, i, tok, m)
  BY DEF PassedOver
<1>1. i \in 1..Len(list)-1 /\ i \in 1..Len(list) /\ i # Len(list) /\ i \in Nat
  OBVIOUS
<1>2. Passed(list, done, i) /\ other[i].kind = list[i].kind
  BY <1>1 DEF Passed
<1>3. /\ list[i].kind \notin {"while", "func"}
      /\ list[i].kind \in IfKinds /\ ~Given(list, i) => Low(list, i, tok, n)
  BY <1>1, <1>2 DEF PassedOver
<1>4. ASSUME Low(list, i, tok, n) PROVE Low(other, i, tok, m)
  <2> DEFINE a == Cardinality(Above(list, i))
             b == Cardinality(Above(other, i))
             u == Pending(tok)
             d == IF list[Len(list)].kind \in IfKinds THEN 1 ELSE 0
  <2>1. n - a - u <= -1
    BY <1>1, <1>4 DEF Low
  <2>2. /\ Front(list) \in Seq(PartSet) /\ Len(Front(list)) = Len(list) - 1
        /\ \A k \in 1..Len(list)-1 : Front(list)[k] = list[k]
    BY FrontOfParts
  <2>3. Above(other, i) = Above(Front(list), i)
    <3>1. Len(other) = Len(Front(list))
          /\ \A k \in 1..Len(Front(list)) : other[k].kind = Front(list)[k].kind
      BY <2>2
    <3> QED
      BY <1>1, <2>2, <3>1, AboveSame
  <2>4. a = b + d
    BY <1>1, <2>3, AboveFront
  <2>5. b \in Nat /\ u \in Int /\ d \in Int /\ m = n - d
    BY <1>1, AboveNat DEF Pending
  <2> HIDE DEF a, b, u, d
  <2>6. m - b - u <= -1
    BY <2>1, <2>4, <2>5
  <2> QED
    BY <2>6 DEF Low, b, u
<1> QED
  BY <1>1, <1>2, <1>3, <1>4

(* What was given stays given, when the part that is reduced passes on how *)
(* it ends; a case passes nothing on, but stands in a switch.              *)
LEMMA GivenFront ==
  ASSUME NEW list \in Seq(PartSet), list # <<>>, NEW other \in Seq(PartSet),
         Len(other) = Len(list) - 1,
         \A i \in 1..Len(list)-1 : /\ other[i].kind = list[i].kind
                                   /\ list[i].ends # "run" => other[i].ends # "run",
         Len(list) > 1 =>
           \/ list[Len(list)].ends = "run" /\ list[Len(list)].kind # "switch"
           \/ other[Len(list)-1].ends # "run"
           \/ list[Len(list)].kind = "case" /\ list[Len(list)-1].kind = "switch"
  PROVE  \A i \in 1..Len(list)-1 : list[i].kind \in IfKinds /\ Given(list, i) => Given(other, i)
<1> SUFFICES ASSUME NEW i \in 1..Len(list)-1, list[i].kind \in IfKinds, Given(list, i)
             PROVE  Given(other, i)
  OBVIOUS
<1>1. PICK k \in i..Len(list) : list[k].ends # "run" \/ (k > i /\ list[k].kind = "switch")
  BY DEF Given
<1>0. Len(list) \in Nat /\ i \in Nat \ {0} /\ k \in Nat /\ i <= k /\ k <= Len(list)
  OBVIOUS
<1>2. CASE k # Len(list)
  <2>0. PICK l \in Nat : l = Len(list)
    BY <1>0
  <2>1. k \in i..l-1 /\ k \in 1..l-1
    BY <1>0, <1>2, <2>0
  <2> QED
    BY <1>1, <2>0, <2>1 DEF Given
<1>3. CASE k = Len(list)
  <2>1. Len(list) > 1 /\ Len(list) - 1 \in i..Len(other) /\ Len(list) - 1 \in 1..Len(list)-1
    BY <1>0
  <2>2. CASE other[Len(list)-1].ends # "run"
    BY <2>1, <2>2 DEF Given
  <2>3. CASE list[Len(list)-1].kind = "switch"
    <3>1. i # Len(list) - 1
      BY <2>3 DEF IfKinds
    <3>2. Len(list) - 1 > i /\ other[Len(list)-1].kind = "switch"
      BY <2>1, <2>3, <3>1
    <3> QED
      BY <2>1, <3>2 DEF Given
  <2> QED
    BY <1>1, <1>3, <2>1, <2>2, <2>3
<1> QED
  BY <1>2, <1>3

-----------------------------------------------------------------------------
(* Reading and shifting a token.                                           *)

(* What the invariant says of a session that goes on.                      *)
LEMMA Running ==
  ASSUME OrderInv, status = "run"
  PROVE  /\ TypeOK /\ Ascending(compiled)
         /\ open \in Seq(PartSet) /\ compiled \in Seq(Nat) /\ begun \in Nat
         /\ lexer_state \in LexerStates /\ lexer_state.selection \in Int
         /\ Numbers(open, compiled, begun) /\ Shapes(open, lexer_state.func)
         /\ CaseAhead(open, ahead) /\ FuncAhead(open, ahead, lexer_state.func)
         /\ PassedOver(open, compiled, ahead, lexer_state.selection)
BY DEF OrderInv, InOrder, TypeOK, LexerStates

(* What every action is shown to establish.                                *)
OrderKept ==
  /\ Ascending(compiled')
  /\ status' = "run" => InOrder(open', compiled', begun', ahead', lexer_state')

LEMMA LexOrder ==
  ASSUME OrderInv, NEW tok \in Tokens, Lex(tok)
  PROVE  OrderKept
<1>1. /\ status = "run" /\ ahead = "none" /\ tok \in Legal /\ ahead' = tok
      /\ open' = open /\ compiled' = compiled /\ begun' = begun
      /\ lexer_state' = HandleKeyword(tok)
  BY DEF Lex
<1>2. /\ lexer_state'.func = (IF tok = "func" THEN TRUE ELSE lexer_state.func)
      /\ lexer_state'.selection = lexer_state.selection + Pending(tok)
  BY <1>1, Running DEF LexerStates, HandleKeyword, Pending
<1>3. open # <<>> => inner = open[Len(open)] /\ inner.phase # "ready"
  <2>1. open # <<>> => inner = open[Len(open)]
    BY <1>1, Running, InnerPart
  <2>2. open # <<>> => inner.phase # "ready"
    BY <1>1 DEF Legal, InList, Waiting
  <2> QED
    BY <2>1, <2>2
<1>4. CaseAhead(open, tok)
  <2>1. tok = "case" => open # <<>> /\ inner.phase \in {"first", "cases"}
    BY <1>1 DEF Legal, InList, Waiting, Starts, Keywords
  <2> QED
    BY <1>3, <2>1 DEF CaseAhead
<1>5. Shapes(open, lexer_state'.func)
  BY <1>1, <1>2, Running DEF Shapes
<1>7. FuncAhead(open, tok, lexer_state'.func)
  <2>1. \A i \in 1..Len(open) : ~(open[i].kind = "func" /\ open[i].phase = "ready")
    BY <1>1, <1>3, Running DEF FuncAhead
  <2> QED
    BY <1>2, <2>1 DEF FuncAhead
<1>6. PassedOver(open, compiled, tok, lexer_state'.selection)
  <2>1. /\ lexer_state'.selection \in Int
        /\ lexer_state'.selection - Pending(tok) = lexer_state.selection - Pending(ahead)
    BY <1>1, <1>2, Running DEF Pending
  <2> QED
    BY <1>1, <1>3, <2>1, Running, PassedSame
<1> QED
  BY <1>1, <1>4, <1>5, <1>6, <1>7, Running DEF OrderKept, InOrder

(* A part begins, on the list that is open or that becomes it.             *)
LEMMA PartOrder ==
  ASSUME NEW list \in Seq(PartSet), NEW part \in PartSet, NEW done \in Seq(Nat), NEW b \in Nat,
         NEW f, NEW g, NEW tok, NEW n \in Int,
         Numbers(list, done, b), Shapes(list, f), f => g, PassedOver(list, done, tok, n),
         part.id = b + 1,
         part.phase \in {"closed", "chain"} => part.kind \in IfKinds,
         part.phase \in {"first", "cases"} => part.kind = "switch",
         part.kind = "case" => list # <<>> /\ list[Len(list)].kind = "switch",
         part.kind = "elif" => list # <<>> /\ list[Len(list)].kind \in IfKinds,
         part.kind = "func" => g,
         list # <<>> => list[Len(list)].phase # "ready",
         FuncAhead(list, tok, f), part.phase # "ready",
         part.kind = "switch" \/ Pending(tok) <= (IF part.kind \in IfKinds THEN 1 ELSE 0)
  PROVE  /\ Numbers(Append(list, part), done, b + 1)
         /\ Shapes(Append(list, part), g)
         /\ CaseAhead(Append(list, part), "none")
         /\ FuncAhead(Append(list, part), "none", g)
         /\ PassedOver(Append(list, part), done, "none", n)
<1> DEFINE other == Append(list, part)
           l     == Len(list)
<1>1. /\ Len(other) = l + 1 /\ other[l + 1] = part /\ l \in Nat
      /\ \A k \in 1..l : other[k] = list[k] /\ list[k].id \in Nat
      /\ \A j \in 1..Len(done) : done[j] \in Nat
      /\ (list # <<>> => l >= 1)
  BY PartFields
<1> HIDE DEF other, l
<1>2. /\ \A i \in 1..l : list[i].id <= b
      /\ \A i, j \in 1..l : i < j => list[i].id < list[j].id
      /\ \A j \in 1..Len(done) : done[j] <= b
  BY DEF Numbers, l
<1>3. Numbers(other, done, b + 1)
  <2>1. \A i \in 1..l+1 : other[i].id <= b + 1
    BY <1>1, <1>2
  <2>2. ASSUME NEW i \in 1..l+1, NEW j \in 1..l+1, i < j
        PROVE  other[i].id < other[j].id
    <3>1. i \in 1..l /\ other[i] = list[i] /\ list[i].id \in Nat /\ list[i].id <= b
      BY <1>1, <1>2, <2>2
    <3>2. CASE j = l + 1
      BY <1>1, <3>1, <3>2
    <3>3. CASE j \in 1..l
      BY <1>1, <1>2, <2>2, <3>1, <3>3
    <3> QED
      BY <1>1, <3>2, <3>3
  <2>3. \A j \in 1..Len(done) : done[j] <= b + 1
    BY <1>1, <1>2
  <2> QED
    BY <1>1, <2>1, <2>2, <2>3 DEF Numbers
<1>4. Shapes(other, g)
  <2> SUFFICES ASSUME NEW i \in 1..l+1
               PROVE  /\ other[i].phase \in {"closed", "chain"} => other[i].kind \in IfKinds
                      /\ other[i].phase \in {"first", "cases"} => other[i].kind = "switch"
                      /\ other[i].kind = "case" => i > 1 /\ other[i-1].kind = "switch"
                      /\ other[i].kind = "elif" => i > 1 /\ other[i-1].kind \in IfKinds
                      /\ other[i].kind = "func" => g
    BY <1>1 DEF Shapes
  <2>1. CASE i = l + 1
    <3>1. list # <<>> => i > 1 /\ other[i-1] = list[l]
      BY <1>1, <2>1
    <3> QED
      BY <1>1, <2>1, <3>1 DEF l
  <2>2. CASE i \in 1..l
    <3>1. other[i] = list[i] /\ (i > 1 => other[i-1] = list[i-1])
      BY <1>1, <2>2
    <3> QED
      BY <2>2, <3>1 DEF Shapes, l
  <2> QED
    BY <1>1, <2>1, <2>2
<1>5. PassedOver(other, done, "none", n)
  <2>1. \A j \in 1..Len(done) : done[j] < part.id
    BY <1>1, <1>2
  <2>2. Pending("none") = 0
    BY DEF Pending
  <2>3. part.kind = "switch"
        \/ Pending(tok) <= Pending("none") + (IF part.kind \in IfKinds THEN 1 ELSE 0)
    BY <2>2
  <2> QED
    BY <2>1, <2>3, PassedAppend DEF other
<1>6. CaseAhead(other, "none")
  BY DEF CaseAhead
<1>7. FuncAhead(other, "none", g)
  <2>1. \A i \in 1..l : ~(list[i].kind = "func" /\ list[i].phase = "ready")
    BY <1>1 DEF FuncAhead, l
  <2>2. ASSUME NEW i \in 1..l+1 PROVE other[i].kind = "func" /\ other[i].phase = "ready" => i = l + 1
    <3>1. i = l + 1 \/ i \in 1..l
      BY <1>1
    <3> QED
      BY <1>1, <2>1, <3>1
  <2> QED
    BY <1>1, <2>2 DEF FuncAhead
<1> QED
  BY <1>3, <1>4, <1>5, <1>6, <1>7 DEF other

LEMMA BeginOrder ==
  ASSUME OrderInv, NEW kind \in Starts, Begin(kind)
  PROVE  OrderKept
<1> DEFINE part == Part(kind, begun + 1, IF kind = "switch" THEN "first" ELSE "body")
<1>1. /\ status = "run" /\ ahead = kind /\ ahead' = "none" /\ InList
      /\ kind \in {"if", "while", "func", "switch", "scope"}
      /\ open' = Append(open, part) /\ begun' = begun + 1
      /\ lexer_state' = lexer_state /\ compiled' = compiled
  BY DEF Begin, Shift
<1>2. /\ part \in PartSet /\ part.kind = kind /\ part.id = begun + 1
      /\ part.phase = IF kind = "switch" THEN "first" ELSE "body"
  BY <1>1, Running DEF Part, PartSet
<1> HIDE DEF part
<1>3. open # <<>> => open[Len(open)].phase # "ready"
  BY <1>1, Running, InnerPart DEF InList
<1>4. kind = "switch" \/ Pending(ahead) <= (IF kind \in IfKinds THEN 1 ELSE 0)
  BY <1>1 DEF Pending, IfKinds
<1>5. part.kind = "func" => lexer_state.func
  BY <1>1, <1>2, Running DEF FuncAhead
<1> DEFINE t == Append(open, part)
<1>7. /\ Numbers(t, compiled, begun + 1) /\ Shapes(t, lexer_state.func)
      /\ CaseAhead(t, "none") /\ FuncAhead(t, "none", lexer_state.func)
      /\ PassedOver(t, compiled, "none", lexer_state.selection)
  <2>1. /\ part \in PartSet /\ part.id = begun + 1 /\ part.phase # "ready"
        /\ part.phase \in {"closed", "chain"} => part.kind \in IfKinds
        /\ part.phase \in {"first", "cases"} => part.kind = "switch"
        /\ part.kind = "case" => open # <<>> /\ open[Len(open)].kind = "switch"
        /\ part.kind = "elif" => open # <<>> /\ open[Len(open)].kind \in IfKinds
    BY <1>1, <1>2
  <2>2. part.kind = "switch" \/ Pending(ahead) <= (IF part.kind \in IfKinds THEN 1 ELSE 0)
    BY <1>2, <1>4
  <2> QED
    BY <1>1, <1>3, <1>5, <2>1, <2>2, Running, PartOrder
<1>8. InOrder(t, compiled, begun + 1, "none", lexer_state)
  BY <1>7 DEF InOrder
<1>9. Ascending(compiled)
  BY <1>1, Running
<1> QED
  BY <1>1, <1>8, <1>9 DEF OrderKept

(* The innermost part changes its phase when a token is shifted.           *)
LEMMA PhaseOrder ==
  ASSUME OrderInv, status = "run", open # <<>>,
         NEW phase \in {"body", "else", "closed", "chain", "first", "cases", "ready"},
         Pending(ahead) = 0, inner.phase # "ready",
         phase \in {"closed", "chain"} => inner.kind \in IfKinds,
         phase \in {"first", "cases"} => inner.kind = "switch"
  PROVE  /\ Phase(phase) \in Seq(PartSet) /\ Phase(phase) # <<>>
         /\ Len(Phase(phase)) = Len(open) /\ Len(open) \in Nat \ {0}
         /\ Phase(phase)[Len(open)].phase = phase
         /\ Phase(phase)[Len(open)].kind = inner.kind
         /\ Numbers(Phase(phase), compiled, begun)
         /\ Shapes(Phase(phase), lexer_state.func)
         /\ FuncAhead(Phase(phase), "none", lexer_state.func)
         /\ PassedOver(Phase(phase), compiled, "none", lexer_state.selection)
<1> DEFINE other == Phase(phase)
           l     == Len(open)
           n     == lexer_state.selection
<1>1. l \in Nat \ {0} /\ inner = open[l]
  BY Running, InnerPart
<1>2. /\ other \in Seq(PartSet) /\ Len(other) = l /\ other # <<>>
      /\ \A i \in 1..l : /\ other[i].kind = open[i].kind /\ other[i].ends = open[i].ends
                         /\ other[i].id = open[i].id
                         /\ other[i].phase = IF i = l THEN phase ELSE open[i].phase
  BY Running, PhaseParts, PhaseNumbers
<1>3. n \in Int /\ n - Pending("none") = n - Pending(ahead)
  BY Running DEF Pending
<1>4. PassedOver(other, compiled, "none", n)
  BY <1>1, <1>2, <1>3, Running, PassedSame, ZenonT(40)
<1> HIDE DEF other, l, n
<1>5. Numbers(other, compiled, begun)
  <2>1. Numbers(open, compiled, begun)
    BY Running
  <2>2. \A i \in 1..Len(open) : other[i].id = open[i].id
    BY <1>2 DEF l
  <2>3. Len(other) = Len(open)
    BY <1>2 DEF l
  <2> QED
    BY <2>1, <2>2, <2>3 DEF Numbers
<1>6. Shapes(other, lexer_state.func)
  <2> SUFFICES ASSUME NEW i \in 1..l
               PROVE  /\ other[i].phase \in {"closed", "chain"} => other[i].kind \in IfKinds
                      /\ other[i].phase \in {"first", "cases"} => other[i].kind = "switch"
                      /\ other[i].kind = "case" => i > 1 /\ other[i-1].kind = "switch"
                      /\ other[i].kind = "elif" => i > 1 /\ other[i-1].kind \in IfKinds
                      /\ other[i].kind = "func" => lexer_state.func
    BY <1>2 DEF Shapes
  <2>1. i > 1 => other[i-1].kind = open[i-1].kind
    BY <1>1, <1>2
  <2>2. /\ open[i].phase \in {"closed", "chain"} => open[i].kind \in IfKinds
        /\ open[i].phase \in {"first", "cases"} => open[i].kind = "switch"
        /\ open[i].kind = "case" => i > 1 /\ open[i-1].kind = "switch"
        /\ open[i].kind = "elif" => i > 1 /\ open[i-1].kind \in IfKinds
        /\ open[i].kind = "func" => lexer_state.func
    BY Running DEF Shapes, l
  <2>3. other[i].phase = IF i = l THEN phase ELSE open[i].phase
    BY <1>2
  <2> QED
    BY <1>1, <1>2, <2>1, <2>2, <2>3
<1>7. FuncAhead(other, "none", lexer_state.func)
  <2>1. \A i \in 1..l : i # l => ~(open[i].kind = "func" /\ open[i].phase = "ready")
    BY Running DEF FuncAhead, l
  <2> QED
    BY <1>2, <2>1 DEF FuncAhead
<1> QED
  BY <1>1, <1>2, <1>4, <1>5, <1>6, <1>7 DEF other, l, n

LEMMA BeginPartOrder ==
  ASSUME OrderInv, BeginElif \/ BeginCase
  PROVE  OrderKept
<1>1. /\ status = "run" /\ open # <<>> /\ ahead' = "none" /\ begun' = begun + 1
      /\ lexer_state' = lexer_state /\ compiled' = compiled
  BY DEF BeginElif, BeginCase, Shift, Waiting
<1>2. PICK kind \in {"elif", "case"}, phase \in {"chain", "cases"} :
        /\ open' = Append(Phase(phase), Part(kind, begun + 1, "body"))
        /\ ahead = kind
        /\ kind = "elif" => phase = "chain" /\ inner.phase = "closed"
        /\ kind = "case" => phase = "cases"
  BY DEF BeginElif, BeginCase, Shift, Waiting
<1>3. inner = open[Len(open)] /\ Len(open) \in 1..Len(open)
  BY <1>1, Running, InnerPart
<1>4. /\ kind = "case" => inner.phase \in {"first", "cases"} /\ inner.kind = "switch"
      /\ kind = "elif" => inner.kind \in IfKinds
      /\ inner.phase # "ready"
  BY <1>1, <1>2, <1>3, Running DEF CaseAhead, Shapes
<1>5. Pending(ahead) = 0 /\ Pending("none") = 0
  BY <1>2 DEF Pending
<1> DEFINE list == Phase(phase)
           part == Part(kind, begun + 1, "body")
<1>6. /\ list \in Seq(PartSet) /\ list # <<>> /\ Len(list) = Len(open)
      /\ list[Len(list)].phase = phase /\ list[Len(list)].kind = inner.kind
      /\ Numbers(list, compiled, begun) /\ Shapes(list, lexer_state.func)
      /\ FuncAhead(list, "none", lexer_state.func)
      /\ PassedOver(list, compiled, "none", lexer_state.selection)
  BY <1>1, <1>2, <1>4, <1>5, PhaseOrder
<1>7. /\ part \in PartSet /\ part.kind = kind /\ part.id = begun + 1 /\ part.phase = "body"
  BY <1>1, <1>2, Running DEF Part, PartSet
<1>8. open' = Append(list, part)
  BY <1>2
<1>9. Pending("none") <= (IF part.kind \in IfKinds THEN 1 ELSE 0)
  BY <1>5
<1> HIDE DEF list, part
<1>10. phase # "ready" /\ kind # "func"
  BY <1>2
<1>11. /\ Numbers(Append(list, part), compiled, begun + 1)
       /\ Shapes(Append(list, part), lexer_state.func)
       /\ CaseAhead(Append(list, part), "none")
       /\ FuncAhead(Append(list, part), "none", lexer_state.func)
       /\ PassedOver(Append(list, part), compiled, "none", lexer_state.selection)
  BY <1>1, <1>2, <1>4, <1>6, <1>7, <1>9, <1>10, Running, PartOrder
<1> QED
  BY <1>1, <1>8, <1>11, Running DEF OrderKept, InOrder

LEMMA ShiftOrder ==
  ASSUME OrderInv, BeginElse \/ CloseBrace \/ Newline \/ SyntaxError
  PROVE  OrderKept
<1>1. /\ status = "run" /\ ahead' = "none" /\ begun' = begun
      /\ lexer_state' = lexer_state /\ compiled' = compiled
      /\ ahead \in {"else", "close", "newline", "class"}
  BY DEF BeginElse, CloseBrace, Newline, SyntaxError, Shift
<1>2. Pending(ahead) = 0 /\ Pending("none") = 0
  BY <1>1 DEF Pending
<1>3. open # <<>> => inner = open[Len(open)] /\ Len(open) \in 1..Len(open)
  BY <1>1, Running, InnerPart
<1>4. CASE BeginElse \/ CloseBrace
  <2>1. PICK phase \in {"else", "closed", "ready"} :
          /\ open # <<>> /\ open' = Phase(phase) /\ inner.phase # "ready"
          /\ phase = "closed" => inner.kind \in IfKinds
    BY <1>4 DEF BeginElse, CloseBrace, Waiting, IfKinds
  <2> QED
    BY <1>1, <1>2, <2>1, PhaseOrder, Running DEF OrderKept, InOrder, CaseAhead
<1>5. CASE Newline
  <2>1. open' = open /\ (open # <<>> => inner.phase # "ready")
    BY <1>5 DEF Newline, InList
  <2>2. lexer_state.selection \in Int
        /\ lexer_state.selection - Pending("none") = lexer_state.selection - Pending(ahead)
    BY <1>1, <1>2, Running
  <2>3. PassedOver(open, compiled, "none", lexer_state.selection)
    BY <1>1, <1>3, <2>1, <2>2, Running, PassedSame
  <2>4. FuncAhead(open, "none", lexer_state.func) /\ CaseAhead(open, "none")
    BY <1>1, Running DEF FuncAhead, CaseAhead
  <2> QED
    BY <1>1, <2>1, <2>3, <2>4, Running DEF OrderKept, InOrder
<1>6. CASE SyntaxError
  BY <1>1, <1>6, Running DEF SyntaxError, OrderKept
<1> QED
  BY <1>4, <1>5, <1>6

-----------------------------------------------------------------------------
(* Reducing.                                                               *)

(* A list that keeps its parts, or all but the last one.                   *)
LEMMA PartsKept ==
  ASSUME NEW list \in Seq(PartSet), NEW other \in Seq(PartSet), NEW done, NEW b, NEW f,
         Len(other) \in {Len(list), Len(list) - 1},
         \A i \in 1..Len(other) : /\ other[i].kind = list[i].kind /\ other[i].id = list[i].id
                                  /\ other[i].phase \in {list[i].phase, "ready"},
         Numbers(list, done, b), Shapes(list, f)
  PROVE  Numbers(other, done, b) /\ Shapes(other, f)
<1>1. \A i \in 1..Len(other) : i \in 1..Len(list)
  OBVIOUS
<1>2. Numbers(other, done, b)
  BY <1>1 DEF Numbers
<1>3. Shapes(other, f)
  <2> SUFFICES ASSUME NEW i \in 1..Len(other)
               PROVE  /\ other[i].phase \in {"closed", "chain"} => other[i].kind \in IfKinds
                      /\ other[i].phase \in {"first", "cases"} => other[i].kind = "switch"
                      /\ other[i].kind = "case" => i > 1 /\ other[i-1].kind = "switch"
                      /\ other[i].kind = "elif" => i > 1 /\ other[i-1].kind \in IfKinds
                      /\ other[i].kind = "func" => f
    BY DEF Shapes
  <2>1. i > 1 => other[i-1].kind = list[i-1].kind
    OBVIOUS
  <2> QED
    BY <1>1, <2>1 DEF Shapes
<1> QED
  BY <1>2, <1>3

(* The innermost part can be compiled, so nothing in it was.               *)
LEMMA NotPassed ==
  ASSUME OrderInv, NEW kind, Complete(kind),
         \/ kind \in {"while", "func"}
         \/ kind \in IfKinds /\ inner.ends = "run" /\ lexer_state.selection = 1
  PROVE  \A j \in 1..Len(compiled) : compiled[j] < inner.id
<1>1. status = "run" /\ open # <<>> /\ inner.kind = kind
  BY DEF Complete
<1>2. inner = open[Len(open)] /\ Len(open) \in Nat \ {0} /\ inner.id \in Nat
  BY <1>1, Running, InnerPart
<1>3. ASSUME Passed(open, compiled, Len(open)) PROVE FALSE
  <2>1. kind \in IfKinds /\ inner.ends = "run" /\ lexer_state.selection = 1
    BY <1>1, <1>2, <1>3, Running DEF PassedOver
  <2>2. ~Given(open, Len(open))
    BY <1>2, <2>1 DEF Given
  <2>3. Low(open, Len(open), ahead, 1)
    BY <1>1, <1>2, <1>3, <2>1, <2>2, Running DEF PassedOver
  <2>4. Cardinality(Above(open, Len(open))) = 0
    BY <1>1, Running, AboveLast
  <2> QED
    BY <2>3, <2>4 DEF Low, Pending
<1>4. \A j \in 1..Len(compiled) : compiled[j] \in Nat
  BY <1>1, Running
<1> QED
  BY <1>2, <1>3, <1>4 DEF Passed

(* What is ahead of a part that is complete.                               *)
LEMMA CompleteAhead ==
  ASSUME OrderInv, NEW kind, Complete(kind)
  PROVE  /\ ahead # "case"
         /\ kind = "func" => ahead = "none"
         /\ \A i \in 1..Len(open)-1 : ~(open[i].kind = "func" /\ open[i].phase = "ready")
<1>1. status = "run" /\ open # <<>> /\ inner.kind = kind /\ inner.phase \in {"ready", "closed"}
  BY DEF Complete
<1>2. inner = open[Len(open)] /\ Len(open) \in Nat \ {0}
  BY <1>1, Running, InnerPart
<1>3. ahead # "case"
  BY <1>1, <1>2, Running DEF CaseAhead
<1>4. kind = "func" => inner.phase = "ready"
  BY <1>1, <1>2, Running DEF Shapes, IfKinds
<1>5. kind = "func" => ahead = "none"
  BY <1>1, <1>2, <1>4, Running DEF FuncAhead
<1>6. ASSUME NEW i \in 1..Len(open)-1
      PROVE  ~(open[i].kind = "func" /\ open[i].phase = "ready")
  <2>1. i \in 1..Len(open) /\ i # Len(open)
    BY <1>2
  <2> QED
    BY <1>1, <2>1, Running DEF FuncAhead
<1> QED
  BY <1>3, <1>5, <1>6

(* A part goes that is not compiled on its own.                            *)
LEMMA GoneOrder ==
  ASSUME OrderInv, NEW kind, Complete(kind), compiled' = compiled,
         open' \in Seq(PartSet), Len(open') = Len(open) - 1,
         \A i \in 1..Len(open)-1 : /\ open'[i].kind = open[i].kind /\ open'[i].id = open[i].id
                                   /\ open'[i].phase \in {open[i].phase, "ready"}
                                   /\ open[i].kind = "func" => open'[i].phase = open[i].phase
                                   /\ open[i].ends # "run" => open'[i].ends # "run",
         Len(open) > 1 =>
           \/ inner.ends = "run" /\ kind # "switch"
           \/ open'[Len(open)-1].ends # "run"
           \/ kind = "case",
         lexer_state'.func = lexer_state.func,
         lexer_state'.selection = lexer_state.selection - (IF kind \in IfKinds THEN 1 ELSE 0)
  PROVE  OrderKept
<1>1. /\ status = "run" /\ open # <<>> /\ inner.kind = kind
      /\ ahead' = ahead /\ begun' = begun
  BY DEF Complete
<1>2. inner = open[Len(open)] /\ Len(open) \in Nat \ {0}
  BY <1>1, Running, InnerPart
<1>3. Numbers(open', compiled, begun) /\ Shapes(open', lexer_state.func)
  <2>1. Len(open') \in {Len(open), Len(open) - 1}
    OBVIOUS
  <2>2. ASSUME NEW i \in 1..Len(open')
        PROVE  /\ open'[i].kind = open[i].kind /\ open'[i].id = open[i].id
               /\ open'[i].phase \in {open[i].phase, "ready"}
    <3>1. i \in 1..Len(open)-1
      OBVIOUS
    <3> QED
      BY <3>1
  <2>3. open \in Seq(PartSet) /\ Numbers(open, compiled, begun) /\ Shapes(open, lexer_state.func)
    BY <1>1, Running
  <2> QED
    BY <2>1, <2>2, <2>3, PartsKept
<1>4. CaseAhead(open', ahead) /\ FuncAhead(open', ahead, lexer_state.func)
  <2>1. \A i \in 1..Len(open') : ~(open'[i].kind = "func" /\ open'[i].phase = "ready")
    BY <1>2, CompleteAhead
  <2> QED
    BY <1>1, <2>1, CompleteAhead, Running DEF CaseAhead, FuncAhead
<1>5. kind = "case" => Len(open) > 1 /\ open[Len(open)-1].kind = "switch"
  BY <1>1, <1>2, Running DEF Shapes
<1>6. \A i \in 1..Len(open)-1 : open[i].kind \in IfKinds /\ Given(open, i) => Given(open', i)
  <2>1. Len(open) > 1 =>
          \/ open[Len(open)].ends = "run" /\ open[Len(open)].kind # "switch"
          \/ open'[Len(open)-1].ends # "run"
          \/ open[Len(open)].kind = "case" /\ open[Len(open)-1].kind = "switch"
    BY <1>1, <1>2, <1>5
  <2> QED
    BY <1>1, <2>1, Running, GivenFront
<1>7. lexer_state'.selection \in Int
  BY <1>1, Running
<1>8. PassedOver(open', compiled, ahead, lexer_state'.selection)
  BY <1>1, <1>2, <1>6, <1>7, Running, PassedFront
<1> QED
  BY <1>1, <1>3, <1>4, <1>8, Running DEF OrderKept, InOrder

(* A statement is compiled at the root, and nothing is open any more.      *)
LEMMA RootCompiled ==
  ASSUME OrderInv, status = "run", NEW id \in Nat,
         \A j \in 1..Len(compiled) : compiled[j] < id,
         compiled' = Append(compiled, id), begun' \in Nat, id <= begun',
         status' = "run" => open' = <<>>,
         ahead' # "case", ahead' = "func" => lexer_state'.func
  PROVE  OrderKept
<1>1. /\ Ascending(compiled') /\ \A j \in 1..Len(compiled') : compiled'[j] <= id
      /\ compiled' \in Seq(Nat)
  BY Running, AscendingAppend
<1>2. \A j \in 1..Len(compiled') : compiled'[j] <= begun'
  <2>1. \A j \in 1..Len(compiled') : compiled'[j] \in Nat
    BY <1>1
  <2> QED
    BY <1>1, <2>1
<1>3. status' = "run" => /\ Numbers(open', compiled', begun') /\ Shapes(open', lexer_state'.func)
                         /\ CaseAhead(open', ahead') /\ FuncAhead(open', ahead', lexer_state'.func)
                         /\ PassedOver(open', compiled', ahead', lexer_state'.selection)
  BY <1>2 DEF Numbers, Shapes, CaseAhead, FuncAhead, PassedOver
<1> QED
  BY <1>1, <1>3 DEF OrderKept, InOrder

(* A statement with one token is reduced, in the list that is open.        *)
LEMMA SimpleOrder ==
  ASSUME OrderInv, ReduceExpr \/ ReduceReturn
  PROVE  OrderKept
<1>1. PICK ends \in {"run", "panic"}, compiles \in BOOLEAN :
        /\ Reduced(open, begun + 1, ends, compiles, ends = "run")
        /\ ends = "panic" => ~compiles
  BY CompilesTyped DEF ReduceExpr, ReduceReturn
<1>2. /\ status = "run" /\ ahead \in {"expr", "return"} /\ ahead' = "none" /\ InList
      /\ begun' = begun + 1 /\ lexer_state' = lexer_state
  BY DEF ReduceExpr, ReduceReturn, Shift
<1>3. /\ open \in Seq(PartSet) /\ begun \in Nat /\ compiled \in Seq(Nat)
      /\ \A j \in 1..Len(compiled) : compiled[j] \in Nat /\ compiled[j] <= begun
  BY <1>2, Running DEF Numbers
<1>4. CASE compiles
  <2>1. /\ compiled' = Append(compiled, begun + 1)
        /\ status' = "run" => open' = <<>>
    BY <1>1, <1>4 DEF Reduced, Dereferenced
  <2>2. /\ begun + 1 \in Nat /\ begun' = begun + 1 /\ begun' \in Nat /\ begun + 1 <= begun'
        /\ ahead' # "case" /\ ahead' # "func"
    BY <1>2, <1>3
  <2>3. \A j \in 1..Len(compiled) : compiled[j] < begun + 1
    BY <1>3
  <2> QED
    BY <1>2, <2>1, <2>2, <2>3, RootCompiled
<1>5. CASE ~compiles
  <2>1. compiled' = compiled /\ open' = IF open = <<>> THEN open ELSE Ending(open, ends)
    BY <1>1, <1>5 DEF Reduced
  <2>2. /\ open' \in Seq(PartSet) /\ Len(open') = Len(open)
        /\ \A i \in 1..Len(open) :
             /\ open'[i].kind = open[i].kind /\ open'[i].id = open[i].id
             /\ open'[i].phase = open[i].phase
             /\ open[i].ends # "run" => open'[i].ends # "run"
    <3>1. CASE open = <<>>
      BY <1>3, <2>1, <3>1
    <3>2. CASE open # <<>>
      BY <1>3, <2>1, <3>2, EndingKept DEF Ends
    <3> QED
      BY <3>1, <3>2
  <2>3. Numbers(open', compiled, begun) /\ Shapes(open', lexer_state.func)
    <3>1. \A i \in 1..Len(open') :
            /\ open'[i].kind = open[i].kind /\ open'[i].id = open[i].id
            /\ open'[i].phase \in {open[i].phase, "ready"}
      BY <1>3, <2>2
    <3>2. open \in Seq(PartSet) /\ Numbers(open, compiled, begun) /\ Shapes(open, lexer_state.func)
      BY <1>2, Running
    <3>3. Len(open') \in {Len(open), Len(open) - 1}
      BY <2>2
    <3> QED
      BY <2>2, <3>1, <3>2, <3>3, PartsKept
  <2>4. Numbers(open', compiled, begun + 1)
    <3>1. \A i \in 1..Len(open') : open'[i].id \in Nat
      BY <2>2, PartFields
    <3> QED
      BY <1>3, <2>3, <3>1 DEF Numbers
  <2>5. CaseAhead(open', "none") /\ FuncAhead(open', "none", lexer_state.func)
    BY <1>2, <2>2, Running DEF CaseAhead, FuncAhead
  <2>6. open # <<>> => open[Len(open)].phase # "ready"
    BY <1>2, Running, InnerPart DEF InList
  <2>7. lexer_state.selection \in Int
        /\ lexer_state.selection - Pending("none") = lexer_state.selection - Pending(ahead)
    BY <1>2, Running DEF Pending
  <2>8. PassedOver(open', compiled, "none", lexer_state.selection)
    BY <1>2, <2>2, <2>6, <2>7, Running, PassedSame
  <2> QED
    BY <1>2, <2>1, <2>3, <2>4, <2>5, <2>8, Running DEF OrderKept, InOrder
<1> QED
  BY <1>4, <1>5

(* A part is reduced: it is compiled, or passes on how it ends.            *)
LEMMA BlockOrder ==
  ASSUME OrderInv, NEW kind, Complete(kind), kind \notin {"elif", "case"},
         NEW ends \in Ends, NEW compiles \in BOOLEAN, NEW counted \in BOOLEAN,
         Reduced(Front(open), inner.id, ends, compiles, counted),
         inner.ends # "run" \/ kind = "switch" => ends # "run",
         compiles /\ ends = "run" =>
           kind \in {"while", "func"} \/ (kind = "if" /\ inner.ends = "run" /\ lexer_state.selection = 1),
         kind = "func" => compiles,
         kind # "func" => lexer_state'.func = lexer_state.func,
         lexer_state'.selection = lexer_state.selection - (IF kind \in IfKinds THEN 1 ELSE 0)
  PROVE  OrderKept
<1>1. /\ status = "run" /\ open # <<>> /\ inner.kind = kind
      /\ ahead' = ahead /\ begun' = begun
  BY DEF Complete
<1>2. /\ inner = open[Len(open)] /\ Len(open) \in Nat \ {0} /\ inner.id \in Nat
      /\ Front(open) \in Seq(PartSet) /\ Len(Front(open)) = Len(open) - 1
      /\ \A i \in 1..Len(open)-1 : Front(open)[i] = open[i]
  BY <1>1, Running, InnerPart
<1>3. CASE compiles /\ ends = "run"
  <2>1. /\ compiled' = Append(compiled, inner.id)
        /\ status' = "run" => open' = <<>>
    BY <1>3 DEF Reduced, Dereferenced
  <2>2. \A j \in 1..Len(compiled) : compiled[j] < inner.id
    BY <1>3, NotPassed DEF IfKinds
  <2>3. inner.id <= begun' /\ begun' \in Nat
    BY <1>1, <1>2, Running DEF Numbers
  <2>4. ahead' # "case" /\ (ahead' = "func" => lexer_state'.func)
    BY <1>1, CompleteAhead, Running DEF FuncAhead
  <2> QED
    BY <1>1, <1>2, <2>1, <2>2, <2>3, <2>4, RootCompiled
<1>4. CASE ~(compiles /\ ends = "run")
  <2>1. /\ compiled' = compiled
        /\ open' = IF Front(open) = <<>> THEN Front(open) ELSE Ending(Front(open), ends)
        /\ compiles => status' # "run"
    BY <1>4 DEF Reduced
  <2>2. CASE compiles
    BY <1>1, <2>1, <2>2, Running DEF OrderKept
  <2>3. CASE ~compiles
    <3>1. /\ open' \in Seq(PartSet) /\ Len(open') = Len(open) - 1
          /\ \A i \in 1..Len(open)-1 :
               /\ open'[i].kind = open[i].kind /\ open'[i].id = open[i].id
               /\ open'[i].phase = open[i].phase
               /\ open[i].ends # "run" => open'[i].ends # "run"
          /\ Len(open) > 1 /\ ends # "run" => open'[Len(open)-1].ends # "run"
      <4> DEFINE outer == Front(open)
      <4>1. CASE outer = <<>>
        <5>1. Len(open) = 1 /\ open' = <<>>
          BY <1>2, <2>1, <4>1
        <5> QED
          BY <5>1
      <4>2. CASE outer # <<>>
        <5>1. open' = Ending(outer, ends) /\ outer \in Seq(PartSet) /\ Len(outer) = Len(open) - 1
              /\ \A i \in 1..Len(outer) : outer[i] = open[i]
          BY <1>2, <2>1, <4>2
        <5> HIDE DEF outer
        <5>2. /\ open' \in Seq(PartSet) /\ Len(open') = Len(outer)
              /\ \A i \in 1..Len(outer) :
                   /\ open'[i].kind = outer[i].kind /\ open'[i].id = outer[i].id
                   /\ open'[i].phase = outer[i].phase
                   /\ outer[i].ends # "run" => open'[i].ends # "run"
              /\ ends # "run" => open'[Len(outer)].ends # "run"
          BY <4>2, <5>1, EndingKept
        <5>3. PICK l \in Nat : l = Len(outer) /\ l = Len(open) - 1
          BY <1>2, <5>1
        <5> QED
          BY <5>1, <5>2, <5>3
      <4> QED
        BY <4>1, <4>2
    <3>2. Len(open) > 1 => \/ inner.ends = "run" /\ kind # "switch"
                           \/ open'[Len(open)-1].ends # "run"
                           \/ kind = "case"
      BY <3>1
    <3>3. lexer_state'.func = lexer_state.func
      BY <2>3
    <3> QED
      BY <2>1, <3>1, <3>2, <3>3, GoneOrder
  <2> QED
    BY <2>2, <2>3
<1> QED
  BY <1>3, <1>4

LEMMA BlocksOrder ==
  ASSUME OrderInv, ReduceIf \/ ReduceWhile \/ ReduceFunc \/ ReduceScope \/ ReduceSwitch
  PROVE  OrderKept
<1>1. status = "run" /\ open # <<>>
  BY DEF ReduceIf, ReduceWhile, ReduceFunc, ReduceScope, ReduceSwitch, Complete
<1>2. /\ inner.ends \in Ends /\ "panic" \in Ends /\ lexer_state \in LexerStates
      /\ lexer_state.selection \in Int
  BY <1>1, Running, InnerPart DEF Ends
<1>3. CASE ReduceIf
  <2>1. PICK compiles \in BOOLEAN, counted \in BOOLEAN :
          /\ Complete("if") /\ Reduced(Front(open), inner.id, inner.ends, compiles, counted)
          /\ lexer_state' = Discounted /\ (compiles => IfCompiles)
    BY <1>3, CompilesTyped, Zenon DEF ReduceIf
  <2>2. /\ lexer_state'.func = lexer_state.func
        /\ lexer_state'.selection = lexer_state.selection - (IF "if" \in IfKinds THEN 1 ELSE 0)
    BY <1>2, <2>1 DEF Discounted, LexerStates, IfKinds
  <2>3. compiles => lexer_state.selection = 1
    BY <1>2, <2>1 DEF IfCompiles
  <2> QED
    BY <1>2, <2>1, <2>2, <2>3, BlockOrder
<1>4. CASE ReduceWhile
  <2>1. PICK compiles \in BOOLEAN, counted \in BOOLEAN :
          /\ Complete("while") /\ Reduced(Front(open), inner.id, inner.ends, compiles, counted)
          /\ lexer_state' = LoopLeft
    BY <1>4, CompilesTyped, Zenon DEF ReduceWhile
  <2>2. /\ lexer_state'.func = lexer_state.func
        /\ lexer_state'.selection = lexer_state.selection - (IF "while" \in IfKinds THEN 1 ELSE 0)
    BY <1>2, <2>1 DEF LoopLeft, LexerStates, IfKinds
  <2> QED
    BY <1>2, <2>1, <2>2, BlockOrder
<1>5. CASE ReduceFunc
  <2>1. Complete("func") /\ Reduced(Front(open), inner.id, inner.ends, TRUE, TRUE)
        /\ lexer_state' = [lexer_state EXCEPT !.func = FALSE]
    BY <1>5 DEF ReduceFunc
  <2>2. lexer_state'.selection = lexer_state.selection - (IF "func" \in IfKinds THEN 1 ELSE 0)
    BY <1>2, <2>1 DEF LexerStates, IfKinds
  <2> QED
    BY <1>2, <2>1, <2>2, CompilesTyped, BlockOrder
<1>6. ASSUME NEW kind \in {"scope", "switch"}, Complete(kind), lexer_state' = lexer_state,
             Reduced(Front(open), inner.id, "panic", FALSE, FALSE)
      PROVE  OrderKept
  <2>1. lexer_state'.selection = lexer_state.selection - (IF kind \in IfKinds THEN 1 ELSE 0)
    BY <1>2, <1>6 DEF IfKinds
  <2> QED
    BY <1>2, <1>6, <2>1, CompilesTyped, BlockOrder
<1>7. CASE ReduceScope
  BY <1>6, <1>7 DEF ReduceScope
<1>8. CASE ReduceSwitch
  BY <1>6, <1>8 DEF ReduceSwitch
<1> QED
  BY <1>3, <1>4, <1>5, <1>7, <1>8

LEMMA CaseOrder ==
  ASSUME OrderInv, ReduceCase
  PROVE  OrderKept
<1>1. /\ Complete("case") /\ open' = Front(open) /\ compiled' = compiled
      /\ lexer_state' = lexer_state /\ status = "run" /\ open # <<>>
  BY DEF ReduceCase, Complete
<1>2. /\ open' \in Seq(PartSet) /\ Len(open') = Len(open) - 1
      /\ \A i \in 1..Len(open)-1 : open'[i] = open[i]
  BY <1>1, Running, InnerPart
<1>3. "case" \notin IfKinds /\ lexer_state.selection = lexer_state.selection - 0
  BY <1>1, Running DEF IfKinds
<1> QED
  BY <1>1, <1>2, <1>3, GoneOrder

(* An elif is compiled on its own: no loop and no function is open, and    *)
(* the counter is zero from now on for all that is.                        *)
LEMMA ElifOrder ==
  ASSUME OrderInv, ReduceElif
  PROVE  OrderKept
<1> DEFINE l     == Len(open) - 1
           outer == [Front(open) EXCEPT ![l].phase = "ready"]
           null  == IfCompiles /\ inner.ends = "run"
<1>1. /\ Complete("elif") /\ status = "run" /\ open # <<>> /\ inner.kind = "elif"
      /\ ahead' = ahead /\ begun' = begun
      /\ compiled' = (IF null THEN Append(compiled, inner.id) ELSE compiled)
      /\ status' = (IF IfCompiles THEN inner.ends ELSE "run")
      /\ open' = (IF null THEN outer ELSE Ending(outer, "crash"))
      /\ lexer_state' = Discounted
  BY DEF ReduceElif, Complete
<1>2. /\ inner = open[Len(open)] /\ Len(open) \in Nat \ {0} /\ inner.id \in Nat
      /\ Front(open) \in Seq(PartSet) /\ Len(Front(open)) = l
      /\ \A i \in 1..l : Front(open)[i] = open[i]
  BY <1>1, Running, InnerPart
<1>3. l \in Nat \ {0} /\ open[l].kind \in IfKinds
  BY <1>1, <1>2, Running DEF Shapes
<1>4. /\ lexer_state'.func = lexer_state.func
      /\ lexer_state'.selection = lexer_state.selection - 1 /\ lexer_state.selection \in Int
  BY <1>1, Running DEF LexerStates, Discounted
<1>5. /\ outer \in Seq(PartSet) /\ Len(outer) = l /\ outer # <<>>
      /\ \A i \in 1..l : /\ outer[i].kind = open[i].kind /\ outer[i].id = open[i].id
                         /\ outer[i].ends = open[i].ends
                         /\ outer[i].phase = IF i = l THEN "ready" ELSE open[i].phase
  <2> DEFINE last == [Front(open)[l] EXCEPT !.phase = "ready"]
  <2>1. l \in 1..l /\ Front(open)[l] = open[l] /\ Front(open)[l] \in PartSet
    BY <1>2, <1>3
  <2>2. /\ last \in PartSet /\ last.kind = open[l].kind /\ last.id = open[l].id
        /\ last.ends = open[l].ends /\ last.phase = "ready"
    BY <2>1 DEF PartSet
  <2>3. outer = [Front(open) EXCEPT ![l] = last]
    OBVIOUS
  <2> HIDE DEF last, outer, l
  <2> QED
    BY <1>2, <1>3, <2>1, <2>2, <2>3
<1> HIDE DEF outer, l, null
<1>6. CASE null
  <2>1. /\ IfCompiles /\ inner.ends = "run" /\ open' = outer
        /\ compiled' = Append(compiled, inner.id)
    BY <1>1, <1>6 DEF null
  <2>2. /\ lexer_state.selection = 1 /\ lexer_state.iteration = 0 /\ ~lexer_state.func
    BY <1>4, <2>1 DEF IfCompiles
  <2>3. \A j \in 1..Len(compiled) : compiled[j] < inner.id
    BY <1>1, <2>1, <2>2, NotPassed DEF IfKinds
  <2>4. /\ Ascending(compiled') /\ \A j \in 1..Len(compiled') : compiled'[j] <= inner.id
        /\ compiled' \in Seq(Nat)
    <3>1. compiled \in Seq(Nat) /\ Ascending(compiled)
      BY <1>1, Running
    <3> QED
      BY <1>2, <2>1, <2>3, <3>1, AscendingAppend
  <2>5. Numbers(outer, compiled, begun) /\ Shapes(outer, lexer_state.func)
    <3>1. \A i \in 1..Len(outer) :
            /\ outer[i].kind = open[i].kind /\ outer[i].id = open[i].id
            /\ outer[i].phase \in {open[i].phase, "ready"}
      BY <1>5
    <3>2. Len(outer) \in {Len(open), Len(open) - 1}
      BY <1>5 DEF l
    <3>3. open \in Seq(PartSet) /\ Numbers(open, compiled, begun) /\ Shapes(open, lexer_state.func)
      BY <1>1, Running
    <3> QED
      BY <1>5, <3>1, <3>2, <3>3, PartsKept
  <2>6. Numbers(outer, compiled', begun)
    <3>1. inner.id <= begun /\ begun \in Nat
      BY <1>1, <1>2, Running DEF Numbers
    <3>2. \A j \in 1..Len(compiled') : compiled'[j] \in Nat
      BY <2>4
    <3>3. \A j \in 1..Len(compiled') : compiled'[j] <= begun
      BY <1>2, <2>4, <3>1, <3>2
    <3> QED
      BY <2>5, <3>3 DEF Numbers
  <2>7. CaseAhead(outer, ahead) /\ FuncAhead(outer, ahead, lexer_state.func)
    <3>1. \A i \in 1..l : ~(outer[i].kind = "func" /\ outer[i].phase = "ready")
      BY <1>1, <1>3, <1>5, CompleteAhead DEF IfKinds, l
    <3> QED
      BY <1>1, <1>5, <3>1, CompleteAhead, Running DEF CaseAhead, FuncAhead
  <2>8. PassedOver(outer, compiled', ahead, 0)
    <3> SUFFICES ASSUME NEW i \in 1..l
                 PROVE  /\ outer[i].kind \notin {"while", "func"}
                        /\ outer[i].kind \in IfKinds => Low(outer, i, ahead, 0)
      BY <1>5 DEF PassedOver
    <3>1. i \in 1..Len(open) /\ outer[i].kind = open[i].kind /\ open \in Seq(PartSet)
      BY <1>1, <1>2, <1>5, Running DEF l
    <3>2. open[i].kind # "while"
      <4>1. Count(open, "while") \in Nat
        BY <3>1, CountNat
      <4>2. lexer_state.iteration = Count(open, "while") + (IF ahead = "while" THEN 1 ELSE 0)
        BY CountersCounts DEF OrderInv, Counts
      <4>3. Count(open, "while") = 0
        BY <2>2, <4>1, <4>2
      <4> QED
        BY <3>1, <4>3, CountOne
    <3>3. open[i].kind # "func"
      BY <1>1, <2>2, <3>1, Running DEF Shapes
    <3>4. Low(outer, i, ahead, 0)
      <4>1. CASE i = l
        BY <1>5, <4>1 DEF Low
      <4>2. CASE i # l
        <5>1. l \in Above(outer, i)
          BY <1>3, <1>5, <4>2 DEF Above
        <5>2. i \in Nat
          OBVIOUS
        <5>3. Cardinality(Above(outer, i)) \in Nat /\ IsFiniteSet(Above(outer, i))
          BY <1>5, <5>2, AboveNat
        <5>4. Cardinality(Above(outer, i)) # 0
          BY <5>1, <5>3, FS_EmptySet
        <5>5. Pending(ahead) \in Nat
          BY DEF Pending
        <5>6. 0 - Cardinality(Above(outer, i)) - Pending(ahead) <= -1
          BY <5>3, <5>4, <5>5
        <5> QED
          BY <5>6 DEF Low
      <4> QED
        BY <4>1, <4>2
    <3> QED
      BY <3>1, <3>2, <3>3, <3>4
  <2>9. lexer_state'.selection = 0
    BY <1>4, <2>2
  <2> QED
    BY <1>1, <1>4, <2>1, <2>4, <2>5, <2>6, <2>7, <2>8, <2>9 DEF OrderKept, InOrder
<1>7. CASE ~null
  <2>1. compiled' = compiled /\ open' = Ending(outer, "crash")
    BY <1>1, <1>7
  <2>2. /\ open' \in Seq(PartSet) /\ Len(open') = l
        /\ \A i \in 1..l :
             /\ open'[i].kind = outer[i].kind /\ open'[i].id = outer[i].id
             /\ open'[i].phase = outer[i].phase
             /\ outer[i].ends # "run" => open'[i].ends # "run"
        /\ open'[l].ends # "run"
    BY <1>5, <2>1, EndingKept DEF Ends
  <2>3. \A i \in 1..l :
          /\ open'[i].kind = open[i].kind /\ open'[i].id = open[i].id
          /\ open'[i].phase \in {open[i].phase, "ready"}
          /\ open[i].kind = "func" => open'[i].phase = open[i].phase
          /\ open[i].ends # "run" => open'[i].ends # "run"
    BY <1>3, <1>5, <2>2 DEF IfKinds
  <2>4. lexer_state'.selection = lexer_state.selection - (IF "elif" \in IfKinds THEN 1 ELSE 0)
    BY <1>4 DEF IfKinds
  <2> QED
    BY <1>1, <1>4, <2>1, <2>2, <2>3, <2>4, GoneOrder DEF l
<1> QED
  BY <1>6, <1>7

-----------------------------------------------------------------------------
LEMMA OrderInit == Init => OrderInv
<1> SUFFICES ASSUME Init PROVE OrderInv
  OBVIOUS
<1>1. open = <<>> /\ compiled = <<>> /\ ahead = "none"
  BY DEF Init
<1>2. TypeOK /\ CountersMatch
  BY CountersInit
<1>3. Ascending(compiled) /\ Numbers(open, compiled, begun) /\ Shapes(open, lexer_state.func)
      /\ CaseAhead(open, ahead) /\ FuncAhead(open, ahead, lexer_state.func)
      /\ PassedOver(open, compiled, ahead, lexer_state.selection)
  BY <1>1 DEF Ascending, Numbers, Shapes, CaseAhead, FuncAhead, PassedOver
<1> QED
  BY <1>2, <1>3 DEF OrderInv, InOrder

LEMMA OrderStep == OrderInv /\ [Next]_vars => OrderInv'
<1> SUFFICES ASSUME OrderInv, [Next]_vars PROVE OrderInv'
  OBVIOUS
<1>1. TypeOK' /\ CountersMatch'
  BY CountersStep DEF OrderInv
<1>2. ASSUME \E tok \in Tokens : Lex(tok) PROVE OrderKept
  BY <1>2, LexOrder
<1>3. ASSUME \E kind \in Starts : Begin(kind) PROVE OrderKept
  BY <1>3, BeginOrder
<1>4. ASSUME BeginElif \/ BeginCase PROVE OrderKept
  BY <1>4, BeginPartOrder
<1>5. ASSUME BeginElse \/ CloseBrace \/ Newline \/ SyntaxError PROVE OrderKept
  BY <1>5, ShiftOrder
<1>6. ASSUME ReduceExpr \/ ReduceReturn PROVE OrderKept
  BY <1>6, SimpleOrder
<1>7. ASSUME ReduceIf \/ ReduceWhile \/ ReduceFunc \/ ReduceScope \/ ReduceSwitch PROVE OrderKept
  BY <1>7, BlocksOrder
<1>8. ASSUME ReduceElif PROVE OrderKept
  BY <1>8, ElifOrder
<1>9. ASSUME ReduceCase PROVE OrderKept
  BY <1>9, CaseOrder
<1>10. ASSUME UNCHANGED vars PROVE OrderKept
  BY <1>10 DEF vars, OrderInv, OrderKept
<1>11. OrderKept
  BY <1>2, <1>3, <1>4, <1>5, <1>6, <1>7, <1>8, <1>9, <1>10 DEF Next
<1> QED
  BY <1>1, <1>11 DEF OrderKept, OrderInv

(* However long the session and whatever was read in it, the numbers of    *)
(* what has been compiled ascend: nothing runs twice, and nothing runs     *)
(* after a statement that was begun later.                                 *)
THEOREM NothingEverTwice == Spec => []NothingTwice
<1>1. OrderInv => NothingTwice
  <2> SUFFICES ASSUME OrderInv PROVE NothingTwice
    OBVIOUS
  <2>1. compiled \in Seq(Nat) /\ Ascending(compiled)
    BY DEF OrderInv, TypeOK
  <2> QED
    BY <2>1 DEF Ascending, NothingTwice
<1> QED
  BY <1>1, OrderInit, OrderStep, PTL DEF Spec
=============================================================================
