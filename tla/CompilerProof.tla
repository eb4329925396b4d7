---------------------------- MODULE CompilerProof ----------------------------
(***************************************************************************)
(* Proofs about the compiler's scopes: whatever blocks were opened and     *)
(* closed before, the variables visible at any moment have slots of their  *)
(* own, within the frame the machine will allocate.                        *)
(***************************************************************************)
EXTENDS Compiler, WellFoundedInduction, TLAPS

-----------------------------------------------------------------------------
(* Folds.  A definition by recursion on the length of a prefix is a CHOOSE *)
(* of a function that satisfies an equation; that there is one follows     *)
(* from the least number for which there is none.                          *)

Less == {ss \in Nat \X Nat : ss[1] < ss[2]}

(* Induction, for a property that is given as the set of its numbers.      *)
LEMMA Induction ==
  ASSUME NEW S, 0 \in S, \A n \in Nat : n \in S => n + 1 \in S
  PROVE  \A n \in Nat : n \in S
<1> DEFINE T == {n \in Nat : n \notin S}
<1> SUFFICES T = {}
  OBVIOUS
<1> SUFFICES ASSUME T # {} PROVE FALSE
  OBVIOUS
<1>1. IsWellFoundedOn(Less, Nat)
  BY NatLessThanWellFounded, Zenon DEF OpToRel, Less
<1>2. T \subseteq Nat
  OBVIOUS
<1> HIDE DEF T
<1>3. PICK x \in T : \A y \in T : ~ (<<y, x>> \in Less)
  BY <1>1, <1>2, WFMin, Zenon
<1> USE DEF T
<1>4. x \in Nat /\ x # 0
  BY <1>3
<1>5. x - 1 \in Nat /\ <<x - 1, x>> \in Less /\ (x - 1) + 1 = x
  BY <1>4 DEF Less
<1>6. x - 1 \in S
  BY <1>3, <1>5
<1> QED
  BY <1>3, <1>5, <1>6

LEMMA RootsUnfold ==
  ASSUME NEW e, NEW l \in Nat, l = Len(e)
  PROVE  Roots(e) = [n \in 0..l |-> IF n = 0 THEN 0 ELSE Roots(e)[n-1] - Operands(e[n]) + 1]
<1> DEFINE Is(f, m) == f = [n \in 0..m |-> IF n = 0 THEN 0 ELSE f[n-1] - Operands(e[n]) + 1]
           S == {m \in Nat : \E f : Is(f, m)}
<1>1. 0 \in S
  <2>1. Is([n \in 0..0 |-> 0], 0)
    OBVIOUS
  <2> QED
    BY <2>1
<1>2. ASSUME NEW m \in Nat, m \in S PROVE m + 1 \in S
  <2>1. PICK f : Is(f, m)
    BY <1>2
  <2> DEFINE g == [n \in 0..m+1 |-> IF n <= m THEN f[n] ELSE f[m] - Operands(e[m+1]) + 1]
  <2>2. ASSUME NEW n \in 0..m+1
        PROVE  g[n] = IF n = 0 THEN 0 ELSE g[n-1] - Operands(e[n]) + 1
    <3>1. CASE n = m + 1
      BY <3>1
    <3>2. CASE n # m + 1
      <4>1. n \in 0..m /\ g[n] = f[n] /\ (n # 0 => g[n-1] = f[n-1])
        BY <3>2
      <4>2. f[n] = IF n = 0 THEN 0 ELSE f[n-1] - Operands(e[n]) + 1
        BY <2>1, <4>1
      <4> QED
        BY <4>1, <4>2
    <3> QED
      BY <3>1, <3>2
  <2>3. Is(g, m + 1)
    BY <2>2
  <2>4. \E h : Is(h, m + 1)
    <3> HIDE DEF Is, g
    <3> QED
      BY <2>3
  <2> QED
    BY <2>4
<1>3. \E f : Is(f, l)
  <2>1. \A m \in Nat : m \in S => m + 1 \in S
    BY <1>2
  <2> HIDE DEF S
  <2>2. l \in S
    BY <1>1, <2>1, Induction
  <2> QED
    BY <2>2 DEF S
<1>4. Roots(e) = CHOOSE f : Is(f, l)
  BY DEF Roots
<1> HIDE DEF Is
<1>5. Is(Roots(e), l)
  BY <1>3, <1>4
<1> QED
  BY <1>5 DEF Is

NoTerms == [ok |-> TRUE, stk |-> <<>>]

LEMMA TermsUnfold ==
  ASSUME NEW e, NEW l \in Nat, l = Len(e)
  PROVE  TermsAfter(e) = [n \in 0..l |-> IF n = 0 THEN NoTerms ELSE CompileNode(TermsAfter(e)[n-1], e[n])]
<1> DEFINE Is(f, m) == f = [n \in 0..m |-> IF n = 0 THEN NoTerms ELSE CompileNode(f[n-1], e[n])]
           S == {m \in Nat : \E f : Is(f, m)}
<1>1. 0 \in S
  <2>1. Is([n \in 0..0 |-> NoTerms], 0)
    OBVIOUS
  <2> QED
    BY <2>1
<1>2. ASSUME NEW m \in Nat, m \in S PROVE m + 1 \in S
  <2>1. PICK f : Is(f, m)
    BY <1>2
  <2> DEFINE g == [n \in 0..m+1 |-> IF n <= m THEN f[n] ELSE CompileNode(f[m], e[m+1])]
  <2>2. ASSUME NEW n \in 0..m+1
        PROVE  g[n] = IF n = 0 THEN NoTerms ELSE CompileNode(g[n-1], e[n])
    <3>1. CASE n = m + 1
      BY <3>1
    <3>2. CASE n # m + 1
      <4>1. n \in 0..m /\ g[n] = f[n] /\ (n # 0 => g[n-1] = f[n-1])
        BY <3>2
      <4>2. f[n] = IF n = 0 THEN NoTerms ELSE CompileNode(f[n-1], e[n])
        BY <2>1, <4>1
      <4> QED
        BY <4>1, <4>2
    <3> QED
      BY <3>1, <3>2
  <2>3. Is(g, m + 1)
    BY <2>2
  <2>4. \E h : Is(h, m + 1)
    <3> HIDE DEF Is, g
    <3> QED
      BY <2>3
  <2> QED
    BY <2>4
<1>3. \E f : Is(f, l)
  <2>1. \A m \in Nat : m \in S => m + 1 \in S
    BY <1>2
  <2> HIDE DEF S
  <2>2. l \in S
    BY <1>1, <2>1, Induction
  <2> QED
    BY <2>2 DEF S
<1>4. TermsAfter(e) = CHOOSE f : Is(f, l)
  BY DEF TermsAfter, NoTerms
<1> HIDE DEF Is
<1>5. Is(TermsAfter(e), l)
  BY <1>3, <1>4
<1> QED
  BY <1>5 DEF Is

Sizes(size, max) == [size |-> size, max |-> max]

Tracked(t, l, size, max, code) ==
  t = [n \in 0..l |-> IF n = 0 THEN Sizes(size, max) ELSE Counted(t[n-1], code[n])]

LEMMA TrackUnfold ==
  ASSUME NEW size, NEW max, NEW code, NEW l \in Nat, l = Len(code)
  PROVE  \E t : Tracked(t, l, size, max, code) /\ Track(size, max, code) = t[l]
<1> DEFINE Is(f, m) == f = [n \in 0..m |-> IF n = 0 THEN Sizes(size, max) ELSE Counted(f[n-1], code[n])]
           S == {m \in Nat : \E f : Is(f, m)}
<1>1. 0 \in S
  <2>1. Is([n \in 0..0 |-> Sizes(size, max)], 0)
    OBVIOUS
  <2> QED
    BY <2>1
<1>2. ASSUME NEW m \in Nat, m \in S PROVE m + 1 \in S
  <2>1. PICK f : Is(f, m)
    BY <1>2
  <2> DEFINE g == [n \in 0..m+1 |-> IF n <= m THEN f[n] ELSE Counted(f[m], code[m+1])]
  <2>2. ASSUME NEW n \in 0..m+1
        PROVE  g[n] = IF n = 0 THEN Sizes(size, max) ELSE Counted(g[n-1], code[n])
    <3>1. CASE n = m + 1
      BY <3>1
    <3>2. CASE n # m + 1
      <4>1. n \in 0..m /\ g[n] = f[n] /\ (n # 0 => g[n-1] = f[n-1])
        BY <3>2
      <4>2. f[n] = IF n = 0 THEN Sizes(size, max) ELSE Counted(f[n-1], code[n])
        BY <2>1, <4>1
      <4> QED
        BY <4>1, <4>2
    <3> QED
      BY <3>1, <3>2
  <2>3. Is(g, m + 1)
    BY <2>2
  <2>4. \E h : Is(h, m + 1)
    <3> HIDE DEF Is, g
    <3> QED
      BY <2>3
  <2> QED
    BY <2>4
<1>3. \E f : Is(f, l)
  <2>1. \A m \in Nat : m \in S => m + 1 \in S
    BY <1>2
  <2> HIDE DEF S
  <2>2. l \in S
    BY <1>1, <2>1, Induction
  <2> QED
    BY <2>2 DEF S
<1>4. Track(size, max, code) = (CHOOSE f : Is(f, l))[l]
  BY DEF Track, Sizes
<1> HIDE DEF Is
<1>5. \E f : Is(f, l) /\ Track(size, max, code) = f[l]
  BY <1>3, <1>4
<1>6. \A f : Is(f, l) => Tracked(f, l, size, max, code)
  BY DEF Is, Tracked
<1> QED
  BY <1>5, <1>6

-----------------------------------------------------------------------------
(* The shape of the scopes.                                                *)

(* The first free slot of scope s, and the frame's first scope, of any     *)
(* sequence of scopes.                                                     *)
Free(sc, s) == Len(sc[s].vars) + sc[s].off

FrameBase(sc) == IF Len(sc) >= 2 /\ sc[2].kind = "func" THEN 2 ELSE 1

(* The scopes b..t of one frame: each block numbers its variables from     *)
(* where the blocks around it end, and the first scope has the maximum.    *)
Numbered(sc, b, t) ==
  /\ \A s \in b..t : Free(sc, s) <= sc[b].max
  /\ \A s \in b..t : \A j \in 1..Len(sc[s].vars) :
       sc[s].vars[j].index = (sc[s].off + j - 1) % ByteRange
  /\ \A s, u \in b..t : s < u => Free(sc, s) <= sc[u].off

(* The inductive invariant: the root's own frame is kept in order while a  *)
(* function is compiled on top of it.                                      *)
ScopesOK(sc) ==
  /\ sc \in Seq(Scope) /\ Len(sc) >= 1
  /\ sc[1].kind = "root"
  /\ \A s \in 3..Len(sc) : sc[s].kind # "func"
  /\ Numbered(sc, 1, 1)
  /\ Numbered(sc, FrameBase(sc), Len(sc))

-----------------------------------------------------------------------------
(* What ScopesOK says of the slots.                                        *)

LEMMA Modulo ==
  ASSUME NEW n \in Nat
  PROVE  n % ByteRange \in 0..ByteRange-1 /\ n % ByteRange <= n /\ (n < ByteRange => n % ByteRange = n)
<1>1. PICK b \in Nat \ {0} : b = ByteRange
  BY BytesAssumption
<1>2. n % b \in 0..b-1 /\ n % b <= n /\ (n < b => n % b = n)
  BY <1>1
<1> QED
  BY <1>1, <1>2

LEMMA SlotArithmetic ==
  ASSUME NEW o \in Nat, NEW l \in Nat, NEW j \in 1..l
  PROVE  o + j - 1 \in Nat /\ o <= o + j - 1 /\ o + j - 1 < l + o
OBVIOUS

LEMMA Below ==
  ASSUME NEW a \in Nat, NEW b \in Nat, NEW c \in Nat, NEW d \in Nat, a < b, b <= c, c <= d
  PROVE  a < d
OBVIOUS

LEMMA AtLeastTwo ==
  ASSUME NEW n \in Nat \ {0}, n # 1
  PROVE  n >= 2 /\ n + 1 >= 2 /\ 2 \in 1..n /\ n - 1 \in Nat \ {0} /\ n - 1 <= n
OBVIOUS

LEMMA Appended ==
  ASSUME NEW S, NEW s \in Seq(S), NEW x \in S
  PROVE  /\ Append(s, x) \in Seq(S) /\ Len(Append(s, x)) = Len(s) + 1
         /\ Append(s, x)[Len(s) + 1] = x
         /\ \A i \in 1..Len(s) : Append(s, x)[i] = s[i]
OBVIOUS

LEMMA SecondAppended ==
  ASSUME NEW S, NEW s \in Seq(S), NEW x \in S, Len(s) = 1
  PROVE  /\ Append(s, x) \in Seq(S) /\ Len(Append(s, x)) = 2
         /\ Append(s, x)[1] = s[1] /\ Append(s, x)[2] = x
<1> DEFINE a == Append(s, x)
<1>1. /\ a \in Seq(S) /\ Len(a) = Len(s) + 1 /\ a[Len(s) + 1] = x
      /\ \A i \in 1..Len(s) : a[i] = s[i]
  <2>1. a \in Seq(S)
    BY Appended, Zenon
  <2>2. Len(a) = Len(s) + 1
    BY Appended, Zenon
  <2>3. a[Len(s) + 1] = x
    BY Appended, Zenon
  <2>4. \A i \in 1..Len(s) : a[i] = s[i]
    OBVIOUS
  <2> QED
    BY <2>1, <2>2, <2>3, <2>4, Zenon
<1>2. Len(s) + 1 = 2 /\ 1 \in 1..Len(s)
  OBVIOUS
<1> HIDE DEF a
<1>3. a \in Seq(S) /\ Len(a) = 2 /\ a[1] = s[1] /\ a[2] = x
  BY <1>1, <1>2
<1> QED
  BY <1>3 DEF a

LEMMA Concatenated ==
  ASSUME NEW S, NEW s \in Seq(S), NEW x \in S
  PROVE  /\ s \o <<x>> = Append(s, x)
         /\ s \o <<>> = s
OBVIOUS

LEMMA ScopeFields ==
  ASSUME NEW sc \in Seq(Scope), NEW s \in 1..Len(sc)
  PROVE  /\ sc[s].kind \in ScopeKinds /\ sc[s].cap \in Nat /\ sc[s].off \in Nat
         /\ sc[s].vars \in Seq(Var) /\ sc[s].max \in Nat
         /\ Len(sc[s].vars) \in Nat /\ Free(sc, s) \in Nat
         /\ sc[s].off <= Free(sc, s)
<1>1. sc[s] \in Scope
  OBVIOUS
<1>2. /\ sc[s].kind \in ScopeKinds /\ sc[s].cap \in Nat /\ sc[s].off \in Nat
      /\ sc[s].vars \in Seq(Var) /\ sc[s].max \in Nat
  BY <1>1 DEF Scope
<1> QED
  BY <1>2 DEF Free

(* The index of a variable, before it is cut to a byte.                    *)
Slot(sc, s, j) == sc[s].off + j - 1

LEMMA SlotBounds ==
  ASSUME NEW sc, ScopesOK(sc), NEW s \in FrameBase(sc)..Len(sc),
         NEW j \in 1..Len(sc[s].vars)
  PROVE  /\ Slot(sc, s, j) \in Nat
         /\ sc[s].off <= Slot(sc, s, j) /\ Slot(sc, s, j) < Free(sc, s)
         /\ Free(sc, s) <= sc[FrameBase(sc)].max
         /\ sc[s].vars[j].index = Slot(sc, s, j) % ByteRange
<1>1. sc \in Seq(Scope) /\ s \in 1..Len(sc) /\ FrameBase(sc) \in 1..Len(sc)
  BY DEF ScopesOK, FrameBase
<1>2. sc[s].off \in Nat /\ Len(sc[s].vars) \in Nat
  BY <1>1, ScopeFields
<1>3. /\ sc[s].vars[j].index = (sc[s].off + j - 1) % ByteRange
      /\ Free(sc, s) <= sc[FrameBase(sc)].max
  BY DEF ScopesOK, Numbered
<1>4. /\ sc[s].off + j - 1 \in Nat /\ sc[s].off <= sc[s].off + j - 1
      /\ sc[s].off + j - 1 < Len(sc[s].vars) + sc[s].off
  BY <1>2, SlotArithmetic
<1> QED
  BY <1>3, <1>4 DEF Slot, Free

LEMMA SlotsBelowMax ==
  ASSUME NEW sc, ScopesOK(sc), NEW s \in FrameBase(sc)..Len(sc),
         NEW j \in 1..Len(sc[s].vars)
  PROVE  sc[s].vars[j].index < sc[FrameBase(sc)].max
<1>1. /\ sc \in Seq(Scope) /\ s \in 1..Len(sc) /\ FrameBase(sc) \in 1..Len(sc)
  BY DEF ScopesOK, FrameBase
<1>2. sc[FrameBase(sc)].max \in Nat /\ Free(sc, s) \in Nat
  BY <1>1, ScopeFields
<1>3. PICK n \in Nat : n = Slot(sc, s, j)
  BY SlotBounds
<1>4. n < Free(sc, s) /\ Free(sc, s) <= sc[FrameBase(sc)].max
      /\ sc[s].vars[j].index = n % ByteRange
  BY <1>3, SlotBounds
<1>5. n % ByteRange \in 0..ByteRange-1 /\ n % ByteRange <= n
  BY Modulo
<1> QED
  BY <1>2, <1>4, <1>5, BytesAssumption

LEMMA SlotsApart ==
  ASSUME NEW sc, ScopesOK(sc), sc[FrameBase(sc)].max <= ByteRange,
         NEW s \in FrameBase(sc)..Len(sc), NEW j \in 1..Len(sc[s].vars),
         NEW u \in FrameBase(sc)..Len(sc), NEW k \in 1..Len(sc[u].vars),
         s < u \/ (s = u /\ j # k)
  PROVE  sc[s].vars[j].index # sc[u].vars[k].index
<1>1. /\ sc \in Seq(Scope) /\ s \in 1..Len(sc) /\ u \in 1..Len(sc)
      /\ FrameBase(sc) \in 1..Len(sc)
  BY DEF ScopesOK, FrameBase
<1>2. PICK m \in Nat : m = Slot(sc, s, j)
  BY SlotBounds
<1>3. PICK n \in Nat : n = Slot(sc, u, k)
  BY SlotBounds
<1>4. /\ m < Free(sc, s) /\ Free(sc, s) <= sc[FrameBase(sc)].max
      /\ sc[s].vars[j].index = m % ByteRange
      /\ n < Free(sc, u) /\ Free(sc, u) <= sc[FrameBase(sc)].max
      /\ sc[u].vars[k].index = n % ByteRange
      /\ sc[u].off <= n
  BY <1>2, <1>3, SlotBounds
<1>5. /\ sc[FrameBase(sc)].max \in Nat /\ Free(sc, s) \in Nat /\ Free(sc, u) \in Nat
      /\ sc[s].off \in Nat /\ sc[u].off \in Nat
  BY <1>1, ScopeFields
<1>6. ByteRange \in Nat
  BY BytesAssumption
<1>7. m < ByteRange /\ n < ByteRange
  BY <1>4, <1>5, <1>6, Below
<1>8. sc[s].vars[j].index = m /\ sc[u].vars[k].index = n
  BY <1>4, <1>7, Modulo
<1>9. CASE s < u
  <2>1. Free(sc, s) <= sc[u].off
    BY <1>9 DEF ScopesOK, Numbered
  <2>2. m < n
    BY <1>4, <1>5, <2>1
  <2> QED
    BY <1>8, <2>2
<1>10. CASE s = u /\ j # k
  <2>1. m # n
    <3>1. PICK o \in Nat : o = sc[s].off
      BY <1>5
    <3>2. m = o + j - 1 /\ n = o + k - 1
      BY <1>2, <1>3, <1>10, <3>1 DEF Slot
    <3>3. j \in Int /\ k \in Int /\ j # k
      BY <1>10
    <3> QED
      BY <3>2, <3>3
  <2> QED
    BY <1>8, <2>1
<1> QED
  BY <1>9, <1>10

-----------------------------------------------------------------------------
(* How the operations on the scopes keep ScopesOK.                         *)

(* A block that is opened inside of the innermost scope.                   *)
LEMMA BlockOpens ==
  ASSUME NEW sc, ScopesOK(sc), NEW kind \in {"then", "else", "body"}, NEW cap \in Nat
  PROVE  ScopesOK(Append(sc, NewScope(kind, cap, Free(sc, Len(sc)))))
<1> DEFINE t  == Len(sc)
           b  == FrameBase(sc)
           n  == NewScope(kind, cap, Free(sc, t))
           sd == Append(sc, n)
<1>1. sc \in Seq(Scope) /\ t \in Nat \ {0} /\ b \in 1..t
  BY DEF ScopesOK, FrameBase
<1>2. Free(sc, t) \in Nat
  BY <1>1, ScopeFields
<1>3. /\ n.kind = kind /\ n.off = Free(sc, t) /\ n.vars = <<>> /\ n.max = 0 /\ n \in Scope
  <2>1. <<>> \in Seq(Var) /\ kind \in ScopeKinds
    BY DEF ScopeKinds
  <2> QED
    BY <1>2, <2>1 DEF NewScope, Scope
<1> HIDE DEF n
<1>4. /\ sd \in Seq(Scope) /\ Len(sd) = t + 1 /\ sd[t+1] = n
      /\ \A s \in 1..t : sd[s] = sc[s]
  BY <1>1, <1>3
<1> HIDE DEF sd
<1>5. FrameBase(sd) = b
  <2>1. CASE t = 1
    BY <1>3, <1>4, <2>1 DEF FrameBase
  <2>2. CASE t # 1
    <3>1. t >= 2 /\ t + 1 >= 2 /\ 2 \in 1..t
      BY <1>1, <2>2, AtLeastTwo
    <3>2. sd[2] = sc[2]
      BY <1>4, <3>1
    <3> QED
      BY <1>4, <3>1, <3>2 DEF FrameBase
  <2> QED
    BY <2>1, <2>2
<1>6. Free(sd, t+1) = Free(sc, t) /\ \A s \in 1..t : Free(sd, s) = Free(sc, s)
  BY <1>2, <1>3, <1>4 DEF Free
<1>7. sd[b] = sc[b] /\ sd[1] = sc[1]
  BY <1>1, <1>4
<1>8. /\ sc[1].kind = "root" /\ \A s \in 3..t : sc[s].kind # "func"
      /\ Numbered(sc, 1, 1) /\ Numbered(sc, b, t)
  BY DEF ScopesOK
<1>9. \A s \in 3..t+1 : sd[s].kind # "func"
  BY <1>1, <1>3, <1>4, <1>8
<1>10. Numbered(sd, 1, 1)
  BY <1>1, <1>4, <1>6, <1>7, <1>8 DEF Numbered
<1>11. Numbered(sd, b, t+1)
  <2>1. ASSUME NEW s \in b..t+1 PROVE Free(sd, s) <= sd[b].max
    BY <1>1, <1>6, <1>7, <1>8 DEF Numbered
  <2>2. ASSUME NEW s \in b..t+1, NEW j \in 1..Len(sd[s].vars)
        PROVE  sd[s].vars[j].index = (sd[s].off + j - 1) % ByteRange
    BY <1>1, <1>3, <1>4, <1>8 DEF Numbered
  <2>3. ASSUME NEW s \in b..t+1, NEW u \in b..t+1, s < u
        PROVE  Free(sd, s) <= sd[u].off
    <3>1. CASE u = t + 1
      <4>1. s \in b..t /\ s \in 1..t
        BY <1>1, <2>3, <3>1
      <4>2. Free(sd, s) = Free(sc, s) /\ sd[u].off = Free(sc, t) /\ Free(sc, s) \in Nat
        BY <1>1, <1>3, <1>4, <1>6, <3>1, <4>1, ScopeFields
      <4>3. CASE s = t
        BY <1>2, <4>2, <4>3
      <4>4. CASE s # t
        <5>1. Free(sc, s) <= sc[t].off
          BY <1>1, <1>8, <4>1, <4>4 DEF Numbered
        <5>2. sc[t].off \in Nat /\ sc[t].off <= Free(sc, t)
          BY <1>1, ScopeFields
        <5> QED
          BY <1>2, <4>2, <5>1, <5>2
      <4> QED
        BY <4>3, <4>4
    <3>2. CASE u # t + 1
      <4>1. s \in b..t /\ u \in b..t /\ s \in 1..t /\ u \in 1..t
        BY <1>1, <2>3, <3>2
      <4>2. Free(sd, s) = Free(sc, s) /\ sd[u] = sc[u]
        BY <1>4, <1>6, <4>1
      <4>3. Free(sc, s) <= sc[u].off
        BY <1>8, <2>3, <4>1 DEF Numbered
      <4> QED
        BY <4>2, <4>3
    <3> QED
      BY <3>1, <3>2
  <2> QED
    BY <2>1, <2>2, <2>3 DEF Numbered
<1>12. ScopesOK(sd)
  BY <1>1, <1>4, <1>5, <1>7, <1>8, <1>9, <1>10, <1>11 DEF ScopesOK
<1> QED
  BY <1>12 DEF sd, n

(* A scope, or the whole frame but its first scope, is taken away.         *)
LEMMA BlockCloses ==
  ASSUME NEW sc, ScopesOK(sc), sc[Len(sc)].kind # "root"
  PROVE  ScopesOK(Front(sc))
<1>1. PICK t \in Nat \ {0} : t = Len(sc) /\ sc \in Seq(Scope)
  BY DEF ScopesOK
<1>2. t # 1
  BY <1>1 DEF ScopesOK
<1>3. PICK r \in Nat \ {0} : r = t - 1 /\ r <= t /\ t >= 2 /\ 2 \in 1..t /\ t = r + 1
  BY <1>2, AtLeastTwo
<1> DEFINE sd == Front(sc)
<1>4. sd = SubSeq(sc, 1, r)
  BY <1>1, <1>3 DEF Front
<1>5. sd \in Seq(Scope) /\ Len(sd) = r /\ \A s \in 1..r : sd[s] = sc[s]
  BY <1>1, <1>3, <1>4
<1> HIDE DEF sd
<1>6. /\ sc[1].kind = "root" /\ \A s \in 3..t : sc[s].kind # "func"
      /\ Numbered(sc, 1, 1) /\ Numbered(sc, FrameBase(sc), t)
  BY <1>1 DEF ScopesOK
<1>7. sd[1].kind = "root" /\ \A s \in 3..r : sd[s].kind # "func"
  BY <1>3, <1>5, <1>6
<1>8. \A s \in 1..r : Free(sd, s) = Free(sc, s)
  BY <1>5 DEF Free
<1>9. Numbered(sd, 1, 1)
  BY <1>3, <1>5, <1>6, <1>8 DEF Numbered
<1>10. Numbered(sd, FrameBase(sd), r)
  <2>1. CASE r = 1
    BY <1>5, <1>9, <2>1 DEF FrameBase
  <2>2. CASE r # 1
    <3>1. r >= 2 /\ 2 \in 1..r
      BY <2>2, AtLeastTwo
    <3>2. FrameBase(sd) = FrameBase(sc) /\ FrameBase(sc) \in 1..r
      BY <1>1, <1>3, <1>5, <3>1 DEF FrameBase
    <3>3. PICK b \in 1..r : b = FrameBase(sc)
      BY <3>2
    <3>4. \A s \in b..r : s \in b..t /\ s \in 1..r
      BY <1>3, <3>3
    <3>5. sd[b] = sc[b]
      BY <1>5
    <3> QED
      BY <1>5, <1>6, <1>8, <3>2, <3>3, <3>4, <3>5 DEF Numbered
  <2> QED
    BY <2>1, <2>2
<1> QED
  BY <1>5, <1>7, <1>9, <1>10 DEF ScopesOK, sd

(* compile_func: a frame of its own, with a variable for each argument.    *)
LEMMA FuncOpens ==
  ASSUME NEW sc, ScopesOK(sc), Len(sc) = 1, NEW n \in Scope,
         n.kind = "func", n.off = 0, n.max = Len(n.vars),
         \A j \in 1..Len(n.vars) : n.vars[j].index = (j - 1) % ByteRange
  PROVE  ScopesOK(Append(sc, n))
<1> DEFINE sd == Append(sc, n)
<1>1. sc \in Seq(Scope) /\ sc[1].kind = "root" /\ Numbered(sc, 1, 1)
  BY DEF ScopesOK
<1>2. sd \in Seq(Scope) /\ Len(sd) = 2 /\ sd[1] = sc[1] /\ sd[2] = n
  BY <1>1, SecondAppended
<1> HIDE DEF sd
<1>3. Len(n.vars) \in Nat
  BY DEF Scope
<1>4. FrameBase(sd) = 2 /\ Free(sd, 1) = Free(sc, 1) /\ Free(sd, 2) = Len(n.vars)
  BY <1>2, <1>3 DEF FrameBase, Free
<1>5. Numbered(sd, 1, 1)
  BY <1>1, <1>2, <1>4 DEF Numbered
<1>6. Numbered(sd, 2, 2)
  <2>1. \A j \in 1..Len(n.vars) : n.off + j - 1 = j - 1
    BY <1>3
  <2> QED
    BY <1>2, <1>3, <1>4, <2>1 DEF Numbered
<1> QED
  BY <1>1, <1>2, <1>4, <1>5, <1>6 DEF ScopesOK, sd

(* A statement raises the maximum of the frame, and may add one variable.  *)
RaisedTo(sc, n)   == [sc EXCEPT ![FrameBase(sc)].max = Raised(@, n)]
WithVars(sc, def) == [sc EXCEPT ![Len(sc)].vars = @ \o def]

LEMMA MaxRaised ==
  ASSUME NEW sc, ScopesOK(sc), NEW n \in Nat
  PROVE  /\ ScopesOK(RaisedTo(sc, n)) /\ Len(RaisedTo(sc, n)) = Len(sc)
         /\ \A s \in 1..Len(sc) : /\ RaisedTo(sc, n)[s].vars = sc[s].vars
                                  /\ RaisedTo(sc, n)[s].off = sc[s].off
                                  /\ RaisedTo(sc, n)[s].cap = sc[s].cap
                                  /\ RaisedTo(sc, n)[s].kind = sc[s].kind
         /\ FrameBase(RaisedTo(sc, n)) = FrameBase(sc)
         /\ RaisedTo(sc, n)[FrameBase(sc)].max >= n
<1>1. PICK t \in Nat \ {0} : t = Len(sc) /\ sc \in Seq(Scope)
  BY DEF ScopesOK
<1>2. PICK b \in 1..t : b = FrameBase(sc)
  BY <1>1 DEF FrameBase
<1>3. PICK m \in Nat : m = Raised(sc[b].max, n) /\ m >= n /\ m >= sc[b].max
  BY <1>1, <1>2, ScopeFields DEF Raised
<1> DEFINE x == [sc[b] EXCEPT !.max = m]
           sd == RaisedTo(sc, n)
<1>4. sd = [sc EXCEPT ![b] = x]
  BY <1>2, <1>3 DEF RaisedTo
<1>5. /\ x \in Scope /\ x.max = m /\ x.vars = sc[b].vars /\ x.off = sc[b].off
      /\ x.cap = sc[b].cap /\ x.kind = sc[b].kind
  <2> DEFINE V == Seq(Var)
  <2>1. Scope = [kind : ScopeKinds, cap : Nat, off : Nat, vars : V, max : Nat]
    BY DEF Scope
  <2>2. sc[b] \in Scope
    BY <1>1, <1>2
  <2> HIDE DEF V
  <2> QED
    BY <2>1, <2>2
<1> HIDE DEF x, sd
<1>6. sd \in Seq(Scope) /\ Len(sd) = t /\ sd[b] = x /\ \A s \in 1..t : s # b => sd[s] = sc[s]
  BY <1>1, <1>2, <1>4, <1>5
<1>7. \A s \in 1..t : /\ sd[s].vars = sc[s].vars /\ sd[s].off = sc[s].off
                      /\ sd[s].cap = sc[s].cap /\ sd[s].kind = sc[s].kind
                      /\ Free(sd, s) = Free(sc, s)
  BY <1>5, <1>6 DEF Free
<1>8. FrameBase(sd) = b
  <2>1. CASE t = 1
    BY <1>1, <1>2, <1>6, <2>1 DEF FrameBase
  <2>2. CASE t # 1
    <3>1. 2 \in 1..t /\ t >= 2
      BY <2>2, AtLeastTwo
    <3> QED
      BY <1>1, <1>2, <1>6, <1>7, <3>1 DEF FrameBase
  <2> QED
    BY <2>1, <2>2
<1>9. /\ sc[1].kind = "root" /\ \A s \in 3..t : sc[s].kind # "func"
      /\ Numbered(sc, 1, 1) /\ Numbered(sc, b, t)
  BY <1>1, <1>2 DEF ScopesOK
<1>10. sc[b].max \in Nat /\ sc[1].max \in Nat /\ \A s \in 1..t : Free(sc, s) \in Nat
  BY <1>1, <1>2, ScopeFields
<1>11. sd[1].max >= sc[1].max /\ sd[b].max >= sc[b].max /\ sd[1].max \in Nat /\ sd[b].max \in Nat
  BY <1>3, <1>5, <1>6, <1>10
<1>12. Numbered(sd, 1, 1)
  <2>1. Free(sd, 1) <= sd[1].max
    BY <1>7, <1>9, <1>10, <1>11 DEF Numbered
  <2> QED
    BY <1>7, <1>9, <2>1 DEF Numbered
<1>13. Numbered(sd, b, t)
  <2>1. ASSUME NEW s \in b..t PROVE Free(sd, s) <= sd[b].max
    <3>1. s \in 1..t /\ Free(sc, s) <= sc[b].max
      BY <1>9 DEF Numbered
    <3> QED
      BY <1>7, <1>10, <1>11, <3>1
  <2>2. \A s \in b..t : s \in 1..t
    OBVIOUS
  <2> QED
    BY <1>7, <1>9, <2>1, <2>2 DEF Numbered
<1>14. 1 \in 1..t /\ \A s \in 3..t : s \in 1..t
  OBVIOUS
<1>15. ScopesOK(sd)
  BY <1>6, <1>7, <1>8, <1>9, <1>12, <1>13, <1>14 DEF ScopesOK
<1> QED
  BY <1>1, <1>2, <1>3, <1>5, <1>6, <1>7, <1>8, <1>15 DEF sd

(* A variable is defined in the innermost scope, within the maximum.       *)
LEMMA VarDefined ==
  ASSUME NEW sc, ScopesOK(sc), NEW v \in Var, v.index = Free(sc, Len(sc)) % ByteRange,
         sc[FrameBase(sc)].max >= Free(sc, Len(sc)) + 1
  PROVE  ScopesOK(WithVars(sc, <<v>>))
<1>1. PICK t \in Nat \ {0} : t = Len(sc) /\ sc \in Seq(Scope)
  BY DEF ScopesOK
<1>2. PICK b \in 1..t : b = FrameBase(sc)
  BY <1>1 DEF FrameBase
<1>3. /\ sc[t] \in Scope /\ sc[t].vars \in Seq(Var) /\ sc[t].off \in Nat /\ sc[b].max \in Nat
      /\ Free(sc, t) \in Nat /\ sc[t].off <= Free(sc, t)
  BY <1>1, <1>2, ScopeFields
<1>4. PICK l \in Nat : l = Len(sc[t].vars)
  <2>1. t \in 1..Len(sc)
    BY <1>1
  <2>2. Len(sc[t].vars) \in Nat
    BY <1>1, <2>1, ScopeFields
  <2> QED
    BY <2>2
<1> DEFINE vs == Append(sc[t].vars, v)
           x  == [sc[t] EXCEPT !.vars = vs]
           sd == WithVars(sc, <<v>>)
<1>5. /\ vs \in Seq(Var) /\ Len(vs) = l + 1 /\ vs[l+1] = v
      /\ \A j \in 1..l : vs[j] = sc[t].vars[j]
  BY <1>3, <1>4, Appended
<1>6. sd = [sc EXCEPT ![t] = x]
  BY <1>1, <1>3, Concatenated DEF WithVars
<1> HIDE DEF vs
<1>7. /\ x \in Scope /\ x.vars = vs /\ x.off = sc[t].off /\ x.max = sc[t].max
      /\ x.kind = sc[t].kind
  <2> DEFINE V == Seq(Var)
  <2>1. Scope = [kind : ScopeKinds, cap : Nat, off : Nat, vars : V, max : Nat] /\ vs \in V
    BY <1>5 DEF Scope
  <2> HIDE DEF V
  <2> QED
    BY <1>3, <2>1
<1> HIDE DEF x, sd
<1>8. sd \in Seq(Scope) /\ Len(sd) = t /\ sd[t] = x /\ \A s \in 1..t : s # t => sd[s] = sc[s]
  BY <1>1, <1>6, <1>7
<1>9. \A s \in 1..t : sd[s].off = sc[s].off /\ sd[s].kind = sc[s].kind /\ sd[s].max = sc[s].max
  BY <1>7, <1>8
<1>10. FrameBase(sd) = b
  <2>1. CASE t = 1
    BY <1>1, <1>2, <1>8, <2>1 DEF FrameBase
  <2>2. CASE t # 1
    <3>1. 2 \in 1..t /\ t >= 2
      BY <2>2, AtLeastTwo
    <3> QED
      BY <1>1, <1>2, <1>8, <1>9, <3>1 DEF FrameBase
  <2> QED
    BY <2>1, <2>2
<1>11. Free(sd, t) = Free(sc, t) + 1
  <2>1. PICK o \in Nat : o = sc[t].off
    BY <1>3
  <2>2. Free(sd, t) = (l + 1) + o /\ Free(sc, t) = l + o
    BY <1>4, <1>5, <1>7, <1>8, <2>1 DEF Free
  <2> QED
    BY <2>2
<1>12. \A s \in 1..t : s # t => Free(sd, s) = Free(sc, s)
  BY <1>8 DEF Free
<1>13. /\ sc[1].kind = "root" /\ \A s \in 3..t : sc[s].kind # "func"
       /\ Numbered(sc, 1, 1) /\ Numbered(sc, b, t)
  BY <1>1, <1>2 DEF ScopesOK
<1>14. ASSUME NEW s \in 1..t, NEW j \in 1..Len(sd[s].vars),
              \A k \in 1..Len(sc[s].vars) :
                sc[s].vars[k].index = (sc[s].off + k - 1) % ByteRange
       PROVE  sd[s].vars[j].index = (sd[s].off + j - 1) % ByteRange
  <2>1. CASE s # t
    BY <1>8, <1>14, <2>1
  <2>2. CASE s = t /\ j = l + 1
    <3>1. PICK o \in Nat : o = sc[t].off
      BY <1>3
    <3>2. Free(sc, t) = o + (l + 1) - 1
      BY <1>4, <3>1 DEF Free
    <3> QED
      BY <1>1, <1>5, <1>7, <1>8, <2>2, <3>1, <3>2
  <2>3. CASE s = t /\ j # l + 1
    <3>1. j \in 1..l
      BY <1>5, <1>7, <1>8, <2>3
    <3> QED
      BY <1>4, <1>5, <1>7, <1>8, <1>14, <2>3, <3>1
  <2> QED
    BY <2>1, <2>2, <2>3
<1>15. ASSUME NEW s \in b..t PROVE Free(sd, s) <= sd[b].max
  <2>1. s \in 1..t /\ sd[b].max = sc[b].max
    BY <1>9
  <2>2. CASE s = t
    BY <1>1, <1>2, <1>11, <2>1, <2>2
  <2>3. CASE s # t
    BY <1>12, <1>13, <2>1, <2>3 DEF Numbered
  <2> QED
    BY <2>2, <2>3
<1>16. ASSUME NEW s \in b..t, NEW u \in b..t, s < u PROVE Free(sd, s) <= sd[u].off
  <2>1. s \in 1..t /\ u \in 1..t /\ s # t
    BY <1>16
  <2> QED
    BY <1>9, <1>12, <1>13, <1>16, <2>1 DEF Numbered
<1>17. Numbered(sd, b, t)
  <2>1. \A s \in b..t : s \in 1..t
    OBVIOUS
  <2>2. \A s \in b..t : \A j \in 1..Len(sd[s].vars) :
          sd[s].vars[j].index = (sd[s].off + j - 1) % ByteRange
    BY <1>13, <1>14, <2>1 DEF Numbered
  <2> QED
    BY <1>15, <1>16, <2>2 DEF Numbered
<1>18. Numbered(sd, 1, 1)
  <2>1. CASE t = 1
    BY <1>2, <1>17, <2>1
  <2>2. CASE t # 1
    <3>1. 1 \in 1..t /\ sd[1] = sc[1] /\ Free(sd, 1) = Free(sc, 1)
      BY <1>8, <1>12, <2>2
    <3> QED
      BY <1>13, <3>1 DEF Numbered
  <2> QED
    BY <2>1, <2>2
<1>19. sd[1].kind = "root" /\ \A s \in 3..t : sd[s].kind # "func"
  <2>1. 1 \in 1..t /\ \A s \in 3..t : s \in 1..t
    OBVIOUS
  <2> QED
    BY <1>9, <1>13, <2>1
<1> QED
  BY <1>8, <1>10, <1>17, <1>18, <1>19 DEF ScopesOK, sd

-----------------------------------------------------------------------------
(* What compiling an expression does to the scopes.                        *)

LEMMA LastTyped ==
  ASSUME NEW e \in AllExprs
  PROVE  /\ e \in Seq(Nodes) /\ Len(e) \in Nat \ {0} /\ Last(e) = e[Len(e)]
         /\ Last(e) \in Nodes
         /\ Last(e).tok = "asg" => Last(e).name \in Idents
<1>1. e \in Seq(Nodes) /\ Roots(e)[Len(e)] = 1
  BY ExprsAssumption DEF IsExpr
<1>2. PICK l \in Nat : l = Len(e)
  BY <1>1
<1>3. l # 0
  <2> SUFFICES ASSUME l = 0 PROVE FALSE
    OBVIOUS
  <2>1. Roots(e) = [n \in 0..l |-> IF n = 0 THEN 0 ELSE Roots(e)[n-1] - Operands(e[n]) + 1]
    BY <1>2, RootsUnfold
  <2>2. Roots(e)[0] = 0
    BY <2>1
  <2> QED
    BY <1>1, <1>2, <2>2
<1>4. Last(e) = e[l] /\ e[l] \in Nodes
  BY <1>1, <1>2, <1>3 DEF Last
<1>5. ASSUME e[l].tok = "asg" PROVE e[l].name \in Idents
  BY <1>4, <1>5 DEF Nodes
<1> QED
  BY <1>1, <1>2, <1>3, <1>4, <1>5

(* An expression that is accepted defines no variable, or one.             *)
LEMMA CompiledDef ==
  ASSUME ScopesOK(scopes), NEW e \in AllExprs, Compile(e).ok
  PROVE  \/ Compile(e).def = <<>>
         \/ \E v \in Var : /\ Compile(e).def = <<v>>
                           /\ v.index = Free(scopes, Len(scopes)) % ByteRange
<1>1. Rejected.ok = FALSE
  BY DEF Rejected
<1>2. CASE ~Defines(e)
  <2> DEFINE r == CompileNodes(e)
  <2>1. Compile(e) = IF r.ok THEN [ok |-> TRUE, def |-> <<>>, code |-> r.stk[1].code] ELSE Rejected
    BY <1>2 DEF Compile
  <2> HIDE DEF r
  <2> QED
    BY <1>1, <2>1
<1>3. CASE Defines(e)
  <2> DEFINE r == RightSide(e)
             v == NewVar(Last(e).name, r.stk[1].type)
             c == [ok |-> TRUE, def |-> <<v>>,
                   code |-> r.stk[1].code \o Encode(SaveOpcode(v.type), v.index)]
  <2>1. Compile(e) = IF r.ok /\ Traced(r.stk[1]) /\ HasSpace THEN c ELSE Rejected
    BY <1>3 DEF Compile
  <2>2. Last(e).name \in Idents
    BY <1>3, LastTyped DEF Defines
  <2>3. Len(scopes) \in 1..Len(scopes) /\ scopes \in Seq(Scope)
    BY DEF ScopesOK
  <2>4. PICK n \in Nat : n = NextSlot(top) /\ n = Free(scopes, Len(scopes))
    BY <2>3, ScopeFields DEF NextSlot, top, Free
  <2>5. v = [name |-> Last(e).name, type |-> r.stk[1].type, index |-> n % ByteRange]
    BY <2>4 DEF NewVar
  <2>6. n % ByteRange \in 0..ByteRange-1
    BY Modulo
  <2>7. c.def = <<v>>
    OBVIOUS
  <2> HIDE DEF r, v, c
  <2>8. Traced(r.stk[1]) /\ Compile(e) = c
    BY <1>1, <2>1
  <2>9. v \in Var
    BY <2>2, <2>5, <2>6, <2>8 DEF Traced, Var
  <2> QED
    BY <2>4, <2>5, <2>7, <2>8, <2>9
<1> QED
  BY <1>2, <1>3

LEMMA NoVarDefined ==
  ASSUME NEW sc, ScopesOK(sc)
  PROVE  WithVars(sc, <<>>) = sc
<1>1. PICK t \in Nat \ {0} : t = Len(sc) /\ sc \in Seq(Scope)
  BY DEF ScopesOK
<1>2. sc[t] \in Scope /\ sc[t].vars \in Seq(Var)
  BY <1>1, ScopeFields
<1>3. sc[t].vars \o <<>> = sc[t].vars
  BY <1>2, Concatenated
<1>4. WithVars(sc, <<>>) = [sc EXCEPT ![t] = [sc[t] EXCEPT !.vars = sc[t].vars]]
  BY <1>1, <1>3 DEF WithVars
<1>5. [sc[t] EXCEPT !.vars = sc[t].vars] = sc[t]
  BY <1>2 DEF Scope
<1>6. [sc EXCEPT ![t] = sc[t]] = sc
  BY <1>1
<1> QED
  BY <1>4, <1>5, <1>6

(* The scopes after an expression statement, and after a condition.        *)
LEMMA ExtendedOK ==
  ASSUME ScopesOK(scopes), NEW e \in AllExprs, Compile(e).ok
  PROVE  /\ ScopesOK(Extended(Compile(e)))
         /\ Len(Extended(Compile(e))) = Len(scopes)
         /\ ScopesOK(Restored(Compile(e)))
         /\ Len(Restored(Compile(e))) = Len(scopes)
         /\ Free(Restored(Compile(e)), Len(scopes)) = Free(scopes, Len(scopes))
<1> DEFINE t == Len(scopes)
           n == Free(scopes, t)
           d == Compile(e).def
           m == n + Len(d)
           sd == RaisedTo(scopes, m)
<1>1. t \in 1..Len(scopes) /\ scopes \in Seq(Scope) /\ n \in Nat
  BY ScopeFields DEF ScopesOK
<1>2. \/ d = <<>>
      \/ \E v \in Var : d = <<v>> /\ v.index = n % ByteRange
  BY CompiledDef
<1>3. m \in Nat /\ (d = <<>> \/ m = n + 1)
  <2>1. CASE d = <<>>
    <3>1. Len(d) = 0
      BY <2>1
    <3> QED
      BY <1>1, <2>1, <3>1
  <2>2. CASE d # <<>>
    <3>1. PICK v \in Var : d = <<v>>
      BY <1>2, <2>2
    <3>2. Len(<<v>>) = 1
      OBVIOUS
    <3> HIDE DEF d
    <3>3. Len(d) = 1
      BY <3>1, <3>2
    <3> QED
      BY <1>1, <3>3
  <2> QED
    BY <2>1, <2>2
<1>4. NextSlot(top) = n /\ FrameBase(scopes) = Base
  BY DEF NextSlot, top, Free, Base, FrameBase
<1>5. Restored(Compile(e)) = sd
  BY <1>4 DEF Restored, RaisedTo
<1> HIDE DEF m
<1>6. /\ ScopesOK(sd) /\ Len(sd) = t /\ FrameBase(sd) = FrameBase(scopes)
      /\ sd[FrameBase(scopes)].max >= m
      /\ sd[t].vars = scopes[t].vars /\ sd[t].off = scopes[t].off
  BY <1>1, <1>3, MaxRaised
<1>7. Extended(Compile(e)) = WithVars(sd, d)
  BY <1>4, <1>6 DEF Extended, RaisedTo, WithVars, top, m
<1> HIDE DEF sd
<1>8. Free(sd, t) = n
  BY <1>6 DEF Free
<1>9. ScopesOK(WithVars(sd, d))
  <2>1. CASE d = <<>>
    BY <1>6, <2>1, NoVarDefined
  <2>2. CASE d # <<>>
    <3>1. PICK v \in Var : d = <<v>> /\ v.index = n % ByteRange
      BY <1>2, <2>2
    <3>2. sd[FrameBase(sd)].max >= Free(sd, Len(sd)) + 1
      BY <1>3, <1>6, <1>8, <2>2
    <3> QED
      BY <1>6, <1>8, <3>1, <3>2, VarDefined
  <2> QED
    BY <2>1, <2>2
<1>10. Len(WithVars(sd, d)) = t
  BY <1>6 DEF WithVars, ScopesOK
<1> QED
  BY <1>5, <1>6, <1>7, <1>8, <1>9, <1>10

-----------------------------------------------------------------------------
(* The theorems.                                                           *)

LEMMA InitOK == Init => ScopesOK(scopes)
<1> SUFFICES ASSUME Init PROVE ScopesOK(scopes)
  OBVIOUS
<1> DEFINE n == NewScope("root", RootVarsCap, 0)
<1>1. scopes = <<n>>
  BY DEF Init
<1>2. n.kind = "root" /\ n.off = 0 /\ n.vars = <<>> /\ n.max = 0 /\ n \in Scope
  <2>1. <<>> \in Seq(Var) /\ "root" \in ScopeKinds /\ RootVarsCap \in Nat
    BY CapsAssumption DEF ScopeKinds
  <2> QED
    BY <2>1 DEF NewScope, Scope
<1> HIDE DEF n
<1>3. scopes \in Seq(Scope) /\ Len(scopes) = 1 /\ scopes[1] = n
  BY <1>1, <1>2
<1>4. FrameBase(scopes) = 1 /\ Free(scopes, 1) = 0
  BY <1>2, <1>3 DEF FrameBase, Free
<1>5. Numbered(scopes, 1, 1)
  BY <1>2, <1>3, <1>4 DEF Numbered
<1> QED
  BY <1>2, <1>3, <1>4, <1>5 DEF ScopesOK

LEMMA Element ==
  ASSUME NEW S, NEW s \in Seq(S)
  PROVE  DOMAIN s = 1..Len(s) /\ \A j \in 1..Len(s) : s[j] \in S
OBVIOUS

(* The scope compile_func opens.                                           *)
LEMMA ArgVarsOK ==
  ASSUME NEW args \in Seq([name : Idents, type : ValueTypes])
  PROVE  /\ ArgVars(args) \in Seq(Var) /\ Len(ArgVars(args)) = Len(args)
         /\ \A j \in 1..Len(args) : ArgVars(args)[j].index = (j - 1) % ByteRange
<1> DEFINE Arg == [name : Idents, type : ValueTypes]
           vs  == ArgVars(args)
<1>1. PICK l \in Nat : l = Len(args) /\ DOMAIN args = 1..l /\ \A j \in 1..l : args[j] \in Arg
  <2>1. args \in Seq(Arg)
    OBVIOUS
  <2> HIDE DEF Arg
  <2> QED
    BY <2>1, Element
<1>2. ASSUME NEW j \in 1..l PROVE vs[j] \in Var /\ vs[j].index = (j - 1) % ByteRange
  <2>1. args[j] \in Arg
    BY <1>1
  <2>2. j - 1 \in Nat
    OBVIOUS
  <2>3. (j - 1) % ByteRange \in 0..ByteRange-1
    BY <2>2, Modulo
  <2> QED
    BY <1>1, <2>1, <2>3 DEF Var, ArgVars
<1>3. vs \in [1..l -> Var]
  BY <1>1, <1>2 DEF ArgVars
<1> HIDE DEF vs
<1>4. vs \in Seq(Var) /\ Len(vs) = l
  BY <1>3
<1>5. \A j \in 1..l : vs[j].index = (j - 1) % ByteRange
  BY <1>2
<1>6. vs \in Seq(Var) /\ Len(vs) = Len(args)
      /\ \A j \in 1..Len(args) : vs[j].index = (j - 1) % ByteRange
  BY <1>1, <1>4, <1>5
<1> QED
  BY <1>6 DEF vs

LEMMA FuncScopeOK ==
  ASSUME NEW d \in FuncDecls
  PROVE  /\ FuncScope(d.args) \in Scope
         /\ FuncScope(d.args).kind = "func" /\ FuncScope(d.args).off = 0
         /\ FuncScope(d.args).max = Len(FuncScope(d.args).vars)
         /\ \A j \in 1..Len(FuncScope(d.args).vars) :
              FuncScope(d.args).vars[j].index = (j - 1) % ByteRange
<1> DEFINE vs == ArgVars(d.args)
           n  == FuncScope(d.args)
<1>1. d.args \in Seq([name : Idents, type : ValueTypes])
  BY DeclsAssumption
<1>2. PICK l \in Nat : l = Len(d.args)
  BY <1>1
<1>3. vs \in Seq(Var) /\ Len(vs) = l /\ \A j \in 1..l : vs[j].index = (j - 1) % ByteRange
  BY <1>1, <1>2, ArgVarsOK
<1>4. n = [kind |-> "func", cap |-> FuncVarsCap, off |-> 0, vars |-> vs, max |-> l]
  BY <1>2 DEF FuncScope
<1>5. FuncVarsCap \in Nat /\ "func" \in ScopeKinds
  BY CapsAssumption DEF ScopeKinds
<1> HIDE DEF vs, n
<1>6. n.kind = "func" /\ n.off = 0 /\ n.max = l /\ n.vars = vs
  BY <1>4
<1>7. n \in Scope
  BY <1>2, <1>3, <1>4, <1>5 DEF Scope
<1>8. n \in Scope /\ n.kind = "func" /\ n.off = 0 /\ n.max = Len(n.vars)
      /\ \A j \in 1..Len(n.vars) : n.vars[j].index = (j - 1) % ByteRange
  BY <1>3, <1>6, <1>7
<1> QED
  BY <1>8 DEF n

(* A block inside of scopes sc that are as long as scopes.                 *)
LEMMA BlockIn ==
  ASSUME NEW sc, ScopesOK(sc), NEW kind \in {"then", "else", "body"}, NEW t, t = Len(sc),
         NEW cap, cap = sc[t].cap, NEW off, off = Free(sc, t)
  PROVE  ScopesOK(Append(sc, NewScope(kind, cap, off)))
<1>1. sc \in Seq(Scope) /\ t \in 1..Len(sc)
  BY DEF ScopesOK
<1>2. cap \in Nat
  BY <1>1, ScopeFields
<1> QED
  BY <1>2, BlockOpens

LEMMA ScopesStep == ScopesOK(scopes) /\ [Next]_vars => ScopesOK(scopes')
<1> SUFFICES ASSUME ScopesOK(scopes), [Next]_vars PROVE ScopesOK(scopes')
  OBVIOUS
<1>1. top = Len(scopes) /\ NextSlot(top) = Free(scopes, top)
  BY DEF top, NextSlot, Free
<1>2. ASSUME NEW e \in Statements, ExprStat(e) PROVE ScopesOK(scopes')
  <2>1. e \in AllExprs
    BY DEF Statements, AllExprs
  <2>2. Compile(e).ok /\ scopes' = Extended(Compile(e))
    BY <1>2 DEF ExprStat
  <2> QED
    BY <2>1, <2>2, ExtendedOK
<1>3. ASSUME NEW e, RejectExpr(e) PROVE ScopesOK(scopes')
  BY <1>3 DEF RejectExpr
<1>4. ASSUME NEW e \in CondExprs, OpenIf(e) PROVE ScopesOK(scopes')
  <2> DEFINE outer == Extended(Compile(e))
  <2>1. e \in AllExprs
    BY DEF AllExprs
  <2>2. Compile(e).ok
    BY <1>4 DEF OpenIf
  <2>3. scopes' = Append(outer, NewScope("then", outer[top].cap, Free(outer, top)))
    BY <1>4 DEF OpenIf, Free
  <2>4. ScopesOK(outer) /\ top = Len(outer)
    BY <1>1, <2>1, <2>2, ExtendedOK
  <2> HIDE DEF outer
  <2> QED
    BY <2>3, <2>4, BlockIn
<1>5. ASSUME NEW e \in CondExprs, OpenWhile(e) PROVE ScopesOK(scopes')
  <2> DEFINE outer == Restored(Compile(e))
  <2>1. e \in AllExprs
    BY DEF AllExprs
  <2>2. Compile(e).ok
    BY <1>5 DEF OpenWhile
  <2>3. scopes' = Append(outer, NewScope("body", scopes[top].cap, NextSlot(top)))
    BY <1>5 DEF OpenWhile
  <2>4. ScopesOK(outer) /\ top = Len(outer) /\ NextSlot(top) = Free(outer, top)
    BY <1>1, <2>1, <2>2, ExtendedOK
  <2>5. scopes[top].cap \in Nat
    <3>1. scopes \in Seq(Scope) /\ top \in 1..Len(scopes)
      BY <1>1 DEF ScopesOK
    <3> QED
      BY <3>1, ScopeFields
  <2> HIDE DEF outer
  <2> QED
    BY <2>3, <2>4, <2>5, BlockOpens
<1>6. ASSUME scopes[top].kind # "root", scopes' = Front(scopes) PROVE ScopesOK(scopes')
  BY <1>1, <1>6, BlockCloses
<1>7. ASSUME Else PROVE ScopesOK(scopes')
  <2> DEFINE outer == Front(scopes)
  <2>1. /\ scopes[top].kind = "then"
        /\ scopes' = Append(outer, NewScope("else", scopes[top-1].cap, NextSlot(top-1)))
    BY <1>7 DEF Else
  <2>2. ScopesOK(outer)
    BY <1>1, <2>1, BlockCloses
  <2>3. Len(outer) = top - 1 /\ outer[top-1] = scopes[top-1]
    <3>1. PICK t \in Nat \ {0} : t = top /\ scopes \in Seq(Scope) /\ t = Len(scopes)
      BY <1>1 DEF ScopesOK
    <3>2. t # 1
      BY <2>1, <3>1 DEF ScopesOK
    <3>3. outer = SubSeq(scopes, 1, t - 1) /\ t - 1 \in 1..t
      BY <3>1, <3>2 DEF Front
    <3> HIDE DEF outer
    <3>4. Len(outer) = t - 1 /\ outer[t-1] = scopes[t-1]
      BY <3>1, <3>3
    <3> QED
      BY <3>1, <3>4
  <2>4. Free(outer, top-1) = NextSlot(top-1)
    BY <2>3 DEF Free, NextSlot
  <2> HIDE DEF outer
  <2> QED
    BY <2>1, <2>2, <2>3, <2>4, BlockIn
<1>8. ASSUME CloseIf PROVE ScopesOK(scopes')
  BY <1>6, <1>8 DEF CloseIf, CloseBlock
<1>9. ASSUME CloseWhile PROVE ScopesOK(scopes')
  BY <1>6, <1>9 DEF CloseWhile, CloseBlock
<1>10. ASSUME CloseFunc PROVE ScopesOK(scopes')
  BY <1>6, <1>10 DEF CloseFunc
<1>11. ASSUME NEW d \in FuncDecls, OpenFunc(d) PROVE ScopesOK(scopes')
  <2>1. top = 1 /\ (scopes' = scopes \/ scopes' = Append(scopes, FuncScope(d.args)))
    BY <1>11 DEF OpenFunc
  <2> QED
    BY <1>1, <2>1, FuncScopeOK, FuncOpens
<1>12. ASSUME UNCHANGED vars PROVE ScopesOK(scopes')
  BY <1>12 DEF vars
<1> QED
  BY <1>2, <1>3, <1>4, <1>5, <1>7, <1>8, <1>9, <1>10, <1>11, <1>12 DEF Next

ScopesInv == ScopesOK(scopes)

(* The scopes of the compiler are in order, whatever was compiled before.  *)
THEOREM ScopesInOrder == Spec => []ScopesInv
<1>1. Init => ScopesInv
  BY InitOK DEF ScopesInv
<1>2. ScopesInv /\ [Next]_vars => ScopesInv'
  BY ScopesStep DEF ScopesInv
<1> QED
  BY <1>1, <1>2, PTL DEF Spec

(* A variable that is visible is one of a scope of the innermost frame.    *)
LEMMA VisibleSlots ==
  ASSUME ScopesOK(scopes), NEW p \in Visible
  PROVE  /\ p = <<p[1], p[2]>> /\ p[1] \in Nat /\ p[2] \in Nat
         /\ p[1] \in FrameBase(scopes)..Len(scopes)
         /\ p[2] \in 1..Len(scopes[p[1]].vars)
<1>1. /\ p \in (Base..top) \X (1..Raised(RootVarsCap, FuncVarsCap))
      /\ p[2] \in DOMAIN scopes[p[1]].vars
  BY DEF Visible
<1>2. /\ Base = FrameBase(scopes) /\ top = Len(scopes) /\ Base \in Nat
      /\ Base \in 1..Len(scopes) /\ scopes \in Seq(Scope)
  BY DEF ScopesOK, Base, FrameBase, top
<1>3. p[1] \in Base..top /\ p = <<p[1], p[2]>>
  BY <1>1
<1>4. p[1] \in 1..Len(scopes) /\ p[1] \in Nat
  BY <1>2, <1>3
<1>5. scopes[p[1]].vars \in Seq(Var)
  BY <1>2, <1>4, ScopeFields
<1>6. p[2] \in 1..Len(scopes[p[1]].vars)
  BY <1>1, <1>5, Element
<1>7. p[2] \in Nat
  BY <1>6
<1> QED
  BY <1>2, <1>3, <1>4, <1>6, <1>7

LEMMA SlotsFit == ScopesInv => SlotsInFrame
<1> SUFFICES ASSUME ScopesOK(scopes), NEW p \in Visible
             PROVE  scopes[p[1]].vars[p[2]].index < scopes[Base].max
  BY DEF SlotsInFrame, ScopesInv
<1>1. Base = FrameBase(scopes)
  BY DEF Base, FrameBase, top
<1> QED
  BY <1>1, VisibleSlots, SlotsBelowMax

(* Every visible variable lies in the frame, whatever the program: the     *)
(* locals the machine sets aside for a function are enough.                *)
THEOREM SlotsAlwaysInFrame == Spec => []SlotsInFrame
BY SlotsFit, ScopesInOrder, PTL

LEMMA SlotsDiffer == ScopesInv => SlotsDistinct
<1> SUFFICES ASSUME ScopesOK(scopes), scopes[Base].max <= ByteRange,
                    NEW p \in Visible, NEW q \in Visible, p # q
             PROVE  scopes[p[1]].vars[p[2]].index # scopes[q[1]].vars[q[2]].index
  BY DEF SlotsDistinct, ScopesInv
<1>1. Base = FrameBase(scopes)
  BY DEF Base, FrameBase, top
<1>2. /\ p = <<p[1], p[2]>> /\ q = <<q[1], q[2]>> /\ p[1] \in Nat /\ q[1] \in Nat
      /\ p[1] \in FrameBase(scopes)..Len(scopes) /\ p[2] \in 1..Len(scopes[p[1]].vars)
      /\ q[1] \in FrameBase(scopes)..Len(scopes) /\ q[2] \in 1..Len(scopes[q[1]].vars)
  BY VisibleSlots
<1>3. \/ p[1] < q[1] \/ (p[1] = q[1] /\ p[2] # q[2])
      \/ q[1] < p[1] \/ (q[1] = p[1] /\ q[2] # p[2])
  <2>1. p[1] = q[1] => p[2] # q[2]
    BY <1>2
  <2>2. p[1] # q[1] => p[1] < q[1] \/ q[1] < p[1]
    BY <1>2
  <2> QED
    BY <2>1, <2>2
<1>4. PICK s \in FrameBase(scopes)..Len(scopes), u \in FrameBase(scopes)..Len(scopes) :
        s = p[1] /\ u = q[1]
  BY <1>2
<1>5. PICK j \in 1..Len(scopes[s].vars), k \in 1..Len(scopes[u].vars) : j = p[2] /\ k = q[2]
  BY <1>2, <1>4
<1>6. scopes[FrameBase(scopes)].max <= ByteRange
  BY <1>1
<1>7. CASE s < u \/ (s = u /\ j # k)
  <2>1. scopes[s].vars[j].index # scopes[u].vars[k].index
    BY <1>6, <1>7, SlotsApart
  <2> QED
    BY <1>4, <1>5, <2>1
<1>8. CASE u < s \/ (u = s /\ k # j)
  <2>1. scopes[u].vars[k].index # scopes[s].vars[j].index
    BY <1>6, <1>8, SlotsApart
  <2> QED
    BY <1>4, <1>5, <2>1
<1> QED
  BY <1>3, <1>4, <1>5, <1>7, <1>8

(* Two visible variables never share a slot, in whatever blocks they are,  *)
(* as long as the frame has no more slots than an index can name.          *)
THEOREM SlotsAlwaysDistinct == Spec => []SlotsDistinct
BY SlotsDiffer, ScopesInOrder, PTL

-----------------------------------------------------------------------------
(* Type correctness: the scope handlers, their booked stacks and their     *)
(* emitters are opened and closed together.                                *)
IsList(s, n) == \E S : s \in Seq(S) /\ Len(s) = n

LEMMA ListAppends ==
  ASSUME NEW s, NEW n \in Nat, IsList(s, n), NEW x
  PROVE  IsList(Append(s, x), n + 1)
<1>1. PICK S : s \in Seq(S) /\ Len(s) = n
  BY DEF IsList
<1> DEFINE T == S \cup {x}
<1>2. s \in Seq(T) /\ x \in T
  BY <1>1
<1> HIDE DEF T
<1>3. Append(s, x) \in Seq(T) /\ Len(Append(s, x)) = n + 1
  BY <1>1, <1>2, Appended
<1> QED
  BY <1>3 DEF IsList

LEMMA ListUpdates ==
  ASSUME NEW s, NEW n \in Nat, IsList(s, n), NEW i, NEW x
  PROVE  IsList([s EXCEPT ![i] = x], n)
<1>1. PICK S : s \in Seq(S) /\ Len(s) = n
  BY DEF IsList
<1> DEFINE T == S \cup {x}
           u == [s EXCEPT ![i] = x]
<1>2. u \in [1..n -> T]
  <2>1. s \in [1..n -> S]
    BY <1>1
  <2>2. DOMAIN u = 1..n /\ u = [j \in 1..n |-> u[j]]
    BY <2>1
  <2>3. ASSUME NEW j \in 1..n PROVE u[j] \in T
    BY <2>1, <2>3
  <2> HIDE DEF u
  <2> QED
    BY <2>2, <2>3
<1> HIDE DEF T, u
<1>3. u \in Seq(T) /\ Len(u) = n
  BY <1>2
<1>4. IsList(u, n)
  BY <1>3 DEF IsList
<1> QED
  BY <1>4 DEF u

LEMMA ListShrinks ==
  ASSUME NEW s, NEW n \in Nat \ {0}, IsList(s, n)
  PROVE  IsList(Front(s), n - 1)
<1>1. PICK S : s \in Seq(S) /\ Len(s) = n
  BY DEF IsList
<1>2. Front(s) = SubSeq(s, 1, n - 1)
  BY <1>1 DEF Front
<1>3. Front(s) \in Seq(S) /\ Len(Front(s)) = n - 1
  BY <1>1, <1>2
<1> QED
  BY <1>3 DEF IsList

Parallel(sc, st, em) == IsList(st, Len(sc)) /\ IsList(em, Len(sc))

TypeInv ==
  /\ ScopesInv
  /\ Parallel(scopes, stacks, emitters)
  /\ status \in {"run", "panic"}
  /\ stats \in 0..MaxStats

LEMMA TypeInit == Init => TypeInv
<1> SUFFICES ASSUME Init PROVE TypeInv
  OBVIOUS
<1>1. ScopesInv /\ status = "run" /\ stats = 0 /\ MaxStats \in Nat
  BY InitOK, BoundsAssumption DEF ScopesInv, Init
<1>2. \A x, y, z : scopes = <<x>> /\ stacks = <<y>> /\ emitters = <<z>>
                 => Parallel(scopes, stacks, emitters)
  <2> SUFFICES ASSUME NEW x, NEW y, NEW z, scopes = <<x>>, stacks = <<y>>, emitters = <<z>>
               PROVE  Parallel(scopes, stacks, emitters)
    OBVIOUS
  <2>1. Len(scopes) = 1
    OBVIOUS
  <2>2. stacks \in Seq({y}) /\ Len(stacks) = 1
    OBVIOUS
  <2>3. emitters \in Seq({z}) /\ Len(emitters) = 1
    OBVIOUS
  <2> QED
    BY <2>1, <2>2, <2>3 DEF Parallel, IsList
<1>3. Parallel(scopes, stacks, emitters)
  BY <1>2 DEF Init
<1> QED
  BY <1>1, <1>3 DEF TypeInv

LEMMA BookedList ==
  ASSUME NEW n \in Nat, IsList(stacks, n), NEW r
  PROVE  IsList(Booked(r), n)
<1> DEFINE s  == Track(stacks[top].size, stacks[Base].max, r.code)
           st == [stacks EXCEPT ![top] = [stacks[top] EXCEPT !.size = s.size]]
<1>1. IsList(st, n)
  BY ListUpdates
<1> DEFINE b == [st[Base] EXCEPT !.max = s.max]
<1>2. Booked(r) = [st EXCEPT ![Base] = b]
  BY DEF Booked
<1> HIDE DEF st, s, b
<1>3. IsList([st EXCEPT ![Base] = b], n)
  BY <1>1, ListUpdates, Zenon
<1> QED
  BY <1>2, <1>3

LEMMA EmitList ==
  ASSUME NEW n \in Nat, NEW ems, IsList(ems, n), NEW code
  PROVE  IsList(Emit(ems, code), n)
<1> DEFINE t == Len(ems)
           e == [ems[t] EXCEPT !.code = @ \o code]
<1>1. Emit(ems, code) = [ems EXCEPT ![t] = e]
  BY DEF Emit
<1> HIDE DEF t, e
<1>2. IsList([ems EXCEPT ![t] = e], n)
  BY ListUpdates, Zenon
<1> QED
  BY <1>1, <1>2

LEMMA TypeStep == TypeInv /\ [Next]_vars => TypeInv'
<1> SUFFICES ASSUME TypeInv, [Next]_vars PROVE TypeInv'
  OBVIOUS
<1>1. ScopesInv'
  BY ScopesStep DEF ScopesInv, TypeInv
<1>2. PICK t \in Nat \ {0} : t = Len(scopes)
  BY DEF TypeInv, ScopesInv, ScopesOK
<1>3. /\ IsList(stacks, t) /\ IsList(emitters, t) /\ status \in {"run", "panic"}
      /\ stats \in 0..MaxStats /\ MaxStats \in Nat /\ ScopesOK(scopes) /\ top = t
  BY <1>2, BoundsAssumption DEF TypeInv, Parallel, ScopesInv, top
<1> DEFINE Counts == status' \in {"run", "panic"} /\ stats' \in 0..MaxStats
           Lists  == Parallel(scopes', stacks', emitters')
<1>4. ASSUME NEW e \in Statements, ExprStat(e) PROVE Counts /\ Lists
  <2>1. Compile(e).ok /\ scopes' = Extended(Compile(e)) /\ e \in AllExprs
    BY <1>4 DEF ExprStat, Statements, AllExprs
  <2>2. Len(scopes') = t
    BY <1>2, <1>3, <2>1, ExtendedOK
  <2>3. stacks' = Booked(Compile(e)) /\ emitters' = Emit(emitters, Compile(e).code)
    BY <1>4 DEF ExprStat
  <2>4. IsList(stacks', t) /\ IsList(emitters', t)
    BY <1>3, <2>3, BookedList, EmitList
  <2>5. Counts
    BY <1>3, <1>4 DEF ExprStat, Room
  <2> QED
    BY <2>2, <2>4, <2>5 DEF Parallel
<1>5. ASSUME NEW e, RejectExpr(e) PROVE Counts /\ Lists
  BY <1>2, <1>3, <1>5 DEF RejectExpr, Parallel
<1>6. ASSUME NEW e \in CondExprs, OpenIf(e) PROVE Counts /\ Lists
  <2>1. Compile(e).ok /\ e \in AllExprs
    BY <1>6 DEF OpenIf, AllExprs
  <2>2. PICK b : scopes' = Append(Extended(Compile(e)), b)
    BY <1>6 DEF OpenIf
  <2>3. PICK k : stacks' = Append(Booked(Compile(e)), k)
    BY <1>6 DEF OpenIf
  <2>4. PICK m : emitters' = Append(Emit(emitters, Compile(e).code), m)
    BY <1>6 DEF OpenIf
  <2>5. IsList(Extended(Compile(e)), t)
    BY <1>2, <1>3, <2>1, ExtendedOK DEF IsList, ScopesOK
  <2>6. IsList(scopes', t + 1) /\ IsList(stacks', t + 1) /\ IsList(emitters', t + 1)
    BY <1>3, <2>2, <2>3, <2>4, <2>5, BookedList, EmitList, ListAppends
  <2>7. Len(scopes') = t + 1
    BY <2>6 DEF IsList
  <2>8. Counts
    BY <1>3, <1>6 DEF OpenIf, Room
  <2> QED
    BY <2>6, <2>7, <2>8 DEF Parallel
<1>7. ASSUME NEW e \in CondExprs, OpenWhile(e) PROVE Counts /\ Lists
  <2>1. Compile(e).ok /\ e \in AllExprs
    BY <1>7 DEF OpenWhile, AllExprs
  <2>2. PICK b : scopes' = Append(Restored(Compile(e)), b)
    BY <1>7 DEF OpenWhile
  <2>3. PICK k : stacks' = Append(Booked(Compile(e)), k)
    BY <1>7 DEF OpenWhile
  <2>4. PICK m : emitters' = Append(emitters, m)
    BY <1>7 DEF OpenWhile
  <2>5. IsList(Restored(Compile(e)), t)
    BY <1>2, <1>3, <2>1, ExtendedOK DEF IsList, ScopesOK
  <2>6. IsList(scopes', t + 1) /\ IsList(stacks', t + 1) /\ IsList(emitters', t + 1)
    BY <1>3, <2>2, <2>3, <2>4, <2>5, BookedList, ListAppends
  <2>7. Len(scopes') = t + 1
    BY <2>6 DEF IsList
  <2>8. Counts
    BY <1>3, <1>7 DEF OpenWhile, Room
  <2> QED
    BY <2>6, <2>7, <2>8 DEF Parallel
<1>8. IsList(scopes, t)
  BY <1>2, <1>3 DEF IsList, ScopesOK
<1>9. ASSUME scopes' = Front(scopes), stacks' = Front(stacks),
             IsList(emitters', t - 1)
      PROVE  Lists
  <2>1. IsList(scopes', t - 1) /\ IsList(stacks', t - 1)
    BY <1>3, <1>8, <1>9, ListShrinks
  <2>2. Len(scopes') = t - 1
    BY <2>1 DEF IsList
  <2> QED
    BY <1>9, <2>1, <2>2 DEF Parallel
<1>10. ASSUME NEW code, CloseBlock(code) PROVE Counts /\ Lists
  <2>1. IsList(Front(emitters), t - 1) /\ t - 1 \in Nat
    BY <1>3, ListShrinks
  <2>2. emitters' = Emit(Front(emitters), code)
    BY <1>10 DEF CloseBlock
  <2>3. IsList(emitters', t - 1)
    BY <2>1, <2>2, EmitList
  <2>4. /\ scopes' = Front(scopes) /\ stacks' = Front(stacks)
        /\ status' = status /\ stats' = stats
    BY <1>10 DEF CloseBlock
  <2> QED
    BY <1>3, <1>9, <2>3, <2>4
<1>11. ASSUME Else PROVE Counts /\ Lists
  <2>1. PICK b : scopes' = Append(Front(scopes), b)
    BY <1>11 DEF Else
  <2>2. PICK k : stacks' = [stacks EXCEPT ![t] = k]
    BY <1>3, <1>11 DEF Else
  <2>3. PICK m : emitters' = [emitters EXCEPT ![t] = m]
    BY <1>3, <1>11 DEF Else
  <2>4. IsList(Front(scopes), t - 1) /\ t - 1 \in Nat /\ (t - 1) + 1 = t
    BY <1>8, ListShrinks
  <2>5. IsList(scopes', t)
    BY <2>1, <2>4, ListAppends
  <2>6. Len(scopes') = t
    BY <2>5 DEF IsList
  <2>7. IsList(stacks', t) /\ IsList(emitters', t)
    BY <1>3, <2>2, <2>3, ListUpdates
  <2>8. Counts
    BY <1>3, <1>11 DEF Else
  <2> QED
    BY <2>6, <2>7, <2>8 DEF Parallel
<1>12. ASSUME UNCHANGED <<scopes, stacks, emitters, stats>>, status' \in {"run", "panic"}
       PROVE  Counts /\ Lists
  BY <1>2, <1>3, <1>12 DEF Parallel
<1>13. ASSUME CloseIf PROVE Counts /\ Lists
  BY <1>10, <1>13 DEF CloseIf
<1>14. ASSUME CloseWhile PROVE Counts /\ Lists
  BY <1>10, <1>12, <1>14 DEF CloseWhile
<1>15. ASSUME CloseFunc PROVE Counts /\ Lists
  <2>1. IsList(emitters', t - 1)
    BY <1>3, <1>15, ListShrinks DEF CloseFunc
  <2>2. scopes' = Front(scopes) /\ stacks' = Front(stacks) /\ status' = status /\ stats' = stats
    BY <1>15 DEF CloseFunc
  <2> QED
    BY <1>3, <1>9, <2>1, <2>2
<1>16. ASSUME NEW d \in FuncDecls, OpenFunc(d) PROVE Counts /\ Lists
  <2>1. Counts
    BY <1>3, <1>16 DEF OpenFunc, Room
  <2>2. \/ UNCHANGED <<scopes, stacks, emitters>>
        \/ \E a, b, c : /\ scopes' = Append(scopes, a) /\ stacks' = Append(stacks, b)
                         /\ emitters' = Append(emitters, c)
    BY <1>16 DEF OpenFunc
  <2>3. CASE UNCHANGED <<scopes, stacks, emitters>>
    BY <1>2, <1>3, <2>1, <2>3 DEF Parallel
  <2>4. CASE ~UNCHANGED <<scopes, stacks, emitters>>
    <3>1. PICK a, b, c : /\ scopes' = Append(scopes, a) /\ stacks' = Append(stacks, b)
                         /\ emitters' = Append(emitters, c)
      BY <2>2, <2>4
    <3>2. IsList(scopes', t + 1) /\ IsList(stacks', t + 1) /\ IsList(emitters', t + 1)
      BY <1>3, <1>8, <3>1, ListAppends
    <3>3. Len(scopes') = t + 1
      BY <3>2 DEF IsList
    <3> QED
      BY <2>1, <3>2, <3>3 DEF Parallel
  <2> QED
    BY <2>3, <2>4
<1>17. ASSUME UNCHANGED vars PROVE Counts /\ Lists
  BY <1>3, <1>12, <1>17 DEF vars
<1>18. Counts /\ Lists
  BY <1>4, <1>5, <1>6, <1>7, <1>11, <1>13, <1>14, <1>15, <1>16, <1>17 DEF Next
<1> QED
  BY <1>1, <1>18 DEF TypeInv

LEMMA InvTyped == TypeInv => TypeOK
<1> SUFFICES ASSUME TypeInv PROVE TypeOK
  OBVIOUS
<1>1. scopes \in Seq(Scope) /\ scopes # <<>>
  BY DEF TypeInv, ScopesInv, ScopesOK
<1>2. Len(stacks) = Len(scopes) /\ Len(emitters) = Len(scopes)
  BY DEF TypeInv, Parallel, IsList
<1> QED
  BY <1>1, <1>2 DEF TypeInv, TypeOK

(* The compiler keeps one booked stack and one emitter for every open      *)
(* scope handler, and each has the fields and values it should.            *)
THEOREM CompilerTyped == Spec => []TypeOK
<1>1. Spec => []TypeInv
  BY TypeInit, TypeStep, PTL DEF Spec
<1> QED
  BY <1>1, InvTyped, PTL
=============================================================================
