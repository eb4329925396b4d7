------------------------------ MODULE CodeProof ------------------------------
(***************************************************************************)
(* Proofs about the code the compiler emits: it is a row of whole          *)
(* instructions whose operands the frame it runs in has room for, its      *)
(* jumps land, as long as a byte can hold the offsets it counts, and the   *)
(* stack has one depth at each of its positions, for which enough is       *)
(* booked, so that the code of every function verifies.                    *)
(***************************************************************************)
EXTENDS CompilerProof

-----------------------------------------------------------------------------
(* Code as a row of whole instructions.                                    *)

LocalOps == {"ILOAD", "ISAVE", "FLOAD", "FSAVE"}
JumpOps  == {"JMP", "RJMP", "JEZ", "JNEZ"}

(* The instructions of code in a frame of m slots; calls only when f.      *)
Instrs(m, f) ==
  {c \in [op : Opcodes, arg : Nat] : /\ c.op \in LocalOps => c.arg < m
                                     /\ c.op = "CALL" => f}

Straight(m, f) == {c \in Instrs(m, f) : c.op \notin JumpOps}

(* Code that splits into whole instructions, all of them from I.           *)
Laid(code, I) ==
  /\ code \in Seq(Cell)
  /\ 1 \in Boundaries(code)
  /\ \A i \in Starts(code) : code[i] \in I /\ i + Size(code[i].op) \in Boundaries(code)

(* All jumps of the code go to positions in B.                             *)
JumpsTo(code, B) == \A i \in Jumps(code) : JumpTarget(code, i) \in B

Lands(code) == JumpsTo(code, Boundaries(code))

LEMMA OperandsOf ==
  ASSUME NEW op \in Opcodes
  PROVE  /\ OperandBytes(op) \in 0..4 /\ Size(op) = 1 + OperandBytes(op)
         /\ Size(op) \in Nat
         /\ op # "OPERAND"
         /\ op \in JumpOps => OperandBytes(op) = 2
BY DEF Opcodes, OperandBytes, Size, JumpOps

(* One instruction, as compiler_emit_0 to compiler_emit_n write it.        *)
LEMMA EncodeParts ==
  ASSUME NEW op \in Opcodes, NEW arg \in Nat
  PROVE  /\ Encode(op, arg) \in Seq(Cell) /\ Len(Encode(op, arg)) = Size(op)
         /\ Starts(Encode(op, arg)) = {1}
         /\ Encode(op, arg)[1] = [op |-> op, arg |-> arg]
         /\ Boundaries(Encode(op, arg)) = {1, 1 + Size(op)}
<1> DEFINE b == OperandBytes(op)
           h == [op |-> op, arg |-> arg]
           t == [i \in 1..b |-> OperandByte]
           c == Encode(op, arg)
<1>1. b \in Nat /\ Size(op) = 1 + b /\ op # "OPERAND"
  BY OperandsOf
<1>2. h \in Cell /\ OperandByte \in Cell /\ OperandByte.op = "OPERAND" /\ h.op = op
  BY DEF Cell, OperandByte
<1>3. c = <<h>> \o t
  BY DEF Encode
<1> HIDE DEF b, h
<1>4. t \in Seq(Cell) /\ Len(t) = b /\ \A i \in 1..b : t[i] = OperandByte
  BY <1>1, <1>2
<1> HIDE DEF t, c
<1>5. <<h>> \in Seq(Cell) /\ Len(<<h>>) = 1 /\ <<h>>[1] = h
  BY <1>2
<1>6. c \in Seq(Cell) /\ Len(c) = 1 + b
  BY <1>1, <1>3, <1>4, <1>5
<1>7. c[1] = h
  BY <1>1, <1>3, <1>4, <1>5
<1>8. \A i \in 2..1+b : c[i] = OperandByte
  BY <1>1, <1>3, <1>4, <1>5
<1>9. DOMAIN c = 1..1+b
  BY <1>6
<1>10. \A i \in DOMAIN c : i = 1 \/ i \in 2..1+b
  BY <1>1, <1>9
<1>11. 1 \in DOMAIN c
  BY <1>1, <1>9
<1>12. Starts(c) = {1}
  BY <1>1, <1>2, <1>7, <1>8, <1>10, <1>11 DEF Starts
<1>13. Boundaries(c) = {1, 1 + Size(op)}
  BY <1>1, <1>6, <1>12 DEF Boundaries
<1> QED
  BY <1>1, <1>6, <1>7, <1>12, <1>13 DEF c, h

LEMMA EncodeLaid ==
  ASSUME NEW I, NEW op \in Opcodes, NEW arg \in Nat, [op |-> op, arg |-> arg] \in I
  PROVE  Laid(Encode(op, arg), I)
BY EncodeParts DEF Laid

LEMMA EncodeJumps ==
  ASSUME NEW op \in Opcodes, NEW arg \in Nat
  PROVE  /\ op \notin JumpOps => \A B : JumpsTo(Encode(op, arg), B)
         /\ op \in JumpOps => JumpsTo(Encode(op, arg), {IF op = "RJMP" THEN 4 - arg ELSE 4 + arg})
<1> DEFINE c == Encode(op, arg)
<1>1. Starts(c) = {1} /\ c[1] = [op |-> op, arg |-> arg] /\ op # "OPERAND"
  BY EncodeParts, OperandsOf
<1> HIDE DEF c
<1>2. \A i \in Jumps(c) : i = 1 /\ op \in JumpOps
  BY <1>1 DEF Jumps, Starts, JumpOps
<1>3. op \notin JumpOps => \A B : JumpsTo(c, B)
  BY <1>2 DEF JumpsTo
<1>4. JumpTarget(c, 1) = IF op = "RJMP" THEN 4 - arg ELSE 4 + arg
  BY <1>1 DEF JumpTarget
<1>5. op \in JumpOps => JumpsTo(c, {IF op = "RJMP" THEN 4 - arg ELSE 4 + arg})
  BY <1>2, <1>4 DEF JumpsTo
<1> QED
  BY <1>3, <1>5 DEF c

LEMMA EmptyLaid == \A I : Laid(<<>>, I) /\ Lands(<<>>) /\ Len(<<>>) = 0
<1>1. <<>> \in Seq(Cell) /\ Len(<<>>) = 0 /\ DOMAIN <<>> = {}
  OBVIOUS
<1>2. Starts(<<>>) = {} /\ Jumps(<<>>) = {} /\ Boundaries(<<>>) = {1}
  BY <1>1 DEF Starts, Jumps, Boundaries
<1> QED
  BY <1>1, <1>2 DEF Laid, Lands, JumpsTo

(* Two pieces of code in a row.                                            *)
LEMMA ConcatPlaces ==
  ASSUME NEW a \in Seq(Cell), NEW b \in Seq(Cell), 1 \in Boundaries(b)
  PROVE  /\ a \o b \in Seq(Cell) /\ Len(a \o b) = Len(a) + Len(b)
         /\ \A i \in DOMAIN (a \o b) :
              \/ i \in DOMAIN a /\ (a \o b)[i] = a[i]
              \/ i - Len(a) \in DOMAIN b /\ (a \o b)[i] = b[i - Len(a)]
         /\ \A i \in Boundaries(a) : i \in Boundaries(a \o b)
         /\ \A k \in Boundaries(b) : Len(a) + k \in Boundaries(a \o b)
<1> DEFINE c == a \o b
<1>1. PICK l \in Nat, m \in Nat : l = Len(a) /\ m = Len(b)
  OBVIOUS
<1>2. c \in Seq(Cell) /\ Len(c) = l + m
  BY <1>1
<1>3. DOMAIN a = 1..l /\ DOMAIN b = 1..m /\ DOMAIN c = 1..l+m
  BY <1>1, <1>2
<1>4. /\ \A i \in 1..l : c[i] = a[i]
      /\ \A i \in 1..m : c[l+i] = b[i]
  BY <1>1
<1> HIDE DEF c
<1>5. ASSUME NEW i \in DOMAIN c
      PROVE  \/ i \in DOMAIN a /\ c[i] = a[i]
             \/ i - l \in DOMAIN b /\ c[i] = b[i - l]
  <2>1. CASE i <= l
    BY <1>3, <1>4, <2>1
  <2>2. CASE i > l
    <3>1. PICK k \in 1..m : i = l + k
      <4>1. i - l \in 1..m /\ i = l + (i - l)
        BY <1>3, <2>2
      <4> QED
        BY <4>1
    <3>2. i - l = k
      BY <3>1
    <3> QED
      BY <1>3, <1>4, <3>1, <3>2
  <2> QED
    BY <1>3, <2>1, <2>2
<1>6. ASSUME NEW k \in Boundaries(b) PROVE l + k \in Boundaries(c)
  <2>1. CASE k = m + 1
    <3>1. l + k = (l + m) + 1
      BY <1>1, <2>1
    <3> QED
      BY <1>1, <1>2, <3>1 DEF Boundaries
  <2>2. CASE k # m + 1
    <3>1. k \in 1..m /\ b[k].op # "OPERAND"
      BY <1>1, <1>3, <2>2 DEF Boundaries, Starts
    <3>2. l + k \in 1..l+m /\ c[l+k] = b[k]
      BY <1>4, <3>1
    <3> QED
      BY <1>3, <3>1, <3>2 DEF Boundaries, Starts
  <2> QED
    BY <2>1, <2>2
<1>7. ASSUME NEW i \in Boundaries(a) PROVE i \in Boundaries(c)
  <2>1. CASE i = l + 1
    BY <1>6, <2>1
  <2>2. CASE i # l + 1
    <3>1. i \in 1..l /\ a[i].op # "OPERAND"
      BY <1>1, <1>3, <2>2 DEF Boundaries, Starts
    <3>2. i \in 1..l+m /\ c[i] = a[i]
      BY <1>4, <3>1
    <3> QED
      BY <1>3, <3>1, <3>2 DEF Boundaries, Starts
  <2> QED
    BY <2>1, <2>2
<1> QED
  BY <1>1, <1>2, <1>5, <1>6, <1>7 DEF c

LEMMA ConcatLaid ==
  ASSUME NEW I, I \subseteq [op : Opcodes, arg : Nat], NEW a, NEW b, Laid(a, I), Laid(b, I)
  PROVE  Laid(a \o b, I) /\ Len(a \o b) = Len(a) + Len(b)
<1> DEFINE c == a \o b
<1>1. /\ a \in Seq(Cell) /\ b \in Seq(Cell) /\ 1 \in Boundaries(a) /\ 1 \in Boundaries(b)
      /\ \A i \in Starts(a) : a[i] \in I /\ i + Size(a[i].op) \in Boundaries(a)
      /\ \A i \in Starts(b) : b[i] \in I /\ i + Size(b[i].op) \in Boundaries(b)
  BY DEF Laid
<1>2. /\ c \in Seq(Cell) /\ Len(c) = Len(a) + Len(b)
      /\ \A i \in DOMAIN c : \/ i \in DOMAIN a /\ c[i] = a[i]
                             \/ i - Len(a) \in DOMAIN b /\ c[i] = b[i - Len(a)]
      /\ \A i \in Boundaries(a) : i \in Boundaries(c)
      /\ \A k \in Boundaries(b) : Len(a) + k \in Boundaries(c)
  BY <1>1, ConcatPlaces
<1> HIDE DEF c
<1>3. ASSUME NEW i \in Starts(c) PROVE c[i] \in I /\ i + Size(c[i].op) \in Boundaries(c)
  <2>1. i \in DOMAIN c /\ c[i].op # "OPERAND"
    BY DEF Starts
  <2>2. CASE i \in DOMAIN a /\ c[i] = a[i]
    <3>1. i \in Starts(a)
      BY <2>1, <2>2 DEF Starts
    <3> QED
      BY <1>1, <1>2, <2>2, <3>1
  <2>3. CASE i - Len(a) \in DOMAIN b /\ c[i] = b[i - Len(a)]
    <3>1. PICK k \in DOMAIN b : k = i - Len(a) /\ c[i] = b[k]
      BY <2>3
    <3>2. k \in Starts(b)
      BY <2>1, <3>1 DEF Starts
    <3>3. b[k] \in I /\ k + Size(b[k].op) \in Boundaries(b)
      BY <1>1, <3>2
    <3>4. Len(a) + (k + Size(b[k].op)) \in Boundaries(c)
      BY <1>2, <3>3
    <3>5. Size(b[k].op) \in Nat
      BY <3>3, OperandsOf
    <3>6. i \in Nat /\ k \in Nat /\ Len(a) \in Nat
      BY <1>1, <1>2, <2>1, <3>1
    <3>7. Len(a) + (k + Size(b[k].op)) = i + Size(c[i].op)
      BY <3>1, <3>5, <3>6
    <3> QED
      BY <3>1, <3>3, <3>4, <3>7
  <2> QED
    BY <1>2, <2>1, <2>2, <2>3
<1>4. Laid(c, I)
  BY <1>1, <1>2, <1>3 DEF Laid
<1> QED
  BY <1>2, <1>4 DEF c

LEMMA ConcatJumps ==
  ASSUME NEW I, I \subseteq [op : Opcodes, arg : Nat], NEW a, NEW b, Laid(a, I), Laid(b, I),
         NEW B, NEW C, JumpsTo(a, B), JumpsTo(b, C), \A x \in C : Len(a) + x \in B
  PROVE  JumpsTo(a \o b, B)
<1> DEFINE c == a \o b
<1>1. a \in Seq(Cell) /\ b \in Seq(Cell) /\ 1 \in Boundaries(b)
  BY DEF Laid
<1>2. /\ c \in Seq(Cell)
      /\ \A i \in DOMAIN c : \/ i \in DOMAIN a /\ c[i] = a[i]
                             \/ i - Len(a) \in DOMAIN b /\ c[i] = b[i - Len(a)]
  BY <1>1, ConcatPlaces
<1> HIDE DEF c
<1>3. ASSUME NEW i \in Jumps(c) PROVE JumpTarget(c, i) \in B
  <2>1. i \in DOMAIN c /\ c[i].op \in JumpOps /\ i \in Nat
    BY <1>2 DEF Jumps, JumpOps
  <2>2. CASE i \in DOMAIN a /\ c[i] = a[i]
    <3>1. i \in Jumps(a) /\ JumpTarget(c, i) = JumpTarget(a, i)
      BY <2>1, <2>2 DEF Jumps, JumpTarget, JumpOps
    <3> QED
      BY <3>1 DEF JumpsTo
  <2>3. CASE i - Len(a) \in DOMAIN b /\ c[i] = b[i - Len(a)]
    <3>1. PICK k \in DOMAIN b : k = i - Len(a) /\ c[i] = b[k]
      BY <2>3
    <3>2. k \in Jumps(b)
      BY <2>1, <3>1 DEF Jumps, JumpOps
    <3>3. JumpTarget(b, k) \in C
      BY <3>2 DEF JumpsTo
    <3>4. b[k] \in Cell
      BY <1>1
    <3>5. k \in Nat /\ Len(a) \in Nat /\ b[k].arg \in Nat
      BY <1>1, <2>1, <3>1, <3>4 DEF Cell
    <3>6. Len(a) + JumpTarget(b, k) = JumpTarget(c, i)
      BY <2>1, <3>1, <3>5 DEF JumpTarget
    <3> QED
      BY <3>3, <3>6
  <2> QED
    BY <1>2, <2>1, <2>2, <2>3
<1> QED
  BY <1>3 DEF JumpsTo, c

(* Code that lands still lands when other code follows or precedes it.     *)
LEMMA ConcatLands ==
  ASSUME NEW I, I \subseteq [op : Opcodes, arg : Nat], NEW a, NEW b, Laid(a, I), Laid(b, I),
         Lands(a), Lands(b)
  PROVE  Lands(a \o b)
<1>1. a \in Seq(Cell) /\ b \in Seq(Cell) /\ 1 \in Boundaries(b)
  BY DEF Laid
<1>2. /\ \A i \in Boundaries(a) : i \in Boundaries(a \o b)
      /\ \A k \in Boundaries(b) : Len(a) + k \in Boundaries(a \o b)
  BY <1>1, ConcatPlaces
<1>3. JumpsTo(a, Boundaries(a \o b)) /\ JumpsTo(b, Boundaries(b))
  BY <1>2 DEF JumpsTo, Lands
<1>4. JumpsTo(a \o b, Boundaries(a \o b))
  BY <1>2, <1>3, ConcatJumps
<1> QED
  BY <1>4 DEF Lands

LEMMA LaidMore ==
  ASSUME NEW I, NEW J, I \subseteq J, NEW code, Laid(code, I)
  PROVE  Laid(code, J)
BY DEF Laid

(* Code without jumps.                                                     *)
LEMMA StraightLands ==
  ASSUME NEW m, NEW f, NEW code, Laid(code, Straight(m, f))
  PROVE  Jumps(code) = {} /\ Lands(code) /\ \A B : JumpsTo(code, B)
<1>1. \A i \in Jumps(code) : i \in Starts(code) /\ code[i].op \in JumpOps
  BY DEF Jumps, Starts, JumpOps
<1>2. \A i \in Starts(code) : code[i].op \notin JumpOps
  BY DEF Laid, Straight
<1>3. Jumps(code) = {}
  BY <1>1, <1>2
<1> QED
  BY <1>3 DEF Lands, JumpsTo

-----------------------------------------------------------------------------
(* The jumps of the compiler.                                              *)

LEMMA EmptyJumps == \A B : JumpsTo(<<>>, B)
<1>1. DOMAIN <<>> = {}
  OBVIOUS
<1>2. Jumps(<<>>) = {}
  BY <1>1 DEF Jumps
<1> QED
  BY <1>2 DEF JumpsTo

LEMMA LowByteIs ==
  ASSUME NEW n \in Nat
  PROVE  LowByte(n) \in Nat /\ (n < ByteRange => LowByte(n) = n)
<1>1. PICK b \in Nat \ {0} : b = ByteRange
  BY BytesAssumption
<1>2. n % b \in 0..b-1 /\ (n < b => n % b = n)
  BY <1>1
<1> QED
  BY <1>1, <1>2 DEF LowByte

LEMMA JumpLaid ==
  ASSUME NEW m, NEW f, NEW op \in JumpOps, NEW n \in Nat
  PROVE  /\ Laid(Encode(op, n), Instrs(m, f)) /\ Len(Encode(op, n)) = 3
         /\ JumpsTo(Encode(op, n), {IF op = "RJMP" THEN 4 - n ELSE 4 + n})
<1>1. op \in Opcodes /\ op \notin LocalOps /\ op # "CALL"
  BY DEF JumpOps, LocalOps, Opcodes
<1>2. [op |-> op, arg |-> n] \in Instrs(m, f)
  BY <1>1 DEF Instrs
<1>3. Laid(Encode(op, n), Instrs(m, f))
  BY <1>1, <1>2, EncodeLaid
<1>4. Len(Encode(op, n)) = 3
  <2>1. Len(Encode(op, n)) = Size(op)
    BY <1>1, EncodeParts, Zenon
  <2>2. Size(op) = 3
    BY <1>1 DEF Size, OperandBytes, JumpOps
  <2> QED
    BY <2>1, <2>2
<1>5. JumpsTo(Encode(op, n), {IF op = "RJMP" THEN 4 - n ELSE 4 + n})
  BY <1>1, EncodeJumps, Zenon
<1> QED
  BY <1>3, <1>4, <1>5

LEMMA JumpsLaid ==
  ASSUME NEW m, NEW f, NEW n \in Nat
  PROVE  /\ Laid(Encode("JMP", n), Instrs(m, f)) /\ Len(Encode("JMP", n)) = 3
         /\ JumpsTo(Encode("JMP", n), {4 + n})
         /\ Laid(Encode("JEZ", n), Instrs(m, f)) /\ Len(Encode("JEZ", n)) = 3
         /\ JumpsTo(Encode("JEZ", n), {4 + n})
         /\ Laid(Encode("RJMP", n), Instrs(m, f)) /\ Len(Encode("RJMP", n)) = 3
         /\ JumpsTo(Encode("RJMP", n), {4 - n})
<1>1. "JMP" \in JumpOps /\ "JEZ" \in JumpOps /\ "RJMP" \in JumpOps
  BY DEF JumpOps
<1>2. ASSUME NEW op \in JumpOps, NEW t, t = IF op = "RJMP" THEN 4 - n ELSE 4 + n
      PROVE  /\ Laid(Encode(op, n), Instrs(m, f)) /\ Len(Encode(op, n)) = 3
             /\ JumpsTo(Encode(op, n), {t})
  BY <1>2, JumpLaid
<1>3. 4 + n = (IF "JMP" = "RJMP" THEN 4 - n ELSE 4 + n) /\ 4 + n = (IF "JEZ" = "RJMP" THEN 4 - n ELSE 4 + n)
  OBVIOUS
<1> QED
  BY <1>1, <1>2, <1>3

LEMMA InstrsSort == \A m, f : Instrs(m, f) \subseteq [op : Opcodes, arg : Nat]
BY DEF Instrs

(* What compile_if_statement emits after both blocks.                      *)
LEMMA IfCodeLaid ==
  ASSUME NEW m, NEW f, NEW yes, NEW no,
         Laid(yes, Instrs(m, f)), Laid(no, Instrs(m, f))
  PROVE  /\ Laid(IfCode(yes, no), Instrs(m, f))
         /\ Lands(yes) /\ Lands(no) /\ Len(yes) + 3 < ByteRange
              => Lands(IfCode(yes, no))
<1> DEFINE I == Instrs(m, f)
           skip == IF Len(no) >= ShortRange THEN <<>> ELSE Encode("JMP", Len(no))
           taken == yes \o skip
           jez == Encode("JEZ", LowByte(Len(taken)))
           start == jez \o taken
           code == start \o no
<1>1. PICK p \in Nat, q \in Nat : p = Len(yes) /\ q = Len(no)
  BY DEF Laid
<1>2. I \subseteq [op : Opcodes, arg : Nat] /\ Laid(yes, I) /\ Laid(no, I)
  BY InstrsSort
<1>3. IfCode(yes, no) = IF Len(taken) >= ShortRange THEN <<>> ELSE code
  BY DEF IfCode
<1>4. /\ Laid(skip, I) /\ JumpsTo(skip, {4 + q}) /\ (skip = <<>> \/ Len(skip) = 3)
      /\ Len(skip) \in 0..3
  <2>1. CASE q >= ShortRange
    BY <1>1, <2>1, EmptyLaid, StraightLands DEF JumpsTo, Jumps
  <2>2. CASE ~(q >= ShortRange)
    <3>1. skip = Encode("JMP", q)
      BY <1>1, <2>2
    <3> HIDE DEF skip
    <3> QED
      <4>1. Laid(skip, I) /\ JumpsTo(skip, {4 + q}) /\ Len(skip) = 3
        BY <1>1, <3>1, JumpsLaid
      <4> QED
        BY <4>1
  <2> QED
    BY <2>1, <2>2
<1>5. PICK s \in 0..3 : s = Len(skip)
  BY <1>4
<1> HIDE DEF I, skip
<1>6. Laid(taken, I) /\ Len(taken) = p + s
  <2>1. Laid(taken, I) /\ Len(taken) = Len(yes) + Len(skip)
    BY <1>2, <1>4, ConcatLaid, Zenon
  <2> QED
    BY <1>1, <1>5, <2>1
<1>7. PICK n \in Nat : n = LowByte(Len(taken)) /\ (p + s < ByteRange => n = p + s)
  <2>1. Len(taken) \in Nat /\ Len(taken) = p + s
    BY <1>5, <1>6
  <2>2. /\ LowByte(Len(taken)) \in Nat
        /\ Len(taken) < ByteRange => LowByte(Len(taken)) = Len(taken)
    BY <2>1, LowByteIs, Zenon
  <2> QED
    BY <2>1, <2>2
<1>8. Laid(jez, I) /\ Len(jez) = 3 /\ JumpsTo(jez, {4 + n})
  <2>1. jez = Encode("JEZ", n)
    BY <1>7
  <2> HIDE DEF jez
  <2> QED
    BY <2>1, JumpsLaid DEF I
<1> HIDE DEF taken, jez
<1>9. Laid(start, I) /\ Len(start) = 3 + (p + s)
  <2>1. Laid(start, I) /\ Len(start) = Len(jez) + Len(taken)
    BY <1>2, <1>6, <1>8, ConcatLaid, Zenon
  <2> QED
    BY <1>6, <1>8, <2>1
<1> HIDE DEF start
<1>10. Laid(code, I) /\ Len(code) = 3 + (p + s) + q
  <2>1. Laid(code, I) /\ Len(code) = Len(start) + Len(no)
    BY <1>2, <1>9, ConcatLaid, Zenon
  <2> QED
    BY <1>1, <1>9, <2>1
<1>11. Laid(IfCode(yes, no), I)
  BY <1>3, <1>10, EmptyLaid
<1>12. ASSUME Lands(yes), Lands(no), Len(yes) + 3 < ByteRange
       PROVE  Lands(code)
  <2> DEFINE B == Boundaries(code)
  <2>1. /\ \A i \in Boundaries(start) : i \in B
        /\ \A k \in Boundaries(no) : Len(start) + k \in B
    BY <1>2, <1>9, ConcatPlaces DEF Laid
  <2>2. \A k \in Boundaries(taken) : 3 + k \in Boundaries(start)
    BY <1>6, <1>8, ConcatPlaces DEF Laid, start
  <2>3. \A i \in Boundaries(yes) : i \in Boundaries(taken)
    BY <1>2, <1>4, ConcatPlaces DEF Laid, taken
  <2>4. Len(code) + 1 \in B /\ Len(start) + 1 \in B
    <3>1. Len(code) + 1 \in B /\ Len(start) + 1 \in Boundaries(start)
      BY DEF Boundaries
    <3> QED
      BY <2>1, <3>1
  <2> DEFINE C == {x \in Int : 3 + x \in B}
  <2>5. JumpsTo(yes, C)
    <3>1. \A i \in Boundaries(yes) : i \in C
      <4>1. \A i \in Boundaries(yes) : i \in Int
        BY <1>1, <1>2 DEF Boundaries, Starts, Laid
      <4> QED
        BY <2>1, <2>2, <2>3, <4>1
    <3> QED
      BY <1>12, <3>1 DEF Lands, JumpsTo
  <2>6. \A x \in {4 + q} : Len(yes) + x \in C \/ skip = <<>>
    <3>1. ASSUME s = 3 PROVE p + (4 + q) \in C
      <4>1. 3 + (p + (4 + q)) = Len(code) + 1
        BY <1>10, <3>1
      <4> QED
        BY <2>4, <4>1
    <3> QED
      BY <1>1, <1>4, <1>5, <3>1
  <2>7. JumpsTo(taken, C)
    <3>1. CASE skip = <<>>
      <4>1. JumpsTo(skip, {})
        BY <3>1, EmptyJumps
      <4> QED
        BY <1>2, <1>4, <2>5, <4>1, ConcatJumps DEF taken
    <3>2. CASE skip # <<>>
      <4>1. \A x \in {4 + q} : Len(yes) + x \in C
        BY <2>6, <3>2
      <4> HIDE DEF C
      <4> QED
        BY <1>2, <1>4, <2>5, <4>1, ConcatJumps DEF taken
    <3> QED
      BY <3>1, <3>2
  <2>8. JumpsTo(jez, B)
    <3>1. n = p + s
      <4>1. ByteRange \in Nat
        BY BytesAssumption
      <4> QED
        BY <1>1, <1>7, <1>12, <4>1
    <3>2. 4 + n = Len(start) + 1
      BY <1>9, <3>1
    <3> QED
      BY <1>8, <2>4, <3>2 DEF JumpsTo
  <2> HIDE DEF B
  <2>9. \A x \in C : Len(jez) + x \in B
    BY <1>8
  <2> HIDE DEF C
  <2>10. JumpsTo(start, B)
    BY <1>2, <1>6, <1>8, <2>7, <2>8, <2>9, ConcatJumps DEF start
  <2>11. JumpsTo(no, Boundaries(no))
    BY <1>12 DEF Lands
  <2>12. JumpsTo(code, B)
    BY <1>2, <1>9, <2>1, <2>10, <2>11, ConcatJumps
  <2> QED
    BY <2>12 DEF Lands, B
<1> HIDE DEF code
<1>13. Lands(yes) /\ Lands(no) /\ Len(yes) + 3 < ByteRange => Lands(IfCode(yes, no))
  BY <1>3, <1>12, EmptyLaid
<1> QED
  BY <1>11, <1>13 DEF I

(* What compile_while_statement emits around the condition and the body.   *)
LEMMA WhileCodeLaid ==
  ASSUME NEW m, NEW f, NEW cond, NEW body,
         Laid(cond, Instrs(m, f)), Laid(body, Instrs(m, f))
  PROVE  /\ Laid(WhileCode(cond, body), Instrs(m, f))
         /\ Lands(cond) /\ Lands(body) /\ Len(cond) + Len(body) + 6 < ByteRange
              => Lands(WhileCode(cond, body))
<1> DEFINE I == Instrs(m, f)
           jez == Encode("JEZ", LowByte(Len(body) + 3))
           rjmp == Encode("RJMP", LowByte(Len(cond) + Len(body) + 6))
           test == cond \o jez
           loop == test \o body
           code == loop \o rjmp
<1>1. PICK p \in Nat, q \in Nat : p = Len(cond) /\ q = Len(body)
  BY DEF Laid
<1>2. I \subseteq [op : Opcodes, arg : Nat] /\ Laid(cond, I) /\ Laid(body, I)
  BY InstrsSort
<1>3. WhileCode(cond, body) = code
  BY DEF WhileCode
<1>4. PICK n \in Nat : n = LowByte(Len(body) + 3) /\ (q + 3 < ByteRange => n = q + 3)
  <2>1. Len(body) + 3 \in Nat
    BY <1>1
  <2>2. /\ LowByte(Len(body) + 3) \in Nat
        /\ Len(body) + 3 < ByteRange => LowByte(Len(body) + 3) = Len(body) + 3
    BY <2>1, LowByteIs, Zenon
  <2> QED
    BY <1>1, <2>2
<1>5. PICK r \in Nat : r = LowByte(Len(cond) + Len(body) + 6)
                       /\ (p + q + 6 < ByteRange => r = p + q + 6)
  <2> DEFINE back == Len(cond) + Len(body) + 6
  <2>1. back \in Nat
    BY <1>1
  <2> HIDE DEF back
  <2>2. LowByte(back) \in Nat /\ (back < ByteRange => LowByte(back) = back)
    BY <2>1, LowByteIs, Zenon
  <2> USE DEF back
  <2> QED
    BY <1>1, <2>2
<1>6. Laid(jez, I) /\ Len(jez) = 3 /\ JumpsTo(jez, {4 + n})
  <2>1. jez = Encode("JEZ", n)
    BY <1>4
  <2> HIDE DEF jez
  <2> QED
    BY <2>1, JumpsLaid
<1>7. Laid(rjmp, I) /\ Len(rjmp) = 3 /\ JumpsTo(rjmp, {4 - r})
  <2>1. rjmp = Encode("RJMP", r)
    BY <1>5
  <2> HIDE DEF rjmp
  <2> QED
    BY <2>1, JumpsLaid
<1> HIDE DEF I, jez, rjmp
<1>8. Laid(test, I) /\ Len(test) = p + 3
  <2>1. Laid(test, I) /\ Len(test) = Len(cond) + Len(jez)
    BY <1>2, <1>6, ConcatLaid, Zenon
  <2> QED
    BY <1>1, <1>6, <2>1
<1> HIDE DEF test
<1>9. Laid(loop, I) /\ Len(loop) = p + 3 + q
  <2>1. Laid(loop, I) /\ Len(loop) = Len(test) + Len(body)
    BY <1>2, <1>8, ConcatLaid, Zenon
  <2> QED
    BY <1>1, <1>8, <2>1
<1> HIDE DEF loop
<1>10. Laid(code, I) /\ Len(code) = p + 3 + q + 3
  <2>1. Laid(code, I) /\ Len(code) = Len(loop) + Len(rjmp)
    BY <1>2, <1>7, <1>9, ConcatLaid, Zenon
  <2> QED
    BY <1>1, <1>7, <1>9, <2>1
<1>11. ASSUME Lands(cond), Lands(body), Len(cond) + Len(body) + 6 < ByteRange
       PROVE  Lands(code)
  <2> DEFINE B == Boundaries(code)
  <2>1. n = q + 3 /\ r = p + q + 6
    <3>1. ByteRange \in Nat
      BY BytesAssumption
    <3> QED
      BY <1>1, <1>4, <1>5, <1>11, <3>1
  <2>2. Len(code) + 1 \in B /\ 1 \in B
    BY <1>10 DEF Boundaries, Laid
  <2>3. \A i \in Boundaries(loop) : i \in B
    BY <1>7, <1>9, ConcatPlaces DEF Laid
  <2>4. /\ \A i \in Boundaries(test) : i \in Boundaries(loop)
        /\ \A k \in Boundaries(body) : Len(test) + k \in Boundaries(loop)
    BY <1>2, <1>8, ConcatPlaces DEF Laid, loop
  <2>5. \A i \in Boundaries(cond) : i \in Boundaries(test)
    BY <1>2, <1>6, ConcatPlaces DEF Laid, test
  <2> HIDE DEF B
  <2>6. JumpsTo(cond, B)
    BY <1>11, <2>3, <2>4, <2>5 DEF Lands, JumpsTo
  <2>7. \A x \in {4 + n} : Len(cond) + x \in B
    <3>1. Len(cond) + (4 + n) = Len(code) + 1
      BY <1>1, <1>10, <2>1
    <3> QED
      BY <2>2, <3>1
  <2>8. JumpsTo(test, B)
    BY <1>2, <1>6, <2>6, <2>7, ConcatJumps DEF test
  <2>9. JumpsTo(body, Boundaries(body))
    BY <1>11 DEF Lands
  <2>10. JumpsTo(loop, B)
    BY <1>2, <1>8, <2>3, <2>4, <2>8, <2>9, ConcatJumps DEF loop
  <2>11. \A x \in {4 - r} : Len(loop) + x \in B
    <3>1. Len(loop) + (4 - r) = 1
      BY <1>1, <1>9, <2>1
    <3> QED
      BY <2>2, <3>1
  <2>12. JumpsTo(code, B)
    BY <1>2, <1>7, <1>9, <2>10, <2>11, ConcatJumps
  <2> QED
    BY <2>12 DEF Lands, B
<1> HIDE DEF code
<1> QED
  BY <1>3, <1>10, <1>11 DEF I

-----------------------------------------------------------------------------
(* Expressions.                                                            *)

LEMMA StraightSort == \A m, f : Straight(m, f) \subseteq [op : Opcodes, arg : Nat]
BY DEF Instrs, Straight

LEMMA PlainLaid ==
  ASSUME NEW m, NEW f, NEW op \in Opcodes, NEW arg \in Nat,
         op \notin JumpOps, op \in LocalOps => arg < m, op = "CALL" => f
  PROVE  Laid(Encode(op, arg), Straight(m, f))
<1>1. [op |-> op, arg |-> arg] \in Straight(m, f)
  BY DEF Straight, Instrs
<1> QED
  BY <1>1, EncodeLaid

LEMMA StraightConcat ==
  ASSUME NEW m, NEW f, NEW a, NEW b, Laid(a, Straight(m, f)), Laid(b, Straight(m, f))
  PROVE  Laid(a \o b, Straight(m, f))
BY StraightSort, ConcatLaid, Zenon

(* A number below n that is the largest, or the smallest, of a set.        *)
LEMMA MinIn ==
  ASSUME NEW S, S \subseteq Nat, S # {}
  PROVE  Min(S) \in S
<1>1. IsWellFoundedOn(Less, Nat)
  BY NatLessThanWellFounded, Zenon DEF OpToRel, Less
<1>2. PICK x \in S : \A y \in S : ~ (<<y, x>> \in Less)
  BY <1>1, WFMin, Zenon
<1>3. ASSUME NEW y \in S PROVE x <= y
  <2>1. x \in Nat /\ y \in Nat /\ ~ (<<y, x>> \in Less)
    BY <1>2
  <2>2. ~ (y < x)
    BY <2>1 DEF Less
  <2> QED
    BY <2>1, <2>2
<1>4. \E z \in S : \A y \in S : z <= y
  BY <1>3
<1> QED
  BY <1>4, Zenon DEF Min

LEMMA MaxIn ==
  ASSUME NEW n \in Nat, NEW S, S \subseteq 0..n, S # {}
  PROVE  Max(S) \in S
<1> DEFINE T == {n - y : y \in S}
<1>1. IsWellFoundedOn(Less, Nat)
  BY NatLessThanWellFounded, Zenon DEF OpToRel, Less
<1>2. T \subseteq Nat /\ T # {}
  <2>1. \A y \in S : n - y \in Nat /\ n - y \in T
    OBVIOUS
  <2> QED
    BY <2>1
<1> HIDE DEF T
<1>3. PICK z \in T : \A y \in T : ~ (<<y, z>> \in Less)
  BY <1>1, <1>2, WFMin, Zenon
<1> USE DEF T
<1>4. PICK x \in S : z = n - x
  OBVIOUS
<1>5. ASSUME NEW y \in S PROVE x >= y
  <2>1. n - y \in T /\ n - y \in Nat /\ z \in Nat
    BY <1>2
  <2>2. ~ (n - y < z)
    BY <1>3, <2>1 DEF Less
  <2> QED
    BY <1>4, <2>1, <2>2
<1>6. \E u \in S : \A y \in S : u >= y
  BY <1>5
<1> QED
  BY <1>6, Zenon DEF Max

(* A name that is declared denotes a variable of the frame.                *)
LEMMA LookupTyped ==
  ASSUME ScopesOK(scopes), NEW x, Declared(x)
  PROVE  Lookup(x) \in Var /\ Lookup(x).index < scopes[FrameBase(scopes)].max
<1>1. PICK t \in Nat \ {0} : t = Len(scopes) /\ t = top /\ scopes \in Seq(Scope)
  BY DEF ScopesOK, top
<1>2. Base = FrameBase(scopes) /\ Base \in 1..t
  BY <1>1 DEF Base, FrameBase
<1>3. Declaring(x) \subseteq 0..t /\ Declaring(x) # {}
  BY <1>1, <1>2 DEF Declaring, Declared
<1>4. PICK s \in Declaring(x) : s = Max(Declaring(x))
  <2>1. t \in Nat
    OBVIOUS
  <2>2. PICK D : D = Declaring(x)
    OBVIOUS
  <2>3. D \subseteq 0..t /\ D # {}
    BY <1>3, <2>2
  <2>4. Max(D) \in D
    BY <2>1, <2>3, MaxIn
  <2> QED
    BY <2>2, <2>4
<1>5. s \in Base..t /\ \E j \in DOMAIN scopes[s].vars : scopes[s].vars[j].name = x
  BY <1>1, <1>4 DEF Declaring
<1>6. s \in 1..t /\ scopes[s].vars \in Seq(Var)
  <2>1. s \in 1..t
    <3>1. PICK b \in 1..t : b = Base
      BY <1>2
    <3> QED
      BY <1>1, <1>5, <3>1
  <2> QED
    BY <1>1, <2>1, ScopeFields
<1> DEFINE v == scopes[s].vars
           J == {j \in DOMAIN v : v[j].name = x}
<1>7. J \subseteq Nat /\ J # {}
  BY <1>5, <1>6
<1>8. PICK j \in J : j = Min(J)
  <2> HIDE DEF J
  <2> QED
    BY <1>7, MinIn
<1>9. Lookup(x) = v[j]
  BY <1>4, <1>8 DEF Lookup
<1>10. j \in 1..Len(scopes[s].vars)
  BY <1>6
<1>11. v[j].index < scopes[FrameBase(scopes)].max
  BY <1>1, <1>2, <1>5, <1>10, SlotsBelowMax
<1> QED
  BY <1>6, <1>9, <1>10, <1>11

(* What the compilation of an expression keeps on its stack.               *)
Terms(I) ==
  [type : ValueTypes \cup {"absent", "call"}, code : {c \in Seq(Cell) : Laid(c, I)},
   bare : BOOLEAN]

AreTerms(acc, I, k) == acc.ok => acc.stk \in Seq(Terms(I)) /\ Len(acc.stk) = k

LEMMA TermFields ==
  ASSUME NEW I, NEW x \in Terms(I)
  PROVE  x.type \in ValueTypes \cup {"absent", "call"} /\ Laid(x.code, I) /\ x.bare \in BOOLEAN
BY DEF Terms

LEMMA TermIs ==
  ASSUME NEW I, NEW type \in ValueTypes \cup {"absent", "call"}, NEW code, Laid(code, I),
         NEW bare \in BOOLEAN
  PROVE  Term(type, code, bare) \in Terms(I)
BY DEF Term, Terms, Laid

LEMMA NodeTerms ==
  ASSUME NEW I, NEW acc, NEW k \in Nat, acc.stk \in Seq(Terms(I)), Len(acc.stk) = k,
         NEW n \in 0..k, NEW x \in Terms(I)
  PROVE  AreTerms(Node(acc, n, x), I, k - n + 1)
<1> DEFINE T == Terms(I)
           s == acc.stk
<1> HIDE DEF T, s
<1>1. s \in Seq(T) /\ Len(s) = k /\ x \in T
  BY DEF T, s
<1>2. SubSeq(s, 1, k - n) \in Seq(T) /\ Len(SubSeq(s, 1, k - n)) = k - n
  BY <1>1
<1>3. PICK r : r = SubSeq(s, 1, k - n)
  OBVIOUS
<1>4. Append(r, x) \in Seq(T) /\ Len(Append(r, x)) = k - n + 1
  BY <1>1, <1>2, <1>3
<1>5. Node(acc, n, x) = [ok |-> TRUE, stk |-> Append(r, x)]
  BY <1>1, <1>3 DEF Node, s
<1>6. Node(acc, n, x).stk = Append(r, x)
  BY <1>5
<1> QED
  BY <1>4, <1>6 DEF AreTerms, T

LEMMA WidenedLaid ==
  ASSUME NEW m, NEW f, NEW type, NEW x \in Terms(Straight(m, f))
  PROVE  Laid(Widened(x, type), Straight(m, f))
<1>1. Laid(x.code, Straight(m, f))
  BY TermFields
<1>2. "I2F" \in Opcodes /\ "I2F" \notin JumpOps /\ "I2F" \notin LocalOps /\ "I2F" # "CALL"
  BY DEF Opcodes, JumpOps, LocalOps
<1>3. Laid(Encode("I2F", 0), Straight(m, f))
  BY <1>2, PlainLaid
<1>4. Laid(x.code \o Encode("I2F", 0), Straight(m, f))
  BY <1>1, <1>3, StraightConcat
<1> QED
  BY <1>1, <1>4 DEF Widened

LEMMA OperatorCodes ==
  ASSUME NEW op
  PROVE  /\ op \in DOMAIN IntOpcode =>
              /\ IntOpcode[op] \in Opcodes /\ IntOpcode[op] \notin JumpOps
              /\ IntOpcode[op] \notin LocalOps /\ IntOpcode[op] # "CALL"
         /\ op \in DOMAIN FloatOpcode =>
              /\ FloatOpcode[op] \in Opcodes /\ FloatOpcode[op] \notin JumpOps
              /\ FloatOpcode[op] \notin LocalOps /\ FloatOpcode[op] # "CALL"
BY DEF IntOpcode, FloatOpcode, Opcodes, JumpOps, LocalOps

LEMMA BinaryTerms ==
  ASSUME NEW m, NEW f, NEW acc, NEW k \in Nat, acc.stk \in Seq(Terms(Straight(m, f))),
         Len(acc.stk) = k, 2 <= k, NEW op
  PROVE  AreTerms(BinaryOp(acc, op), Straight(m, f), k - 2 + 1)
<1> DEFINE I == Straight(m, f)
           l == acc.stk[k-1]
           r == acc.stk[k]
           type == CommonType(l, r)
           opcodes == IF type = "int" THEN IntOpcode ELSE FloatOpcode
           code == Widened(l, type) \o Widened(r, type) \o Encode(opcodes[op], 0)
           x == Term(type, code, TRUE)
<1>1. l \in Terms(I) /\ r \in Terms(I)
  <2> DEFINE T == Terms(I)
  <2>1. acc.stk \in Seq(T)
    OBVIOUS
  <2> HIDE DEF T
  <2>2. k - 1 \in 1..k /\ k \in 1..k /\ acc.stk[k-1] \in T /\ acc.stk[k] \in T
    BY <2>1
  <2> QED
    BY <2>2 DEF T
<1>2. BinaryOp(acc, op) = IF Traced(l) /\ Traced(r) /\ op \in DOMAIN opcodes
                          THEN Node(acc, 2, x) ELSE Failed
  BY DEF BinaryOp
<1>3. CASE ~ (Traced(l) /\ Traced(r) /\ op \in DOMAIN opcodes)
  <2>1. BinaryOp(acc, op) = Failed
    BY <1>2, <1>3
  <2> QED
    BY <2>1 DEF Failed, AreTerms
<1>4. CASE Traced(l) /\ Traced(r) /\ op \in DOMAIN opcodes
  <2>1. type \in ValueTypes
    BY <1>4 DEF Traced, CommonType, ValueTypes
  <2>2. /\ opcodes[op] \in Opcodes /\ opcodes[op] \notin JumpOps
        /\ opcodes[op] \notin LocalOps /\ opcodes[op] # "CALL"
    BY <1>4, OperatorCodes
  <2> HIDE DEF type, opcodes, l, r
  <2>3. Laid(Encode(opcodes[op], 0), Straight(m, f))
    BY <2>2, PlainLaid
  <2>4. Laid(Widened(l, type), Straight(m, f)) /\ Laid(Widened(r, type), Straight(m, f))
    BY <1>1, WidenedLaid
  <2>5. Laid(Widened(l, type) \o Widened(r, type), Straight(m, f))
    BY <2>4, StraightConcat
  <2>6. Laid(code, I)
    BY <2>3, <2>5, StraightConcat
  <2> HIDE DEF code, I
  <2>7. x \in Terms(I)
    BY <2>1, <2>6, TermIs
  <2> HIDE DEF x
  <2>8. acc.stk \in Seq(Terms(I)) /\ 2 \in 0..k
    BY DEF I
  <2>9. AreTerms(Node(acc, 2, x), I, k - 2 + 1)
    BY <2>7, <2>8, NodeTerms
  <2> QED
    BY <1>2, <1>4, <2>9 DEF I
<1> QED
  BY <1>3, <1>4

LEMMA LastTerm ==
  ASSUME NEW T, NEW s \in Seq(T), NEW k \in Nat \ {0}, Len(s) = k
  PROVE  Last(s) = s[k] /\ Last(s) \in T
BY DEF Last

LEMMA UnaryTerms ==
  ASSUME NEW m, NEW f, NEW acc, NEW k \in Nat \ {0}, acc.stk \in Seq(Terms(Straight(m, f))),
         Len(acc.stk) = k, NEW op
  PROVE  AreTerms(UnaryOp(acc, op), Straight(m, f), k - 1 + 1)
<1> DEFINE I == Straight(m, f)
           x == Last(acc.stk)
           code == IF x.type = "absent" THEN <<>> ELSE x.code \o Encode("INEG", 0)
           y == Term(x.type, code, FALSE)
<1>1. x \in Terms(I)
  BY LastTerm
<1>2. UnaryOp(acc, op) = IF op # "neg" THEN Failed ELSE Node(acc, 1, y)
  BY DEF UnaryOp
<1> HIDE DEF x
<1>3. x.type \in ValueTypes \cup {"absent", "call"} /\ Laid(x.code, I)
  BY <1>1, TermFields
<1>4. Laid(Encode("INEG", 0), Straight(m, f))
  <2>1. "INEG" \in Opcodes /\ "INEG" \notin JumpOps /\ "INEG" \notin LocalOps /\ "INEG" # "CALL"
    BY DEF Opcodes, JumpOps, LocalOps
  <2> QED
    BY <2>1, PlainLaid
<1>5. Laid(x.code \o Encode("INEG", 0), Straight(m, f))
  BY <1>3, <1>4, StraightConcat
<1>6. Laid(code, I)
  BY <1>5, EmptyLaid
<1> HIDE DEF code, I
<1>7. y \in Terms(I)
  BY <1>3, <1>6, TermIs
<1> HIDE DEF y
<1>8. acc.stk \in Seq(Terms(I)) /\ 1 \in 0..k
  BY DEF I
<1>9. AreTerms(Node(acc, 1, y), I, k - 1 + 1)
  BY <1>7, <1>8, NodeTerms
<1>10. AreTerms(Failed, I, k - 1 + 1)
  BY DEF Failed, AreTerms
<1> QED
  BY <1>2, <1>9, <1>10 DEF I

LEMMA LocalCodes ==
  ASSUME NEW type
  PROVE  /\ LoadOpcode(type) \in LocalOps /\ SaveOpcode(type) \in LocalOps
         /\ LoadOpcode(type) \in Opcodes /\ SaveOpcode(type) \in Opcodes
         /\ LoadOpcode(type) \notin JumpOps /\ SaveOpcode(type) \notin JumpOps
         /\ LoadOpcode(type) # "CALL" /\ SaveOpcode(type) # "CALL"
BY DEF LoadOpcode, SaveOpcode, LocalOps, Opcodes, JumpOps

LEMMA VarFields ==
  ASSUME NEW v \in Var
  PROVE  v.name \in Idents /\ v.type \in ValueTypes /\ v.index \in Nat
<1>1. v.name \in Idents /\ v.type \in ValueTypes /\ v.index \in 0..ByteRange-1
  BY DEF Var
<1>2. ByteRange \in Nat
  BY BytesAssumption
<1> QED
  BY <1>1, <1>2

LEMMA LiteralTerm ==
  ASSUME NEW m, NEW f, NEW t \in Nodes, t.tok = "lit"
  PROVE  Literal(t) \in Terms(Straight(m, f))
<1>1. t.type \in ValueTypes /\ t.val \in Nat
  BY DEF Nodes
<1>2. /\ ConstOpcode(t.type) \in Opcodes /\ ConstOpcode(t.type) \notin JumpOps
      /\ ConstOpcode(t.type) \notin LocalOps /\ ConstOpcode(t.type) # "CALL"
  BY DEF ConstOpcode, Opcodes, JumpOps, LocalOps
<1>3. Laid(Encode(ConstOpcode(t.type), t.val), Straight(m, f))
  BY <1>1, <1>2, PlainLaid
<1> QED
  BY <1>1, <1>3, TermIs DEF Literal

LEMMA IdentTerm ==
  ASSUME ScopesOK(scopes), NEW m \in Nat, scopes[FrameBase(scopes)].max <= m, NEW f, NEW x
  PROVE  Ident(x) \in Terms(Straight(m, f))
<1>1. CASE ~Declared(x)
  <2>1. Ident(x) = Term("absent", <<>>, FALSE)
    BY <1>1 DEF Ident
  <2> QED
    BY <2>1, EmptyLaid, TermIs
<1>2. CASE Declared(x)
  <2>1. PICK v \in Var : v = Lookup(x) /\ v.index < scopes[FrameBase(scopes)].max
    BY <1>2, LookupTyped
  <2>2. Ident(x) = Term(v.type, Encode(LoadOpcode(v.type), v.index), FALSE)
    BY <1>2, <2>1 DEF Ident
  <2>3. v.type \in ValueTypes /\ v.index \in Nat
    BY VarFields
  <2>4. scopes \in Seq(Scope) /\ FrameBase(scopes) \in 1..Len(scopes)
    BY DEF ScopesOK, FrameBase
  <2>5. v.index < m
    <3>1. scopes[FrameBase(scopes)].max \in Nat
      BY <2>4, ScopeFields
    <3> QED
      BY <2>1, <2>3, <3>1
  <2>6. Laid(Encode(LoadOpcode(v.type), v.index), Straight(m, f))
    BY <2>3, <2>5, LocalCodes, PlainLaid
  <2> QED
    BY <2>2, <2>3, <2>6, TermIs
<1> QED
  BY <1>1, <1>2

LEMMA AssignmentTerms ==
  ASSUME ScopesOK(scopes), NEW m \in Nat, scopes[FrameBase(scopes)].max <= m, NEW f,
         NEW acc, NEW k \in Nat \ {0}, acc.stk \in Seq(Terms(Straight(m, f))),
         Len(acc.stk) = k, NEW x
  PROVE  AreTerms(Assignment(acc, x), Straight(m, f), k - 1 + 1)
<1> DEFINE I == Straight(m, f)
           r == Last(acc.stk)
           v == Lookup(x)
           code == Widened(r, v.type) \o Encode(SaveOpcode(v.type), v.index)
           y == Term(v.type, code, TRUE)
<1>1. Assignment(acc, x) = IF Declared(x) /\ Traced(r) /\ (v.type = r.type \/ v.type = "float")
                           THEN Node(acc, 1, y) ELSE Failed
  BY DEF Assignment
<1>2. AreTerms(Failed, I, k - 1 + 1)
  BY DEF Failed, AreTerms
<1>3. ASSUME Declared(x) PROVE AreTerms(Node(acc, 1, y), I, k - 1 + 1)
  <2>1. r \in Terms(I)
    BY LastTerm
  <2>2. v \in Var /\ v.index < scopes[FrameBase(scopes)].max
    BY <1>3, LookupTyped
  <2> HIDE DEF r, v
  <2>3. v.type \in ValueTypes /\ v.index \in Nat
    BY <2>2, VarFields
  <2>4. scopes \in Seq(Scope) /\ FrameBase(scopes) \in 1..Len(scopes)
    BY DEF ScopesOK, FrameBase
  <2>5. v.index < m
    <3>1. scopes[FrameBase(scopes)].max \in Nat
      BY <2>4, ScopeFields
    <3> QED
      BY <2>2, <2>3, <3>1
  <2>6. Laid(Encode(SaveOpcode(v.type), v.index), Straight(m, f))
    BY <2>3, <2>5, LocalCodes, PlainLaid
  <2>7. Laid(Widened(r, v.type), Straight(m, f))
    BY <2>1, WidenedLaid
  <2>8. Laid(code, I)
    BY <2>6, <2>7, StraightConcat
  <2> HIDE DEF code, I
  <2>9. y \in Terms(I)
    BY <2>3, <2>8, TermIs
  <2> HIDE DEF y
  <2>10. acc.stk \in Seq(Terms(I)) /\ 1 \in 0..k
    BY DEF I
  <2> QED
    BY <2>9, <2>10, NodeTerms
<1> QED
  BY <1>1, <1>2, <1>3

LEMMA ConstIndexNat ==
  ASSUME NEW d \in Nat, IsList(descs, d), NEW g, \E i \in DOMAIN descs : descs[i].name = g
  PROVE  ConstIndex(g) \in Nat /\ descs # <<>>
<1> DEFINE i == CHOOSE i \in DOMAIN descs : descs[i].name = g
<1>1. DOMAIN descs = 1..d
  BY DEF IsList
<1>2. i \in 1..d
  BY <1>1, Zenon
<1> HIDE DEF i
<1>3. ConstIndex(g) = IF i <= Len(funcs) THEN i - 1 ELSE 0
  BY DEF ConstIndex, i
<1>4. i - 1 \in Nat
  BY <1>2
<1>5. DOMAIN <<>> = {}
  OBVIOUS
<1> QED
  BY <1>1, <1>2, <1>3, <1>4, <1>5

LEMMA CallTerms ==
  ASSUME NEW m, NEW f, f = (descs # <<>>), NEW d \in Nat, IsList(descs, d),
         NEW acc, NEW k \in Nat, acc.stk \in Seq(Terms(Straight(m, f))), Len(acc.stk) = k,
         NEW g, NEW n \in Nat, n <= k
  PROVE  AreTerms(Call(acc, g, n), Straight(m, f), k - n + 1)
<1> DEFINE I == Straight(m, f)
           args == SubSeq(acc.stk, Len(acc.stk) - n + 1, Len(acc.stk))
           code == IF n = 1 THEN args[1].code ELSE args[1].code \o args[2].code
           y == Term("call", code \o Encode("CALL", ConstIndex(g)), TRUE)
           Known == \E i \in DOMAIN descs : descs[i].name = g
<1>1. Call(acc, g, n) = IF Known /\ n \in 1..2 /\ ~args[n].bare
                        THEN Node(acc, n, y) ELSE Failed
  BY DEF Call
<1>2. AreTerms(Failed, I, k - n + 1)
  BY DEF Failed, AreTerms
<1>3. ASSUME Known, n \in 1..2 PROVE AreTerms(Node(acc, n, y), I, k - n + 1)
  <2>1. f /\ ConstIndex(g) \in Nat
    BY <1>3, ConstIndexNat
  <2>2. args \in Seq(Terms(I)) /\ Len(args) = n
    <3> DEFINE T == Terms(I)
               s == acc.stk
    <3>1. s \in Seq(T) /\ Len(s) = k
      OBVIOUS
    <3> HIDE DEF T, s
    <3>2. SubSeq(s, k - n + 1, k) \in Seq(T) /\ Len(SubSeq(s, k - n + 1, k)) = n
      BY <3>1
    <3> QED
      BY <3>1, <3>2 DEF T, s
  <2> HIDE DEF args
  <2>3. Laid(args[1].code, Straight(m, f)) /\ (n = 2 => Laid(args[2].code, Straight(m, f)))
    <3> DEFINE T == Terms(I)
    <3>1. args \in Seq(T) /\ Len(args) = n
      BY <2>2
    <3> HIDE DEF T
    <3>2. args[1] \in T /\ (n = 2 => args[2] \in T)
      BY <1>3, <3>1
    <3> QED
      BY <3>2, TermFields DEF T
  <2>4. Laid(code, Straight(m, f))
    <3>1. CASE n = 1
      BY <2>3, <3>1
    <3>2. CASE n = 2
      BY <2>3, <3>2, StraightConcat
    <3> QED
      BY <1>3, <3>1, <3>2
  <2>5. "CALL" \in Opcodes /\ "CALL" \notin JumpOps /\ "CALL" \notin LocalOps
    BY DEF Opcodes, JumpOps, LocalOps
  <2>6. Laid(Encode("CALL", ConstIndex(g)), Straight(m, f))
    BY <2>1, <2>5, PlainLaid
  <2> HIDE DEF code
  <2>7. Laid(code \o Encode("CALL", ConstIndex(g)), I)
    BY <2>4, <2>6, StraightConcat
  <2> HIDE DEF I
  <2>8. y \in Terms(I)
    BY <2>7, TermIs
  <2> HIDE DEF y
  <2>9. acc.stk \in Seq(Terms(I)) /\ n \in 0..k
    BY <1>3 DEF I
  <2> QED
    BY <2>8, <2>9, NodeTerms
<1> QED
  BY <1>1, <1>2, <1>3

LEMMA NodeKinds ==
  ASSUME NEW t \in Nodes
  PROVE  /\ t.tok \in {"lit", "id", "asg", "grp", "un", "bin", "call"}
         /\ t.tok = "call" => t.args \in Nat
<1> DEFINE A == [tok : {"lit"}, type : ValueTypes, val : Nat]
           B == [tok : {"id", "asg"}, name : Idents]
           C == [tok : {"grp"}]
           D == [tok : {"un", "bin"}, op : STRING]
           E == [tok : {"call"}, name : STRING, args : Nat]
<1>1. t \in A \/ t \in B \/ t \in C \/ t \in D \/ t \in E
  BY Zenon DEF Nodes
<1>2. t \in A => t.tok = "lit"
  OBVIOUS
<1>3. t \in B => t.tok \in {"id", "asg"}
  OBVIOUS
<1>4. t \in C => t.tok = "grp"
  OBVIOUS
<1>5. t \in D => t.tok \in {"un", "bin"}
  OBVIOUS
<1>6. t \in E => t.tok = "call" /\ t.args \in Nat
  OBVIOUS
<1> HIDE DEF A, B, C, D, E
<1> QED
  BY <1>1, <1>2, <1>3, <1>4, <1>5, <1>6

(* One node, which takes its operands from the terms.                      *)
LEMMA NodeCompiled ==
  ASSUME ScopesOK(scopes), NEW m \in Nat, scopes[FrameBase(scopes)].max <= m,
         NEW f, f = (descs # <<>>), NEW d \in Nat, IsList(descs, d),
         NEW acc, NEW k \in Nat, AreTerms(acc, Straight(m, f), k),
         NEW t \in Nodes, Operands(t) <= k
  PROVE  AreTerms(CompileNode(acc, t), Straight(m, f), k - Operands(t) + 1)
<1> DEFINE I == Straight(m, f)
<1>1. t.tok \in {"lit", "id", "asg", "grp", "un", "bin", "call"}
  BY NodeKinds
<1>2. CASE ~acc.ok
  BY <1>2 DEF CompileNode, Failed, AreTerms
<1> SUFFICES ASSUME acc.ok
             PROVE  AreTerms(CompileNode(acc, t), I, k - Operands(t) + 1)
  BY <1>2
<1>3. acc.stk \in Seq(Terms(I)) /\ Len(acc.stk) = k
  BY DEF AreTerms
<1>4. CASE t.tok = "lit"
  <2>1. CompileNode(acc, t) = Node(acc, 0, Literal(t)) /\ Operands(t) = 0
    BY <1>4 DEF CompileNode, Operands
  <2>2. Literal(t) \in Terms(I) /\ 0 \in 0..k
    BY <1>4, LiteralTerm
  <2> HIDE DEF I
  <2> QED
    BY <1>3, <2>1, <2>2, NodeTerms
<1>5. CASE t.tok = "id"
  <2>1. CompileNode(acc, t) = Node(acc, 0, Ident(t.name)) /\ Operands(t) = 0
    BY <1>5 DEF CompileNode, Operands
  <2>2. Ident(t.name) \in Terms(I) /\ 0 \in 0..k
    BY IdentTerm
  <2> HIDE DEF I
  <2> QED
    BY <1>3, <2>1, <2>2, NodeTerms
<1>6. CASE t.tok = "grp"
  <2> DEFINE x == Last(acc.stk)
             y == [x EXCEPT !.bare = FALSE]
  <2>1. CompileNode(acc, t) = Node(acc, 1, y) /\ Operands(t) = 1
    BY <1>6 DEF CompileNode, Operands
  <2>2. k \in Nat \ {0} /\ 1 \in 0..k
    BY <2>1
  <2> HIDE DEF I
  <2>3. x \in Terms(I)
    BY <1>3, <2>2, LastTerm
  <2> HIDE DEF x
  <2>4. y \in Terms(I)
    BY <2>3 DEF Terms
  <2> HIDE DEF y
  <2> QED
    BY <1>3, <2>1, <2>2, <2>4, NodeTerms
<1>7. CASE t.tok = "un"
  <2>1. CompileNode(acc, t) = UnaryOp(acc, t.op) /\ Operands(t) = 1
    BY <1>7 DEF CompileNode, Operands
  <2>2. k \in Nat \ {0}
    BY <2>1
  <2> QED
    BY <1>3, <2>1, <2>2, UnaryTerms
<1>8. CASE t.tok = "bin"
  <2>1. CompileNode(acc, t) = BinaryOp(acc, t.op) /\ Operands(t) = 2
    BY <1>8 DEF CompileNode, Operands
  <2> QED
    BY <1>3, <2>1, BinaryTerms
<1>9. CASE t.tok = "asg"
  <2>1. CompileNode(acc, t) = Assignment(acc, t.name) /\ Operands(t) = 1
    BY <1>9 DEF CompileNode, Operands
  <2>2. k \in Nat \ {0}
    BY <2>1
  <2> QED
    BY <1>3, <2>1, <2>2, AssignmentTerms
<1>10. CASE t.tok = "call"
  <2>1. CompileNode(acc, t) = Call(acc, t.name, t.args) /\ Operands(t) = t.args
    BY <1>10 DEF CompileNode, Operands
  <2>2. t.args \in Nat
    BY <1>10, NodeKinds
  <2> QED
    BY <1>3, <2>1, <2>2, CallTerms
<1> QED
  BY <1>1, <1>4, <1>5, <1>6, <1>7, <1>8, <1>9, <1>10

LEMMA StepsOf ==
  ASSUME NEW e, NEW l \in Nat, l = Len(e), NEW n \in 1..l
  PROVE  /\ n - 1 \in 0..l /\ n - 1 \in Nat
         /\ Roots(e)[0] = 0
         /\ Roots(e)[n] = Roots(e)[n-1] - Operands(e[n]) + 1
         /\ TermsAfter(e)[0] = [ok |-> TRUE, stk |-> <<>>]
         /\ TermsAfter(e)[n] = CompileNode(TermsAfter(e)[n-1], e[n])
<1>1. n - 1 \in 0..l /\ n - 1 \in Nat /\ 0 \in 0..l /\ n \in 0..l /\ n # 0
  OBVIOUS
<1>2. Roots(e) = [i \in 0..l |-> IF i = 0 THEN 0 ELSE Roots(e)[i-1] - Operands(e[i]) + 1]
  BY RootsUnfold
<1>3. Roots(e)[0] = 0 /\ Roots(e)[n] = Roots(e)[n-1] - Operands(e[n]) + 1
  BY <1>1, <1>2
<1>4. TermsAfter(e) = [i \in 0..l |-> IF i = 0 THEN [ok |-> TRUE, stk |-> <<>>]
                                     ELSE CompileNode(TermsAfter(e)[i-1], e[i])]
  BY TermsUnfold DEF NoTerms
<1>5. /\ TermsAfter(e)[0] = [ok |-> TRUE, stk |-> <<>>]
      /\ TermsAfter(e)[n] = CompileNode(TermsAfter(e)[n-1], e[n])
  BY <1>1, <1>4
<1> QED
  BY <1>1, <1>3, <1>5

(* Nodes in postfix order: how many terms there are after each of them.    *)
IsPostfix(e, l) == /\ e \in Seq(Nodes) /\ Len(e) = l
                   /\ \A n \in 1..l : Operands(e[n]) <= Roots(e)[n-1]

LEMMA OperandsNat == \A t \in Nodes : Operands(t) \in Nat
<1> TAKE t \in Nodes
<1>1. t.tok = "call" => t.args \in Nat
  BY NodeKinds
<1>2. t.tok \in {"lit", "id", "asg", "grp", "un", "bin", "call"}
  BY NodeKinds
<1> QED
  BY <1>1, <1>2 DEF Operands

LEMMA PrefixCompiled ==
  ASSUME ScopesOK(scopes), NEW m \in Nat, scopes[FrameBase(scopes)].max <= m,
         NEW f, f = (descs # <<>>), NEW d \in Nat, IsList(descs, d),
         NEW e, NEW l \in Nat, IsPostfix(e, l)
  PROVE  \A n \in 0..l : /\ Roots(e)[n] \in Nat
                          /\ AreTerms(TermsAfter(e)[n], Straight(m, f), Roots(e)[n])
<1> DEFINE I == Straight(m, f)
           S == {n \in Nat : n \in 0..l => /\ Roots(e)[n] \in Nat
                                           /\ AreTerms(TermsAfter(e)[n], I, Roots(e)[n])}
<1>1. l = Len(e) /\ e \in Seq(Nodes)
  BY DEF IsPostfix
<1>2. 0 \in S
  <2>1. Roots(e)[0] = 0
    BY <1>1, RootsUnfold
  <2>2. TermsAfter(e)[0] = [ok |-> TRUE, stk |-> <<>>]
    <3>1. TermsAfter(e) = [n \in 0..l |-> IF n = 0 THEN NoTerms
                                         ELSE CompileNode(TermsAfter(e)[n-1], e[n])]
      BY <1>1, TermsUnfold
    <3>2. 0 \in 0..l
      OBVIOUS
    <3>3. TermsAfter(e)[0] = NoTerms
      BY <3>1, <3>2
    <3> QED
      BY <3>3 DEF NoTerms
  <2>3. TermsAfter(e)[0].stk = <<>>
    BY <2>2
  <2>4. <<>> \in Seq(Terms(I)) /\ Len(<<>>) = 0
    OBVIOUS
  <2>5. AreTerms(TermsAfter(e)[0], I, 0)
    BY <2>3, <2>4 DEF AreTerms
  <2> QED
    BY <2>1, <2>5
<1>3. ASSUME NEW n \in Nat, n \in S PROVE n + 1 \in S
  <2> SUFFICES ASSUME n + 1 \in 0..l
               PROVE  /\ Roots(e)[n+1] \in Nat
                      /\ AreTerms(TermsAfter(e)[n+1], I, Roots(e)[n+1])
    OBVIOUS
  <2>1. n + 1 \in 1..l /\ n \in 0..l /\ (n + 1) - 1 = n
    OBVIOUS
  <2>2. Roots(e)[n] \in Nat /\ AreTerms(TermsAfter(e)[n], I, Roots(e)[n])
    BY <1>3, <2>1
  <2> DEFINE t == e[n+1]
             k == Roots(e)[n]
             acc == TermsAfter(e)[n]
  <2>3. t \in Nodes /\ Operands(t) <= k
    BY <1>1, <2>1 DEF IsPostfix
  <2>4. Roots(e)[n+1] = k - Operands(t) + 1 /\ TermsAfter(e)[n+1] = CompileNode(acc, t)
    <3>1. PICK j \in 1..l : j = n + 1 /\ j - 1 = n
      BY <2>1
    <3>2. l = Len(e)
      BY <1>1
    <3>3. Roots(e)[j] = Roots(e)[j-1] - Operands(e[j]) + 1
      BY <3>2, StepsOf
    <3>4. TermsAfter(e)[j] = CompileNode(TermsAfter(e)[j-1], e[j])
      BY <3>2, StepsOf
    <3> QED
      BY <3>1, <3>3, <3>4
  <2>5. k \in Nat /\ AreTerms(acc, Straight(m, f), k) /\ Operands(t) \in Nat
    BY <2>2, <2>3, OperandsNat
  <2> HIDE DEF t, k, acc
  <2>6. AreTerms(CompileNode(acc, t), Straight(m, f), k - Operands(t) + 1)
    BY <2>3, <2>5, NodeCompiled
  <2>7. k - Operands(t) + 1 \in Nat
    BY <2>3, <2>5
  <2> QED
    BY <2>4, <2>6, <2>7
<1>4. \A n \in Nat : n \in S => n + 1 \in S
  BY <1>3
<1> HIDE DEF S
<1>5. \A n \in Nat : n \in S
  BY <1>2, <1>4, Induction
<1> QED
  BY <1>5 DEF S

(* What is before the last node of an assignment is an expression too.     *)
LEMMA FrontRoots ==
  ASSUME NEW e, NEW l \in Nat, IsPostfix(e, l + 1)
  PROVE  IsPostfix(Front(e), l) /\ \A n \in 0..l : Roots(Front(e))[n] = Roots(e)[n]
<1> DEFINE g == Front(e)
           S == {n \in Nat : n \in 0..l => Roots(g)[n] = Roots(e)[n]}
<1>1. e \in Seq(Nodes) /\ Len(e) = l + 1
  BY DEF IsPostfix
<1>2. g = SubSeq(e, 1, l)
  BY <1>1 DEF Front
<1>3. g \in Seq(Nodes) /\ Len(g) = l /\ \A i \in 1..l : g[i] = e[i]
  BY <1>1, <1>2
<1> HIDE DEF g
<1>4. 0 \in S
  <2>1. l + 1 \in Nat
    OBVIOUS
  <2>2. Roots(e)[0] = 0 /\ Roots(g)[0] = 0
    BY <1>1, <1>3, <2>1, RootsUnfold
  <2> QED
    BY <2>2
<1>5. ASSUME NEW n \in Nat, n \in S PROVE n + 1 \in S
  <2> SUFFICES ASSUME n + 1 \in 0..l PROVE Roots(g)[n+1] = Roots(e)[n+1]
    OBVIOUS
  <2>1. n + 1 \in 1..l /\ n + 1 \in 1..l+1 /\ n \in 0..l /\ (n + 1) - 1 = n /\ l + 1 \in Nat
    OBVIOUS
  <2>2. Roots(g)[n+1] = Roots(g)[n] - Operands(g[n+1]) + 1
    BY <1>3, <2>1, StepsOf
  <2>3. Roots(e)[n+1] = Roots(e)[n] - Operands(e[n+1]) + 1
    BY <1>1, <2>1, StepsOf
  <2>4. Roots(g)[n] = Roots(e)[n] /\ g[n+1] = e[n+1]
    BY <1>3, <1>5, <2>1
  <2> QED
    BY <2>2, <2>3, <2>4
<1>6. \A n \in Nat : n \in S => n + 1 \in S
  BY <1>5
<1> HIDE DEF S
<1>7. \A n \in Nat : n \in S
  BY <1>4, <1>6, Induction
<1> USE DEF S
<1>8. \A n \in 0..l : Roots(g)[n] = Roots(e)[n]
  BY <1>7
<1>9. ASSUME NEW n \in 1..l PROVE Operands(g[n]) <= Roots(g)[n-1]
  <2>1. Operands(e[n]) <= Roots(e)[n-1]
    BY DEF IsPostfix
  <2>2. Roots(g)[n-1] = Roots(e)[n-1] /\ g[n] = e[n]
    BY <1>3, <1>8
  <2> QED
    BY <2>1, <2>2
<1> QED
  BY <1>3, <1>8, <1>9 DEF IsPostfix, g

(* The code of an expression, in a frame with m slots.                     *)
LEMMA CompiledLaid ==
  ASSUME ScopesOK(scopes), NEW d \in Nat, IsList(descs, d), NEW e \in AllExprs, Compile(e).ok,
         NEW m \in Nat, scopes[FrameBase(scopes)].max <= m,
         Free(scopes, Len(scopes)) + Len(Compile(e).def) <= m
  PROVE  Laid(Compile(e).code, Straight(m, descs # <<>>))
<1> DEFINE f == (descs # <<>>)
           I == Straight(m, f)
<1>1. Rejected.ok = FALSE
  BY DEF Rejected
<1>2. PICK l \in Nat \ {0} : /\ l = Len(e) /\ IsPostfix(e, l) /\ Roots(e)[l] = 1
                             /\ Last(e) = e[l]
  BY ExprsAssumption, LastTyped DEF IsExpr, IsPostfix
<1>3. CASE ~Defines(e)
  <2> DEFINE r == CompileNodes(e)
  <2>1. Compile(e) = IF r.ok THEN [ok |-> TRUE, def |-> <<>>, code |-> r.stk[1].code] ELSE Rejected
    BY <1>3 DEF Compile
  <2>2. r = TermsAfter(e)[l] /\ l \in 0..l
    BY <1>2 DEF CompileNodes
  <2>3. AreTerms(r, I, 1)
    BY <1>2, <2>2, PrefixCompiled
  <2> HIDE DEF r, I
  <2>4. r.ok /\ Compile(e).code = r.stk[1].code
    BY <1>1, <2>1
  <2>5. r.stk[1] \in Terms(I)
    BY <2>3, <2>4 DEF AreTerms
  <2> QED
    BY <2>4, <2>5, TermFields DEF I
<1>4. CASE Defines(e)
  <2> DEFINE r == RightSide(e)
             v == NewVar(Last(e).name, r.stk[1].type)
             save == Encode(SaveOpcode(v.type), v.index)
             c == [ok |-> TRUE, def |-> <<v>>, code |-> r.stk[1].code \o save]
  <2>1. Compile(e) = IF r.ok /\ Traced(r.stk[1]) /\ HasSpace THEN c ELSE Rejected
    BY <1>4 DEF Compile
  <2>2. PICK k \in Nat : l = k + 1
    <3>1. l - 1 \in Nat /\ l = (l - 1) + 1
      OBVIOUS
    <3> QED
      BY <3>1
  <2>3. /\ IsPostfix(Front(e), k) /\ Roots(Front(e))[k] = Roots(e)[k] /\ k \in 0..k
    BY <1>2, <2>2, FrontRoots
  <2>4. Roots(Front(e))[k] = 1
    <3>1. Operands(e[l]) = 1
      <4>1. e[l].tok = "asg"
        BY <1>2, <1>4 DEF Defines
      <4> QED
        BY <4>1 DEF Operands
    <3>2. Roots(e)[l] = Roots(e)[k] - 1 + 1
      <4>1. l \in 1..l /\ l - 1 = k
        BY <2>2
      <4>2. l = Len(e)
        BY <1>2
      <4>3. Roots(e)[l] = Roots(e)[l-1] - Operands(e[l]) + 1
        BY <4>1, <4>2, StepsOf
      <4> QED
        BY <3>1, <4>1, <4>3
    <3>3. Roots(e)[k] \in Nat
      BY <2>3, PrefixCompiled
    <3> QED
      BY <1>2, <2>3, <3>2, <3>3
  <2>5. AreTerms(r, I, 1)
    <3>1. r = TermsAfter(Front(e))[k]
      BY <2>3 DEF RightSide, CompileNodes, IsPostfix
    <3>2. AreTerms(TermsAfter(Front(e))[k], I, Roots(Front(e))[k])
      BY <2>3, PrefixCompiled
    <3> QED
      BY <2>4, <3>1, <3>2
  <2>6. Len(scopes) \in 1..Len(scopes) /\ scopes \in Seq(Scope)
    BY DEF ScopesOK
  <2>7. PICK n \in Nat : n = NextSlot(top) /\ n = Free(scopes, Len(scopes))
    BY <2>6, ScopeFields DEF NextSlot, top, Free
  <2>8. v.index = n % ByteRange
    BY <2>7 DEF NewVar
  <2>9. n % ByteRange \in Nat /\ n % ByteRange <= n
    <3>1. ByteRange \in Nat
      BY BytesAssumption
    <3>2. n % ByteRange \in 0..ByteRange-1 /\ n % ByteRange <= n
      BY Modulo
    <3> QED
      BY <3>1, <3>2
  <2> HIDE DEF r, I
  <2>10. c.code = r.stk[1].code \o save /\ c.def = <<v>>
    OBVIOUS
  <2>11. Len(<<v>>) = 1
    OBVIOUS
  <2> HIDE DEF v, c
  <2>12. r.ok /\ Compile(e) = c
    BY <1>1, <2>1
  <2>13. n + 1 <= m
    BY <2>7, <2>10, <2>11, <2>12
  <2>14. v.index \in Nat /\ v.index < m
    BY <2>8, <2>9, <2>13
  <2>15. r.stk[1] \in Terms(I)
    BY <2>5, <2>12 DEF AreTerms
  <2>16. Laid(r.stk[1].code, Straight(m, f))
    BY <2>15, TermFields DEF I
  <2>17. Laid(save, Straight(m, f))
    BY <2>14, LocalCodes, PlainLaid
  <2> QED
    BY <2>10, <2>12, <2>16, <2>17, StraightConcat
<1> QED
  BY <1>3, <1>4

-----------------------------------------------------------------------------
(* The code of the session.                                                *)

(* The offsets in the code of a block that is about to end fit a byte.     *)
OffsetsFit ==
  \A i \in DOMAIN scopes :
    /\ scopes[i].kind = "else" => Len(emitters[i].head) + 3 < ByteRange
    /\ scopes[i].kind = "body" => Len(emitters[i].head) + Len(emitters[i].code) + 6 < ByteRange

(* The number of variables of a frame fits the 16 bits of a handle.        *)
SizesFit == \A i \in DOMAIN scopes : scopes[i].max < ShortRange

(* The first scope of the frame that the code of scope i will run in.      *)
FrameOf(sc, i) == IF i >= FrameBase(sc) THEN FrameBase(sc) ELSE 1

(* Code that is whole instructions for a frame of m slots and, if J, lands *)
Good(code, m, f, J) == Laid(code, Instrs(m, f)) /\ (J => Lands(code))

MaxFor(sc, i)       == sc[FrameOf(sc, i)].max
CallsFor(sc, fn, i) == FrameOf(sc, i) = 2 \/ fn # <<>>

Chunk == [head : Seq(Cell), code : Seq(Cell)]

(* What is emitted so far.                                                 *)
EmittersOK(sc, em, fn, J) ==
  /\ em \in Seq(Chunk) /\ Len(em) = Len(sc)
  /\ \A i \in 1..Len(sc) : /\ Good(em[i].head, MaxFor(sc, i), CallsFor(sc, fn, i), J)
                           /\ Good(em[i].code, MaxFor(sc, i), CallsFor(sc, fn, i), J)

(* A function that is registered; if K, its handle has the size it needs.  *)
HandleOK(h, J, K) ==
  /\ h.args \in Nat /\ h.vars \in Nat /\ h.stack \in Nat
  /\ \E m \in Nat : Good(h.code, m, TRUE, J) /\ (K => m = h.vars /\ h.args <= m)

FuncsOK(fn, J, K) ==
  \E n \in Nat : IsList(fn, n) /\ \A i \in 1..n : HandleOK(fn[i], J, K)

(* A function is registered when its body is complete.                     *)
DescsOK(sc, ds, fn) ==
  /\ ds \in Seq(FuncDecls)
  /\ \E n \in Nat :
       /\ IsList(fn, n)
       /\ Len(ds) = IF FrameBase(sc) = 2 THEN n + 1 ELSE n
       /\ FrameBase(sc) = 2 => Len(ds[n+1].args) <= sc[2].max

Sizing == [size : 0..SizeRange-1, max : 0..SizeRange-1]

StacksOK(st, n) == st \in Seq(Sizing) /\ Len(st) = n

CodeInv(J, K) ==
  /\ ScopesOK(scopes)
  /\ EmittersOK(scopes, emitters, funcs, J)
  /\ FuncsOK(funcs, J, K)
  /\ DescsOK(scopes, descs, funcs)
  /\ StacksOK(stacks, Len(scopes))
  /\ status \in {"run", "panic"}

(* Good code.                                                              *)
LEMMA GoodEmpty == \A m, f, J : Good(<<>>, m, f, J)
BY EmptyLaid DEF Good

LEMMA GoodConcat ==
  ASSUME NEW m, NEW f, NEW J, NEW a, NEW b, Good(a, m, f, J), Good(b, m, f, J)
  PROVE  Good(a \o b, m, f, J)
<1>1. Laid(a, Instrs(m, f)) /\ Laid(b, Instrs(m, f)) /\ (J => Lands(a) /\ Lands(b))
  BY DEF Good
<1>2. Laid(a \o b, Instrs(m, f))
  BY <1>1, InstrsSort, ConcatLaid, Zenon
<1>3. J => Lands(a \o b)
  BY <1>1, InstrsSort, ConcatLands, Zenon
<1> QED
  BY <1>2, <1>3 DEF Good

LEMMA GoodMore ==
  ASSUME NEW m \in Nat, NEW n \in Nat, m <= n, NEW f, NEW g, f => g, NEW J,
         NEW code, Good(code, m, f, J)
  PROVE  Good(code, n, g, J)
<1>1. Instrs(m, f) \subseteq Instrs(n, g)
  <2>1. ASSUME NEW c \in Instrs(m, f) PROVE c \in Instrs(n, g)
    <3>1. /\ c \in [op : Opcodes, arg : Nat]
          /\ c.op \in LocalOps => c.arg < m
          /\ c.op = "CALL" => f
      BY <2>1 DEF Instrs
    <3>2. c.arg \in Nat
      BY <3>1
    <3>3. c.op \in LocalOps => c.arg < n
      BY <3>1, <3>2
    <3> QED
      BY <3>1, <3>3 DEF Instrs
  <2> QED
    BY <2>1
<1> QED
  BY <1>1, LaidMore DEF Good

LEMMA StraightGood ==
  ASSUME NEW m, NEW f, NEW J, NEW code, Laid(code, Straight(m, f))
  PROVE  Good(code, m, f, J)
<1>1. Straight(m, f) \subseteq Instrs(m, f)
  BY DEF Straight
<1>2. Laid(code, Instrs(m, f))
  BY <1>1, LaidMore
<1>3. Lands(code)
  BY StraightLands
<1> QED
  BY <1>2, <1>3 DEF Good

LEMMA IfCodeGood ==
  ASSUME NEW m, NEW f, NEW J, NEW yes, NEW no, Good(yes, m, f, J), Good(no, m, f, J),
         J => Len(yes) + 3 < ByteRange
  PROVE  Good(IfCode(yes, no), m, f, J)
BY IfCodeLaid DEF Good

LEMMA WhileCodeGood ==
  ASSUME NEW m, NEW f, NEW J, NEW cond, NEW body, Good(cond, m, f, J), Good(body, m, f, J),
         J => Len(cond) + Len(body) + 6 < ByteRange
  PROVE  Good(WhileCode(cond, body), m, f, J)
BY WhileCodeLaid DEF Good

(* The scopes after an expression: only the maximum of their frame grows.  *)
Grown(sc, sd) ==
  /\ Len(sd) = Len(sc)
  /\ FrameBase(sd) = FrameBase(sc)
  /\ sc[1].max <= sd[1].max
  /\ sc[FrameBase(sc)].max <= sd[FrameBase(sc)].max

LEMMA FrameOfIn ==
  ASSUME NEW sc, ScopesOK(sc), NEW i \in 1..Len(sc)
  PROVE  /\ FrameOf(sc, i) \in {1, FrameBase(sc)} /\ FrameOf(sc, i) \in 1..Len(sc)
         /\ FrameBase(sc) \in {1, 2} /\ FrameBase(sc) \in 1..Len(sc) /\ MaxFor(sc, i) \in Nat
         /\ FrameOf(sc, Len(sc)) = FrameBase(sc)
         /\ sc \in Seq(Scope) /\ 1 \in 1..Len(sc)
<1>1. PICK t \in Nat \ {0} : t = Len(sc) /\ sc \in Seq(Scope)
  BY DEF ScopesOK
<1>2. FrameBase(sc) \in {1, 2} /\ FrameBase(sc) \in 1..t /\ 1 \in 1..t
  BY <1>1 DEF FrameBase
<1>3. FrameOf(sc, i) \in {1, FrameBase(sc)} /\ FrameOf(sc, i) \in 1..t
  BY <1>1, <1>2 DEF FrameOf
<1>4. FrameOf(sc, t) = FrameBase(sc)
  BY <1>1, <1>2 DEF FrameOf
<1>5. MaxFor(sc, i) \in Nat
  BY <1>1, <1>3, ScopeFields DEF MaxFor
<1> QED
  BY <1>1, <1>2, <1>3, <1>4, <1>5

LEMMA EmittersGrow ==
  ASSUME NEW sc, ScopesOK(sc), NEW sd, ScopesOK(sd), Grown(sc, sd), NEW em, NEW fn, NEW J,
         EmittersOK(sc, em, fn, J)
  PROVE  EmittersOK(sd, em, fn, J)
<1>1. Len(sd) = Len(sc) /\ em \in Seq(Chunk) /\ Len(em) = Len(sd)
  BY DEF Grown, EmittersOK
<1>2. ASSUME NEW i \in 1..Len(sd)
      PROVE  /\ Good(em[i].head, MaxFor(sd, i), CallsFor(sd, fn, i), J)
             /\ Good(em[i].code, MaxFor(sd, i), CallsFor(sd, fn, i), J)
  <2>1. i \in 1..Len(sc)
    BY <1>1
  <2>2. FrameOf(sd, i) = FrameOf(sc, i)
    BY DEF Grown, FrameOf
  <2>3. FrameOf(sc, i) \in {1, FrameBase(sc)} /\ MaxFor(sc, i) \in Nat /\ MaxFor(sd, i) \in Nat
    BY <2>1, FrameOfIn
  <2>4. MaxFor(sc, i) <= MaxFor(sd, i) /\ CallsFor(sc, fn, i) = CallsFor(sd, fn, i)
    BY <2>2, <2>3 DEF Grown, MaxFor, CallsFor
  <2>5. /\ Good(em[i].head, MaxFor(sc, i), CallsFor(sc, fn, i), J)
        /\ Good(em[i].code, MaxFor(sc, i), CallsFor(sc, fn, i), J)
    BY <2>1 DEF EmittersOK
  <2> QED
    BY <2>3, <2>4, <2>5, GoodMore
<1> QED
  BY <1>1, <1>2 DEF EmittersOK

(* Code goes to the innermost emitter.                                     *)
LEMMA EmitGood ==
  ASSUME NEW sc, ScopesOK(sc), NEW em, NEW fn, NEW J, EmittersOK(sc, em, fn, J),
         NEW code, Good(code, MaxFor(sc, Len(sc)), CallsFor(sc, fn, Len(sc)), J)
  PROVE  EmittersOK(sc, Emit(em, code), fn, J)
<1>1. PICK t \in Nat \ {0} : t = Len(sc) /\ t = Len(em) /\ em \in Seq(Chunk)
  BY DEF ScopesOK, EmittersOK
<1> DEFINE e == [em[t] EXCEPT !.code = em[t].code \o code]
           es == Emit(em, code)
<1>2. es = [em EXCEPT ![t] = e]
  BY <1>1 DEF Emit
<1>3. em[t] \in Chunk
  BY <1>1
<1>4. code \in Seq(Cell)
  BY DEF Good, Laid
<1>5. e.head = em[t].head /\ e.code = em[t].code \o code /\ e \in Chunk
  <2>1. em[t].code \o code \in Seq(Cell)
    <3>1. em[t].code \in Seq(Cell)
      BY <1>3 DEF Chunk
    <3> QED
      BY <1>4, <3>1
  <2> QED
    BY <1>3, <2>1 DEF Chunk
<1> HIDE DEF e, es
<1>6. /\ es \in Seq(Chunk) /\ Len(es) = t /\ es[t] = e
      /\ \A i \in 1..t : i # t => es[i] = em[i]
  BY <1>1, <1>2, <1>5
<1>7. ASSUME NEW i \in 1..t
      PROVE  /\ Good(es[i].head, MaxFor(sc, i), CallsFor(sc, fn, i), J)
             /\ Good(es[i].code, MaxFor(sc, i), CallsFor(sc, fn, i), J)
  <2>1. /\ Good(em[i].head, MaxFor(sc, i), CallsFor(sc, fn, i), J)
        /\ Good(em[i].code, MaxFor(sc, i), CallsFor(sc, fn, i), J)
    BY <1>1 DEF EmittersOK
  <2>2. CASE i = t
    <3>1. Good(em[t].code \o code, MaxFor(sc, t), CallsFor(sc, fn, t), J)
      BY <1>1, <2>1, <2>2, GoodConcat
    <3> QED
      BY <1>5, <1>6, <2>1, <2>2, <3>1
  <2>3. CASE i # t
    BY <1>6, <2>1, <2>3
  <2> QED
    BY <2>2, <2>3
<1> QED
  BY <1>1, <1>6, <1>7 DEF EmittersOK, es

LEMMA AppendedAt ==
  ASSUME NEW S, NEW s, NEW t \in Nat, s \in Seq(S), t = Len(s), NEW x \in S
  PROVE  /\ Append(s, x) \in Seq(S) /\ Len(Append(s, x)) = t + 1
         /\ Append(s, x)[t+1] = x
         /\ \A i \in 1..t : Append(s, x)[i] = s[i]
OBVIOUS

LEMMA Shortened ==
  ASSUME NEW S, NEW s, NEW r \in Nat, s \in Seq(S), Len(s) = r + 1
  PROVE  /\ Front(s) \in Seq(S) /\ Len(Front(s)) = r
         /\ \A i \in 1..r : Front(s)[i] = s[i]
<1>1. Front(s) = SubSeq(s, 1, r)
  BY DEF Front
<1>2. /\ SubSeq(s, 1, r) \in Seq(S) /\ Len(SubSeq(s, 1, r)) = r
      /\ \A i \in 1..r : SubSeq(s, 1, r)[i] = s[i]
  OBVIOUS
<1> QED
  BY <1>1, <1>2

LEMMA FuncsGrow ==
  ASSUME NEW sc, ScopesOK(sc), NEW em, NEW fn, NEW gn, fn # <<>> => gn # <<>>, NEW J,
         EmittersOK(sc, em, fn, J)
  PROVE  EmittersOK(sc, em, gn, J)
<1>1. em \in Seq(Chunk) /\ Len(em) = Len(sc)
  BY DEF EmittersOK
<1>2. ASSUME NEW i \in 1..Len(sc)
      PROVE  /\ Good(em[i].head, MaxFor(sc, i), CallsFor(sc, gn, i), J)
             /\ Good(em[i].code, MaxFor(sc, i), CallsFor(sc, gn, i), J)
  <2>1. MaxFor(sc, i) \in Nat /\ MaxFor(sc, i) <= MaxFor(sc, i)
    BY FrameOfIn
  <2>2. CallsFor(sc, fn, i) => CallsFor(sc, gn, i)
    BY DEF CallsFor
  <2>3. /\ Good(em[i].head, MaxFor(sc, i), CallsFor(sc, fn, i), J)
        /\ Good(em[i].code, MaxFor(sc, i), CallsFor(sc, fn, i), J)
    BY DEF EmittersOK
  <2> QED
    BY <2>1, <2>2, <2>3, GoodMore
<1> QED
  BY <1>1, <1>2 DEF EmittersOK

LEMMA ChunkIs ==
  ASSUME NEW head \in Seq(Cell)
  PROVE  Emitter(head) \in Chunk /\ Emitter(head).head = head /\ Emitter(head).code = <<>>
<1>1. <<>> \in Seq(Cell)
  OBVIOUS
<1> QED
  BY <1>1 DEF Emitter, Chunk

(* A block is opened.                                                      *)
LEMMA EmittersOpen ==
  ASSUME NEW sc, ScopesOK(sc), NEW n \in Scope, n.kind # "func", NEW em, NEW fn, NEW J,
         EmittersOK(sc, em, fn, J),
         NEW head, Good(head, MaxFor(sc, Len(sc)), CallsFor(sc, fn, Len(sc)), J)
  PROVE  /\ EmittersOK(Append(sc, n), Append(em, Emitter(head)), fn, J)
         /\ FrameBase(Append(sc, n)) = FrameBase(sc)
<1>1. PICK t \in Nat \ {0} : /\ t = Len(sc) /\ t = Len(em)
                             /\ em \in Seq(Chunk) /\ sc \in Seq(Scope)
  BY DEF ScopesOK, EmittersOK
<1> DEFINE sd == Append(sc, n)
           c  == Emitter(head)
           es == Append(em, c)
<1>2. head \in Seq(Cell)
  BY DEF Good, Laid
<1>3. c \in Chunk /\ c.head = head /\ c.code = <<>>
  BY <1>2, ChunkIs
<1> HIDE DEF c
<1>4. /\ sd \in Seq(Scope) /\ Len(sd) = t + 1 /\ sd[t+1] = n /\ \A i \in 1..t : sd[i] = sc[i]
      /\ es \in Seq(Chunk) /\ Len(es) = t + 1 /\ es[t+1] = c /\ \A i \in 1..t : es[i] = em[i]
  <2>1. t \in Nat /\ Len(sc) = t /\ sc \in Seq(Scope) /\ n \in Scope
    BY <1>1
  <2>2. t \in Nat /\ Len(em) = t /\ em \in Seq(Chunk) /\ c \in Chunk
    BY <1>1, <1>3
  <2>3. ASSUME NEW S, NEW s, NEW x, t \in Nat, Len(s) = t, s \in Seq(S), x \in S
        PROVE  /\ Append(s, x) \in Seq(S) /\ Len(Append(s, x)) = t + 1
               /\ Append(s, x)[t+1] = x /\ \A i \in 1..t : Append(s, x)[i] = s[i]
    BY <2>3
  <2>4. sd \in Seq(Scope) /\ Len(sd) = t + 1 /\ sd[t+1] = n /\ \A i \in 1..t : sd[i] = sc[i]
    <3> DEFINE T == Seq(Scope)
    <3>1. sc \in T /\ Len(sc) = t /\ t \in Nat /\ n \in Scope
      BY <2>1
    <3>2. sd \in T
      BY <3>1, <2>3
    <3>3. Len(sd) = t + 1
      BY <3>1, <2>3
    <3>4. sd[t+1] = n
      BY <3>1, <2>3
    <3>5. \A i \in 1..t : sd[i] = sc[i]
      BY <3>1, <2>3
    <3> QED
      BY <3>2, <3>3, <3>4, <3>5
  <2>5. es \in Seq(Chunk) /\ Len(es) = t + 1 /\ es[t+1] = c /\ \A i \in 1..t : es[i] = em[i]
    <3> DEFINE T == Seq(Chunk)
    <3>1. em \in T /\ Len(em) = t /\ t \in Nat /\ c \in Chunk
      BY <2>2
    <3>2. es \in T
      BY <3>1, <2>3
    <3>3. Len(es) = t + 1
      BY <3>1, <2>3
    <3>4. es[t+1] = c
      BY <3>1, <2>3
    <3>5. \A i \in 1..t : es[i] = em[i]
      BY <3>1, <2>3
    <3> QED
      BY <3>2, <3>3, <3>4, <3>5
  <2> QED
    BY <2>4, <2>5
<1> HIDE DEF sd, es
<1>5. FrameBase(sd) = FrameBase(sc)
  <2>1. CASE t = 1
    BY <1>1, <1>4, <2>1 DEF FrameBase
  <2>2. CASE t # 1
    <3>1. t >= 2 /\ t + 1 >= 2 /\ 2 \in 1..t
      BY <1>1, <2>2, AtLeastTwo
    <3> QED
      BY <1>1, <1>4, <3>1 DEF FrameBase
  <2> QED
    BY <2>1, <2>2
<1>6. FrameBase(sc) \in 1..t
  BY <1>1 DEF FrameBase
<1>7. \A i \in 1..t : FrameOf(sd, i) = FrameOf(sc, i) /\ FrameOf(sc, i) \in 1..t
  BY <1>5, <1>6 DEF FrameOf
<1>8. FrameOf(sd, t+1) = FrameOf(sc, t)
  BY <1>5, <1>6 DEF FrameOf
<1>9. ASSUME NEW i \in 1..t+1
      PROVE  /\ Good(es[i].head, MaxFor(sd, i), CallsFor(sd, fn, i), J)
             /\ Good(es[i].code, MaxFor(sd, i), CallsFor(sd, fn, i), J)
  <2>1. CASE i = t + 1
    <3>1. MaxFor(sd, i) = MaxFor(sc, t) /\ CallsFor(sd, fn, i) = CallsFor(sc, fn, t)
      BY <1>4, <1>7, <1>8, <2>1 DEF MaxFor, CallsFor
    <3>2. Good(head, MaxFor(sc, t), CallsFor(sc, fn, t), J)
      BY <1>1
    <3> QED
      BY <1>3, <1>4, <2>1, <3>1, <3>2, GoodEmpty
  <2>2. CASE i # t + 1
    <3>1. i \in 1..t
      BY <2>2
    <3>2. MaxFor(sd, i) = MaxFor(sc, i) /\ CallsFor(sd, fn, i) = CallsFor(sc, fn, i)
      BY <1>4, <1>7, <3>1 DEF MaxFor, CallsFor
    <3>3. /\ Good(em[i].head, MaxFor(sc, i), CallsFor(sc, fn, i), J)
          /\ Good(em[i].code, MaxFor(sc, i), CallsFor(sc, fn, i), J)
      BY <1>1, <3>1 DEF EmittersOK
    <3> QED
      BY <1>4, <3>1, <3>2, <3>3
  <2> QED
    BY <2>1, <2>2
<1> QED
  BY <1>4, <1>5, <1>9 DEF EmittersOK, sd, es, c

(* A function is opened in the root scope.                                 *)
LEMMA EmittersOpenFunc ==
  ASSUME NEW sc, ScopesOK(sc), Len(sc) = 1, NEW n \in Scope, n.kind = "func",
         NEW em, NEW fn, NEW J, EmittersOK(sc, em, fn, J)
  PROVE  /\ EmittersOK(Append(sc, n), Append(em, Emitter(<<>>)), fn, J)
         /\ FrameBase(Append(sc, n)) = 2 /\ FrameBase(sc) = 1
         /\ Append(sc, n)[2] = n
<1> DEFINE sd == Append(sc, n)
           c  == Emitter(<<>>)
           es == Append(em, c)
<1>1. sc \in Seq(Scope) /\ em \in Seq(Chunk) /\ Len(em) = 1
  BY DEF ScopesOK, EmittersOK
<1>2. <<>> \in Seq(Cell)
  OBVIOUS
<1>3. c \in Chunk /\ c.head = <<>> /\ c.code = <<>>
  BY <1>2, ChunkIs
<1> HIDE DEF c
<1>4. /\ sd \in Seq(Scope) /\ Len(sd) = 2 /\ sd[1] = sc[1] /\ sd[2] = n
      /\ es \in Seq(Chunk) /\ Len(es) = 2 /\ es[1] = em[1] /\ es[2] = c
  BY <1>1, <1>3, SecondAppended
<1> HIDE DEF sd, es
<1>5. FrameBase(sd) = 2 /\ FrameBase(sc) = 1
  BY <1>4 DEF FrameBase
<1>6. MaxFor(sd, 1) = MaxFor(sc, 1) /\ CallsFor(sd, fn, 1) = CallsFor(sc, fn, 1)
  BY <1>4, <1>5 DEF MaxFor, CallsFor, FrameOf
<1>7. /\ Good(em[1].head, MaxFor(sc, 1), CallsFor(sc, fn, 1), J)
      /\ Good(em[1].code, MaxFor(sc, 1), CallsFor(sc, fn, 1), J)
  BY DEF EmittersOK
<1>8. /\ Good(es[1].head, MaxFor(sd, 1), CallsFor(sd, fn, 1), J)
      /\ Good(es[1].code, MaxFor(sd, 1), CallsFor(sd, fn, 1), J)
  BY <1>4, <1>6, <1>7
<1>9. /\ Good(es[2].head, MaxFor(sd, 2), CallsFor(sd, fn, 2), J)
      /\ Good(es[2].code, MaxFor(sd, 2), CallsFor(sd, fn, 2), J)
  BY <1>3, <1>4, GoodEmpty
<1>10. \A i \in 1..Len(sd) : i = 1 \/ i = 2
  BY <1>4
<1>11. EmittersOK(sd, es, fn, J)
  BY <1>4, <1>8, <1>9, <1>10 DEF EmittersOK
<1> QED
  BY <1>4, <1>5, <1>11 DEF sd, es, c

(* A block or a function ends.                                             *)
LEMMA EmittersClose ==
  ASSUME NEW sc, ScopesOK(sc), sc[Len(sc)].kind # "root", NEW em, NEW fn, NEW J,
         EmittersOK(sc, em, fn, J)
  PROVE  /\ EmittersOK(Front(sc), Front(em), fn, J)
         /\ Len(sc) \in Nat \ {0, 1} /\ Len(Front(sc)) = Len(sc) - 1
         /\ \A i \in 1..Len(sc)-1 : Front(sc)[i] = sc[i]
         /\ sc[Len(sc)].kind = "func" => Len(sc) = 2 /\ FrameBase(sc) = 2 /\ FrameBase(Front(sc)) = 1
         /\ sc[Len(sc)].kind # "func" => FrameBase(Front(sc)) = FrameBase(sc)
<1>1. PICK t \in Nat \ {0} : /\ t = Len(sc) /\ t = Len(em)
                             /\ em \in Seq(Chunk) /\ sc \in Seq(Scope)
  BY DEF ScopesOK, EmittersOK
<1>2. t # 1
  BY <1>1 DEF ScopesOK
<1>3. PICK r \in Nat \ {0} : r = t - 1 /\ r <= t /\ t >= 2 /\ 2 \in 1..t /\ t = r + 1
  BY <1>2, AtLeastTwo
<1> DEFINE sd == Front(sc)
           es == Front(em)
<1>5. /\ sd \in Seq(Scope) /\ Len(sd) = r /\ \A s \in 1..r : sd[s] = sc[s]
      /\ es \in Seq(Chunk) /\ Len(es) = r /\ \A s \in 1..r : es[s] = em[s]
  <2>1. r \in Nat /\ Len(sc) = r + 1 /\ sc \in Seq(Scope)
    BY <1>1, <1>3
  <2>2. r \in Nat /\ Len(em) = r + 1 /\ em \in Seq(Chunk)
    BY <1>1, <1>3
  <2>3. ASSUME NEW S, NEW q, r \in Nat, Len(q) = r + 1, q \in Seq(S)
        PROVE  Front(q) \in Seq(S) /\ Len(Front(q)) = r /\ \A s \in 1..r : Front(q)[s] = q[s]
    <3>1. Front(q) \in Seq(S)
      BY <2>3, Shortened
    <3>2. Len(Front(q)) = r
      BY <2>3, Shortened
    <3>3. \A s \in 1..r : Front(q)[s] = q[s]
      <4>1. Front(q) = SubSeq(q, 1, r)
        BY <2>3 DEF Front
      <4>2. \A s \in 1..r : SubSeq(q, 1, r)[s] = q[s]
        BY <2>3
      <4> QED
        BY <4>1, <4>2
    <3> QED
      BY <3>1, <3>2, <3>3
  <2>4. sd \in Seq(Scope) /\ Len(sd) = r /\ \A s \in 1..r : sd[s] = sc[s]
    BY <2>1, <2>3, Zenon
  <2>5. es \in Seq(Chunk) /\ Len(es) = r /\ \A s \in 1..r : es[s] = em[s]
    BY <2>2, <2>3, Zenon
  <2> QED
    BY <2>4, <2>5
<1> HIDE DEF sd, es
<1>6. /\ sc[t].kind = "func" => t = 2
      /\ t = 2 => (FrameBase(sc) = 2 <=> sc[t].kind = "func") /\ FrameBase(sd) = 1
      /\ FrameBase(sc) \in {1, 2}
  <2>1. sc[t].kind = "func" => t \notin 3..t
    BY <1>1 DEF ScopesOK
  <2> QED
    BY <1>1, <1>3, <1>5, <2>1 DEF FrameBase
<1>7. t # 2 => FrameBase(sd) = FrameBase(sc) /\ sc[t].kind # "func"
  <2> SUFFICES ASSUME t # 2 PROVE FrameBase(sd) = FrameBase(sc)
    BY <1>6
  <2>1. r >= 2 /\ 2 \in 1..r
    BY <1>3
  <2> QED
    BY <1>1, <1>3, <1>5, <2>1 DEF FrameBase
<1>8. \A i \in 1..r : FrameOf(sd, i) = FrameOf(sc, i) /\ FrameOf(sd, i) \in 1..r
  <2>1. CASE t = 2
    BY <1>3, <1>6, <2>1 DEF FrameOf
  <2>2. CASE t # 2
    BY <1>3, <1>6, <1>7, <2>2 DEF FrameOf
  <2> QED
    BY <2>1, <2>2
<1>9. ASSUME NEW i \in 1..r
      PROVE  /\ Good(es[i].head, MaxFor(sd, i), CallsFor(sd, fn, i), J)
             /\ Good(es[i].code, MaxFor(sd, i), CallsFor(sd, fn, i), J)
  <2>1. MaxFor(sd, i) = MaxFor(sc, i) /\ CallsFor(sd, fn, i) = CallsFor(sc, fn, i)
    BY <1>5, <1>8 DEF MaxFor, CallsFor
  <2>2. i \in 1..t
    BY <1>3
  <2>3. /\ Good(em[i].head, MaxFor(sc, i), CallsFor(sc, fn, i), J)
        /\ Good(em[i].code, MaxFor(sc, i), CallsFor(sc, fn, i), J)
    BY <1>1, <2>2 DEF EmittersOK
  <2> QED
    BY <1>5, <2>1, <2>3
<1>10. EmittersOK(sd, es, fn, J)
  BY <1>5, <1>9 DEF EmittersOK
<1>11. /\ sc[t].kind = "func" => t = 2 /\ FrameBase(sc) = 2 /\ FrameBase(sd) = 1
       /\ sc[t].kind # "func" => FrameBase(sd) = FrameBase(sc)
  BY <1>6, <1>7
<1>12. Len(sc) \in Nat \ {0, 1} /\ Len(sd) = Len(sc) - 1 /\ \A i \in 1..Len(sc)-1 : sd[i] = sc[i]
  BY <1>1, <1>2, <1>3, <1>5
<1> QED
  BY <1>1, <1>10, <1>11, <1>12 DEF sd, es

(* The scopes after an expression.                                         *)
LEMMA ExtendedGrown ==
  ASSUME ScopesOK(scopes), NEW e \in AllExprs, Compile(e).ok,
         NEW sd, sd \in {Extended(Compile(e)), Restored(Compile(e))}
  PROVE  /\ ScopesOK(sd) /\ Grown(scopes, sd)
         /\ sd[FrameBase(scopes)].max >= Free(scopes, Len(scopes)) + Len(Compile(e).def)
         /\ Free(scopes, Len(scopes)) + Len(Compile(e).def) \in Nat
<1> DEFINE r == Compile(e)
           t == Len(scopes)
           b == FrameBase(scopes)
           m == Free(scopes, t) + Len(r.def)
           se == RaisedTo(scopes, m)
           sx == Extended(r)
<1>1. /\ t \in Nat \ {0} /\ t \in 1..t /\ b \in {1, 2} /\ b \in 1..t /\ scopes \in Seq(Scope)
      /\ 1 \in 1..t
  BY FrameOfIn DEF ScopesOK
<1>2. b = Base /\ t = top /\ NextSlot(top) = Free(scopes, t)
  BY DEF FrameBase, Base, top, NextSlot, Free
<1>3. m \in Nat
  <2>1. Free(scopes, t) \in Nat
    BY <1>1, ScopeFields
  <2>2. Len(r.def) \in Nat
    <3>1. CASE r.def = <<>>
      BY <3>1
    <3>2. CASE r.def # <<>>
      <4>1. PICK v \in Var : r.def = <<v>>
        BY <3>2, CompiledDef
      <4>2. Len(<<v>>) = 1
        OBVIOUS
      <4> QED
        BY <4>1, <4>2
    <3> QED
      BY <3>1, <3>2
  <2> QED
    BY <2>1, <2>2
<1>4. Restored(r) = se
  BY <1>2 DEF Restored, RaisedTo
<1> HIDE DEF m
<1>5. scopes[b] \in Scope /\ scopes[b].max \in Nat /\ scopes[1].max \in Nat
  BY <1>1, ScopeFields
<1>6. /\ Len(se) = t /\ se[b] = [scopes[b] EXCEPT !.max = Raised(scopes[b].max, m)]
      /\ \A i \in 1..t : i # b => se[i] = scopes[i]
  BY <1>1 DEF RaisedTo
<1>7. /\ se[b].max = Raised(scopes[b].max, m)
      /\ Raised(scopes[b].max, m) >= m /\ Raised(scopes[b].max, m) >= scopes[b].max
      /\ scopes[1].max <= se[1].max
  <2>1. se[b].max = Raised(scopes[b].max, m)
    BY <1>5, <1>6 DEF Scope
  <2>2. Raised(scopes[b].max, m) >= m /\ Raised(scopes[b].max, m) >= scopes[b].max
    BY <1>3, <1>5 DEF Raised
  <2>3. scopes[1].max <= se[1].max
    <3>1. CASE b = 1
      BY <1>5, <2>1, <2>2, <3>1
    <3>2. CASE b # 1
      BY <1>1, <1>5, <1>6, <3>2
    <3> QED
      BY <3>1, <3>2
  <2> QED
    BY <2>1, <2>2, <2>3
<1>8. /\ ScopesOK(sx) /\ Len(sx) = t /\ ScopesOK(se)
  BY <1>4, ExtendedOK
<1>9. FrameBase(se) = b
  BY <1>3, MaxRaised
<1> DEFINE x == [se[t] EXCEPT !.vars = se[t].vars \o r.def]
<1>10. sx = WithVars(se, r.def)
  <2>1. NextSlot(top) + Len(r.def) = m
    BY <1>2 DEF m
  <2>2. Len(se) = t
    BY <1>6
  <2> HIDE DEF r
  <2> QED
    BY <1>2, <2>1, <2>2 DEF Extended, RaisedTo, WithVars
<1>17. sx = [se EXCEPT ![t] = x]
  <2> HIDE DEF se, sx, r
  <2> QED
    BY <1>6, <1>10 DEF WithVars
<1>11. se \in Seq(Scope)
  BY <1>8 DEF ScopesOK
<1> HIDE DEF se, sx, r
<1>12. \A i \in 1..t : sx[i].max = se[i].max /\ sx[i].kind = se[i].kind
  <2>1. \A i \in 1..t : se[i] \in Scope
    BY <1>6, <1>11
  <2>2. x.max = se[t].max /\ x.kind = se[t].kind
    BY <1>1, <2>1 DEF Scope
  <2> HIDE DEF x
  <2>3. \A i \in 1..t : sx[i] = IF i = t THEN x ELSE se[i]
    BY <1>6, <1>11, <1>17
  <2> QED
    BY <2>2, <2>3
<1>13. FrameBase(sx) = FrameBase(se)
  <2>1. CASE t >= 2
    <3>1. 2 \in 1..t
      BY <1>1, <2>1
    <3> QED
      BY <1>6, <1>8, <1>12, <3>1 DEF FrameBase
  <2>2. CASE ~(t >= 2)
    BY <1>6, <1>8, <2>2 DEF FrameBase
  <2> QED
    BY <2>1, <2>2
<1>14. Grown(scopes, se) /\ se[b].max >= m
  BY <1>3, <1>5, <1>6, <1>7, <1>9 DEF Grown
<1>15. Grown(scopes, sx) /\ sx[b].max >= m
  BY <1>1, <1>8, <1>9, <1>12, <1>13, <1>14, <1>6 DEF Grown
<1>16. sd = sx \/ sd = se
  BY <1>4 DEF sx, r
<1> QED
  BY <1>3, <1>8, <1>14, <1>15, <1>16 DEF m, r

(* The sizes the compiler books stay in range.                             *)
LEMMA SizeRangePositive == SizeRange \in Nat \ {0} /\ ShortRange \in Nat \ {0}
BY BytesAssumption DEF SizeRange, ShortRange

LEMMA CountedTyped ==
  ASSUME NEW s \in Sizing, NEW cell
  PROVE  Counted(s, cell) \in Sizing
<1>1. s.size \in Int /\ s.max \in 0..SizeRange-1
  BY SizeRangePositive DEF Sizing
<1>2. StackInc(cell.op) \in Int
  BY DEF StackInc
<1> DEFINE n == (s.size + StackInc(cell.op)) % SizeRange
<1>3. n \in 0..SizeRange-1
  BY <1>1, <1>2, SizeRangePositive
<1> HIDE DEF n
<1>4. Raised(s.max, n) \in 0..SizeRange-1
  BY <1>1, <1>3 DEF Raised
<1>5. Counted(s, cell) = [size |-> n, max |-> Raised(s.max, n)]
  BY DEF Counted, n
<1> QED
  BY <1>3, <1>4, <1>5 DEF Sizing

LEMMA TrackTyped ==
  ASSUME NEW size \in 0..SizeRange-1, NEW max \in 0..SizeRange-1, NEW code \in Seq(Cell)
  PROVE  Track(size, max, code) \in Sizing
<1>1. PICK l \in Nat : l = Len(code)
  OBVIOUS
<1>2. PICK t : Tracked(t, l, size, max, code) /\ Track(size, max, code) = t[l]
  BY <1>1, TrackUnfold
<1> DEFINE S == {n \in Nat : n <= l => t[n] \in Sizing}
<1>3. 0 \in S
  <2>1. t[0] = Sizes(size, max)
    BY <1>2 DEF Tracked
  <2>2. Sizes(size, max) \in Sizing
    BY DEF Sizes, Sizing
  <2> QED
    BY <2>1, <2>2
<1>4. ASSUME NEW n \in Nat, n \in S PROVE n + 1 \in S
  <2> SUFFICES ASSUME n + 1 <= l PROVE t[n+1] \in Sizing
    OBVIOUS
  <2>1. n + 1 \in 0..l /\ n + 1 # 0 /\ n + 1 - 1 = n /\ n <= l
    OBVIOUS
  <2>2. t[n+1] = Counted(t[n], code[n+1])
    BY <1>2, <2>1 DEF Tracked
  <2>3. t[n] \in Sizing
    BY <1>4, <2>1
  <2> QED
    BY <2>2, <2>3, CountedTyped
<1> HIDE DEF S
<1>5. \A n \in Nat : n \in S
  BY <1>3, <1>4, Induction
<1>6. t[l] \in Sizing
  <2>1. l \in S
    BY <1>5
  <2> QED
    BY <2>1 DEF S
<1> QED
  BY <1>2, <1>6

LEMMA BookedTyped ==
  ASSUME NEW n \in Nat \ {0}, StacksOK(stacks, n), n = top, Base \in 1..n,
         NEW r, r.code \in Seq(Cell)
  PROVE  StacksOK(Booked(r), n)
<1>1. stacks \in Seq(Sizing) /\ Len(stacks) = n
  BY DEF StacksOK
<1>2. stacks[n] \in Sizing /\ stacks[Base] \in Sizing
  BY <1>1
<1>3. PICK s \in Sizing : s = Track(stacks[n].size, stacks[Base].max, r.code)
  BY <1>2, TrackTyped DEF Sizing
<1>4. PICK b \in 1..n : b = Base
  OBVIOUS
<1> DEFINE x  == [stacks[n] EXCEPT !.size = s.size]
           s1 == [stacks EXCEPT ![n] = x]
           y  == [s1[b] EXCEPT !.max = s.max]
           s2 == [s1 EXCEPT ![b] = y]
<1>5. Booked(r) = s2
  BY <1>3, <1>4 DEF Booked
<1>6. x \in Sizing
  BY <1>2 DEF Sizing
<1> HIDE DEF x
<1>7. s1 \in Seq(Sizing) /\ Len(s1) = n
  BY <1>1, <1>6
<1> HIDE DEF s1
<1>8. s1[b] \in Sizing
  BY <1>7
<1>9. y \in Sizing
  BY <1>8 DEF Sizing
<1> HIDE DEF y
<1>10. s2 \in Seq(Sizing) /\ Len(s2) = n
  BY <1>7, <1>9
<1> QED
  BY <1>5, <1>10 DEF StacksOK

LEMMA NewStackTyped ==
  ASSUME NEW size \in 0..SizeRange-1
  PROVE  NewStack(size) \in Sizing
BY SizeRangePositive DEF NewStack, Sizing

(* An expression is compiled in the innermost scope.                       *)
LEMMA DescsGrow ==
  ASSUME NEW sc, NEW sd, Grown(sc, sd), ScopesOK(sc), ScopesOK(sd), NEW ds, NEW fn,
         DescsOK(sc, ds, fn)
  PROVE  DescsOK(sd, ds, fn)
<1>1. PICK n \in Nat : /\ IsList(fn, n)
                       /\ Len(ds) = IF FrameBase(sc) = 2 THEN n + 1 ELSE n
                       /\ FrameBase(sc) = 2 => Len(ds[n+1].args) <= sc[2].max
  BY DEF DescsOK
<1>2. ds \in Seq(FuncDecls) /\ FrameBase(sd) = FrameBase(sc)
  BY DEF DescsOK, Grown
<1>3. ASSUME FrameBase(sc) = 2 PROVE Len(ds[n+1].args) <= sd[2].max
  <2>1. ds[n+1] \in FuncDecls
    BY <1>1, <1>2, <1>3
  <2>2. Len(ds[n+1].args) \in Nat
    BY <2>1, DeclsAssumption
  <2>3. sc[2].max \in Nat /\ sd[2].max \in Nat /\ sc[2].max <= sd[2].max
    <3>1. 2 \in 1..Len(sc) /\ 2 \in 1..Len(sd) /\ sc \in Seq(Scope) /\ sd \in Seq(Scope)
      <4>1. 1 \in 1..Len(sc) /\ 1 \in 1..Len(sd)
        BY DEF ScopesOK
      <4> QED
        BY <1>2, <1>3, <4>1, FrameOfIn
    <3> QED
      BY <1>3, <3>1, ScopeFields DEF Grown
  <2> QED
    BY <1>1, <1>3, <2>2, <2>3
<1> QED
  BY <1>1, <1>2, <1>3 DEF DescsOK

LEMMA CallsKnown ==
  ASSUME NEW sc, ScopesOK(sc), NEW ds, NEW fn, DescsOK(sc, ds, fn), ds # <<>>
  PROVE  CallsFor(sc, fn, Len(sc))
<1>1. PICK n \in Nat : /\ IsList(fn, n)
                       /\ Len(ds) = IF FrameBase(sc) = 2 THEN n + 1 ELSE n
  BY DEF DescsOK
<1>2. FrameOf(sc, Len(sc)) = FrameBase(sc)
  <2>1. Len(sc) \in 1..Len(sc)
    BY DEF ScopesOK
  <2> QED
    BY <2>1, FrameOfIn
<1>3. CASE FrameBase(sc) = 2
  BY <1>2, <1>3 DEF CallsFor
<1>4. CASE FrameBase(sc) # 2
  <2>1. Len(ds) = n /\ ds \in Seq(FuncDecls)
    BY <1>1, <1>4 DEF DescsOK
  <2>2. n # 0
    BY <2>1
  <2>3. fn # <<>>
    BY <1>1, <2>2 DEF IsList
  <2> QED
    BY <2>3 DEF CallsFor
<1> QED
  BY <1>3, <1>4

LEMMA ExprGood ==
  ASSUME NEW J, NEW K, CodeInv(J, K), NEW e \in AllExprs, Compile(e).ok,
         NEW sd, sd \in {Extended(Compile(e)), Restored(Compile(e))}
  PROVE  /\ ScopesOK(sd) /\ Len(sd) = Len(scopes) /\ FrameBase(sd) = FrameBase(scopes)
         /\ EmittersOK(sd, emitters, funcs, J)
         /\ Good(Compile(e).code, MaxFor(sd, Len(sd)), CallsFor(sd, funcs, Len(sd)), J)
         /\ DescsOK(sd, descs, funcs)
         /\ StacksOK(Booked(Compile(e)), Len(sd))
<1>1. /\ ScopesOK(scopes) /\ EmittersOK(scopes, emitters, funcs, J)
      /\ DescsOK(scopes, descs, funcs) /\ StacksOK(stacks, Len(scopes))
  BY DEF CodeInv
<1>2. /\ ScopesOK(sd) /\ Grown(scopes, sd)
      /\ sd[FrameBase(scopes)].max >= Free(scopes, Len(scopes)) + Len(Compile(e).def)
      /\ Free(scopes, Len(scopes)) + Len(Compile(e).def) \in Nat
  BY <1>1, ExtendedGrown
<1>3. EmittersOK(sd, emitters, funcs, J) /\ DescsOK(sd, descs, funcs)
  BY <1>1, <1>2, EmittersGrow, DescsGrow
<1>4. Len(sd) = Len(scopes) /\ FrameBase(sd) = FrameBase(scopes)
  BY <1>2 DEF Grown
<1>5. PICK m \in Nat : /\ m = sd[FrameBase(scopes)].max /\ m = MaxFor(sd, Len(sd))
                       /\ scopes[FrameBase(scopes)].max <= m
                       /\ Free(scopes, Len(scopes)) + Len(Compile(e).def) <= m
  <2>1. Len(sd) \in 1..Len(sd)
    BY <1>2 DEF ScopesOK
  <2>2. MaxFor(sd, Len(sd)) \in Nat /\ FrameOf(sd, Len(sd)) = FrameBase(sd)
    BY <1>2, <2>1, FrameOfIn
  <2>3. MaxFor(sd, Len(sd)) = sd[FrameBase(scopes)].max
    BY <1>4, <2>2 DEF MaxFor
  <2> QED
    BY <1>2, <2>2, <2>3 DEF Grown
<1>6. PICK d \in Nat : IsList(descs, d)
  <2>1. descs \in Seq(FuncDecls)
    BY <1>1 DEF DescsOK
  <2> QED
    BY <2>1 DEF IsList
<1>7. Laid(Compile(e).code, Straight(m, descs # <<>>))
  BY <1>1, <1>5, <1>6, CompiledLaid
<1>8. Good(Compile(e).code, m, descs # <<>>, J)
  BY <1>7, StraightGood
<1>9. descs # <<>> => CallsFor(sd, funcs, Len(sd))
  BY <1>2, <1>3, CallsKnown
<1>10. Good(Compile(e).code, m, CallsFor(sd, funcs, Len(sd)), J)
  <2>1. m \in Nat /\ m <= m
    OBVIOUS
  <2> QED
    BY <1>8, <1>9, <2>1, GoodMore, Zenon
<1>11. StacksOK(Booked(Compile(e)), Len(sd))
  <2>1. Compile(e).code \in Seq(Cell)
    BY <1>7 DEF Laid
  <2>2. Len(scopes) \in Nat \ {0} /\ Len(scopes) = top /\ Base \in 1..Len(scopes)
    BY <1>1 DEF ScopesOK, Base, top
  <2> QED
    BY <1>1, <1>4, <2>1, <2>2, BookedTyped
<1> QED
  BY <1>2, <1>3, <1>4, <1>5, <1>10, <1>11

(* A block opens, around what the innermost scope has.                     *)
LEMMA DescsKept ==
  ASSUME NEW sc, NEW sd, FrameBase(sd) = FrameBase(sc),
         FrameBase(sc) = 2 => sd[2] = sc[2], NEW ds, NEW fn, DescsOK(sc, ds, fn)
  PROVE  DescsOK(sd, ds, fn)
BY DEF DescsOK

LEMMA BlockOpensCode ==
  ASSUME NEW sc, ScopesOK(sc), NEW n \in Scope, n.kind # "func", NEW em, NEW fn, NEW J,
         EmittersOK(sc, em, fn, J), NEW ds, DescsOK(sc, ds, fn), NEW st, StacksOK(st, Len(sc)),
         NEW head, Good(head, MaxFor(sc, Len(sc)), CallsFor(sc, fn, Len(sc)), J),
         NEW size \in 0..SizeRange-1
  PROVE  /\ EmittersOK(Append(sc, n), Append(em, Emitter(head)), fn, J)
         /\ DescsOK(Append(sc, n), ds, fn)
         /\ StacksOK(Append(st, NewStack(size)), Len(Append(sc, n)))
<1>1. /\ EmittersOK(Append(sc, n), Append(em, Emitter(head)), fn, J)
      /\ FrameBase(Append(sc, n)) = FrameBase(sc)
  BY EmittersOpen
<1>2. PICK t \in Nat \ {0} : t = Len(sc) /\ sc \in Seq(Scope)
  BY DEF ScopesOK
<1>3. FrameBase(sc) = 2 => Append(sc, n)[2] = sc[2]
  <2> SUFFICES ASSUME FrameBase(sc) = 2 PROVE Append(sc, n)[2] = sc[2]
    OBVIOUS
  <2>1. 2 \in 1..t
    BY <1>2 DEF FrameBase
  <2> QED
    BY <1>2, <2>1
<1>4. DescsOK(Append(sc, n), ds, fn)
  BY <1>1, <1>3, DescsKept
<1>5. Len(Append(sc, n)) = t + 1
  BY <1>2
<1>6. Append(st, NewStack(size)) \in Seq(Sizing) /\ Len(Append(st, NewStack(size))) = t + 1
  BY <1>2, NewStackTyped DEF StacksOK
<1> QED
  BY <1>1, <1>4, <1>5, <1>6 DEF StacksOK

(* A block closes: what it was for is code of the scope around it.         *)
LEMMA BlockClosesCode ==
  ASSUME NEW sc, ScopesOK(sc), sc[Len(sc)].kind \notin {"root", "func"}, NEW em, NEW fn, NEW J,
         EmittersOK(sc, em, fn, J), NEW ds, DescsOK(sc, ds, fn), NEW st, StacksOK(st, Len(sc))
  PROVE  /\ ScopesOK(Front(sc))
         /\ EmittersOK(Front(sc), Front(em), fn, J)
         /\ DescsOK(Front(sc), ds, fn)
         /\ StacksOK(Front(st), Len(Front(sc)))
         /\ MaxFor(Front(sc), Len(Front(sc))) = MaxFor(sc, Len(sc))
         /\ CallsFor(Front(sc), fn, Len(Front(sc))) = CallsFor(sc, fn, Len(sc))
<1>1. /\ EmittersOK(Front(sc), Front(em), fn, J)
      /\ Len(sc) \in Nat \ {0, 1} /\ Len(Front(sc)) = Len(sc) - 1
      /\ \A i \in 1..Len(sc)-1 : Front(sc)[i] = sc[i]
      /\ FrameBase(Front(sc)) = FrameBase(sc)
  BY EmittersClose
<1>2. PICK t \in Nat \ {0, 1}, r \in Nat \ {0} : t = Len(sc) /\ r = t - 1 /\ t = r + 1 /\ r = Len(Front(sc))
  BY <1>1
<1>3. ScopesOK(Front(sc))
  BY BlockCloses
<1>4. /\ FrameOf(Front(sc), r) = FrameBase(sc) /\ FrameBase(sc) \in 1..r
      /\ FrameOf(sc, t) = FrameBase(sc)
  <2>1. r \in 1..Len(Front(sc)) /\ t \in 1..Len(sc)
    BY <1>2
  <2> QED
    BY <1>1, <1>2, <1>3, <2>1, FrameOfIn
<1>5. FrameBase(sc) = 2 => Front(sc)[2] = sc[2]
  BY <1>1, <1>2, <1>4
<1>6. DescsOK(Front(sc), ds, fn)
  BY <1>1, <1>5, DescsKept
<1>7. StacksOK(Front(st), r)
  <2>1. st \in Seq(Sizing) /\ Len(st) = r + 1 /\ r \in Nat
    BY <1>2 DEF StacksOK
  <2>2. Front(st) \in Seq(Sizing)
    BY <2>1, Shortened
  <2>3. Len(Front(st)) = r
    BY <2>1, Shortened
  <2> QED
    BY <2>2, <2>3 DEF StacksOK
<1>8. Front(sc)[FrameBase(sc)] = sc[FrameBase(sc)]
  BY <1>1, <1>2, <1>4
<1>9. MaxFor(Front(sc), r) = MaxFor(sc, t) /\ CallsFor(Front(sc), fn, r) = CallsFor(sc, fn, t)
  BY <1>4, <1>8 DEF MaxFor, CallsFor
<1> QED
  BY <1>1, <1>2, <1>3, <1>6, <1>7, <1>9

(* What the end of a block gives to the scope around it.                   *)
LEMMA BlockGood ==
  ASSUME NEW sc, ScopesOK(sc), NEW em, NEW fn, NEW J, EmittersOK(sc, em, fn, J)
  PROVE  /\ Good(em[Len(sc)].head, MaxFor(sc, Len(sc)), CallsFor(sc, fn, Len(sc)), J)
         /\ Good(em[Len(sc)].code, MaxFor(sc, Len(sc)), CallsFor(sc, fn, Len(sc)), J)
BY DEF EmittersOK, ScopesOK

LEMMA NewScopeTyped ==
  ASSUME NEW kind \in ScopeKinds, NEW cap \in Nat, NEW off \in Nat
  PROVE  NewScope(kind, cap, off) \in Scope /\ NewScope(kind, cap, off).kind = kind
<1>1. <<>> \in Seq(Var)
  OBVIOUS
<1> QED
  BY <1>1 DEF NewScope, Scope

AppendsTo(s, i, x) == [s EXCEPT ![i] = x] = Append(Front(s), x)

LEMMA LastReplaced ==
  ASSUME NEW S, NEW s, NEW r, r \in Nat, s \in Seq(S), Len(s) = r + 1, NEW x, x \in S
  PROVE  AppendsTo(s, r + 1, x)
<1>1. Front(s) = SubSeq(s, 1, r)
  BY DEF Front
<1>2. SubSeq(s, 1, r) \in Seq(S) /\ Len(SubSeq(s, 1, r)) = r
  OBVIOUS
<1> DEFINE a == Append(SubSeq(s, 1, r), x)
           b == [s EXCEPT ![r+1] = x]
<1>3. a \in Seq(S) /\ Len(a) = r + 1
  BY <1>2
<1>4. b \in Seq(S) /\ Len(b) = r + 1
  OBVIOUS
<1>5. \A i \in 1..r+1 : a[i] = b[i]
  OBVIOUS
<1> HIDE DEF a, b
<1>6. a = b
  BY <1>3, <1>4, <1>5
<1> QED
  BY <1>1, <1>6 DEF a, b, AppendsTo

LEMMA InnermostIn ==
  ASSUME NEW sc, ScopesOK(sc)
  PROVE  Len(sc) \in DOMAIN sc
<1>1. sc \in Seq(Scope) /\ Len(sc) >= 1
  BY DEF ScopesOK
<1>2. DOMAIN sc = 1..Len(sc) /\ Len(sc) \in Nat
  BY <1>1
<1> QED
  BY <1>1, <1>2

-----------------------------------------------------------------------------
(* One lemma for each kind of step.                                        *)

LEMMA ExprStatCode ==
  ASSUME NEW J, NEW K, CodeInv(J, K), NEW e \in AllExprs, ExprStat(e)
  PROVE  CodeInv(J, K)'
<1>1. PICK r : r = Compile(e) /\ r.ok
  BY DEF ExprStat
<1>2. PICK sd : sd = Extended(r)
  OBVIOUS
<1>3. /\ scopes' = sd /\ stacks' = Booked(r) /\ emitters' = Emit(emitters, r.code)
      /\ UNCHANGED <<descs, funcs, status>>
  BY <1>1, <1>2 DEF ExprStat
<1>4. /\ ScopesOK(sd)
      /\ EmittersOK(sd, emitters, funcs, J)
      /\ Good(r.code, MaxFor(sd, Len(sd)), CallsFor(sd, funcs, Len(sd)), J)
      /\ DescsOK(sd, descs, funcs)
      /\ StacksOK(Booked(r), Len(sd))
  BY <1>1, <1>2, ExprGood
<1>5. EmittersOK(sd, Emit(emitters, r.code), funcs, J)
  BY <1>4, EmitGood
<1> QED
  BY <1>3, <1>4, <1>5 DEF CodeInv

LEMMA OpenIfCode ==
  ASSUME NEW J, NEW K, CodeInv(J, K), NEW e \in AllExprs, OpenIf(e), ScopesOK(scopes')
  PROVE  CodeInv(J, K)'
<1>1. PICK r : r = Compile(e) /\ r.ok
  BY DEF OpenIf
<1>2. PICK sd : sd = Extended(r)
  OBVIOUS
<1>3. PICK n, size :
        /\ n = NewScope("then", sd[top].cap, Len(sd[top].vars) + sd[top].off)
        /\ size = Booked(r)[top].size
  OBVIOUS
<1>4. /\ scopes' = Append(sd, n) /\ stacks' = Append(Booked(r), NewStack(size))
      /\ emitters' = Append(Emit(emitters, r.code), Emitter(<<>>))
      /\ UNCHANGED <<descs, funcs, status>>
  BY <1>1, <1>2, <1>3 DEF OpenIf
<1>5. /\ ScopesOK(sd) /\ Len(sd) = top
      /\ EmittersOK(sd, emitters, funcs, J)
      /\ Good(r.code, MaxFor(sd, Len(sd)), CallsFor(sd, funcs, Len(sd)), J)
      /\ DescsOK(sd, descs, funcs)
      /\ StacksOK(Booked(r), Len(sd))
  BY <1>1, <1>2, ExprGood DEF top
<1>6. EmittersOK(sd, Emit(emitters, r.code), funcs, J)
  BY <1>5, EmitGood
<1>7. sd \in Seq(Scope) /\ top \in 1..Len(sd)
  BY <1>5 DEF ScopesOK
<1>8. n \in Scope /\ n.kind # "func"
  <2>1. sd[top].cap \in Nat /\ Len(sd[top].vars) + sd[top].off \in Nat
    BY <1>7, ScopeFields DEF Free
  <2>2. "then" \in ScopeKinds
    BY DEF ScopeKinds
  <2>3. n \in Scope /\ n.kind = "then"
    BY <1>3, <2>1, <2>2, NewScopeTyped
  <2> QED
    BY <2>3
<1>9. size \in 0..SizeRange-1
  <2>1. Booked(r)[top] \in Sizing
    BY <1>5, <1>7 DEF StacksOK
  <2> QED
    BY <1>3, <2>1 DEF Sizing
<1>10. Good(<<>>, MaxFor(sd, Len(sd)), CallsFor(sd, funcs, Len(sd)), J)
  BY GoodEmpty
<1>11. /\ EmittersOK(scopes', emitters', funcs, J) /\ DescsOK(scopes', descs, funcs)
       /\ StacksOK(stacks', Len(scopes'))
  BY <1>4, <1>5, <1>6, <1>8, <1>9, <1>10, BlockOpensCode
<1> QED
  BY <1>4, <1>11 DEF CodeInv

LEMMA OpenWhileCode ==
  ASSUME NEW J, NEW K, CodeInv(J, K), NEW e \in AllExprs, OpenWhile(e), ScopesOK(scopes')
  PROVE  CodeInv(J, K)'
<1>1. PICK r : r = Compile(e) /\ r.ok
  BY DEF OpenWhile
<1>2. PICK sd : sd = Restored(r)
  OBVIOUS
<1>3. PICK n : n = NewScope("body", scopes[top].cap, NextSlot(top))
  OBVIOUS
<1>4. /\ scopes' = Append(sd, n) /\ stacks' = Append(Booked(r), NewStack(0))
      /\ emitters' = Append(emitters, Emitter(r.code))
      /\ UNCHANGED <<descs, funcs, status>>
  BY <1>1, <1>2, <1>3 DEF OpenWhile
<1>5. /\ ScopesOK(sd)
      /\ EmittersOK(sd, emitters, funcs, J)
      /\ Good(r.code, MaxFor(sd, Len(sd)), CallsFor(sd, funcs, Len(sd)), J)
      /\ DescsOK(sd, descs, funcs)
      /\ StacksOK(Booked(r), Len(sd))
  BY <1>1, <1>2, ExprGood
<1>6. ScopesOK(scopes) /\ scopes \in Seq(Scope) /\ top \in 1..Len(scopes)
  BY DEF CodeInv, ScopesOK, top
<1>7. n \in Scope /\ n.kind # "func"
  <2>1. scopes[top].cap \in Nat /\ NextSlot(top) \in Nat
    BY <1>6, ScopeFields DEF Free, NextSlot
  <2>2. "body" \in ScopeKinds
    BY DEF ScopeKinds
  <2>3. n \in Scope /\ n.kind = "body"
    BY <1>3, <2>1, <2>2, NewScopeTyped
  <2> QED
    BY <2>3
<1>8. 0 \in 0..SizeRange-1
  BY SizeRangePositive
<1>9. /\ EmittersOK(scopes', emitters', funcs, J) /\ DescsOK(scopes', descs, funcs)
      /\ StacksOK(stacks', Len(scopes'))
  BY <1>4, <1>5, <1>7, <1>8, BlockOpensCode
<1> QED
  BY <1>4, <1>9 DEF CodeInv

LEMMA ElseCode ==
  ASSUME NEW J, NEW K, CodeInv(J, K), Else, ScopesOK(scopes')
  PROVE  CodeInv(J, K)'
<1>1. /\ ScopesOK(scopes) /\ EmittersOK(scopes, emitters, funcs, J)
      /\ DescsOK(scopes, descs, funcs) /\ StacksOK(stacks, Len(scopes))
  BY DEF CodeInv
<1>2. scopes[Len(scopes)].kind = "then"
  BY DEF Else, top
<1>3. PICK t \in Nat \ {0, 1}, r \in Nat \ {0} :
         t = Len(scopes) /\ t = top /\ r = t - 1 /\ t = r + 1 /\ r = Len(Front(scopes)) /\ t - 1 = r
  <2>1. Len(scopes) \in Nat \ {0, 1} /\ Len(Front(scopes)) = Len(scopes) - 1
    BY <1>1, <1>2, EmittersClose
  <2> QED
    BY <2>1 DEF top
<1> DEFINE sd == Front(scopes)
           n == NewScope("else", scopes[r].cap, NextSlot(r))
           size == stacks[r].size
           head == emitters[t].code
<1>4. /\ ScopesOK(sd)
      /\ EmittersOK(sd, Front(emitters), funcs, J)
      /\ DescsOK(sd, descs, funcs)
      /\ StacksOK(Front(stacks), Len(sd))
      /\ MaxFor(sd, Len(sd)) = MaxFor(scopes, Len(scopes))
      /\ CallsFor(sd, funcs, Len(sd)) = CallsFor(scopes, funcs, Len(scopes))
  BY <1>1, <1>2, BlockClosesCode
<1>5. Good(head, MaxFor(sd, Len(sd)), CallsFor(sd, funcs, Len(sd)), J)
  BY <1>1, <1>3, <1>4, BlockGood
<1>6. n \in Scope /\ n.kind # "func"
  <2>1. scopes \in Seq(Scope) /\ r \in 1..Len(scopes)
    BY <1>1, <1>3 DEF ScopesOK
  <2>2. scopes[r].cap \in Nat /\ NextSlot(r) \in Nat
    BY <2>1, ScopeFields DEF Free, NextSlot
  <2>3. "else" \in ScopeKinds
    BY DEF ScopeKinds
  <2>4. n \in Scope /\ n.kind = "else"
    BY <2>2, <2>3, NewScopeTyped
  <2> QED
    BY <2>4
<1>7. size \in 0..SizeRange-1
  <2>1. stacks[r] \in Sizing
    BY <1>1, <1>3 DEF StacksOK
  <2> QED
    BY <2>1 DEF Sizing
<1>8. stacks' = Append(Front(stacks), NewStack(size))
  <2>1. stacks' = [stacks EXCEPT ![r+1] = NewStack(size)]
    BY <1>3 DEF Else
  <2>2. stacks \in Seq(Sizing) /\ Len(stacks) = r + 1 /\ NewStack(size) \in Sizing /\ r \in Nat
    BY <1>1, <1>3, <1>7, NewStackTyped DEF StacksOK
  <2>3. PICK x \in Sizing : x = NewStack(size)
    BY <2>2
  <2>4. AppendsTo(stacks, r + 1, x)
    BY <2>2, <2>3, LastReplaced
  <2> HIDE DEF size
  <2> QED
    BY <2>1, <2>3, <2>4 DEF AppendsTo
<1>9. emitters' = Append(Front(emitters), Emitter(head))
  <2>1. emitters' = [emitters EXCEPT ![r+1] = Emitter(head)]
    BY <1>3 DEF Else
  <2>2. head \in Seq(Cell)
    BY <1>5 DEF Good, Laid
  <2>3. emitters \in Seq(Chunk) /\ Len(emitters) = r + 1 /\ Emitter(head) \in Chunk /\ r \in Nat
    BY <1>1, <1>3, <2>2, ChunkIs DEF EmittersOK
  <2>4. PICK x \in Chunk : x = Emitter(head)
    BY <2>3
  <2>5. AppendsTo(emitters, r + 1, x)
    BY <2>3, <2>4, LastReplaced
  <2> HIDE DEF head
  <2> QED
    BY <2>1, <2>4, <2>5 DEF AppendsTo
<1>10. scopes' = Append(sd, n) /\ UNCHANGED <<descs, funcs, status>>
  BY <1>3 DEF Else
<1> HIDE DEF sd, n, size, head
<1>11. /\ EmittersOK(scopes', emitters', funcs, J) /\ DescsOK(scopes', descs, funcs)
       /\ StacksOK(stacks', Len(scopes'))
  BY <1>4, <1>5, <1>6, <1>7, <1>8, <1>9, <1>10, BlockOpensCode DEF sd
<1> QED
  BY <1>10, <1>11 DEF CodeInv

(* A block ends with this code.                                            *)
LEMMA CloseBlockCode ==
  ASSUME NEW J, NEW K, CodeInv(J, K), scopes[Len(scopes)].kind \notin {"root", "func"},
         NEW code, CloseBlock(code),
         Good(code, MaxFor(scopes, Len(scopes)), CallsFor(scopes, funcs, Len(scopes)), J)
  PROVE  CodeInv(J, K)'
<1>1. /\ ScopesOK(scopes) /\ EmittersOK(scopes, emitters, funcs, J)
      /\ DescsOK(scopes, descs, funcs) /\ StacksOK(stacks, Len(scopes))
  BY DEF CodeInv
<1>2. PICK sd : sd = Front(scopes)
  OBVIOUS
<1>3. /\ ScopesOK(sd)
      /\ EmittersOK(sd, Front(emitters), funcs, J)
      /\ DescsOK(sd, descs, funcs)
      /\ StacksOK(Front(stacks), Len(sd))
      /\ MaxFor(sd, Len(sd)) = MaxFor(scopes, Len(scopes))
      /\ CallsFor(sd, funcs, Len(sd)) = CallsFor(scopes, funcs, Len(scopes))
  BY <1>1, <1>2, BlockClosesCode
<1>4. EmittersOK(sd, Emit(Front(emitters), code), funcs, J)
  BY <1>3, EmitGood
<1>5. /\ scopes' = sd /\ stacks' = Front(stacks) /\ emitters' = Emit(Front(emitters), code)
      /\ UNCHANGED <<descs, funcs, status>>
  BY <1>2 DEF CloseBlock
<1> QED
  BY <1>3, <1>4, <1>5 DEF CodeInv

LEMMA CloseIfCode ==
  ASSUME NEW J, NEW K, CodeInv(J, K), CloseIf, J => OffsetsFit
  PROVE  CodeInv(J, K)'
<1>1. ScopesOK(scopes) /\ EmittersOK(scopes, emitters, funcs, J)
  BY DEF CodeInv
<1>2. PICK t : t = Len(scopes) /\ t = top /\ scopes[t].kind = "else"
  BY DEF CloseIf, top
<1>3. t \in DOMAIN scopes
  BY <1>1, <1>2, InnermostIn
<1>4. J => Len(emitters[t].head) + 3 < ByteRange
  BY <1>2, <1>3 DEF OffsetsFit
<1>5. /\ Good(emitters[t].head, MaxFor(scopes, t), CallsFor(scopes, funcs, t), J)
      /\ Good(emitters[t].code, MaxFor(scopes, t), CallsFor(scopes, funcs, t), J)
  BY <1>1, <1>2, BlockGood
<1>6. PICK code : code = IfCode(emitters[t].head, emitters[t].code)
  OBVIOUS
<1>7. Good(code, MaxFor(scopes, t), CallsFor(scopes, funcs, t), J)
  BY <1>4, <1>5, <1>6, IfCodeGood
<1>8. CloseBlock(code)
  BY <1>2, <1>6 DEF CloseIf
<1> QED
  BY <1>2, <1>7, <1>8, CloseBlockCode

LEMMA CloseWhileCode ==
  ASSUME NEW J, NEW K, CodeInv(J, K), CloseWhile, J => OffsetsFit
  PROVE  CodeInv(J, K)'
<1>1. ScopesOK(scopes) /\ EmittersOK(scopes, emitters, funcs, J)
  BY DEF CodeInv
<1>2. PICK t : t = Len(scopes) /\ t = top /\ scopes[t].kind = "body"
  BY DEF CloseWhile, top
<1>3. t \in DOMAIN scopes
  BY <1>1, <1>2, InnermostIn
<1>4. J => Len(emitters[t].head) + Len(emitters[t].code) + 6 < ByteRange
  BY <1>2, <1>3 DEF OffsetsFit
<1>5. /\ Good(emitters[t].head, MaxFor(scopes, t), CallsFor(scopes, funcs, t), J)
      /\ Good(emitters[t].code, MaxFor(scopes, t), CallsFor(scopes, funcs, t), J)
  BY <1>1, <1>2, BlockGood
<1>6. PICK code : code = WhileCode(emitters[t].head, emitters[t].code)
  OBVIOUS
<1>7. Good(code, MaxFor(scopes, t), CallsFor(scopes, funcs, t), J)
  BY <1>4, <1>5, <1>6, WhileCodeGood
<1>8. CASE CloseBlock(code)
  BY <1>2, <1>7, <1>8, CloseBlockCode
<1>9. CASE status' = "panic" /\ UNCHANGED <<scopes, stacks, emitters, descs, funcs, stats>>
  BY <1>9 DEF CodeInv
<1> QED
  BY <1>2, <1>6, <1>8, <1>9 DEF CloseWhile

LEMMA OpenFuncCode ==
  ASSUME NEW J, NEW K, CodeInv(J, K), NEW d \in FuncDecls, OpenFunc(d), ScopesOK(scopes')
  PROVE  CodeInv(J, K)'
<1>1. /\ ScopesOK(scopes) /\ EmittersOK(scopes, emitters, funcs, J)
      /\ DescsOK(scopes, descs, funcs) /\ StacksOK(stacks, Len(scopes))
  BY DEF CodeInv
<1>2. Len(scopes) = 1 /\ UNCHANGED funcs
  BY DEF OpenFunc, top
<1>3. CASE status' = "panic" /\ UNCHANGED <<scopes, stacks, emitters, descs>>
  BY <1>2, <1>3 DEF CodeInv
<1>4. CASE /\ scopes'   = Append(scopes, FuncScope(d.args))
           /\ stacks'   = Append(stacks, NewStack(0))
           /\ emitters' = Append(emitters, Emitter(<<>>))
           /\ descs'    = Append(descs, d)
           /\ UNCHANGED status
  <2>1. PICK n \in Scope : n = FuncScope(d.args) /\ n.kind = "func"
    BY FuncScopeOK
  <2>2. n.max = Len(d.args) /\ n.max \in Nat
    BY <2>1, DeclsAssumption DEF FuncScope
  <2>3. PICK sd : sd = Append(scopes, n)
    OBVIOUS
  <2>4. /\ EmittersOK(sd, Append(emitters, Emitter(<<>>)), funcs, J)
        /\ FrameBase(sd) = 2 /\ FrameBase(scopes) = 1 /\ sd[2] = n
    BY <1>1, <1>2, <2>1, <2>3, EmittersOpenFunc
  <2>5. PICK k \in Nat : IsList(funcs, k) /\ Len(descs) = k /\ descs \in Seq(FuncDecls)
    <3>1. PICK k \in Nat : IsList(funcs, k) /\ Len(descs) = IF FrameBase(scopes) = 2 THEN k + 1 ELSE k
      BY <1>1 DEF DescsOK
    <3> QED
      BY <1>1, <2>4, <3>1 DEF DescsOK
  <2>6. /\ descs' \in Seq(FuncDecls) /\ Len(descs') = k + 1 /\ descs'[k+1] = d
    BY <1>4, <2>5
  <2>7. DescsOK(sd, descs', funcs)
    <3>1. Len(descs'[k+1].args) <= sd[2].max
      BY <2>2, <2>4, <2>6
    <3> QED
      BY <2>4, <2>5, <2>6, <3>1 DEF DescsOK
  <2>8. StacksOK(stacks', Len(sd))
    <3>1. Len(sd) = 2
      <4>1. scopes \in Seq(Scope)
        BY <1>1 DEF ScopesOK
      <4> QED
        BY <1>2, <2>1, <2>3, <4>1, SecondAppended
    <3>2. NewStack(0) \in Sizing
      BY NewStackTyped, SizeRangePositive
    <3>3. stacks \in Seq(Sizing) /\ Len(stacks) = 1
      BY <1>1, <1>2 DEF StacksOK
    <3>4. Append(stacks, NewStack(0)) \in Seq(Sizing) /\ Len(Append(stacks, NewStack(0))) = 2
      BY <3>2, <3>3, SecondAppended
    <3> QED
      BY <1>4, <3>1, <3>4 DEF StacksOK
  <2>9. scopes' = sd
    BY <1>4, <2>1, <2>3
  <2> QED
    BY <1>2, <1>4, <2>4, <2>7, <2>8, <2>9 DEF CodeInv
<1> QED
  BY <1>3, <1>4 DEF OpenFunc

(* The handle of a function that is complete.                              *)
LEMMA ListIs ==
  ASSUME NEW s, NEW n \in Nat, NEW m \in Nat, IsList(s, n), IsList(s, m)
  PROVE  n = m
BY DEF IsList

IsLonger(t, s, n, x) ==
  IsList(t, n + 1) /\ t[n+1] = x /\ t # <<>> /\ \A i \in 1..n : t[i] = s[i]

LEMMA ListGrows ==
  ASSUME NEW s, NEW n \in Nat, IsList(s, n), NEW x
  PROVE  IsLonger(Append(s, x), s, n, x)
<1>1. PICK S : s \in Seq(S) /\ Len(s) = n
  BY DEF IsList
<1> DEFINE T == S \cup {x}
<1>2. s \in Seq(T) /\ x \in T
  BY <1>1
<1> HIDE DEF T
<1>3. Append(s, x) \in Seq(T) /\ Len(Append(s, x)) = n + 1 /\ Append(s, x)[n+1] = x
  BY <1>1, <1>2
<1>4. \A i \in 1..n : Append(s, x)[i] = s[i]
  BY <1>1, <1>2
<1>5. Append(s, x) # <<>>
  BY <1>3
<1> QED
  BY <1>3, <1>4, <1>5 DEF IsList, IsLonger

LEMMA ShortIs ==
  ASSUME NEW n \in Nat
  PROVE  n % ShortRange \in Nat /\ (n < ShortRange => n % ShortRange = n)
BY SizeRangePositive

LEMMA HandleBuilt ==
  ASSUME NEW J, NEW K, CodeInv(J, K), scopes[Len(scopes)].kind = "func", K => SizesFit
  PROVE  HandleOK(Handle(Last(descs), scopes[top], stacks[top], emitters[top].code), J, K)
<1>1. /\ ScopesOK(scopes) /\ EmittersOK(scopes, emitters, funcs, J)
      /\ DescsOK(scopes, descs, funcs) /\ StacksOK(stacks, Len(scopes))
  BY DEF CodeInv
<1>2. Len(scopes) = 2 /\ FrameBase(scopes) = 2 /\ top = 2 /\ scopes \in Seq(Scope)
  BY <1>1, EmittersClose DEF top, ScopesOK
<1>3. PICK k \in Nat : /\ IsList(funcs, k) /\ Len(descs) = k + 1 /\ descs \in Seq(FuncDecls)
                       /\ Len(descs[k+1].args) <= scopes[2].max
  BY <1>1, <1>2 DEF DescsOK
<1>4. Last(descs) = descs[k+1] /\ descs[k+1] \in FuncDecls
  BY <1>3 DEF Last
<1>5. PICK a \in Nat, m \in Nat : a = Len(Last(descs).args) /\ m = scopes[2].max /\ a <= m
  <2>1. 2 \in 1..Len(scopes)
    BY <1>2
  <2>2. scopes[2].max \in Nat
    BY <1>2, <2>1, ScopeFields
  <2>3. Len(Last(descs).args) \in Nat
    BY <1>4, DeclsAssumption
  <2> QED
    BY <1>3, <1>4, <2>2, <2>3
<1>6. PICK z \in Nat : z = stacks[2].max
  <2>1. stacks[2] \in Sizing
    BY <1>1, <1>2 DEF StacksOK
  <2> QED
    BY <2>1, SizeRangePositive DEF Sizing
<1>7. PICK code : code = emitters[2].code /\ Good(code, m, TRUE, J)
  <2>1. MaxFor(scopes, 2) = m /\ CallsFor(scopes, funcs, 2) = TRUE
    BY <1>2, <1>5 DEF MaxFor, CallsFor, FrameOf
  <2>2. Good(emitters[2].code, MaxFor(scopes, 2), CallsFor(scopes, funcs, 2), J)
    BY <1>1, <1>2, BlockGood
  <2> QED
    BY <2>1, <2>2
<1> DEFINE h == Handle(Last(descs), scopes[top], stacks[top], emitters[top].code)
<1>8. h.args = a /\ h.vars = m % ShortRange /\ h.stack = z % ShortRange /\ h.code = code
  BY <1>2, <1>5, <1>6, <1>7 DEF Handle
<1>9. K => m < ShortRange
  <2>1. 2 \in DOMAIN scopes
    BY <1>1, <1>2, InnermostIn
  <2> QED
    BY <1>5, <2>1 DEF SizesFit
<1> HIDE DEF h
<1>10. h.args \in Nat /\ h.vars \in Nat /\ h.stack \in Nat
  BY <1>8, ShortIs
<1>11. K => m = h.vars /\ h.args <= m
  BY <1>5, <1>8, <1>9, ShortIs
<1>12. HandleOK(h, J, K)
  BY <1>7, <1>8, <1>10, <1>11 DEF HandleOK
<1> QED
  BY <1>12 DEF h

LEMMA CloseFuncCode ==
  ASSUME NEW J, NEW K, CodeInv(J, K), CloseFunc, K => SizesFit, ScopesOK(scopes')
  PROVE  CodeInv(J, K)'
<1>1. /\ ScopesOK(scopes) /\ EmittersOK(scopes, emitters, funcs, J) /\ FuncsOK(funcs, J, K)
      /\ DescsOK(scopes, descs, funcs) /\ StacksOK(stacks, Len(scopes))
      /\ status \in {"run", "panic"}
  BY DEF CodeInv
<1>2. scopes[Len(scopes)].kind = "func"
  BY DEF CloseFunc, top
<1>3. PICK h : /\ h = Handle(Last(descs), scopes[top], stacks[top], emitters[top].code)
               /\ HandleOK(h, J, K)
  BY <1>2, HandleBuilt
<1>4. PICK sd : /\ sd = Front(scopes) /\ Len(scopes) = 2 /\ FrameBase(scopes) = 2 /\ FrameBase(sd) = 1
                /\ EmittersOK(sd, Front(emitters), funcs, J) /\ Len(sd) = 1
  <2>1. /\ EmittersOK(Front(scopes), Front(emitters), funcs, J)
        /\ Len(scopes) = 2 /\ FrameBase(scopes) = 2 /\ FrameBase(Front(scopes)) = 1
        /\ Len(Front(scopes)) = Len(scopes) - 1
    BY <1>1, <1>2, EmittersClose
  <2> QED
    BY <2>1
<1>5. PICK gn : gn = Append(funcs, h)
  OBVIOUS
<1>6. /\ scopes' = sd /\ stacks' = Front(stacks) /\ emitters' = Front(emitters) /\ funcs' = gn
      /\ descs' = descs /\ status' = status
  BY <1>3, <1>4, <1>5 DEF CloseFunc
<1>7. PICK k \in Nat : IsList(funcs, k) /\ \A i \in 1..k : HandleOK(funcs[i], J, K)
  BY <1>1 DEF FuncsOK
<1>8. /\ IsList(gn, k + 1) /\ gn[k+1] = h /\ gn # <<>> /\ \A i \in 1..k : gn[i] = funcs[i]
  <2>1. IsLonger(Append(funcs, h), funcs, k, h)
    BY <1>7, ListGrows
  <2> QED
    BY <1>5, <2>1 DEF IsLonger
<1>9. FuncsOK(gn, J, K)
  <2>1. ASSUME NEW i \in 1..k+1 PROVE HandleOK(gn[i], J, K)
    <3>1. CASE i = k + 1
      BY <1>3, <1>8, <3>1
    <3>2. CASE i # k + 1
      <4>1. i \in 1..k
        BY <3>2
      <4> QED
        BY <1>7, <1>8, <4>1
    <3> QED
      BY <3>1, <3>2
  <2> QED
    BY <1>8, <2>1 DEF FuncsOK
<1>10. DescsOK(sd, descs, gn)
  <2>1. PICK n \in Nat : IsList(funcs, n) /\ Len(descs) = n + 1
    BY <1>1, <1>4 DEF DescsOK
  <2>2. n = k
    BY <1>7, <2>1, ListIs
  <2>3. descs \in Seq(FuncDecls)
    BY <1>1 DEF DescsOK
  <2> QED
    BY <1>4, <1>8, <2>1, <2>2, <2>3 DEF DescsOK
<1>11. EmittersOK(sd, Front(emitters), gn, J)
  BY <1>4, <1>6, <1>8, FuncsGrow
<1>12. StacksOK(Front(stacks), Len(sd))
  <2>1. stacks \in Seq(Sizing) /\ Len(stacks) = 1 + 1 /\ 1 \in Nat
    BY <1>1, <1>4 DEF StacksOK
  <2>2. Front(stacks) \in Seq(Sizing)
    BY <2>1, Shortened
  <2>3. Len(Front(stacks)) = 1
    BY <2>1, Shortened
  <2> QED
    BY <1>4, <2>2, <2>3 DEF StacksOK
<1> QED
  BY <1>1, <1>6, <1>9, <1>10, <1>11, <1>12 DEF CodeInv

-----------------------------------------------------------------------------
LEMMA CodeInit == ASSUME NEW J, NEW K, Init PROVE CodeInv(J, K)
<1>1. ScopesOK(scopes)
  BY InitOK
<1>2. PICK c : c = Emitter(<<>>)
  OBVIOUS
<1>3. c \in Chunk /\ c.head = <<>> /\ c.code = <<>>
  <2>1. <<>> \in Seq(Cell)
    OBVIOUS
  <2> QED
    BY <1>2, <2>1, ChunkIs
<1>4. /\ Len(scopes) = 1 /\ emitters = <<c>> /\ stacks = <<NewStack(0)>>
      /\ descs = <<>> /\ funcs = <<>> /\ status = "run"
  BY <1>2 DEF Init
<1>5. EmittersOK(scopes, emitters, funcs, J)
  <2>1. emitters \in Seq(Chunk) /\ Len(emitters) = 1 /\ emitters[1] = c
    BY <1>3, <1>4
  <2>2. \A i \in 1..1 : /\ Good(emitters[i].head, MaxFor(scopes, i), CallsFor(scopes, funcs, i), J)
                        /\ Good(emitters[i].code, MaxFor(scopes, i), CallsFor(scopes, funcs, i), J)
    BY <1>3, <2>1, GoodEmpty
  <2> QED
    BY <1>4, <2>1, <2>2 DEF EmittersOK
<1>6. IsList(<<>>, 0)
  <2>1. <<>> \in Seq({})
    OBVIOUS
  <2> QED
    BY <2>1 DEF IsList
<1>7. FuncsOK(funcs, J, K)
  BY <1>4, <1>6 DEF FuncsOK
<1>8. DescsOK(scopes, descs, funcs)
  <2>1. FrameBase(scopes) = 1
    BY <1>4 DEF FrameBase
  <2>2. descs \in Seq(FuncDecls) /\ Len(descs) = 0
    BY <1>4
  <2> QED
    BY <1>4, <1>6, <2>1, <2>2 DEF DescsOK
<1>9. StacksOK(stacks, Len(scopes))
  <2>1. NewStack(0) \in Sizing
    BY NewStackTyped, SizeRangePositive
  <2> QED
    BY <1>4, <2>1 DEF StacksOK
<1> QED
  BY <1>1, <1>4, <1>5, <1>7, <1>8, <1>9 DEF CodeInv

LEMMA CodeStep ==
  ASSUME NEW J, NEW K, J => OffsetsFit, K => SizesFit, CodeInv(J, K), [Next]_vars
  PROVE  CodeInv(J, K)'
<1>1. ScopesOK(scopes')
  BY ScopesStep DEF CodeInv
<1>2. ASSUME NEW e \in Statements, ExprStat(e) PROVE CodeInv(J, K)'
  <2>1. e \in AllExprs
    BY DEF Statements, AllExprs
  <2> QED
    BY <1>2, <2>1, ExprStatCode
<1>3. ASSUME NEW e, RejectExpr(e) PROVE CodeInv(J, K)'
  BY <1>3 DEF RejectExpr, CodeInv
<1>4. ASSUME NEW e \in CondExprs, OpenIf(e) \/ OpenWhile(e) PROVE CodeInv(J, K)'
  <2>1. e \in AllExprs
    BY DEF AllExprs
  <2> QED
    BY <1>1, <1>4, <2>1, OpenIfCode, OpenWhileCode
<1>5. CASE Else
  BY <1>1, <1>5, ElseCode
<1>6. CASE CloseIf
  BY <1>6, CloseIfCode
<1>7. CASE CloseWhile
  BY <1>7, CloseWhileCode
<1>8. ASSUME NEW d \in FuncDecls, OpenFunc(d) PROVE CodeInv(J, K)'
  BY <1>1, <1>8, OpenFuncCode
<1>9. CASE CloseFunc
  BY <1>1, <1>9, CloseFuncCode
<1>10. CASE UNCHANGED vars
  BY <1>10 DEF vars, CodeInv
<1> QED
  BY <1>2, <1>3, <1>4, <1>5, <1>6, <1>7, <1>8, <1>9, <1>10 DEF Next

LEMMA CodeInvLands == ASSUME CodeInv(TRUE, FALSE) PROVE JumpsLand
<1>1. /\ ScopesOK(scopes) /\ EmittersOK(scopes, emitters, funcs, TRUE) /\ FuncsOK(funcs, TRUE, FALSE)
  BY DEF CodeInv
<1>2. ASSUME NEW i \in DOMAIN emitters PROVE Lands(emitters[i].code)
  <2>1. i \in 1..Len(scopes)
    BY <1>1 DEF EmittersOK
  <2> QED
    BY <1>1, <2>1 DEF EmittersOK, Good
<1>3. ASSUME NEW i \in DOMAIN funcs PROVE Lands(funcs[i].code)
  <2>1. PICK k \in Nat : IsList(funcs, k) /\ \A j \in 1..k : HandleOK(funcs[j], TRUE, FALSE)
    BY <1>1 DEF FuncsOK
  <2>2. i \in 1..k
    BY <2>1 DEF IsList
  <2> QED
    BY <2>1, <2>2 DEF HandleOK, Good
<1>4. ASSUME NEW code \in Finished PROVE Lands(code)
  BY <1>2, <1>3 DEF Finished
<1> QED
  BY <1>4 DEF JumpsLand, Lands, JumpsTo

(* As long as a branch reaches over its block with one byte, every jump in *)
(* code that is complete lands on an instruction of it or just behind.     *)
THEOREM JumpsAlwaysLand == Spec /\ []OffsetsFit => []JumpsLand
<1>1. Init => CodeInv(TRUE, FALSE)
  BY CodeInit
<1>2. OffsetsFit /\ CodeInv(TRUE, FALSE) /\ [Next]_vars => CodeInv(TRUE, FALSE)'
  BY CodeStep
<1>3. CodeInv(TRUE, FALSE) => JumpsLand
  BY CodeInvLands
<1> QED
  BY <1>1, <1>2, <1>3, PTL DEF Spec

-----------------------------------------------------------------------------
(* The depth of the stack along code.                                      *)

Instruction == [op : Opcodes, arg : Nat]

(* Code that is complete: whole instructions, and jumps that land.         *)
Whole(code) == Laid(code, Instruction) /\ Lands(code)

(* The depths d, one for each position, are what instruction i makes of    *)
(* them: it finds its operands, n of them for a call, and exceeds w bytes  *)
(* neither before nor after.                                               *)
Meets(code, d, i, w, n) ==
  /\ d[i] >= Pops(code[i].op)
  /\ 4 * DepthAfter(code, i, d[i]) <= w
  /\ code[i].op = "CALL" => d[i] >= n
  /\ \A t \in Successors(code, i) : d[t] = DepthAfter(code, i, d[i])

Flow(code, d, w, n) == \A i \in Starts(code) : Meets(code, d, i, w, n)

(* An instruction before position t leads there.                           *)
Reached(code, t) == \E j \in Starts(code) : j < t /\ t \in Successors(code, j)

Threaded(code, X) == \A t \in Boundaries(code) : t = 1 \/ t \in X \/ Reached(code, t)

(* Code that begins at depth b and ends at depth e.                        *)
Follows(code, b, e, w, n) ==
  /\ Threaded(code, {})
  /\ \E d \in [Int -> Nat] : d[1] = b /\ d[Len(code)+1] = e /\ Flow(code, d, w, n)

LEMMA WholeParts ==
  ASSUME NEW code, Laid(code, Instruction)
  PROVE  /\ code \in Seq(Cell) /\ Len(code) \in Nat /\ DOMAIN code = 1..Len(code)
         /\ 1 \in Boundaries(code) /\ Boundaries(code) \subseteq 1..Len(code)+1
         /\ Len(code) + 1 \in Boundaries(code)
         /\ \A i \in Starts(code) : /\ i \in 1..Len(code) /\ i \in Boundaries(code)
                                    /\ code[i].op \in Opcodes /\ code[i].arg \in Nat
                                    /\ i + Size(code[i].op) \in Boundaries(code)
                                    /\ Size(code[i].op) \in Nat \ {0}
<1>1. /\ code \in Seq(Cell) /\ 1 \in Boundaries(code)
      /\ \A i \in Starts(code) : code[i] \in Instruction /\ i + Size(code[i].op) \in Boundaries(code)
  BY DEF Laid
<1>2. Len(code) \in Nat /\ DOMAIN code = 1..Len(code)
  BY <1>1
<1>3. Starts(code) \subseteq 1..Len(code)
  BY <1>2 DEF Starts
<1>4. Boundaries(code) \subseteq 1..Len(code)+1 /\ Starts(code) \subseteq Boundaries(code)
      /\ Len(code) + 1 \in Boundaries(code)
  BY <1>2, <1>3 DEF Boundaries
<1>5. ASSUME NEW i \in Starts(code)
      PROVE  code[i].op \in Opcodes /\ code[i].arg \in Nat /\ Size(code[i].op) \in Nat \ {0}
  <2>1. code[i].op \in Opcodes /\ code[i].arg \in Nat
    BY <1>1 DEF Instruction
  <2> QED
    BY <2>1, OperandsOf
<1> QED
  BY <1>1, <1>2, <1>3, <1>4, <1>5

(* Control stays in code whose jumps land.                                 *)
LEMMA SuccessorsIn ==
  ASSUME NEW code, Whole(code), NEW i \in Starts(code)
  PROVE  Successors(code, i) \subseteq Boundaries(code)
<1>1. /\ code[i].op \in Opcodes /\ i + Size(code[i].op) \in Boundaries(code) /\ i \in Boundaries(code)
      /\ i \in DOMAIN code
  BY WholeParts DEF Whole
<1>2. CASE code[i].op \in JumpOps
  <2>1. i \in Jumps(code)
    BY <1>1, <1>2 DEF Jumps, JumpOps
  <2>2. JumpTarget(code, i) \in Boundaries(code)
    BY <2>1 DEF Whole, Lands, JumpsTo
  <2>3. Size(code[i].op) = 3
    BY <1>1, <1>2, OperandsOf
  <2>4. i + 3 \in Boundaries(code)
    BY <1>1, <2>3
  <2>5. Successors(code, i) \subseteq {i + 3, JumpTarget(code, i)}
    BY <1>2 DEF Successors, JumpOps
  <2> QED
    BY <2>2, <2>4, <2>5
<1>3. CASE code[i].op \notin JumpOps
  <2>1. Successors(code, i) = {i + Size(code[i].op)}
    BY <1>3 DEF Successors, JumpOps
  <2> QED
    BY <1>1, <2>1
<1> QED
  BY <1>2, <1>3

(* An instruction that is o positions further leads o positions further.   *)
LEMMA SuccessorsMoved ==
  ASSUME NEW a, NEW c, NEW i \in Int, NEW o \in Int, c[o + i] = a[i],
         a[i].op \in Opcodes, a[i].arg \in Nat
  PROVE  /\ \A t \in Successors(c, o + i) : t \in Int /\ t - o \in Successors(a, i)
         /\ \A t \in Successors(a, i) : t \in Int /\ o + t \in Successors(c, o + i)
<1> DEFINE op == a[i].op
           s  == Size(op)
<1>1. s \in Nat
  BY OperandsOf
<1>2. JumpTarget(a, i) \in Int /\ JumpTarget(c, o + i) = o + JumpTarget(a, i)
  <2>1. PICK arg \in Nat : arg = a[i].arg
    OBVIOUS
  <2>2. JumpTarget(a, i) = IF op = "RJMP" THEN i + 3 - arg ELSE i + 3 + arg
    BY <2>1 DEF JumpTarget
  <2>3. JumpTarget(c, o + i) = IF op = "RJMP" THEN (o + i) + 3 - arg ELSE (o + i) + 3 + arg
    BY <2>1 DEF JumpTarget
  <2> QED
    BY <2>2, <2>3
<1>3. Successors(a, i) = IF op \in {"JMP", "RJMP"} THEN {JumpTarget(a, i)}
                         ELSE IF op \in {"JEZ", "JNEZ"} THEN {i + 3, JumpTarget(a, i)}
                         ELSE {i + s}
  BY DEF Successors
<1>4. Successors(c, o + i) = IF op \in {"JMP", "RJMP"} THEN {JumpTarget(c, o + i)}
                         ELSE IF op \in {"JEZ", "JNEZ"} THEN {(o + i) + 3, JumpTarget(c, o + i)}
                         ELSE {(o + i) + s}
  BY DEF Successors
<1>5. PICK j \in Int : j = JumpTarget(a, i) /\ JumpTarget(c, o + i) = o + j
  BY <1>2
<1> HIDE DEF op, s
<1> QED
  BY <1>1, <1>3, <1>4, <1>5

(* The instructions of a are in c, o positions further.                    *)
Keeps(c, o, a) ==
  \A i \in Starts(a) : o + i \in Starts(c) /\ c[o + i] = a[i]

Begins(c, a) == \A i \in Starts(a) : i \in Starts(c) /\ c[i] = a[i]

(* The instructions of two pieces of code in a row.                        *)
LEMMA ConcatStarts ==
  ASSUME NEW a, NEW b, Laid(a, Instruction), Laid(b, Instruction)
  PROVE  /\ Begins(a \o b, a) /\ Keeps(a \o b, Len(a), b)
         /\ \A i \in Starts(a \o b) : \/ i \in Starts(a) /\ (a \o b)[i] = a[i]
                                      \/ /\ i - Len(a) \in Starts(b)
                                         /\ (a \o b)[i] = b[i - Len(a)]
                                         /\ i = Len(a) + (i - Len(a))
<1> DEFINE c == a \o b
<1>1. /\ a \in Seq(Cell) /\ b \in Seq(Cell) /\ 1 \in Boundaries(b)
      /\ Len(a) \in Nat /\ DOMAIN a = 1..Len(a) /\ Len(b) \in Nat /\ DOMAIN b = 1..Len(b)
  BY WholeParts
<1>2. /\ c \in Seq(Cell) /\ Len(c) = Len(a) + Len(b) /\ DOMAIN c = 1..Len(a)+Len(b)
      /\ \A i \in DOMAIN c : \/ i \in DOMAIN a /\ c[i] = a[i]
                             \/ i - Len(a) \in DOMAIN b /\ c[i] = b[i - Len(a)]
  BY <1>1, ConcatPlaces
<1>3. /\ \A i \in 1..Len(a) : c[i] = a[i]
      /\ \A k \in 1..Len(b) : c[Len(a) + k] = b[k]
  BY <1>1
<1> HIDE DEF c
<1>4. \A i \in Starts(a) : i \in Starts(c) /\ c[i] = a[i]
  BY <1>1, <1>2, <1>3 DEF Starts
<1>5. ASSUME NEW k \in Starts(b) PROVE Len(a) + k \in Starts(c) /\ c[Len(a) + k] = b[k]
  <2>1. k \in 1..Len(b) /\ b[k].op # "OPERAND"
    BY <1>1 DEF Starts
  <2>2. Len(a) + k \in 1..Len(a)+Len(b)
    BY <1>1, <2>1
  <2> QED
    BY <1>2, <1>3, <2>1, <2>2 DEF Starts
<1>6. ASSUME NEW i \in Starts(c)
      PROVE  \/ i \in Starts(a) /\ c[i] = a[i]
             \/ /\ i - Len(a) \in Starts(b) /\ c[i] = b[i - Len(a)]
                /\ i = Len(a) + (i - Len(a))
  <2>1. i \in DOMAIN c /\ c[i].op # "OPERAND" /\ i \in Nat
    BY <1>2 DEF Starts
  <2>2. i = Len(a) + (i - Len(a))
    BY <1>1, <2>1
  <2> QED
    BY <1>2, <2>1, <2>2 DEF Starts
<1> QED
  BY <1>4, <1>5, <1>6 DEF c, Begins, Keeps

(* An instruction does the same o positions further.                       *)
LEMMA MeetsMoved ==
  ASSUME NEW a, NEW c, NEW i \in Int, NEW o \in Int, c[o + i] = a[i],
         a[i].op \in Opcodes, a[i].arg \in Nat,
         NEW d, NEW D, \A t \in Int : d[t] = D[o + t], NEW w, NEW n, Meets(a, d, i, w, n)
  PROVE  Meets(c, D, o + i, w, n)
<1>1. D[o + i] = d[i]
  OBVIOUS
<1>2. DepthAfter(c, o + i, D[o + i]) = DepthAfter(a, i, d[i])
  BY <1>1 DEF DepthAfter
<1>3. ASSUME NEW t \in Successors(c, o + i) PROVE D[t] = DepthAfter(a, i, d[i])
  <2>1. t \in Int /\ t - o \in Successors(a, i)
    BY SuccessorsMoved
  <2>2. d[t - o] = DepthAfter(a, i, d[i])
    BY <2>1 DEF Meets
  <2>3. t - o \in Int /\ o + (t - o) = t
    BY <2>1
  <2>4. d[t - o] = D[t]
    BY <2>3
  <2> QED
    BY <2>2, <2>4
<1> QED
  BY <1>1, <1>2, <1>3 DEF Meets

LEMMA SuccessorsSame ==
  ASSUME NEW a, NEW c, NEW i, c[i] = a[i]
  PROVE  /\ Successors(c, i) = Successors(a, i)
         /\ \A d, w, n : Meets(a, d, i, w, n) => Meets(c, d, i, w, n)
<1>1. Successors(c, i) = Successors(a, i)
  BY DEF Successors, JumpTarget
<1>2. \A x : DepthAfter(c, i, x) = DepthAfter(a, i, x)
  BY DEF DepthAfter
<1> QED
  BY <1>1, <1>2 DEF Meets

LEMMA FlowConcat ==
  ASSUME NEW a, NEW b, Laid(a, Instruction), Laid(b, Instruction), NEW w, NEW n,
         NEW D, NEW d, \A t \in Int : d[t] = D[Len(a) + t],
         Flow(a, D, w, n), Flow(b, d, w, n)
  PROVE  Flow(a \o b, D, w, n)
<1> DEFINE c == a \o b
<1>1. \A i \in Starts(c) : \/ i \in Starts(a) /\ c[i] = a[i]
                           \/ /\ i - Len(a) \in Starts(b) /\ c[i] = b[i - Len(a)]
                              /\ i = Len(a) + (i - Len(a))
  BY ConcatStarts
<1> HIDE DEF c
<1>2. Len(a) \in Int
  BY WholeParts
<1>3. ASSUME NEW i \in Starts(c) PROVE Meets(c, D, i, w, n)
  <2>1. CASE i \in Starts(a) /\ c[i] = a[i]
    <3>1. Meets(a, D, i, w, n)
      BY <2>1 DEF Flow
    <3> QED
      BY <2>1, <3>1, SuccessorsSame
  <2>2. CASE i - Len(a) \in Starts(b) /\ c[i] = b[i - Len(a)] /\ i = Len(a) + (i - Len(a))
    <3>1. PICK k \in Starts(b) : k = i - Len(a) /\ c[i] = b[k] /\ i = Len(a) + k
      BY <2>2
    <3>2. k \in Int /\ b[k].op \in Opcodes /\ b[k].arg \in Nat
      BY WholeParts
    <3>3. Meets(b, d, k, w, n)
      BY DEF Flow
    <3>4. c[Len(a) + k] = b[k]
      BY <3>1
    <3>5. Meets(c, D, Len(a) + k, w, n)
      BY <1>2, <3>2, <3>3, <3>4, MeetsMoved
    <3> QED
      BY <3>1, <3>5
  <2> QED
    BY <1>1, <2>1, <2>2
<1> QED
  BY <1>3 DEF Flow, c

LEMMA ReachedConcat ==
  ASSUME NEW a, NEW b, Laid(a, Instruction), Laid(b, Instruction)
  PROVE  /\ \A t : Reached(a, t) => Reached(a \o b, t)
         /\ \A t \in Int : Reached(b, t) => Reached(a \o b, Len(a) + t)
<1> DEFINE c == a \o b
<1>1. /\ \A i \in Starts(a) : i \in Starts(c) /\ c[i] = a[i]
      /\ \A k \in Starts(b) : Len(a) + k \in Starts(c) /\ c[Len(a) + k] = b[k]
  <2>1. Begins(c, a) /\ Keeps(c, Len(a), b)
    BY ConcatStarts
  <2> QED
    BY <2>1 DEF Begins, Keeps
<1> HIDE DEF c
<1>2. Len(a) \in Int
  BY WholeParts
<1>3. ASSUME NEW t, Reached(a, t) PROVE Reached(c, t)
  <2>1. PICK j \in Starts(a) : j < t /\ t \in Successors(a, j)
    BY <1>3 DEF Reached
  <2>2. c[j] = a[j] /\ j \in Starts(c)
    BY <1>1
  <2>3. t \in Successors(c, j)
    BY <2>1, <2>2, SuccessorsSame
  <2> QED
    BY <2>1, <2>2, <2>3 DEF Reached
<1>4. ASSUME NEW t \in Int, Reached(b, t) PROVE Reached(c, Len(a) + t)
  <2>1. PICK j \in Starts(b) : j < t /\ t \in Successors(b, j)
    BY <1>4 DEF Reached
  <2>2. j \in Int /\ b[j].op \in Opcodes /\ b[j].arg \in Nat
    BY WholeParts
  <2>3. Len(a) + t \in Successors(c, Len(a) + j)
    BY <1>1, <1>2, <2>1, <2>2, SuccessorsMoved
  <2>4. Len(a) + j < Len(a) + t
    BY <1>2, <2>1, <2>2
  <2> QED
    BY <1>1, <2>3, <2>4 DEF Reached
<1> QED
  BY <1>3, <1>4 DEF c

(* These positions, l further.                                             *)
Further(l, Y) == {t \in Int : t - l \in Y}

LEMMA ThreadedConcat ==
  ASSUME NEW a, NEW b, Laid(a, Instruction), Laid(b, Instruction),
         NEW X, NEW Y, Threaded(a, X), Threaded(b, Y)
  PROVE  Threaded(a \o b, X \cup Further(Len(a), Y))
<1> DEFINE c == a \o b
           Z == X \cup Further(Len(a), Y)
<1>1. /\ \A t : Reached(a, t) => Reached(c, t)
      /\ \A t \in Int : Reached(b, t) => Reached(c, Len(a) + t)
  BY ReachedConcat
<1>2. /\ \A i \in Starts(c) : \/ i \in Starts(a)
                              \/ i - Len(a) \in Starts(b)
      /\ Len(c) = Len(a) + Len(b)
  <2>1. a \in Seq(Cell) /\ b \in Seq(Cell)
    BY WholeParts
  <2>2. Len(c) = Len(a) + Len(b)
    BY <2>1
  <2> QED
    BY <2>2, ConcatStarts
<1> HIDE DEF c
<1>3. /\ Len(a) \in Nat /\ Len(b) \in Nat /\ Len(a) + 1 \in Boundaries(a)
      /\ Boundaries(a) \subseteq 1..Len(a)+1 /\ Boundaries(b) \subseteq 1..Len(b)+1
      /\ Len(b) + 1 \in Boundaries(b)
  BY WholeParts
<1>4. ASSUME NEW t \in Boundaries(a) PROVE t = 1 \/ t \in Z \/ Reached(c, t)
  BY <1>1 DEF Threaded
<1>5. ASSUME NEW k \in Boundaries(b)
      PROVE  Len(a) + k = 1 \/ Len(a) + k \in Z \/ Reached(c, Len(a) + k)
  <2>1. CASE k = 1
    BY <1>3, <1>4, <2>1
  <2>2. CASE k \in Y
    <3>1. Len(a) + k \in Int /\ (Len(a) + k) - Len(a) = k
      BY <1>3
    <3> QED
      BY <2>2, <3>1 DEF Further
  <2>3. CASE Reached(b, k)
    BY <1>1, <1>3, <2>3
  <2> QED
    BY <2>1, <2>2, <2>3 DEF Threaded
<1>6. ASSUME NEW t \in Boundaries(c) PROVE t = 1 \/ t \in Z \/ Reached(c, t)
  <2>1. CASE t \in Starts(a)
    BY <1>4, <2>1 DEF Boundaries
  <2>2. CASE t # Len(c) + 1 /\ t \notin Starts(a)
    <3>1. t \in Starts(c) /\ t - Len(a) \in Starts(b)
      BY <1>2, <2>2 DEF Boundaries
    <3>2. t - Len(a) \in Boundaries(b)
      BY <3>1 DEF Boundaries
    <3>3. PICK k \in Boundaries(b) : k = t - Len(a)
      BY <3>2
    <3>4. t \in Int
      <4>1. a \o b \in Seq(Cell)
        BY WholeParts
      <4>2. DOMAIN c \subseteq Int
        BY <4>1 DEF c
      <4> QED
        BY <3>1, <4>2 DEF Starts
    <3>5. t = Len(a) + k
      BY <1>3, <3>3, <3>4
    <3> QED
      BY <1>5, <3>5
  <2>3. CASE t = Len(c) + 1
    <3>1. t = Len(a) + (Len(b) + 1)
      BY <1>2, <1>3, <2>3
    <3> QED
      BY <1>3, <1>5, <3>1
  <2> QED
    BY <2>1, <2>2, <2>3
<1> QED
  BY <1>6 DEF Threaded, c

(* Depths count only where the code has positions.                         *)
LEMMA FlowSame ==
  ASSUME NEW code, Whole(code), NEW d, NEW D, \A t \in 1..Len(code)+1 : D[t] = d[t],
         NEW w, NEW n, Flow(code, d, w, n)
  PROVE  Flow(code, D, w, n)
<1>1. \A i \in Starts(code) : i \in 1..Len(code)+1
  BY WholeParts DEF Whole
<1>2. ASSUME NEW i \in Starts(code) PROVE Meets(code, D, i, w, n)
  <2>1. D[i] = d[i]
    BY <1>1
  <2>2. \A t \in Successors(code, i) : D[t] = d[t]
    BY WholeParts, SuccessorsIn DEF Whole
  <2>3. Meets(code, d, i, w, n)
    BY DEF Flow
  <2> QED
    BY <2>1, <2>2, <2>3 DEF Meets
<1> QED
  BY <1>2 DEF Flow

LEMMA EffectOf ==
  ASSUME NEW op
  PROVE  Pops(op) \in 0..2 /\ Pushes(op) \in 0..1
BY DEF Pops, Pushes

(* Depths of two pieces in a row, the first of which has l positions.      *)
Joined(d, l, f) == [t \in Int |-> IF t <= l THEN d[t] ELSE f[t - l]]
Later(d, l)     == [t \in Int |-> d[l + t]]

LEMMA JoinedIs ==
  ASSUME NEW d \in [Int -> Nat], NEW f \in [Int -> Nat], NEW l \in Nat, d[l+1] = f[1]
  PROVE  /\ Joined(d, l, f) \in [Int -> Nat] /\ Later(Joined(d, l, f), l) \in [Int -> Nat]
         /\ \A t \in 1..l+1 : Joined(d, l, f)[t] = d[t]
         /\ \A t \in Int : t >= 1 => Joined(d, l, f)[l + t] = f[t]
         /\ \A t \in Int : t >= 1 => Later(Joined(d, l, f), l)[t] = f[t]
         /\ \A t \in Int : Later(Joined(d, l, f), l)[t] = Joined(d, l, f)[l + t]
<1> DEFINE D == Joined(d, l, f)
<1>1. \A t \in Int : D[t] = IF t <= l THEN d[t] ELSE f[t - l]
  BY DEF Joined
<1>2. D \in [Int -> Nat]
  BY DEF Joined
<1> HIDE DEF D
<1>3. ASSUME NEW t \in Int, t >= 1 PROVE D[l + t] = f[t]
  <2>1. l + t \in Int /\ ~(l + t <= l) /\ (l + t) - l = t
    BY <1>3
  <2> QED
    BY <1>1, <2>1
<1>4. ASSUME NEW t \in 1..l+1 PROVE D[t] = d[t]
  <2>1. CASE t <= l
    BY <1>1, <2>1
  <2>2. CASE t = l + 1
    BY <1>3, <2>2
  <2> QED
    BY <2>1, <2>2
<1>5. \A t \in Int : Later(D, l)[t] = D[l + t]
  BY DEF Later
<1>6. Later(D, l) \in [Int -> Nat]
  BY <1>2 DEF Later
<1> QED
  BY <1>2, <1>3, <1>4, <1>5, <1>6 DEF D

LEMMA FollowsConcat ==
  ASSUME NEW a, NEW b, Whole(a), Whole(b), NEW x, NEW y, NEW z, NEW w, NEW n,
         Follows(a, x, y, w, n), Follows(b, y, z, w, n)
  PROVE  Follows(a \o b, x, z, w, n)
<1>1. PICK d \in [Int -> Nat] : d[1] = x /\ d[Len(a)+1] = y /\ Flow(a, d, w, n)
  BY DEF Follows
<1>2. PICK f \in [Int -> Nat] : f[1] = y /\ f[Len(b)+1] = z /\ Flow(b, f, w, n)
  BY DEF Follows
<1>3. PICK l \in Nat, m \in Nat : l = Len(a) /\ m = Len(b)
  BY WholeParts DEF Whole
<1>4. PICK D \in [Int -> Nat], E \in [Int -> Nat] :
        /\ \A t \in 1..l+1 : D[t] = d[t]
        /\ \A t \in Int : t >= 1 => D[l + t] = f[t]
        /\ \A t \in Int : t >= 1 => E[t] = f[t]
        /\ \A t \in Int : E[t] = D[l + t]
  <2>1. d[l+1] = f[1]
    BY <1>1, <1>2, <1>3
  <2> DEFINE D == Joined(d, l, f)
             E == Later(D, l)
  <2>2. D \in [Int -> Nat] /\ E \in [Int -> Nat]
    BY <2>1, JoinedIs
  <2>3. \A t \in 1..l+1 : D[t] = d[t]
    BY <2>1, JoinedIs
  <2>4. \A t \in Int : t >= 1 => D[l + t] = f[t]
    BY <2>1, JoinedIs
  <2>5. \A t \in Int : t >= 1 => E[t] = f[t]
    BY <2>1, JoinedIs
  <2>6. \A t \in Int : E[t] = D[l + t]
    BY <2>1, JoinedIs
  <2> HIDE DEF D, E
  <2> QED
    BY <2>2, <2>3, <2>4, <2>5, <2>6
<1>5. Flow(a, D, w, n)
  BY <1>1, <1>3, <1>4, FlowSame
<1>6. Flow(b, E, w, n)
  <2>1. \A t \in 1..Len(b)+1 : E[t] = f[t]
    BY <1>3, <1>4
  <2> QED
    BY <1>2, <2>1, FlowSame
<1>7. Flow(a \o b, D, w, n)
  BY <1>3, <1>4, <1>5, <1>6, FlowConcat DEF Whole
<1>8. D[1] = x
  BY <1>1, <1>3, <1>4
<1>9. D[Len(a \o b) + 1] = z
  <2>1. a \in Seq(Cell) /\ b \in Seq(Cell)
    BY WholeParts DEF Whole
  <2>2. Len(a \o b) + 1 = l + (m + 1)
    BY <1>3, <2>1
  <2>3. m + 1 \in Int /\ m + 1 >= 1
    OBVIOUS
  <2> QED
    BY <1>2, <1>3, <1>4, <2>2, <2>3
<1>10. Threaded(a \o b, {})
  <2>1. Threaded(a \o b, {} \cup Further(Len(a), {}))
    BY ThreadedConcat DEF Follows, Whole
  <2>2. {} \cup Further(Len(a), {}) = {}
    BY DEF Further
  <2> QED
    BY <2>1, <2>2
<1> QED
  BY <1>7, <1>8, <1>9, <1>10 DEF Follows

(* Code that begins k words deeper needs as much more.                     *)
LEMMA FollowsDeeper ==
  ASSUME NEW code, Whole(code), NEW b \in Nat, NEW e \in Nat, NEW w \in Int, NEW n \in Nat,
         Follows(code, b, e, w, n), NEW k \in Nat, NEW v \in Int, w + 4 * k <= v
  PROVE  Follows(code, b + k, e + k, v, n)
<1>1. PICK d \in [Int -> Nat] : d[1] = b /\ d[Len(code)+1] = e /\ Flow(code, d, w, n)
  BY DEF Follows
<1> DEFINE D == [t \in Int |-> d[t] + k]
<1>2. D \in [Int -> Nat] /\ \A t \in Int : D[t] = d[t] + k
  OBVIOUS
<1> HIDE DEF D
<1>3. Len(code) + 1 \in Int
  BY WholeParts DEF Whole
<1>4. ASSUME NEW i \in Starts(code) PROVE Meets(code, D, i, v, n)
  <2>1. i \in Int /\ Successors(code, i) \subseteq Int
    <3>1. Successors(code, i) \subseteq Boundaries(code)
      BY SuccessorsIn
    <3> QED
      BY <3>1, WholeParts DEF Whole
  <2>2. PICK p \in 0..2, q \in 0..1 : p = Pops(code[i].op) /\ q = Pushes(code[i].op)
    BY EffectOf
  <2>3. \A x : DepthAfter(code, i, x) = x - p + q
    BY <2>2 DEF DepthAfter
  <2>4. /\ d[i] >= p /\ 4 * (d[i] - p + q) <= w
        /\ code[i].op = "CALL" => d[i] >= n
        /\ \A t \in Successors(code, i) : d[t] = d[i] - p + q
    BY <1>1, <2>2, <2>3 DEF Flow, Meets
  <2>5. D[i] >= p /\ 4 * (D[i] - p + q) <= v
    BY <1>2, <2>1, <2>4
  <2>6. code[i].op = "CALL" => D[i] >= n
    BY <1>2, <2>1, <2>4
  <2>7. \A t \in Successors(code, i) : D[t] = D[i] - p + q
    BY <1>2, <2>1, <2>4
  <2> QED
    BY <2>2, <2>3, <2>5, <2>6, <2>7 DEF Meets
<1>5. D[1] = b + k /\ D[Len(code)+1] = e + k
  BY <1>1, <1>2, <1>3
<1> QED
  BY <1>2, <1>4, <1>5 DEF Follows, Flow

LEMMA FollowsMore ==
  ASSUME NEW code, Whole(code), NEW b, NEW e, NEW w \in Int, NEW n,
         Follows(code, b, e, w, n), NEW v \in Int, w <= v
  PROVE  Follows(code, b, e, v, n)
<1>1. PICK d \in [Int -> Nat] : d[1] = b /\ d[Len(code)+1] = e /\ Flow(code, d, w, n)
  BY DEF Follows
<1>2. ASSUME NEW i \in Starts(code) PROVE Meets(code, d, i, v, n)
  <2>1. Meets(code, d, i, w, n)
    BY <1>1 DEF Flow
  <2>2. DepthAfter(code, i, d[i]) \in Int
    <3>1. i \in Int
      BY WholeParts DEF Whole
    <3> QED
      BY <3>1, EffectOf DEF DepthAfter
  <2> QED
    BY <2>1, <2>2 DEF Meets
<1> QED
  BY <1>1, <1>2 DEF Follows, Flow

LEMMA FollowsEmpty ==
  ASSUME NEW b \in Nat, NEW w, NEW n
  PROVE  Whole(<<>>) /\ Follows(<<>>, b, b, w, n)
<1>1. Whole(<<>>)
  BY EmptyLaid DEF Whole
<1>2. DOMAIN <<>> = {} /\ Len(<<>>) = 0
  OBVIOUS
<1>3. Starts(<<>>) = {} /\ Boundaries(<<>>) = {1}
  BY <1>2 DEF Starts, Boundaries
<1> DEFINE d == [t \in Int |-> b]
<1>4. d \in [Int -> Nat] /\ d[1] = b /\ d[0+1] = b /\ Flow(<<>>, d, w, n)
  BY <1>3 DEF Flow
<1>5. Threaded(<<>>, {})
  BY <1>3 DEF Threaded
<1> QED
  BY <1>1, <1>2, <1>4, <1>5 DEF Follows

(* One instruction that is not a jump.                                     *)
LEMMA EncodeFollows ==
  ASSUME NEW op \in Opcodes, op \notin JumpOps, NEW arg \in Nat, NEW b \in Nat, NEW e \in Nat,
         b >= Pops(op), e = b - Pops(op) + Pushes(op), NEW w, 4 * e <= w, NEW n,
         op = "CALL" => b >= n
  PROVE  Whole(Encode(op, arg)) /\ Follows(Encode(op, arg), b, e, w, n)
<1> DEFINE c == Encode(op, arg)
<1>1. /\ c \in Seq(Cell) /\ Len(c) = Size(op) /\ Starts(c) = {1} /\ Boundaries(c) = {1, 1 + Size(op)}
      /\ c[1] = [op |-> op, arg |-> arg]
  BY EncodeParts
<1>2. Whole(c)
  <2>1. [op |-> op, arg |-> arg] \in Instruction
    BY DEF Instruction
  <2>2. Laid(c, Instruction)
    BY <2>1, EncodeLaid
  <2>3. \A B : JumpsTo(c, B)
    BY EncodeJumps
  <2>4. Lands(c)
    BY <2>3 DEF Lands
  <2> QED
    BY <2>2, <2>4 DEF Whole
<1> HIDE DEF c
<1>3. Successors(c, 1) = {1 + Size(op)} /\ Size(op) \in Nat \ {0}
  BY <1>1, OperandsOf DEF Successors, JumpOps
<1> DEFINE d == [t \in Int |-> IF t <= 1 THEN b ELSE e]
<1>4. d \in [Int -> Nat] /\ d[1] = b /\ d[Len(c) + 1] = e /\ d[1 + Size(op)] = e
  BY <1>1, <1>3
<1> HIDE DEF d
<1>5. DepthAfter(c, 1, d[1]) = e
  BY <1>1, <1>4 DEF DepthAfter
<1>6. Flow(c, d, w, n)
  <2>1. c[1].op = op
    BY <1>1
  <2>2. \A t \in Successors(c, 1) : d[t] = e
    BY <1>3, <1>4
  <2>3. Meets(c, d, 1, w, n)
    BY <1>4, <1>5, <2>1, <2>2 DEF Meets
  <2> QED
    BY <1>1, <2>3 DEF Flow
<1>7. Threaded(c, {})
  <2>1. Reached(c, 1 + Size(op))
    BY <1>1, <1>3 DEF Reached
  <2> QED
    BY <1>1, <2>1 DEF Threaded
<1> QED
  BY <1>2, <1>4, <1>6, <1>7 DEF Follows, c

LEMMA JumpSuccessors ==
  ASSUME NEW m \in Nat
  PROVE  /\ Successors(Encode("JEZ", m), 1) = {4, 4 + m}
         /\ Successors(Encode("JMP", m), 1) = {4 + m}
         /\ Successors(Encode("RJMP", m), 1) = {4 - m}
         /\ \A op \in JumpOps : /\ Starts(Encode(op, m)) = {1} /\ Encode(op, m)[1].op = op
                                /\ Laid(Encode(op, m), Instruction) /\ Len(Encode(op, m)) = 3
                                /\ Boundaries(Encode(op, m)) = {1, 4}
<1>1. ASSUME NEW op \in JumpOps
      PROVE  /\ Starts(Encode(op, m)) = {1} /\ Encode(op, m)[1] = [op |-> op, arg |-> m]
             /\ Laid(Encode(op, m), Instruction) /\ Len(Encode(op, m)) = 3
             /\ Boundaries(Encode(op, m)) = {1, 4}
  <2>1. op \in Opcodes /\ Size(op) = 3
    <3>1. op \in Opcodes
      BY DEF JumpOps, Opcodes
    <3> QED
      BY <3>1, OperandsOf
  <2>2. [op |-> op, arg |-> m] \in Instruction
    BY <2>1 DEF Instruction
  <2>3. Laid(Encode(op, m), Instruction)
    BY <2>1, <2>2, EncodeLaid
  <2>4. Boundaries(Encode(op, m)) = {1, 1 + Size(op)} /\ Len(Encode(op, m)) = Size(op)
    BY <2>1, EncodeParts
  <2>5. Starts(Encode(op, m)) = {1} /\ Encode(op, m)[1] = [op |-> op, arg |-> m]
    BY <2>1, EncodeParts
  <2>6. 1 + Size(op) = 4
    BY <2>1
  <2> QED
    BY <2>1, <2>3, <2>4, <2>5, <2>6
<1>2. Successors(Encode("JEZ", m), 1) = {4, 4 + m}
  <2>1. "JEZ" \in JumpOps
    BY DEF JumpOps
  <2>2. Encode("JEZ", m)[1] = [op |-> "JEZ", arg |-> m]
    BY <1>1, <2>1
  <2> QED
    BY <2>2 DEF Successors, JumpTarget
<1>3. Successors(Encode("JMP", m), 1) = {4 + m}
  <2>1. "JMP" \in JumpOps
    BY DEF JumpOps
  <2>2. Encode("JMP", m)[1] = [op |-> "JMP", arg |-> m]
    BY <1>1, <2>1
  <2> QED
    BY <2>2 DEF Successors, JumpTarget
<1>4. Successors(Encode("RJMP", m), 1) = {4 - m}
  <2>1. "RJMP" \in JumpOps
    BY DEF JumpOps
  <2>2. Encode("RJMP", m)[1] = [op |-> "RJMP", arg |-> m]
    BY <1>1, <2>1
  <2> QED
    BY <2>2 DEF Successors, JumpTarget
<1>5. ASSUME NEW op \in JumpOps PROVE Encode(op, m)[1].op = op
  <2>1. Encode(op, m)[1] = [op |-> op, arg |-> m]
    BY <1>1
  <2> QED
    BY <2>1
<1> QED
  BY <1>1, <1>2, <1>3, <1>4, <1>5

(* A branch takes its operand, and a jump nothing.                         *)
LEMMA BranchFlow ==
  ASSUME NEW m \in Nat, NEW k \in Nat, NEW w, 4 * k <= w, NEW n, NEW d,
         d[1] = k + 1, d[4] = k, d[4 + m] = k
  PROVE  Flow(Encode("JEZ", m), d, w, n)
<1> DEFINE c == Encode("JEZ", m)
<1>1. Starts(c) = {1} /\ c[1].op = "JEZ" /\ Successors(c, 1) = {4, 4 + m}
  BY JumpSuccessors DEF JumpOps
<1> HIDE DEF c
<1>2. DepthAfter(c, 1, d[1]) = k
  BY <1>1 DEF DepthAfter, Pops, Pushes
<1>3. Meets(c, d, 1, w, n)
  BY <1>1, <1>2 DEF Meets, Pops
<1> QED
  BY <1>1, <1>3 DEF Flow, c

LEMMA JumpFlow ==
  ASSUME NEW op \in {"JMP", "RJMP"}, NEW m \in Nat, NEW k \in Nat, NEW w, 4 * k <= w, NEW n,
         NEW d, d[1] = k, d[IF op = "JMP" THEN 4 + m ELSE 4 - m] = k
  PROVE  Flow(Encode(op, m), d, w, n)
<1> DEFINE c == Encode(op, m)
<1>1. Starts(c) = {1} /\ c[1].op = op
  BY JumpSuccessors DEF JumpOps
<1>2. Successors(c, 1) = {IF op = "JMP" THEN 4 + m ELSE 4 - m}
  BY JumpSuccessors
<1> HIDE DEF c
<1>3. Pops(op) = 0 /\ Pushes(op) = 0
  BY DEF Pops, Pushes
<1>4. DepthAfter(c, 1, d[1]) = k
  BY <1>1, <1>3 DEF DepthAfter
<1>5. Meets(c, d, 1, w, n)
  BY <1>1, <1>2, <1>3, <1>4 DEF Meets
<1> QED
  BY <1>1, <1>5 DEF Flow, c

LEMMA JumpThreaded ==
  ASSUME NEW m \in Nat
  PROVE  /\ Threaded(Encode("JEZ", m), {})
         /\ \A op \in JumpOps : Threaded(Encode(op, m), {4})
<1>1. \A op \in JumpOps : Threaded(Encode(op, m), {4})
  BY JumpSuccessors DEF Threaded
<1>2. Starts(Encode("JEZ", m)) = {1} /\ Boundaries(Encode("JEZ", m)) = {1, 4}
      /\ 4 \in Successors(Encode("JEZ", m), 1)
  BY JumpSuccessors DEF JumpOps
<1>3. Reached(Encode("JEZ", m), 4)
  BY <1>2 DEF Reached
<1>4. Threaded(Encode("JEZ", m), {})
  BY <1>2, <1>3 DEF Threaded
<1> QED
  BY <1>1, <1>4

(* The depths along an if statement, seen from where its parts begin: yes  *)
(* has p bytes, no has q, and the skip between them s.                     *)
IfDepth(D, E1, E2, E3, k, p, q, s, dy, dn) ==
  /\ D \in [Int -> Nat]
  /\ D[1] = k + 1 /\ D[4] = k /\ D[4 + (p + s)] = k /\ D[3 + (p + s) + q + 1] = k
  /\ \A t \in 1..p+1 : E1[t] = dy[t]
  /\ s = 3 => E2[1] = k /\ E2[4 + q] = k
  /\ \A t \in 1..q+1 : E3[t] = dn[t]
  /\ \A t \in Int : E1[t] = D[3 + t]
  /\ \A t \in Int : E2[t] = E1[p + t]
  /\ \A t \in Int : E3[t] = D[3 + (p + s) + t]

LEMMA IfDepths ==
  ASSUME NEW k \in Nat, NEW p \in Nat, NEW q \in Nat, NEW s \in {0, 3},
         NEW dy \in [Int -> Nat], dy[1] = k, dy[p+1] = k,
         NEW dn \in [Int -> Nat], dn[1] = k, dn[q+1] = k
  PROVE  \E D, E1, E2, E3 : IfDepth(D, E1, E2, E3, k, p, q, s, dy, dn)
<1> DEFINE r == 3 + (p + s)
           D  == [t \in Int |-> IF t <= 1 THEN k + 1 ELSE IF t <= 3 + p THEN dy[t - 3]
                                ELSE IF t <= r THEN k ELSE dn[t - r]]
           E1 == Later(D, 3)
           E2 == Later(E1, p)
           E3 == Later(D, r)
<1>1. r \in Nat /\ 3 + p <= r /\ r = 3 + (p + s) /\ (s = 0 => r = 3 + p) /\ (s = 3 => r = 6 + p)
  <2>1. CASE s = 0
    BY <2>1
  <2>2. CASE s = 3
    BY <2>2
  <2> QED
    BY <2>1, <2>2
<1> HIDE DEF r
<1>2. \A t \in Int : D[t] = IF t <= 1 THEN k + 1 ELSE IF t <= 3 + p THEN dy[t - 3]
                                ELSE IF t <= r THEN k ELSE dn[t - r]
  OBVIOUS
<1>3. D \in [Int -> Nat]
  <2>1. ASSUME NEW t \in Int PROVE (IF t <= 1 THEN k + 1 ELSE IF t <= 3 + p THEN dy[t - 3]
                                ELSE IF t <= r THEN k ELSE dn[t - r]) \in Nat
    <3>1. t - 3 \in Int /\ t - r \in Int
      BY <1>1
    <3> QED
      BY <3>1
  <2> QED
    BY <2>1
<1> HIDE DEF D
<1>4. \A t \in Int : 3 + t \in Int /\ p + t \in Int /\ r + t \in Int
  BY <1>1
<1>5. /\ E1 \in [Int -> Nat] /\ E3 \in [Int -> Nat]
      /\ \A t \in Int : E1[t] = D[3 + t]
      /\ \A t \in Int : E3[t] = D[r + t]
  BY <1>3, <1>4 DEF Later
<1> HIDE DEF E1, E3
<1>6. E2 \in [Int -> Nat] /\ \A t \in Int : E2[t] = E1[p + t]
  BY <1>4, <1>5 DEF Later
<1> HIDE DEF E2
<1>7. ASSUME NEW t \in 1..q+1 PROVE E3[t] = dn[t]
  <2>1. r + t \in Int /\ ~(r + t <= 1) /\ ~(r + t <= 3 + p) /\ ~(r + t <= r) /\ (r + t) - r = t
    BY <1>1
  <2>2. D[r + t] = dn[t]
    BY <1>2, <2>1
  <2>3. t \in Int
    OBVIOUS
  <2>4. E3[t] = D[r + t]
    BY <1>5, <2>3
  <2> QED
    BY <2>2, <2>4
<1>8. D[3 + (p + 1)] = k
  <2>1. 3 + (p + 1) \in Int /\ ~(3 + (p + 1) <= 1) /\ ~(3 + (p + 1) <= 3 + p)
    OBVIOUS
  <2>2. CASE s = 3
    <3>1. 3 + (p + 1) <= r
      BY <1>1, <2>2
    <3> QED
      BY <1>2, <2>1, <3>1
  <2>3. CASE s = 0
    <3>1. ~(3 + (p + 1) <= r) /\ (3 + (p + 1)) - r = 1
      BY <1>1, <2>3
    <3> QED
      BY <1>2, <2>1, <3>1
  <2> QED
    BY <2>2, <2>3
<1>9. ASSUME NEW t \in 1..p+1 PROVE E1[t] = dy[t]
  <2>1. CASE t = p + 1
    <3>1. p + 1 \in Int
      OBVIOUS
    <3>2. E1[p + 1] = D[3 + (p + 1)]
      BY <1>5, <3>1
    <3> QED
      BY <1>8, <2>1, <3>2
  <2>2. CASE t # p + 1
    <3>1. 3 + t \in Int /\ ~(3 + t <= 1) /\ 3 + t <= 3 + p /\ (3 + t) - 3 = t
      BY <2>2
    <3>2. D[3 + t] = dy[t]
      BY <1>2, <3>1
    <3>3. t \in Int
      OBVIOUS
    <3>4. E1[t] = D[3 + t]
      BY <1>5, <3>3
    <3> QED
      BY <3>2, <3>4
  <2> QED
    BY <2>1, <2>2
<1>10. D[1] = k + 1
  BY <1>2
<1>11. D[4] = k
  <2>1. 1 \in 1..p+1 /\ 3 + 1 = 4
    OBVIOUS
  <2>2. E1[1] = D[3 + 1]
    BY <1>5
  <2> QED
    BY <1>9, <2>1, <2>2
<1>12. D[4 + (p + s)] = k
  <2>1. 1 \in 1..q+1 /\ r + 1 = 4 + (p + s)
    BY <1>1
  <2>2. E3[1] = D[r + 1]
    BY <1>5
  <2> QED
    BY <1>7, <2>1, <2>2
<1>13. E3[q + 1] = k /\ E3[q + 1] = D[r + (q + 1)]
  <2>1. q + 1 \in Int /\ q + 1 \in 1..q+1
    OBVIOUS
  <2>2. E3[q + 1] = D[r + (q + 1)]
    BY <1>5, <2>1
  <2>3. E3[q + 1] = dn[q + 1]
    BY <1>7, <2>1
  <2> QED
    BY <2>2, <2>3
<1>14. D[3 + (p + s) + q + 1] = k
  <2>1. r + (q + 1) = 3 + (p + s) + q + 1
    BY <1>1
  <2> QED
    BY <1>13, <2>1
<1>15. ASSUME s = 3 PROVE E2[1] = k /\ E2[4 + q] = k
  <2>1. 1 \in Int /\ 4 + q \in Int /\ p + 1 \in Int /\ p + (4 + q) \in Int
    OBVIOUS
  <2>2. E2[1] = D[3 + (p + 1)]
    BY <1>5, <1>6, <2>1
  <2>3. E2[4 + q] = D[3 + (p + (4 + q))]
    BY <1>5, <1>6, <2>1
  <2>4. 3 + (p + (4 + q)) = r + (q + 1)
    BY <1>1, <1>15
  <2> QED
    BY <1>8, <1>13, <2>2, <2>3, <2>4
<1> QED
  <2>1. \A t \in Int : E3[t] = D[3 + (p + s) + t]
    BY <1>1, <1>5
  <2>2. IfDepth(D, E1, E2, E3, k, p, q, s, dy, dn)
    BY <1>3, <1>5, <1>6, <1>7, <1>9, <1>10, <1>11, <1>12, <1>14, <1>15, <2>1 DEF IfDepth
  <2> QED
    BY <2>2

LEMMA InstructionsConcat ==
  ASSUME NEW a, NEW b, Laid(a, Instruction), Laid(b, Instruction)
  PROVE  Laid(a \o b, Instruction) /\ Len(a \o b) = Len(a) + Len(b)
<1>1. Instruction \subseteq [op : Opcodes, arg : Nat]
  BY DEF Instruction
<1> QED
  BY <1>1, ConcatLaid

(* The whole of an if statement takes its condition from the stack.        *)
LEMMA IfCodeFollows ==
  ASSUME NEW yes, NEW no, Whole(yes), Whole(no), Len(yes) + 3 < ByteRange,
         NEW k \in Nat, NEW w, 4 * k <= w, NEW n,
         Follows(yes, k, k, w, n), Follows(no, k, k, w, n)
  PROVE  Follows(IfCode(yes, no), k + 1, k, w, n)
<1> DEFINE skip == IF Len(no) >= ShortRange THEN <<>> ELSE Encode("JMP", Len(no))
           taken == yes \o skip
           jez == Encode("JEZ", LowByte(Len(taken)))
           start == jez \o taken
           code == start \o no
<1>1. PICK p \in Nat, q \in Nat : p = Len(yes) /\ q = Len(no)
  BY WholeParts DEF Whole
<1>2. Laid(yes, Instruction) /\ Laid(no, Instruction) /\ Instruction \subseteq [op : Opcodes, arg : Nat]
  BY DEF Whole, Instruction
<1>3. PICK s \in {0, 3} : /\ Laid(skip, Instruction) /\ Len(skip) = s
                          /\ s = 0 => skip = <<>>
                          /\ s = 3 => skip = Encode("JMP", q)
  <2>1. CASE q >= ShortRange
    BY <1>1, <2>1, EmptyLaid
  <2>2. CASE ~(q >= ShortRange)
    <3>1. skip = Encode("JMP", q)
      BY <1>1, <2>2
    <3> HIDE DEF skip
    <3>2. Laid(skip, Instruction) /\ Len(skip) = 3
      BY <1>1, <3>1, JumpSuccessors DEF JumpOps
    <3> QED
      BY <3>1, <3>2
  <2> QED
    BY <2>1, <2>2
<1> HIDE DEF skip
<1>4. Laid(taken, Instruction) /\ Len(taken) = p + s
  <2>1. Laid(taken, Instruction) /\ Len(taken) = Len(yes) + Len(skip)
    BY <1>2, <1>3, InstructionsConcat
  <2> QED
    BY <1>1, <1>3, <2>1
<1>5. IfCode(yes, no) = code /\ LowByte(Len(taken)) = p + s
  <2>1. ByteRange \in Nat \ {0}
    BY BytesAssumption
  <2>2. p + s < ByteRange /\ p + s \in Nat
    BY <1>1, <2>1
  <2>3. LowByte(p + s) = p + s
    BY <2>2, LowByteIs
  <2>4. ~(p + s >= ShortRange)
    <3>1. ByteRange <= ByteRange * ByteRange
      BY <2>1
    <3> QED
      BY <2>1, <2>2, <3>1 DEF ShortRange
  <2>5. IfCode(yes, no) = IF Len(taken) >= ShortRange THEN <<>> ELSE code
    BY DEF IfCode, skip
  <2> QED
    BY <1>4, <2>3, <2>4, <2>5
<1>6. jez = Encode("JEZ", p + s) /\ p + s \in Nat
  BY <1>5
<1> HIDE DEF taken, jez
<1>7. Laid(jez, Instruction) /\ Len(jez) = 3 /\ 1 \in Starts(jez)
      /\ 4 + (p + s) \in Successors(jez, 1)
  BY <1>6, JumpSuccessors DEF JumpOps
<1>8. Laid(start, Instruction) /\ Len(start) = 3 + (p + s)
  <2>1. Laid(start, Instruction) /\ Len(start) = Len(jez) + Len(taken)
    BY <1>2, <1>4, <1>7, ConcatLaid, Zenon
  <2> QED
    BY <1>4, <1>7, <2>1
<1> HIDE DEF start
<1>9. Len(code) = 3 + (p + s) + q
  <2>1. Len(code) = Len(start) + Len(no)
    BY <1>2, <1>8, ConcatLaid, Zenon
  <2> QED
    BY <1>1, <1>8, <2>1
<1>10. PICK dy \in [Int -> Nat] : dy[1] = k /\ dy[p+1] = k /\ Flow(yes, dy, w, n)
  BY <1>1 DEF Follows
<1>11. PICK dn \in [Int -> Nat] : dn[1] = k /\ dn[q+1] = k /\ Flow(no, dn, w, n)
  BY <1>1 DEF Follows
<1>12a. PICK D, E1, E2, E3 : IfDepth(D, E1, E2, E3, k, p, q, s, dy, dn)
  BY <1>10, <1>11, IfDepths
<1>12. /\ D \in [Int -> Nat] /\ D[1] = k + 1 /\ D[4] = k /\ D[4 + (p + s)] = k
       /\ D[3 + (p + s) + q + 1] = k
  BY <1>12a DEF IfDepth
<1>13. s = 3 => E2[1] = k /\ E2[4 + q] = k
  BY <1>12a DEF IfDepth
<1>14. \A t \in 1..p+1 : E1[t] = dy[t]
  BY <1>12a DEF IfDepth
<1>15. \A t \in 1..q+1 : E3[t] = dn[t]
  BY <1>12a DEF IfDepth
<1>16. /\ \A t \in Int : E1[t] = D[Len(jez) + t]
       /\ \A t \in Int : E2[t] = E1[Len(yes) + t]
       /\ \A t \in Int : E3[t] = D[Len(start) + t]
  <2>1. /\ \A t \in Int : E1[t] = D[3 + t]
        /\ \A t \in Int : E2[t] = E1[p + t]
        /\ \A t \in Int : E3[t] = D[3 + (p + s) + t]
    BY <1>12a DEF IfDepth
  <2> QED
    BY <1>1, <1>7, <1>8, <2>1, Zenon
<1>18. Flow(yes, E1, w, n)
  <2>1. \A t \in 1..Len(yes)+1 : E1[t] = dy[t]
    BY <1>1, <1>14
  <2> QED
    BY <1>10, <2>1, FlowSame
<1>19. Flow(skip, E2, w, n)
  <2>1. CASE s = 0
    <3>1. Starts(skip) = {}
      <4>1. DOMAIN <<>> = {}
        OBVIOUS
      <4> QED
        BY <1>3, <2>1, <4>1 DEF Starts
    <3> QED
      BY <3>1 DEF Flow
  <2>2. CASE s = 3
    <3>1. E2[1] = k /\ E2[4 + q] = k
      BY <1>13, <2>2
    <3> QED
      BY <1>3, <2>2, <3>1, JumpFlow
  <2> QED
    BY <2>1, <2>2
<1>20. Flow(taken, E1, w, n)
  BY <1>2, <1>3, <1>16, <1>18, <1>19, FlowConcat DEF taken
<1>21. Flow(jez, D, w, n)
  BY <1>6, <1>12, BranchFlow
<1>22. Flow(start, D, w, n)
  BY <1>4, <1>7, <1>16, <1>20, <1>21, FlowConcat DEF start
<1>23. Flow(no, E3, w, n)
  <2>1. \A t \in 1..Len(no)+1 : E3[t] = dn[t]
    BY <1>1, <1>15
  <2> QED
    BY <1>11, <2>1, FlowSame
<1>24. Flow(code, D, w, n)
  BY <1>2, <1>8, <1>16, <1>22, <1>23, FlowConcat
<1>25. D[Len(code) + 1] = k
  BY <1>9, <1>12
<1>26. Threaded(code, {})
  <2> DEFINE X  == IF s = 3 THEN {4} ELSE {}
             X1 == {} \cup Further(p, X)
             X2 == {} \cup Further(3, X1)
             X3 == X2 \cup Further(3 + (p + s), {})
  <2>1. Threaded(skip, X)
    <3>1. CASE s = 0
      <4>1. Threaded(<<>>, {})
        BY FollowsEmpty DEF Follows
      <4> QED
        BY <1>3, <3>1, <4>1
    <3>2. CASE s = 3
      BY <1>3, <3>2, JumpThreaded DEF JumpOps
    <3> QED
      BY <3>1, <3>2
  <2>2. Threaded(yes, {}) /\ Threaded(no, {})
    BY DEF Follows
  <2>3. X \subseteq {4} /\ (s # 3 => X = {})
    OBVIOUS
  <2> HIDE DEF X
  <2>4. Threaded(taken, X1)
    BY <1>1, <1>2, <1>3, <2>1, <2>2, ThreadedConcat DEF taken
  <2>5. Threaded(jez, {})
    BY <1>6, JumpThreaded
  <2>6. \A t \in X1 : t \in Int /\ t - p \in X
    BY DEF Further
  <2> HIDE DEF X1
  <2>7. Threaded(start, X2)
    BY <1>4, <1>7, <2>4, <2>5, ThreadedConcat DEF start
  <2>8. \A t \in X2 : t \in Int /\ t - 3 \in X1
    BY DEF Further
  <2> HIDE DEF X2
  <2>9. Threaded(code, X3)
    BY <1>2, <1>8, <2>2, <2>7, ThreadedConcat
  <2>10. \A t \in X3 : t \in X2
    BY DEF Further
  <2> HIDE DEF X3, code
  <2>11. ASSUME NEW t \in X3 PROVE Reached(code, t)
    <3>1. t \in Int /\ t - 3 \in Int /\ (t - 3) - p \in X
      BY <2>6, <2>8, <2>10
    <3>2. t = 4 + (p + s) /\ s = 3
      <4>1. s = 3 /\ (t - 3) - p = 4
        BY <2>3, <3>1
      <4> QED
        BY <3>1, <4>1
    <3>3. 1 < 4 + (p + s)
      BY <3>2
    <3>4. Reached(jez, t)
      BY <1>7, <3>2, <3>3 DEF Reached
    <3>5. Reached(start, t)
      BY <1>4, <1>7, <3>4, ReachedConcat DEF start
    <3> QED
      BY <1>2, <1>8, <3>5, ReachedConcat DEF code
  <2> QED
    BY <2>9, <2>11 DEF Threaded
<1> HIDE DEF code
<1> QED
  BY <1>5, <1>12, <1>24, <1>25, <1>26 DEF Follows

(* The depths along a while statement, seen from where its parts begin: its *)
(* condition has p bytes and its body q.                                    *)
WhileDepth(D, E1, E2, E3, k, p, q, dc, db) ==
  /\ D \in [Int -> Nat]
  /\ D[1] = k /\ D[p + 3 + q + 4] = k
  /\ \A t \in 1..p+1 : D[t] = dc[t]
  /\ E1[1] = k + 1 /\ E1[4] = k /\ E1[4 + (q + 3)] = k
  /\ \A t \in 1..q+1 : E2[t] = db[t]
  /\ E3[1] = k /\ E3[4 - (p + q + 6)] = k
  /\ \A t \in Int : E1[t] = D[p + t]
  /\ \A t \in Int : E2[t] = D[p + 3 + t]
  /\ \A t \in Int : E3[t] = D[p + 3 + q + t]

LEMMA WhileDepths ==
  ASSUME NEW k \in Nat, NEW p \in Nat, NEW q \in Nat,
         NEW dc \in [Int -> Nat], dc[1] = k, dc[p+1] = k + 1,
         NEW db \in [Int -> Nat], db[1] = k, db[q+1] = k
  PROVE  \E D, E1, E2, E3 : WhileDepth(D, E1, E2, E3, k, p, q, dc, db)
<1> DEFINE r == p + 3
           D  == [t \in Int |-> IF t <= p + 1 THEN dc[t] ELSE IF t <= r + q THEN db[t - r] ELSE k]
           E1 == Later(D, p)
           E2 == Later(D, r)
           E3 == Later(D, r + q)
<1>1. r \in Nat /\ r = p + 3
  OBVIOUS
<1> HIDE DEF r
<1>2. \A t \in Int : D[t] = IF t <= p + 1 THEN dc[t] ELSE IF t <= r + q THEN db[t - r] ELSE k
  OBVIOUS
<1>3. D \in [Int -> Nat]
  <2>1. ASSUME NEW t \in Int
        PROVE (IF t <= p + 1 THEN dc[t] ELSE IF t <= r + q THEN db[t - r] ELSE k) \in Nat
    <3>1. t - r \in Int
      BY <1>1
    <3> QED
      BY <3>1
  <2> QED
    BY <2>1
<1> HIDE DEF D
<1>4. \A t \in Int : p + t \in Int /\ r + t \in Int /\ r + q + t \in Int
  BY <1>1
<1>5. /\ \A t \in Int : E1[t] = D[p + t]
      /\ \A t \in Int : E2[t] = D[r + t]
      /\ \A t \in Int : E3[t] = D[r + q + t]
  BY <1>3, <1>4 DEF Later
<1> HIDE DEF E1, E2, E3
<1>6. ASSUME NEW t \in 1..p+1 PROVE D[t] = dc[t]
  BY <1>2
<1>7. ASSUME NEW t \in Int, t > r + q PROVE D[t] = k
  BY <1>1, <1>2, <1>7
<1>8. ASSUME NEW t \in 1..q+1 PROVE E2[t] = db[t]
  <2>1. t \in Int /\ E2[t] = D[r + t]
    BY <1>5
  <2>2. CASE t = q + 1
    <3>1. r + t \in Int /\ r + t > r + q
      BY <1>1, <2>2
    <3> QED
      BY <1>7, <2>1, <2>2, <3>1
  <2>3. CASE t # q + 1
    <3>1. r + t \in Int /\ ~(r + t <= p + 1) /\ r + t <= r + q /\ (r + t) - r = t
      BY <1>1, <2>3
    <3> QED
      BY <1>2, <2>1, <3>1
  <2> QED
    BY <2>2, <2>3
<1>9. D[1] = k
  BY <1>6
<1>10. E1[1] = k + 1
  <2>1. E1[1] = D[p + 1]
    BY <1>5
  <2> QED
    BY <1>6, <2>1
<1>11. E1[4] = k
  <2>1. E1[4] = D[p + 4] /\ E2[1] = D[r + 1]
    BY <1>5
  <2>2. p + 4 = r + 1 /\ 1 \in 1..q+1
    BY <1>1
  <2> QED
    BY <1>8, <2>1, <2>2
<1>12. E1[4 + (q + 3)] = k
  <2>1. 4 + (q + 3) \in Int
    OBVIOUS
  <2>2. E1[4 + (q + 3)] = D[p + (4 + (q + 3))]
    BY <1>5, <2>1
  <2>3. p + (4 + (q + 3)) \in Int /\ p + (4 + (q + 3)) > r + q
    BY <1>1
  <2> QED
    BY <1>7, <2>2, <2>3
<1>13. E3[1] = k
  <2>1. E3[1] = D[r + q + 1]
    BY <1>5
  <2>2. r + q + 1 \in Int /\ r + q + 1 > r + q
    BY <1>1
  <2> QED
    BY <1>7, <2>1, <2>2
<1>14. E3[4 - (p + q + 6)] = k
  <2>1. 4 - (p + q + 6) \in Int
    OBVIOUS
  <2>2. E3[4 - (p + q + 6)] = D[r + q + (4 - (p + q + 6))]
    BY <1>5, <2>1
  <2>3. r + q + (4 - (p + q + 6)) = 1
    BY <1>1
  <2> QED
    BY <1>9, <2>2, <2>3
<1>15. D[p + 3 + q + 4] = k
  <2>1. p + 3 + q + 4 \in Int /\ p + 3 + q + 4 > r + q
    BY <1>1
  <2> QED
    BY <1>7, <2>1
<1>16. /\ \A t \in Int : E2[t] = D[p + 3 + t]
       /\ \A t \in Int : E3[t] = D[p + 3 + q + t]
  BY <1>1, <1>5
<1> QED
  <2>1. WhileDepth(D, E1, E2, E3, k, p, q, dc, db)
    BY <1>3, <1>5, <1>6, <1>8, <1>9, <1>10, <1>11, <1>12, <1>13, <1>14, <1>15, <1>16 DEF WhileDepth
  <2> QED
    BY <2>1

(* A while statement leaves the stack as it was.                           *)
LEMMA WhileCodeFollows ==
  ASSUME NEW cond, NEW body, Whole(cond), Whole(body), Len(cond) + Len(body) + 6 < ByteRange,
         NEW k \in Nat, NEW w, 4 * k <= w, NEW n,
         Follows(cond, k, k + 1, w, n), Follows(body, k, k, w, n)
  PROVE  Follows(WhileCode(cond, body), k, k, w, n)
<1> DEFINE jez == Encode("JEZ", LowByte(Len(body) + 3))
           back == Encode("RJMP", LowByte(Len(cond) + Len(body) + 6))
           test == cond \o jez
           loop == test \o body
           code == loop \o back
<1>1. PICK p \in Nat, q \in Nat : p = Len(cond) /\ q = Len(body)
  BY WholeParts DEF Whole
<1>2. Laid(cond, Instruction) /\ Laid(body, Instruction) /\ Instruction \subseteq [op : Opcodes, arg : Nat]
  BY DEF Whole, Instruction
<1>3. WhileCode(cond, body) = code
  BY DEF WhileCode
<1>4. jez = Encode("JEZ", q + 3) /\ back = Encode("RJMP", p + q + 6)
  <2>1. ByteRange \in Nat /\ q + 3 \in Nat /\ p + q + 6 \in Nat
    BY BytesAssumption
  <2>2. q + 3 < ByteRange /\ p + q + 6 < ByteRange
    BY <1>1, <2>1
  <2>3. LowByte(q + 3) = q + 3
    BY <2>1, <2>2, LowByteIs
  <2>4. LowByte(p + q + 6) = p + q + 6
    BY <2>1, <2>2, LowByteIs
  <2> QED
    BY <1>1, <2>3, <2>4
<1> HIDE DEF jez, back
<1>5. /\ Laid(jez, Instruction) /\ Len(jez) = 3 /\ 1 \in Starts(jez)
      /\ 4 + (q + 3) \in Successors(jez, 1)
  BY <1>4, JumpSuccessors DEF JumpOps
<1>6. Laid(back, Instruction) /\ Len(back) = 3
  BY <1>4, JumpSuccessors DEF JumpOps
<1>7. Laid(test, Instruction) /\ Len(test) = p + 3
  <2>1. Laid(test, Instruction) /\ Len(test) = Len(cond) + Len(jez)
    BY <1>2, <1>5, ConcatLaid, Zenon
  <2> QED
    BY <1>1, <1>5, <2>1
<1> HIDE DEF test
<1>8. Laid(loop, Instruction) /\ Len(loop) = p + 3 + q
  <2>1. Laid(loop, Instruction) /\ Len(loop) = Len(test) + Len(body)
    BY <1>2, <1>7, ConcatLaid, Zenon
  <2> QED
    BY <1>1, <1>7, <2>1
<1> HIDE DEF loop
<1>9. Len(code) = p + 3 + q + 3
  <2>1. Len(code) = Len(loop) + Len(back)
    BY <1>2, <1>6, <1>8, ConcatLaid, Zenon
  <2> QED
    BY <1>6, <1>8, <2>1
<1>10. PICK dc \in [Int -> Nat] : dc[1] = k /\ dc[p+1] = k + 1 /\ Flow(cond, dc, w, n)
  BY <1>1 DEF Follows
<1>11. PICK db \in [Int -> Nat] : db[1] = k /\ db[q+1] = k /\ Flow(body, db, w, n)
  BY <1>1 DEF Follows
<1>12. PICK D, E1, E2, E3 : WhileDepth(D, E1, E2, E3, k, p, q, dc, db)
  BY <1>10, <1>11, WhileDepths
<1>13. /\ D \in [Int -> Nat] /\ D[1] = k /\ D[p + 3 + q + 4] = k
       /\ E1[1] = k + 1 /\ E1[4] = k /\ E1[4 + (q + 3)] = k
       /\ E3[1] = k /\ E3[4 - (p + q + 6)] = k
  BY <1>12 DEF WhileDepth
<1>14. \A t \in 1..p+1 : D[t] = dc[t]
  BY <1>12 DEF WhileDepth
<1>15. \A t \in 1..q+1 : E2[t] = db[t]
  BY <1>12 DEF WhileDepth
<1>16. /\ \A t \in Int : E1[t] = D[Len(cond) + t]
       /\ \A t \in Int : E2[t] = D[Len(test) + t]
       /\ \A t \in Int : E3[t] = D[Len(loop) + t]
  <2>1. /\ \A t \in Int : E1[t] = D[p + t]
        /\ \A t \in Int : E2[t] = D[p + 3 + t]
        /\ \A t \in Int : E3[t] = D[p + 3 + q + t]
    BY <1>12 DEF WhileDepth
  <2> QED
    BY <1>1, <1>7, <1>8, <2>1, Zenon
<1>17. Flow(cond, D, w, n)
  <2>1. \A t \in 1..Len(cond)+1 : D[t] = dc[t]
    BY <1>1, <1>14
  <2> QED
    BY <1>10, <2>1, FlowSame
<1>18. Flow(jez, E1, w, n)
  <2>1. q + 3 \in Nat
    OBVIOUS
  <2> QED
    BY <1>4, <1>13, <2>1, BranchFlow
<1>19. Flow(test, D, w, n)
  BY <1>2, <1>5, <1>16, <1>17, <1>18, FlowConcat DEF test
<1>20. Flow(body, E2, w, n)
  <2>1. \A t \in 1..Len(body)+1 : E2[t] = db[t]
    BY <1>1, <1>15
  <2> QED
    BY <1>11, <2>1, FlowSame
<1>21. Flow(loop, D, w, n)
  BY <1>2, <1>7, <1>16, <1>19, <1>20, FlowConcat DEF loop
<1>22. Flow(back, E3, w, n)
  <2>1. p + q + 6 \in Nat
    OBVIOUS
  <2>2. E3[IF "RJMP" = "JMP" THEN 4 + (p + q + 6) ELSE 4 - (p + q + 6)] = k
    BY <1>13
  <2> QED
    BY <1>4, <1>13, <2>1, <2>2, JumpFlow
<1>23. Flow(code, D, w, n)
  BY <1>6, <1>8, <1>16, <1>21, <1>22, FlowConcat
<1>24. D[Len(code) + 1] = k
  <2>1. p + 3 + q + 3 + 1 = p + 3 + q + 4
    OBVIOUS
  <2> QED
    BY <1>9, <1>13, <2>1
<1>25. Threaded(code, {})
  <2> DEFINE X1 == {} \cup Further(p, {})
             X2 == X1 \cup Further(p + 3, {})
             X3 == X2 \cup Further(p + 3 + q, {4})
  <2>1. Threaded(cond, {}) /\ Threaded(body, {})
    BY DEF Follows
  <2>2. Threaded(jez, {})
    BY <1>4, JumpThreaded
  <2>3. Threaded(back, {4})
    BY <1>4, JumpThreaded DEF JumpOps
  <2>4. Threaded(test, X1)
    BY <1>1, <1>2, <1>5, <2>1, <2>2, ThreadedConcat DEF test
  <2>5. Threaded(loop, X2)
    BY <1>2, <1>7, <2>1, <2>4, ThreadedConcat DEF loop
  <2>6. Threaded(code, X3)
    BY <1>6, <1>8, <2>3, <2>5, ThreadedConcat
  <2>7. \A t \in X3 : t \in Int /\ t - (p + 3 + q) = 4
    BY DEF Further
  <2> HIDE DEF X3, code
  <2>8. ASSUME NEW t \in X3 PROVE Reached(code, t)
    <3>1. t = p + (4 + (q + 3)) /\ 1 < 4 + (q + 3) /\ 4 + (q + 3) \in Int
      <4>1. t \in Int /\ t - (p + 3 + q) = 4
        BY <2>7
      <4> QED
        BY <4>1
    <3>2. Reached(jez, 4 + (q + 3))
      BY <1>5, <3>1 DEF Reached
    <3>3. Reached(test, t)
      BY <1>1, <1>2, <1>5, <3>1, <3>2, ReachedConcat DEF test
    <3>4. Reached(loop, t)
      BY <1>2, <1>7, <3>3, ReachedConcat DEF loop
    <3> QED
      BY <1>6, <1>8, <3>4, ReachedConcat DEF code
  <2> QED
    BY <2>6, <2>8 DEF Threaded
<1> HIDE DEF code
<1> QED
  BY <1>3, <1>13, <1>23, <1>24, <1>25 DEF Follows

-----------------------------------------------------------------------------
(* What the compiler books for code, and the depths of that code.          *)

LEMMA CountedParts ==
  ASSUME NEW s, NEW cell
  PROVE  /\ Counted(s, cell).size = (s.size + StackInc(cell.op)) % SizeRange
         /\ Counted(s, cell).max = Raised(s.max, Counted(s, cell).size)
BY DEF Counted

LEMMA TrackRaises ==
  ASSUME NEW size \in 0..SizeRange-1, NEW max \in 0..SizeRange-1, NEW code \in Seq(Cell)
  PROVE  max <= Track(size, max, code).max
<1>1. PICK l \in Nat : l = Len(code)
  OBVIOUS
<1>2. PICK t : Tracked(t, l, size, max, code) /\ Track(size, max, code) = t[l]
  BY <1>1, TrackUnfold
<1> DEFINE S == {n \in Nat : n <= l => t[n] \in Sizing /\ max <= t[n].max}
<1>3. 0 \in S
  <2>1. t[0] = Sizes(size, max)
    BY <1>2 DEF Tracked
  <2>2. Sizes(size, max) \in Sizing /\ Sizes(size, max).max = max
    BY DEF Sizes, Sizing
  <2> QED
    BY <2>1, <2>2
<1>4. ASSUME NEW n \in Nat, n \in S PROVE n + 1 \in S
  <2> SUFFICES ASSUME n + 1 <= l PROVE t[n+1] \in Sizing /\ max <= t[n+1].max
    OBVIOUS
  <2>1. n + 1 \in 0..l /\ n + 1 # 0 /\ n + 1 - 1 = n /\ n <= l
    OBVIOUS
  <2>2. t[n+1] = Counted(t[n], code[n+1])
    BY <1>2, <2>1 DEF Tracked
  <2>3. t[n] \in Sizing /\ max <= t[n].max
    BY <1>4, <2>1
  <2>4. t[n+1] \in Sizing
    BY <2>2, <2>3, CountedTyped
  <2>5. t[n+1].max = Raised(t[n].max, t[n+1].size)
    BY <2>2, CountedParts
  <2>6. t[n+1].size \in Int /\ t[n+1].max \in Int /\ t[n].max \in Int
    BY <2>3, <2>4, SizeRangePositive DEF Sizing
  <2> QED
    BY <2>3, <2>4, <2>5, <2>6 DEF Raised
<1> HIDE DEF S
<1>5. \A n \in Nat : n \in S
  BY <1>3, <1>4, Induction
<1>6. max <= t[l].max
  <2>1. l \in S
    BY <1>5
  <2> QED
    BY <2>1 DEF S
<1> QED
  BY <1>2, <1>6

LEMMA TrackConcat ==
  ASSUME NEW size \in 0..SizeRange-1, NEW max \in 0..SizeRange-1,
         NEW a \in Seq(Cell), NEW b \in Seq(Cell), NEW T, T = Track(size, max, a)
  PROVE  Track(size, max, a \o b) = Track(T.size, T.max, b)
<1>1. PICK l \in Nat, k \in Nat : l = Len(a) /\ k = Len(b)
  OBVIOUS
<1>2. PICK c : c = a \o b
  OBVIOUS
<1>3. /\ l + k = Len(c) /\ l + k \in Nat
      /\ \A i \in 1..l : c[i] = a[i]
      /\ \A i \in 1..k : c[l + i] = b[i]
  BY <1>1, <1>2
<1>4. PICK t : Tracked(t, l, size, max, a) /\ Track(size, max, a) = t[l]
  BY <1>1, TrackUnfold
<1>5. PICK u : Tracked(u, k, T.size, T.max, b) /\ Track(T.size, T.max, b) = u[k]
  BY <1>1, TrackUnfold
<1>6. PICK v : Tracked(v, l + k, size, max, c) /\ Track(size, max, c) = v[l + k]
  BY <1>3, TrackUnfold
<1>7. T = Sizes(T.size, T.max)
  <2>1. T \in Sizing
    BY TrackTyped
  <2> QED
    BY <2>1 DEF Sizing, Sizes
<1> DEFINE S == {n \in Nat : n <= l => v[n] = t[n]}
<1>8. 0 \in S
  BY <1>4, <1>6 DEF Tracked
<1>9. ASSUME NEW n \in Nat, n \in S PROVE n + 1 \in S
  <2> SUFFICES ASSUME n + 1 <= l PROVE v[n+1] = t[n+1]
    OBVIOUS
  <2>1. n + 1 \in 0..l /\ n + 1 \in 0..l+k /\ n + 1 # 0 /\ n + 1 - 1 = n /\ n + 1 \in 1..l
    OBVIOUS
  <2>2. t[n+1] = Counted(t[n], a[n+1])
    BY <1>4, <2>1 DEF Tracked
  <2>3. v[n+1] = Counted(v[n], c[n+1])
    BY <1>6, <2>1 DEF Tracked
  <2>4. v[n] = t[n]
    BY <1>9, <2>1
  <2>5. c[n+1] = a[n+1]
    BY <1>3, <2>1
  <2> QED
    BY <2>2, <2>3, <2>4, <2>5
<1>10. v[l] = t[l]
  <2> HIDE DEF S
  <2>1. \A n \in Nat : n \in S
    BY <1>8, <1>9, Induction
  <2>2. l \in S
    BY <2>1
  <2> QED
    BY <2>2 DEF S
<1> HIDE DEF S
<1> DEFINE R == {n \in Nat : n <= k => v[l + n] = u[n]}
<1>11. 0 \in R
  <2>1. u[0] = T
    BY <1>5, <1>7 DEF Tracked
  <2>2. v[l + 0] = T
    BY <1>4, <1>10
  <2> QED
    BY <2>1, <2>2
<1>12. ASSUME NEW n \in Nat, n \in R PROVE n + 1 \in R
  <2> SUFFICES ASSUME n + 1 <= k PROVE v[l + (n+1)] = u[n+1]
    OBVIOUS
  <2>1. /\ n + 1 \in 0..k /\ n + 1 # 0 /\ n + 1 - 1 = n /\ n + 1 \in 1..k
        /\ l + (n + 1) \in 0..l+k /\ l + (n + 1) # 0 /\ (l + (n + 1)) - 1 = l + n
    OBVIOUS
  <2>2. u[n+1] = Counted(u[n], b[n+1])
    BY <1>5, <2>1 DEF Tracked
  <2>3. v[l + (n+1)] = Counted(v[l + n], c[l + (n+1)])
    <3>1. PICK j \in 0..l+k : j = l + (n + 1) /\ j # 0 /\ j - 1 = l + n
      BY <2>1
    <3>2. v[j] = Counted(v[j-1], c[j])
      BY <1>6, <3>1 DEF Tracked
    <3> QED
      BY <3>1, <3>2
  <2>4. v[l + n] = u[n]
    BY <1>12, <2>1
  <2>5. c[l + (n+1)] = b[n+1]
    BY <1>3, <2>1
  <2> QED
    BY <2>2, <2>3, <2>4, <2>5
<1>13. v[l + k] = u[k]
  <2> HIDE DEF R
  <2>1. \A n \in Nat : n \in R
    BY <1>11, <1>12, Induction
  <2>2. k \in R
    BY <2>1
  <2> QED
    BY <2>2 DEF R
<1> QED
  BY <1>2, <1>5, <1>6, <1>13

(* For anything but a jump, the compiler counts what the machine does.     *)
LEMMA CountsTrue ==
  ASSUME NEW op \in Opcodes, op \notin JumpOps
  PROVE  StackInc(op) = 4 * Pushes(op) - 4 * Pops(op)
BY DEF StackInc, Pushes, Pops, Opcodes, JumpOps

LEMMA BookedForInstruction ==
  ASSUME NEW op \in Opcodes, op \notin JumpOps, NEW arg \in Nat,
         NEW s \in 0..SizeRange-1, NEW m \in 0..SizeRange-1, s < ShortRange,
         NEW z \in Nat, z = s + 4 * Pushes(op) - 4 * Pops(op)
  PROVE  Track(s, m, Encode(op, arg)) = Sizes(z, Raised(m, z))
<1>1. PICK c : c = Encode(op, arg)
  OBVIOUS
<1>2. PICK l \in Nat : l = Size(op) /\ l >= 1
  BY OperandsOf
<1>3. c \in Seq(Cell) /\ Len(c) = l /\ c[1].op = op /\ Starts(c) = {1}
  <2>1. c[1] = [op |-> op, arg |-> arg]
    BY <1>1, EncodeParts
  <2>2. c[1].op = op
    BY <2>1
  <2>3. c \in Seq(Cell) /\ Len(c) = l
    BY <1>1, <1>2, EncodeParts
  <2>4. Starts(c) = {1}
    BY <1>1, EncodeParts
  <2> QED
    BY <2>2, <2>3, <2>4
<1>4. PICK t : Tracked(t, l, s, m, c) /\ Track(s, m, c) = t[l]
  BY <1>3, TrackUnfold
<1>5. t[0] = Sizes(s, m)
  BY <1>4 DEF Tracked
<1>6. z \in 0..SizeRange-1
  <2>1. 4 * Pushes(op) - 4 * Pops(op) <= 4
    BY EffectOf
  <2>2. PICK q \in Nat \ {0} : q = ShortRange /\ SizeRange = 16 * q
    BY SizeRangePositive DEF SizeRange
  <2> QED
    BY <2>1, <2>2, EffectOf
<1>7. t[1] = Sizes(z, Raised(m, z))
  <2>1. 1 \in 0..l /\ 1 # 0 /\ 1 - 1 = 0
    BY <1>2
  <2>2. t[1] = Counted(t[0], c[1])
    BY <1>4, <2>1 DEF Tracked
  <2>3. s + StackInc(op) = z
    BY CountsTrue, EffectOf
  <2>4. z % SizeRange = z
    BY <1>6, SizeRangePositive
  <2>5. t[0].size = s /\ t[0].max = m
    BY <1>5 DEF Sizes
  <2> QED
    BY <1>3, <2>2, <2>3, <2>4, <2>5 DEF Counted, Sizes
<1> DEFINE S == {n \in Nat : n + 1 <= l => t[n+1] = Sizes(z, Raised(m, z))}
<1>8. 0 \in S
  BY <1>7
<1>9. ASSUME NEW n \in Nat, n \in S PROVE n + 1 \in S
  <2> SUFFICES ASSUME (n + 1) + 1 <= l PROVE t[(n+1)+1] = Sizes(z, Raised(m, z))
    OBVIOUS
  <2>1. PICK j \in 2..l : j = (n + 1) + 1 /\ j - 1 = n + 1
    OBVIOUS
  <2>2. t[j] = Counted(t[n+1], c[j])
    BY <1>4, <2>1 DEF Tracked
  <2>3. t[n+1] = Sizes(z, Raised(m, z))
    BY <1>9
  <2>4. c[j].op = "OPERAND"
    <3>1. j \in DOMAIN c /\ j # 1
      BY <1>3, <2>1
    <3> QED
      BY <1>3, <3>1 DEF Starts
  <2>5. StackInc("OPERAND") = 0
    BY DEF StackInc
  <2>6. (z + 0) % SizeRange = z
    BY <1>6, SizeRangePositive
  <2>7. Raised(Raised(m, z), z) = Raised(m, z)
    BY DEF Raised
  <2> QED
    BY <2>1, <2>2, <2>3, <2>4, <2>5, <2>6, <2>7 DEF Counted, Sizes
<1>10. t[l] = Sizes(z, Raised(m, z))
  <2> HIDE DEF S
  <2>1. \A n \in Nat : n \in S
    BY <1>8, <1>9, Induction
  <2>2. PICK p \in Nat : p + 1 = l
    <3>1. l - 1 \in Nat /\ (l - 1) + 1 = l
      BY <1>2
    <3> QED
      BY <3>1
  <2>3. p \in S
    BY <2>1
  <2> QED
    BY <2>2, <2>3 DEF S
<1> QED
  BY <1>1, <1>4, <1>10

(* The sizes s and T booked before and after code that goes from depth b   *)
(* to depth e: it fits in what is booked at most.                          *)
Pays(code, b, e, n, s, T) ==
  /\ T.size = s + 4 * e - 4 * b /\ T.size <= T.max
  /\ Follows(code, b, e, 4 * b + T.max - s, n)

Prices(code, b, e, n, s, m) ==
  4 * b <= s /\ s <= m /\ Track(s, m, code).max < ShortRange
    => Pays(code, b, e, n, s, Track(s, m, code))

Priced(code, b, e, n) ==
  Whole(code) /\ \A s, m \in 0..SizeRange-1 : Prices(code, b, e, n, s, m)

LEMMA PricedInstruction ==
  ASSUME NEW op \in Opcodes, op \notin JumpOps, NEW arg \in Nat, NEW b \in Nat, NEW e \in Nat,
         b >= Pops(op), e = b - Pops(op) + Pushes(op), NEW n, op = "CALL" => b >= n
  PROVE  Priced(Encode(op, arg), b, e, n)
<1>1. PICK c : c = Encode(op, arg)
  OBVIOUS
<1>2. Whole(c)
  <2>1. 4 * e <= 4 * e
    OBVIOUS
  <2> QED
    BY <1>1, <2>1, EncodeFollows
<1>3. ASSUME NEW s \in 0..SizeRange-1, NEW m \in 0..SizeRange-1,
             4 * b <= s, s <= m, Track(s, m, c).max < ShortRange
      PROVE  Pays(c, b, e, n, s, Track(s, m, c))
  <2>1. PICK T \in Sizing : T = Track(s, m, c) /\ m <= T.max
    <3>1. c \in Seq(Cell)
      BY <1>1, EncodeParts
    <3> QED
      BY <3>1, TrackTyped, TrackRaises
  <2>2. T.max \in Nat /\ T.size \in Nat /\ s \in Nat /\ m \in Nat
    BY <2>1, SizeRangePositive DEF Sizing
  <2>3. s < ShortRange
    BY <1>3, <2>1, <2>2, SizeRangePositive
  <2>4. PICK p \in 0..2, q \in 0..1 : p = Pops(op) /\ q = Pushes(op)
    BY EffectOf
  <2>5. PICK z \in Nat : z = s + 4 * q - 4 * p /\ z = s + 4 * e - 4 * b
    <3>1. s + 4 * q - 4 * p \in Nat
      BY <1>3, <2>2, <2>4
    <3> QED
      BY <2>4, <3>1
  <2>6. T = Sizes(z, Raised(m, z))
    BY <1>1, <2>1, <2>3, <2>4, <2>5, BookedForInstruction
  <2>7. T.size = z /\ T.max = Raised(m, z)
    BY <2>6 DEF Sizes
  <2>8. z <= T.max
    BY <2>2, <2>7 DEF Raised
  <2>9. 4 * e <= 4 * b + T.max - s
    BY <2>2, <2>5, <2>8
  <2>10. Follows(c, b, e, 4 * b + T.max - s, n)
    BY <1>1, <2>9, EncodeFollows
  <2> QED
    BY <2>1, <2>5, <2>7, <2>8, <2>10 DEF Pays
<1> QED
  BY <1>1, <1>2, <1>3 DEF Priced, Prices

LEMMA PricedEmpty ==
  ASSUME NEW b \in Nat, NEW n
  PROVE  Priced(<<>>, b, b, n)
<1>1. Whole(<<>>)
  BY FollowsEmpty
<1>2. ASSUME NEW s \in 0..SizeRange-1, NEW m \in 0..SizeRange-1, s <= m
      PROVE  Pays(<<>>, b, b, n, s, Track(s, m, <<>>))
  <2>1. Len(<<>>) = 0
    OBVIOUS
  <2>2. PICK t : Tracked(t, 0, s, m, <<>>) /\ Track(s, m, <<>>) = t[0]
    BY <2>1, TrackUnfold
  <2>3. t[0] = Sizes(s, m)
    BY <2>2 DEF Tracked
  <2>4. Follows(<<>>, b, b, 4 * b + m - s, n)
    BY FollowsEmpty
  <2>5. Sizes(s, m).size = s /\ Sizes(s, m).max = m
    BY DEF Sizes
  <2>6. s = s + 4 * b - 4 * b
    BY SizeRangePositive
  <2> QED
    BY <1>2, <2>2, <2>3, <2>4, <2>5, <2>6 DEF Pays
<1> QED
  BY <1>1, <1>2 DEF Priced, Prices

LEMMA WholeConcat ==
  ASSUME NEW a, NEW b, Whole(a), Whole(b)
  PROVE  Whole(a \o b)
<1>1. Instruction \subseteq [op : Opcodes, arg : Nat]
  BY DEF Instruction
<1>2. Laid(a, Instruction) /\ Laid(b, Instruction) /\ Lands(a) /\ Lands(b)
  BY DEF Whole
<1>3. Laid(a \o b, Instruction)
  BY <1>1, <1>2, ConcatLaid
<1>4. Lands(a \o b)
  BY <1>1, <1>2, ConcatLands
<1> QED
  BY <1>3, <1>4 DEF Whole

LEMMA PricedConcat ==
  ASSUME NEW a, NEW b, NEW x \in Nat, NEW y \in Nat, NEW z \in Nat, NEW n,
         Priced(a, x, y, n), Priced(b, y, z, n)
  PROVE  Priced(a \o b, x, z, n)
<1>1. Whole(a) /\ Whole(b) /\ Whole(a \o b)
  BY WholeConcat DEF Priced
<1>2. a \in Seq(Cell) /\ b \in Seq(Cell)
  BY <1>1, WholeParts DEF Whole
<1>3. ASSUME NEW s \in 0..SizeRange-1, NEW m \in 0..SizeRange-1,
             4 * x <= s, s <= m, Track(s, m, a \o b).max < ShortRange
      PROVE  Pays(a \o b, x, z, n, s, Track(s, m, a \o b))
  <2>1. PICK T \in Sizing : T = Track(s, m, a)
    BY <1>2, TrackTyped
  <2>2. T.size \in 0..SizeRange-1 /\ T.max \in 0..SizeRange-1
    BY <2>1 DEF Sizing
  <2>3. PICK U \in Sizing : U = Track(T.size, T.max, b) /\ T.max <= U.max
    BY <1>2, <2>2, TrackTyped, TrackRaises
  <2>4. Track(s, m, a \o b) = U
    BY <1>2, <2>1, <2>3, TrackConcat
  <2>5. T.max \in Nat /\ T.size \in Nat /\ U.max \in Nat /\ U.size \in Nat /\ s \in Nat /\ m \in Nat
    BY <2>1, <2>3, SizeRangePositive DEF Sizing
  <2>6. T.max < ShortRange
    BY <1>3, <2>3, <2>4, <2>5, SizeRangePositive
  <2>7. Pays(a, x, y, n, s, T)
    BY <1>3, <2>1, <2>6 DEF Priced, Prices
  <2>8. T.size = s + 4 * y - 4 * x /\ T.size <= T.max /\ 4 * y <= T.size
    BY <1>3, <2>5, <2>7 DEF Pays
  <2>9. Pays(b, y, z, n, T.size, U)
    BY <1>3, <2>2, <2>3, <2>4, <2>8 DEF Priced, Prices
  <2>10. U.size = T.size + 4 * z - 4 * y /\ U.size <= U.max
    BY <2>9 DEF Pays
  <2>11. 4 * y + U.max - T.size = 4 * x + U.max - s
    BY <2>5, <2>8
  <2>12. Follows(b, y, z, 4 * x + U.max - s, n)
    BY <2>9, <2>11 DEF Pays
  <2>13. 4 * x + T.max - s \in Int /\ 4 * x + U.max - s \in Int
         /\ 4 * x + T.max - s <= 4 * x + U.max - s
    BY <2>3, <2>5
  <2>14. Follows(a, x, y, 4 * x + U.max - s, n)
    <3>1. Follows(a, x, y, 4 * x + T.max - s, n)
      BY <2>7 DEF Pays
    <3> QED
      BY <1>1, <2>13, <3>1, FollowsMore
  <2>15. Follows(a \o b, x, z, 4 * x + U.max - s, n)
    BY <1>1, <2>12, <2>14, FollowsConcat
  <2>16. U.size = s + 4 * z - 4 * x
    BY <2>5, <2>8, <2>10
  <2> QED
    BY <2>4, <2>10, <2>15, <2>16 DEF Pays
<1> QED
  BY <1>1, <1>3 DEF Priced, Prices

LEMMA PricedDeeper ==
  ASSUME NEW a, NEW x \in Nat, NEW y \in Nat, NEW n \in Nat, NEW k \in Nat, Priced(a, x, y, n)
  PROVE  Priced(a, x + k, y + k, n)
<1>1. Whole(a)
  BY DEF Priced
<1>2. a \in Seq(Cell)
  BY <1>1, WholeParts DEF Whole
<1>3. ASSUME NEW s \in 0..SizeRange-1, NEW m \in 0..SizeRange-1,
             4 * (x + k) <= s, s <= m, Track(s, m, a).max < ShortRange
      PROVE  Pays(a, x + k, y + k, n, s, Track(s, m, a))
  <2>1. PICK T \in Sizing : T = Track(s, m, a)
    BY <1>2, TrackTyped
  <2>2. T.max \in Nat /\ T.size \in Nat /\ s \in Nat /\ m \in Nat
    BY <2>1, SizeRangePositive DEF Sizing
  <2>3. 4 * x <= s
    BY <1>3, <2>2
  <2>4. Pays(a, x, y, n, s, T)
    BY <1>3, <2>1, <2>3 DEF Priced, Prices
  <2>5. Follows(a, x, y, 4 * x + T.max - s, n)
    BY <2>4 DEF Pays
  <2>6. (4 * x + T.max - s) + 4 * k <= 4 * (x + k) + T.max - s
        /\ 4 * x + T.max - s \in Int /\ 4 * (x + k) + T.max - s \in Int
    BY <2>2
  <2>7. Follows(a, x + k, y + k, 4 * (x + k) + T.max - s, n)
    BY <1>1, <2>5, <2>6, FollowsDeeper
  <2>8. T.size = s + 4 * (y + k) - 4 * (x + k) /\ T.size <= T.max
    BY <2>2, <2>4 DEF Pays
  <2> QED
    BY <2>1, <2>7, <2>8 DEF Pays
<1> QED
  BY <1>1, <1>3 DEF Priced, Prices

-----------------------------------------------------------------------------
(* The value of an expression: one word for all that can be traced, and    *)
(* for a call all its arguments.                                           *)

CostsOf(x, l, n) == Priced(x.code, 0, l, n) /\ (Traced(x) => l = 1)

Costs(x, n) == x.type # "absent" /\ \E l \in Nat \ {0} : CostsOf(x, l, n)

AllCost(acc, n) == acc.ok => \A i \in DOMAIN acc.stk : Costs(acc.stk[i], n)

LEMMA NodeCosts ==
  ASSUME NEW T, NEW acc, NEW k \in Nat, acc.stk \in Seq(T), Len(acc.stk) = k,
         NEW p \in 0..k, NEW x, NEW n, \A i \in 1..k : Costs(acc.stk[i], n), Costs(x, n)
  PROVE  AllCost(Node(acc, p, x), n)
<1> DEFINE U == T \cup {x}
           s == acc.stk
<1>1. s \in Seq(U) /\ Len(s) = k /\ x \in U /\ \A i \in 1..k : Costs(s[i], n)
  OBVIOUS
<1>2. Node(acc, p, x).stk = Append(SubSeq(s, 1, k - p), x)
  BY DEF Node
<1> HIDE DEF U, s
<1>3. PICK r \in Seq(U) : r = SubSeq(s, 1, k - p) /\ Len(r) = k - p /\ \A i \in 1..k-p : r[i] = s[i]
  <2>1. SubSeq(s, 1, k - p) \in Seq(U)
    BY <1>1
  <2>2. Len(SubSeq(s, 1, k - p)) = k - p
    BY <1>1
  <2>3. \A i \in 1..k-p : SubSeq(s, 1, k - p)[i] = s[i]
    BY <1>1
  <2> QED
    BY <2>1, <2>2, <2>3
<1>4. PICK q \in Seq(U) : q = Append(r, x)
  <2>1. Append(r, x) \in Seq(U)
    BY <1>1
  <2> QED
    BY <2>1
<1>5. DOMAIN q = 1..k-p+1 /\ q[k-p+1] = x /\ \A i \in 1..k-p : q[i] = r[i]
  BY <1>1, <1>3, <1>4
<1>6. ASSUME NEW i \in DOMAIN q PROVE Costs(q[i], n)
  <2>1. CASE i = k - p + 1
    BY <1>5, <2>1
  <2>2. CASE i # k - p + 1
    <3>1. i \in 1..k-p /\ i \in 1..k
      BY <1>5, <2>2
    <3> QED
      BY <1>1, <1>3, <1>5, <3>1
  <2> QED
    BY <2>1, <2>2
<1>7. Node(acc, p, x).stk = q
  BY <1>2, <1>3, <1>4
<1> QED
  BY <1>6, <1>7 DEF AllCost

LEMMA NodeLast ==
  ASSUME NEW T, NEW acc, NEW k \in Nat, acc.stk \in Seq(T), Len(acc.stk) = k,
         NEW p \in 0..k, NEW x
  PROVE  Last(Node(acc, p, x).stk) = x
<1> DEFINE U == T \cup {x}
           s == acc.stk
<1>1. s \in Seq(U) /\ Len(s) = k /\ x \in U
  OBVIOUS
<1>2. Node(acc, p, x).stk = Append(SubSeq(s, 1, k - p), x)
  BY DEF Node
<1> HIDE DEF U, s
<1>3. PICK r \in Seq(U) : r = SubSeq(s, 1, k - p) /\ Len(r) = k - p
  <2>1. SubSeq(s, 1, k - p) \in Seq(U)
    BY <1>1
  <2>2. Len(SubSeq(s, 1, k - p)) = k - p
    BY <1>1
  <2> QED
    BY <2>1, <2>2
<1>4. PICK q \in Seq(U) : q = Append(r, x)
  <2>1. Append(r, x) \in Seq(U)
    BY <1>1
  <2> QED
    BY <2>1
<1>5. Len(q) = k - p + 1 /\ q[k-p+1] = x
  BY <1>1, <1>3, <1>4
<1>6. Last(q) = x
  BY <1>5 DEF Last
<1> QED
  BY <1>2, <1>3, <1>4, <1>6

(* What a term is made of.                                                 *)
LEMMA TermParts ==
  ASSUME NEW type, NEW code
  PROVE  /\ Term(type, code, TRUE).type = type /\ Term(type, code, TRUE).code = code
         /\ Term(type, code, FALSE).type = type /\ Term(type, code, FALSE).code = code
BY DEF Term

LEMMA TermCosts ==
  ASSUME NEW type, type # "absent", NEW code, NEW n, NEW l \in Nat \ {0},
         Priced(code, 0, l, n), type \in ValueTypes => l = 1
  PROVE  /\ Costs(Term(type, code, TRUE), n) /\ Term(type, code, TRUE).type = type
         /\ Costs(Term(type, code, FALSE), n) /\ Term(type, code, FALSE).type = type
<1>1. ASSUME NEW x, x.type = type, x.code = code PROVE Costs(x, n)
  <2>1. CostsOf(x, l, n)
    BY <1>1 DEF CostsOf, Traced
  <2> QED
    BY <1>1, <2>1 DEF Costs
<1>2. Costs(Term(type, code, TRUE), n)
  <2>1. PICK x : x = Term(type, code, TRUE)
    OBVIOUS
  <2>2. x.type = type /\ x.code = code
    BY <2>1, TermParts, Zenon
  <2>3. Costs(x, n)
    BY <1>1, <2>2
  <2> QED
    BY <2>1, <2>3, Zenon
<1>3. Costs(Term(type, code, FALSE), n)
  <2>1. PICK x : x = Term(type, code, FALSE)
    OBVIOUS
  <2>2. x.type = type /\ x.code = code
    BY <2>1, TermParts, Zenon
  <2>3. Costs(x, n)
    BY <1>1, <2>2
  <2> QED
    BY <2>1, <2>3, Zenon
<1> QED
  BY <1>2, <1>3, TermParts, Zenon

LEMMA LoadPriced ==
  ASSUME NEW op \in {"ILOAD", "FLOAD", "ICONST", "FCONST"}, NEW arg \in Nat, NEW n
  PROVE  Priced(Encode(op, arg), 0, 1, n)
<1>1. op \in Opcodes /\ op \notin JumpOps /\ op # "CALL" /\ Pops(op) = 0 /\ Pushes(op) = 1
  BY DEF Opcodes, JumpOps, Pops, Pushes
<1>2. 0 >= Pops(op) /\ 1 = 0 - Pops(op) + Pushes(op)
  BY <1>1
<1> QED
  BY <1>1, <1>2, PricedInstruction

LEMMA LiteralCosts ==
  ASSUME NEW t \in Nodes, t.tok = "lit", NEW n
  PROVE  Costs(Literal(t), n) /\ Traced(Literal(t))
<1>1. t.type \in ValueTypes /\ t.val \in Nat
  BY DEF Nodes
<1>2. t.type # "absent" /\ ConstOpcode(t.type) \in {"ILOAD", "FLOAD", "ICONST", "FCONST"}
  BY <1>1 DEF ValueTypes, ConstOpcode
<1>3. PICK code : code = Encode(ConstOpcode(t.type), t.val) /\ Priced(code, 0, 1, n)
  BY <1>1, <1>2, LoadPriced
<1>4. Costs(Term(t.type, code, FALSE), n) /\ Term(t.type, code, FALSE).type = t.type
  <2>1. 1 \in Nat \ {0} /\ 1 = 1
    OBVIOUS
  <2> QED
    BY <1>2, <1>3, <2>1, TermCosts, Zenon
<1>5. Costs(Literal(t), n) /\ Literal(t).type = t.type
  BY <1>3, <1>4, Zenon DEF Literal
<1> QED
  BY <1>1, <1>5 DEF Traced

LEMMA IdentCosts ==
  ASSUME ScopesOK(scopes), NEW x, Declared(x), NEW n
  PROVE  Costs(Ident(x), n) /\ Traced(Ident(x))
<1>1. PICK v : v = Lookup(x)
  OBVIOUS
<1>2. v.type \in ValueTypes /\ v.index \in Nat
  BY <1>1, LookupTyped, VarFields
<1>3. Ident(x) = Term(v.type, Encode(LoadOpcode(v.type), v.index), FALSE)
  BY <1>1 DEF Ident
<1>4. v.type # "absent" /\ LoadOpcode(v.type) \in {"ILOAD", "FLOAD", "ICONST", "FCONST"}
  BY <1>2 DEF ValueTypes, LoadOpcode
<1>5. PICK code : code = Encode(LoadOpcode(v.type), v.index) /\ Priced(code, 0, 1, n)
  BY <1>2, <1>4, LoadPriced
<1>6. Costs(Term(v.type, code, FALSE), n) /\ Term(v.type, code, FALSE).type = v.type
  <2>1. 1 \in Nat \ {0} /\ 1 = 1
    OBVIOUS
  <2> QED
    BY <1>4, <1>5, <2>1, TermCosts, Zenon
<1>7. Costs(Ident(x), n) /\ Ident(x).type = v.type
  BY <1>3, <1>5, <1>6, Zenon
<1> QED
  BY <1>2, <1>7 DEF Traced

(* A value widened to another type.                                        *)
LEMMA WidenedPriced ==
  ASSUME NEW n \in Nat, NEW x, Costs(x, n), Traced(x), NEW type
  PROVE  Priced(Widened(x, type), 0, 1, n)
<1>1. Priced(x.code, 0, 1, n)
  BY DEF Costs, CostsOf
<1>2. Priced(Encode("I2F", 0), 1, 1, n)
  <2>1. /\ "I2F" \in Opcodes /\ "I2F" \notin JumpOps /\ "I2F" # "CALL"
        /\ Pops("I2F") = 1 /\ Pushes("I2F") = 1
    BY DEF Opcodes, JumpOps, Pops, Pushes
  <2>2. 1 >= Pops("I2F") /\ 1 = 1 - Pops("I2F") + Pushes("I2F")
    BY <2>1
  <2> QED
    BY <2>1, <2>2, PricedInstruction
<1>3. Priced(x.code \o Encode("I2F", 0), 0, 1, n)
  BY <1>1, <1>2, PricedConcat
<1> QED
  BY <1>1, <1>3 DEF Widened

LEMMA BinaryEffect ==
  ASSUME NEW op, op # "neg"
  PROVE  /\ op \in DOMAIN IntOpcode => Pops(IntOpcode[op]) = 2 /\ Pushes(IntOpcode[op]) = 1
         /\ op \in DOMAIN FloatOpcode => Pops(FloatOpcode[op]) = 2 /\ Pushes(FloatOpcode[op]) = 1
BY DEF IntOpcode, FloatOpcode, Pops, Pushes

LEMMA BinaryCosts ==
  ASSUME NEW n \in Nat, NEW T, NEW acc, NEW k \in Nat, acc.stk \in Seq(T), Len(acc.stk) = k, 2 <= k,
         \A i \in 1..k : Costs(acc.stk[i], n), NEW op, op # "neg"
  PROVE  /\ AllCost(BinaryOp(acc, op), n)
         /\ BinaryOp(acc, op).ok => Traced(Last(BinaryOp(acc, op).stk))
<1> DEFINE l == acc.stk[k-1]
           r == acc.stk[k]
           type == CommonType(l, r)
           opcodes == IF type = "int" THEN IntOpcode ELSE FloatOpcode
           code == Widened(l, type) \o Widened(r, type) \o Encode(opcodes[op], 0)
           x == Term(type, code, TRUE)
<1>1. Costs(l, n) /\ Costs(r, n)
  <2>1. k - 1 \in 1..k /\ k \in 1..k
    OBVIOUS
  <2> QED
    BY <2>1
<1>2. BinaryOp(acc, op) = IF Traced(l) /\ Traced(r) /\ op \in DOMAIN opcodes
                          THEN Node(acc, 2, x) ELSE Failed
  BY DEF BinaryOp
<1>3. CASE ~ (Traced(l) /\ Traced(r) /\ op \in DOMAIN opcodes)
  <2>1. BinaryOp(acc, op) = Failed
    BY <1>2, <1>3
  <2> QED
    BY <2>1 DEF Failed, AllCost
<1>4. CASE Traced(l) /\ Traced(r) /\ op \in DOMAIN opcodes
  <2>1. type \in ValueTypes /\ type # "absent"
    BY <1>4 DEF Traced, CommonType, ValueTypes
  <2>2. PICK oc \in Opcodes : /\ oc = opcodes[op] /\ oc \notin JumpOps /\ oc # "CALL"
                              /\ Pops(oc) = 2 /\ Pushes(oc) = 1
    BY <1>4, OperatorCodes, BinaryEffect
  <2> HIDE DEF type, opcodes, l, r
  <2>3. Priced(Encode(oc, 0), 2, 1, n)
    <3>1. 2 >= Pops(oc) /\ 1 = 2 - Pops(oc) + Pushes(oc)
      BY <2>2
    <3> QED
      BY <2>2, <3>1, PricedInstruction
  <2>4. Priced(Widened(l, type), 0, 1, n)
    BY <1>1, <1>4, WidenedPriced
  <2>5. Priced(Widened(r, type), 1, 2, n)
    <3>1. Priced(Widened(r, type), 0, 1, n)
      BY <1>1, <1>4, WidenedPriced
    <3>2. Priced(Widened(r, type), 0 + 1, 1 + 1, n)
      BY <3>1, PricedDeeper
    <3>3. 0 + 1 = 1 /\ 1 + 1 = 2
      OBVIOUS
    <3> QED
      BY <3>2, <3>3
  <2>6. Priced(Widened(l, type) \o Widened(r, type), 0, 2, n)
    BY <2>4, <2>5, PricedConcat
  <2>7. Priced(code, 0, 1, n)
    BY <2>2, <2>3, <2>6, PricedConcat
  <2> HIDE DEF code
  <2>8. Costs(x, n) /\ Traced(x)
    <3>1. Costs(Term(type, code, TRUE), n) /\ Term(type, code, TRUE).type = type
      <4>1. 1 \in Nat \ {0} /\ 1 = 1
        OBVIOUS
      <4> QED
        BY <2>1, <2>7, <4>1, TermCosts, Zenon
    <3>2. Costs(x, n) /\ x.type = type
      BY <3>1
    <3> QED
      BY <2>1, <3>2 DEF Traced
  <2> HIDE DEF x
  <2>9. BinaryOp(acc, op) = Node(acc, 2, x) /\ 2 \in 0..k
    BY <1>2, <1>4
  <2>10. AllCost(Node(acc, 2, x), n)
    BY <2>8, <2>9, NodeCosts
  <2>11. Last(Node(acc, 2, x).stk) = x
    BY <2>9, NodeLast
  <2> QED
    BY <2>8, <2>9, <2>10, <2>11
<1> QED
  BY <1>3, <1>4

(* An instruction that leaves the depth alone.                             *)
LEMMA NeutralPriced ==
  ASSUME NEW op \in {"INEG", "CALL"}, NEW arg \in Nat, NEW l \in Nat, NEW n, op = "CALL" => l >= n
  PROVE  Priced(Encode(op, arg), l, l, n)
<1>1. op \in Opcodes /\ op \notin JumpOps /\ Pops(op) = 0 /\ Pushes(op) = 0
  BY DEF Opcodes, JumpOps, Pops, Pushes
<1>2. l >= Pops(op) /\ l = l - Pops(op) + Pushes(op)
  BY <1>1
<1> QED
  BY <1>1, <1>2, PricedInstruction

LEMMA UnaryCosts ==
  ASSUME NEW n \in Nat, NEW T, NEW acc, NEW k \in Nat \ {0}, acc.stk \in Seq(T), Len(acc.stk) = k,
         \A i \in 1..k : Costs(acc.stk[i], n), NEW op
  PROVE  /\ AllCost(UnaryOp(acc, op), n)
         /\ UnaryOp(acc, op).ok /\ Traced(Last(acc.stk)) => Traced(Last(UnaryOp(acc, op).stk))
<1>1. PICK x : x = Last(acc.stk) /\ Costs(x, n)
  BY LastTerm
<1> DEFINE code == x.code \o Encode("INEG", 0)
           y == Term(x.type, code, FALSE)
<1>2. x.type # "absent"
  BY <1>1 DEF Costs
<1>3. UnaryOp(acc, op) = IF op # "neg" THEN Failed ELSE Node(acc, 1, y)
  BY <1>1, <1>2 DEF UnaryOp
<1>4. PICK l \in Nat \ {0} : CostsOf(x, l, n)
  BY <1>1 DEF Costs
<1>5. Priced(Encode("INEG", 0), l, l, n)
  BY NeutralPriced
<1>6. Priced(code, 0, l, n)
  BY <1>4, <1>5, PricedConcat DEF CostsOf
<1> HIDE DEF code
<1>7. Costs(y, n) /\ y.type = x.type
  <2>1. x.type \in ValueTypes => l = 1
    BY <1>4 DEF CostsOf, Traced
  <2>2. Costs(Term(x.type, code, FALSE), n) /\ Term(x.type, code, FALSE).type = x.type
    BY <1>2, <1>6, <2>1, TermCosts
  <2> QED
    BY <2>2
<1> HIDE DEF y
<1>8. 1 \in 0..k
  OBVIOUS
<1>9. AllCost(Node(acc, 1, y), n) /\ Last(Node(acc, 1, y).stk) = y
  BY <1>7, <1>8, NodeCosts, NodeLast
<1>10. AllCost(Failed, n) /\ ~Failed.ok
  BY DEF AllCost, Failed
<1> QED
  BY <1>1, <1>3, <1>7, <1>9, <1>10 DEF Traced

LEMMA CallCosts ==
  ASSUME NEW n \in Nat, NEW d \in Nat, IsList(descs, d), NEW T, NEW acc, NEW k \in Nat,
         acc.stk \in Seq(T), Len(acc.stk) = k, \A i \in 1..k : Costs(acc.stk[i], n),
         NEW g, NEW q \in Nat, q <= k, q >= n
  PROVE  AllCost(Call(acc, g, q), n)
<1> DEFINE args == SubSeq(acc.stk, Len(acc.stk) - q + 1, Len(acc.stk))
           code == IF q = 1 THEN args[1].code ELSE args[1].code \o args[2].code
           y == Term("call", code \o Encode("CALL", ConstIndex(g)), TRUE)
           Known == \E i \in DOMAIN descs : descs[i].name = g
<1>1. Call(acc, g, q) = IF Known /\ q \in 1..2 /\ ~args[q].bare
                        THEN Node(acc, q, y) ELSE Failed
  BY DEF Call
<1>2. AllCost(Failed, n)
  BY DEF Failed, AllCost
<1>3. ASSUME Known, q \in 1..2 PROVE AllCost(Node(acc, q, y), n)
  <2>1. ConstIndex(g) \in Nat
    BY <1>3, ConstIndexNat
  <2>2. Costs(args[1], n) /\ (q = 2 => Costs(args[2], n))
    <3> DEFINE s == acc.stk
    <3>1. s \in Seq(T) /\ Len(s) = k /\ \A i \in 1..k : Costs(s[i], n)
      OBVIOUS
    <3> HIDE DEF s
    <3>2. /\ SubSeq(s, k - q + 1, k)[1] = s[k - q + 1]
          /\ q = 2 => SubSeq(s, k - q + 1, k)[2] = s[k]
      BY <1>3, <3>1
    <3>3. k - q + 1 \in 1..k /\ k \in 1..k
      BY <1>3
    <3>4. args = SubSeq(s, k - q + 1, k)
      BY DEF s
    <3> QED
      BY <3>1, <3>2, <3>3, <3>4
  <2> HIDE DEF args
  <2>3. PICK l \in Nat \ {0} : Priced(args[1].code, 0, l, n)
    BY <2>2 DEF Costs, CostsOf
  <2>4. PICK z \in Nat \ {0} : Priced(code, 0, z, n) /\ z >= q
    <3>1. CASE q = 1
      BY <2>3, <3>1
    <3>2. CASE q = 2
      <4>1. PICK h \in Nat \ {0} : Priced(args[2].code, 0, h, n)
        BY <2>2, <3>2 DEF Costs, CostsOf
      <4>2. Priced(args[2].code, 0 + l, h + l, n)
        BY <4>1, PricedDeeper
      <4>3. 0 + l = l /\ h + l \in Nat \ {0} /\ h + l >= 2
        OBVIOUS
      <4>4. Priced(args[2].code, l, h + l, n)
        BY <4>2, <4>3
      <4>5. Priced(args[1].code \o args[2].code, 0, h + l, n)
        BY <2>3, <4>3, <4>4, PricedConcat
      <4> QED
        BY <3>2, <4>3, <4>5
    <3> QED
      BY <1>3, <3>1, <3>2
  <2> HIDE DEF code
  <2>5. Priced(Encode("CALL", ConstIndex(g)), z, z, n)
    <3>1. z >= n
      BY <2>4
    <3> QED
      BY <2>1, <3>1, NeutralPriced
  <2>6. Priced(code \o Encode("CALL", ConstIndex(g)), 0, z, n)
    BY <2>4, <2>5, PricedConcat
  <2>7. "call" # "absent" /\ "call" \notin ValueTypes
    BY DEF ValueTypes
  <2>8. Costs(y, n)
    BY <2>6, <2>7, TermCosts
  <2> HIDE DEF y
  <2>9. q \in 0..k
    OBVIOUS
  <2> QED
    BY <2>8, <2>9, NodeCosts
<1> QED
  BY <1>1, <1>2, <1>3

(* A node that stores nothing, with enough arguments if it is a call, and  *)
(* one whose name, if it is the value of a variable, is known.             *)
Plain(t, n) ==
  /\ t.tok # "asg"
  /\ t.tok = "bin" => t.op # "neg"
  /\ t.tok = "call" => t.args >= n

Known(t) == t.tok = "id" => Declared(t.name)

LastTraced(acc) == acc.ok => Traced(Last(acc.stk))

LEMMA GroupCosts ==
  ASSUME NEW n, NEW T, NEW acc, NEW k \in Nat \ {0}, acc.stk \in Seq(T), Len(acc.stk) = k,
         \A i \in 1..k : Costs(acc.stk[i], n), NEW y,
         y.type = Last(acc.stk).type, y.code = Last(acc.stk).code
  PROVE  /\ AllCost(Node(acc, 1, y), n)
         /\ Traced(Last(acc.stk)) => Traced(Last(Node(acc, 1, y).stk))
<1>1. Costs(y, n)
  <2>1. Last(acc.stk) = acc.stk[k]
    BY LastTerm
  <2>2. Costs(Last(acc.stk), n)
    BY <2>1
  <2> QED
    BY <2>2 DEF Costs, CostsOf, Traced
<1>2. k \in Nat
  OBVIOUS
<1>3. PICK p \in 0..k : p = 1
  OBVIOUS
<1>4. AllCost(Node(acc, p, y), n)
  BY <1>1, <1>2, NodeCosts
<1>5. Last(Node(acc, p, y).stk) = y
  BY <1>2, NodeLast, ZenonT(40)
<1> QED
  BY <1>3, <1>4, <1>5 DEF Traced

LEMMA LeafCosts ==
  ASSUME NEW n, NEW T, NEW acc, NEW k \in Nat, acc.stk \in Seq(T), Len(acc.stk) = k,
         \A i \in 1..k : Costs(acc.stk[i], n), NEW x, Costs(x, n), Traced(x)
  PROVE  AllCost(Node(acc, 0, x), n) /\ Traced(Last(Node(acc, 0, x).stk))
<1>1. 0 \in 0..k
  OBVIOUS
<1>2. AllCost(Node(acc, 0, x), n)
  BY <1>1, NodeCosts
<1>3. Last(Node(acc, 0, x).stk) = x
  BY <1>1, NodeLast
<1> QED
  BY <1>2, <1>3

LEMMA NodeCosting ==
  ASSUME ScopesOK(scopes), NEW d \in Nat, IsList(descs, d), NEW n \in Nat, NEW I,
         NEW acc, NEW k \in Nat, AreTerms(acc, I, k), AllCost(acc, n),
         NEW t \in Nodes, Operands(t) <= k, Plain(t, n), Known(t)
  PROVE  /\ AllCost(CompileNode(acc, t), n)
         /\ t.tok \in {"lit", "id", "bin"} => LastTraced(CompileNode(acc, t))
         /\ t.tok \in {"grp", "un"} /\ LastTraced(acc) => LastTraced(CompileNode(acc, t))
<1>1. t.tok \in {"lit", "id", "grp", "un", "bin", "call"}
  BY NodeKinds DEF Plain
<1>2. CASE ~acc.ok
  <2>1. CompileNode(acc, t) = Failed
    BY <1>2 DEF CompileNode
  <2>2. ~Failed.ok
    BY DEF Failed
  <2> QED
    BY <2>1, <2>2 DEF AllCost, LastTraced
<1>3. CASE acc.ok
  <2> DEFINE T == Terms(I)
  <2>1. acc.stk \in Seq(T) /\ Len(acc.stk) = k /\ acc.stk \in Seq(Terms(I))
    BY <1>3 DEF AreTerms
  <2> HIDE DEF T
  <2>2. \A i \in 1..k : Costs(acc.stk[i], n)
    BY <1>3, <2>1 DEF AllCost
  <2>3. CASE t.tok = "lit"
    <3>1. CompileNode(acc, t) = Node(acc, 0, Literal(t))
      BY <1>3, <2>3 DEF CompileNode
    <3>2. Costs(Literal(t), n) /\ Traced(Literal(t))
      BY <2>3, LiteralCosts
    <3>3. AllCost(Node(acc, 0, Literal(t)), n) /\ Traced(Last(Node(acc, 0, Literal(t)).stk))
      BY <2>1, <2>2, <3>2, LeafCosts
    <3> QED
      BY <2>3, <3>1, <3>3 DEF LastTraced
  <2>4. CASE t.tok = "id"
    <3>1. CompileNode(acc, t) = Node(acc, 0, Ident(t.name))
      BY <1>3, <2>4 DEF CompileNode
    <3>2. Costs(Ident(t.name), n) /\ Traced(Ident(t.name))
      BY <2>4, IdentCosts DEF Known
    <3>3. AllCost(Node(acc, 0, Ident(t.name)), n) /\ Traced(Last(Node(acc, 0, Ident(t.name)).stk))
      BY <2>1, <2>2, <3>2, LeafCosts
    <3> QED
      BY <2>4, <3>1, <3>3 DEF LastTraced
  <2>5. CASE t.tok = "grp"
    <3>1. PICK y : y = [Last(acc.stk) EXCEPT !.bare = FALSE]
      OBVIOUS
    <3>2. CompileNode(acc, t) = Node(acc, 1, y) /\ Operands(t) = 1
      BY <1>3, <2>5, <3>1 DEF CompileNode, Operands
    <3>3. k \in Nat \ {0}
      BY <3>2
    <3>4. PICK x \in T : x = Last(acc.stk)
      BY <2>1, <3>3, LastTerm
    <3>5. y.type = x.type /\ y.code = x.code
      BY <3>1, <3>4 DEF T, Terms
    <3>6. /\ AllCost(Node(acc, 1, y), n)
          /\ Traced(Last(acc.stk)) => Traced(Last(Node(acc, 1, y).stk))
      BY <2>1, <2>2, <3>3, <3>4, <3>5, GroupCosts
    <3> QED
      BY <1>3, <2>5, <3>2, <3>6 DEF LastTraced
  <2>6. CASE t.tok = "un"
    <3>1. CompileNode(acc, t) = UnaryOp(acc, t.op) /\ Operands(t) = 1
      BY <1>3, <2>6 DEF CompileNode, Operands
    <3>2. k \in Nat \ {0}
      BY <3>1
    <3>3. /\ AllCost(UnaryOp(acc, t.op), n)
          /\ UnaryOp(acc, t.op).ok /\ Traced(Last(acc.stk)) => Traced(Last(UnaryOp(acc, t.op).stk))
      BY <2>1, <2>2, <3>2, UnaryCosts
    <3> QED
      BY <1>3, <2>6, <3>1, <3>3 DEF LastTraced
  <2>7. CASE t.tok = "bin"
    <3>1. CompileNode(acc, t) = BinaryOp(acc, t.op) /\ Operands(t) = 2
      BY <1>3, <2>7 DEF CompileNode, Operands
    <3>2. t.op # "neg" /\ 2 <= k
      BY <2>7, <3>1 DEF Plain
    <3>3. /\ AllCost(BinaryOp(acc, t.op), n)
          /\ BinaryOp(acc, t.op).ok => Traced(Last(BinaryOp(acc, t.op).stk))
      BY <2>1, <2>2, <3>2, BinaryCosts
    <3> QED
      BY <1>3, <2>7, <3>1, <3>3 DEF LastTraced
  <2>8. CASE t.tok = "call"
    <3>1. CompileNode(acc, t) = Call(acc, t.name, t.args) /\ Operands(t) = t.args
      BY <1>3, <2>8 DEF CompileNode, Operands
    <3>2. t.args \in Nat /\ t.args <= k /\ t.args >= n
      BY <2>8, <3>1, NodeKinds DEF Plain
    <3>3. AllCost(Call(acc, t.name, t.args), n)
      BY <2>1, <2>2, <3>2, CallCosts
    <3> QED
      BY <1>3, <2>8, <3>1, <3>3 DEF LastTraced
  <2> QED
    BY <1>1, <2>3, <2>4, <2>5, <2>6, <2>7, <2>8
<1> QED
  BY <1>2, <1>3

(* The terms of the first q nodes, when none of these is an assignment.    *)
LEMMA PrefixCosts ==
  ASSUME ScopesOK(scopes), NEW m \in Nat, scopes[FrameBase(scopes)].max <= m,
         NEW d \in Nat, IsList(descs, d), NEW n \in Nat,
         NEW e, NEW l \in Nat, IsPostfix(e, l), NEW q \in 0..l,
         \A i \in 1..q : Plain(e[i], n) /\ Known(e[i])
  PROVE  \A i \in 0..q : AllCost(TermsAfter(e)[i], n)
<1> DEFINE f == (descs # <<>>)
           I == Straight(m, f)
           S == {i \in Nat : i <= q => AllCost(TermsAfter(e)[i], n)}
<1>1. l = Len(e) /\ e \in Seq(Nodes)
  BY DEF IsPostfix
<1>2. 0 \in S
  <2>1. TermsAfter(e)[0] = [ok |-> TRUE, stk |-> <<>>]
    <3>1. TermsAfter(e) = [i \in 0..l |-> IF i = 0 THEN NoTerms
                                         ELSE CompileNode(TermsAfter(e)[i-1], e[i])]
      BY <1>1, TermsUnfold
    <3>2. 0 \in 0..l
      OBVIOUS
    <3>3. TermsAfter(e)[0] = NoTerms
      BY <3>1, <3>2
    <3> QED
      BY <3>3 DEF NoTerms
  <2>2. TermsAfter(e)[0].stk = <<>> /\ DOMAIN <<>> = {}
    BY <2>1
  <2> QED
    BY <2>2 DEF AllCost
<1>3. ASSUME NEW i \in Nat, i \in S PROVE i + 1 \in S
  <2> SUFFICES ASSUME i + 1 <= q PROVE AllCost(TermsAfter(e)[i+1], n)
    OBVIOUS
  <2>1. i + 1 \in 1..l /\ i + 1 \in 1..q /\ i \in 0..l /\ (i + 1) - 1 = i /\ i <= q
    OBVIOUS
  <2>2. Roots(e)[i] \in Nat /\ AreTerms(TermsAfter(e)[i], I, Roots(e)[i])
    BY <2>1, PrefixCompiled
  <2>3. AllCost(TermsAfter(e)[i], n)
    BY <1>3, <2>1
  <2>4. e[i+1] \in Nodes /\ Operands(e[i+1]) <= Roots(e)[i] /\ Plain(e[i+1], n) /\ Known(e[i+1])
    BY <1>1, <2>1 DEF IsPostfix
  <2>5. TermsAfter(e)[i+1] = CompileNode(TermsAfter(e)[i], e[i+1])
    <3>1. PICK j \in 1..l : j = i + 1 /\ j - 1 = i
      BY <2>1
    <3>2. l = Len(e)
      BY <1>1
    <3>3. TermsAfter(e)[j] = CompileNode(TermsAfter(e)[j-1], e[j])
      BY <3>2, StepsOf
    <3> QED
      BY <3>1, <3>3
  <2> HIDE DEF I
  <2> QED
    BY <2>2, <2>3, <2>4, <2>5, NodeCosting
<1> HIDE DEF S
<1>4. \A i \in Nat : i \in S
  BY <1>2, <1>3, Induction
<1> QED
  BY <1>4 DEF S

(* A value under groups and signs only.                                    *)
ValueFrom(e, j, l) ==
  /\ e[j].tok \in {"lit", "id", "bin"}
  /\ \A i \in j+1..l : e[i].tok \in {"grp", "un"}

IsValue(e) == \E j \in 1..Len(e) : ValueFrom(e, j, Len(e))

LEMMA ValueTraced ==
  ASSUME ScopesOK(scopes), NEW m \in Nat, scopes[FrameBase(scopes)].max <= m,
         NEW d \in Nat, IsList(descs, d), NEW n \in Nat,
         NEW e, NEW l \in Nat, IsPostfix(e, l),
         \A i \in 1..l : Plain(e[i], n) /\ Known(e[i]),
         NEW j \in 1..l, ValueFrom(e, j, l)
  PROVE  LastTraced(TermsAfter(e)[l])
<1> DEFINE f == (descs # <<>>)
           I == Straight(m, f)
           S == {i \in Nat : j + i <= l => LastTraced(TermsAfter(e)[j + i])}
<1>1. l = Len(e) /\ e \in Seq(Nodes) /\ j \in Nat
  BY DEF IsPostfix
<1>2. ASSUME NEW i \in 1..l
      PROVE  /\ e[i].tok \in {"lit", "id", "bin"} => LastTraced(TermsAfter(e)[i])
             /\ e[i].tok \in {"grp", "un"} /\ LastTraced(TermsAfter(e)[i-1])
                  => LastTraced(TermsAfter(e)[i])
  <2>1. i - 1 \in 0..l /\ l \in 0..l
    OBVIOUS
  <2>2. Roots(e)[i-1] \in Nat /\ AreTerms(TermsAfter(e)[i-1], I, Roots(e)[i-1])
    BY <2>1, PrefixCompiled
  <2>3. AllCost(TermsAfter(e)[i-1], n)
    BY <2>1, PrefixCosts
  <2>4. e[i] \in Nodes /\ Operands(e[i]) <= Roots(e)[i-1] /\ Plain(e[i], n) /\ Known(e[i])
    BY <1>1 DEF IsPostfix
  <2>5. TermsAfter(e)[i] = CompileNode(TermsAfter(e)[i-1], e[i])
    BY <1>1, StepsOf
  <2> HIDE DEF I
  <2> QED
    BY <2>2, <2>3, <2>4, <2>5, NodeCosting
<1>3. 0 \in S
  <2>1. j + 0 = j /\ LastTraced(TermsAfter(e)[j])
    BY <1>1, <1>2 DEF ValueFrom
  <2> QED
    BY <2>1
<1>4. ASSUME NEW i \in Nat, i \in S PROVE i + 1 \in S
  <2> SUFFICES ASSUME j + (i + 1) <= l PROVE LastTraced(TermsAfter(e)[j + (i + 1)])
    OBVIOUS
  <2>1. PICK p \in 1..l : p = j + (i + 1) /\ p - 1 = j + i /\ p \in j+1..l /\ j + i <= l
    <3>1. j + (i + 1) \in 1..l /\ (j + (i + 1)) - 1 = j + i /\ j + (i + 1) \in j+1..l /\ j + i <= l
      BY <1>1
    <3> QED
      BY <3>1
  <2>2. LastTraced(TermsAfter(e)[p-1])
    BY <1>4, <2>1
  <2>3. e[p].tok \in {"grp", "un"}
    BY <2>1 DEF ValueFrom
  <2>4. LastTraced(TermsAfter(e)[p])
    BY <1>2, <2>2, <2>3
  <2> QED
    BY <2>1, <2>4
<1> HIDE DEF S
<1>5. \A i \in Nat : i \in S
  BY <1>3, <1>4, Induction
<1>6. PICK i \in Nat : j + i = l
  <2>1. l - j \in Nat /\ j + (l - j) = l
    BY <1>1
  <2> QED
    BY <2>1
<1>7. i \in S
  BY <1>5
<1> QED
  BY <1>6, <1>7 DEF S

-----------------------------------------------------------------------------
(* Whole expressions: values, and assignments at the end of one.           *)

LEMMA LastNode ==
  ASSUME NEW e \in AllExprs
  PROVE  \E l \in Nat \ {0} : /\ l = Len(e) /\ IsPostfix(e, l) /\ Roots(e)[l] = 1
                             /\ Last(e) = e[l]
BY ExprsAssumption, LastTyped DEF IsExpr, IsPostfix

LEMMA ValueCosts ==
  ASSUME ScopesOK(scopes), NEW d \in Nat, IsList(descs, d), NEW n \in Nat,
         NEW e \in AllExprs, Compile(e).ok, \A i \in 1..Len(e) : Plain(e[i], n) /\ Known(e[i])
  PROVE  \E l \in Nat \ {0} : Priced(Compile(e).code, 0, l, n) /\ (IsValue(e) => l = 1)
<1>1. Rejected.ok = FALSE
  BY DEF Rejected
<1>2. PICK l \in Nat \ {0} : /\ l = Len(e) /\ IsPostfix(e, l) /\ Roots(e)[l] = 1
                             /\ Last(e) = e[l]
  BY LastNode
<1>3. ~Defines(e)
  <2>1. l \in 1..l /\ Plain(e[l], n)
    BY <1>2
  <2> QED
    BY <1>2, <2>1 DEF Defines, Plain
<1>4. PICK m \in Nat : scopes[FrameBase(scopes)].max <= m
  <2>1. scopes[FrameBase(scopes)].max \in Nat
    BY ScopeFields DEF ScopesOK, FrameBase
  <2> QED
    BY <2>1
<1> DEFINE r == CompileNodes(e)
           I == Straight(m, descs # <<>>)
<1>5. Compile(e) = IF r.ok THEN [ok |-> TRUE, def |-> <<>>, code |-> r.stk[1].code] ELSE Rejected
  BY <1>3 DEF Compile
<1>6. r = TermsAfter(e)[l] /\ l \in 0..l
  BY <1>2 DEF CompileNodes
<1>7. AreTerms(r, I, 1)
  BY <1>2, <1>4, <1>6, PrefixCompiled
<1>8. AllCost(r, n)
  BY <1>2, <1>4, <1>6, PrefixCosts
<1>9. IsValue(e) => LastTraced(r)
  <2> SUFFICES ASSUME IsValue(e) PROVE LastTraced(r)
    OBVIOUS
  <2>1. PICK j \in 1..l : ValueFrom(e, j, l)
    BY <1>2 DEF IsValue
  <2> QED
    BY <1>2, <1>4, <1>6, <2>1, ValueTraced
<1> HIDE DEF r, I
<1>10. r.ok /\ Compile(e).code = r.stk[1].code
  BY <1>1, <1>5
<1>11. PICK s : s = r.stk /\ s \in Seq(Terms(I)) /\ Len(s) = 1
  BY <1>7, <1>10 DEF AreTerms
<1>12. Costs(s[1], n) /\ (IsValue(e) => Traced(s[1]))
  <2>1. 1 \in DOMAIN s /\ Last(s) = s[1]
    BY <1>11 DEF Last
  <2> QED
    BY <1>8, <1>9, <1>10, <1>11, <2>1 DEF AllCost, LastTraced
<1>13. PICK h \in Nat \ {0} : CostsOf(s[1], h, n)
  BY <1>12 DEF Costs
<1>14. Compile(e).code = s[1].code
  BY <1>10, <1>11
<1> QED
  BY <1>12, <1>13, <1>14 DEF CostsOf

LEMMA SavePriced ==
  ASSUME NEW type, NEW arg \in Nat, NEW n
  PROVE  Priced(Encode(SaveOpcode(type), arg), 1, 0, n)
<1>1. PICK op : op = SaveOpcode(type)
  OBVIOUS
<1>2. op \in Opcodes /\ op \notin JumpOps /\ op # "CALL" /\ Pops(op) = 1 /\ Pushes(op) = 0
  BY <1>1 DEF SaveOpcode, Opcodes, JumpOps, Pops, Pushes
<1>3. 1 >= Pops(op) /\ 0 = 1 - Pops(op) + Pushes(op)
  BY <1>2
<1> QED
  BY <1>1, <1>2, <1>3, PricedInstruction

Assigned(acc, type, code) == Node(acc, 1, Term(type, code, TRUE))

LEMMA OnlyTerm ==
  ASSUME NEW T, NEW acc, acc.stk \in Seq(T), Len(acc.stk) = 1, NEW type, NEW code
  PROVE  Assigned(acc, type, code).stk[1].code = code
<1>1. PICK y : y = Term(type, code, TRUE)
  OBVIOUS
<1>2. y.type = type /\ y.code = code
  BY <1>1, TermParts, Zenon
<1>3. Node(acc, 1, y).stk = Append(SubSeq(acc.stk, 1, 0), y)
  BY DEF Node
<1>4. SubSeq(acc.stk, 1, 0) = <<>>
  OBVIOUS
<1>5. Append(<<>>, y)[1] = y
  OBVIOUS
<1>6. Node(acc, 1, y).stk[1].code = code
  BY <1>2, <1>3, <1>4, <1>5
<1> QED
  BY <1>1, <1>6, Zenon DEF Assigned

(* Assignment to a variable there is.                                      *)
LEMMA AssignedCosts ==
  ASSUME ScopesOK(scopes), NEW n \in Nat, NEW I, NEW acc, AreTerms(acc, I, 1), AllCost(acc, n),
         acc.ok, NEW x, Assignment(acc, x).ok
  PROVE  Priced(Assignment(acc, x).stk[1].code, 0, 0, n)
<1>1. PICK s : s = acc.stk /\ s \in Seq(Terms(I)) /\ Len(s) = 1
  BY DEF AreTerms
<1>2. PICK r : r = s[1] /\ Last(acc.stk) = r /\ Costs(r, n)
  <2>1. 1 \in DOMAIN s /\ Last(s) = s[1]
    BY <1>1 DEF Last
  <2> QED
    BY <1>1, <2>1 DEF AllCost
<1>3. PICK v : v = Lookup(x)
  OBVIOUS
<1>4. PICK code : code = Widened(r, v.type) \o Encode(SaveOpcode(v.type), v.index)
  OBVIOUS
<1>5. Assignment(acc, x) = IF Declared(x) /\ Traced(r) /\ (v.type = r.type \/ v.type = "float")
                           THEN Assigned(acc, v.type, code) ELSE Failed
  BY <1>2, <1>3, <1>4 DEF Assignment, Assigned
<1>6. ~Failed.ok
  BY DEF Failed
<1>7. Declared(x) /\ Traced(r) /\ Assignment(acc, x) = Assigned(acc, v.type, code)
  BY <1>5, <1>6
<1>8. v.index \in Nat
  BY <1>3, <1>7, LookupTyped, VarFields
<1>9. Priced(code, 0, 0, n)
  <2>1. Priced(Widened(r, v.type), 0, 1, n)
    BY <1>2, <1>7, WidenedPriced
  <2>2. Priced(Encode(SaveOpcode(v.type), v.index), 1, 0, n)
    BY <1>8, SavePriced
  <2> QED
    BY <1>4, <2>1, <2>2, PricedConcat
<1>10. Assigned(acc, v.type, code).stk[1].code = code
  BY <1>1, OnlyTerm
<1>11. Assignment(acc, x).stk[1].code = code
  BY <1>7, <1>10
<1> QED
  BY <1>9, <1>11

LEMMA LastRoots ==
  ASSUME ScopesOK(scopes), NEW m \in Nat, scopes[FrameBase(scopes)].max <= m,
         NEW d \in Nat, IsList(descs, d),
         NEW e, NEW k \in Nat, IsPostfix(e, k + 1), Roots(e)[k+1] = 1, e[k+1].tok = "asg"
  PROVE  /\ Roots(e)[k] = 1
         /\ TermsAfter(e)[k+1].ok
              => /\ TermsAfter(e)[k].ok
                 /\ TermsAfter(e)[k+1] = Assignment(TermsAfter(e)[k], e[k+1].name)
<1>1. k + 1 \in 1..k+1 /\ (k + 1) - 1 = k /\ k \in 0..k+1 /\ k + 1 \in Nat /\ k + 1 = Len(e)
  BY DEF IsPostfix
<1>2. Operands(e[k+1]) = 1
  BY DEF Operands
<1>3. /\ Roots(e)[k+1] = Roots(e)[k] - Operands(e[k+1]) + 1
      /\ TermsAfter(e)[k+1] = CompileNode(TermsAfter(e)[k], e[k+1])
  BY <1>1, StepsOf
<1>4. Roots(e)[k] \in Nat
  BY <1>1, PrefixCompiled
<1>5. PICK acc, r : acc = TermsAfter(e)[k] /\ r = TermsAfter(e)[k+1]
  OBVIOUS
<1>6. r = CompileNode(acc, e[k+1])
  BY <1>3, <1>5
<1>7. CASE ~acc.ok
  <2>1. r = Failed
    BY <1>6, <1>7 DEF CompileNode
  <2>2. ~Failed.ok
    BY DEF Failed
  <2> QED
    BY <1>2, <1>3, <1>4, <1>5, <2>1, <2>2
<1>8. CASE acc.ok
  <2>1. r = Assignment(acc, e[k+1].name)
    BY <1>6, <1>8 DEF CompileNode
  <2> QED
    BY <1>2, <1>3, <1>4, <1>5, <1>8, <2>1
<1> QED
  BY <1>7, <1>8

LEMMA AssignCosts ==
  ASSUME ScopesOK(scopes), NEW d \in Nat, IsList(descs, d), NEW n \in Nat,
         NEW e \in AllExprs, Compile(e).ok, Last(e).tok = "asg",
         \A i \in 1..Len(e)-1 : Plain(e[i], n) /\ Known(e[i])
  PROVE  Priced(Compile(e).code, 0, 0, n)
<1>1. Rejected.ok = FALSE
  BY DEF Rejected
<1>2. PICK l \in Nat \ {0} : /\ l = Len(e) /\ IsPostfix(e, l) /\ Roots(e)[l] = 1
                             /\ Last(e) = e[l]
  BY LastNode
<1>3. PICK k \in Nat : l = k + 1 /\ k \in 0..l /\ k \in 0..k /\ l \in 0..l
  <2>1. l - 1 \in Nat /\ l = (l - 1) + 1
    OBVIOUS
  <2> QED
    BY <2>1
<1>4. PICK m \in Nat : scopes[FrameBase(scopes)].max <= m
  <2>1. scopes[FrameBase(scopes)].max \in Nat
    BY ScopeFields DEF ScopesOK, FrameBase
  <2> QED
    BY <2>1
<1>5. PICK I : I = Straight(m, descs # <<>>)
  OBVIOUS
<1>6. e[k+1].tok = "asg" /\ IsPostfix(e, k + 1) /\ Roots(e)[k+1] = 1
  BY <1>2, <1>3
<1>7. \A i \in 1..k : Plain(e[i], n) /\ Known(e[i])
  BY <1>2, <1>3
<1>8. Roots(e)[k] = 1
  BY <1>4, <1>6, LastRoots
<1>9. CASE ~Defines(e)
  <2>1. PICK r : r = CompileNodes(e) /\ r = TermsAfter(e)[l]
    BY <1>2 DEF CompileNodes
  <2>2. Compile(e) = IF r.ok THEN [ok |-> TRUE, def |-> <<>>, code |-> r.stk[1].code] ELSE Rejected
    BY <1>9, <2>1 DEF Compile
  <2>3. r.ok /\ Compile(e).code = r.stk[1].code
    BY <1>1, <2>2
  <2>4. PICK acc : acc = TermsAfter(e)[k]
    OBVIOUS
  <2>5. AreTerms(acc, I, 1) /\ AllCost(acc, n)
    <3>1. AreTerms(acc, I, Roots(e)[k])
      BY <1>2, <1>3, <1>4, <1>5, <2>4, PrefixCompiled
    <3>2. AllCost(acc, n)
      BY <1>2, <1>3, <1>4, <1>7, <2>4, PrefixCosts
    <3> QED
      BY <1>8, <3>1, <3>2
  <2>6. PICK x : x = e[k+1].name
    OBVIOUS
  <2>7. r = Assignment(acc, x) /\ acc.ok
    BY <1>3, <1>4, <1>6, <2>1, <2>3, <2>4, <2>6, LastRoots
  <2>8. Priced(r.stk[1].code, 0, 0, n)
    BY <2>3, <2>5, <2>7, AssignedCosts
  <2> QED
    BY <2>3, <2>8
<1>10. CASE Defines(e)
  <2>1. PICK r, g : r = RightSide(e) /\ g = Front(e)
    OBVIOUS
  <2>2. PICK v : v = NewVar(Last(e).name, r.stk[1].type)
    OBVIOUS
  <2>3. PICK save : save = Encode(SaveOpcode(v.type), v.index)
    OBVIOUS
  <2>4. PICK c : c = [ok |-> TRUE, def |-> <<v>>, code |-> r.stk[1].code \o save]
    OBVIOUS
  <2>5. Compile(e) = IF r.ok /\ Traced(r.stk[1]) /\ HasSpace THEN c ELSE Rejected
    BY <1>10, <2>1, <2>2, <2>3, <2>4 DEF Compile
  <2>6. c.code = r.stk[1].code \o save
    BY <2>4
  <2>7. r.ok /\ Traced(r.stk[1]) /\ Compile(e).code = r.stk[1].code \o save
    BY <1>1, <2>5, <2>6
  <2>8. IsPostfix(g, k) /\ Roots(g)[k] = 1
    BY <1>2, <1>3, <1>8, <2>1, FrontRoots
  <2>9. \A i \in 1..k : Plain(g[i], n) /\ Known(g[i])
    <3>1. \A i \in 1..k : g[i] = e[i]
      <4>1. e \in Seq(Nodes) /\ Len(e) = k + 1
        BY <1>6 DEF IsPostfix
      <4> QED
        BY <2>1, <4>1 DEF Front
    <3> QED
      BY <1>7, <3>1
  <2>10. r = TermsAfter(g)[k]
    BY <2>1, <2>8 DEF RightSide, CompileNodes, IsPostfix
  <2>11. AreTerms(r, I, 1)
    BY <1>3, <1>4, <1>5, <2>8, <2>10, PrefixCompiled
  <2>12. AllCost(r, n)
    BY <1>3, <1>4, <2>8, <2>9, <2>10, PrefixCosts
  <2>13. PICK x : x = r.stk[1] /\ Costs(x, n) /\ Traced(x)
    <3>1. PICK s : s = r.stk /\ s \in Seq(Terms(I)) /\ Len(s) = 1
      BY <2>7, <2>11 DEF AreTerms
    <3>2. 1 \in DOMAIN s
      BY <3>1
    <3> QED
      BY <2>7, <2>12, <3>1, <3>2 DEF AllCost
  <2>14. Priced(x.code, 0, 1, n)
    BY <2>13 DEF Costs, CostsOf
  <2>15. v.index \in Nat
    <3>1. v.index = NextSlot(top) % ByteRange
      BY <2>2 DEF NewVar
    <3>2. NextSlot(top) \in Nat
      <4>1. Len(scopes) \in 1..Len(scopes) /\ scopes \in Seq(Scope)
        BY DEF ScopesOK
      <4> QED
        BY <4>1, ScopeFields DEF NextSlot, top, Free
    <3> QED
      BY <3>1, <3>2, BytesAssumption
  <2>16. Priced(save, 1, 0, n)
    BY <2>3, <2>15, SavePriced
  <2>17. Priced(x.code \o save, 0, 0, n)
    BY <2>14, <2>16, PricedConcat
  <2> QED
    BY <2>7, <2>13, <2>17
<1> QED
  BY <1>9, <1>10

-----------------------------------------------------------------------------
(* The programs whose depth can be told: a call has at least the n         *)
(* arguments every function takes, an assignment is a whole expression and *)
(* what a statement of a block must be, and a condition leaves one value.  *)
Fair(e, n) ==
  /\ \A i \in 1..Len(e)-1 : Plain(e[i], n)
  /\ Plain(Last(e), n) \/ Last(e).tok = "asg"

Stores(e) == Last(e).tok = "asg"

Disciplined(n) ==
  /\ \A d \in FuncDecls : Len(d.args) = n
  /\ \A e \in AllExprs : Fair(e, n)
  /\ \A e \in StatExprs : Stores(e)
  /\ \A e \in CondExprs : IsValue(e) /\ Plain(Last(e), n)
  /\ WithWhile => \A e \in TopExprs : Stores(e)

(* No variable is used that does not exist.                                *)
NamesKnown(e) == \A i \in 1..Len(e) : Known(e[i])

LEMMA ExprCosts ==
  ASSUME ScopesOK(scopes), NEW d \in Nat, IsList(descs, d), NEW n \in Nat,
         NEW e \in AllExprs, Compile(e).ok, Fair(e, n), NamesKnown(e)
  PROVE  \E l \in Nat : /\ Priced(Compile(e).code, 0, l, n)
                        /\ Stores(e) => l = 0
                        /\ IsValue(e) /\ Plain(Last(e), n) => l = 1
<1>1. PICK l \in Nat \ {0} : l = Len(e) /\ Last(e) = e[l]
  BY LastNode
<1>2. CASE Last(e).tok = "asg"
  <2>1. \A i \in 1..Len(e)-1 : Plain(e[i], n) /\ Known(e[i])
    BY <1>1 DEF Fair, NamesKnown
  <2>2. Priced(Compile(e).code, 0, 0, n)
    BY <1>2, <2>1, AssignCosts
  <2>3. ~Plain(Last(e), n)
    BY <1>2 DEF Plain
  <2> QED
    BY <2>2, <2>3
<1>3. CASE Last(e).tok # "asg"
  <2>1. ASSUME NEW i \in 1..Len(e) PROVE Plain(e[i], n) /\ Known(e[i])
    <3>1. CASE i = l
      BY <1>1, <1>3, <3>1 DEF Fair, NamesKnown
    <3>2. CASE i # l
      <4>1. i \in 1..Len(e)-1
        BY <1>1, <3>2
      <4> QED
        BY <4>1 DEF Fair, NamesKnown
    <3> QED
      BY <3>1, <3>2
  <2>2. PICK h \in Nat \ {0} : Priced(Compile(e).code, 0, h, n) /\ (IsValue(e) => h = 1)
    BY <2>1, ValueCosts
  <2> QED
    BY <1>3, <2>2 DEF Stores
<1> QED
  BY <1>2, <1>3

-----------------------------------------------------------------------------
(* The depths of what is emitted, and what is booked for it.               *)

(* A loop's body starts with nothing booked: what is missing, in words.    *)
Slack(k) == IF WithWhile THEN k ELSE 0

(* The words of a condition whose blocks are not complete.                 *)
Pending(sc, i) == IF i < Len(sc) /\ sc[i+1].kind \in {"then", "else"} THEN 1 ELSE 0

BlockKinds == {"then", "else", "body"}

(* What one scope emitted goes from depth b to depth e, and its blocks     *)
(* leave the depth k as they found it; size is booked, at most max.        *)
Level(kind, size, chunk, b, e, max, k, n) ==
  /\ 4 * k - 4 * Slack(k) <= size /\ size <= max
  /\ Follows(chunk.code, b, e, max + 4 * Slack(k), n)
  /\ kind = "else" => Follows(chunk.head, k, k, max + 4 * Slack(k), n)
  /\ kind = "body" => Follows(chunk.head, k, k + 1, max + 4 * Slack(k), n)

LevelAt(sc, st, em, i, b, max, k, n) ==
  Level(sc[i].kind, st[i].size, em[i], b, k + Pending(sc, i), max, k, n)

(* The scopes B..t of one frame, whose code starts at depth z.             *)
Nested(sc, st, em, B, t, z, k, n) ==
  /\ 4 * (k + Pending(sc, B)) <= st[B].size
  /\ \A i \in B..t : LevelAt(sc, st, em, i, IF i = B THEN z ELSE k, st[B].max, k, n)
  /\ \A i \in B+1..t : sc[i].kind \in BlockKinds

Origin(sc, z) == IF FrameBase(sc) = 2 THEN 0 ELSE z

(* The frame that is compiled, and the root's own below a function.        *)
FrameFits(sc, st, em, z, n) ==
  \E k \in Nat : /\ Nested(sc, st, em, FrameBase(sc), Len(sc), Origin(sc, z), k, n)
                 /\ WithWhile /\ FrameBase(sc) = 2 => k = 0

RootFits(sc, st, em, z, n) ==
  FrameBase(sc) = 2 => \E k \in Nat : Nested(sc, st, em, 1, 1, z, k, n)

HandleFits(h, n) == h.args = n /\ \E e \in Nat : Follows(h.code, 0, e, h.stack, n)

FuncsFit(fn, n) == \A i \in DOMAIN fn : HandleFits(fn[i], n)

DepthInv(z, n) ==
  /\ FrameFits(scopes, stacks, emitters, z, n)
  /\ RootFits(scopes, stacks, emitters, z, n)
  /\ FuncsFit(funcs, n)

LEMMA SlackIs ==
  ASSUME NEW k \in Nat, NEW l \in Nat
  PROVE  Slack(k) \in Nat /\ Slack(k) <= k /\ Slack(k) <= Slack(k + l)
<1>1. CASE WithWhile
  BY <1>1 DEF Slack
<1>2. CASE ~WithWhile
  BY <1>2 DEF Slack
<1> QED
  BY <1>1, <1>2

LEMMA PendingIs == \A sc, i : Pending(sc, i) \in {0, 1}
BY DEF Pending

LEMMA GoodWhole ==
  ASSUME NEW code, NEW m, NEW f, Good(code, m, f, TRUE)
  PROVE  Whole(code)
<1>1. Laid(code, Instrs(m, f)) /\ Lands(code)
  BY DEF Good
<1>2. Instrs(m, f) \subseteq Instruction
  BY InstrsSort DEF Instruction
<1>3. Laid(code, Instruction)
  BY <1>1, <1>2, LaidMore
<1> QED
  BY <1>1, <1>3 DEF Whole

(* More may be booked.                                                     *)
LEMMA LevelMore ==
  ASSUME NEW kind, NEW size \in Int, NEW chunk, Whole(chunk.code), Whole(chunk.head),
         NEW b, NEW e, NEW max \in Int, NEW k \in Nat, NEW n,
         Level(kind, size, chunk, b, e, max, k, n), NEW M \in Int, max <= M
  PROVE  Level(kind, size, chunk, b, e, M, k, n)
<1>1. Slack(k) \in Int
  BY SlackIs
<1>2. PICK v \in Int, w \in Int : v = max + 4 * Slack(k) /\ w = M + 4 * Slack(k) /\ v <= w
  BY <1>1
<1>3. /\ 4 * k - 4 * Slack(k) <= size /\ size <= max
      /\ Follows(chunk.code, b, e, v, n)
      /\ kind = "else" => Follows(chunk.head, k, k, v, n)
      /\ kind = "body" => Follows(chunk.head, k, k + 1, v, n)
  BY <1>2 DEF Level
<1>4. /\ Follows(chunk.code, b, e, w, n)
      /\ kind = "else" => Follows(chunk.head, k, k, w, n)
      /\ kind = "body" => Follows(chunk.head, k, k + 1, w, n)
  BY <1>2, <1>3, FollowsMore
<1>5. size <= M
  BY <1>3
<1> QED
  BY <1>2, <1>3, <1>4, <1>5 DEF Level

(* The kinds of the scopes after an expression.                            *)
LEMMA KindsKept ==
  ASSUME ScopesOK(scopes), NEW r, NEW sd, sd \in {Extended(r), Restored(r)}, NEW i \in 1..Len(scopes)
  PROVE  sd[i].kind = scopes[i].kind
<1>1. scopes \in Seq(Scope)
  BY DEF ScopesOK
<1>2. PICK m, v : /\ m = Raised(scopes[Base].max, NextSlot(top) + Len(r.def))
                  /\ v = scopes[top].vars \o r.def
  OBVIOUS
<1>3. DOMAIN scopes = 1..Len(scopes) /\ \A j \in 1..Len(scopes) : scopes[j] \in Scope
  BY <1>1
<1>4. Restored(r) = [scopes EXCEPT ![Base].max = m]
  BY <1>2 DEF Restored
<1> DEFINE x == [scopes[Base] EXCEPT !.max = m]
           s1 == [scopes EXCEPT ![Base] = x]
           y == [s1[top] EXCEPT !.vars = s1[top].vars \o r.def]
           s2 == [s1 EXCEPT ![top] = y]
<1>5. Restored(r) = s1
  BY <1>4
<1>6. Extended(r) = s2
  BY <1>2 DEF Extended
<1>7. \A j \in 1..Len(scopes) : "kind" \in DOMAIN scopes[j]
  BY <1>3 DEF Scope
<1>8. ASSUME NEW j \in 1..Len(scopes) PROVE s1[j].kind = scopes[j].kind /\ "kind" \in DOMAIN s1[j]
  <2>1. CASE j = Base
    <3>1. s1[j] = x
      BY <1>3, <2>1
    <3>2. x.kind = scopes[j].kind /\ "kind" \in DOMAIN x
      BY <1>7, <2>1
    <3> QED
      BY <3>1, <3>2
  <2>2. CASE j # Base
    BY <1>3, <1>7, <2>2
  <2> QED
    BY <2>1, <2>2
<1>9. DOMAIN s1 = 1..Len(scopes)
  BY <1>3
<1> HIDE DEF x, s1
<1>10. s2[i].kind = s1[i].kind
  <2>1. CASE i = top
    <3>1. s2[i] = y
      BY <1>9, <2>1
    <3>2. y.kind = s1[i].kind
      BY <1>8, <2>1
    <3> QED
      BY <3>1, <3>2
  <2>2. CASE i # top
    BY <1>9, <2>2
  <2> QED
    BY <2>1, <2>2
<1> QED
  BY <1>5, <1>6, <1>8, <1>10

(* What is booked for an expression.                                       *)
Books(su, st, t, b, T) ==
  /\ su[t].size = T.size /\ su[b].max = T.max
  /\ \A i \in 1..t : /\ i # t => su[i].size = st[i].size
                     /\ i # b => su[i].max = st[i].max
                     /\ i # t /\ i # b => su[i] = st[i]

LEMMA BookedParts ==
  ASSUME NEW t \in Nat \ {0}, StacksOK(stacks, t), t = top, NEW b \in 1..t, b = Base,
         NEW r, NEW T, T = Track(stacks[t].size, stacks[b].max, r.code)
  PROVE  Books(Booked(r), stacks, t, b, T)
<1>1. stacks \in Seq(Sizing) /\ Len(stacks) = t
  BY DEF StacksOK
<1>2. \A i \in 1..t : stacks[i] \in Sizing
  BY <1>1
<1>3. \A i \in 1..t : {"size", "max"} \subseteq DOMAIN stacks[i]
  BY <1>2 DEF Sizing
<1> DEFINE x == [stacks[t] EXCEPT !.size = T.size]
           s1 == [stacks EXCEPT ![t] = x]
           y == [s1[b] EXCEPT !.max = T.max]
           s2 == [s1 EXCEPT ![b] = y]
<1>4. Booked(r) = s2
  BY DEF Booked
<1>5. x.size = T.size /\ x.max = stacks[t].max /\ {"size", "max"} \subseteq DOMAIN x
  BY <1>3
<1> HIDE DEF x
<1>6. DOMAIN s1 = 1..t /\ s1[t] = x /\ \A i \in 1..t : i # t => s1[i] = stacks[i]
  BY <1>1
<1> HIDE DEF s1
<1>7. y.max = T.max /\ y.size = s1[b].size
  BY <1>3, <1>5, <1>6
<1> HIDE DEF y
<1>8. s2[b] = y /\ \A i \in 1..t : i # b => s2[i] = s1[i]
  BY <1>6
<1> HIDE DEF s2
<1> QED
  BY <1>4, <1>5, <1>6, <1>7, <1>8 DEF Books

(* The booked stack of a frame fits the 16 bits of a handle.               *)
StacksFit == \A i \in DOMAIN stacks : stacks[i].max < ShortRange

(* The code of an expression from depth k, l words, and what is booked.    *)
Flowing(code, T, s, m, k, l, n) ==
  /\ Whole(code) /\ T \in Sizing
  /\ T.size = s + 4 * l /\ T.size <= T.max /\ m <= T.max
  /\ Follows(code, k, k + l, T.max + 4 * Slack(k), n)

LEMMA ExprFlows ==
  ASSUME NEW code, NEW l \in Nat, NEW n \in Nat, Priced(code, 0, l, n),
         NEW s \in 0..SizeRange-1, NEW m \in 0..SizeRange-1, s <= m,
         NEW k \in Nat, 4 * k - 4 * Slack(k) <= s,
         NEW T, T = Track(s, m, code), T.max < ShortRange
  PROVE  Flowing(code, T, s, m, k, l, n)
<1>1. Whole(code)
  BY DEF Priced
<1>2. code \in Seq(Cell)
  BY <1>1, WholeParts DEF Whole
<1>3. T \in Sizing /\ m <= T.max
  BY <1>2, TrackTyped, TrackRaises
<1>4. s \in Nat /\ m \in Nat /\ T.max \in Nat /\ T.size \in Nat /\ Slack(k) \in Nat
  <2>1. Slack(k) \in Nat
    BY SlackIs
  <2> QED
    BY <1>3, <2>1, SizeRangePositive DEF Sizing
<1>5. Pays(code, 0, l, n, s, T)
  <2>1. 4 * 0 <= s
    BY <1>4
  <2> QED
    BY <2>1 DEF Priced, Prices
<1>6. PICK w \in Int, v \in Int : w = 4 * 0 + T.max - s /\ v = T.max + 4 * Slack(k) /\ w + 4 * k <= v
  BY <1>4
<1>7. T.size = s + 4 * l /\ T.size <= T.max
  BY <1>4, <1>5 DEF Pays
<1>8. Follows(code, 0, l, w, n)
  BY <1>5, <1>6 DEF Pays
<1>9. Follows(code, 0 + k, l + k, v, n)
  BY <1>1, <1>6, <1>8, FollowsDeeper
<1>10. 0 + k = k /\ l + k = k + l
  OBVIOUS
<1> QED
  BY <1>1, <1>3, <1>6, <1>7, <1>9, <1>10 DEF Flowing

LEMMA RoomGrows ==
  ASSUME NEW u \in Nat, NEW g \in Nat, NEW h \in Nat, g <= h
  PROVE  u + 4 * g \in Int /\ u + 4 * h \in Int /\ u + 4 * g <= u + 4 * h
OBVIOUS

LEMMA BookedGrows ==
  ASSUME NEW s \in Nat, NEW k \in Nat, NEW l \in Nat, NEW j \in Nat, j = k \/ j = k + l,
         NEW g \in Nat, NEW h \in Nat, g <= h, 4 * k - 4 * g <= s
  PROVE  4 * j - 4 * h <= s + 4 * l
OBVIOUS

(* A scope to which the code of an expression goes.                        *)
LEMMA LevelEmits ==
  ASSUME NEW kind, NEW chunk, Whole(chunk.code), Whole(chunk.head),
         NEW s \in 0..SizeRange-1, NEW m \in 0..SizeRange-1,
         NEW b, NEW n \in Nat, NEW k \in Nat, NEW l \in Nat,
         NEW j \in Nat, j = k \/ j = k + l, kind \in {"else", "body"} => j = k,
         NEW code, NEW T, Flowing(code, T, s, m, k, l, n),
         Level(kind, s, chunk, b, k, m, k, n),
         NEW new, new.head = chunk.head, new.code = chunk.code \o code
  PROVE  Level(kind, T.size, new, b, k + l, T.max, j, n)
<1>1. /\ Whole(code) /\ T.size = s + 4 * l /\ T.size <= T.max /\ m <= T.max
      /\ Follows(code, k, k + l, T.max + 4 * Slack(k), n) /\ T \in Sizing
  BY DEF Flowing
<1>2. s \in Nat /\ m \in Nat /\ T.max \in Nat /\ T.size \in Nat
  BY <1>1, SizeRangePositive DEF Sizing
<1>3. Slack(k) \in Nat /\ Slack(j) \in Nat /\ Slack(k) <= Slack(j)
  <2>1. Slack(k) \in Nat /\ Slack(j) \in Nat
    BY SlackIs
  <2>2. Slack(k) <= Slack(k + l)
    BY SlackIs
  <2>3. Slack(k) <= Slack(k)
    BY <2>1
  <2> QED
    BY <2>1, <2>2, <2>3
<1>4. PICK v \in Int, w \in Int : v = T.max + 4 * Slack(k) /\ w = T.max + 4 * Slack(j) /\ v <= w
  <2>1. /\ T.max + 4 * Slack(k) \in Int /\ T.max + 4 * Slack(j) \in Int
        /\ T.max + 4 * Slack(k) <= T.max + 4 * Slack(j)
    BY <1>2, <1>3, RoomGrows
  <2> QED
    BY <2>1, Zenon
<1>5. Level(kind, s, chunk, b, k, T.max, k, n)
  BY <1>1, <1>2, LevelMore
<1>6. Follows(chunk.code, b, k, v, n)
  BY <1>4, <1>5 DEF Level
<1>7. Follows(new.code, b, k + l, v, n)
  BY <1>1, <1>4, <1>6, FollowsConcat
<1>8. Whole(new.code)
  BY <1>1, WholeConcat
<1>9. Follows(new.code, b, k + l, w, n)
  BY <1>4, <1>7, <1>8, FollowsMore
<1>10. /\ kind = "else" => Follows(new.head, j, j, w, n)
       /\ kind = "body" => Follows(new.head, j, j + 1, w, n)
  BY <1>4, <1>5 DEF Level
<1>11. 4 * j - 4 * Slack(j) <= T.size
  <2>1. 4 * k - 4 * Slack(k) <= s
    BY DEF Level
  <2>2. 4 * j - 4 * Slack(j) <= s + 4 * l
    BY <1>2, <1>3, <2>1, BookedGrows
  <2> QED
    BY <1>1, <2>2
<1> QED
  BY <1>1, <1>4, <1>9, <1>10, <1>11 DEF Level

LEMMA EmittersWhole ==
  ASSUME NEW sc, NEW em, NEW fn, EmittersOK(sc, em, fn, TRUE), NEW i \in 1..Len(sc)
  PROVE  Whole(em[i].head) /\ Whole(em[i].code)
<1>1. /\ Good(em[i].head, MaxFor(sc, i), CallsFor(sc, fn, i), TRUE)
      /\ Good(em[i].code, MaxFor(sc, i), CallsFor(sc, fn, i), TRUE)
  BY DEF EmittersOK
<1> QED
  BY <1>1, GoodWhole

Emits(es, em, t, code) ==
  /\ es[t].head = em[t].head /\ es[t].code = em[t].code \o code
  /\ \A i \in 1..t : i # t => es[i] = em[i]

LEMMA EmitParts ==
  ASSUME NEW t \in Nat \ {0}, NEW em \in Seq(Chunk), Len(em) = t, NEW code
  PROVE  Emits(Emit(em, code), em, t, code)
<1> DEFINE x == [em[t] EXCEPT !.code = em[t].code \o code]
<1>1. Emit(em, code) = [em EXCEPT ![t] = x]
  BY DEF Emit
<1>2. em[t] \in Chunk
  OBVIOUS
<1>3. x.head = em[t].head /\ x.code = em[t].code \o code
  BY <1>2 DEF Chunk
<1> HIDE DEF x
<1> QED
  BY <1>1, <1>3 DEF Emits

(* The scopes, and what is booked and emitted in them.                     *)
Shape(t, b) ==
  /\ t \in Nat \ {0} /\ b \in 1..t /\ b \in {1, 2} /\ t = top /\ b = Base
  /\ ScopesOK(scopes) /\ scopes \in Seq(Scope) /\ StacksOK(stacks, t)
  /\ emitters \in Seq(Chunk) /\ Len(emitters) = t
  /\ EmittersOK(scopes, emitters, funcs, TRUE)
  /\ scopes[b].kind \notin BlockKinds

LEMMA InvParts ==
  ASSUME NEW K, CodeInv(TRUE, K), NEW t, t = Len(scopes), NEW b, b = FrameBase(scopes)
  PROVE  Shape(t, b)
<1>1. /\ ScopesOK(scopes) /\ EmittersOK(scopes, emitters, funcs, TRUE) /\ StacksOK(stacks, t)
  BY DEF CodeInv
<1>2. t \in Nat \ {0} /\ scopes \in Seq(Scope) /\ scopes[1].kind = "root"
  BY <1>1 DEF ScopesOK
<1>3. b \in 1..t /\ b \in {1, 2} /\ t = top /\ b = Base
  BY <1>2 DEF FrameBase, Base, top
<1>4. scopes[b].kind \in {"root", "func"}
  <2>1. CASE b = 1
    BY <1>2, <2>1
  <2>2. CASE b # 1
    BY <2>2 DEF FrameBase
  <2> QED
    BY <2>1, <2>2
<1>5. scopes[b].kind \notin BlockKinds
  BY <1>4 DEF BlockKinds
<1>6. emitters \in Seq(Chunk) /\ Len(emitters) = t
  BY <1>1 DEF EmittersOK
<1> QED
  BY <1>1, <1>2, <1>3, <1>5, <1>6 DEF Shape

LEMMA StackParts ==
  ASSUME NEW t \in Nat, NEW st, StacksOK(st, t), NEW i \in 1..t
  PROVE  st[i].size \in 0..SizeRange-1 /\ st[i].max \in 0..SizeRange-1
         /\ st[i].size \in Nat /\ st[i].max \in Nat
<1>1. st[i] \in Sizing
  BY DEF StacksOK
<1>2. st[i].size \in 0..SizeRange-1 /\ st[i].max \in 0..SizeRange-1
  BY <1>1 DEF Sizing
<1> QED
  BY <1>2, SizeRangePositive

(* The code of an expression, where the frame has depth k.                 *)
EmittedFor(e, T, s, m, k, l, n) ==
  /\ Flowing(Compile(e).code, T, s, m, k, l, n)
  /\ Stores(e) => l = 0
  /\ IsValue(e) /\ Plain(Last(e), n) => l = 1

LEMMA ExprBooked ==
  ASSUME NEW K, CodeInv(TRUE, K), NEW t, t = Len(scopes), NEW b, b = FrameBase(scopes),
         NEW n \in Nat, NEW k \in Nat, NEW z, Nested(scopes, stacks, emitters, b, t, z, k, n),
         NEW e \in AllExprs, Compile(e).ok, Fair(e, n), NamesKnown(e),
         NEW T, T = Track(stacks[t].size, stacks[b].max, Compile(e).code), T.max < ShortRange
  PROVE  \E l \in Nat : EmittedFor(e, T, stacks[t].size, stacks[b].max, k, l, n)
<1>1. /\ t \in Nat \ {0} /\ b \in 1..t /\ ScopesOK(scopes) /\ StacksOK(stacks, t) /\ t \in b..t
  <2>1. Shape(t, b)
    BY InvParts
  <2> QED
    BY <2>1 DEF Shape
<1>2. PICK d \in Nat : IsList(descs, d)
  <2>1. descs \in Seq(FuncDecls)
    BY DEF CodeInv, DescsOK
  <2> QED
    BY <2>1 DEF IsList
<1>3. PICK l \in Nat : /\ Priced(Compile(e).code, 0, l, n)
                       /\ Stores(e) => l = 0
                       /\ IsValue(e) /\ Plain(Last(e), n) => l = 1
  BY <1>1, <1>2, ExprCosts
<1>4. PICK s \in 0..SizeRange-1, m \in 0..SizeRange-1 : s = stacks[t].size /\ m = stacks[b].max
  <2>1. t \in 1..t
    BY <1>1
  <2> QED
    BY <1>1, <2>1, StackParts
<1>5. 4 * k - 4 * Slack(k) <= s /\ s <= m
  <2>1. LevelAt(scopes, stacks, emitters, t, IF t = b THEN z ELSE k, stacks[b].max, k, n)
    BY <1>1 DEF Nested
  <2> QED
    BY <1>4, <2>1 DEF LevelAt, Level
<1>6. Flowing(Compile(e).code, T, s, m, k, l, n)
  BY <1>3, <1>4, <1>5, ExprFlows
<1> QED
  BY <1>3, <1>4, <1>6 DEF EmittedFor

Ends(sc, i, t, k, l) == IF i = t THEN k + l ELSE k + Pending(sc, i)

(* The scopes of a frame once an expression is compiled in the innermost.  *)
LEMMA ExprLevels ==
  ASSUME NEW K, CodeInv(TRUE, K), NEW t, t = Len(scopes), NEW b, b = FrameBase(scopes),
         NEW n \in Nat, NEW k \in Nat, NEW z, Nested(scopes, stacks, emitters, b, t, z, k, n),
         NEW r, NEW T, T = Track(stacks[t].size, stacks[b].max, r.code), NEW l \in Nat,
         Flowing(r.code, T, stacks[t].size, stacks[b].max, k, l, n),
         NEW j \in Nat, j = k \/ (b = t /\ j = k + l), NEW i \in b..t
  PROVE  Level(scopes[i].kind, Booked(r)[i].size, Emit(emitters, r.code)[i],
               IF i = b THEN z ELSE j, Ends(scopes, i, t, k, l), T.max, j, n)
<1>1. /\ t \in Nat \ {0} /\ b \in 1..t /\ t = top /\ b = Base /\ i \in 1..t
      /\ ScopesOK(scopes) /\ StacksOK(stacks, t) /\ emitters \in Seq(Chunk) /\ Len(emitters) = t
      /\ EmittersOK(scopes, emitters, funcs, TRUE)
      /\ scopes[b].kind \notin BlockKinds
  <2>1. Shape(t, b)
    BY InvParts
  <2>2. t \in Nat \ {0} /\ b \in 1..t
    BY <2>1 DEF Shape
  <2>3. i \in 1..t
    BY <2>2
  <2> QED
    BY <2>1, <2>3, Zenon DEF Shape
<1>2. /\ Booked(r)[t].size = T.size /\ (i # t => Booked(r)[i].size = stacks[i].size)
  <2>1. Books(Booked(r), stacks, t, b, T)
    BY <1>1, BookedParts
  <2> QED
    BY <1>1, <2>1 DEF Books
<1>3. Whole(emitters[i].head) /\ Whole(emitters[i].code)
  BY <1>1, EmittersWhole
<1>4. PICK s \in 0..SizeRange-1, m \in 0..SizeRange-1 : s = stacks[i].size /\ m = stacks[b].max
  BY <1>1, StackParts
<1>5. Level(scopes[i].kind, s, emitters[i], IF i = b THEN z ELSE k, k + Pending(scopes, i), m, k, n)
  BY <1>4 DEF Nested, LevelAt
<1>6. T \in Sizing /\ m <= T.max
  BY <1>4 DEF Flowing
<1>7. CASE i = t
  <2>1. Pending(scopes, i) = 0
    BY <1>1, <1>7 DEF Pending
  <2>2. PICK y : y = IF i = b THEN z ELSE k
    OBVIOUS
  <2>3. y = IF i = b THEN z ELSE j
    BY <1>7, <2>2
  <2>4. scopes[i].kind \in {"else", "body"} => j = k
    BY <1>1, <1>7 DEF BlockKinds
  <2>5. PICK new : /\ new = Emit(emitters, r.code)[i]
                   /\ new.head = emitters[i].head /\ new.code = emitters[i].code \o r.code
    <3>1. Emits(Emit(emitters, r.code), emitters, t, r.code)
      BY <1>1, EmitParts
    <3> QED
      BY <1>7, <3>1 DEF Emits
  <2>6. Flowing(r.code, T, s, m, k, l, n)
    BY <1>4, <1>7
  <2>7. Level(scopes[i].kind, s, emitters[i], y, k, m, k, n)
    <3>1. k + Pending(scopes, i) = k
      BY <2>1
    <3> QED
      BY <1>5, <2>2, <3>1
  <2>8. j = k \/ j = k + l
    OBVIOUS
  <2>9. Level(scopes[i].kind, T.size, new, y, k + l, T.max, j, n)
    <3>1. PICK kind, chunk : kind = scopes[i].kind /\ chunk = emitters[i]
      OBVIOUS
    <3>2. /\ Whole(chunk.code) /\ Whole(chunk.head) /\ (kind \in {"else", "body"} => j = k)
          /\ new.head = chunk.head /\ new.code = chunk.code \o r.code
          /\ Level(kind, s, chunk, y, k, m, k, n)
      BY <1>3, <2>4, <2>5, <2>7, <3>1
    <3>3. Level(kind, T.size, new, y, k + l, T.max, j, n)
      BY <2>6, <2>8, <3>2, LevelEmits
    <3> QED
      BY <3>1, <3>3
  <2>10. Ends(scopes, i, t, k, l) = k + l
    BY <1>7 DEF Ends
  <2> QED
    BY <1>2, <1>7, <2>3, <2>5, <2>9, <2>10
<1>8. CASE i # t
  <2>1. j = k
    BY <1>1, <1>8
  <2>2. Emit(emitters, r.code)[i] = emitters[i]
    <3>1. Emits(Emit(emitters, r.code), emitters, t, r.code)
      BY <1>1, EmitParts
    <3> QED
      BY <1>1, <1>8, <3>1 DEF Emits
  <2>3. T.max \in Int /\ s \in Int /\ m \in Int
    BY <1>6, SizeRangePositive DEF Sizing
  <2>4. PICK y : y = IF i = b THEN z ELSE k
    OBVIOUS
  <2>5. Level(scopes[i].kind, s, emitters[i], y, k + Pending(scopes, i), T.max, k, n)
    BY <1>3, <1>5, <1>6, <2>3, <2>4, LevelMore
  <2>6. Ends(scopes, i, t, k, l) = k + Pending(scopes, i)
    BY <1>8 DEF Ends
  <2> QED
    BY <1>2, <1>4, <1>8, <2>1, <2>2, <2>4, <2>5, <2>6
<1> QED
  BY <1>7, <1>8

LEMMA BooksNow ==
  ASSUME NEW K, CodeInv(TRUE, K), NEW t, t = Len(scopes), NEW b, b = FrameBase(scopes),
         NEW r, NEW T, T = Track(stacks[t].size, stacks[b].max, r.code)
  PROVE  Books(Booked(r), stacks, t, b, T)
<1>1. Shape(t, b)
  BY InvParts
<1>2. t \in Nat \ {0} /\ b \in 1..t /\ t = top /\ b = Base /\ StacksOK(stacks, t)
  BY <1>1 DEF Shape
<1> QED
  BY <1>2, BookedParts

LEMMA ExprBase ==
  ASSUME NEW K, CodeInv(TRUE, K), NEW t, t = Len(scopes), NEW b, b = FrameBase(scopes),
         NEW n \in Nat, NEW k \in Nat, NEW z, Nested(scopes, stacks, emitters, b, t, z, k, n),
         NEW r, NEW T, T = Track(stacks[t].size, stacks[b].max, r.code), NEW l \in Nat,
         Flowing(r.code, T, stacks[t].size, stacks[b].max, k, l, n)
  PROVE  4 * Ends(scopes, b, t, k, l) <= Booked(r)[b].size
<1>1. t \in Nat \ {0} /\ b \in 1..t /\ t = top /\ b = Base /\ StacksOK(stacks, t)
  <2>1. Shape(t, b)
    BY InvParts
  <2> QED
    BY <2>1 DEF Shape
<1>2. /\ Booked(r)[t].size = T.size /\ Booked(r)[b].max = T.max
      /\ (b # t => Booked(r)[b].size = stacks[b].size)
  <2>1. Books(Booked(r), stacks, t, b, T)
    BY <1>1, BookedParts
  <2> QED
    BY <1>1, <2>1 DEF Books
<1>3. T.size = stacks[t].size + 4 * l
  BY DEF Flowing
<1>4. 4 * (k + Pending(scopes, b)) <= stacks[b].size /\ stacks[b].size \in Nat
  BY <1>1, StackParts DEF Nested
<1>5. CASE b = t
  <2>1. Pending(scopes, b) = 0
    BY <1>1, <1>5 DEF Pending
  <2>2. 4 * k <= stacks[t].size
    BY <1>4, <1>5, <2>1
  <2> QED
    BY <1>2, <1>3, <1>4, <1>5, <2>2 DEF Ends
<1>6. CASE b # t
  BY <1>2, <1>4, <1>6 DEF Ends
<1> QED
  BY <1>5, <1>6

SameKinds(sd, sc) ==
  /\ Len(sd) = Len(sc) /\ sd \in Seq(Scope)
  /\ \A i \in 1..Len(sc) : sd[i].kind = sc[i].kind

LEMMA ExprScopes ==
  ASSUME NEW K, CodeInv(TRUE, K), NEW e \in AllExprs, Compile(e).ok,
         NEW sd, sd \in {Extended(Compile(e)), Restored(Compile(e))}
  PROVE  SameKinds(sd, scopes)
<1>1. ScopesOK(sd) /\ Len(sd) = Len(scopes)
  <2>1. ScopesOK(sd) /\ Grown(scopes, sd)
    BY ExtendedGrown DEF CodeInv
  <2> QED
    BY <2>1 DEF Grown
<1>2. ScopesOK(scopes)
  BY DEF CodeInv
<1>3. \A i \in 1..Len(scopes) : sd[i].kind = scopes[i].kind
  BY <1>2, KindsKept
<1>4. sd \in Seq(Scope)
  BY <1>1 DEF ScopesOK
<1> QED
  BY <1>1, <1>3, <1>4 DEF SameKinds

LEMMA SamePending ==
  ASSUME NEW sc \in Seq(Scope), NEW sd, SameKinds(sd, sc)
  PROVE  /\ FrameBase(sd) = FrameBase(sc)
         /\ \A i \in 1..Len(sc) : Pending(sd, i) = Pending(sc, i)
<1>1. Len(sd) = Len(sc) /\ Len(sc) \in Nat /\ \A i \in 1..Len(sc) : sd[i].kind = sc[i].kind
  BY DEF SameKinds
<1>2. FrameBase(sd) = FrameBase(sc)
  <2>1. CASE Len(sc) >= 2
    <3>1. 2 \in 1..Len(sc)
      BY <1>1, <2>1
    <3> QED
      BY <1>1, <3>1 DEF FrameBase
  <2>2. CASE ~(Len(sc) >= 2)
    BY <1>1, <2>2 DEF FrameBase
  <2> QED
    BY <2>1, <2>2
<1>3. ASSUME NEW i \in 1..Len(sc) PROVE Pending(sd, i) = Pending(sc, i)
  <2>1. CASE i < Len(sc)
    <3>1. i + 1 \in 1..Len(sc)
      BY <1>1, <2>1
    <3> QED
      BY <1>1, <3>1 DEF Pending
  <2>2. CASE ~(i < Len(sc))
    BY <1>1, <2>2 DEF Pending
  <2> QED
    BY <2>1, <2>2
<1> QED
  BY <1>2, <1>3

(* The root's frame is left alone while a function is compiled.            *)
LEMMA RootKept ==
  ASSUME NEW sc, NEW st, NEW em, NEW z, NEW n, RootFits(sc, st, em, z, n),
         NEW sd, NEW su, NEW en, FrameBase(sc) = 2, FrameBase(sd) = 2,
         sd[1].kind = sc[1].kind, su[1] = st[1], en[1] = em[1]
  PROVE  RootFits(sd, su, en, z, n)
<1>1. Pending(sc, 1) = 0 /\ Pending(sd, 1) = 0
  <2>1. sc[1+1].kind = "func" /\ sd[1+1].kind = "func"
    BY DEF FrameBase
  <2> QED
    BY <2>1 DEF Pending
<1>2. PICK k \in Nat : Nested(sc, st, em, 1, 1, z, k, n)
  BY DEF RootFits
<1>3. 4 * (k + Pending(sd, 1)) <= su[1].size
  BY <1>1, <1>2 DEF Nested
<1>4. ASSUME NEW i \in 1..1 PROVE LevelAt(sd, su, en, i, IF i = 1 THEN z ELSE k, su[1].max, k, n)
  <2>1. i = 1
    OBVIOUS
  <2>2. LevelAt(sc, st, em, i, IF i = 1 THEN z ELSE k, st[1].max, k, n)
    BY <1>2 DEF Nested
  <2> QED
    BY <1>1, <2>1, <2>2 DEF LevelAt
<1>5. \A i \in 1+1..1 : sd[i].kind \in BlockKinds
  OBVIOUS
<1>6. Nested(sd, su, en, 1, 1, z, k, n)
  BY <1>3, <1>4, <1>5 DEF Nested
<1> QED
  BY <1>6 DEF RootFits

LEMMA FrameNow ==
  ASSUME NEW sc, NEW st, NEW em, NEW z, NEW n, FrameFits(sc, st, em, z, n),
         NEW t, t = Len(sc), NEW b, b = FrameBase(sc)
  PROVE  \E k \in Nat : /\ Nested(sc, st, em, b, t, Origin(sc, z), k, n)
                        /\ WithWhile /\ b = 2 => k = 0
BY DEF FrameFits

LEMMA FrameIs ==
  ASSUME NEW sc, NEW st, NEW em, NEW z, NEW n, NEW t, t = Len(sc), NEW b, b = FrameBase(sc),
         NEW k \in Nat, NEW y, y = IF b = 2 THEN 0 ELSE z, Nested(sc, st, em, b, t, y, k, n),
         WithWhile /\ b = 2 => k = 0
  PROVE  FrameFits(sc, st, em, z, n)
BY DEF FrameFits, Origin

(* The expression statement leaves its value in the frame.                 *)
LEMMA ExprStatFits ==
  ASSUME NEW K, CodeInv(TRUE, K), NEW t, t = Len(scopes), NEW b, b = FrameBase(scopes),
         NEW n \in Nat, NEW k \in Nat, NEW y, Nested(scopes, stacks, emitters, b, t, y, k, n),
         NEW r, NEW T, T = Track(stacks[t].size, stacks[b].max, r.code), NEW l \in Nat,
         Flowing(r.code, T, stacks[t].size, stacks[b].max, k, l, n), b # t => l = 0,
         NEW sd, SameKinds(sd, scopes)
  PROVE  Nested(sd, Booked(r), Emit(emitters, r.code), b, t, y, k + l, n)
<1>1. /\ t \in Nat \ {0} /\ b \in 1..t /\ b \in b..t /\ scopes \in Seq(Scope)
  <2>1. Shape(t, b)
    BY InvParts
  <2>2. t \in Nat \ {0} /\ b \in 1..t /\ scopes \in Seq(Scope)
    BY <2>1 DEF Shape
  <2> QED
    BY <2>2
<1>2. \A i \in 1..t : Pending(sd, i) = Pending(scopes, i) /\ sd[i].kind = scopes[i].kind
  BY <1>1, SamePending DEF SameKinds
<1>3. Pending(scopes, t) = 0
  BY <1>1 DEF Pending
<1>4. PICK j \in Nat : j = k + l /\ (j = k \/ (b = t /\ j = k + l))
  BY <1>1
<1>5. ASSUME NEW i \in b..t PROVE Ends(scopes, i, t, k, l) = j + Pending(sd, i)
  <2>1. i \in 1..t
    BY <1>1
  <2>2. Pending(scopes, i) \in {0, 1}
    BY PendingIs
  <2>3. CASE i = t
    BY <1>2, <1>3, <1>4, <2>1, <2>3 DEF Ends
  <2>4. CASE i # t
    <3>1. b # t
      BY <1>1, <2>4
    <3> QED
      BY <1>2, <1>4, <2>1, <2>2, <2>4, <3>1 DEF Ends
  <2> QED
    BY <2>3, <2>4
<1>6. 4 * Ends(scopes, b, t, k, l) <= Booked(r)[b].size /\ Booked(r)[b].max = T.max
  <2>1. 4 * Ends(scopes, b, t, k, l) <= Booked(r)[b].size
    BY ExprBase
  <2>2. Books(Booked(r), stacks, t, b, T)
    BY BooksNow
  <2> QED
    BY <2>1, <2>2 DEF Books
<1>7. 4 * (j + Pending(sd, b)) <= Booked(r)[b].size
  BY <1>1, <1>5, <1>6
<1>8. ASSUME NEW i \in b..t
      PROVE  LevelAt(sd, Booked(r), Emit(emitters, r.code), i, IF i = b THEN y ELSE j,
                     Booked(r)[b].max, j, n)
  <2>1. Level(scopes[i].kind, Booked(r)[i].size, Emit(emitters, r.code)[i],
              IF i = b THEN y ELSE j, Ends(scopes, i, t, k, l), T.max, j, n)
    <3>1. j = k \/ (b = t /\ j = k + l)
      BY <1>4
    <3> QED
      BY <3>1, ExprLevels
  <2>2. Ends(scopes, i, t, k, l) = j + Pending(sd, i)
    BY <1>5
  <2>3. i \in 1..t
    BY <1>1
  <2>4. sd[i].kind = scopes[i].kind
    BY <1>2, <2>3
  <2> QED
    BY <1>6, <2>1, <2>2, <2>4, Zenon DEF LevelAt
<1>9. ASSUME NEW i \in b+1..t PROVE sd[i].kind \in BlockKinds
  <2>1. i \in 1..t
    BY <1>1
  <2> QED
    BY <1>2, <2>1 DEF Nested
<1>10. Nested(sd, Booked(r), Emit(emitters, r.code), b, t, y, j, n)
  BY <1>7, <1>8, <1>9 DEF Nested
<1> QED
  BY <1>4, <1>10

(* What the expression of a statement or of a condition does to the frame. *)
Taken(e, t, b, n, y, k, l, T) ==
  /\ Shape(t, b) /\ t = Len(scopes) /\ b = FrameBase(scopes)
  /\ y = IF b = 2 THEN 0 ELSE y
  /\ k \in Nat /\ l \in Nat
  /\ Nested(scopes, stacks, emitters, b, t, y, k, n)
  /\ WithWhile /\ b = 2 => k = 0
  /\ T = Track(stacks[t].size, stacks[b].max, Compile(e).code)
  /\ EmittedFor(e, T, stacks[t].size, stacks[b].max, k, l, n)

LEMMA ExprTaken ==
  ASSUME NEW K, CodeInv(TRUE, K), NEW n \in Nat, NEW z, Disciplined(n),
         FrameFits(scopes, stacks, emitters, z, n),
         NEW e \in AllExprs, Compile(e).ok, NamesKnown(e),
         Booked(Compile(e))[FrameBase(scopes)].max < ShortRange
  PROVE  \E k \in Nat, l \in Nat, T \in Sizing : Taken(e, Len(scopes), FrameBase(scopes), n, Origin(scopes, z), k, l, T)
<1>1. PICK t, b, y : t = Len(scopes) /\ b = FrameBase(scopes) /\ y = Origin(scopes, z)
  OBVIOUS
<1>2. Shape(t, b)
  BY <1>1, InvParts
<1>3. PICK k \in Nat : Nested(scopes, stacks, emitters, b, t, y, k, n) /\ (WithWhile /\ b = 2 => k = 0)
  BY <1>1, FrameNow
<1>4. PICK T : T = Track(stacks[t].size, stacks[b].max, Compile(e).code)
  OBVIOUS
<1>5. PICK r : r = Compile(e)
  OBVIOUS
<1>6. Books(Booked(r), stacks, t, b, T)
  BY <1>1, <1>4, <1>5, BooksNow
<1>7. T.max < ShortRange
  BY <1>1, <1>5, <1>6 DEF Books
<1>8. Fair(e, n)
  BY DEF Disciplined
<1>9. PICK l \in Nat : EmittedFor(e, T, stacks[t].size, stacks[b].max, k, l, n)
  BY <1>1, <1>3, <1>4, <1>7, <1>8, ExprBooked
<1>10. y = IF b = 2 THEN 0 ELSE y
  BY <1>1 DEF Origin
<1>11. Taken(e, t, b, n, y, k, l, T)
  BY <1>1, <1>2, <1>3, <1>4, <1>9, <1>10 DEF Taken
<1>12. T \in Sizing
  BY <1>9 DEF EmittedFor, Flowing
<1> QED
  BY <1>1, <1>11, <1>12

LEMMA BlockIsBlock ==
  ASSUME NEW sc, NEW st, NEW em, NEW b \in Nat, NEW t \in Nat, NEW y, NEW k, NEW n,
         Nested(sc, st, em, b, t, y, k, n), b < t
  PROVE  sc[t].kind \in BlockKinds
<1>1. t \in b+1..t
  OBVIOUS
<1> QED
  BY <1>1 DEF Nested

LEMMA ExprStatDepth ==
  ASSUME NEW K, CodeInv(TRUE, K), NEW n \in Nat, NEW z, Disciplined(n), DepthInv(z, n),
         NEW e \in Statements, ExprStat(e), NamesKnown(e), StacksFit'
  PROVE  DepthInv(z, n)'
<1>1. PICK r, sd : r = Compile(e) /\ sd = Extended(r)
  OBVIOUS
<1>2. /\ r.ok /\ scopes' = sd /\ stacks' = Booked(r) /\ emitters' = Emit(emitters, r.code) /\ funcs' = funcs
  BY <1>1 DEF ExprStat
<1>3. PICK t, b, y : t = Len(scopes) /\ b = FrameBase(scopes) /\ y = Origin(scopes, z)
  OBVIOUS
<1>4. Shape(t, b)
  BY <1>3, InvParts
<1>5. /\ t \in Nat \ {0} /\ b \in 1..t /\ b \in {1, 2} /\ t = top /\ scopes \in Seq(Scope)
      /\ emitters \in Seq(Chunk) /\ Len(emitters) = t
  BY <1>4 DEF Shape
<1>6. e \in AllExprs
  BY DEF Statements, AllExprs
<1>7. SameKinds(sd, scopes)
  BY <1>1, <1>2, <1>6, ExprScopes
<1>8. FrameBase(sd) = b /\ Len(sd) = t /\ sd \in Seq(Scope)
  BY <1>3, <1>5, <1>7, SamePending DEF SameKinds
<1>9. stacks'[b].max < ShortRange
  <2>1. PICK T : T = Track(stacks[t].size, stacks[b].max, r.code)
    OBVIOUS
  <2>2. StacksOK(stacks', t)
    <3>1. StacksOK(Booked(Compile(e)), Len(sd))
      BY <1>1, <1>2, <1>6, ExprGood
    <3> QED
      BY <1>1, <1>2, <1>8, <3>1
  <2>3. b \in DOMAIN stacks'
    BY <1>5, <2>2 DEF StacksOK
  <2> QED
    BY <2>3 DEF StacksFit
<1>10. FrameFits(scopes, stacks, emitters, z, n)
  BY DEF DepthInv
<1>11. PICK k \in Nat, l \in Nat, T \in Sizing : Taken(e, t, b, n, y, k, l, T)
  BY <1>1, <1>2, <1>3, <1>6, <1>9, <1>10, ExprTaken
<1>12. /\ Nested(scopes, stacks, emitters, b, t, y, k, n) /\ (WithWhile /\ b = 2 => k = 0)
       /\ T = Track(stacks[t].size, stacks[b].max, r.code)
       /\ Flowing(r.code, T, stacks[t].size, stacks[b].max, k, l, n)
       /\ Stores(e) => l = 0
  BY <1>1, <1>11 DEF Taken, EmittedFor
<1>13. b # t => l = 0
  <2> SUFFICES ASSUME b # t PROVE l = 0
    OBVIOUS
  <2>1. scopes[t].kind \in BlockKinds
    BY <1>5, <1>12, BlockIsBlock
  <2>2. e \in StatExprs
    BY <1>5, <2>1 DEF Statements, BlockKinds
  <2> QED
    BY <1>12, <2>2 DEF Disciplined
<1>14. WithWhile /\ b = 2 => k + l = 0
  <2> SUFFICES ASSUME WithWhile, b = 2, b = t PROVE l = 0
    BY <1>12, <1>13
  <2>1. scopes[t].kind = "func"
    BY <1>3, <1>5 DEF FrameBase
  <2>2. e \in StatExprs \cup TopExprs
    BY <1>5, <2>1 DEF Statements
  <2> QED
    BY <1>12, <2>2 DEF Disciplined
<1>15. Nested(sd, Booked(r), Emit(emitters, r.code), b, t, y, k + l, n)
  BY <1>3, <1>7, <1>12, <1>13, ExprStatFits
<1>16. FrameFits(scopes', stacks', emitters', z, n)
  <2>1. k + l \in Nat
    OBVIOUS
  <2>2. y = IF b = 2 THEN 0 ELSE z
    BY <1>3 DEF Origin
  <2>3. PICK j \in Nat : j = k + l
    BY <2>1
  <2>4. Nested(scopes', stacks', emitters', b, t, y, j, n)
    BY <1>2, <1>15, <2>3
  <2>5. t = Len(scopes') /\ b = FrameBase(scopes') /\ (WithWhile /\ b = 2 => j = 0)
    BY <1>2, <1>8, <1>14, <2>3
  <2> QED
    BY <2>2, <2>4, <2>5, FrameIs
<1>17. RootFits(scopes', stacks', emitters', z, n)
  <2>1. CASE b = 2
    <3>1. 1 \in 1..t /\ 1 # t /\ 1 # b
      BY <1>5, <2>1
    <3>2. sd[1].kind = scopes[1].kind
      BY <1>3, <1>7, <3>1 DEF SameKinds
    <3>3. Booked(r)[1] = stacks[1]
      <4>1. Books(Booked(r), stacks, t, b, T)
        BY <1>3, <1>12, BooksNow
      <4> QED
        BY <3>1, <4>1 DEF Books
    <3>4. Emit(emitters, r.code)[1] = emitters[1]
      <4>1. Emits(Emit(emitters, r.code), emitters, t, r.code)
        BY <1>5, EmitParts
      <4> QED
        BY <3>1, <4>1 DEF Emits
    <3>5. RootFits(scopes, stacks, emitters, z, n)
      BY DEF DepthInv
    <3>6. RootFits(sd, Booked(r), Emit(emitters, r.code), z, n)
      BY <1>3, <1>8, <2>1, <3>2, <3>3, <3>4, <3>5, RootKept
    <3> QED
      BY <1>2, <3>6
  <2>2. CASE b # 2
    BY <1>2, <1>8, <2>2 DEF RootFits
  <2> QED
    BY <2>1, <2>2
<1> QED
  BY <1>2, <1>16, <1>17 DEF DepthInv

LEMMA BaseAppended ==
  ASSUME NEW sd \in Seq(Scope), NEW t \in Nat \ {0}, Len(sd) = t, NEW nw \in Scope, nw.kind # "func"
  PROVE  FrameBase(Append(sd, nw)) = FrameBase(sd) /\ Len(Append(sd, nw)) = t + 1
<1>1. /\ Len(Append(sd, nw)) = t + 1 /\ Append(sd, nw)[t+1] = nw
      /\ \A i \in 1..t : Append(sd, nw)[i] = sd[i]
  BY AppendedAt
<1>2. CASE t = 1
  BY <1>1, <1>2 DEF FrameBase
<1>3. CASE t # 1
  <2>1. 2 \in 1..t /\ t >= 2 /\ t + 1 >= 2
    BY <1>3, AtLeastTwo
  <2> QED
    BY <1>1, <2>1 DEF FrameBase
<1> QED
  BY <1>1, <1>2, <1>3

(* What a condition leaves for the blocks of an if statement.              *)
Left(kind) == IF kind \in {"then", "else"} THEN 1 ELSE 0

Levels(sd, su, en, b, t, y, k, p, M, n) ==
  /\ 4 * Ends(sd, b, t, k, p) <= su[b].size /\ su[b].max = M
  /\ \A i \in b..t : Level(sd[i].kind, su[i].size, en[i], IF i = b THEN y ELSE k,
                           Ends(sd, i, t, k, p), M, k, n)
  /\ \A i \in b+1..t : sd[i].kind \in BlockKinds

LEMMA BlockOpensFits ==
  ASSUME NEW t \in Nat \ {0}, NEW b \in 1..t, NEW sd \in Seq(Scope), Len(sd) = t,
         NEW su, StacksOK(su, t), NEW en \in Seq(Chunk), Len(en) = t,
         NEW nw \in Scope, nw.kind \in BlockKinds, NEW size \in 0..SizeRange-1, NEW c \in Chunk,
         NEW y, NEW k \in Nat, NEW n, NEW M, Levels(sd, su, en, b, t, y, k, Left(nw.kind), M, n),
         Level(nw.kind, size, c, k, k, M, k, n)
  PROVE  Nested(Append(sd, nw), Append(su, NewStack(size)), Append(en, c), b, t + 1, y, k, n)
<1>1. PICK se, sv, eo, p : /\ se = Append(sd, nw) /\ sv = Append(su, NewStack(size))
                           /\ eo = Append(en, c) /\ p = Left(nw.kind)
  OBVIOUS
<1>2. Len(se) = t + 1 /\ se[t+1] = nw /\ \A i \in 1..t : se[i] = sd[i]
  BY <1>1, AppendedAt
<1>3. eo[t+1] = c /\ \A i \in 1..t : eo[i] = en[i]
  BY <1>1, AppendedAt
<1>4. sv[t+1] = NewStack(size) /\ \A i \in 1..t : sv[i] = su[i]
  <2>1. PICK x \in Sizing : x = NewStack(size)
    BY NewStackTyped
  <2>2. su \in Seq(Sizing) /\ Len(su) = t
    BY DEF StacksOK
  <2>3. Append(su, x)[t+1] = x /\ \A i \in 1..t : Append(su, x)[i] = su[i]
    BY <2>2, AppendedAt
  <2> QED
    BY <1>1, <2>1, <2>3
<1>5. b \in b..t /\ b \in 1..t /\ b # t + 1 /\ b \in Nat
  OBVIOUS
<1>6. ASSUME NEW i \in b..t PROVE i \in 1..t /\ i \in Nat /\ k + Pending(se, i) = Ends(sd, i, t, k, p)
  <2>1. i \in 1..t /\ i \in Nat
    OBVIOUS
  <2>2. CASE i = t
    <3>1. Pending(se, i) = p
      BY <1>1, <1>2, <2>2 DEF Pending, Left
    <3> QED
      BY <2>1, <2>2, <3>1 DEF Ends
  <2>3. CASE i # t
    <3>1. i + 1 \in 1..t /\ i < t /\ i < t + 1
      BY <2>1, <2>3
    <3>2. Pending(se, i) = Pending(sd, i)
      BY <1>2, <3>1 DEF Pending
    <3> QED
      BY <2>1, <2>3, <3>2 DEF Ends
  <2> QED
    BY <2>2, <2>3
<1>7. 4 * (k + Pending(se, b)) <= sv[b].size /\ sv[b].max = M
  BY <1>1, <1>4, <1>5, <1>6 DEF Levels
<1>8. ASSUME NEW i \in b..t+1
      PROVE  LevelAt(se, sv, eo, i, IF i = b THEN y ELSE k, M, k, n)
  <2>1. CASE i = t + 1
    <3>1. Pending(se, i) = 0
      BY <1>2, <2>1 DEF Pending
    <3>2. k + 0 = k /\ i # b
      BY <1>5, <2>1
    <3>3. NewStack(size).size = size
      BY DEF NewStack
    <3> QED
      BY <1>2, <1>3, <1>4, <2>1, <3>1, <3>2, <3>3 DEF LevelAt
  <2>2. CASE i # t + 1
    <3>1. i \in b..t
      BY <2>2
    <3>2. i \in 1..t /\ k + Pending(se, i) = Ends(sd, i, t, k, p)
      BY <1>6, <3>1
    <3>3. Level(sd[i].kind, su[i].size, en[i], IF i = b THEN y ELSE k, Ends(sd, i, t, k, p), M, k, n)
      BY <1>1, <3>1 DEF Levels
    <3>4. se[i] = sd[i] /\ sv[i] = su[i] /\ eo[i] = en[i]
      BY <1>2, <1>3, <1>4, <3>2
    <3> QED
      BY <3>2, <3>3, <3>4, Zenon DEF LevelAt
  <2> QED
    BY <2>1, <2>2
<1>9. ASSUME NEW i \in b+1..t+1 PROVE se[i].kind \in BlockKinds
  <2>1. CASE i = t + 1
    BY <1>2, <2>1
  <2>2. CASE i # t + 1
    <3>1. i \in b+1..t /\ i \in 1..t
      BY <2>2
    <3> QED
      BY <1>2, <3>1 DEF Levels
  <2> QED
    BY <2>1, <2>2
<1>10. Nested(se, sv, eo, b, t + 1, y, k, n)
  BY <1>7, <1>8, <1>9 DEF Nested
<1> QED
  BY <1>1, <1>10

(* A block that begins.                                                    *)
LEMMA LevelBegins ==
  ASSUME NEW kind, NEW size \in Int, NEW max \in Int, NEW k \in Nat, NEW n,
         4 * k - 4 * Slack(k) <= size, size <= max, NEW c, c.code = <<>>,
         kind = "else" => Follows(c.head, k, k, max + 4 * Slack(k), n),
         kind = "body" => Follows(c.head, k, k + 1, max + 4 * Slack(k), n)
  PROVE  Level(kind, size, c, k, k, max, k, n)
<1>1. Follows(<<>>, k, k, max + 4 * Slack(k), n)
  BY FollowsEmpty
<1> QED
  BY <1>1 DEF Level

LEMMA BlockOpensRoot ==
  ASSUME NEW t \in Nat \ {0}, NEW sd \in Seq(Scope), Len(sd) = t,
         NEW nw \in Scope, nw.kind # "func", NEW su, StacksOK(su, t), NEW en \in Seq(Chunk), Len(en) = t,
         NEW size \in 0..SizeRange-1, NEW c \in Chunk, NEW z, NEW n,
         RootFits(sd, su, en, z, n)
  PROVE  RootFits(Append(sd, nw), Append(su, NewStack(size)), Append(en, c), z, n)
<1>1. PICK se, sv, eo : /\ se = Append(sd, nw) /\ sv = Append(su, NewStack(size)) /\ eo = Append(en, c)
  OBVIOUS
<1>2. FrameBase(se) = FrameBase(sd)
  BY <1>1, BaseAppended
<1>3. se[1] = sd[1] /\ eo[1] = en[1]
  BY <1>1, AppendedAt
<1>4. sv[1] = su[1]
  <2>1. PICK x \in Sizing : x = NewStack(size)
    BY NewStackTyped
  <2>2. su \in Seq(Sizing) /\ Len(su) = t
    BY DEF StacksOK
  <2>3. Append(su, x)[1] = su[1]
    BY <2>2, AppendedAt
  <2> QED
    BY <1>1, <2>1, <2>3
<1>5. CASE FrameBase(sd) = 2
  <2>1. RootFits(se, sv, eo, z, n)
    BY <1>2, <1>3, <1>4, <1>5, RootKept
  <2> QED
    BY <1>1, <2>1
<1>6. CASE FrameBase(sd) # 2
  <2>1. RootFits(se, sv, eo, z, n)
    BY <1>2, <1>6 DEF RootFits
  <2> QED
    BY <1>1, <2>1
<1> QED
  BY <1>5, <1>6

LEMMA SameEnds ==
  ASSUME NEW sc \in Seq(Scope), NEW sd, SameKinds(sd, sc), NEW i \in 1..Len(sc), NEW t, NEW k, NEW l
  PROVE  Ends(sd, i, t, k, l) = Ends(sc, i, t, k, l)
BY SamePending DEF Ends

(* The frame once the condition of an if statement is compiled.            *)
LEMMA CondLevels ==
  ASSUME NEW K, CodeInv(TRUE, K), NEW t, t = Len(scopes), NEW b, b = FrameBase(scopes),
         NEW n \in Nat, NEW k \in Nat, NEW y, Nested(scopes, stacks, emitters, b, t, y, k, n),
         NEW r, NEW T, T = Track(stacks[t].size, stacks[b].max, r.code), NEW l \in Nat,
         Flowing(r.code, T, stacks[t].size, stacks[b].max, k, l, n),
         NEW sd, SameKinds(sd, scopes)
  PROVE  Levels(sd, Booked(r), Emit(emitters, r.code), b, t, y, k, l, T.max, n)
<1>1. /\ t \in Nat \ {0} /\ b \in 1..t /\ scopes \in Seq(Scope)
  <2>1. Shape(t, b)
    BY InvParts
  <2> QED
    BY <2>1 DEF Shape
<1>2. \A i \in b..t : i \in 1..t
  BY <1>1
<1>3. 4 * Ends(sd, b, t, k, l) <= Booked(r)[b].size
  <2>1. 4 * Ends(scopes, b, t, k, l) <= Booked(r)[b].size
    BY ExprBase
  <2> QED
    BY <1>1, <2>1, SameEnds
<1>4. Booked(r)[b].max = T.max
  <2>1. Books(Booked(r), stacks, t, b, T)
    BY BooksNow
  <2> QED
    BY <2>1 DEF Books
<1>5. ASSUME NEW i \in b..t
      PROVE  Level(sd[i].kind, Booked(r)[i].size, Emit(emitters, r.code)[i], IF i = b THEN y ELSE k,
                   Ends(sd, i, t, k, l), T.max, k, n)
  <2>1. PICK j \in Nat : j = k /\ (j = k \/ (b = t /\ j = k + l))
    OBVIOUS
  <2>2. Level(scopes[i].kind, Booked(r)[i].size, Emit(emitters, r.code)[i],
              IF i = b THEN y ELSE j, Ends(scopes, i, t, k, l), T.max, j, n)
    BY <2>1, ExprLevels
  <2>3. i \in 1..t
    BY <1>2
  <2>4. Ends(sd, i, t, k, l) = Ends(scopes, i, t, k, l)
    BY <1>1, <2>3, SameEnds
  <2>5. sd[i].kind = scopes[i].kind
    BY <2>3 DEF SameKinds
  <2> QED
    BY <2>1, <2>2, <2>4, <2>5, Zenon
<1>6. ASSUME NEW i \in b+1..t PROVE sd[i].kind \in BlockKinds
  <2>1. i \in 1..t
    BY <1>1
  <2> QED
    BY <2>1 DEF Nested, SameKinds
<1> QED
  BY <1>3, <1>4, <1>5, <1>6 DEF Levels

(* And that of a loop, whose code is kept aside.                           *)
LEMMA LoopLevels ==
  ASSUME NEW K, CodeInv(TRUE, K), NEW t, t = Len(scopes), NEW b, b = FrameBase(scopes),
         NEW n \in Nat, NEW k \in Nat, NEW y, Nested(scopes, stacks, emitters, b, t, y, k, n),
         NEW r, NEW T, T = Track(stacks[t].size, stacks[b].max, r.code), NEW l \in Nat,
         Flowing(r.code, T, stacks[t].size, stacks[b].max, k, l, n),
         NEW sd, SameKinds(sd, scopes)
  PROVE  Levels(sd, Booked(r), emitters, b, t, y, k, 0, T.max, n)
<1>1. /\ t \in Nat \ {0} /\ b \in 1..t /\ scopes \in Seq(Scope) /\ StacksOK(stacks, t)
      /\ EmittersOK(scopes, emitters, funcs, TRUE)
  <2>1. Shape(t, b)
    BY InvParts
  <2> QED
    BY <2>1 DEF Shape
<1>2. \A i \in b..t : i \in 1..t
  BY <1>1
<1>3. Books(Booked(r), stacks, t, b, T)
  BY BooksNow
<1>4. /\ T.size = stacks[t].size + 4 * l /\ T.size <= T.max /\ T \in Sizing /\ stacks[b].max <= T.max
  BY DEF Flowing
<1>5. T.size \in Nat /\ T.max \in Nat
  BY <1>4, SizeRangePositive DEF Sizing
<1>6. ASSUME NEW i \in 1..t PROVE /\ stacks[i].size \in Nat /\ Booked(r)[i].size \in Nat
                                 /\ stacks[i].size <= Booked(r)[i].size
                                 /\ (i = t => Booked(r)[i].size <= T.max)
  <2>1. stacks[i].size \in Nat /\ stacks[t].size \in Nat
    BY <1>1, StackParts
  <2>2. CASE i = t
    <3>1. Booked(r)[i].size = T.size
      BY <1>3, <2>2 DEF Books
    <3> QED
      BY <1>4, <1>5, <2>1, <2>2, <3>1
  <2>3. CASE i # t
    <3>1. Booked(r)[i].size = stacks[i].size
      BY <1>3, <2>3 DEF Books
    <3> QED
      BY <2>1, <2>3, <3>1
  <2> QED
    BY <2>2, <2>3
<1>7. ASSUME NEW i \in b..t PROVE Ends(sd, i, t, k, 0) = k + Pending(scopes, i)
  <2>1. i \in 1..t
    BY <1>2
  <2>2. Ends(sd, i, t, k, 0) = Ends(scopes, i, t, k, 0)
    BY <1>1, <2>1, SameEnds
  <2>3. i = t => Pending(scopes, i) = 0
    BY <1>1 DEF Pending
  <2> QED
    BY <2>2, <2>3 DEF Ends
<1>8. 4 * Ends(sd, b, t, k, 0) <= Booked(r)[b].size
  <2>1. 4 * (k + Pending(scopes, b)) <= stacks[b].size
    BY DEF Nested
  <2>2. Pending(scopes, b) \in Nat
    BY DEF Pending
  <2>3. b \in b..t
    BY <1>1
  <2>4. stacks[b].size <= Booked(r)[b].size /\ stacks[b].size \in Nat /\ Booked(r)[b].size \in Nat
    BY <1>1, <1>6
  <2> QED
    BY <1>7, <2>1, <2>2, <2>3, <2>4
<1>9. ASSUME NEW i \in b..t
      PROVE  Level(sd[i].kind, Booked(r)[i].size, emitters[i], IF i = b THEN y ELSE k,
                   Ends(sd, i, t, k, 0), T.max, k, n)
  <2>1. i \in 1..t
    BY <1>2
  <2>2. PICK x, d, kind : x = (IF i = b THEN y ELSE k) /\ d = k + Pending(scopes, i) /\ kind = scopes[i].kind
    OBVIOUS
  <2>3. Level(kind, stacks[i].size, emitters[i], x, d, stacks[b].max, k, n)
    BY <2>2, Zenon DEF Nested, LevelAt
  <2>4. Whole(emitters[i].head) /\ Whole(emitters[i].code)
    BY <1>1, <2>1, EmittersWhole
  <2>5. stacks[i].size \in Int /\ stacks[b].max \in Int /\ T.max \in Int
    BY <1>1, <1>5, <2>1, StackParts
  <2>6. Level(kind, stacks[i].size, emitters[i], x, d, T.max, k, n)
    BY <1>4, <2>3, <2>4, <2>5, LevelMore
  <2>7. 4 * k - 4 * Slack(k) <= Booked(r)[i].size
    <3>1. 4 * k - 4 * Slack(k) <= stacks[i].size
      BY <2>6 DEF Level
    <3>2. stacks[i].size \in Nat /\ Booked(r)[i].size \in Nat /\ stacks[i].size <= Booked(r)[i].size
      BY <1>6, <2>1
    <3>3. Slack(k) \in Nat
      BY SlackIs
    <3> QED
      BY <3>1, <3>2, <3>3
  <2>8. Booked(r)[i].size <= T.max
    <3>1. CASE i = t
      BY <1>6, <2>1, <3>1
    <3>2. CASE i # t
      <4>1. Booked(r)[i].size = stacks[i].size
        BY <1>3, <2>1, <3>2 DEF Books
      <4> QED
        BY <2>6, <4>1 DEF Level
    <3> QED
      BY <3>1, <3>2
  <2>9. Level(kind, Booked(r)[i].size, emitters[i], x, d, T.max, k, n)
    BY <2>6, <2>7, <2>8 DEF Level
  <2>10. sd[i].kind = kind
    BY <2>1, <2>2 DEF SameKinds
  <2>11. Ends(sd, i, t, k, 0) = d
    BY <1>7, <2>2
  <2> QED
    BY <2>2, <2>9, <2>10, <2>11, Zenon
<1>10. ASSUME NEW i \in b+1..t PROVE sd[i].kind \in BlockKinds
  <2>1. i \in 1..t
    BY <1>1
  <2> QED
    BY <2>1 DEF Nested, SameKinds
<1> QED
  BY <1>3, <1>8, <1>9, <1>10 DEF Levels, Books

LEMMA BookedFits ==
  ASSUME NEW su, NEW t \in Nat \ {0}, StacksOK(su, t), NEW b \in 1..t, NEW size \in 0..SizeRange-1,
         NEW st, st = Append(su, NewStack(size)), \A i \in DOMAIN st : st[i].max < ShortRange
  PROVE  su[b].max < ShortRange
<1>1. PICK x \in Sizing : x = NewStack(size)
  BY NewStackTyped
<1>2. su \in Seq(Sizing) /\ Len(su) = t
  BY DEF StacksOK
<1>3. st[b] = su[b] /\ b \in DOMAIN st
  BY <1>1, <1>2, AppendedAt
<1> QED
  BY <1>3

(* The root's frame, when an expression of a function is compiled.         *)
LEMMA RootBooked ==
  ASSUME NEW K, CodeInv(TRUE, K), NEW z, NEW n, RootFits(scopes, stacks, emitters, z, n),
         NEW r, NEW T, T = Track(stacks[Len(scopes)].size, stacks[FrameBase(scopes)].max, r.code),
         NEW sd, SameKinds(sd, scopes), NEW en, Len(scopes) # 1 => en[1] = emitters[1]
  PROVE  RootFits(sd, Booked(r), en, z, n)
<1>1. PICK t, b : t = Len(scopes) /\ b = FrameBase(scopes)
  OBVIOUS
<1>2. t \in Nat \ {0} /\ b \in 1..t /\ scopes \in Seq(Scope)
  <2>1. Shape(t, b)
    BY <1>1, InvParts
  <2> QED
    BY <2>1 DEF Shape
<1>3. FrameBase(sd) = b
  BY <1>1, <1>2, SamePending
<1>4. CASE b = 2
  <2>1. 1 \in 1..t /\ 1 # t /\ 1 # b
    BY <1>2, <1>4
  <2>2. sd[1].kind = scopes[1].kind
    BY <1>1, <2>1 DEF SameKinds
  <2>3. Books(Booked(r), stacks, t, b, T)
    BY <1>1, BooksNow
  <2>4. Booked(r)[1] = stacks[1]
    BY <2>1, <2>3 DEF Books
  <2>5. en[1] = emitters[1]
    BY <1>1, <2>1
  <2> QED
    BY <1>1, <1>3, <1>4, <2>2, <2>4, <2>5, RootKept
<1>5. CASE b # 2
  BY <1>3, <1>5 DEF RootFits
<1> QED
  BY <1>4, <1>5

LEMMA OpenIfDepth ==
  ASSUME NEW K, CodeInv(TRUE, K), NEW n \in Nat, NEW z, Disciplined(n), DepthInv(z, n),
         NEW e \in CondExprs, OpenIf(e), NamesKnown(e), StacksFit'
  PROVE  DepthInv(z, n)'
<1>1. PICK r, sd, su, en : /\ r = Compile(e) /\ sd = Extended(r) /\ su = Booked(r)
                           /\ en = Emit(emitters, r.code)
  OBVIOUS
<1>2. PICK t, b, y : t = Len(scopes) /\ b = FrameBase(scopes) /\ y = Origin(scopes, z)
  OBVIOUS
<1>3. /\ t \in Nat \ {0} /\ b \in 1..t /\ t = top /\ scopes \in Seq(Scope)
      /\ emitters \in Seq(Chunk) /\ Len(emitters) = t
  <2>1. Shape(t, b)
    BY <1>2, InvParts
  <2> QED
    BY <2>1 DEF Shape
<1>4. PICK nw, size, c : /\ nw = NewScope("then", sd[t].cap, Len(sd[t].vars) + sd[t].off)
                         /\ size = su[t].size /\ c = Emitter(<<>>)
  OBVIOUS
<1>5. /\ r.ok /\ scopes' = Append(sd, nw) /\ stacks' = Append(su, NewStack(size))
      /\ emitters' = Append(en, c) /\ funcs' = funcs
  BY <1>1, <1>3, <1>4 DEF OpenIf
<1>6. e \in AllExprs
  BY DEF AllExprs
<1>7. SameKinds(sd, scopes)
  BY <1>1, <1>5, <1>6, ExprScopes
<1>8. FrameBase(sd) = b /\ Len(sd) = t /\ sd \in Seq(Scope)
  BY <1>2, <1>3, <1>7, SamePending DEF SameKinds
<1>9. /\ ScopesOK(sd) /\ StacksOK(su, t) /\ EmittersOK(sd, emitters, funcs, TRUE)
      /\ Good(r.code, MaxFor(sd, Len(sd)), CallsFor(sd, funcs, Len(sd)), TRUE)
  <2>1. /\ ScopesOK(sd) /\ EmittersOK(sd, emitters, funcs, TRUE)
        /\ Good(Compile(e).code, MaxFor(sd, Len(sd)), CallsFor(sd, funcs, Len(sd)), TRUE)
        /\ StacksOK(Booked(Compile(e)), Len(sd))
    BY <1>1, <1>5, <1>6, ExprGood
  <2> QED
    BY <1>1, <1>8, <2>1
<1>10. en \in Seq(Chunk) /\ Len(en) = t
  <2>1. EmittersOK(sd, en, funcs, TRUE)
    BY <1>1, <1>9, EmitGood
  <2> QED
    BY <1>8, <2>1 DEF EmittersOK
<1>11. nw \in Scope /\ nw.kind = "then" /\ nw.kind # "func" /\ nw.kind \in BlockKinds
  <2>1. t \in 1..Len(sd)
    BY <1>3, <1>8
  <2>2. sd[t].cap \in Nat /\ Len(sd[t].vars) + sd[t].off \in Nat
    BY <1>8, <2>1, ScopeFields DEF Free
  <2>3. "then" \in ScopeKinds
    BY DEF ScopeKinds
  <2>4. nw \in Scope /\ nw.kind = "then"
    BY <1>4, <2>2, <2>3, NewScopeTyped
  <2> QED
    BY <2>4 DEF BlockKinds
<1>12. size \in 0..SizeRange-1
  <2>1. t \in 1..t
    BY <1>3
  <2> QED
    BY <1>4, <1>9, <2>1, StackParts
<1>13. c \in Chunk /\ c.code = <<>>
  <2>1. <<>> \in Seq(Cell)
    OBVIOUS
  <2> QED
    BY <1>4, <2>1, ChunkIs
<1>14. su[b].max < ShortRange
  <2>1. \A i \in DOMAIN stacks' : stacks'[i].max < ShortRange
    BY DEF StacksFit
  <2> QED
    BY <1>3, <1>5, <1>9, <1>12, <2>1, BookedFits
<1>15. FrameFits(scopes, stacks, emitters, z, n) /\ RootFits(scopes, stacks, emitters, z, n)
  BY DEF DepthInv
<1>16. PICK k \in Nat, l \in Nat, T \in Sizing : Taken(e, t, b, n, y, k, l, T)
  BY <1>1, <1>2, <1>5, <1>6, <1>14, <1>15, ExprTaken
<1>17. /\ Nested(scopes, stacks, emitters, b, t, y, k, n) /\ (WithWhile /\ b = 2 => k = 0)
       /\ T = Track(stacks[t].size, stacks[b].max, r.code)
       /\ Flowing(r.code, T, stacks[t].size, stacks[b].max, k, 1, n)
  <2>1. l = 1
    BY <1>16 DEF Taken, EmittedFor, Disciplined
  <2> QED
    BY <1>1, <1>16, <2>1 DEF Taken, EmittedFor
<1>18. Levels(sd, su, en, b, t, y, k, Left(nw.kind), T.max, n)
  <2>1. Left(nw.kind) = 1
    BY <1>11 DEF Left
  <2>2. Levels(sd, Booked(r), Emit(emitters, r.code), b, t, y, k, 1, T.max, n)
    BY <1>2, <1>7, <1>17, CondLevels
  <2> QED
    BY <1>1, <2>1, <2>2
<1>19. Level(nw.kind, size, c, k, k, T.max, k, n)
  <2>1. Books(su, stacks, t, b, T)
    BY <1>1, <1>2, <1>17, BooksNow
  <2>2. size = T.size /\ T.size <= T.max /\ T.size = stacks[t].size + 4 * 1 /\ T \in Sizing
    BY <1>4, <1>17, <2>1 DEF Flowing, Books
  <2>3. 4 * k - 4 * Slack(k) <= stacks[t].size
    <3>1. t \in b..t
      BY <1>3
    <3> QED
      BY <1>17, <3>1 DEF Nested, LevelAt, Level
  <2>4. Slack(k) \in Nat /\ stacks[t].size \in Nat /\ T.max \in Int /\ size \in Int
    <3>1. Slack(k) \in Nat
      BY SlackIs
    <3>2. t \in 1..t /\ StacksOK(stacks, t)
      BY <1>2, <1>3 DEF CodeInv
    <3> QED
      BY <2>2, <3>1, <3>2, StackParts, SizeRangePositive DEF Sizing
  <2>5. 4 * k - 4 * Slack(k) <= size /\ size <= T.max
    BY <2>2, <2>3, <2>4
  <2>6. nw.kind # "else" /\ nw.kind # "body"
    BY <1>11
  <2> QED
    BY <1>13, <2>4, <2>5, <2>6, LevelBegins
<1>20. FrameFits(scopes', stacks', emitters', z, n)
  <2>1. Nested(scopes', stacks', emitters', b, t + 1, y, k, n)
    BY <1>3, <1>5, <1>8, <1>9, <1>10, <1>11, <1>12, <1>13, <1>18, <1>19, BlockOpensFits
  <2>2. FrameBase(scopes') = b /\ Len(scopes') = t + 1
    BY <1>3, <1>5, <1>8, <1>11, BaseAppended
  <2>3. y = IF b = 2 THEN 0 ELSE z
    BY <1>2 DEF Origin
  <2> QED
    BY <1>17, <2>1, <2>2, <2>3, FrameIs
<1>21. RootFits(scopes', stacks', emitters', z, n)
  <2>1. t # 1 => en[1] = emitters[1]
    <3>1. Emits(en, emitters, t, r.code)
      BY <1>1, <1>3, EmitParts
    <3> QED
      BY <1>3, <3>1 DEF Emits
  <2>2. RootFits(sd, su, en, z, n)
    BY <1>1, <1>2, <1>7, <1>15, <1>17, <2>1, RootBooked
  <2> QED
    BY <1>3, <1>5, <1>8, <1>9, <1>10, <1>11, <1>12, <1>13, <2>2, BlockOpensRoot
<1> QED
  BY <1>5, <1>20, <1>21 DEF DepthInv

LEMMA OpenWhileDepth ==
  ASSUME NEW K, CodeInv(TRUE, K), NEW n \in Nat, NEW z, Disciplined(n), DepthInv(z, n),
         NEW e \in CondExprs, OpenWhile(e), NamesKnown(e), StacksFit'
  PROVE  DepthInv(z, n)'
<1>1. PICK r, sd, su : r = Compile(e) /\ sd = Restored(r) /\ su = Booked(r)
  OBVIOUS
<1>2. PICK t, b, y : t = Len(scopes) /\ b = FrameBase(scopes) /\ y = Origin(scopes, z)
  OBVIOUS
<1>3. /\ t \in Nat \ {0} /\ b \in 1..t /\ t = top /\ scopes \in Seq(Scope)
      /\ emitters \in Seq(Chunk) /\ Len(emitters) = t /\ StacksOK(stacks, t)
  <2>1. Shape(t, b)
    BY <1>2, InvParts
  <2> QED
    BY <2>1 DEF Shape
<1>4. PICK nw, c : nw = NewScope("body", scopes[t].cap, NextSlot(t)) /\ c = Emitter(r.code)
  OBVIOUS
<1>5. /\ r.ok /\ scopes' = Append(sd, nw) /\ stacks' = Append(su, NewStack(0))
      /\ emitters' = Append(emitters, c) /\ funcs' = funcs /\ WithWhile
  BY <1>1, <1>3, <1>4 DEF OpenWhile
<1>6. e \in AllExprs
  BY DEF AllExprs
<1>7. SameKinds(sd, scopes)
  BY <1>1, <1>5, <1>6, ExprScopes
<1>8. FrameBase(sd) = b /\ Len(sd) = t /\ sd \in Seq(Scope)
  BY <1>2, <1>3, <1>7, SamePending DEF SameKinds
<1>9. StacksOK(su, t) /\ Good(r.code, MaxFor(sd, Len(sd)), CallsFor(sd, funcs, Len(sd)), TRUE)
  <2>1. /\ Good(Compile(e).code, MaxFor(sd, Len(sd)), CallsFor(sd, funcs, Len(sd)), TRUE)
        /\ StacksOK(Booked(Compile(e)), Len(sd))
    BY <1>1, <1>5, <1>6, ExprGood
  <2> QED
    BY <1>1, <1>8, <2>1
<1>11. nw \in Scope /\ nw.kind = "body" /\ nw.kind # "func" /\ nw.kind \in BlockKinds
  <2>1. t \in 1..Len(scopes)
    BY <1>2, <1>3
  <2>2. scopes[t].cap \in Nat /\ NextSlot(t) \in Nat
    BY <1>3, <2>1, ScopeFields DEF Free, NextSlot
  <2>3. "body" \in ScopeKinds
    BY DEF ScopeKinds
  <2>4. nw \in Scope /\ nw.kind = "body"
    BY <1>4, <2>2, <2>3, NewScopeTyped
  <2> QED
    BY <2>4 DEF BlockKinds
<1>12. 0 \in 0..SizeRange-1
  BY SizeRangePositive
<1>13. c \in Chunk /\ c.code = <<>> /\ c.head = r.code
  <2>1. r.code \in Seq(Cell)
    BY <1>9 DEF Good, Laid
  <2> QED
    BY <1>4, <2>1, ChunkIs
<1>14. su[b].max < ShortRange
  <2>1. \A i \in DOMAIN stacks' : stacks'[i].max < ShortRange
    BY DEF StacksFit
  <2> QED
    BY <1>3, <1>5, <1>9, <1>12, <2>1, BookedFits
<1>15. FrameFits(scopes, stacks, emitters, z, n) /\ RootFits(scopes, stacks, emitters, z, n)
  BY DEF DepthInv
<1>16. PICK k \in Nat, l \in Nat, T \in Sizing : Taken(e, t, b, n, y, k, l, T)
  BY <1>1, <1>2, <1>5, <1>6, <1>14, <1>15, ExprTaken
<1>17. /\ Nested(scopes, stacks, emitters, b, t, y, k, n) /\ (WithWhile /\ b = 2 => k = 0)
       /\ T = Track(stacks[t].size, stacks[b].max, r.code)
       /\ Flowing(r.code, T, stacks[t].size, stacks[b].max, k, 1, n)
  <2>1. l = 1
    BY <1>16 DEF Taken, EmittedFor, Disciplined
  <2> QED
    BY <1>1, <1>16, <2>1 DEF Taken, EmittedFor
<1>18. Levels(sd, su, emitters, b, t, y, k, Left(nw.kind), T.max, n)
  <2>1. Left(nw.kind) = 0
    BY <1>11 DEF Left
  <2>2. Levels(sd, Booked(r), emitters, b, t, y, k, 0, T.max, n)
    BY <1>2, <1>7, <1>17, LoopLevels
  <2> QED
    BY <1>1, <2>1, <2>2
<1>19. Level(nw.kind, 0, c, k, k, T.max, k, n)
  <2>1. Slack(k) = k
    BY <1>5 DEF Slack
  <2>2. T.max \in Nat
    BY <1>17, SizeRangePositive DEF Flowing, Sizing
  <2>3. 4 * k - 4 * Slack(k) <= 0 /\ 0 <= T.max /\ T.max \in Int
    BY <2>1, <2>2
  <2>4. Follows(c.head, k, k + 1, T.max + 4 * Slack(k), n)
    BY <1>13, <1>17 DEF Flowing
  <2>5. nw.kind # "else"
    BY <1>11
  <2> QED
    BY <1>13, <2>3, <2>4, <2>5, LevelBegins
<1>20. FrameFits(scopes', stacks', emitters', z, n)
  <2>1. Nested(scopes', stacks', emitters', b, t + 1, y, k, n)
    BY <1>3, <1>5, <1>8, <1>9, <1>11, <1>12, <1>13, <1>18, <1>19, BlockOpensFits
  <2>2. FrameBase(scopes') = b /\ Len(scopes') = t + 1
    BY <1>3, <1>5, <1>8, <1>11, BaseAppended
  <2>3. y = IF b = 2 THEN 0 ELSE z
    BY <1>2 DEF Origin
  <2> QED
    BY <1>17, <2>1, <2>2, <2>3, FrameIs
<1>21. RootFits(scopes', stacks', emitters', z, n)
  <2>1. RootFits(sd, su, emitters, z, n)
    BY <1>1, <1>2, <1>7, <1>15, <1>17, RootBooked
  <2> QED
    BY <1>3, <1>5, <1>8, <1>9, <1>11, <1>12, <1>13, <2>1, BlockOpensRoot
<1> QED
  BY <1>5, <1>20, <1>21 DEF DepthInv

(* A block ends: what is left of the frame below it.                       *)
LEMMA BlockLeaves ==
  ASSUME NEW r \in Nat \ {0}, NEW b \in 1..r,
         NEW sc \in Seq(Scope), Len(sc) = r + 1, NEW st, NEW em, NEW y, NEW k \in Nat, NEW n,
         Nested(sc, st, em, b, r + 1, y, k, n),
         NEW sd, Len(sd) = r, \A i \in 1..r : sd[i] = sc[i],
         NEW su, \A i \in 1..r : su[i] = st[i], NEW en, \A i \in 1..r : en[i] = em[i]
  PROVE  Levels(sd, su, en, b, r, y, k, Left(sc[r+1].kind), st[b].max, n)
<1>1. PICK p : p = Left(sc[r+1].kind)
  OBVIOUS
<1>2. ASSUME NEW i \in b..r PROVE i \in 1..r /\ i \in b..r+1 /\ Ends(sd, i, r, k, p) = k + Pending(sc, i)
  <2>1. i \in 1..r /\ i \in b..r+1 /\ i < r + 1
    OBVIOUS
  <2>2. CASE i = r
    <3>1. Pending(sc, i) = p
      BY <1>1, <2>1, <2>2 DEF Pending, Left
    <3> QED
      BY <2>1, <2>2, <3>1 DEF Ends
  <2>3. CASE i # r
    <3>1. i + 1 \in 1..r /\ i < r
      BY <2>1, <2>3
    <3>2. Pending(sd, i) = Pending(sc, i)
      BY <2>1, <3>1 DEF Pending
    <3> QED
      BY <2>1, <2>3, <3>2 DEF Ends
  <2> QED
    BY <2>2, <2>3
<1>3. 4 * Ends(sd, b, r, k, p) <= su[b].size /\ su[b].max = st[b].max
  <2>1. b \in b..r /\ b \in 1..r
    OBVIOUS
  <2> QED
    BY <1>2, <2>1 DEF Nested
<1>4. ASSUME NEW i \in b..r
      PROVE  Level(sd[i].kind, su[i].size, en[i], IF i = b THEN y ELSE k, Ends(sd, i, r, k, p), st[b].max, k, n)
  <2>1. i \in 1..r /\ i \in b..r+1 /\ Ends(sd, i, r, k, p) = k + Pending(sc, i)
    BY <1>2
  <2>2. LevelAt(sc, st, em, i, IF i = b THEN y ELSE k, st[b].max, k, n)
    BY <2>1 DEF Nested
  <2>3. sd[i] = sc[i] /\ su[i] = st[i] /\ en[i] = em[i]
    BY <2>1
  <2> QED
    BY <2>1, <2>2, <2>3, Zenon DEF LevelAt
<1>5. ASSUME NEW i \in b+1..r PROVE sd[i].kind \in BlockKinds
  <2>1. i \in 1..r /\ i \in b+1..r+1
    OBVIOUS
  <2> QED
    BY <2>1 DEF Nested
<1> QED
  BY <1>1, <1>3, <1>4, <1>5 DEF Levels

Cut(f, s, r, S) == f \in Seq(S) /\ Len(f) = r /\ \A i \in 1..r : f[i] = s[i]

LEMMA FrontCut ==
  ASSUME NEW S, NEW s, NEW r \in Nat, s \in Seq(S), Len(s) = r + 1
  PROVE  Cut(Front(s), s, r, S)
BY Shortened, Zenon DEF Cut

(* The innermost scope is a block, in the scope r of its frame.            *)
InBlock(t, r, b) ==
  /\ t \in Nat \ {0, 1} /\ r \in Nat \ {0} /\ t = r + 1 /\ b \in 1..r /\ t = Len(scopes) /\ t = top
  /\ b = FrameBase(scopes) /\ r = t - 1
  /\ t \in 1..Len(scopes) /\ r \in 1..Len(scopes) /\ b \in 1..t /\ 1 \in 1..r /\ r \in 1..r
  /\ scopes \in Seq(Scope) /\ ScopesOK(scopes)
  /\ Front(scopes) \in Seq(Scope) /\ Len(Front(scopes)) = r
  /\ \A i \in 1..r : Front(scopes)[i] = scopes[i]
  /\ StacksOK(stacks, t) /\ StacksOK(Front(stacks), r)
  /\ \A i \in 1..r : Front(stacks)[i] = stacks[i]
  /\ emitters \in Seq(Chunk) /\ Len(emitters) = t /\ Front(emitters) \in Seq(Chunk)
  /\ Len(Front(emitters)) = r
  /\ \A i \in 1..r : Front(emitters)[i] = emitters[i]
  /\ EmittersOK(scopes, emitters, funcs, TRUE)
  /\ FrameBase(Front(scopes)) = b

LEMMA InnermostBlock ==
  ASSUME NEW K, CodeInv(TRUE, K), scopes[Len(scopes)].kind \in BlockKinds
  PROVE  \E t, r, b : InBlock(t, r, b)
<1>1. PICK t, b : t = Len(scopes) /\ b = FrameBase(scopes)
  OBVIOUS
<1>2. Shape(t, b)
  BY <1>1, InvParts
<1>3. /\ t \in Nat \ {0} /\ b \in 1..t /\ t = top /\ scopes \in Seq(Scope) /\ ScopesOK(scopes)
      /\ StacksOK(stacks, t) /\ emitters \in Seq(Chunk) /\ Len(emitters) = t
      /\ EmittersOK(scopes, emitters, funcs, TRUE) /\ scopes[b].kind \notin BlockKinds
  BY <1>2 DEF Shape
<1>4. scopes[Len(scopes)].kind # "root" /\ scopes[Len(scopes)].kind # "func"
  BY DEF BlockKinds
<1>5. b # t
  BY <1>1, <1>3
<1>6. PICK r \in Nat \ {0} : r = t - 1 /\ t = r + 1 /\ b \in 1..r /\ t \in Nat \ {0, 1}
  BY <1>3, <1>5
<1>7. FrameBase(Front(scopes)) = b
  BY <1>1, <1>3, <1>4, EmittersClose
<1>8. Cut(Front(scopes), scopes, r, Scope)
  BY <1>1, <1>3, <1>6, FrontCut
<1>9. stacks \in Seq(Sizing) /\ Len(stacks) = t
  BY <1>3 DEF StacksOK
<1>10. Cut(Front(stacks), stacks, r, Sizing)
  BY <1>6, <1>9, FrontCut
<1>11. Cut(Front(emitters), emitters, r, Chunk)
  BY <1>3, <1>6, FrontCut
<1>12. StacksOK(Front(stacks), r)
  BY <1>10 DEF StacksOK, Cut
<1>13. t \in 1..Len(scopes) /\ r \in 1..Len(scopes) /\ b \in 1..t /\ 1 \in 1..r /\ r \in 1..r
  BY <1>1, <1>3, <1>6
<1>14. InBlock(t, r, b)
  BY <1>13, <1>1, <1>3, <1>6, <1>7, <1>8, <1>10, <1>11, <1>12 DEF InBlock, Cut
<1> QED
  BY <1>14

(* What the frame has below its innermost block, and the block itself.     *)
LEMMA BlockFits ==
  ASSUME NEW t, NEW r, NEW b, InBlock(t, r, b), NEW y, NEW k \in Nat, NEW n,
         Nested(scopes, stacks, emitters, b, t, y, k, n)
  PROVE  /\ Levels(Front(scopes), Front(stacks), Front(emitters), b, r, y, k, Left(scopes[t].kind), stacks[b].max, n)
         /\ Level(scopes[t].kind, stacks[t].size, emitters[t], k, k, stacks[b].max, k, n)
<1>1. /\ t \in Nat \ {0, 1} /\ r \in Nat \ {0} /\ t = r + 1 /\ b \in 1..r /\ t = Len(scopes)
      /\ scopes \in Seq(Scope) /\ Len(Front(scopes)) = r
      /\ \A i \in 1..r : Front(scopes)[i] = scopes[i]
      /\ \A i \in 1..r : Front(stacks)[i] = stacks[i]
      /\ \A i \in 1..r : Front(emitters)[i] = emitters[i]
  BY DEF InBlock
<1>2. Levels(Front(scopes), Front(stacks), Front(emitters), b, r, y, k, Left(scopes[r+1].kind), stacks[b].max, n)
  BY <1>1, BlockLeaves
<1>3. t \in b..t /\ t # b
  BY <1>1
<1>4. LevelAt(scopes, stacks, emitters, t, k, stacks[b].max, k, n)
  BY <1>3 DEF Nested
<1>5. k + Pending(scopes, t) = k
  BY <1>1 DEF Pending
<1> QED
  BY <1>1, <1>2, <1>4, <1>5 DEF LevelAt

LEMMA ElseIs ==
  ASSUME NEW K, CodeInv(TRUE, K), Else, NEW t, NEW r, NEW b, InBlock(t, r, b),
         NEW size, size = stacks[r].size, NEW c, c = Emitter(emitters[t].code)
  PROVE  /\ stacks' = Append(Front(stacks), NewStack(size))
         /\ emitters' = Append(Front(emitters), c)
         /\ size \in 0..SizeRange-1
         /\ c \in Chunk /\ c.head = emitters[t].code /\ c.code = <<>>
<1>1. /\ t = r + 1 /\ r \in Nat \ {0} /\ t = top /\ r = top - 1 /\ StacksOK(stacks, t)
      /\ emitters \in Seq(Chunk) /\ Len(emitters) = t
  BY DEF InBlock
<1>2. size \in 0..SizeRange-1
  <2>1. r \in 1..t /\ t \in Nat
    BY <1>1
  <2> QED
    BY <1>1, <2>1, StackParts
<1>3. c \in Chunk /\ c.head = emitters[t].code /\ c.code = <<>>
  <2>1. emitters[t] \in Chunk
    BY <1>1
  <2>2. emitters[t].code \in Seq(Cell)
    BY <2>1 DEF Chunk
  <2> QED
    BY <2>2, ChunkIs
<1>4. stacks' = Append(Front(stacks), NewStack(size))
  <2>1. stacks' = [stacks EXCEPT ![r+1] = NewStack(size)]
    BY <1>1 DEF Else
  <2>2. PICK x \in Sizing : x = NewStack(size)
    BY <1>2, NewStackTyped
  <2>3. stacks \in Seq(Sizing) /\ Len(stacks) = r + 1 /\ r \in Nat
    BY <1>1 DEF StacksOK
  <2>4. AppendsTo(stacks, r + 1, x)
    BY <2>2, <2>3, LastReplaced
  <2> QED
    BY <2>1, <2>2, <2>4 DEF AppendsTo
<1>5. emitters' = Append(Front(emitters), c)
  <2>1. emitters' = [emitters EXCEPT ![r+1] = c]
    BY <1>1 DEF Else
  <2>2. emitters \in Seq(Chunk) /\ Len(emitters) = r + 1 /\ r \in Nat
    BY <1>1
  <2>3. AppendsTo(emitters, r + 1, c)
    BY <1>3, <2>2, LastReplaced
  <2> QED
    BY <2>1, <2>3 DEF AppendsTo
<1> QED
  BY <1>2, <1>3, <1>4, <1>5

LEMMA RootShortened ==
  ASSUME NEW t, NEW r, NEW b, InBlock(t, r, b), NEW z, NEW n,
         RootFits(scopes, stacks, emitters, z, n), NEW en, r # 1 => en[1] = emitters[1]
  PROVE  RootFits(Front(scopes), Front(stacks), en, z, n)
<1>1. /\ r \in Nat \ {0} /\ b \in 1..r /\ b = FrameBase(scopes) /\ FrameBase(Front(scopes)) = b
      /\ Front(scopes)[1] = scopes[1] /\ Front(stacks)[1] = stacks[1]
  BY DEF InBlock
<1>2. CASE b = 2
  <2>1. en[1] = emitters[1]
    BY <1>1, <1>2
  <2> QED
    BY <1>1, <1>2, <2>1, RootKept
<1>3. CASE b # 2
  BY <1>1, <1>3 DEF RootFits
<1> QED
  BY <1>2, <1>3

LEMMA ElseDepth ==
  ASSUME NEW K, CodeInv(TRUE, K), NEW n \in Nat, NEW z, DepthInv(z, n), Else
  PROVE  DepthInv(z, n)'
<1>1. scopes[Len(scopes)].kind = "then" /\ scopes[Len(scopes)].kind \in BlockKinds
  BY DEF Else, top, BlockKinds
<1>2. PICK t, r, b : InBlock(t, r, b)
  BY <1>1, InnermostBlock
<1>3. /\ t \in Nat \ {0, 1} /\ r \in Nat \ {0} /\ t = r + 1 /\ r = t - 1 /\ b \in 1..r /\ t = Len(scopes)
      /\ t = top /\ scopes \in Seq(Scope) /\ StacksOK(stacks, t)
      /\ Front(scopes) \in Seq(Scope) /\ Len(Front(scopes)) = r
      /\ StacksOK(Front(stacks), r) /\ Front(emitters) \in Seq(Chunk) /\ Len(Front(emitters)) = r
      /\ b = FrameBase(scopes) /\ FrameBase(Front(scopes)) = b /\ b \in 1..t
      /\ Front(emitters)[1] = emitters[1]
  BY <1>2 DEF InBlock
<1>4. PICK nw, size, c, y : /\ nw = NewScope("else", scopes[r].cap, NextSlot(r)) /\ size = stacks[r].size
                            /\ c = Emitter(emitters[t].code) /\ y = Origin(scopes, z)
  OBVIOUS
<1>5. scopes' = Append(Front(scopes), nw) /\ funcs' = funcs
  BY <1>3, <1>4 DEF Else
<1>6. /\ stacks' = Append(Front(stacks), NewStack(size)) /\ emitters' = Append(Front(emitters), c)
      /\ size \in 0..SizeRange-1 /\ c \in Chunk /\ c.head = emitters[t].code /\ c.code = <<>>
  BY <1>2, <1>4, ElseIs
<1>7. nw \in Scope /\ nw.kind = "else" /\ nw.kind # "func" /\ nw.kind \in BlockKinds
  <2>1. r \in 1..Len(scopes)
    BY <1>3
  <2>2. scopes[r].cap \in Nat /\ NextSlot(r) \in Nat
    BY <1>3, <2>1, ScopeFields DEF Free, NextSlot
  <2>3. "else" \in ScopeKinds
    BY DEF ScopeKinds
  <2>4. nw \in Scope /\ nw.kind = "else"
    BY <1>4, <2>2, <2>3, NewScopeTyped
  <2> QED
    BY <2>4 DEF BlockKinds
<1>8. FrameFits(scopes, stacks, emitters, z, n) /\ RootFits(scopes, stacks, emitters, z, n)
  BY DEF DepthInv
<1>9. PICK k \in Nat : Nested(scopes, stacks, emitters, b, t, y, k, n) /\ (WithWhile /\ b = 2 => k = 0)
  BY <1>3, <1>4, <1>8, FrameNow
<1>10. PICK M : M = stacks[b].max
  OBVIOUS
<1>11. Levels(Front(scopes), Front(stacks), Front(emitters), b, r, y, k, Left(nw.kind), M, n)
  <2>1. Left(nw.kind) = Left(scopes[t].kind)
    BY <1>1, <1>3, <1>7 DEF Left
  <2>2. Levels(Front(scopes), Front(stacks), Front(emitters), b, r, y, k, Left(scopes[t].kind), stacks[b].max, n)
    BY <1>2, <1>9, BlockFits
  <2> QED
    BY <1>10, <2>1, <2>2
<1>12. Level(nw.kind, size, c, k, k, M, k, n)
  <2>1. Level(scopes[t].kind, stacks[t].size, emitters[t], k, k, M, k, n)
    BY <1>2, <1>9, <1>10, BlockFits
  <2>2. Follows(c.head, k, k, M + 4 * Slack(k), n)
    BY <1>6, <2>1 DEF Level
  <2>3. r \in b..t /\ r \in 1..t
    BY <1>3
  <2>4. 4 * k - 4 * Slack(k) <= size /\ size <= M
    BY <1>4, <1>9, <1>10, <2>3 DEF Nested, LevelAt, Level
  <2>5. size \in Int /\ M \in Int
    BY <1>3, <1>4, <1>10, <2>3, StackParts
  <2>6. nw.kind # "body"
    BY <1>7
  <2> QED
    BY <1>6, <2>2, <2>4, <2>5, <2>6, LevelBegins
<1>13. FrameFits(scopes', stacks', emitters', z, n)
  <2>1. Nested(scopes', stacks', emitters', b, r + 1, y, k, n)
    BY <1>3, <1>5, <1>6, <1>7, <1>11, <1>12, BlockOpensFits
  <2>2. FrameBase(scopes') = b /\ Len(scopes') = r + 1
    BY <1>3, <1>5, <1>7, BaseAppended
  <2>3. y = IF b = 2 THEN 0 ELSE z
    BY <1>3, <1>4 DEF Origin
  <2> QED
    BY <1>9, <2>1, <2>2, <2>3, FrameIs
<1>14. RootFits(scopes', stacks', emitters', z, n)
  <2>1. RootFits(Front(scopes), Front(stacks), Front(emitters), z, n)
    BY <1>2, <1>3, <1>8, RootShortened
  <2> QED
    BY <1>3, <1>5, <1>6, <1>7, <2>1, BlockOpensRoot
<1> QED
  BY <1>5, <1>13, <1>14 DEF DepthInv

(* The code of a block takes what its condition left.                      *)
LEMMA LevelCloses ==
  ASSUME NEW kind, NEW size, NEW chunk, Whole(chunk.code), NEW b, NEW d, NEW k, NEW max, NEW n,
         Level(kind, size, chunk, b, d, max, k, n),
         NEW code, Whole(code), Follows(code, d, k, max + 4 * Slack(k), n),
         NEW new, new.head = chunk.head, new.code = chunk.code \o code
  PROVE  Level(kind, size, new, b, k, max, k, n)
<1>1. PICK w : w = max + 4 * Slack(k)
  OBVIOUS
<1>2. Follows(chunk.code, b, d, w, n) /\ Follows(code, d, k, w, n)
  BY <1>1 DEF Level
<1>3. Follows(new.code, b, k, w, n)
  BY <1>2, FollowsConcat
<1> QED
  BY <1>1, <1>3 DEF Level

LEMMA ClosesFits ==
  ASSUME NEW r \in Nat \ {0}, NEW b \in 1..r, NEW sd \in Seq(Scope), Len(sd) = r,
         NEW su, NEW en \in Seq(Chunk), Len(en) = r, Whole(en[r].code), su[b].size \in Nat,
         NEW y, NEW k \in Nat, NEW p \in Nat, NEW n, NEW M, Levels(sd, su, en, b, r, y, k, p, M, n),
         NEW code, Whole(code), Follows(code, k + p, k, M + 4 * Slack(k), n)
  PROVE  Nested(sd, su, Emit(en, code), b, r, y, k, n)
<1>1. PICK eo : eo = Emit(en, code)
  OBVIOUS
<1>2. eo[r].head = en[r].head /\ eo[r].code = en[r].code \o code /\ \A i \in 1..r : i # r => eo[i] = en[i]
  <2>1. Emits(eo, en, r, code)
    BY <1>1, EmitParts
  <2> QED
    BY <2>1 DEF Emits
<1>3. ASSUME NEW i \in b..r PROVE Pending(sd, i) = 0 \/ i # r
  BY DEF Pending
<1>4. b \in b..r /\ b \in Nat
  OBVIOUS
<1>5. 4 * (k + Pending(sd, b)) <= su[b].size
  <2>1. 4 * Ends(sd, b, r, k, p) <= su[b].size
    BY DEF Levels
  <2>2. CASE b = r
    <3>1. 4 * (k + p) <= su[b].size /\ Pending(sd, b) = 0
      BY <1>3, <1>4, <2>1, <2>2 DEF Ends
    <3>2. k + Pending(sd, b) = k
      BY <3>1
    <3>3. 4 * k <= su[b].size
      BY <3>1
    <3> QED
      BY <3>2, <3>3
  <2>3. CASE b # r
    BY <2>1, <2>3 DEF Ends
  <2> QED
    BY <2>2, <2>3
<1>6. ASSUME NEW i \in b..r PROVE LevelAt(sd, su, eo, i, IF i = b THEN y ELSE k, su[b].max, k, n)
  <2>1. PICK x, d, kind, size : x = (IF i = b THEN y ELSE k) /\ d = Ends(sd, i, r, k, p) /\ kind = sd[i].kind
                                /\ size = su[i].size
    OBVIOUS
  <2>2. Level(kind, size, en[i], x, d, M, k, n) /\ su[b].max = M
    BY <2>1, Zenon DEF Levels
  <2>3. CASE i = r
    <3>1. d = k + p
      BY <2>1, <2>3 DEF Ends
    <3>2. PICK new, chunk : new = eo[i] /\ chunk = en[i]
      OBVIOUS
    <3>3. /\ new.head = chunk.head /\ new.code = chunk.code \o code /\ Whole(chunk.code)
          /\ Level(kind, size, chunk, x, d, M, k, n) /\ Follows(code, d, k, M + 4 * Slack(k), n)
      BY <1>2, <2>2, <2>3, <3>1, <3>2
    <3>4. Level(kind, size, new, x, k, M, k, n)
      BY <3>3, LevelCloses
    <3>5. k + Pending(sd, i) = k
      BY <1>3, <2>3
    <3> QED
      BY <2>1, <2>2, <3>2, <3>4, <3>5, Zenon DEF LevelAt
  <2>4. CASE i # r
    <3>1. d = k + Pending(sd, i)
      BY <2>1, <2>4 DEF Ends
    <3>2. i \in 1..r
      OBVIOUS
    <3>3. eo[i] = en[i]
      BY <1>2, <2>4, <3>2
    <3> QED
      BY <2>1, <2>2, <3>1, <3>3, Zenon DEF LevelAt
  <2> QED
    BY <2>3, <2>4
<1>7. \A i \in b+1..r : sd[i].kind \in BlockKinds
  BY DEF Levels
<1>8. Nested(sd, su, eo, b, r, y, k, n)
  BY <1>5, <1>6, <1>7 DEF Nested
<1> QED
  BY <1>1, <1>8

(* A block ends, and what it was for is emitted as this code.              *)
LEMMA CloseBlockDepth ==
  ASSUME NEW K, CodeInv(TRUE, K), NEW n \in Nat, NEW z, DepthInv(z, n),
         NEW t, NEW r, NEW b, InBlock(t, r, b), NEW y, y = Origin(scopes, z), NEW k \in Nat,
         Nested(scopes, stacks, emitters, b, t, y, k, n), WithWhile /\ b = 2 => k = 0,
         NEW code, CloseBlock(code), Whole(code),
         Follows(code, k + Left(scopes[t].kind), k, stacks[b].max + 4 * Slack(k), n)
  PROVE  DepthInv(z, n)'
<1>1. PICK sd, su, en, p : /\ sd = Front(scopes) /\ su = Front(stacks) /\ en = Front(emitters)
                           /\ p = Left(scopes[t].kind)
  OBVIOUS
<1>2. /\ t \in Nat \ {0, 1} /\ r \in Nat \ {0} /\ b \in 1..r /\ b = FrameBase(scopes) /\ b \in 1..t
      /\ sd \in Seq(Scope) /\ Len(sd) = r /\ StacksOK(su, r) /\ StacksOK(stacks, t)
      /\ en \in Seq(Chunk) /\ Len(en) = r /\ FrameBase(sd) = b
      /\ en[1] = emitters[1] /\ en[r] = emitters[r] /\ r \in 1..Len(scopes)
      /\ EmittersOK(scopes, emitters, funcs, TRUE)
  BY <1>1 DEF InBlock
<1>3. scopes' = sd /\ stacks' = su /\ emitters' = Emit(en, code) /\ funcs' = funcs
  BY <1>1 DEF CloseBlock
<1>4. PICK M : M = stacks[b].max
  OBVIOUS
<1>5. Levels(sd, su, en, b, r, y, k, p, M, n)
  BY <1>1, <1>4, BlockFits
<1>6. Whole(en[r].code)
  BY <1>2, EmittersWhole
<1>7. p \in Nat /\ su[b].size \in Nat
  <2>1. p \in Nat
    BY <1>1 DEF Left
  <2>2. su[b].size \in Nat
    BY <1>2, StackParts
  <2> QED
    BY <2>1, <2>2
<1>8. Follows(code, k + p, k, M + 4 * Slack(k), n)
  BY <1>1, <1>4
<1>9. Nested(sd, su, Emit(en, code), b, r, y, k, n)
  BY <1>2, <1>5, <1>6, <1>7, <1>8, ClosesFits
<1>10. FrameFits(scopes', stacks', emitters', z, n)
  <2>1. y = IF b = 2 THEN 0 ELSE z
    BY <1>2 DEF Origin
  <2>2. Nested(scopes', stacks', emitters', b, r, y, k, n) /\ b = FrameBase(scopes') /\ r = Len(scopes')
    BY <1>2, <1>3, <1>9
  <2> QED
    BY <2>1, <2>2, FrameIs
<1>11. RootFits(scopes', stacks', emitters', z, n)
  <2>1. PICK eo : eo = Emit(en, code) /\ (r # 1 => eo[1] = emitters[1])
    <3>1. Emits(Emit(en, code), en, r, code)
      BY <1>2, EmitParts
    <3>2. r # 1 => Emit(en, code)[1] = emitters[1]
      BY <1>2, <3>1 DEF Emits
    <3> QED
      BY <3>2
  <2>2. RootFits(scopes, stacks, emitters, z, n)
    BY DEF DepthInv
  <2>3. RootFits(sd, su, eo, z, n)
    BY <1>1, <2>1, <2>2, RootShortened
  <2> QED
    BY <1>3, <2>1, <2>3
<1> QED
  BY <1>3, <1>10, <1>11 DEF DepthInv

(* The depth of a frame is within what is booked.                          *)
LEMMA DepthBooked ==
  ASSUME NEW t, NEW r, NEW b, InBlock(t, r, b), NEW y, NEW k \in Nat, NEW n,
         Nested(scopes, stacks, emitters, b, t, y, k, n)
  PROVE  4 * k <= stacks[b].max + 4 * Slack(k)
<1>1. /\ r \in Nat \ {0} /\ b \in 1..r /\ StacksOK(stacks, t) /\ t = r + 1
  BY DEF InBlock
<1>2. t \in b..t /\ t \in 1..t /\ b \in 1..t /\ t \in Nat
  BY <1>1
<1>3. 4 * k - 4 * Slack(k) <= stacks[t].size /\ stacks[t].size <= stacks[b].max
  BY <1>2 DEF Nested, LevelAt, Level
<1>4. stacks[t].size \in Nat /\ stacks[b].max \in Nat
  BY <1>1, <1>2, StackParts
<1>5. Slack(k) \in Nat
  BY SlackIs
<1> QED
  BY <1>3, <1>4, <1>5

LEMMA CloseIfDepth ==
  ASSUME NEW K, CodeInv(TRUE, K), NEW n \in Nat, NEW z, DepthInv(z, n), CloseIf, OffsetsFit
  PROVE  DepthInv(z, n)'
<1>1. scopes[Len(scopes)].kind = "else" /\ scopes[Len(scopes)].kind \in BlockKinds
  BY DEF CloseIf, top, BlockKinds
<1>2. PICK t, r, b : InBlock(t, r, b)
  BY <1>1, InnermostBlock
<1>3. /\ t \in Nat \ {0, 1} /\ t = Len(scopes) /\ t = top /\ t \in 1..Len(scopes) /\ ScopesOK(scopes)
      /\ b = FrameBase(scopes) /\ EmittersOK(scopes, emitters, funcs, TRUE)
  BY <1>2 DEF InBlock
<1>4. FrameFits(scopes, stacks, emitters, z, n)
  BY DEF DepthInv
<1>5. PICK y, yes, no, code : /\ y = Origin(scopes, z) /\ yes = emitters[t].head /\ no = emitters[t].code
                              /\ code = IfCode(yes, no)
  OBVIOUS
<1>6. PICK k \in Nat : Nested(scopes, stacks, emitters, b, t, y, k, n) /\ (WithWhile /\ b = 2 => k = 0)
  BY <1>3, <1>4, <1>5, FrameNow
<1>7. Whole(yes) /\ Whole(no)
  BY <1>3, <1>5, EmittersWhole
<1>8. Len(yes) + 3 < ByteRange
  <2>1. t \in DOMAIN scopes
    BY <1>3, InnermostIn
  <2> QED
    BY <1>1, <1>3, <1>5, <2>1 DEF OffsetsFit
<1>9. PICK w : w = stacks[b].max + 4 * Slack(k)
  OBVIOUS
<1>10. 4 * k <= w
  BY <1>2, <1>6, <1>9, DepthBooked
<1>11. Follows(yes, k, k, w, n) /\ Follows(no, k, k, w, n)
  <2>1. Level(scopes[t].kind, stacks[t].size, emitters[t], k, k, stacks[b].max, k, n)
    BY <1>2, <1>6, BlockFits
  <2> QED
    BY <1>1, <1>3, <1>5, <1>9, <2>1 DEF Level
<1>12. Follows(code, k + 1, k, w, n)
  BY <1>5, <1>7, <1>8, <1>10, <1>11, IfCodeFollows
<1>13. Whole(code)
  <2>1. Laid(code, Instruction) /\ Lands(code)
    <3>1. Good(yes, MaxFor(scopes, t), CallsFor(scopes, funcs, t), TRUE) /\ Good(no, MaxFor(scopes, t), CallsFor(scopes, funcs, t), TRUE)
      BY <1>3, <1>5 DEF EmittersOK
    <3>2. Good(code, MaxFor(scopes, t), CallsFor(scopes, funcs, t), TRUE)
      BY <1>5, <1>8, <3>1, IfCodeGood
    <3> QED
      BY <3>2, GoodWhole DEF Whole
  <2> QED
    BY <2>1 DEF Whole
<1>14. CloseBlock(code)
  BY <1>3, <1>5 DEF CloseIf
<1>15. Follows(code, k + Left(scopes[t].kind), k, stacks[b].max + 4 * Slack(k), n)
  <2>1. Left(scopes[t].kind) = 1
    BY <1>1, <1>3 DEF Left
  <2> QED
    BY <1>9, <1>12, <2>1
<1> QED
  BY <1>2, <1>5, <1>6, <1>13, <1>14, <1>15, CloseBlockDepth

LEMMA CloseWhileDepth ==
  ASSUME NEW K, CodeInv(TRUE, K), NEW n \in Nat, NEW z, DepthInv(z, n), CloseWhile, OffsetsFit
  PROVE  DepthInv(z, n)'
<1>1. scopes[Len(scopes)].kind = "body" /\ scopes[Len(scopes)].kind \in BlockKinds
  BY DEF CloseWhile, top, BlockKinds
<1>2. PICK t, r, b : InBlock(t, r, b)
  BY <1>1, InnermostBlock
<1>3. /\ t \in Nat \ {0, 1} /\ t = Len(scopes) /\ t = top /\ t \in 1..Len(scopes) /\ ScopesOK(scopes)
      /\ b = FrameBase(scopes) /\ EmittersOK(scopes, emitters, funcs, TRUE)
  BY <1>2 DEF InBlock
<1>4. FrameFits(scopes, stacks, emitters, z, n)
  BY DEF DepthInv
<1>5. PICK y, cond, body, code : /\ y = Origin(scopes, z) /\ cond = emitters[t].head
                                 /\ body = emitters[t].code /\ code = WhileCode(cond, body)
  OBVIOUS
<1>6. PICK k \in Nat : Nested(scopes, stacks, emitters, b, t, y, k, n) /\ (WithWhile /\ b = 2 => k = 0)
  BY <1>3, <1>4, <1>5, FrameNow
<1>7. Whole(cond) /\ Whole(body)
  BY <1>3, <1>5, EmittersWhole
<1>8. Len(cond) + Len(body) + 6 < ByteRange
  <2>1. t \in DOMAIN scopes
    BY <1>3, InnermostIn
  <2> QED
    BY <1>1, <1>3, <1>5, <2>1 DEF OffsetsFit
<1>9. PICK w : w = stacks[b].max + 4 * Slack(k)
  OBVIOUS
<1>10. 4 * k <= w
  BY <1>2, <1>6, <1>9, DepthBooked
<1>11. Follows(cond, k, k + 1, w, n) /\ Follows(body, k, k, w, n)
  <2>1. Level(scopes[t].kind, stacks[t].size, emitters[t], k, k, stacks[b].max, k, n)
    BY <1>2, <1>6, BlockFits
  <2> QED
    BY <1>1, <1>3, <1>5, <1>9, <2>1 DEF Level
<1>12. Follows(code, k, k, w, n)
  BY <1>5, <1>7, <1>8, <1>10, <1>11, WhileCodeFollows
<1>13. Whole(code)
  <2>1. /\ Good(cond, MaxFor(scopes, t), CallsFor(scopes, funcs, t), TRUE)
        /\ Good(body, MaxFor(scopes, t), CallsFor(scopes, funcs, t), TRUE)
    BY <1>3, <1>5 DEF EmittersOK
  <2>2. Good(code, MaxFor(scopes, t), CallsFor(scopes, funcs, t), TRUE)
    BY <1>5, <1>8, <2>1, WhileCodeGood
  <2> QED
    BY <2>2, GoodWhole
<1>14. CASE CloseBlock(code)
  <2>1. Follows(code, k + Left(scopes[t].kind), k, stacks[b].max + 4 * Slack(k), n)
    <3>1. k + Left(scopes[t].kind) = k
      BY <1>1, <1>3 DEF Left
    <3> QED
      BY <1>9, <1>12, <3>1
  <2> QED
    BY <1>2, <1>5, <1>6, <1>13, <1>14, <2>1, CloseBlockDepth
<1>15. CASE status' = "panic" /\ UNCHANGED <<scopes, stacks, emitters, descs, funcs, stats>>
  BY <1>15 DEF DepthInv
<1> QED
  BY <1>3, <1>5, <1>14, <1>15 DEF CloseWhile

(* The first scope of a frame of its own.                                  *)
LEMMA FirstLevel ==
  ASSUME NEW sc, NEW st, NEW em, NEW b \in {1, 2}, NEW z, NEW k, NEW n,
         4 * (k + Pending(sc, b)) <= st[b].size,
         Level(sc[b].kind, st[b].size, em[b], z, k + Pending(sc, b), st[b].max, k, n)
  PROVE  Nested(sc, st, em, b, b, z, k, n)
<1>1. ASSUME NEW i \in b..b PROVE LevelAt(sc, st, em, i, IF i = b THEN z ELSE k, st[b].max, k, n)
  <2>1. i = b
    OBVIOUS
  <2>2. LevelAt(sc, st, em, b, z, st[b].max, k, n)
    BY DEF LevelAt
  <2> QED
    BY <2>1, <2>2
<1>2. b + 1 .. b = {}
  OBVIOUS
<1> QED
  BY <1>1, <1>2 DEF Nested

LEMMA OpenFuncDepth ==
  ASSUME NEW K, CodeInv(TRUE, K), NEW n \in Nat, NEW z, DepthInv(z, n),
         NEW d \in FuncDecls, OpenFunc(d)
  PROVE  DepthInv(z, n)'
<1>1. Len(scopes) = 1 /\ funcs' = funcs
  BY DEF OpenFunc, top
<1>2. /\ scopes \in Seq(Scope) /\ ScopesOK(scopes) /\ EmittersOK(scopes, emitters, funcs, TRUE)
      /\ StacksOK(stacks, 1)
  BY <1>1 DEF CodeInv, ScopesOK
<1>3. FrameFits(scopes, stacks, emitters, z, n)
  BY DEF DepthInv
<1>4. CASE UNCHANGED <<scopes, stacks, emitters>>
  BY <1>1, <1>4 DEF DepthInv
<1>5. CASE /\ scopes'   = Append(scopes, FuncScope(d.args))
           /\ stacks'   = Append(stacks, NewStack(0))
           /\ emitters' = Append(emitters, Emitter(<<>>))
  <2>1. PICK nw \in Scope : nw = FuncScope(d.args) /\ nw.kind = "func"
    BY FuncScopeOK
  <2>2. PICK c \in Chunk : c = Emitter(<<>>) /\ c.code = <<>>
    <3>1. <<>> \in Seq(Cell)
      OBVIOUS
    <3> QED
      BY <3>1, ChunkIs
  <2>3. PICK x \in Sizing : x = NewStack(0) /\ x.size = 0 /\ x.max = 0
    <3>1. 0 \in 0..SizeRange-1
      BY SizeRangePositive
    <3> QED
      BY <3>1, NewStackTyped DEF NewStack
  <2>4. Len(scopes') = 2 /\ scopes'[2] = nw /\ scopes'[1] = scopes[1]
    BY <1>1, <1>2, <1>5, <2>1, SecondAppended
  <2>5. stacks'[2] = x /\ stacks'[1] = stacks[1]
    BY <1>2, <1>5, <2>3, SecondAppended DEF StacksOK
  <2>6. emitters'[2] = c /\ emitters'[1] = emitters[1]
    BY <1>1, <1>2, <1>5, <2>2, SecondAppended DEF EmittersOK
  <2>7. FrameBase(scopes') = 2 /\ FrameBase(scopes) = 1
    BY <1>1, <2>1, <2>4 DEF FrameBase
  <2>8. Pending(scopes', 2) = 0 /\ Pending(scopes', 1) = 0 /\ Pending(scopes, 1) = 0
    BY <1>1, <2>1, <2>4 DEF Pending
  <2>9. Nested(scopes', stacks', emitters', 2, 2, 0, 0, n)
    <3>1. 4 * 0 - 4 * Slack(0) <= 0
      BY SlackIs
    <3>2. Level("func", 0, c, 0, 0, 0, 0, n)
      BY <2>2, <3>1, LevelBegins
    <3>3. Level(scopes'[2].kind, stacks'[2].size, emitters'[2], 0, 0 + Pending(scopes', 2), stacks'[2].max, 0, n)
      BY <2>1, <2>3, <2>4, <2>5, <2>6, <2>8, <3>2
    <3>4. 4 * (0 + Pending(scopes', 2)) <= stacks'[2].size
      BY <2>3, <2>5, <2>8
    <3> QED
      BY <3>3, <3>4, FirstLevel
  <2>10. FrameFits(scopes', stacks', emitters', z, n)
    <3>1. 0 = IF 2 = 2 THEN 0 ELSE z
      OBVIOUS
    <3>2. 2 = Len(scopes') /\ 2 = FrameBase(scopes') /\ 0 \in Nat /\ (WithWhile /\ 2 = 2 => 0 = 0)
      BY <2>4, <2>7
    <3> QED
      BY <2>9, <3>1, <3>2, FrameIs
  <2>11. PICK k \in Nat : Nested(scopes, stacks, emitters, 1, 1, z, k, n)
    BY <1>1, <1>3, <2>7 DEF FrameFits, Origin
  <2>12. Nested(scopes', stacks', emitters', 1, 1, z, k, n)
    <3>1. 1 \in 1..1
      OBVIOUS
    <3>2. LevelAt(scopes, stacks, emitters, 1, z, stacks[1].max, k, n)
      BY <2>11, <3>1 DEF Nested
    <3>3. 4 * (k + Pending(scopes, 1)) <= stacks[1].size
      BY <2>11 DEF Nested
    <3>4. Level(scopes'[1].kind, stacks'[1].size, emitters'[1], z, k + Pending(scopes', 1), stacks'[1].max, k, n)
      BY <2>4, <2>5, <2>6, <2>8, <3>2 DEF LevelAt
    <3>5. 4 * (k + Pending(scopes', 1)) <= stacks'[1].size
      BY <2>5, <2>8, <3>3
    <3> QED
      BY <3>4, <3>5, FirstLevel
  <2>13. RootFits(scopes', stacks', emitters', z, n)
    BY <2>12 DEF RootFits
  <2> QED
    BY <1>1, <2>10, <2>13 DEF DepthInv
<1> QED
  BY <1>4, <1>5 DEF OpenFunc

(* The handle of a function has the stack that its code needs.             *)
LEMMA HandleFitted ==
  ASSUME NEW K, CodeInv(TRUE, K), NEW n \in Nat, NEW z, Disciplined(n), DepthInv(z, n),
         scopes[Len(scopes)].kind = "func", StacksFit
  PROVE  HandleFits(Handle(Last(descs), scopes[top], stacks[top], emitters[top].code), n)
<1>1. /\ ScopesOK(scopes) /\ EmittersOK(scopes, emitters, funcs, TRUE)
      /\ DescsOK(scopes, descs, funcs) /\ StacksOK(stacks, Len(scopes))
  BY DEF CodeInv
<1>2. Len(scopes) = 2 /\ FrameBase(scopes) = 2 /\ top = 2 /\ scopes \in Seq(Scope)
  BY <1>1, EmittersClose DEF top, ScopesOK
<1>3. Last(descs) \in FuncDecls
  <2>1. PICK k \in Nat : Len(descs) = k + 1 /\ descs \in Seq(FuncDecls)
    BY <1>1, <1>2 DEF DescsOK
  <2> QED
    BY <2>1 DEF Last
<1>4. Len(Last(descs).args) = n
  BY <1>3 DEF Disciplined
<1>5. PICK m \in Nat : m = stacks[2].max /\ m < ShortRange /\ m % ShortRange = m
  <2>1. StacksOK(stacks, 2) /\ 2 \in 1..2
    BY <1>1, <1>2
  <2>2. stacks[2].max \in Nat
    BY <2>1, StackParts
  <2>3. 2 \in DOMAIN stacks
    BY <2>1 DEF StacksOK
  <2>4. stacks[2].max < ShortRange
    BY <2>3 DEF StacksFit
  <2> QED
    BY <2>2, <2>4, ShortIs
<1>6. PICK k \in Nat : Nested(scopes, stacks, emitters, 2, 2, 0, k, n) /\ (WithWhile => k = 0)
  BY <1>2 DEF DepthInv, FrameFits, Origin
<1>7. Slack(k) = 0
  BY <1>6 DEF Slack
<1>8. Pending(scopes, 2) = 0
  BY <1>2 DEF Pending
<1>9. Follows(emitters[2].code, 0, k, m, n)
  <2>1. 2 \in 2..2 /\ k + 0 = k /\ m + 4 * 0 = m
    OBVIOUS
  <2>2. LevelAt(scopes, stacks, emitters, 2, 0, stacks[2].max, k, n)
    BY <1>6, <2>1 DEF Nested
  <2> QED
    BY <1>5, <1>7, <1>8, <2>1, <2>2 DEF LevelAt, Level
<1> DEFINE h == Handle(Last(descs), scopes[top], stacks[top], emitters[top].code)
<1>10. h.args = n /\ h.stack = m /\ h.code = emitters[2].code
  BY <1>2, <1>4, <1>5 DEF Handle
<1> HIDE DEF h
<1>11. HandleFits(h, n)
  BY <1>9, <1>10 DEF HandleFits
<1> QED
  BY <1>11 DEF h

LEMMA CloseFuncDepth ==
  ASSUME NEW K, CodeInv(TRUE, K), NEW n \in Nat, NEW z, Disciplined(n), DepthInv(z, n),
         CloseFunc, StacksFit
  PROVE  DepthInv(z, n)'
<1>1. scopes[Len(scopes)].kind = "func"
  BY DEF CloseFunc, top
<1>2. PICK h, sd, su, en : /\ h = Handle(Last(descs), scopes[top], stacks[top], emitters[top].code)
                           /\ sd = Front(scopes) /\ su = Front(stacks) /\ en = Front(emitters)
  OBVIOUS
<1>3. HandleFits(h, n)
  BY <1>1, <1>2, HandleFitted
<1>4. funcs' = Append(funcs, h) /\ scopes' = sd /\ stacks' = su /\ emitters' = en
  BY <1>2 DEF CloseFunc
<1>5. /\ ScopesOK(scopes) /\ EmittersOK(scopes, emitters, funcs, TRUE) /\ FuncsOK(funcs, TRUE, K)
      /\ StacksOK(stacks, Len(scopes)) /\ scopes \in Seq(Scope)
  BY DEF CodeInv, ScopesOK
<1>6. Len(scopes) = 2 /\ FrameBase(scopes) = 2 /\ FrameBase(sd) = 1 /\ Len(sd) = 1
  <2>1. /\ Len(scopes) = 2 /\ FrameBase(scopes) = 2 /\ FrameBase(Front(scopes)) = 1
        /\ Len(Front(scopes)) = Len(scopes) - 1
    BY <1>1, <1>5, EmittersClose
  <2> QED
    BY <1>2, <2>1
<1>7. sd[1] = scopes[1] /\ su[1] = stacks[1] /\ en[1] = emitters[1]
  <2>1. PICK r \in Nat : r = 1 /\ Len(scopes) = r + 1
    BY <1>6
  <2>2. stacks \in Seq(Sizing) /\ Len(stacks) = r + 1 /\ emitters \in Seq(Chunk) /\ Len(emitters) = r + 1
    BY <1>5, <2>1 DEF StacksOK, EmittersOK
  <2>3. Cut(Front(scopes), scopes, r, Scope)
    BY <1>5, <2>1, FrontCut
  <2>4. Cut(Front(stacks), stacks, r, Sizing)
    BY <2>2, FrontCut
  <2>5. Cut(Front(emitters), emitters, r, Chunk)
    BY <2>2, FrontCut
  <2> QED
    BY <1>2, <2>1, <2>3, <2>4, <2>5 DEF Cut
<1>8. PICK k \in Nat : Nested(scopes, stacks, emitters, 1, 1, z, k, n)
  BY <1>6 DEF DepthInv, RootFits
<1>9. Pending(sd, 1) = 0 /\ Pending(scopes, 1) = 0
  <2>1. scopes[1+1].kind = "func"
    BY <1>1, <1>6
  <2> QED
    BY <1>6, <2>1 DEF Pending
<1>10. Nested(sd, su, en, 1, 1, z, k, n)
  <2>1. 1 \in 1..1
    OBVIOUS
  <2>2. LevelAt(scopes, stacks, emitters, 1, z, stacks[1].max, k, n) /\ 4 * (k + Pending(scopes, 1)) <= stacks[1].size
    BY <1>8, <2>1 DEF Nested
  <2>3. Level(sd[1].kind, su[1].size, en[1], z, k + Pending(sd, 1), su[1].max, k, n)
    BY <1>7, <1>9, <2>2 DEF LevelAt
  <2>4. 4 * (k + Pending(sd, 1)) <= su[1].size
    BY <1>7, <1>9, <2>2
  <2> QED
    BY <2>3, <2>4, FirstLevel
<1>11. FrameFits(scopes', stacks', emitters', z, n)
  <2>1. z = IF 1 = 2 THEN 0 ELSE z
    OBVIOUS
  <2>2. 1 = Len(scopes') /\ 1 = FrameBase(scopes') /\ Nested(scopes', stacks', emitters', 1, 1, z, k, n)
    BY <1>4, <1>6, <1>10
  <2>3. WithWhile /\ 1 = 2 => k = 0
    OBVIOUS
  <2> QED
    BY <2>1, <2>2, <2>3, FrameIs
<1>12. RootFits(scopes', stacks', emitters', z, n)
  BY <1>4, <1>6 DEF RootFits
<1>13. FuncsFit(funcs', n)
  <2>1. PICK k1 \in Nat : IsList(funcs, k1)
    BY <1>5 DEF FuncsOK
  <2>2. PICK gn : gn = Append(funcs, h)
    OBVIOUS
  <2>3. IsList(gn, k1 + 1) /\ gn[k1+1] = h /\ \A i \in 1..k1 : gn[i] = funcs[i]
    <3>1. IsLonger(Append(funcs, h), funcs, k1, h)
      BY <2>1, ListGrows
    <3> QED
      BY <2>2, <3>1 DEF IsLonger
  <2>4. DOMAIN gn = 1..k1+1 /\ DOMAIN funcs = 1..k1
    BY <2>1, <2>3 DEF IsList
  <2>5. ASSUME NEW i \in DOMAIN gn PROVE HandleFits(gn[i], n)
    <3>1. CASE i = k1 + 1
      BY <1>3, <2>3, <3>1
    <3>2. CASE i # k1 + 1
      <4>1. i \in 1..k1
        BY <2>4, <3>2
      <4> QED
        BY <2>3, <2>4, <4>1 DEF DepthInv, FuncsFit
    <3> QED
      BY <3>1, <3>2
  <2> QED
    BY <1>4, <2>2, <2>5 DEF FuncsFit
<1> QED
  BY <1>11, <1>12, <1>13 DEF DepthInv

(* No name is used that is not declared: the compiler emits nothing for it. *)
UsesDeclared ==
  \A e \in AllExprs : ExprStat(e) \/ OpenIf(e) \/ OpenWhile(e) => NamesKnown(e)

LEMMA DepthInit == ASSUME Init, NEW n PROVE DepthInv(0, n)
<1>1. PICK sc, st, em, x, c : /\ scopes = sc /\ stacks = st /\ emitters = em
                              /\ sc[1] = x /\ st[1] = NewStack(0) /\ em[1] = c
                              /\ x.kind = "root" /\ c = Emitter(<<>>) /\ Len(sc) = 1
  BY DEF Init, NewScope
<1>2. funcs = <<>>
  BY DEF Init
<1>3. st[1].size = 0 /\ st[1].max = 0
  BY <1>1 DEF NewStack
<1>4. FrameBase(sc) = 1
  BY <1>1 DEF FrameBase
<1>5. Pending(sc, 1) = 0
  BY <1>1 DEF Pending
<1>6. Level("root", 0, c, 0, 0, 0, 0, n)
  <2>1. c.code = <<>>
    BY <1>1 DEF Emitter
  <2>2. 4 * 0 - 4 * Slack(0) <= 0
    BY SlackIs
  <2> QED
    BY <2>1, <2>2, LevelBegins
<1>7. Nested(sc, st, em, 1, 1, 0, 0, n)
  <2>1. 4 * (0 + Pending(sc, 1)) <= st[1].size
    BY <1>3, <1>5
  <2>2. Level(sc[1].kind, st[1].size, em[1], 0, 0 + Pending(sc, 1), st[1].max, 0, n)
    BY <1>1, <1>3, <1>5, <1>6
  <2> QED
    BY <2>1, <2>2, FirstLevel
<1>8. FrameFits(sc, st, em, 0, n)
  <2>1. 0 = IF 1 = 2 THEN 0 ELSE 0
    OBVIOUS
  <2>2. WithWhile /\ 1 = 2 => 0 = 0
    OBVIOUS
  <2> QED
    BY <1>1, <1>4, <1>7, <2>1, <2>2, FrameIs
<1>9. RootFits(sc, st, em, 0, n)
  BY <1>4 DEF RootFits
<1>10. FuncsFit(funcs, n)
  BY <1>2 DEF FuncsFit
<1> QED
  BY <1>1, <1>8, <1>9, <1>10 DEF DepthInv

LEMMA DepthStep ==
  ASSUME NEW K, CodeInv(TRUE, K), NEW n \in Nat, NEW z, Disciplined(n), DepthInv(z, n),
         [Next]_vars, [UsesDeclared]_vars, OffsetsFit, StacksFit, StacksFit'
  PROVE  DepthInv(z, n)'
<1>1. CASE UNCHANGED <<scopes, stacks, emitters, funcs>>
  BY <1>1 DEF DepthInv
<1>11. CASE UNCHANGED vars
  BY <1>1, <1>11 DEF vars
<1> SUFFICES ASSUME UsesDeclared PROVE DepthInv(z, n)'
  BY <1>11
<1>2. ASSUME NEW e \in Statements, ExprStat(e) PROVE DepthInv(z, n)'
  <2>1. NamesKnown(e)
    BY <1>2 DEF UsesDeclared, AllExprs, Statements
  <2> QED
    BY <1>2, <2>1, ExprStatDepth
<1>3. ASSUME NEW e \in CondExprs, OpenIf(e) PROVE DepthInv(z, n)'
  <2>1. NamesKnown(e)
    BY <1>3 DEF UsesDeclared, AllExprs
  <2> QED
    BY <1>3, <2>1, OpenIfDepth
<1>4. ASSUME NEW e \in CondExprs, OpenWhile(e) PROVE DepthInv(z, n)'
  <2>1. NamesKnown(e)
    BY <1>4 DEF UsesDeclared, AllExprs
  <2> QED
    BY <1>4, <2>1, OpenWhileDepth
<1>5. CASE Else
  BY <1>5, ElseDepth
<1>6. CASE CloseIf
  BY <1>6, CloseIfDepth
<1>7. CASE CloseWhile
  BY <1>7, CloseWhileDepth
<1>8. ASSUME NEW d \in FuncDecls, OpenFunc(d) PROVE DepthInv(z, n)'
  BY <1>8, OpenFuncDepth
<1>9. CASE CloseFunc
  BY <1>9, CloseFuncDepth
<1>10. ASSUME NEW e, RejectExpr(e) PROVE UNCHANGED <<scopes, stacks, emitters, funcs>>
  BY <1>10 DEF RejectExpr
<1> QED
  BY <1>1, <1>2, <1>3, <1>4, <1>5, <1>6, <1>7, <1>8, <1>9, <1>10, <1>11 DEF Next

(* The instructions before position i that lead there, and one of them.    *)
Before(code, i) == {j \in Starts(code) : j < i /\ i \in Successors(code, j)}
From(code, i)   == CHOOSE j \in Before(code, i) : TRUE

TakenOver(f, code, i) ==
  IF i = 1 \/ Before(code, i) = {} THEN 0 ELSE DepthAfter(code, From(code, i), f[From(code, i)])

LEMMA DepthsUnfold ==
  ASSUME NEW code, NEW l \in Nat, l = Len(code) + 1, \A i \in Starts(code) : i \in Nat \ {0}
  PROVE  \E f : /\ \A i \in 1..l : f[i] = TakenOver(f, code, i)
                /\ Depths(code) = [i \in Boundaries(code) |-> f[i]]
<1> DEFINE Is(f, m) == f = [i \in 1..m |-> TakenOver(f, code, i)]
           S == {m \in Nat : \E f : Is(f, m)}
<1>0. ASSUME NEW i, Before(code, i) # {}
      PROVE  From(code, i) < i /\ From(code, i) \in Starts(code)
  BY <1>0 DEF From, Before
<1>1. 0 \in S
  <2>1. Is([i \in 1..0 |-> 0], 0)
    OBVIOUS
  <2> QED
    BY <2>1
<1>2. ASSUME NEW m \in Nat, m \in S PROVE m + 1 \in S
  <2>1. PICK f : Is(f, m)
    BY <1>2
  <2>2. PICK v : v = TakenOver(f, code, m + 1)
    OBVIOUS
  <2> DEFINE g == [i \in 1..m+1 |-> IF i <= m THEN f[i] ELSE v]
  <2>3. \A i \in 1..m : g[i] = f[i] /\ f[i] = TakenOver(f, code, i)
    BY <2>1
  <2>4. g[m+1] = v
    OBVIOUS
  <2>5. g = [i \in 1..m+1 |-> g[i]]
    OBVIOUS
  <2> HIDE DEF g
  <2>6. ASSUME NEW i \in 1..m+1 PROVE TakenOver(g, code, i) = TakenOver(f, code, i)
    <3>1. CASE Before(code, i) = {}
      BY <3>1 DEF TakenOver
    <3>2. CASE Before(code, i) # {}
      <4>1. PICK j \in Nat \ {0} : j = From(code, i) /\ j < i
        BY <1>0, <3>2
      <4>2. j \in 1..m
        BY <4>1
      <4>3. g[j] = f[j]
        BY <2>3, <4>2
      <4> QED
        BY <4>1, <4>3 DEF TakenOver
    <3> QED
      BY <3>1, <3>2
  <2>7. ASSUME NEW i \in 1..m+1 PROVE g[i] = TakenOver(g, code, i)
    <3>1. CASE i = m + 1
      BY <2>2, <2>4, <2>6, <3>1
    <3>2. CASE i # m + 1
      <4>1. i \in 1..m
        BY <3>2
      <4> QED
        BY <2>3, <2>6, <4>1
    <3> QED
      BY <3>1, <3>2
  <2>8. Is(g, m + 1)
    BY <2>5, <2>7
  <2> HIDE DEF Is
  <2> QED
    BY <2>8
<1>3. \E f : Is(f, l)
  <2>1. \A m \in Nat : m \in S => m + 1 \in S
    BY <1>2
  <2> HIDE DEF S
  <2>2. l \in S
    BY <1>1, <2>1, Induction
  <2> QED
    BY <2>2 DEF S
<1>4. PICK f : f = (CHOOSE h : Is(h, l))
  OBVIOUS
<1>5. Depths(code) = [i \in Boundaries(code) |-> f[i]]
  BY <1>4 DEF Depths, TakenOver, Before, From
<1> HIDE DEF Is
<1>6. Is(f, l)
  BY <1>3, <1>4
<1>7. \A i \in 1..l : f[i] = TakenOver(f, code, i)
  BY <1>6 DEF Is
<1> QED
  BY <1>5, <1>7

(* The verifier finds the depths of code that has some.                    *)
LEMMA DepthsFound ==
  ASSUME NEW code, Whole(code), Threaded(code, {}), NEW w, NEW n,
         NEW d \in [Int -> Nat], d[1] = 0, Flow(code, d, w, n)
  PROVE  Depths(code) = [i \in Boundaries(code) |-> d[i]]
<1>1. /\ Len(code) \in Nat /\ Boundaries(code) \subseteq 1..Len(code)+1
      /\ \A i \in Starts(code) : i \in 1..Len(code) /\ i \in Boundaries(code)
  BY WholeParts DEF Whole
<1>2. PICK l \in Nat : l = Len(code) + 1
  BY <1>1
<1>3. \A i \in Starts(code) : i \in Nat \ {0} /\ i \in 1..l
  <2> SUFFICES ASSUME NEW i \in Starts(code) PROVE i \in Nat \ {0} /\ i \in 1..l
    OBVIOUS
  <2>1. PICK m \in Nat : m = Len(code) /\ l = m + 1
    BY <1>1, <1>2
  <2>2. i \in 1..m
    BY <1>1, <2>1
  <2> QED
    BY <2>1, <2>2
<1>4. PICK f : /\ \A i \in 1..l : f[i] = TakenOver(f, code, i)
               /\ Depths(code) = [i \in Boundaries(code) |-> f[i]]
  BY <1>2, <1>3, DepthsUnfold
<1> DEFINE S == {m \in Nat : \A i \in Boundaries(code) : i <= m => f[i] = d[i]}
<1>5. 0 \in S
  BY <1>1
<1>6. ASSUME NEW m \in Nat, m \in S PROVE m + 1 \in S
  <2>1. ASSUME NEW i \in Boundaries(code), i = m + 1 PROVE f[i] = d[i]
    <3>1. i \in 1..l
      BY <1>1, <1>2
    <3>2. f[i] = TakenOver(f, code, i)
      BY <1>4, <3>1
    <3>3. CASE i = 1
      BY <3>2, <3>3 DEF TakenOver
    <3>4. CASE i # 1
      <4>1. Reached(code, i)
        BY <3>4 DEF Threaded
      <4>2. Before(code, i) # {}
        BY <4>1 DEF Reached, Before
      <4>3. PICK j \in Starts(code) : j = From(code, i) /\ j < i /\ i \in Successors(code, j)
        BY <4>2 DEF From, Before
      <4>4. f[i] = DepthAfter(code, j, f[j])
        BY <3>2, <3>4, <4>2, <4>3 DEF TakenOver
      <4>5. j \in Boundaries(code) /\ j <= m
        BY <1>1, <1>3, <2>1, <4>3
      <4>6. f[j] = d[j]
        BY <1>6, <4>5
      <4>7. d[i] = DepthAfter(code, j, d[j])
        BY <4>3 DEF Flow, Meets
      <4> QED
        BY <4>4, <4>6, <4>7
    <3> QED
      BY <3>3, <3>4
  <2>2. ASSUME NEW i \in Boundaries(code), i <= m + 1, i # m + 1 PROVE f[i] = d[i]
    <3>1. i \in Nat
      BY <1>1
    <3>2. i <= m
      BY <2>2, <3>1
    <3> QED
      BY <1>6, <3>2
  <2> QED
    BY <2>1, <2>2
<1>7. \A m \in Nat : m \in S => m + 1 \in S
  BY <1>6
<1> HIDE DEF S
<1>8. l \in S
  BY <1>5, <1>7, Induction
<1>9. \A i \in Boundaries(code) : f[i] = d[i]
  BY <1>1, <1>2, <1>8 DEF S
<1> QED
  BY <1>4, <1>9

LEMMA CodeVerified ==
  ASSUME NEW code, NEW cap, NEW m, NEW f, Good(code, m, f, TRUE),
         NEW v \in Nat, m = v, NEW n \in Nat, NEW e, Follows(code, 0, e, cap, n)
  PROVE  Verified(code, cap, v, n)
<1>1. Whole(code)
  BY GoodWhole
<1>2. PICK d \in [Int -> Nat] : d[1] = 0 /\ Flow(code, d, cap, n)
  BY DEF Follows
<1>3. Threaded(code, {})
  BY DEF Follows
<1>4. Depths(code) = [i \in Boundaries(code) |-> d[i]]
  BY <1>1, <1>2, <1>3, DepthsFound
<1>5. /\ 1 \in Boundaries(code) /\ Boundaries(code) \subseteq Int
      /\ \A i \in Starts(code) : i \in Boundaries(code) /\ code[i].op \in Opcodes
  <2>1. /\ 1 \in Boundaries(code) /\ Boundaries(code) \subseteq 1..Len(code)+1
        /\ \A i \in Starts(code) : i \in Boundaries(code) /\ code[i].op \in Opcodes
    BY <1>1, WholeParts DEF Whole
  <2> QED
    BY <2>1
<1>6. PICK D : D = Depths(code)
  OBVIOUS
<1>7. D \in [Boundaries(code) -> Nat] /\ D[1] = 0 /\ \A i \in Boundaries(code) : D[i] = d[i]
  BY <1>2, <1>4, <1>5, <1>6
<1>8. ASSUME NEW i \in Starts(code)
      PROVE  /\ code[i].op \in Opcodes
             /\ D[i] >= Pops(code[i].op)
             /\ 4 * DepthAfter(code, i, D[i]) <= cap
             /\ code[i].op \in {"ILOAD", "ISAVE", "FLOAD", "FSAVE"} => code[i].arg \in 0..v-1
             /\ code[i].op = "CALL" => D[i] >= n
             /\ \A t \in Successors(code, i) : t \in Boundaries(code) /\ D[t] = DepthAfter(code, i, D[i])
  <2>1. D[i] = d[i]
    BY <1>5, <1>7
  <2>2. Meets(code, d, i, cap, n)
    BY <1>2 DEF Flow
  <2>3. \A t \in Successors(code, i) : t \in Boundaries(code) /\ D[t] = d[t]
    BY <1>1, <1>7, SuccessorsIn
  <2>4. code[i].op \in {"ILOAD", "ISAVE", "FLOAD", "FSAVE"} => code[i].arg \in 0..v-1
    <3>1. code[i] \in Instrs(m, f)
      BY DEF Good, Laid
    <3>2. code[i].op \in LocalOps => code[i].arg \in Nat /\ code[i].arg < v
      BY <3>1 DEF Instrs
    <3> QED
      BY <3>2 DEF LocalOps
  <2> QED
    BY <1>5, <2>1, <2>2, <2>3, <2>4 DEF Meets
<1>9. WellFormed(code, D, cap, v, n)
  BY <1>5, <1>7, <1>8 DEF WellFormed
<1> QED
  BY <1>6, <1>9 DEF Verified

LEMMA DepthVerifies ==
  ASSUME CodeInv(TRUE, TRUE), NEW n \in Nat, FuncsFit(funcs, n)
  PROVE  FunctionsVerify
<1>1. PICK l \in Nat : IsList(funcs, l) /\ \A i \in 1..l : HandleOK(funcs[i], TRUE, TRUE)
  BY DEF CodeInv, FuncsOK
<1>2. DOMAIN funcs = 1..l /\ Len(funcs) = l
  BY <1>1 DEF IsList
<1>3. ASSUME NEW i \in DOMAIN funcs
      PROVE  Verified(funcs[i].code, funcs[i].stack, funcs[i].vars, Last(funcs).args)
  <2>1. PICK h : h = funcs[i] /\ HandleOK(h, TRUE, TRUE) /\ HandleFits(h, n)
    BY <1>1, <1>2 DEF FuncsFit
  <2>2. PICK m \in Nat : Good(h.code, m, TRUE, TRUE) /\ m = h.vars
    BY <2>1 DEF HandleOK
  <2>3. PICK e \in Nat : Follows(h.code, 0, e, h.stack, n)
    BY <2>1 DEF HandleFits
  <2>4. Last(funcs).args = n
    <3>1. l \in DOMAIN funcs
      BY <1>2
    <3>2. funcs[l].args = n
      BY <3>1 DEF FuncsFit, HandleFits
    <3> QED
      BY <1>2, <3>2 DEF Last
  <2>5. Verified(h.code, h.stack, h.vars, n)
    BY <2>2, <2>3, CodeVerified
  <2> QED
    BY <2>1, <2>4, <2>5
<1> QED
  BY <1>3 DEF FunctionsVerify

VerifyInv(n) == CodeInv(TRUE, TRUE) /\ DepthInv(0, n)

LEMMA VerifyStep ==
  ASSUME NEW n \in Nat, Disciplined(n), VerifyInv(n), [Next]_vars,
         [UsesDeclared]_vars, OffsetsFit, SizesFit, StacksFit, StacksFit'
  PROVE  VerifyInv(n)'
<1>1. CodeInv(TRUE, TRUE) /\ DepthInv(0, n)
  BY DEF VerifyInv
<1>2. CodeInv(TRUE, TRUE)'
  BY <1>1, CodeStep
<1>3. DepthInv(0, n)'
  BY <1>1, DepthStep
<1> QED
  BY <1>2, <1>3 DEF VerifyInv

(* The code of every function is safe on a machine that checks nothing,    *)
(* with the stack and the locals its handle asks for, on every path: the   *)
(* depth opcode_to_stack_inc_map makes compiler_scope.c book is never less *)
(* than the depth the handlers reach, whatever blocks are nested.  It is   *)
(* the same n all functions take as arguments that every call has.         *)
THEOREM FunctionsAlwaysVerify ==
  ASSUME NEW n \in Nat, Disciplined(n)
  PROVE  Spec /\ [][UsesDeclared]_vars /\ []OffsetsFit /\ []SizesFit /\ []StacksFit => []FunctionsVerify
<1>1. Init => VerifyInv(n)
  BY CodeInit, DepthInit DEF VerifyInv
<1>2. VerifyInv(n) /\ [Next]_vars /\ [UsesDeclared]_vars
        /\ OffsetsFit /\ SizesFit /\ StacksFit /\ StacksFit' => VerifyInv(n)'
  BY VerifyStep
<1>3. VerifyInv(n) => FunctionsVerify
  <2>1. VerifyInv(n) => CodeInv(TRUE, TRUE) /\ FuncsFit(funcs, n)
    BY DEF VerifyInv, DepthInv
  <2> QED
    BY <2>1, DepthVerifies
<1> QED
  BY <1>1, <1>2, <1>3, PTL DEF Spec
=============================================================================
