--------------------------- MODULE FuncTableProof ---------------------------
(***************************************************************************)
(* Theorems about module FuncTable, for every number of functions, every   *)
(* hash of their signatures, every initial capacity and every number of    *)
(* probes.                                                                 *)
(*                                                                         *)
(* A map of the compiler holds the same values for the same keys however   *)
(* its puts go: operator Holds says which, in the slots or in what is      *)
(* still to be stored.  An answer is found because the elements are all    *)
(* of different keys, and each lies in a slot its key is probed for.       *)
(***************************************************************************)
EXTENDS FuncTable, FiniteSetTheorems, SequenceTheorems, WellFoundedInduction, TLAPS

(* Elements with keys in K and values in V, and slots that are not in use. *)
Entries(K, V) == {Unused} \cup [used : {TRUE}, key : K, value : V]

MapTyped(m, K, V) ==
  /\ m = [cap |-> m.cap, size |-> m.size, data |-> m.data, todo |-> m.todo]
  /\ m.cap \in Nat \ {0}
  /\ m.size \in Nat
  /\ m.data \in [Slots(m) -> Entries(K, V)]
  /\ m.todo \in Seq(Entries(K, V))

InSlot(m, s, t) == s \in Slots(m) /\ m.data[s].used /\ m.data[s].key = t
Waits(m, i, t)  == i \in DOMAIN m.todo /\ m.todo[i].used /\ m.todo[i].key = t

Holds(m, t, v) ==
  \/ \E s \in Slots(m) : InSlot(m, s, t) /\ m.data[s].value = v
  \/ \E i \in DOMAIN m.todo : Waits(m, i, t) /\ m.todo[i].value = v

Distinct(m) ==
  \A t \in Texts :
    /\ \A r, s \in Slots(m) : InSlot(m, r, t) /\ InSlot(m, s, t) => r = s
    /\ \A i, j \in DOMAIN m.todo : Waits(m, i, t) /\ Waits(m, j, t) => i = j
    /\ \A s \in Slots(m), i \in DOMAIN m.todo : ~(InSlot(m, s, t) /\ Waits(m, i, t))

Reachable(m) ==
  \A s \in Slots(m), t \in Texts :
    InSlot(m, s, t) => \E i \in 1..MaxProbe : Probe(m, t, i) = s

(* What a map of the compiler is at any moment.                            *)
MapInv(m, V) == MapTyped(m, Texts, V) /\ Distinct(m) /\ Reachable(m)

-----------------------------------------------------------------------------
(* A set of numbers has a least one.                                       *)
Less == {ss \in Nat \X Nat : ss[1] < ss[2]}

LEMMA LessFounded == IsWellFoundedOn(Less, Nat)
  BY NatLessThanWellFounded, Zenon DEF OpToRel, Less

LEMMA HasLeast ==
  ASSUME NEW S, S \subseteq Nat, S # {}
  PROVE  \E x \in S : \A y \in S : x <= y
<1>1. PICK x \in S : \A y \in S : ~ (<<y, x>> \in Less)
  BY LessFounded, WFMin, Zenon
<1>2. ASSUME NEW y \in S
      PROVE  x <= y
  <2>1. x \in Nat /\ y \in Nat
    OBVIOUS
  <2>2. y < x => <<y, x>> \in Less
    BY <2>1 DEF Less
  <2> QED
    BY <1>1, <2>1, <2>2
<1> QED
  BY <1>2

LEMMA ProbeIsSlot ==
  ASSUME NEW m, m.cap \in Nat \ {0}, NEW t \in Texts, NEW i \in 1..MaxProbe
  PROVE  Probe(m, t, i) \in Slots(m)
<1>1. Hash[t] \in Nat /\ i \in Nat \ {0}
  BY HashAssumption, ProbeAssumption
<1>2. Hash[t] + i - 1 \in Nat
  BY <1>1
<1> QED
  BY <1>2 DEF Probe, Slots

(* A search that any probe ends ends in a slot it looks for.               *)
LEMMA FirstProbeHits ==
  ASSUME NEW m, m.cap \in Nat \ {0}, NEW t \in Texts, NEW ok,
         \E i \in 1..MaxProbe : Probe(m, t, i) \in ok
  PROVE  /\ FirstProbe(m, t, ok) \in ok \cap Slots(m)
         /\ \E i \in 1..MaxProbe : FirstProbe(m, t, ok) = Probe(m, t, i)
         /\ FirstProbe(m, t, ok) # NoSlot
<1> DEFINE hits  == {i \in 1..MaxProbe : Probe(m, t, i) \in ok}
           first == CHOOSE i \in hits : \A j \in hits : i <= j
<1>1. hits \subseteq Nat /\ hits # {}
  BY ProbeAssumption
<1>2. \E i \in hits : \A j \in hits : i <= j
  BY <1>1, HasLeast
<1>3. first \in hits
  BY <1>2
<1>4. FirstProbe(m, t, ok) = Probe(m, t, first)
  BY <1>1 DEF FirstProbe
<1>5. Probe(m, t, first) \in Slots(m)
  BY <1>3, ProbeIsSlot
<1>6. NoSlot \notin Slots(m)
  BY DEF NoSlot, Slots
<1> HIDE DEF first
<1> QED
  BY <1>3, <1>4, <1>5, <1>6

LEMMA FirstProbeMisses ==
  ASSUME NEW m, NEW t, NEW ok, \A i \in 1..MaxProbe : Probe(m, t, i) \notin ok
  PROVE  FirstProbe(m, t, ok) = NoSlot
  BY DEF FirstProbe

LEMMA FirstProbeEnds ==
  ASSUME NEW m, m.cap \in Nat \ {0}, NEW t \in Texts, NEW ok,
         FirstProbe(m, t, ok) # NoSlot
  PROVE  /\ FirstProbe(m, t, ok) \in ok \cap Slots(m)
         /\ \E i \in 1..MaxProbe : FirstProbe(m, t, ok) = Probe(m, t, i)
  BY FirstProbeHits, FirstProbeMisses

-----------------------------------------------------------------------------
LEMMA EntryFields ==
  ASSUME NEW K, NEW V, NEW e \in Entries(K, V)
  PROVE  /\ e.used \in BOOLEAN
         /\ e.used => e.key \in K /\ e.value \in V /\ e = Element(e.key, e.value)
         /\ ~e.used => e = Unused
<1>1. CASE e = Unused
  BY <1>1 DEF Unused
<1>2. CASE e \in [used : {TRUE}, key : K, value : V]
  BY <1>2 DEF Element
<1> QED
  BY <1>1, <1>2 DEF Entries

LEMMA NewEntries ==
  ASSUME NEW K, NEW V
  PROVE  /\ Unused \in Entries(K, V) /\ ~Unused.used
         /\ \A k \in K, v \in V :
              /\ Element(k, v) \in Entries(K, V)
              /\ Element(k, v).used /\ Element(k, v).key = k /\ Element(k, v).value = v
  BY DEF Entries, Unused, Element

LEMMA SlotsHold ==
  ASSUME NEW m, NEW V, MapTyped(m, Texts, V), NEW s \in Slots(m), m.data[s].used
  PROVE  /\ InSlot(m, s, m.data[s].key)
         /\ m.data[s].key \in Texts
         /\ m.data[s].value \in V
         /\ Holds(m, m.data[s].key, m.data[s].value)
<1>1. m.data[s] \in Entries(Texts, V)
  BY DEF MapTyped
<1> QED
  BY <1>1, EntryFields DEF InSlot, Holds

LEMMA HoldsTyped ==
  ASSUME NEW m, NEW V, MapTyped(m, Texts, V), NEW t, NEW v, Holds(m, t, v)
  PROVE  t \in Texts /\ v \in V
<1>1. \A s \in Slots(m) : m.data[s] \in Entries(Texts, V)
  BY DEF MapTyped
<1>2. \A i \in DOMAIN m.todo : m.todo[i] \in Entries(Texts, V)
  BY ElementOfSeq DEF MapTyped
<1> QED
  BY <1>1, <1>2, EntryFields DEF Holds, InSlot, Waits

(* A key that is in a slot is found there.                                 *)
LEMMA GetFinds ==
  ASSUME NEW m, NEW V, MapInv(m, V), NEW t \in Texts, NEW s \in Slots(m), InSlot(m, s, t)
  PROVE  HashmapGet(m, Own, t) = m.data[s].value
<1> DEFINE ok == {r \in Slots(m) : HasText(m, Own, r, t)}
<1>1. m.cap \in Nat \ {0}
  BY DEF MapInv, MapTyped
<1>2. \A r \in ok : InSlot(m, r, t)
  <2> SUFFICES ASSUME NEW r \in ok
               PROVE  InSlot(m, r, t)
    OBVIOUS
  <2>1. m.data[r].used /\ Own[m.data[r].key] = t /\ r \in Slots(m)
    BY DEF HasText, InUse
  <2>2. m.data[r].key \in Texts
    BY <2>1, SlotsHold DEF MapInv
  <2> QED
    BY <2>1, <2>2 DEF InSlot, Own, Signatures
<1>3. s \in ok
  BY DEF InSlot, HasText, InUse, Own, Signatures
<1>4. \A r \in ok : r = s
  BY <1>2, <1>3 DEF MapInv, Distinct
<1>5. \E i \in 1..MaxProbe : Probe(m, t, i) \in ok
  BY <1>3 DEF MapInv, Reachable
<1>6. FirstProbe(m, t, ok) = s /\ FirstProbe(m, t, ok) # NoSlot
  <2> HIDE DEF ok
  <2> QED
    BY <1>1, <1>4, <1>5, FirstProbeHits
<1> QED
  BY <1>6 DEF HashmapGet

LEMMA GetMisses ==
  ASSUME NEW m, NEW V, MapInv(m, V), NEW t \in Texts,
         \A s \in Slots(m) : ~InSlot(m, s, t)
  PROVE  HashmapGet(m, Own, t) = Missing
<1> DEFINE ok == {r \in Slots(m) : HasText(m, Own, r, t)}
<1>1. ok = {}
  <2> SUFFICES ASSUME NEW r \in Slots(m), HasText(m, Own, r, t)
               PROVE  FALSE
    OBVIOUS
  <2>1. m.data[r].used /\ Own[m.data[r].key] = t
    BY DEF HasText, InUse
  <2>2. m.data[r].key \in Texts
    BY <2>1, SlotsHold DEF MapInv
  <2> QED
    BY <2>1, <2>2 DEF InSlot, Own, Signatures
<1>2. FirstProbe(m, t, ok) = NoSlot
  BY <1>1, FirstProbeMisses
<1> QED
  BY <1>2 DEF HashmapGet

(* An answer is what the map holds.                                        *)
LEMMA AnswerHeld ==
  ASSUME NEW m, NEW V, MapInv(m, V), NEW t, NEW v, Holds(m, t, v)
  PROVE  Answer(m, t) = v
<1> DEFINE waiting == {i \in DOMAIN m.todo : m.todo[i].used /\ m.todo[i].key = t}
<1>1. t \in Texts
  BY HoldsTyped DEF MapInv
<1>2. ASSUME NEW s \in Slots(m), InSlot(m, s, t), m.data[s].value = v
      PROVE  Answer(m, t) = v
  <2>1. waiting = {}
    BY <1>1, <1>2 DEF MapInv, Distinct, Waits
  <2>2. Answer(m, t) = HashmapGet(m, Own, t)
    BY <2>1 DEF Answer
  <2> QED
    BY <1>1, <1>2, <2>2, GetFinds
<1>3. ASSUME NEW i \in DOMAIN m.todo, Waits(m, i, t), m.todo[i].value = v
      PROVE  Answer(m, t) = v
  <2> DEFINE last == CHOOSE j \in waiting : \A k \in waiting : k <= j
  <2>1. waiting = {i}
    BY <1>1, <1>3 DEF MapInv, Distinct, Waits
  <2>2. i \in Nat
    BY <1>3 DEF MapInv, MapTyped
  <2>3. last = i
    BY <2>1, <2>2
  <2>4. Answer(m, t) = m.todo[last].value
    BY <2>1 DEF Answer
  <2> QED
    BY <1>3, <2>3, <2>4
<1> QED
  BY <1>2, <1>3 DEF Holds

LEMMA AnswerMissing ==
  ASSUME NEW m, NEW V, MapInv(m, V), NEW t \in Texts, \A v : ~Holds(m, t, v)
  PROVE  Answer(m, t) = Missing
<1> DEFINE waiting == {i \in DOMAIN m.todo : m.todo[i].used /\ m.todo[i].key = t}
<1>1. waiting = {}
  BY DEF Holds, Waits
<1>2. \A s \in Slots(m) : ~InSlot(m, s, t)
  BY DEF Holds
<1> QED
  BY <1>1, <1>2, GetMisses DEF Answer

(* Maps that hold the same give the same answers.                          *)
LEMMA SameAnswers ==
  ASSUME NEW m, NEW n, NEW V, MapInv(m, V), MapInv(n, V),
         \A t, v : Holds(n, t, v) <=> Holds(m, t, v),
         NEW t \in Texts
  PROVE  Answer(n, t) = Answer(m, t)
<1>1. CASE \E v : Holds(m, t, v)
  BY <1>1, AnswerHeld
<1>2. CASE \A v : ~Holds(m, t, v)
  BY <1>2, AnswerMissing
<1> QED
  BY <1>1, <1>2

-----------------------------------------------------------------------------
(* What waits once the head of the queue is gone.                          *)
LEMMA TailWaits ==
  ASSUME NEW E, NEW m, NEW n, m.todo \in Seq(E), m.todo # <<>>, n.todo = Tail(m.todo)
  PROVE  /\ n.todo \in Seq(E)
         /\ DOMAIN n.todo = 1..Len(m.todo)-1 /\ DOMAIN m.todo = 1..Len(m.todo)
         /\ \A i \in DOMAIN n.todo : i + 1 \in DOMAIN m.todo /\ n.todo[i] = m.todo[i + 1]
         /\ \A i \in DOMAIN m.todo : i = 1 \/ i - 1 \in DOMAIN n.todo
<1>1. Len(m.todo) \in Nat \ {0} /\ DOMAIN m.todo = 1..Len(m.todo)
  BY EmptySeq, LenProperties
<1>2. /\ n.todo \in Seq(E)
      /\ Len(n.todo) = Len(m.todo) - 1
      /\ \A i \in 1..Len(n.todo) : n.todo[i] = m.todo[i + 1]
  BY HeadTailProperties
<1>3. DOMAIN n.todo = 1..Len(n.todo)
  BY <1>2, LenProperties
<1> QED
  BY <1>1, <1>2, <1>3

(* A slot not in use is not put again.                                     *)
LEMMA SkipKeeps ==
  ASSUME NEW m, NEW V, MapInv(m, V), ~Done(m), ~Head(m.todo).used,
         NEW n, n = [m EXCEPT !.todo = Tail(@)]
  PROVE  MapInv(n, V) /\ \A t, v : Holds(n, t, v) <=> Holds(m, t, v)
<1>1. /\ n = [cap |-> n.cap, size |-> n.size, data |-> n.data, todo |-> n.todo]
      /\ n.cap = m.cap /\ n.size = m.size /\ n.data = m.data /\ n.todo = Tail(m.todo)
  BY DEF MapInv, MapTyped
<1>2. m.todo \in Seq(Entries(Texts, V)) /\ m.todo # <<>>
  BY DEF MapInv, MapTyped, Done
<1>3. /\ n.todo \in Seq(Entries(Texts, V))
      /\ DOMAIN n.todo = 1..Len(m.todo)-1 /\ DOMAIN m.todo = 1..Len(m.todo)
      /\ \A i \in DOMAIN n.todo : i + 1 \in DOMAIN m.todo /\ n.todo[i] = m.todo[i + 1]
      /\ \A i \in DOMAIN m.todo : i = 1 \/ i - 1 \in DOMAIN n.todo
  BY <1>1, <1>2, TailWaits
<1>4. Len(m.todo) \in Nat
  BY <1>2, LenProperties
<1>5. Slots(n) = Slots(m) /\ \A s, t : InSlot(n, s, t) <=> InSlot(m, s, t)
  BY <1>1 DEF InSlot, Slots
<1>6. \A i \in DOMAIN n.todo : \A t : Waits(n, i, t) <=> Waits(m, i + 1, t)
  BY <1>3 DEF Waits
<1>7. \A i \in DOMAIN m.todo : \A t :
        Waits(m, i, t) => i - 1 \in DOMAIN n.todo /\ Waits(n, i - 1, t)
  <2> SUFFICES ASSUME NEW i \in DOMAIN m.todo, NEW t, Waits(m, i, t)
               PROVE  i - 1 \in DOMAIN n.todo /\ Waits(n, i - 1, t)
    OBVIOUS
  <2>1. i # 1
    BY <1>2 DEF Waits
  <2>2. i \in Nat /\ i - 1 \in DOMAIN n.todo /\ (i - 1) + 1 = i
    BY <1>3, <1>4, <2>1
  <2> QED
    BY <1>6, <2>2
<1>8. MapTyped(n, Texts, V)
  BY <1>1, <1>3, <1>5 DEF MapInv, MapTyped
<1>9. Distinct(n)
  <2>1. \A i, j \in DOMAIN n.todo : i + 1 = j + 1 => i = j
    BY <1>3, <1>4
  <2> QED
    BY <1>3, <1>5, <1>6, <2>1 DEF MapInv, Distinct
<1>10. Reachable(n)
  <2> SUFFICES ASSUME NEW s \in Slots(n), NEW t \in Texts, InSlot(n, s, t)
               PROVE  \E i \in 1..MaxProbe : Probe(n, t, i) = s
    BY DEF Reachable
  <2>1. PICK i \in 1..MaxProbe : Probe(m, t, i) = s
    BY <1>5 DEF MapInv, Reachable
  <2> QED
    BY <1>1, <2>1 DEF Probe
<1>11. ASSUME NEW t, NEW v
       PROVE  Holds(n, t, v) <=> Holds(m, t, v)
  <2>1. (\E s \in Slots(n) : InSlot(n, s, t) /\ n.data[s].value = v)
          <=> \E s \in Slots(m) : InSlot(m, s, t) /\ m.data[s].value = v
    BY <1>1, <1>5
  <2>2. ASSUME NEW i \in DOMAIN n.todo, Waits(n, i, t), n.todo[i].value = v
        PROVE  \E j \in DOMAIN m.todo : Waits(m, j, t) /\ m.todo[j].value = v
    BY <1>3, <1>6, <2>2
  <2>3. ASSUME NEW i \in DOMAIN m.todo, Waits(m, i, t), m.todo[i].value = v
        PROVE  \E j \in DOMAIN n.todo : Waits(n, j, t) /\ n.todo[j].value = v
    <3>1. i - 1 \in DOMAIN n.todo /\ Waits(n, i - 1, t)
      BY <1>7, <2>3
    <3>2. i \in Nat /\ n.todo[i - 1] = m.todo[(i - 1) + 1]
      BY <1>3, <1>4, <3>1
    <3> QED
      BY <2>3, <3>1, <3>2
  <2> QED
    BY <2>1, <2>2, <2>3 DEF Holds
<1> QED
  BY <1>8, <1>9, <1>10, <1>11 DEF MapInv

(* An element is stored in a slot that is free, as no slot has its key.    *)
LEMMA StoreKeeps ==
  ASSUME NEW m, NEW V, MapInv(m, V), ~Done(m), Head(m.todo).used,
         NEW slot, slot = HashmapIndex(m, Own, Own[Head(m.todo).key]), slot # NoSlot,
         NEW n, n = Store(m, slot)
  PROVE  MapInv(n, V) /\ \A t, v : Holds(n, t, v) <=> Holds(m, t, v)
<1> DEFINE e == m.todo[1]
<1>1. m.todo \in Seq(Entries(Texts, V)) /\ m.todo # <<>> /\ Head(m.todo) = e
  BY DEF MapInv, MapTyped, Done
<1>2. 1 \in DOMAIN m.todo /\ Len(m.todo) \in Nat
  BY <1>1, EmptySeq, LenProperties
<1>3. e \in Entries(Texts, V) /\ e.used /\ e.key \in Texts /\ Waits(m, 1, e.key)
  <2>1. e \in Entries(Texts, V)
    BY <1>1, <1>2, ElementOfSeq
  <2> QED
    BY <1>1, <1>2, <2>1, EntryFields DEF Waits
<1>4. m.cap \in Nat \ {0} /\ m.size \in Nat
  BY DEF MapInv, MapTyped
<1>5. /\ slot \in Slots(m) /\ ~m.data[slot].used
      /\ \E i \in 1..MaxProbe : slot = Probe(m, e.key, i)
  <2> DEFINE ok == {s \in Slots(m) : ~InUse(m, s) \/ HasText(m, Own, s, e.key)}
  <2>1. slot = FirstProbe(m, e.key, ok)
    BY <1>1, <1>3 DEF HashmapIndex, Own, Signatures
  <2>2. /\ FirstProbe(m, e.key, ok) \in ok \cap Slots(m)
        /\ \E i \in 1..MaxProbe : FirstProbe(m, e.key, ok) = Probe(m, e.key, i)
    <3> HIDE DEF ok
    <3> QED
      BY <1>3, <1>4, <2>1, FirstProbeEnds
  <2>3. ASSUME m.data[slot].used
        PROVE  FALSE
    <3>1. Own[m.data[slot].key] = e.key
      BY <2>1, <2>2, <2>3 DEF InUse, HasText
    <3>2. m.data[slot].key \in Texts /\ InSlot(m, slot, m.data[slot].key)
      BY <2>1, <2>2, <2>3, SlotsHold DEF MapInv
    <3>3. InSlot(m, slot, e.key)
      BY <3>1, <3>2 DEF Own, Signatures
    <3> QED
      BY <1>2, <1>3, <2>1, <2>2, <3>3 DEF MapInv, Distinct
  <2> QED
    BY <2>1, <2>2, <2>3
<1>6. /\ n = [cap |-> n.cap, size |-> n.size, data |-> n.data, todo |-> n.todo]
      /\ n.cap = m.cap /\ n.size = m.size + 1 /\ n.todo = Tail(m.todo)
      /\ n.data = [m.data EXCEPT ![slot] = e]
  BY <1>1 DEF Store, MapInv, MapTyped
<1>7. /\ n.todo \in Seq(Entries(Texts, V))
      /\ DOMAIN n.todo = 1..Len(m.todo)-1 /\ DOMAIN m.todo = 1..Len(m.todo)
      /\ \A i \in DOMAIN n.todo : i + 1 \in DOMAIN m.todo /\ n.todo[i] = m.todo[i + 1]
      /\ \A i \in DOMAIN m.todo : i = 1 \/ i - 1 \in DOMAIN n.todo
  BY <1>1, <1>6, TailWaits
<1>8. Slots(n) = Slots(m) /\ DOMAIN m.data = Slots(m)
  BY <1>6 DEF Slots, MapInv, MapTyped
<1>9. /\ n.data[slot] = e
      /\ \A s \in Slots(m) \ {slot} : n.data[s] = m.data[s]
  BY <1>5, <1>6, <1>8
<1>10. \A s, t : InSlot(n, s, t) <=> (s = slot /\ t = e.key) \/ (s # slot /\ InSlot(m, s, t))
  <2>1. ASSUME NEW t
        PROVE  InSlot(n, slot, t) <=> t = e.key
    BY <1>3, <1>5, <1>8, <1>9 DEF InSlot
  <2>2. ASSUME NEW t, NEW s, s # slot
        PROVE  InSlot(n, s, t) <=> InSlot(m, s, t)
    BY <1>8, <1>9, <2>2 DEF InSlot
  <2> QED
    BY <2>1, <2>2
<1>11. \A i \in DOMAIN n.todo : \A t : Waits(n, i, t) <=> Waits(m, i + 1, t)
  BY <1>7 DEF Waits
<1>12. \A i \in DOMAIN n.todo : i + 1 # 1
  BY <1>2, <1>7
<1>13. \A i \in DOMAIN m.todo : i # 1 =>
         i - 1 \in DOMAIN n.todo /\ (i - 1) + 1 = i /\ n.todo[i - 1] = m.todo[i]
  BY <1>2, <1>7
<1>14. MapTyped(n, Texts, V)
  <2>1. n.data \in [Slots(n) -> Entries(Texts, V)]
    BY <1>3, <1>5, <1>6, <1>8, ZenonT(40) DEF MapInv, MapTyped
  <2> QED
    BY <1>4, <1>6, <1>7, <2>1 DEF MapTyped
<1>15. Distinct(n)
  <2> SUFFICES ASSUME NEW t \in Texts
               PROVE  /\ \A r, s \in Slots(n) : InSlot(n, r, t) /\ InSlot(n, s, t) => r = s
                      /\ \A i, j \in DOMAIN n.todo : Waits(n, i, t) /\ Waits(n, j, t) => i = j
                      /\ \A s \in Slots(n), i \in DOMAIN n.todo :
                           ~(InSlot(n, s, t) /\ Waits(n, i, t))
    BY DEF Distinct
  <2>1. /\ \A r, s \in Slots(m) : InSlot(m, r, t) /\ InSlot(m, s, t) => r = s
        /\ \A i, j \in DOMAIN m.todo : Waits(m, i, t) /\ Waits(m, j, t) => i = j
        /\ \A s \in Slots(m), i \in DOMAIN m.todo : ~(InSlot(m, s, t) /\ Waits(m, i, t))
    BY DEF MapInv, Distinct
  <2>2. \A s : t = e.key => ~(s \in Slots(m) /\ InSlot(m, s, t))
    BY <1>2, <1>3, <2>1
  <2>3. \A r, s \in Slots(n) : InSlot(n, r, t) /\ InSlot(n, s, t) => r = s
    BY <1>8, <1>10, <2>1, <2>2
  <2>4. \A i, j \in DOMAIN n.todo : i + 1 = j + 1 => i = j
    BY <1>2, <1>7
  <2>5. \A i, j \in DOMAIN n.todo : Waits(n, i, t) /\ Waits(n, j, t) => i = j
    BY <1>7, <1>11, <2>1, <2>4
  <2>6. \A i \in DOMAIN n.todo : t = e.key => ~Waits(n, i, t)
    BY <1>2, <1>3, <1>7, <1>11, <1>12, <2>1
  <2>7. \A s \in Slots(n), i \in DOMAIN n.todo : ~(InSlot(n, s, t) /\ Waits(n, i, t))
    BY <1>7, <1>8, <1>10, <1>11, <2>1, <2>6
  <2> QED
    BY <2>3, <2>5, <2>7
<1>16. Reachable(n)
  <2>1. \A t, i : Probe(n, t, i) = Probe(m, t, i)
    BY <1>6 DEF Probe
  <2> QED
    BY <1>5, <1>8, <1>10, <2>1 DEF MapInv, Reachable
<1>17. ASSUME NEW t, NEW v, Holds(n, t, v)
       PROVE  Holds(m, t, v)
  <2>1. ASSUME NEW s \in Slots(n), InSlot(n, s, t), n.data[s].value = v
        PROVE  Holds(m, t, v)
    <3>1. CASE s = slot
      BY <1>2, <1>3, <1>9, <1>10, <2>1, <3>1 DEF Holds
    <3>2. CASE s # slot
      BY <1>8, <1>9, <1>10, <2>1, <3>2 DEF Holds
    <3> QED
      BY <3>1, <3>2
  <2>2. ASSUME NEW i \in DOMAIN n.todo, Waits(n, i, t), n.todo[i].value = v
        PROVE  Holds(m, t, v)
    BY <1>7, <1>11, <2>2 DEF Holds
  <2> QED
    BY <1>17, <2>1, <2>2 DEF Holds
<1>18. ASSUME NEW t, NEW v, Holds(m, t, v)
       PROVE  Holds(n, t, v)
  <2>1. ASSUME NEW s \in Slots(m), InSlot(m, s, t), m.data[s].value = v
        PROVE  Holds(n, t, v)
    <3>1. s # slot
      BY <1>5, <2>1 DEF InSlot
    <3> QED
      BY <1>8, <1>9, <1>10, <2>1, <3>1 DEF Holds
  <2>2. ASSUME NEW i \in DOMAIN m.todo, Waits(m, i, t), m.todo[i].value = v
        PROVE  Holds(n, t, v)
    <3>1. CASE i = 1
      <4>1. t = e.key /\ e.value = v
        BY <2>2, <3>1 DEF Waits
      <4>2. InSlot(n, slot, t) /\ n.data[slot].value = v
        BY <1>9, <1>10, <4>1
      <4> QED
        BY <1>5, <1>8, <4>2 DEF Holds
    <3>2. CASE i # 1
      <4>1. i - 1 \in DOMAIN n.todo /\ (i - 1) + 1 = i /\ n.todo[i - 1] = m.todo[i]
        BY <1>13, <3>2
      <4>2. Waits(n, i - 1, t) /\ n.todo[i - 1].value = v
        BY <1>11, <2>2, <4>1
      <4> QED
        BY <4>1, <4>2 DEF Holds
    <3> QED
      BY <3>1, <3>2
  <2> QED
    BY <1>18, <2>1, <2>2 DEF Holds
<1> QED
  BY <1>14, <1>15, <1>16, <1>17, <1>18 DEF MapInv

Joins(c, a, b) ==
  /\ DOMAIN c = 1..Len(a)+Len(b) /\ Len(c) = Len(a) + Len(b)
  /\ \A i \in 1..Len(a) : c[i] = a[i]
  /\ \A i \in 1..Len(b) : c[Len(a) + i] = b[i]

LEMMA Joined ==
  ASSUME NEW E, NEW a \in Seq(E), NEW b \in Seq(E), NEW c, c = a \o b
  PROVE  c \in Seq(E) /\ Joins(c, a, b)
<1>1. /\ c \in Seq(E) /\ Len(c) = Len(a) + Len(b)
      /\ \A i \in 1..Len(a)+Len(b) : c[i] = IF i <= Len(a) THEN a[i] ELSE b[i - Len(a)]
  BY ConcatProperties
<1>2. Len(a) \in Nat /\ Len(b) \in Nat /\ DOMAIN c = 1..Len(c)
  BY <1>1, LenProperties
<1>3. ASSUME NEW i \in 1..Len(b)
      PROVE  c[Len(a) + i] = b[i]
  <2>1. /\ Len(a) + i \in 1..Len(a)+Len(b) /\ ~(Len(a) + i <= Len(a))
        /\ (Len(a) + i) - Len(a) = i
    BY <1>2
  <2> QED
    BY <1>1, <2>1
<1> QED
  BY <1>1, <1>2, <1>3 DEF Joins

(* When a map grows, the slots come before what waited.                    *)
Grown(n, m) ==
  /\ \A s \in Slots(n) : n.data[s] = Unused
  /\ DOMAIN n.todo = 1..m.cap+Len(m.todo) /\ Len(n.todo) = m.cap + Len(m.todo)
  /\ \A i \in 1..m.cap : n.todo[i] = m.data[i - 1]
  /\ \A i \in 1..Len(m.todo) : n.todo[m.cap + i] = m.todo[i]

LEMMA ResizeShape ==
  ASSUME NEW m, NEW K, NEW V, MapTyped(m, K, V), NEW n, n = HashmapResize(m)
  PROVE  MapTyped(n, K, V) /\ Grown(n, m)
<1> DEFINE old == [i \in 1..m.cap |-> m.data[i-1]]
           E   == Entries(K, V)
<1>1. m.cap \in Nat \ {0} /\ m.todo \in Seq(E) /\ m.data \in [0..m.cap-1 -> E]
  BY DEF MapTyped, Slots
<1>2. /\ n = [cap |-> n.cap, size |-> n.size, data |-> n.data, todo |-> n.todo]
      /\ n.cap = 2 * m.cap /\ n.size = 0 /\ n.todo = old \o m.todo
      /\ n.data = [s \in 0..n.cap-1 |-> Unused]
  BY DEF HashmapResize, EmptyMap
<1>3. \A i \in 1..m.cap : i - 1 \in 0..m.cap-1
  BY <1>1
<1>4. old \in Seq(E) /\ Len(old) = m.cap
  <2>1. old \in [1..m.cap -> E] /\ m.cap \in Nat
    BY <1>1, <1>3
  <2> HIDE DEF old
  <2> QED
    BY <2>1, LenProperties, SeqDef
<1>5. /\ n.todo \in Seq(E)
      /\ DOMAIN n.todo = 1..m.cap+Len(m.todo) /\ Len(n.todo) = m.cap + Len(m.todo)
      /\ \A i \in 1..m.cap : n.todo[i] = old[i]
      /\ \A i \in 1..Len(m.todo) : n.todo[m.cap + i] = m.todo[i]
  <2>1. n.todo = old \o m.todo /\ m.todo \in Seq(E)
    BY <1>1, <1>2
  <2> HIDE DEF old, E
  <2>2. n.todo \in Seq(E) /\ Joins(n.todo, old, m.todo)
    BY <1>4, <2>1, Joined
  <2> QED
    BY <1>4, <2>2 DEF Joins
<1>6. MapTyped(n, K, V)
  <2>1. n.cap \in Nat \ {0} /\ n.size \in Nat
    BY <1>1, <1>2
  <2>2. n.data \in [Slots(n) -> E]
    BY <1>2, NewEntries DEF Slots
  <2> QED
    BY <1>2, <1>5, <2>1, <2>2 DEF MapTyped
<1>7. \A s \in Slots(n) : n.data[s] = Unused
  BY <1>2 DEF Slots
<1> QED
  BY <1>5, <1>6, <1>7 DEF Grown

(* Nothing is lost when a map grows.                                       *)
LEMMA ResizeKeeps ==
  ASSUME NEW m, NEW V, MapInv(m, V), NEW n, n = HashmapResize(m)
  PROVE  MapInv(n, V) /\ \A t, v : Holds(n, t, v) <=> Holds(m, t, v)
<1>1. m.cap \in Nat \ {0} /\ m.todo \in Seq(Entries(Texts, V))
  BY DEF MapInv, MapTyped
<1>5. Len(m.todo) \in Nat /\ DOMAIN m.todo = 1..Len(m.todo)
  BY <1>1, LenProperties
<1>6. /\ MapTyped(n, Texts, V)
      /\ \A s \in Slots(n) : n.data[s] = Unused
      /\ DOMAIN n.todo = 1..m.cap+Len(m.todo)
      /\ \A i \in 1..m.cap : n.todo[i] = m.data[i - 1]
      /\ \A i \in 1..Len(m.todo) : n.todo[m.cap + i] = m.todo[i]
  <2>1. MapTyped(n, Texts, V) /\ Grown(n, m)
    BY ResizeShape DEF MapInv
  <2> QED
    BY <2>1 DEF Grown
<1>7. Slots(m) = 0..m.cap-1 /\ \A s, t : ~InSlot(n, s, t)
  BY <1>6, NewEntries DEF Slots, InSlot
<1>8. \A s \in Slots(m) : s + 1 \in DOMAIN n.todo /\ n.todo[s + 1] = m.data[s]
  <2> SUFFICES ASSUME NEW s \in 0..m.cap-1
               PROVE  s + 1 \in DOMAIN n.todo /\ n.todo[s + 1] = m.data[s]
    BY <1>7
  <2>1. s + 1 \in 1..m.cap /\ s + 1 \in 1..m.cap+Len(m.todo) /\ (s + 1) - 1 = s
    BY <1>1, <1>5
  <2> QED
    BY <1>6, <2>1
<1>9. \A i \in DOMAIN m.todo :
        m.cap + i \in DOMAIN n.todo /\ n.todo[m.cap + i] = m.todo[i]
  BY <1>1, <1>5, <1>6
<1>10. \A i \in DOMAIN n.todo :
         \/ i - 1 \in Slots(m) /\ n.todo[i] = m.data[i - 1]
         \/ i - m.cap \in DOMAIN m.todo /\ n.todo[i] = m.todo[i - m.cap]
  <2> SUFFICES ASSUME NEW i \in 1..m.cap+Len(m.todo)
               PROVE  \/ i - 1 \in Slots(m) /\ n.todo[i] = m.data[i - 1]
                      \/ i - m.cap \in DOMAIN m.todo /\ n.todo[i] = m.todo[i - m.cap]
    BY <1>6
  <2>1. CASE i <= m.cap
    <3>1. i \in 1..m.cap /\ i - 1 \in Slots(m)
      BY <1>1, <1>5, <1>7, <2>1
    <3> QED
      BY <1>6, <3>1
  <2>2. CASE i > m.cap
    <3>1. i - m.cap \in 1..Len(m.todo) /\ m.cap + (i - m.cap) = i
      BY <1>1, <1>5, <2>2
    <3> QED
      BY <1>5, <1>6, <3>1
  <2> QED
    BY <1>1, <1>5, <2>1, <2>2
<1>11. \A i \in DOMAIN n.todo : \A t : Waits(n, i, t) =>
         \/ InSlot(m, i - 1, t) /\ i - 1 \in Slots(m)
         \/ Waits(m, i - m.cap, t) /\ i - m.cap \in DOMAIN m.todo
  BY <1>10 DEF Waits, InSlot
<1>13. Distinct(n)
  <2> SUFFICES ASSUME NEW t \in Texts, NEW i \in DOMAIN n.todo, NEW j \in DOMAIN n.todo,
                      Waits(n, i, t), Waits(n, j, t)
               PROVE  i = j
    BY <1>7 DEF Distinct
  <2>1. /\ \A r, s \in Slots(m) : InSlot(m, r, t) /\ InSlot(m, s, t) => r = s
        /\ \A a, b \in DOMAIN m.todo : Waits(m, a, t) /\ Waits(m, b, t) => a = b
        /\ \A s \in Slots(m), a \in DOMAIN m.todo : ~(InSlot(m, s, t) /\ Waits(m, a, t))
    BY DEF MapInv, Distinct
  <2>2. \/ i - 1 = j - 1
        \/ i - m.cap = j - m.cap
    BY <1>11, <2>1
  <2>3. i \in Nat /\ j \in Nat
    BY <1>1, <1>5, <1>6
  <2> QED
    BY <1>1, <2>2, <2>3
<1>14. Reachable(n)
  BY <1>7 DEF Reachable
<1>15. ASSUME NEW t, NEW v, Holds(n, t, v)
       PROVE  Holds(m, t, v)
  <2>1. PICK i \in DOMAIN n.todo : Waits(n, i, t) /\ n.todo[i].value = v
    BY <1>7, <1>15 DEF Holds
  <2>2. CASE i - 1 \in Slots(m) /\ n.todo[i] = m.data[i - 1]
    BY <2>1, <2>2 DEF Holds, InSlot, Waits
  <2>3. CASE i - m.cap \in DOMAIN m.todo /\ n.todo[i] = m.todo[i - m.cap]
    BY <2>1, <2>3 DEF Holds, Waits
  <2> QED
    BY <1>10, <2>2, <2>3
<1>16. ASSUME NEW t, NEW v, Holds(m, t, v)
       PROVE  Holds(n, t, v)
  <2>1. ASSUME NEW s \in Slots(m), InSlot(m, s, t), m.data[s].value = v
        PROVE  Holds(n, t, v)
    BY <1>8, <2>1 DEF Holds, InSlot, Waits
  <2>2. ASSUME NEW i \in DOMAIN m.todo, Waits(m, i, t), m.todo[i].value = v
        PROVE  Holds(n, t, v)
    BY <1>9, <2>2 DEF Holds, Waits
  <2> QED
    BY <1>16, <2>1, <2>2 DEF Holds
<1> QED
  BY <1>6, <1>13, <1>14, <1>15, <1>16 DEF MapInv

(* A turn of the loops changes where the elements are, never what they are.*)
LEMMA PutStepKeeps ==
  ASSUME NEW m, NEW V, MapInv(m, V), ~Done(m)
  PROVE  /\ MapInv(PutStep(m, Own), V)
         /\ \A t \in Texts : Answer(PutStep(m, Own), t) = Answer(m, t)
<1> DEFINE n    == PutStep(m, Own)
           slot == HashmapIndex(m, Own, Own[Head(m.todo).key])
<1>1. MapInv(n, V) /\ \A t, v : Holds(n, t, v) <=> Holds(m, t, v)
  <2>1. CASE ~Head(m.todo).used
    <3>1. n = [m EXCEPT !.todo = Tail(@)]
      BY <2>1 DEF PutStep
    <3> QED
      BY <2>1, <3>1, SkipKeeps
  <2>2. CASE Head(m.todo).used /\ slot = NoSlot
    <3>1. n = HashmapResize(m)
      BY <2>2 DEF PutStep
    <3> QED
      BY <3>1, ResizeKeeps
  <2>3. CASE Head(m.todo).used /\ slot # NoSlot
    <3>1. n = Store(m, slot)
      BY <2>3 DEF PutStep
    <3> QED
      BY <2>3, <3>1, StoreKeeps
  <2> QED
    BY <2>1, <2>2, <2>3
<1> HIDE DEF n
<1>2. \A t \in Texts : Answer(n, t) = Answer(m, t)
  BY <1>1, SameAnswers
<1> QED
  BY <1>1, <1>2 DEF n

(* A put of a key the map does not hold adds it, and nothing else.         *)
LEMMA PutAdds ==
  ASSUME NEW m, NEW V, MapInv(m, V), Done(m), NEW f \in Texts, NEW val \in V,
         Answer(m, f) = Missing, Missing \notin V
  PROVE  /\ MapInv(HashmapPut(m, f, val), V)
         /\ Answer(HashmapPut(m, f, val), f) = val
         /\ \A t \in Texts \ {f} : Answer(HashmapPut(m, f, val), t) = Answer(m, t)
<1> DEFINE n == HashmapPut(m, f, val)
           e == Element(f, val)
<1>1. /\ n = [cap |-> n.cap, size |-> n.size, data |-> n.data, todo |-> n.todo]
      /\ n.cap = m.cap /\ n.size = m.size /\ n.data = m.data /\ n.todo = <<e>>
  BY DEF HashmapPut, MapInv, MapTyped
<1>2. e \in Entries(Texts, V) /\ e.used /\ e.key = f /\ e.value = val
  BY NewEntries
<1>3. DOMAIN n.todo = {1} /\ n.todo[1] = e /\ n.todo \in Seq(Entries(Texts, V))
  <2> HIDE DEF e
  <2> QED
    BY <1>1, <1>2
<1>4. Slots(n) = Slots(m) /\ \A s, t : InSlot(n, s, t) <=> InSlot(m, s, t)
  BY <1>1 DEF Slots, InSlot
<1>5. \A i \in DOMAIN n.todo : \A t : Waits(n, i, t) <=> t = f
  BY <1>2, <1>3 DEF Waits
<1>6. DOMAIN m.todo = {}
  BY DEF Done
<1>7. \A s \in Slots(m) : ~InSlot(m, s, f)
  <2> SUFFICES ASSUME NEW s \in Slots(m), InSlot(m, s, f)
               PROVE  FALSE
    OBVIOUS
  <2>1. Holds(m, f, m.data[s].value) /\ m.data[s].value \in V
    BY SlotsHold DEF InSlot, MapInv
  <2>2. Answer(m, f) = m.data[s].value
    BY <2>1, AnswerHeld
  <2> QED
    BY <2>1, <2>2
<1>8. MapInv(n, V)
  <2>1. MapTyped(n, Texts, V)
    BY <1>1, <1>3, <1>4 DEF MapInv, MapTyped
  <2>2. Distinct(n)
    <3>1. \A t \in Texts, r, s \in Slots(n) : InSlot(n, r, t) /\ InSlot(n, s, t) => r = s
      BY <1>4 DEF MapInv, Distinct
    <3>2. \A i, j \in DOMAIN n.todo : i = j
      BY <1>3
    <3>3. \A s \in Slots(n), i \in DOMAIN n.todo : \A t : ~(InSlot(n, s, t) /\ Waits(n, i, t))
      BY <1>4, <1>5, <1>7
    <3> HIDE DEF n
    <3> QED
      BY <3>1, <3>2, <3>3 DEF Distinct
  <2>3. \A t, i : Probe(n, t, i) = Probe(m, t, i)
    BY <1>1 DEF Probe
  <2>4. Reachable(n)
    BY <1>4, <2>3 DEF MapInv, Reachable
  <2> QED
    BY <2>1, <2>2, <2>4 DEF MapInv
<1>9. Answer(n, f) = val
  <2>1. Holds(n, f, val)
    BY <1>2, <1>3, <1>5 DEF Holds
  <2> HIDE DEF n
  <2> QED
    BY <1>8, <2>1, AnswerHeld
<1>10. ASSUME NEW t \in Texts \ {f}
       PROVE  Answer(n, t) = Answer(m, t)
  <2>1. \A v : Holds(n, t, v) <=> Holds(m, t, v)
    BY <1>1, <1>4, <1>5, <1>6 DEF Holds
  <2> HIDE DEF n
  <2>2. CASE \E v : Holds(m, t, v)
    BY <1>8, <2>1, <2>2, AnswerHeld
  <2>3. CASE \A v : ~Holds(m, t, v)
    BY <1>8, <2>1, <2>3, AnswerMissing
  <2> QED
    BY <2>2, <2>3
<1> QED
  BY <1>8, <1>9, <1>10

-----------------------------------------------------------------------------
(* The machine's map: all its keys are the same pointer, so that every     *)
(* slot in use has whatever text is being put or looked for.               *)

LEMMA FirstIsHome ==
  ASSUME NEW m, NEW t, NEW ok, Probe(m, t, 1) \in ok
  PROVE  FirstProbe(m, t, ok) = Probe(m, t, 1)
<1> DEFINE hits == {i \in 1..MaxProbe : Probe(m, t, i) \in ok}
<1>1. 1 \in hits /\ \A i \in hits : i \in Nat /\ 1 <= i
  BY ProbeAssumption
<1>2. (CHOOSE i \in hits : \A j \in hits : i <= j) = 1
  <2> HIDE DEF hits
  <2>1. \A i \in hits : (\A j \in hits : i <= j) => i = 1
    BY <1>1
  <2> QED
    BY <1>1, <2>1
<1> QED
  BY <1>1, <1>2 DEF FirstProbe

(* The handle that is found for the text now at the pointer.               *)
Home(m, text) == Probe(m, text[0], 1)

LastPut(m, text, v) ==
  IF Done(m) THEN m.data[Home(m, text)] = Element(0, v)
  ELSE m.todo[Len(m.todo)] = Element(0, v)

LEMMA HomeIsSlot ==
  ASSUME NEW m, NEW text, MapTyped(m, {0}, Nat), text[0] \in Texts
  PROVE  Home(m, text) \in Slots(m)
  BY ProbeIsSlot, ProbeAssumption DEF Home, MapTyped

LEMMA HandleKeys ==
  ASSUME NEW m, MapTyped(m, {0}, Nat), NEW s \in Slots(m), m.data[s].used
  PROVE  m.data[s].key = 0
<1>1. m.data[s] \in Entries({0}, Nat)
  BY DEF MapTyped
<1> QED
  BY <1>1, EntryFields

LEMMA HandlePutStep ==
  ASSUME NEW m, NEW text, NEW v, MapTyped(m, {0}, Nat), ~Done(m),
         text[0] \in Texts, LastPut(m, text, v)
  PROVE  MapTyped(PutStep(m, text), {0}, Nat) /\ LastPut(PutStep(m, text), text, v)
<1> DEFINE E    == Entries({0}, Nat)
           e    == Head(m.todo)
           slot == HashmapIndex(m, text, text[e.key])
           n    == PutStep(m, text)
           l    == Len(m.todo)
<1>1. /\ m.todo \in Seq(E) /\ m.todo # <<>> /\ m.cap \in Nat \ {0} /\ m.size \in Nat
      /\ m = [cap |-> m.cap, size |-> m.size, data |-> m.data, todo |-> m.todo]
      /\ m.data \in [0..m.cap-1 -> E]
  BY DEF MapTyped, Done, Slots
<1>2. l \in Nat \ {0} /\ DOMAIN m.todo = 1..l /\ e = m.todo[1] /\ e \in E
  BY <1>1, EmptySeq, LenProperties, HeadTailProperties
<1>3. m.todo[l] = Element(0, v) /\ Element(0, v).used
  BY DEF LastPut, Element
<1>4. e.used => e.key = 0
  BY <1>2, EntryFields
<1>5. /\ Tail(m.todo) \in Seq(E) /\ Len(Tail(m.todo)) = l - 1
      /\ l > 1 => Tail(m.todo)[l - 1] = m.todo[l]
  <2>1. /\ Tail(m.todo) \in Seq(E) /\ Len(Tail(m.todo)) = l - 1
        /\ \A i \in 1..l-1 : Tail(m.todo)[i] = m.todo[i + 1]
    BY <1>1, HeadTailProperties
  <2>2. l > 1 => l - 1 \in 1..l-1 /\ (l - 1) + 1 = l
    BY <1>2
  <2> QED
    BY <2>1, <2>2
<1>6. Tail(m.todo) = <<>> <=> l = 1
  <2>1. Tail(m.todo) = <<>> <=> Len(Tail(m.todo)) = 0
    BY <1>5, EmptySeq
  <2> QED
    BY <1>2, <1>5, <2>1
<1>7. CASE ~e.used
  <2>1. l # 1
    BY <1>2, <1>3, <1>7
  <2>2. n = [m EXCEPT !.todo = Tail(@)]
    BY <1>7 DEF PutStep
  <2>3. /\ n = [cap |-> n.cap, size |-> n.size, data |-> n.data, todo |-> n.todo]
        /\ n.cap = m.cap /\ n.size = m.size /\ n.data = m.data /\ n.todo = Tail(m.todo)
    BY <1>1, <2>2
  <2>4. MapTyped(n, {0}, Nat)
    BY <1>1, <1>5, <2>3 DEF MapTyped, Slots
  <2>5. LastPut(n, text, v)
    BY <1>2, <1>3, <1>5, <1>6, <2>1, <2>3 DEF LastPut, Done
  <2> QED
    BY <2>4, <2>5
<1>8. CASE e.used /\ slot = NoSlot
  <2>1. n = HashmapResize(m)
    BY <1>8 DEF PutStep
  <2> HIDE DEF n, E
  <2>2. MapTyped(n, {0}, Nat) /\ Grown(n, m)
    BY <2>1, ResizeShape
  <2>3. Len(n.todo) # 0 /\ n.todo[Len(n.todo)] = Element(0, v)
    <3>1. l \in 1..l /\ m.cap + l # 0
      BY <1>1, <1>2
    <3> QED
      BY <1>3, <2>2, <3>1 DEF Grown
  <2>4. ~Done(n)
    <3>1. n.todo \in Seq(E)
      BY <2>2 DEF MapTyped, E
    <3> QED
      BY <2>3, <3>1, EmptySeq DEF Done
  <2> QED
    BY <2>2, <2>3, <2>4 DEF LastPut, n
<1>9. CASE e.used /\ slot # NoSlot
  <2> DEFINE ok == {s \in Slots(m) : ~InUse(m, s) \/ HasText(m, text, s, text[0])}
  <2>1. slot = FirstProbe(m, text[0], ok)
    BY <1>4, <1>9 DEF HashmapIndex
  <2>2. Home(m, text) \in ok
    BY HomeIsSlot, HandleKeys DEF InUse, HasText
  <2>3. slot = Home(m, text) /\ slot \in 0..m.cap-1
    <3> HIDE DEF ok, slot
    <3>1. slot = Home(m, text)
      BY <2>1, <2>2, FirstIsHome DEF Home
    <3> QED
      BY <3>1, HomeIsSlot DEF Slots
  <2>4. n = Store(m, slot)
    BY <1>9 DEF PutStep
  <2> HIDE DEF slot
  <2>5. /\ n = [cap |-> n.cap, size |-> n.size, data |-> n.data, todo |-> n.todo]
        /\ n.cap = m.cap /\ n.size = m.size + 1 /\ n.todo = Tail(m.todo)
        /\ n.data = [m.data EXCEPT ![slot] = e]
    BY <1>1, <2>4 DEF Store
  <2>6. MapTyped(n, {0}, Nat)
    <3>1. n.data \in [0..m.cap-1 -> E]
      BY <1>1, <1>2, <2>5
    <3>2. n.cap \in Nat \ {0} /\ n.size \in Nat
      BY <1>1, <2>5
    <3> QED
      BY <1>5, <2>5, <3>1, <3>2 DEF MapTyped, Slots
  <2>7. LastPut(n, text, v)
    <3>1. CASE l = 1
      <4>1. Done(n) /\ n.data[slot] = Element(0, v)
        BY <1>1, <1>2, <1>3, <1>6, <2>3, <2>5, <3>1 DEF Done
      <4>2. Home(n, text) = Home(m, text)
        BY <2>5 DEF Home, Probe
      <4> QED
        BY <2>3, <4>1, <4>2 DEF LastPut
    <3>2. CASE l # 1
      <4>1. ~Done(n)
        <5>1. n.todo = Tail(m.todo)
          BY <2>5
        <5> HIDE DEF n
        <5> QED
          BY <1>6, <3>2, <5>1 DEF Done
      <4>2. Len(n.todo) = l - 1 /\ l > 1
        <5>1. n.todo = Tail(m.todo)
          BY <2>5
        <5>2. Len(Tail(m.todo)) = l - 1
          BY <1>5
        <5>3. l > 1
          <6>1. l \in Nat \ {0}
            BY <1>2
          <6> HIDE DEF l
          <6> QED
            BY <3>2, <6>1
        <5>4. Len(n.todo) = Len(Tail(m.todo))
          BY <5>1, Zenon
        <5> QED
          BY <5>2, <5>3, <5>4, Zenon
      <4>3. n.todo[Len(n.todo)] = Element(0, v)
        BY <1>3, <1>5, <2>5, <4>2
      <4> QED
        BY <4>1, <4>3 DEF LastPut
    <3> QED
      BY <3>1, <3>2
  <2> QED
    BY <2>6, <2>7
<1> QED
  BY <1>7, <1>8, <1>9

LEMMA HandleFound ==
  ASSUME NEW m, NEW text, NEW v, MapTyped(m, {0}, Nat), Done(m),
         text[0] \in Texts, LastPut(m, text, v)
  PROVE  HashmapGet(m, text, text[0]) = v
<1> DEFINE ok == {s \in Slots(m) : HasText(m, text, s, text[0])}
<1>1. /\ m.data[Home(m, text)] = Element(0, v) /\ Home(m, text) \in Slots(m)
      /\ Element(0, v).used /\ Element(0, v).key = 0 /\ Element(0, v).value = v
  BY HomeIsSlot DEF LastPut, Element
<1>2. Home(m, text) \in ok
  BY <1>1 DEF HasText, InUse
<1>3. FirstProbe(m, text[0], ok) = Home(m, text)
  BY <1>2, FirstIsHome DEF Home
<1>4. Home(m, text) # NoSlot
  BY <1>1 DEF NoSlot, Slots
<1> QED
  BY <1>1, <1>3, <1>4 DEF HashmapGet

LEMMA HandlePut ==
  ASSUME NEW m, NEW text, MapTyped(m, {0}, Nat), NEW v \in Nat
  PROVE  /\ MapTyped(HashmapPut(m, 0, v), {0}, Nat)
         /\ ~Done(HashmapPut(m, 0, v))
         /\ LastPut(HashmapPut(m, 0, v), text, v)
<1> DEFINE n == HashmapPut(m, 0, v)
           e == Element(0, v)
<1>1. /\ n = [cap |-> n.cap, size |-> n.size, data |-> n.data, todo |-> n.todo]
      /\ n.cap = m.cap /\ n.size = m.size /\ n.data = m.data /\ n.todo = <<e>>
  BY DEF HashmapPut, MapTyped
<1>2. e \in Entries({0}, Nat)
  BY NewEntries
<1>3. n.todo \in Seq(Entries({0}, Nat)) /\ Len(n.todo) = 1 /\ n.todo[1] = e /\ n.todo # <<>>
  <2>1. n.todo = <<e>>
    BY <1>1
  <2> HIDE DEF e, n
  <2> QED
    BY <1>2, <2>1
<1>4. MapTyped(n, {0}, Nat)
  BY <1>1, <1>3 DEF MapTyped, Slots
<1> QED
  BY <1>3, <1>4 DEF Done, LastPut

-----------------------------------------------------------------------------
(* The invariant of the table.  Seen are the functions the compiler has    *)
(* defined, Registered those the machine has, Pending the one between.     *)
Seen       == {t \in Texts : Answer(func_map, t) # Missing}
Registered == {handles[i].func : i \in DOMAIN handles}
Pending    == Seen \ Registered

MapsInv == MapInv(func_map, Texts) /\ MapInv(const_map, Nat)

(* The number of a signature is how many the machine had before it, and    *)
(* const_size is ahead of the machine only between the two registrations.  *)
NumbersInv ==
  /\ index \in Seq({0})
  /\ handles \in Seq([func : Texts, signature_index : Nat])
  /\ Len(handles) = Len(index)
  /\ \A i \in DOMAIN handles :
       handles[i].signature_index = i - 1 /\ Answer(const_map, handles[i].func) = i - 1
  /\ \A t \in Texts : Answer(const_map, t) # Missing =>
       \/ t \in Registered
       \/ t \in Pending /\ Answer(const_map, t) = Len(index) /\ const_size = Len(index) + 1
  /\ \/ const_size = Len(index)
     \/ const_size = Len(index) + 1 /\ \E t \in Pending : Answer(const_map, t) # Missing
  /\ \A s, t \in Pending : s = t

(* 0 stands for a signature with no number: a recursive call, only.        *)
CallsInv ==
  /\ calls \subseteq [func : Texts, arg : Nat]
  /\ \A c \in calls : c.arg < Len(index) \/ (c.arg = 0 /\ Pending # {})

(* All that the machine's map holds has the key 0, and the put of the last *)
(* handle is the last that is made.                                        *)
HandlesInv ==
  /\ pool = [size |-> 0, text |-> pool.text]
  /\ DOMAIN pool.text \subseteq {0}
  /\ MapTyped(handle_map, {0}, Nat)
  /\ handles = <<>> => Done(handle_map)
  /\ handles # <<>> =>
       pool.text[0] \in Texts /\ LastPut(handle_map, pool.text, Len(handles))

TableInv == MapsInv /\ NumbersInv /\ CallsInv /\ HandlesInv

LEMMA NewMap ==
  ASSUME NEW K, NEW V
  PROVE  /\ MapTyped(HashmapNew, K, V) /\ Done(HashmapNew)
         /\ \A s \in Slots(HashmapNew) : \A t : ~InSlot(HashmapNew, s, t)
         /\ DOMAIN HashmapNew.todo = {}
<1> DEFINE m == HashmapNew
<1>1. /\ m = [cap |-> m.cap, size |-> m.size, data |-> m.data, todo |-> m.todo]
      /\ m.cap = InitialCap /\ m.size = 0 /\ m.todo = <<>>
      /\ m.data = [s \in 0..InitialCap-1 |-> Unused]
  BY DEF HashmapNew, EmptyMap
<1>2. InitialCap \in Nat \ {0}
  BY ProbeAssumption
<1>3. m.data \in [Slots(m) -> Entries(K, V)] /\ \A s \in Slots(m) : m.data[s] = Unused
  BY <1>1, NewEntries DEF Slots
<1>4. MapTyped(m, K, V)
  BY <1>1, <1>2, <1>3, EmptySeq DEF MapTyped
<1>5. \A s \in Slots(m) : \A t : ~InSlot(m, s, t)
  BY <1>3, NewEntries DEF InSlot
<1>6. Done(m) /\ DOMAIN m.todo = {}
  BY <1>1 DEF Done
<1> QED
  BY <1>4, <1>5, <1>6

LEMMA NewMapInv ==
  ASSUME NEW V
  PROVE  /\ MapInv(HashmapNew, V)
         /\ \A t \in Texts : Answer(HashmapNew, t) = Missing
<1> DEFINE m == HashmapNew
<1>1. /\ MapTyped(m, Texts, V) /\ DOMAIN m.todo = {}
      /\ \A s \in Slots(m) : \A t : ~InSlot(m, s, t)
  BY NewMap
<1>2. MapInv(m, V)
  BY <1>1 DEF MapInv, Distinct, Reachable
<1>3. \A t, v : ~Holds(m, t, v)
  BY <1>1 DEF Holds
<1> HIDE DEF m
<1> QED
  BY <1>2, <1>3, AnswerMissing DEF m

LEMMA InitTableInv ==
  ASSUME TableInit
  PROVE  TableInv
<1> USE DEF TableInit
<1>1. MapsInv /\ \A t \in Texts : Answer(func_map, t) = Missing /\ Answer(const_map, t) = Missing
  BY NewMapInv DEF MapsInv
<1>2. Seen = {} /\ Pending = {}
  BY <1>1 DEF Seen, Pending
<1>3. NumbersInv
  BY <1>1, <1>2, EmptySeq DEF NumbersInv
<1>4. CallsInv
  BY DEF CallsInv
<1>5. HandlesInv
  BY NewMap DEF HandlesInv
<1> QED
  BY <1>1, <1>3, <1>4, <1>5 DEF TableInv

(* Between puts, what the compiler looks up are the answers.               *)
LEMMA IdleAnswers ==
  ASSUME TableInv
  PROVE  /\ Done(func_map) =>
              Compiling = Pending /\ \A t \in Texts : Lookup(t) = Answer(func_map, t)
         /\ Done(const_map) => \A t \in Texts : Constant(t) = Answer(const_map, t)
<1>1. ASSUME NEW m, Done(m), NEW t
      PROVE  Answer(m, t) = HashmapGet(m, Own, t)
  BY <1>1 DEF Answer, Done
<1> QED
  BY <1>1 DEF Compiling, Pending, Seen, Registered, Lookup, Constant, Signatures

LEMMA HandlesTyped ==
  ASSUME TableInv
  PROVE  \A i \in DOMAIN handles : handles[i].func \in Texts
<1>1. handles \in Seq([func : Texts, signature_index : Nat])
  BY DEF TableInv, NumbersInv
<1>2. \A i \in DOMAIN handles : handles[i] \in [func : Texts, signature_index : Nat]
  BY <1>1, LenProperties, ElementOfSeq
<1> QED
  BY <1>2

LEMMA DefineFuncInv ==
  ASSUME TableInv, NEW f \in Texts, DefineFunc(f)
  PROVE  TableInv'
<1>1. /\ Done(func_map) /\ Pending = {} /\ Answer(func_map, f) = Missing
      /\ func_map' = HashmapPut(func_map, f, f)
      /\ UNCHANGED <<const_map, const_size, calls, pool, index, handles, handle_map>>
  BY IdleAnswers DEF DefineFunc, Idle, machinevars
<1>2. /\ MapInv(func_map', Texts)
      /\ Answer(func_map', f) = f
      /\ \A t \in Texts \ {f} : Answer(func_map', t) = Answer(func_map, t)
  BY <1>1, PutAdds, TextsAssumption DEF TableInv, MapsInv
<1>3. MapsInv'
  BY <1>1, <1>2 DEF TableInv, MapsInv
<1>4. Registered' = Registered /\ Pending' \subseteq {f}
  BY <1>1, <1>2 DEF Pending, Seen, Registered
<1>5. NumbersInv'
  BY <1>1, <1>4 DEF TableInv, NumbersInv
<1>6. CallsInv'
  BY <1>1 DEF TableInv, CallsInv
<1>7. HandlesInv'
  BY <1>1 DEF TableInv, HandlesInv
<1> QED
  BY <1>3, <1>5, <1>6, <1>7 DEF TableInv

LEMMA CompileCallInv ==
  ASSUME TableInv, NEW f \in Texts, CompileCall(f)
  PROVE  TableInv'
<1> DEFINE g == Lookup(f)
           c == [func |-> f, arg |-> IndexOf(g)]
<1>1. /\ Idle /\ \A t \in Pending : Answer(const_map, t) = Missing
      /\ Answer(func_map, f) # Missing /\ g = Answer(func_map, f)
      /\ calls' = calls \cup {c}
      /\ UNCHANGED <<func_map, const_map, const_size, pool, index, handles, handle_map>>
  BY IdleAnswers DEF CompileCall, InCode, Idle, machinevars, Pending, Seen
<1>2. g \in Texts
  <2>1. \E v : Holds(func_map, f, v)
    BY <1>1, AnswerMissing DEF TableInv, MapsInv
  <2> QED
    BY <1>1, <2>1, AnswerHeld, HoldsTyped DEF TableInv, MapsInv, MapInv
<1>3. Len(index) \in Nat /\ Len(handles) = Len(index) /\ DOMAIN handles = 1..Len(handles)
  BY LenProperties DEF TableInv, NumbersInv
<1>4. f \in Registered \/ f \in Pending
  BY <1>1 DEF Pending, Seen
<1>5. \A t \in Registered : Answer(const_map, t) \in 0..Len(index)-1
  <2> SUFFICES ASSUME NEW i \in DOMAIN handles
               PROVE  Answer(const_map, handles[i].func) \in 0..Len(index)-1
    BY DEF Registered
  <2>1. Answer(const_map, handles[i].func) = i - 1
    BY DEF TableInv, NumbersInv
  <2> QED
    BY <1>3, <2>1
<1>6. IndexOf(g) \in Nat /\ (IndexOf(g) < Len(index) \/ (IndexOf(g) = 0 /\ Pending # {}))
  <2>1. Constant(g) = Answer(const_map, g)
    BY <1>1, <1>2, IdleAnswers DEF Idle
  <2>2. CASE Constant(g) = Missing
    <3>1. IndexOf(g) = 0
      BY <2>2 DEF IndexOf
    <3> QED
      BY <1>3, <1>4, <1>5, <3>1
  <2>3. CASE Constant(g) # Missing
    <3>1. g \in Registered
      BY <1>1, <1>2, <2>1, <2>3 DEF TableInv, NumbersInv
    <3> QED
      BY <1>3, <1>5, <2>1, <2>3, <3>1 DEF IndexOf
  <2> QED
    BY <2>2, <2>3
<1>7. Pending' = Pending /\ Registered' = Registered
  BY <1>1 DEF Pending, Seen, Registered
<1>8. CallsInv'
  <2> HIDE DEF g
  <2>1. c \in [func : Texts, arg : Nat] /\ c.arg = IndexOf(g)
    BY <1>6
  <2> QED
    BY <1>1, <1>6, <1>7, <2>1 DEF TableInv, CallsInv
<1>9. MapsInv' /\ HandlesInv'
  BY <1>1 DEF TableInv, MapsInv, HandlesInv
<1>10. NumbersInv'
  BY <1>1, <1>7 DEF TableInv, NumbersInv
<1> QED
  BY <1>8, <1>9, <1>10 DEF TableInv

LEMMA RegisterConstInv ==
  ASSUME TableInv, NEW f \in Texts, RegisterConst(f)
  PROVE  TableInv'
<1>1. /\ Done(const_map) /\ f \in Pending /\ Answer(const_map, f) = Missing
      /\ const_map' = HashmapPut(const_map, f, const_size) /\ const_size' = const_size + 1
      /\ UNCHANGED <<func_map, calls, pool, index, handles, handle_map>>
  BY IdleAnswers DEF RegisterConst, InCode, Idle, machinevars
<1>2. Len(index) \in Nat /\ const_size = Len(index)
  <2>1. \A t \in Pending : Answer(const_map, t) = Missing
    BY <1>1 DEF TableInv, NumbersInv
  <2> QED
    BY <2>1, LenProperties DEF TableInv, NumbersInv
<1>3. /\ MapInv(const_map', Nat)
      /\ Answer(const_map', f) = const_size
      /\ \A t \in Texts \ {f} : Answer(const_map', t) = Answer(const_map, t)
  BY <1>1, <1>2, PutAdds DEF TableInv, MapsInv, Missing
<1>4. MapsInv'
  BY <1>1, <1>3 DEF TableInv, MapsInv
<1>5. Pending' = Pending /\ Registered' = Registered
  BY <1>1 DEF Pending, Seen, Registered
<1>6. NumbersInv'
  <2>1. \A i \in DOMAIN handles : handles[i].func \in Texts \ {f}
    <3>1. \A i \in DOMAIN handles : handles[i].func \in Registered
      BY DEF Registered
    <3> QED
      BY <1>1, <3>1, HandlesTyped DEF Pending
  <2>2. \A i \in DOMAIN handles' :
          handles'[i].signature_index = i - 1 /\ Answer(const_map', handles'[i].func) = i - 1
    BY <1>1, <1>3, <2>1 DEF TableInv, NumbersInv
  <2>3. \A t \in Texts : Answer(const_map', t) # Missing =>
          \/ t \in Registered
          \/ t \in Pending /\ Answer(const_map', t) = Len(index) /\ const_size' = Len(index) + 1
    <3>1. \A t \in Texts \ {f} : Answer(const_map, t) # Missing => t \in Registered
      BY <1>1 DEF TableInv, NumbersInv
    <3> QED
      BY <1>1, <1>2, <1>3, <3>1
  <2>4. const_size' = Len(index) + 1 /\ Answer(const_map', f) # Missing
    BY <1>1, <1>2, <1>3 DEF Missing
  <2> QED
    BY <1>1, <1>5, <2>2, <2>3, <2>4 DEF TableInv, NumbersInv
<1>7. CallsInv'
  BY <1>1, <1>5 DEF TableInv, CallsInv
<1>8. HandlesInv'
  BY <1>1 DEF TableInv, HandlesInv
<1> QED
  BY <1>4, <1>6, <1>7, <1>8 DEF TableInv

LEMMA RegisterFuncInv ==
  ASSUME TableInv, NEW f \in Texts, RegisterFunc(f)
  PROVE  TableInv'
<1> DEFINE h == [func |-> f, signature_index |-> Len(index)]
<1>1. /\ f \in Pending /\ Answer(const_map, f) # Missing
      /\ pool' = Written(f) /\ index' = Append(index, pool.size)
      /\ handles' = Append(handles, h)
      /\ handle_map' = HashmapPut(handle_map, index'[Len(index')], Len(handles'))
      /\ UNCHANGED <<func_map, const_map, const_size, calls>>
  BY IdleAnswers DEF RegisterFunc, Idle, compilervars
<1>2. /\ pool = [size |-> 0, text |-> pool.text] /\ DOMAIN pool.text \subseteq {0}
      /\ MapTyped(handle_map, {0}, Nat)
  BY DEF TableInv, HandlesInv
<1>3. /\ index \in Seq({0}) /\ handles \in Seq([func : Texts, signature_index : Nat])
      /\ Len(handles) = Len(index) /\ Len(index) \in Nat
  BY LenProperties DEF TableInv, NumbersInv
<1>4. /\ index' \in Seq({0}) /\ Len(index') = Len(index) + 1
      /\ index'[Len(index')] = 0
  <2>1. index' = Append(index, 0)
    BY <1>1, <1>2
  <2> QED
    BY <1>3, <2>1, AppendProperties
<1>5. /\ handles' \in Seq([func : Texts, signature_index : Nat])
      /\ Len(handles') = Len(handles) + 1
      /\ \A i \in 1..Len(handles) : handles'[i] = handles[i]
      /\ handles'[Len(handles) + 1] = h
  <2>1. h \in [func : Texts, signature_index : Nat]
    BY <1>3
  <2> HIDE DEF h
  <2> QED
    BY <1>1, <1>3, <2>1, AppendProperties
<1>6. DOMAIN handles = 1..Len(handles) /\ DOMAIN handles' = 1..Len(handles)+1
  BY <1>3, <1>5, LenProperties
<1>7. MapsInv'
  BY <1>1 DEF TableInv, MapsInv
<1>8. Registered' = Registered \cup {f} /\ Pending' = {} /\ Pending = {f}
  <2>1. Registered' = Registered \cup {f}
    <3>1. \A i \in 1..Len(handles)+1 : i \in 1..Len(handles) \/ i = Len(handles) + 1
      BY <1>3
    <3>2. \A i \in 1..Len(handles) : i \in 1..Len(handles)+1
      BY <1>3
    <3>3. Len(handles) + 1 \in 1..Len(handles)+1
      BY <1>3
    <3> QED
      BY <1>5, <1>6, <3>1, <3>2, <3>3 DEF Registered
  <2>2. Pending = {f}
    BY <1>1 DEF TableInv, NumbersInv
  <2>3. Seen' = Seen
    BY <1>1 DEF Seen
  <2> QED
    BY <2>1, <2>2, <2>3 DEF Pending
<1>9. Answer(const_map, f) = Len(index) /\ const_size = Len(index) + 1
  BY <1>1 DEF TableInv, NumbersInv, Pending
<1>10. NumbersInv'
  <2>1. \A i \in 1..Len(handles)+1 :
          handles'[i].signature_index = i - 1 /\ Answer(const_map, handles'[i].func) = i - 1
    <3> SUFFICES ASSUME NEW i \in 1..Len(handles)+1
                 PROVE  /\ handles'[i].signature_index = i - 1
                        /\ Answer(const_map, handles'[i].func) = i - 1
      OBVIOUS
    <3>1. CASE i \in 1..Len(handles)
      BY <1>5, <1>6, <3>1 DEF TableInv, NumbersInv
    <3>2. CASE i = Len(handles) + 1
      BY <1>3, <1>5, <1>9, <3>2
    <3> QED
      BY <1>3, <3>1, <3>2
  <2>2. \A t \in Texts : Answer(const_map, t) # Missing => t \in Registered'
    BY <1>8 DEF TableInv, NumbersInv
  <2> HIDE DEF h
  <2> QED
    BY <1>1, <1>3, <1>4, <1>5, <1>6, <1>8, <1>9, <2>1, <2>2 DEF NumbersInv
<1>11. CallsInv'
  <2>1. \A c \in calls : c.arg \in Nat /\ (c.arg < Len(index) \/ c.arg = 0)
    BY DEF TableInv, CallsInv
  <2> QED
    BY <1>1, <1>3, <1>4, <2>1 DEF TableInv, CallsInv
<1>12. HandlesInv'
  <2>1. /\ pool' = [size |-> 0, text |-> pool'.text]
        /\ DOMAIN pool'.text = {0} /\ pool'.text[0] = f
    <3>1. /\ pool' = [size |-> 0, text |-> pool'.text]
          /\ pool'.text =
               [o \in DOMAIN pool.text \cup {0} |-> IF o = 0 THEN f ELSE pool.text[o]]
      <4> DEFINE text == [o \in DOMAIN pool.text \cup {pool.size} |->
                            IF o = pool.size THEN f ELSE pool.text[o]]
      <4>1. pool' = [pool EXCEPT !.text = text] /\ pool.size = 0
        BY <1>1, <1>2 DEF Written
      <4>2. text = [o \in DOMAIN pool.text \cup {0} |-> IF o = 0 THEN f ELSE pool.text[o]]
        BY <4>1
      <4> HIDE DEF text
      <4>3. pool' = [size |-> 0, text |-> pool'.text] /\ pool'.text = text
        BY <1>2, <4>1
      <4> QED
        BY <4>2, <4>3
    <3>2. DOMAIN pool.text \cup {0} = {0}
      BY <1>2
    <3> QED
      BY <3>1, <3>2
  <2>2. handle_map' = HashmapPut(handle_map, 0, Len(handles'))
    BY <1>1, <1>4
  <2>3. Len(handles') \in Nat \ {0}
    BY <1>3, <1>5
  <2>4. /\ MapTyped(handle_map', {0}, Nat)
        /\ LastPut(handle_map', pool'.text, Len(handles'))
    BY <1>2, <2>2, <2>3, HandlePut
  <2>5. handles' # <<>>
    BY <1>5, <2>3, EmptySeq
  <2> QED
    BY <2>1, <2>4, <2>5 DEF HandlesInv
<1> QED
  BY <1>7, <1>10, <1>11, <1>12 DEF TableInv

LEMMA PutInv ==
  ASSUME TableInv, Put
  PROVE  TableInv'
<1>1. CASE ~Done(func_map) /\ func_map' = PutStep(func_map, Own)
           /\ UNCHANGED <<const_map, const_size, calls, machinevars>>
  <2> USE <1>1 DEF machinevars
  <2>1. MapInv(func_map', Texts) /\ \A t \in Texts : Answer(func_map', t) = Answer(func_map, t)
    BY PutStepKeeps DEF TableInv, MapsInv
  <2>2. Seen' = Seen /\ Registered' = Registered /\ Pending' = Pending
    BY <2>1 DEF Seen, Registered, Pending
  <2>3. MapsInv' /\ HandlesInv' /\ CallsInv'
    BY <2>1, <2>2 DEF TableInv, MapsInv, HandlesInv, CallsInv
  <2>4. NumbersInv'
    BY <2>2 DEF TableInv, NumbersInv
  <2> QED
    BY <2>3, <2>4 DEF TableInv
<1>2. CASE ~Done(const_map) /\ const_map' = PutStep(const_map, Own)
           /\ UNCHANGED <<func_map, const_size, calls, machinevars>>
  <2> USE <1>2 DEF machinevars
  <2>1. MapInv(const_map', Nat) /\ \A t \in Texts : Answer(const_map', t) = Answer(const_map, t)
    BY PutStepKeeps DEF TableInv, MapsInv
  <2>2. Seen' = Seen /\ Registered' = Registered /\ Pending' = Pending
    BY DEF Seen, Registered, Pending
  <2>3. MapsInv' /\ HandlesInv' /\ CallsInv'
    BY <2>1, <2>2 DEF TableInv, MapsInv, HandlesInv, CallsInv
  <2>4. \A i \in DOMAIN handles : handles[i].func \in Texts
    BY HandlesTyped
  <2>5. Pending \subseteq Texts
    BY DEF Pending, Seen
  <2>6. NumbersInv'
    BY <2>1, <2>2, <2>4, <2>5 DEF TableInv, NumbersInv
  <2> QED
    BY <2>3, <2>6 DEF TableInv
<1>3. CASE ~Done(handle_map) /\ handle_map' = PutStep(handle_map, pool.text)
           /\ UNCHANGED <<compilervars, pool, index, handles>>
  <2> USE <1>3 DEF compilervars
  <2>1. handles # <<>> /\ pool.text[0] \in Texts
        /\ MapTyped(handle_map, {0}, Nat) /\ LastPut(handle_map, pool.text, Len(handles))
    BY DEF TableInv, HandlesInv
  <2>2. /\ MapTyped(handle_map', {0}, Nat)
        /\ LastPut(handle_map', pool.text, Len(handles))
    BY <2>1, HandlePutStep
  <2>3. Seen' = Seen /\ Registered' = Registered /\ Pending' = Pending
    BY DEF Seen, Registered, Pending
  <2>4. MapsInv' /\ CallsInv'
    BY <2>3 DEF TableInv, MapsInv, CallsInv
  <2>5. NumbersInv'
    BY <2>3 DEF TableInv, NumbersInv
  <2>6. HandlesInv'
    BY <2>1, <2>2 DEF TableInv, HandlesInv
  <2> QED
    BY <2>4, <2>5, <2>6 DEF TableInv
<1> QED
  BY <1>1, <1>2, <1>3 DEF Put

LEMMA StutterTableInv ==
  ASSUME TableInv, UNCHANGED tablevars
  PROVE  TableInv'
<1> USE DEF tablevars
<1>1. Seen' = Seen /\ Registered' = Registered /\ Pending' = Pending
  BY DEF Seen, Registered, Pending
<1>2. MapsInv' /\ HandlesInv' /\ CallsInv'
  BY <1>1 DEF TableInv, MapsInv, HandlesInv, CallsInv
<1>3. NumbersInv'
  BY <1>1 DEF TableInv, NumbersInv
<1> QED
  BY <1>2, <1>3 DEF TableInv

LEMMA NextTableInv ==
  ASSUME TableInv, [TableNext]_tablevars
  PROVE  TableInv'
  BY DefineFuncInv, CompileCallInv, RegisterConstInv, RegisterFuncInv, PutInv, StutterTableInv
     DEF TableNext, Signatures

LEMMA TableSafe == TableSpec => []TableInv
<1>1. TableInit => TableInv
  BY InitTableInv
<1>2. TableInv /\ [TableNext]_tablevars => TableInv'
  BY NextTableInv
<1> QED
  BY <1>1, <1>2, PTL DEF TableSpec

-----------------------------------------------------------------------------
(* The typing holds: in particular one function at most is between its     *)
(* definition in the compiler and its registration in the machine, a put   *)
(* in progress included.                                                   *)
LEMMA InvTyped ==
  ASSUME TableInv
  PROVE  TableTypeOK
<1>1. Compiling \subseteq Pending
  <2> SUFFICES ASSUME NEW f \in Texts, Lookup(f) # Missing
               PROVE  Answer(func_map, f) # Missing
    BY DEF Compiling, Pending, Seen, Registered, Signatures
  <2>1. PICK s \in Slots(func_map) : InSlot(func_map, s, f)
    BY GetMisses DEF TableInv, MapsInv, Lookup
  <2>2. func_map.data[s].used /\ func_map.data[s].key = f
    BY <2>1 DEF InSlot
  <2>3. func_map.data[s].value \in Texts /\ Holds(func_map, f, func_map.data[s].value)
    BY <2>2, SlotsHold DEF TableInv, MapsInv, MapInv
  <2>4. Answer(func_map, f) \in Texts
    BY <2>3, AnswerHeld DEF TableInv, MapsInv
  <2> QED
    BY <2>4, TextsAssumption
<1>2. Cardinality(Compiling) <= 1
  <2>1. \A s, t \in Compiling : s = t
    BY <1>1 DEF TableInv, NumbersInv
  <2>2. CASE Compiling = {}
    BY <2>2, FS_EmptySet
  <2>3. CASE Compiling # {}
    <3>1. PICK f : Compiling = {f}
      BY <2>1, <2>3
    <3>2. Cardinality({f}) = 1
      BY FS_Singleton
    <3> QED
      BY <3>1, <3>2
  <2> QED
    BY <2>2, <2>3
<1>3. const_size \in {Len(index), Len(index) + 1} /\ DOMAIN pool.text \subseteq {pool.size}
  <2>1. pool.size = 0
    BY DEF TableInv, HandlesInv
  <2> QED
    BY <2>1 DEF TableInv, NumbersInv, HandlesInv
<1>4. handles \in Seq([func : Signatures, signature_index : 0..Len(index)-1])
  <2> DEFINE Handles == [func : Signatures, signature_index : 0..Len(index)-1]
  <2>1. /\ handles \in Seq([func : Texts, signature_index : Nat])
        /\ Len(handles) = Len(index) /\ Len(handles) \in Nat
        /\ DOMAIN handles = 1..Len(handles)
    BY LenProperties DEF TableInv, NumbersInv
  <2>2. ASSUME NEW i \in 1..Len(handles)
        PROVE  handles[i] \in Handles
    <3>1. handles[i] \in [func : Texts, signature_index : Nat]
      BY <2>1, ElementOfSeq
    <3>2. handles[i].signature_index = i - 1
      BY <2>1 DEF TableInv, NumbersInv
    <3>3. i - 1 \in 0..Len(index)-1
      BY <2>1
    <3> QED
      BY <3>1, <3>2, <3>3 DEF Signatures
  <2>3. handles = [i \in 1..Len(handles) |-> handles[i]]
    BY <2>1, LenProperties
  <2> HIDE DEF Handles
  <2>4. handles \in [1..Len(handles) -> Handles]
    BY <2>2, <2>3
  <2>5. handles \in Seq(Handles)
    BY <2>1, <2>4, SeqDef
  <2> QED
    BY <2>5 DEF Handles
<1>5. \A m \in {func_map, const_map, handle_map} : DOMAIN m.data = Slots(m)
  BY DEF TableInv, MapsInv, MapInv, HandlesInv, MapTyped
<1>6. calls \subseteq [func : Signatures, arg : Nat]
  BY DEF TableInv, CallsInv, Signatures
<1> QED
  BY <1>2, <1>3, <1>4, <1>5, <1>6 DEF TableTypeOK

THEOREM TableTyped == TableSpec => []TableTypeOK
<1>1. TableInv => TableTypeOK
  BY InvTyped
<1> QED
  BY <1>1, TableSafe, PTL

(* Compiler and machine give a function the same number, though each       *)
(* counts for itself, and no CALL that can run is beyond the index.        *)
LEMMA InvCounters ==
  ASSUME TableInv
  PROVE  CountersAgree
<1>1. \A i \in DOMAIN handles :
        /\ handles[i].func \in Texts
        /\ Answer(const_map, handles[i].func) = handles[i].signature_index
  BY HandlesTyped DEF TableInv, NumbersInv
<1>2. Idle => \A i \in DOMAIN handles : Constant(handles[i].func) = handles[i].signature_index
  BY <1>1, IdleAnswers DEF Idle
<1>3. Idle /\ Compiling = {} => \A c \in calls : c.arg < Len(index)
  BY IdleAnswers DEF Idle, TableInv, CallsInv
<1> QED
  BY <1>2, <1>3 DEF CountersAgree

THEOREM CountersStayTogether == TableSpec => []CountersAgree
<1>1. TableInv => CountersAgree
  BY InvCounters
<1> QED
  BY <1>1, TableSafe, PTL

(* Whatever the hashes, and however the map has grown, a CALL that can run *)
(* finds a handle, and it is that of the function registered last.         *)
LEMMA InvLast ==
  ASSUME TableInv
  PROVE  CallReachesLast
<1> SUFFICES ASSUME Idle, Compiling = {}, NEW c \in calls
             PROVE  Found(c.arg) = Len(handles)
  BY DEF CallReachesLast
<1>1. /\ c.arg \in Nat /\ c.arg < Len(index) /\ Len(index) \in Nat
      /\ DOMAIN index = 1..Len(index) /\ Len(handles) = Len(index)
  <2>1. c.arg < Len(index)
    BY InvCounters DEF CountersAgree
  <2> QED
    BY <2>1, LenProperties DEF TableInv, NumbersInv, CallsInv
<1>2. index[c.arg + 1] = 0
  <2>1. c.arg + 1 \in 1..Len(index)
    BY <1>1
  <2>2. index[c.arg + 1] \in {0}
    BY <2>1, ElementOfSeq DEF TableInv, NumbersInv
  <2> QED
    BY <2>2
<1>3. handles # <<>>
  <2>1. Len(handles) # 0
    BY <1>1
  <2> QED
    BY <2>1, EmptySeq
<1>4. /\ MapTyped(handle_map, {0}, Nat) /\ Done(handle_map) /\ pool.text[0] \in Texts
      /\ LastPut(handle_map, pool.text, Len(handles))
  BY <1>3 DEF TableInv, HandlesInv, Idle
<1> QED
  BY <1>2, <1>4, HandleFound DEF Found

THEOREM LastIsReached == TableSpec => []CallReachesLast
<1>1. TableInv => CallReachesLast
  BY InvLast
<1> QED
  BY <1>1, TableSafe, PTL

-----------------------------------------------------------------------------
(* The maps of the compiler are registries.                                *)
LEMMA AddedAnswers ==
  ASSUME NEW m, NEW V, MapInv(m, V), Done(m), NEW f \in Texts, NEW val \in V,
         Answer(m, f) = Missing, Missing \notin V
  PROVE  /\ Answers(m)[f] = Missing
         /\ Answers(HashmapPut(m, f, val))[f] \in V
         /\ Answers(HashmapPut(m, f, val)) =
              [Answers(m) EXCEPT ![f] = Answers(HashmapPut(m, f, val))[f]]
<1> DEFINE n == HashmapPut(m, f, val)
<1>1. Answer(n, f) = val /\ \A t \in Texts \ {f} : Answer(n, t) = Answer(m, t)
  BY PutAdds
<1> HIDE DEF n
<1>2. Answers(m) = [t \in Texts |-> Answer(m, t)] /\ Answers(n) = [t \in Texts |-> Answer(n, t)]
  BY DEF Answers, Signatures
<1>3. Answers(n) = [Answers(m) EXCEPT ![f] = val]
  BY <1>1, <1>2
<1>4. Answers(m)[f] = Missing /\ Answers(n)[f] = val
  BY <1>1, <1>2
<1> QED
  BY <1>3, <1>4 DEF n

LEMMA SteppedAnswers ==
  ASSUME NEW m, NEW V, MapInv(m, V), ~Done(m)
  PROVE  Answers(PutStep(m, Own)) = Answers(m)
  BY PutStepKeeps DEF Answers, Signatures

LEMMA NewAnswers == Answers(HashmapNew) = [t \in Texts |-> Missing]
  BY NewMapInv DEF Answers, Signatures

(* Every function that has been defined is found by its name, and no other,*)
(* however often the map has grown and in the middle of a resize.          *)
THEOREM FunctionsFound == TableSpec => FuncsByName
<1>1. TableInit => FuncRegistry!Init
  BY NewAnswers DEF TableInit, FuncRegistry!Init, Signatures
<1>2. TableInv /\ [TableNext]_tablevars => [FuncRegistry!Next]_(Answers(func_map))
  <2> SUFFICES ASSUME TableInv, [TableNext]_tablevars
               PROVE  [FuncRegistry!Next]_(Answers(func_map))
    OBVIOUS
  <2>1. ASSUME NEW f \in Texts, DefineFunc(f)
        PROVE  FuncRegistry!Next
    <3>1. Done(func_map) /\ Answer(func_map, f) = Missing /\ func_map' = HashmapPut(func_map, f, f)
      BY <2>1, IdleAnswers DEF DefineFunc, Idle
    <3>2. /\ Answers(func_map)[f] = Missing /\ Answers(func_map')[f] \in Texts
          /\ Answers(func_map') = [Answers(func_map) EXCEPT ![f] = Answers(func_map')[f]]
      BY <3>1, AddedAnswers, TextsAssumption DEF TableInv, MapsInv
    <3>3. FuncRegistry!Register(f)
      BY <3>2 DEF FuncRegistry!Register, Signatures
    <3> QED
      BY <3>3 DEF FuncRegistry!Next, Signatures
  <2>2. ASSUME Put
        PROVE  Answers(func_map)' = Answers(func_map)
    <3>1. CASE ~Done(func_map) /\ func_map' = PutStep(func_map, Own)
      BY <3>1, SteppedAnswers DEF TableInv, MapsInv
    <3>2. CASE func_map' = func_map
      BY <3>2
    <3> QED
      BY <2>2, <3>1, <3>2 DEF Put, compilervars
  <2>3. ASSUME NEW f \in Texts, CompileCall(f) \/ RegisterConst(f) \/ RegisterFunc(f)
        PROVE  Answers(func_map)' = Answers(func_map)
    BY <2>3 DEF CompileCall, RegisterConst, RegisterFunc, compilervars
  <2>4. ASSUME UNCHANGED tablevars
        PROVE  Answers(func_map)' = Answers(func_map)
    BY <2>4 DEF tablevars
  <2> QED
    BY <2>1, <2>2, <2>3, <2>4 DEF TableNext, Signatures
<1> QED
  BY <1>1, <1>2, TableSafe, PTL DEF TableSpec, FuncsByName, FuncRegistry!Spec

(* Every signature keeps the number it was given.                          *)
THEOREM NumbersKept == TableSpec => ConstsByValue
<1>1. TableInit => ConstRegistry!Init
  BY NewAnswers DEF TableInit, ConstRegistry!Init, Signatures
<1>2. TableInv /\ [TableNext]_tablevars => [ConstRegistry!Next]_(Answers(const_map))
  <2> SUFFICES ASSUME TableInv, [TableNext]_tablevars
               PROVE  [ConstRegistry!Next]_(Answers(const_map))
    OBVIOUS
  <2>1. ASSUME NEW f \in Texts, RegisterConst(f)
        PROVE  ConstRegistry!Next
    <3>1. /\ Done(const_map) /\ Answer(const_map, f) = Missing
          /\ const_map' = HashmapPut(const_map, f, const_size)
      BY <2>1, IdleAnswers DEF RegisterConst, InCode, Idle
    <3>2. const_size \in Nat /\ Missing \notin Nat
      BY LenProperties DEF TableInv, NumbersInv, Missing
    <3>3. /\ Answers(const_map)[f] = Missing /\ Answers(const_map')[f] \in Nat
          /\ Answers(const_map') = [Answers(const_map) EXCEPT ![f] = Answers(const_map')[f]]
      BY <3>1, <3>2, AddedAnswers DEF TableInv, MapsInv
    <3>4. ConstRegistry!Register(f)
      BY <3>3 DEF ConstRegistry!Register
    <3> QED
      BY <3>4 DEF ConstRegistry!Next, Signatures
  <2>2. ASSUME Put
        PROVE  Answers(const_map)' = Answers(const_map)
    <3>1. CASE ~Done(const_map) /\ const_map' = PutStep(const_map, Own)
      BY <3>1, SteppedAnswers DEF TableInv, MapsInv
    <3>2. CASE const_map' = const_map
      BY <3>2
    <3> QED
      BY <2>2, <3>1, <3>2 DEF Put, compilervars
  <2>3. ASSUME NEW f \in Texts, DefineFunc(f) \/ CompileCall(f) \/ RegisterFunc(f)
        PROVE  Answers(const_map)' = Answers(const_map)
    BY <2>3 DEF DefineFunc, CompileCall, RegisterFunc, compilervars
  <2>4. ASSUME UNCHANGED tablevars
        PROVE  Answers(const_map)' = Answers(const_map)
    BY <2>4 DEF tablevars
  <2> QED
    BY <2>1, <2>2, <2>3, <2>4 DEF TableNext, Signatures
<1> QED
  BY <1>1, <1>2, TableSafe, PTL DEF TableSpec, ConstsByValue, ConstRegistry!Spec
=============================================================================
