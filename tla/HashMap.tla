------------------------------ MODULE HashMap -------------------------------
(***************************************************************************)
(* The hash map of util/hashmap.c, as operators on one map: probing, and   *)
(* puts that make the map grow.  A key is a pointer: texts[key] is what it *)
(* points to at the moment, and two keys are equal when their texts are.   *)
(* Nothing in the program removes a key.                                   *)
(*                                                                         *)
(* A put that finds no slot doubles the map and puts all its elements      *)
(* again, and each of those puts may do the same.  The recursion is        *)
(* unfolded: todo holds the elements that hashmap_put was called for and   *)
(* has not stored, the innermost call first.  A put is over when todo is   *)
(* empty.                                                                  *)
(***************************************************************************)
EXTENDS Integers, Sequences

CONSTANTS
  Texts,          \* the texts keys point to
  Hash,           \* string_hash of each
  InitialCap,     \* INITIAL_MAP_CAP: 128
  MaxProbe        \* MAX_PROBE_COUNT: 8

ASSUME HashAssumption  == Hash \in [Texts -> Nat]
ASSUME ProbeAssumption == InitialCap \in Nat \ {0} /\ MaxProbe \in Nat \ {0}

Missing == -1     \* stands for _MAP_MISS
NoSlot  == -1     \* stands for _MAP_FULL

ASSUME TextsAssumption == Missing \notin Texts

Unused            == [used |-> FALSE]
Element(key, val) == [used |-> TRUE, key |-> key, value |-> val]

EmptyMap(cap) == [cap |-> cap, size |-> 0, data |-> [s \in 0..cap-1 |-> Unused], todo |-> <<>>]

HashmapNew == EmptyMap(InitialCap)

Done(m)  == m.todo = <<>>
Slots(m) == 0..m.cap-1

InUse(m, s)            == m.data[s].used
HasText(m, texts, s, t) == InUse(m, s) /\ texts[m.data[s].key] = t

Probe(m, t, i) == (Hash[t] + i - 1) % m.cap

(* The first slot, of those probed for the text t, that is in ok.          *)
FirstProbe(m, t, ok) ==
  LET hits == {i \in 1..MaxProbe : Probe(m, t, i) \in ok}
  IN  IF hits = {} THEN NoSlot
      ELSE Probe(m, t, CHOOSE i \in hits : \A j \in hits : i <= j)

(* MAX_LOAD_FACTOR is 0.7.                                                 *)
Overloaded(m) == 7 * m.cap < 10 * m.size

(* Seeded fault: a slot of another key ends the search.                    *)
HashmapIndexNoProbe(m, texts, t) ==
  IF Overloaded(m) THEN NoSlot ELSE Probe(m, t, 1)

HashmapIndex(m, texts, t) ==
  IF Overloaded(m) THEN NoSlot
  ELSE FirstProbe(m, t, {s \in Slots(m) : ~InUse(m, s) \/ HasText(m, texts, s, t)})

(* Seeded faults: an element that is there already is kept; the elements   *)
(* that were still to be put are lost; the capacity stays.                 *)
StoreIfNew(m, slot) ==
  [m EXCEPT !.data[slot] = IF @.used THEN @ ELSE Head(m.todo), !.size = @ + 1, !.todo = Tail(@)]

HashmapResizeDrops(m) ==
  [EmptyMap(2 * m.cap) EXCEPT !.todo = [i \in 1..m.cap |-> m.data[i-1]] \o <<m.todo[Len(m.todo)]>>]

HashmapResizeKeepsCap(m) ==
  [EmptyMap(m.cap) EXCEPT !.todo = [i \in 1..m.cap |-> m.data[i-1]] \o m.todo]

(* The end of hashmap_put; the size grows when an element is replaced too. *)
Store(m, slot) == [m EXCEPT !.data[slot] = Head(m.todo), !.size = @ + 1, !.todo = Tail(@)]

(* hashmap_resize: the old slots, in order, come before what is waiting.   *)
HashmapResize(m) ==
  [EmptyMap(2 * m.cap) EXCEPT !.todo = [i \in 1..m.cap |-> m.data[i-1]] \o m.todo]

(* The call of hashmap_put.                                                *)
HashmapPut(m, key, val) == [m EXCEPT !.todo = <<Element(key, val)>>]

(* One turn of a loop of hashmap_put or hashmap_resize: a slot not in use  *)
(* is skipped, an element is stored, or the map grows.                     *)
PutStep(m, texts) ==
  LET e    == Head(m.todo)
      slot == HashmapIndex(m, texts, texts[e.key])
  IN  IF ~e.used THEN [m EXCEPT !.todo = Tail(@)]
      ELSE IF slot = NoSlot THEN HashmapResize(m) ELSE Store(m, slot)

(* hashmap_get: the value, or Missing.                                     *)
HashmapGet(m, texts, t) ==
  LET slot == FirstProbe(m, t, {s \in Slots(m) : HasText(m, texts, s, t)})
  IN  IF slot = NoSlot THEN Missing ELSE m.data[slot].value
=============================================================================
