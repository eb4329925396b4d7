------------------------------ MODULE FuncTable -----------------------------
(***************************************************************************)
(* How a CALL finds its function.  The compiler keeps two hash maps: from  *)
(* names to functions, and from signatures to the numbers of constants,    *)
(* one of which goes into the instruction.  The machine has an index from  *)
(* such numbers to offsets in a pool of texts, and a hash map from texts   *)
(* to handles, whose keys are pointers into that same pool.                *)
(*                                                                         *)
(* vm_register_constant never moves the end of the pool, so all the keys   *)
(* of that map are one pointer, and what it points to changes with every   *)
(* registration.  Module Vm has only the outcome of this, operator Resolve.*)
(* A function is one signature here, as names are defined once.            *)
(***************************************************************************)
EXTENDS HashMap, FiniteSets

VARIABLES
  func_map,   \* global_func_map: names to functions the compiler has seen the head of
  const_map,  \* const_pool_map: signatures to numbers
  const_size, \* const_pool_map_size
  pool,       \* global_const_pool: its size and the text at each offset written
  index,      \* global_const_pool.index: the offset of each constant
  handles,    \* global_funcs.funcs
  handle_map, \* global_funcs.func_map: pointers to texts, to numbers of handles
  calls       \* CALL instructions compiled: the function meant, and the operand

compilervars == <<func_map, const_map, const_size, calls>>
machinevars  == <<pool, index, handles, handle_map>>
tablevars    == <<func_map, const_map, const_size, pool, index, handles, handle_map, calls>>

(* The texts of a session are the signatures of its functions.             *)
Signatures == Texts

(* The keys of the compiler's maps are copies of the text, made for them.  *)
Own == [t \in Signatures |-> t]

Lookup(f)   == HashmapGet(func_map, Own, f)
Constant(f) == HashmapGet(const_map, Own, f)

(* No put is going on.                                                     *)
Idle == Done(func_map) /\ Done(const_map) /\ Done(handle_map)

(* The functions that are defined and not registered: at most one.         *)
Compiling == {f \in Signatures : Lookup(f) # Missing} \ {handles[i].func : i \in DOMAIN handles}

(* No function is between the registrations in compiler and machine.       *)
InCode == Idle /\ \A f \in Compiling : Constant(f) = Missing

-----------------------------------------------------------------------------
TableInit ==
  /\ func_map = HashmapNew /\ const_map = HashmapNew /\ const_size = 0
  /\ pool = [size |-> 0, text |-> <<>>]
  /\ index = <<>> /\ handles = <<>>
  /\ handle_map = HashmapNew
  /\ calls = {}

(* compiler_define_func: before the body is compiled.  Functions are not   *)
(* nested, and one that is defined already is a panic.                     *)
DefineFunc(f) ==
  /\ Idle
  /\ Compiling = {}
  /\ Lookup(f) = Missing
  /\ func_map' = HashmapPut(func_map, f, f)
  /\ UNCHANGED <<const_map, const_size, calls, machinevars>>

(* const_pool_index_by_value: the operand of a call, and 0 where the       *)
(* signature is no constant yet, as in the body of the function itself.    *)
IndexOf(f) == IF Constant(f) = Missing THEN 0 ELSE Constant(f)

(* compile_function_call, at the root or in the body of a function.        *)
CompileCall(f) ==
  /\ InCode
  /\ Lookup(f) # Missing
  /\ calls' = calls \cup {[func |-> f, arg |-> IndexOf(Lookup(f))]}
  /\ UNCHANGED <<func_map, const_map, const_size, machinevars>>

(* Seeded faults: the counter stays; it is read after it is incremented.   *)
RegisterConstNoInc(f) ==
  /\ InCode
  /\ f \in Compiling
  /\ const_map' = HashmapPut(const_map, f, const_size)
  /\ UNCHANGED <<func_map, const_size, calls, machinevars>>

RegisterConstLate(f) ==
  /\ InCode
  /\ f \in Compiling
  /\ const_map'  = HashmapPut(const_map, f, const_size + 1)
  /\ const_size' = const_size + 1
  /\ UNCHANGED <<func_map, calls, machinevars>>

(* const_pool_register_value at the end of compile_func: the signature has *)
(* no number yet, as the name is new.                                      *)
RegisterConst(f) ==
  /\ InCode
  /\ f \in Compiling
  /\ const_map'  = HashmapPut(const_map, f, const_size)
  /\ const_size' = const_size + 1
  /\ UNCHANGED <<func_map, calls, machinevars>>

(* vm_register_constant: the text is written at the end of the pool.       *)
Written(f) ==
  [pool EXCEPT !.text =
    [o \in DOMAIN pool.text \cup {pool.size} |-> IF o = pool.size THEN f ELSE pool.text[o]]]

(* The rest of compile_func: the signature becomes a constant of the       *)
(* machine, and vm_register_function stores a handle under the text the    *)
(* index gives for it.                                                     *)
RegisterFunc(f) ==
  /\ Idle
  /\ f \in Compiling
  /\ Constant(f) # Missing
  /\ pool'    = Written(f)
  /\ index'   = Append(index, pool.size)
  /\ handles' = Append(handles, [func |-> f, signature_index |-> Len(index)])
  /\ handle_map' = HashmapPut(handle_map, index'[Len(index')], Len(handles'))
  /\ UNCHANGED compilervars

(* The put that is going on takes a step.                                  *)
Put ==
  \/ /\ ~Done(func_map)
     /\ func_map' = PutStep(func_map, Own)
     /\ UNCHANGED <<const_map, const_size, calls, machinevars>>
  \/ /\ ~Done(const_map)
     /\ const_map' = PutStep(const_map, Own)
     /\ UNCHANGED <<func_map, const_size, calls, machinevars>>
  \/ /\ ~Done(handle_map)
     /\ handle_map' = PutStep(handle_map, pool.text)
     /\ UNCHANGED <<compilervars, pool, index, handles>>

TableNext ==
  \/ \E f \in Signatures : DefineFunc(f) \/ CompileCall(f) \/ RegisterConst(f) \/ RegisterFunc(f)
  \/ Put

TableSpec == TableInit /\ [][TableNext]_tablevars

(* A put is a loop that waits for nothing.                                 *)
FairTable == TableSpec /\ WF_tablevars(Put)

-----------------------------------------------------------------------------
(* vm_execute_opcode_call: the handle found for an operand.                *)
Found(arg) == HashmapGet(handle_map, pool.text, pool.text[index[arg + 1]])

TableTypeOK ==
  /\ Cardinality(Compiling) <= 1
  /\ const_size \in {Len(index), Len(index) + 1}
  /\ DOMAIN pool.text \subseteq {pool.size}
  /\ handles \in Seq([func : Signatures, signature_index : 0..Len(index)-1])
  /\ \A m \in {func_map, const_map, handle_map} : DOMAIN m.data = Slots(m)
  /\ calls \subseteq [func : Signatures, arg : Nat]

(* What hashmap_get answers for a key of the compiler's maps, once the put *)
(* that is going on is over.                                               *)
Answer(m, t) ==
  LET waiting == {i \in DOMAIN m.todo : m.todo[i].used /\ m.todo[i].key = t}
  IN  IF waiting = {} THEN HashmapGet(m, Own, t)
      ELSE m.todo[CHOOSE i \in waiting : \A j \in waiting : j <= i].value

Answers(m) == [t \in Signatures |-> Answer(m, t)]

FuncRegistry  == INSTANCE Registry WITH
  Keys <- Signatures, Values <- Signatures, entries <- Answers(func_map)
ConstRegistry == INSTANCE Registry WITH
  Keys <- Signatures, Values <- Nat, entries <- Answers(const_map)

(* However the maps grow, resizes within resizes included, the compiler    *)
(* finds every function it has defined and no other, and every signature   *)
(* under the number it was given: no element is lost, doubled, changed or  *)
(* put where probing does not reach it.                                    *)
FuncsByName   == FuncRegistry!Spec
ConstsByValue == ConstRegistry!Spec

(* The loops of hashmap_put and hashmap_resize end: doubling the map often *)
(* enough makes a slot free, and the resizes called on the way end too.    *)
PutsEnd == []<>Idle

(* The compiler and the machine count constants separately, in             *)
(* const_pool_register_value and vm_register_constant: a function has the  *)
(* same number in both, and code that can run has no other numbers.        *)
CountersAgree ==
  /\ Idle => \A i \in DOMAIN handles : Constant(handles[i].func) = handles[i].signature_index
  /\ Idle /\ Compiling = {} => \A c \in calls : c.arg < Len(index)

(* A CALL that can run reaches the function registered last, whatever its  *)
(* operand: all constants share an offset, and hashmap_put replaces, or    *)
(* rehashes, all that it meets.  It never panics for want of a handle.     *)
CallReachesLast ==
  Idle /\ Compiling = {} => \A c \in calls : Found(c.arg) = Len(handles)

(* A CALL runs the function whose signature is the constant it names, as   *)
(* the comment on OPCODE_CALL in opcodes.h has it.                         *)
CallReachesNamed ==
  Idle /\ Compiling = {} => \A c \in calls : handles[Found(c.arg)].func = c.func
=============================================================================
