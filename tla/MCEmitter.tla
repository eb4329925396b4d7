----------------------------- MODULE MCEmitter ------------------------------
(* Instances of Emitter: pages of three bytes, chunks up to the size of a  *)
(* page, or longer.                                                        *)
EXTENDS Emitter, SequencesExt

Bits       == {0, 1}
ShortChunks == BoundedSeq(Bits, PageSize) \ {<<>>}
LongChunks  == { [i \in 1..n |-> 1] : n \in 1..PageSize+1 }
=============================================================================
