------------------------------- MODULE Emitter ------------------------------
(***************************************************************************)
(* A buffered emitter: the code of a block or of a function is collected   *)
(* in pages that are linked behind their last byte, read back with         *)
(* compiler_emitter_sink and freed.  An instruction is emitted as one      *)
(* chunk, and so is the whole code of an if or while statement.            *)
(*                                                                         *)
(* The loops of sink and destroy are unfolded: one page is one step.       *)
(***************************************************************************)
EXTENDS Integers, Sequences

CONSTANTS
  Byte,           \* values of a byte
  Chunks,         \* what may be emitted at once
  PageSize,       \* page_size: 256, 512 or 4096
  MaxSize         \* bound: bytes emitted

ASSUME PageAssumption  == PageSize \in Nat \ {0}
ASSUME ChunkAssumption == Chunks \subseteq Seq(Byte) \ {<<>>}
ASSUME ZeroAssumption  == 0 \in Byte

VARIABLES
  data,       \* the chunk of the last call, <<>> before
  pages,      \* the pages allocated, in that order: bytes, and the link to the next
  size,       \* bytes emitted
  capacity,   \* bytes of all pages
  phase,      \* "emit", "sink", "free" or "gone"; "overrun" after a write behind a page
  page,       \* current_page of sink and destroy, 0 for a null pointer
  bytes_left, \* of sink
  out,        \* the bytes sink has copied
  result,     \* what the caller got from sink
  freed       \* the pages destroy has freed

emitvars == <<data, pages, size, capacity>>
readvars == <<page, bytes_left, out, result, freed>>
vars     == <<data, pages, size, capacity, phase, page, bytes_left, out, result, freed>>

NULL      == 0
last_page == Len(pages)

NewPage == [data |-> [j \in 0..PageSize-1 |-> 0], link |-> NULL]

(* Seeded fault: the page is not linked to the one before.                 *)
AllocatedUnlinked == Append(pages, NewPage)

(* emitter_allocate_new_page: filled with 0 and linked to the last page.   *)
Allocated ==
  [p \in 1..last_page+1 |->
     IF p = last_page + 1 THEN NewPage
     ELSE IF p = last_page THEN [pages[p] EXCEPT !.link = last_page + 1] ELSE pages[p]]

(* memcpy of bytes to a page, as far as they lie in it.                    *)
Copied(pg, offset, bytes) ==
  [pg EXCEPT !.data = [j \in 0..PageSize-1 |->
     IF j - offset + 1 \in DOMAIN bytes THEN bytes[j - offset + 1] ELSE pg.data[j]]]

Fits(offset, bytes) == offset + Len(bytes) <= PageSize

Init ==
  /\ data = <<>> /\ pages = <<>> /\ size = 0 /\ capacity = 0
  /\ phase = "emit"
  /\ page = NULL /\ bytes_left = 0 /\ out = <<>> /\ result = <<>> /\ freed = {}

(* What is written over the end of a page goes over its link, and over     *)
(* what lies behind it: nothing can be said of the program then.           *)
Emitting(chunk, fits) ==
  /\ data' = chunk
  /\ size' = size + Len(chunk)
  /\ phase' = IF fits THEN "emit" ELSE "overrun"
  /\ UNCHANGED readvars

(* Seeded fault: one byte too many is taken to fit.                        *)
EmitInPageOneMore(chunk) ==
  LET offset == size % PageSize IN
  /\ phase = "emit"
  /\ size + Len(chunk) <= capacity + 1 /\ size # capacity
  /\ pages' = [pages EXCEPT ![last_page] = Copied(@, offset, chunk)]
  /\ UNCHANGED capacity
  /\ Emitting(chunk, Fits(offset, chunk))

(* emitter_emit_buffered when there is space on the last page.             *)
EmitInPage(chunk) ==
  LET offset == size % PageSize IN
  /\ phase = "emit"
  /\ size + Len(chunk) <= capacity
  /\ pages' = [pages EXCEPT ![last_page] = Copied(@, offset, chunk)]
  /\ UNCHANGED capacity
  /\ Emitting(chunk, Fits(offset, chunk))

(* When the last page is full, or there is none yet.                       *)
EmitOnNewPage(chunk) ==
  LET offset == size % PageSize IN
  /\ phase = "emit"
  /\ size + Len(chunk) > capacity
  /\ size = capacity
  /\ size + Len(chunk) <= MaxSize
  /\ pages' = [Allocated EXCEPT ![last_page + 1] = Copied(@, offset, chunk)]
  /\ capacity' = capacity + PageSize
  /\ Emitting(chunk, Fits(offset, chunk))

(* Seeded fault: the second part starts where the first part did.          *)
SecondPartWhole(chunk, free) == chunk

(* The part of a chunk that goes to the new page.                          *)
SecondPart(chunk, free) == SubSeq(chunk, free + 1, Len(chunk))

(* When a part of the chunk goes to the end of the last page.              *)
EmitSplit(chunk) ==
  LET free == capacity - size
      rest == SecondPart(chunk, free)
  IN
  /\ phase = "emit"
  /\ size + Len(chunk) > capacity
  /\ size # capacity
  /\ size + Len(chunk) <= MaxSize
  /\ pages' = [Allocated EXCEPT
                 ![last_page]     = Copied(@, PageSize - free, SubSeq(chunk, 1, free)),
                 ![last_page + 1] = Copied(@, 0, rest)]
  /\ capacity' = capacity + PageSize
  /\ Emitting(chunk, Fits(0, rest))

(* The call of compiler_emitter_sink: nothing is read when nothing was     *)
(* emitted.                                                                *)
SinkCall ==
  /\ phase = "emit"
  /\ phase' = "sink"
  /\ page' = IF pages = <<>> THEN NULL ELSE 1
  /\ bytes_left' = size
  /\ UNCHANGED <<emitvars, out, result, freed>>

(* Seeded fault: a whole page is taken from a page that is not full.       *)
TakenWhole == PageSize

Taken == IF bytes_left > PageSize THEN PageSize ELSE bytes_left

SinkPage ==
  /\ phase = "sink"
  /\ bytes_left > 0
  /\ page # NULL
  /\ out' = out \o [i \in 1..Taken |-> pages[page].data[i - 1]]
  /\ page' = pages[page].link
  /\ bytes_left' = bytes_left - Taken
  /\ UNCHANGED <<emitvars, phase, result, freed>>

(* sink returns, and compiler_emitter_buffered_destroy is called.          *)
SinkReturn ==
  /\ phase = "sink"
  /\ bytes_left = 0
  /\ result' = out
  /\ phase' = "free"
  /\ page' = IF pages = <<>> THEN NULL ELSE 1
  /\ UNCHANGED <<emitvars, bytes_left, out, freed>>

FreePage ==
  /\ phase = "free"
  /\ page # NULL
  /\ freed' = freed \cup {page}
  /\ page' = pages[page].link
  /\ UNCHANGED <<emitvars, phase, bytes_left, out, result>>

(* Seeded fault: the last page is kept.                                    *)
FreeReturnEarly ==
  /\ phase = "free"
  /\ page = NULL \/ (page # NULL /\ pages[page].link = NULL)
  /\ phase' = "gone"
  /\ UNCHANGED <<emitvars, readvars>>

FreeReturn ==
  /\ phase = "free"
  /\ page = NULL
  /\ phase' = "gone"
  /\ UNCHANGED <<emitvars, readvars>>

Emit(chunk) == EmitInPage(chunk) \/ EmitOnNewPage(chunk) \/ EmitSplit(chunk)

ReadBack == SinkCall \/ SinkPage \/ SinkReturn \/ FreePage \/ FreeReturn

Next == (\E chunk \in Chunks : Emit(chunk)) \/ ReadBack

Spec == Init /\ [][Next]_vars

(* The loops of sink and destroy wait for nothing, and every block that is *)
(* compiled to its end is read back.                                       *)
FairSpec == Spec /\ WF_vars(ReadBack)

-----------------------------------------------------------------------------
(* Properties.                                                             *)

TypeOK ==
  /\ pages \in Seq([data : [0..PageSize-1 -> Byte], link : 0..last_page])
  /\ data \in Seq(Byte) /\ size \in Nat /\ capacity = PageSize * last_page
  /\ phase \in {"emit", "sink", "free", "gone", "overrun"}
  /\ page \in 0..last_page /\ bytes_left \in 0..size
  /\ out \in Seq(Byte) /\ result \in Seq(Byte)
  /\ freed \subseteq 1..last_page

(* The byte at a place of the stream: in the pages one after the other.    *)
Contents == [i \in 1..size |-> pages[(i - 1) \div PageSize + 1].data[(i - 1) % PageSize]]

StreamOfPages == INSTANCE Stream WITH input <- data, written <- Contents, read <- result

(* As long as no chunk is longer than a page, an emitter is a stream: a    *)
(* chunk that is split over two pages, one that ends a page and one that   *)
(* begins the next one lose, repeat or swap nothing, and the walk of sink  *)
(* over the links finds the pages in their order.                          *)
StreamImplemented == StreamOfPages!Spec

(* destroy reaches every page by its links, the first included, once each. *)
EveryPageFreed == phase = "gone" => freed = 1..last_page

(* Once a block is compiled its code is read back and its pages are freed. *)
ReadBackEnds == (phase = "sink") ~> (phase = "gone")

(* Nothing is written behind the end of a page: when a new page is         *)
(* allocated the data can be written on it, as the comment in              *)
(* emitter_emit_buffered has it.                                           *)
NoOverrun == phase # "overrun"
=============================================================================
