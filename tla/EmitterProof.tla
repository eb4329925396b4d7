----------------------------- MODULE EmitterProof ----------------------------
(***************************************************************************)
(* Proofs about the buffered emitter: with pages of any size and chunks of *)
(* any length up to that size, it implements a stream, nothing is written  *)
(* behind a page, and every page is freed.                                 *)
(***************************************************************************)
EXTENDS Emitter, TLAPS

(* What the theorems assume of the code that is emitted.                   *)
ShortChunks == \A chunk \in Chunks : Len(chunk) <= PageSize

(* The last page has room for at least what lies on it, and is not empty.  *)
Filled ==
  /\ size <= capacity
  /\ pages # <<>> => capacity - PageSize < size

(* The links lead from every page to the next, and end there.              *)
Linked == \A p \in 1..last_page : pages[p].link = IF p < last_page THEN p + 1 ELSE NULL

(* sink has copied the pages before current_page, and nothing is left when *)
(* there is no such page.                                                  *)
Sinking ==
  /\ freed = {}
  /\ Len(out) = size - bytes_left
  /\ \A i \in 1..Len(out) : out[i] = Contents[i]
  /\ page = NULL <=> bytes_left = 0
  /\ page # NULL => size - bytes_left = PageSize * (page - 1)

(* destroy has freed the pages before current_page.                        *)
Freeing == freed = IF page = NULL THEN 1..last_page ELSE 1..page-1

(* The inductive invariant.                                                *)
EmitterInv ==
  /\ TypeOK
  /\ Filled
  /\ Linked
  /\ phase # "overrun"
  /\ phase = "emit" => out = <<>> /\ freed = {}
  /\ phase = "sink" => Sinking
  /\ phase = "free" => Freeing
  /\ phase = "gone" => freed = 1..last_page

-----------------------------------------------------------------------------
(* Arithmetic with the size of a page.                                     *)

LEMMA Times ==
  ASSUME NEW s \in Nat \ {0}, NEW a \in Int, NEW b \in Int, a < b
  PROVE  s * a + s <= s * b
<1>1. PICK d \in Nat : b = a + 1 + d
  BY b - a - 1 \in Nat
<1>2. s * b = s * a + s + s * d
  BY <1>1
<1>3. s * d \in Nat /\ s * a \in Int
  OBVIOUS
<1> QED
  BY <1>2, <1>3

LEMMA Division ==
  ASSUME NEW s \in Nat \ {0}, NEW n \in Nat
  PROVE  /\ n \div s \in Nat /\ n % s \in 0..s-1
         /\ n = s * (n \div s) + (n % s)
OBVIOUS

LEMMA DivisionUnique ==
  ASSUME NEW s \in Nat \ {0}, NEW q \in Nat, NEW r \in 0..s-1
  PROVE  (s * q + r) \div s = q /\ (s * q + r) % s = r
<1> DEFINE n == s * q + r
<1>1. n \in Nat /\ s * q \in Nat
  OBVIOUS
<1>2. PICK p \in Nat, t \in 0..s-1 : p = n \div s /\ t = n % s /\ n = s * p + t
  BY <1>1, Division
<1>3. s * p \in Nat
  BY <1>2
<1>4. ~(p < q) /\ ~(q < p)
  <2>1. ~(p < q)
    BY <1>1, <1>2, <1>3, Times
  <2>2. ~(q < p)
    BY <1>1, <1>2, <1>3, Times
  <2> QED
    BY <2>1, <2>2
<1>5. p = q
  BY <1>2, <1>4
<1> QED
  BY <1>1, <1>2, <1>5

-----------------------------------------------------------------------------
(* The bytes in the pages.                                                 *)

LEMMA Concatenated ==
  ASSUME NEW s \in Seq(Byte), NEW t \in Seq(Byte), NEW n \in Nat, Len(s) = n
  PROVE  /\ DOMAIN (s \o t) = 1..(n + Len(t))
         /\ \A i \in 1..n : (s \o t)[i] = s[i]
         /\ \A i \in 1..(n + Len(t)) : i > n => (s \o t)[i] = t[i - n]
         /\ s \o t \in Seq(Byte) /\ Len(s \o t) = n + Len(t)
OBVIOUS

PageRecord(n) == [data : [0..PageSize-1 -> Byte], link : 0..n]

(* The first n bytes of any pages.                                         *)
Bytes(pgs, n) == [i \in 1..n |-> pgs[(i - 1) \div PageSize + 1].data[(i - 1) % PageSize]]

(* A byte lies on a page there is.                                         *)
LEMMA OnPage ==
  ASSUME NEW m \in Nat, NEW n \in Nat, n < PageSize * m
  PROVE  n \div PageSize + 1 \in 1..m /\ n % PageSize \in 0..PageSize-1
         /\ n = PageSize * (n \div PageSize) + (n % PageSize)
<1>1. PICK s \in Nat \ {0} : s = PageSize
  BY PageAssumption
<1>2. PICK q \in Nat, r \in 0..s-1 : q = n \div s /\ r = n % s /\ n = s * q + r
  BY <1>1, Division
<1>3. ~(m < q) /\ m # q
  <2>1. s * q \in Nat /\ s * m \in Nat /\ s * q <= n /\ n < s * m
    BY <1>1, <1>2
  <2> QED
    BY <1>1, <1>2, <2>1, Times
<1> QED
  BY <1>1, <1>2, <1>3

LEMMA BytesTyped ==
  ASSUME NEW m \in Nat, NEW l \in Nat, NEW pgs \in Seq(PageRecord(l)), Len(pgs) = m,
         NEW n \in Nat, n <= PageSize * m
  PROVE  Bytes(pgs, n) \in Seq(Byte) /\ Len(Bytes(pgs, n)) = n
<1>1. ASSUME NEW i \in 1..n
      PROVE  pgs[(i - 1) \div PageSize + 1].data[(i - 1) % PageSize] \in Byte
  <2>1. i - 1 \in Nat /\ i - 1 < PageSize * m
    BY PageAssumption
  <2>2. PICK p \in 1..m, j \in 0..PageSize-1 :
          p = (i - 1) \div PageSize + 1 /\ j = (i - 1) % PageSize
    BY <2>1, OnPage
  <2>3. pgs[p] \in PageRecord(l)
    BY <2>2
  <2>4. pgs[p].data \in [0..PageSize-1 -> Byte]
    BY <2>3 DEF PageRecord
  <2> QED
    BY <2>2, <2>4
<1>2. Bytes(pgs, n) \in [1..n -> Byte]
  BY <1>1 DEF Bytes
<1> QED
  BY <1>2

(* A step keeps the bytes emitted before, and puts those of chunk behind   *)
(* them.                                                                   *)
Kept ==
  \A p \in 1..last_page, j \in 0..PageSize-1 :
    PageSize * (p - 1) + j < size => pages'[p].data[j] = pages[p].data[j]

Behind(chunk) ==
  \A k \in 1..Len(chunk) : \E p \in Nat \ {0}, j \in 0..PageSize-1 :
    size + k - 1 = PageSize * (p - 1) + j /\ pages'[p].data[j] = chunk[k]

LEMMA BytesWritten ==
  ASSUME size \in Nat, last_page \in Nat, size <= PageSize * last_page,
         NEW chunk \in Seq(Byte), Bytes(pages, size) \in Seq(Byte), Len(Bytes(pages, size)) = size,
         Kept, Behind(chunk)
  PROVE  Bytes(pages', size + Len(chunk)) = Bytes(pages, size) \o chunk
<1> DEFINE before == Bytes(pages, size)
<1> DEFINE after == before \o chunk
           now   == Bytes(pages', size + Len(chunk))
<1>0. before \in Seq(Byte) /\ Len(before) = size
  OBVIOUS
<1> HIDE DEF before
<1>1. /\ DOMAIN after = 1..(size + Len(chunk))
      /\ \A i \in 1..size : after[i] = before[i]
      /\ \A i \in 1..(size + Len(chunk)) : i > size => after[i] = chunk[i - size]
      /\ after \in Seq(Byte) /\ Len(after) = size + Len(chunk)
  BY <1>0, Concatenated DEF after
<1>2. \A i \in 1..size : now[i] = before[i]
  <2> SUFFICES ASSUME NEW i \in 1..size
               PROVE  now[i] = before[i]
    OBVIOUS
  <2>1. i - 1 \in Nat /\ i - 1 < size /\ i - 1 < PageSize * last_page /\ i \in 1..(size + Len(chunk))
    BY PageAssumption
  <2>2. PICK p \in 1..last_page, j \in 0..PageSize-1 :
          /\ p = (i - 1) \div PageSize + 1 /\ j = (i - 1) % PageSize
          /\ PageSize * (p - 1) + j = i - 1
    <3>1. PICK q \in Nat : q = (i - 1) \div PageSize
      BY <2>1, Division, PageAssumption
    <3>2. q + 1 \in 1..last_page /\ q + 1 - 1 = q
      BY <2>1, <3>1, OnPage
    <3> QED
      BY <2>1, <3>1, <3>2, OnPage
  <2>3. pages'[p].data[j] = pages[p].data[j]
    BY <2>1, <2>2 DEF Kept
  <2>4. now[i] = pages'[p].data[j]
    BY <2>1, <2>2 DEF Bytes
  <2>5. before[i] = pages[p].data[j]
    BY <2>2 DEF before, Bytes
  <2> QED
    BY <2>3, <2>4, <2>5
<1>3. \A i \in 1..(size + Len(chunk)) : i > size => now[i] = chunk[i - size]
  <2> SUFFICES ASSUME NEW i \in 1..(size + Len(chunk)), i > size
               PROVE  now[i] = chunk[i - size]
    OBVIOUS
  <2>1. PICK k \in 1..Len(chunk) : k = i - size /\ size + k - 1 = i - 1
    OBVIOUS
  <2>2. PICK p \in Nat \ {0}, j \in 0..PageSize-1 :
          size + k - 1 = PageSize * (p - 1) + j /\ pages'[p].data[j] = chunk[k]
    BY DEF Behind
  <2>3. PICK q \in Nat : q = p - 1 /\ i - 1 = PageSize * q + j
    <3>1. PICK q \in Nat : q = p - 1
      OBVIOUS
    <3> QED
      BY <2>1, <2>2, <3>1
  <2>4. (PageSize * q + j) \div PageSize = q /\ (PageSize * q + j) % PageSize = j
    BY DivisionUnique, PageAssumption
  <2>5. now[i] = pages'[(i - 1) \div PageSize + 1].data[(i - 1) % PageSize]
    BY DEF Bytes
  <2> QED
    BY <2>1, <2>2, <2>3, <2>4, <2>5
<1>4. now = [i \in 1..(size + Len(chunk)) |-> now[i]]
  BY DEF Bytes
<1> HIDE DEF now, after
<1>5. \A i \in 1..(size + Len(chunk)) : now[i] = after[i]
  BY <1>1, <1>2, <1>3
<1>6. after = [i \in 1..(size + Len(chunk)) |-> after[i]]
  BY <1>1
<1>7. now = after
  BY <1>4, <1>5, <1>6
<1> QED
  BY <1>7 DEF now, after, before

-----------------------------------------------------------------------------
(* What is emitted.                                                        *)

(* What a copy has of the page, and of the bytes that were copied to it.   *)
IsCopy(new, pg, offset, bytes) ==
  /\ new.link = pg.link
  /\ \A j \in 0..PageSize-1 : j < offset => new.data[j] = pg.data[j]
  /\ \A k \in 1..Len(bytes) : offset + k - 1 <= PageSize - 1 =>
       new.data[offset + k - 1] = bytes[k]

LEMMA CopiedBytes ==
  ASSUME NEW l \in Nat, NEW pg \in PageRecord(l), NEW offset \in Nat, NEW bytes \in Seq(Byte)
  PROVE  /\ Copied(pg, offset, bytes) \in PageRecord(l)
         /\ IsCopy(Copied(pg, offset, bytes), pg, offset, bytes)
<1> DEFINE to == [j \in 0..PageSize-1 |->
                    IF j - offset + 1 \in DOMAIN bytes THEN bytes[j - offset + 1] ELSE pg.data[j]]
<1>1. PageSize \in Nat \ {0} /\ pg.data \in [0..PageSize-1 -> Byte] /\ pg.link \in 0..l
      /\ DOMAIN bytes = 1..Len(bytes)
  BY PageAssumption DEF PageRecord
<1>2. to \in [0..PageSize-1 -> Byte]
  BY <1>1
<1>3. \A j \in 0..PageSize-1 : j < offset => to[j] = pg.data[j]
  BY <1>1
<1>4. ASSUME NEW k \in 1..Len(bytes), offset + k - 1 <= PageSize - 1
      PROVE  to[offset + k - 1] = bytes[k]
  <2>1. PICK j \in 0..PageSize-1 : j = offset + k - 1 /\ j - offset + 1 = k
    BY <1>1, <1>4
  <2> QED
    BY <1>1, <2>1
<1>5. Copied(pg, offset, bytes) = [pg EXCEPT !.data = to]
  BY DEF Copied
<1> HIDE DEF to
<1>6. /\ Copied(pg, offset, bytes) \in PageRecord(l)
      /\ Copied(pg, offset, bytes).link = pg.link
      /\ Copied(pg, offset, bytes).data = to
  BY <1>1, <1>2, <1>5 DEF PageRecord
<1> QED
  BY <1>3, <1>4, <1>6 DEF IsCopy

LEMMA PagesTyped ==
  ASSUME EmitterInv
  PROVE  /\ pages \in Seq(PageRecord(last_page)) /\ last_page = Len(pages) /\ last_page \in Nat
         /\ size \in Nat /\ capacity = PageSize * last_page
         /\ PageSize \in Nat \ {0} /\ PageSize * last_page \in Nat
         /\ size <= capacity /\ (pages # <<>> => capacity - PageSize < size)
         /\ last_page = 0 => size = 0
         /\ Contents = Bytes(pages, size)
         /\ Contents \in Seq(Byte) /\ Len(Contents) = size
<1>1. pages \in Seq(PageRecord(last_page)) /\ last_page = Len(pages) /\ last_page \in Nat
      /\ size \in Nat /\ capacity = PageSize * last_page
  BY DEF EmitterInv, TypeOK, PageRecord, last_page
<1>2. PICK s \in Nat \ {0} : s = PageSize
  BY PageAssumption
<1>3. size <= capacity /\ (pages # <<>> => capacity - PageSize < size)
  BY DEF EmitterInv, Filled
<1>4. PageSize * last_page \in Nat /\ (last_page = 0 => size = 0)
  BY <1>1, <1>2, <1>3
<1>5. Contents = Bytes(pages, size)
  BY DEF Contents, Bytes
<1> QED
  BY <1>1, <1>2, <1>3, <1>4, <1>5, BytesTyped

(* emitter_allocate_new_page.                                              *)
LEMMA AllocatedPages ==
  ASSUME EmitterInv
  PROVE  /\ Allocated \in Seq(PageRecord(last_page + 1)) /\ Len(Allocated) = last_page + 1
         /\ \A p \in 1..last_page : Allocated[p].data = pages[p].data
         /\ \A p \in 1..last_page+1 :
              Allocated[p].link = IF p < last_page + 1 THEN p + 1 ELSE NULL
<1>1. PICK n \in Nat : n = last_page
  BY PagesTyped
<1>2. NewPage \in PageRecord(n + 1) /\ NewPage.link = NULL
  BY ZeroAssumption, PageAssumption DEF NewPage, PageRecord, NULL
<1>3. ASSUME NEW p \in 1..n
      PROVE  /\ pages[p] \in PageRecord(n)
             /\ pages[p].data \in [0..PageSize-1 -> Byte] /\ pages[p].link \in 0..n
             /\ pages[p].link = IF p < n THEN p + 1 ELSE NULL
  <2>1. pages[p] \in PageRecord(n)
    BY <1>1, PagesTyped
  <2> QED
    BY <1>1, <2>1 DEF PageRecord, EmitterInv, Linked
<1>4. ASSUME NEW p \in 1..n+1
      PROVE  /\ Allocated[p] \in PageRecord(n + 1)
             /\ Allocated[p].link = IF p < n + 1 THEN p + 1 ELSE NULL
             /\ p \in 1..n => Allocated[p].data = pages[p].data
  <2>1. CASE p = n + 1
    BY <1>1, <1>2, <2>1 DEF Allocated
  <2>2. CASE p = n
    <3>1. Allocated[p] = [pages[p] EXCEPT !.link = n + 1]
      BY <1>1, <2>2 DEF Allocated
    <3>2. pages[p].data \in [0..PageSize-1 -> Byte] /\ pages[p] \in PageRecord(n)
      BY <1>3, <2>2
    <3> QED
      BY <2>2, <3>1, <3>2 DEF PageRecord
  <2>3. CASE p < n
    <3>1. Allocated[p] = pages[p] /\ p \in 1..n
      BY <1>1, <2>3 DEF Allocated
    <3> QED
      BY <1>3, <2>3, <3>1 DEF PageRecord
  <2> QED
    BY <2>1, <2>2, <2>3
<1>5. Allocated = [p \in 1..n+1 |-> Allocated[p]]
  BY <1>1 DEF Allocated
<1>6. Allocated \in Seq(PageRecord(n + 1)) /\ Len(Allocated) = n + 1
  BY <1>4, <1>5
<1> QED
  BY <1>1, <1>4, <1>6

(* What every way of emitting a chunk shows of the pages after it.         *)
Extended(chunk) ==
  /\ pages' \in Seq(PageRecord(Len(pages'))) /\ capacity' = PageSize * Len(pages')
  /\ size + Len(chunk) <= capacity' /\ (pages' # <<>> => capacity' - PageSize < size + Len(chunk))
  /\ \A p \in 1..Len(pages') : pages'[p].link = IF p < Len(pages') THEN p + 1 ELSE NULL
  /\ Len(pages') >= last_page
  /\ Kept
  /\ Behind(chunk)

LEMMA ChunkTyped ==
  ASSUME NEW chunk \in Chunks
  PROVE  chunk \in Seq(Byte) /\ Len(chunk) \in Nat \ {0}
<1>1. chunk \in Seq(Byte) /\ chunk # <<>>
  BY ChunkAssumption
<1> QED
  BY <1>1

LEMMA Emitted ==
  ASSUME EmitterInv, phase = "emit", NEW chunk \in Chunks, Emitting(chunk, TRUE), Extended(chunk)
  PROVE  EmitterInv' /\ Contents' = Contents \o chunk
<1>1. chunk \in Seq(Byte) /\ Len(chunk) \in Nat \ {0}
  BY ChunkTyped
<1>2. size' = size + Len(chunk) /\ data' = chunk /\ phase' = "emit"
      /\ page' = page /\ bytes_left' = bytes_left /\ out' = out /\ result' = result
      /\ freed' = freed
  BY DEF Emitting, readvars
<1>3. size' \in Nat /\ size' >= size
  <2>1. PICK l \in Nat : l = Len(chunk)
    BY <1>1
  <2>2. size \in Nat
    BY PagesTyped
  <2> QED
    BY <1>2, <2>1, <2>2
<1>4. PICK n \in Nat, m \in Nat : n = Len(pages') /\ n >= m /\ m = last_page
  BY PagesTyped DEF Extended
<1>5. page' \in 0..n /\ bytes_left' \in 0..size' /\ freed' \subseteq 1..n
      /\ out' \in Seq(Byte) /\ result' \in Seq(Byte)
  <2>1. /\ page \in 0..last_page /\ bytes_left \in 0..size /\ freed \subseteq 1..last_page
        /\ out \in Seq(Byte) /\ result \in Seq(Byte) /\ size \in Nat
    BY PagesTyped DEF EmitterInv, TypeOK
  <2>2. \A i \in 0..last_page : i \in 0..n
    BY <1>4
  <2>3. \A i \in 1..last_page : i \in 1..n
    BY <1>4
  <2>4. \A i \in 0..size : i \in 0..size'
    BY <1>3, <2>1
  <2> QED
    BY <1>2, <2>1, <2>2, <2>3, <2>4
<1>6. TypeOK'
  BY <1>1, <1>2, <1>3, <1>4, <1>5 DEF TypeOK, Extended, PageRecord, last_page
<1>7. Filled' /\ Linked'
  BY <1>2 DEF Filled, Linked, Extended, last_page
<1>8. EmitterInv'
  BY <1>2, <1>6, <1>7 DEF EmitterInv
<1>9. Contents' = Bytes(pages', size + Len(chunk))
  BY <1>2 DEF Contents, Bytes
<1>10. Bytes(pages', size + Len(chunk)) = Bytes(pages, size) \o chunk
  <2>1. Bytes(pages, size) \in Seq(Byte) /\ Len(Bytes(pages, size)) = size
        /\ size \in Nat /\ last_page \in Nat /\ size <= PageSize * last_page
    BY PagesTyped
  <2>2. Kept /\ Behind(chunk)
    BY DEF Extended
  <2> QED
    BY <1>1, <2>1, <2>2, BytesWritten
<1> QED
  BY <1>8, <1>9, <1>10, PagesTyped

LEMMA InPageEmits ==
  ASSUME EmitterInv, NEW chunk \in Chunks, EmitInPage(chunk)
  PROVE  EmitterInv' /\ Contents' = Contents \o chunk
<1>1. PICK s \in Nat \ {0}, m \in Nat, l \in Nat \ {0} :
        s = PageSize /\ m = last_page /\ l = Len(chunk)
  BY PagesTyped, ChunkTyped
<1>2. chunk \in Seq(Byte) /\ pages \in Seq(PageRecord(m)) /\ Len(pages) = m /\ size \in Nat
      /\ capacity = s * m /\ (m = 0 => size = 0) /\ (pages # <<>> => capacity - s < size)
  BY <1>1, PagesTyped, ChunkTyped
<1>3. phase = "emit" /\ size + l <= s * m /\ capacity' = capacity
  BY <1>1, <1>2 DEF EmitInPage
<1>4. m # 0 /\ m \in 1..m /\ m - 1 \in Nat /\ s * m = s * (m - 1) + s /\ s * (m - 1) \in Nat
  <2>1. m # 0
    BY <1>2, <1>3
  <2> QED
    BY <2>1
<1>5. PICK o \in 0..s-1 : size = s * (m - 1) + o /\ o + l <= s
  <2>1. s * m - s < size
    BY <1>2, <1>4
  <2>2. size - s * (m - 1) \in 0..s-1 /\ size - s * (m - 1) + l <= s
    BY <1>2, <1>3, <1>4, <2>1
  <2> QED
    BY <1>2, <1>4, <2>2
<1>6. size % PageSize = o
  BY <1>1, <1>4, <1>5, DivisionUnique
<1> DEFINE new == Copied(pages[m], o, chunk)
<1>7. pages[m] \in PageRecord(m)
  BY <1>2, <1>4
<1>8. /\ new \in PageRecord(m) /\ new.link = pages[m].link
      /\ \A j \in 0..s-1 : j < o => new.data[j] = pages[m].data[j]
      /\ \A k \in 1..l : o + k - 1 <= s - 1 => new.data[o + k - 1] = chunk[k]
  <2>1. o \in Nat
    OBVIOUS
  <2>2. new \in PageRecord(m) /\ IsCopy(new, pages[m], o, chunk)
    BY <1>2, <1>7, <2>1, CopiedBytes
  <2> QED
    BY <1>1, <2>2 DEF IsCopy
<1>9. pages' = [pages EXCEPT ![m] = new]
  BY <1>1, <1>6 DEF EmitInPage
<1> HIDE DEF new
<1>10. /\ pages' \in Seq(PageRecord(m)) /\ Len(pages') = m
       /\ pages'[m] = new /\ \A p \in 1..m : p # m => pages'[p] = pages[p]
  BY <1>2, <1>4, <1>8, <1>9
<1>11. Emitting(chunk, TRUE)
  BY <1>1, <1>5, <1>6 DEF EmitInPage, Emitting, Fits
<1>12. Kept
  <2> SUFFICES ASSUME NEW p \in 1..m, NEW j \in 0..s-1, s * (p - 1) + j < size
               PROVE  pages'[p].data[j] = pages[p].data[j]
    BY <1>1 DEF Kept
  <2>1. p = m => j < o
    BY <1>4, <1>5
  <2> QED
    BY <1>8, <1>10, <2>1
<1>13. Behind(chunk)
  <2> SUFFICES ASSUME NEW k \in 1..l
               PROVE  \E p \in Nat \ {0}, j \in 0..s-1 :
                        size + k - 1 = s * (p - 1) + j /\ pages'[p].data[j] = chunk[k]
    BY <1>1 DEF Behind
  <2>1. o + k - 1 \in 0..s-1 /\ size + k - 1 = s * (m - 1) + (o + k - 1)
    BY <1>4, <1>5
  <2>2. pages'[m].data[o + k - 1] = chunk[k]
    BY <1>8, <1>10, <2>1
  <2> QED
    BY <1>4, <2>1, <2>2
<1>14. \A p \in 1..m : pages'[p].link = IF p < m THEN p + 1 ELSE NULL
  BY <1>1, <1>8, <1>10 DEF EmitterInv, Linked
<1>15. Extended(chunk)
  BY <1>1, <1>2, <1>3, <1>4, <1>10, <1>12, <1>13, <1>14 DEF Extended
<1> QED
  BY <1>3, <1>11, <1>15, Emitted

LEMMA OnNewPageEmits ==
  ASSUME EmitterInv, ShortChunks, NEW chunk \in Chunks, EmitOnNewPage(chunk)
  PROVE  EmitterInv' /\ Contents' = Contents \o chunk
<1>1. PICK s \in Nat \ {0}, m \in Nat, l \in Nat \ {0} :
        s = PageSize /\ m = last_page /\ l = Len(chunk) /\ l <= s
  BY PagesTyped, ChunkTyped DEF ShortChunks
<1>2. chunk \in Seq(Byte) /\ size \in Nat /\ size = s * m /\ s * (m + 1) = size + s
      /\ phase = "emit" /\ capacity' = capacity + s /\ capacity = s * m
  BY <1>1, PagesTyped, ChunkTyped DEF EmitOnNewPage
<1>3. size % PageSize = 0
  <2>1. (s * m + 0) % s = 0 /\ s * m + 0 = s * m
    BY <1>1, <1>2, DivisionUnique
  <2> QED
    BY <1>1, <1>2, <2>1
<1> DEFINE new == Copied(Allocated[m + 1], 0, chunk)
<1>4. /\ Allocated \in Seq(PageRecord(m + 1)) /\ Len(Allocated) = m + 1
      /\ \A p \in 1..m : Allocated[p].data = pages[p].data
      /\ \A p \in 1..m+1 : Allocated[p].link = IF p < m + 1 THEN p + 1 ELSE NULL
  BY <1>1, AllocatedPages
<1>5. Allocated[m + 1] \in PageRecord(m + 1) /\ m + 1 \in Nat /\ m + 1 \in 1..m+1
  BY <1>4
<1>6. /\ new \in PageRecord(m + 1) /\ new.link = Allocated[m + 1].link
      /\ \A k \in 1..l : new.data[k - 1] = chunk[k]
  <2>1. new \in PageRecord(m + 1) /\ IsCopy(new, Allocated[m + 1], 0, chunk)
    BY <1>2, <1>5, CopiedBytes
  <2>2. \A k \in 1..l : 0 + k - 1 = k - 1 /\ k - 1 <= s - 1
    BY <1>1
  <2> QED
    BY <1>1, <2>1, <2>2 DEF IsCopy
<1>7. pages' = [Allocated EXCEPT ![m + 1] = new]
  BY <1>1, <1>3 DEF EmitOnNewPage
<1> HIDE DEF new
<1>8. /\ pages' \in Seq(PageRecord(m + 1)) /\ Len(pages') = m + 1
      /\ pages'[m + 1] = new /\ \A p \in 1..m : pages'[p] = Allocated[p]
  BY <1>4, <1>5, <1>6, <1>7
<1>9. Emitting(chunk, TRUE)
  BY <1>1, <1>3 DEF EmitOnNewPage, Emitting, Fits
<1>10. Kept
  BY <1>1, <1>4, <1>8 DEF Kept
<1>11. Behind(chunk)
  <2> SUFFICES ASSUME NEW k \in 1..l
               PROVE  \E p \in Nat \ {0}, j \in 0..s-1 :
                        size + k - 1 = s * (p - 1) + j /\ pages'[p].data[j] = chunk[k]
    BY <1>1 DEF Behind
  <2>1. k - 1 \in 0..s-1 /\ size + k - 1 = s * (m + 1 - 1) + (k - 1)
    BY <1>1, <1>2
  <2>2. pages'[m + 1].data[k - 1] = chunk[k]
    BY <1>6, <1>8
  <2> QED
    BY <1>5, <2>1, <2>2
<1>12. \A p \in 1..m+1 : pages'[p].link = IF p < m + 1 THEN p + 1 ELSE NULL
  BY <1>4, <1>5, <1>6, <1>8
<1>13. /\ capacity' = PageSize * (m + 1) /\ size + Len(chunk) <= capacity'
       /\ capacity' - PageSize < size + Len(chunk)
  BY <1>1, <1>2
<1>14. Extended(chunk)
  BY <1>1, <1>8, <1>10, <1>11, <1>12, <1>13 DEF Extended
<1> QED
  BY <1>2, <1>9, <1>14, Emitted

LEMMA TwoParts ==
  ASSUME NEW chunk \in Seq(Byte), NEW a \in Nat, NEW b \in Nat, Len(chunk) = a + b
  PROVE  /\ SubSeq(chunk, 1, a) \in Seq(Byte) /\ Len(SubSeq(chunk, 1, a)) = a
         /\ \A k \in 1..a : SubSeq(chunk, 1, a)[k] = chunk[k]
         /\ SubSeq(chunk, a + 1, a + b) \in Seq(Byte) /\ Len(SubSeq(chunk, a + 1, a + b)) = b
         /\ \A k \in 1..b : SubSeq(chunk, a + 1, a + b)[k] = chunk[a + k]
<1>1. /\ SubSeq(chunk, 1, a) \in Seq(Byte) /\ Len(SubSeq(chunk, 1, a)) = a
      /\ \A k \in 1..a : SubSeq(chunk, 1, a)[k] = chunk[k]
  OBVIOUS
<1>2. SubSeq(chunk, a + 1, a + b) \in Seq(Byte) /\ Len(SubSeq(chunk, a + 1, a + b)) = b
  OBVIOUS
<1>3. \A k \in 1..b : SubSeq(chunk, a + 1, a + b)[k] = chunk[a + k]
  OBVIOUS
<1> QED
  BY <1>1, <1>2, <1>3

LEMMA SplitEmits ==
  ASSUME EmitterInv, ShortChunks, NEW chunk \in Chunks, EmitSplit(chunk)
  PROVE  EmitterInv' /\ Contents' = Contents \o chunk
<1>1. PICK s \in Nat \ {0}, m \in Nat, l \in Nat \ {0} :
        s = PageSize /\ m = last_page /\ l = Len(chunk) /\ l <= s
  BY PagesTyped, ChunkTyped DEF ShortChunks
<1>2. chunk \in Seq(Byte) /\ size \in Nat /\ capacity = s * m /\ phase = "emit"
      /\ capacity' = capacity + s /\ size + l > s * m /\ size # s * m /\ size <= s * m
      /\ (m = 0 => size = 0) /\ (pages # <<>> => capacity - s < size)
      /\ pages \in Seq(PageRecord(m)) /\ Len(pages) = m
  BY <1>1, PagesTyped, ChunkTyped DEF EmitSplit
<1>3. m # 0 /\ m \in 1..m /\ m - 1 \in Nat /\ s * m = s * (m - 1) + s /\ s * (m - 1) \in Nat
      /\ s * (m + 1) = s * m + s
  <2>1. m # 0
    BY <1>2
  <2> QED
    BY <2>1
<1>4. PICK free \in 1..s-1 : free = capacity - size /\ free < l /\ size = s * (m - 1) + (s - free)
  <2>1. s * m - s < size
    BY <1>2, <1>3
  <2>2. capacity - size \in 1..s-1 /\ capacity - size < l
        /\ size = s * (m - 1) + (s - (capacity - size))
    BY <1>2, <1>3, <2>1
  <2> QED
    BY <2>2
<1>0. PICK left \in 1..s-1 : l = free + left /\ left = l - free
  <2>1. l - free \in 1..s-1 /\ l = free + (l - free)
    BY <1>1, <1>4
  <2> QED
    BY <2>1
<1> DEFINE head  == SubSeq(chunk, 1, free)
           rest  == SecondPart(chunk, free)
           first == Copied(Allocated[m], s - free, head)
           next  == Copied(Allocated[m + 1], 0, rest)
<1>5. /\ head \in Seq(Byte) /\ Len(head) = free /\ \A k \in 1..free : head[k] = chunk[k]
      /\ rest \in Seq(Byte) /\ Len(rest) = left
      /\ \A k \in 1..left : rest[k] = chunk[free + k]
  <2>1. free \in Nat /\ left \in Nat /\ Len(chunk) = free + left
    BY <1>0, <1>1
  <2>2. rest = SubSeq(chunk, free + 1, free + left) /\ head = SubSeq(chunk, 1, free)
    BY <2>1 DEF SecondPart
  <2> HIDE DEF head, rest
  <2>3. chunk \in Seq(Byte)
    BY <1>2
  <2>4. /\ SubSeq(chunk, 1, free) \in Seq(Byte) /\ Len(SubSeq(chunk, 1, free)) = free
        /\ \A k \in 1..free : SubSeq(chunk, 1, free)[k] = chunk[k]
    BY <2>1, <2>3, TwoParts
  <2>5. /\ SubSeq(chunk, free + 1, free + left) \in Seq(Byte)
        /\ Len(SubSeq(chunk, free + 1, free + left)) = left
        /\ \A k \in 1..left : SubSeq(chunk, free + 1, free + left)[k] = chunk[free + k]
    BY <2>1, <2>3, TwoParts
  <2> QED
    BY <2>2, <2>4, <2>5
<1> HIDE DEF head, rest
<1>6. /\ Allocated \in Seq(PageRecord(m + 1)) /\ Len(Allocated) = m + 1
      /\ \A p \in 1..m : Allocated[p].data = pages[p].data
      /\ \A p \in 1..m+1 : Allocated[p].link = IF p < m + 1 THEN p + 1 ELSE NULL
  BY <1>1, AllocatedPages
<1>7. Allocated[m + 1] \in PageRecord(m + 1) /\ m + 1 \in Nat /\ m + 1 \in 1..m+1
      /\ Allocated[m] \in PageRecord(m + 1) /\ m \in 1..m+1 /\ m # m + 1
      /\ s - free \in Nat
  BY <1>3, <1>4, <1>6
<1>8. /\ first \in PageRecord(m + 1) /\ first.link = Allocated[m].link
      /\ \A j \in 0..s-1 : j < s - free => first.data[j] = Allocated[m].data[j]
      /\ \A k \in 1..free : first.data[s - free + k - 1] = chunk[k]
  <2>1. first \in PageRecord(m + 1) /\ IsCopy(first, Allocated[m], s - free, head)
    BY <1>5, <1>7, CopiedBytes
  <2>2. \A k \in 1..free : s - free + k - 1 <= s - 1
    BY <1>4
  <2> QED
    BY <1>1, <1>5, <2>1, <2>2 DEF IsCopy
<1>9. /\ next \in PageRecord(m + 1) /\ next.link = Allocated[m + 1].link
      /\ \A k \in 1..left : next.data[k - 1] = chunk[free + k]
  <2>1. next \in PageRecord(m + 1) /\ IsCopy(next, Allocated[m + 1], 0, rest)
    BY <1>5, <1>7, CopiedBytes
  <2> HIDE DEF next
  <2>2. next.link = Allocated[m + 1].link
    BY <2>1 DEF IsCopy
  <2>3. ASSUME NEW k \in 1..left
        PROVE  next.data[k - 1] = chunk[free + k]
    <3>1. k \in 1..Len(rest) /\ 0 + k - 1 = k - 1 /\ 0 + k - 1 <= PageSize - 1
      BY <1>1, <1>5
    <3>2. next.data[0 + k - 1] = rest[k]
      BY <2>1, <3>1 DEF IsCopy
    <3> QED
      BY <1>5, <3>1, <3>2
  <2> QED
    BY <2>1, <2>2, <2>3
<1>10. pages' = [Allocated EXCEPT ![m] = first, ![m + 1] = next]
  BY <1>1, <1>3, <1>4 DEF EmitSplit, head, rest
<1> HIDE DEF first, next
<1>11. /\ pages' \in Seq(PageRecord(m + 1)) /\ Len(pages') = m + 1
       /\ pages'[m] = first /\ pages'[m + 1] = next
       /\ \A p \in 1..m : p # m => pages'[p] = Allocated[p]
  <2> DEFINE half == [Allocated EXCEPT ![m] = first]
  <2>1. /\ half \in Seq(PageRecord(m + 1)) /\ Len(half) = m + 1
        /\ half[m] = first /\ \A p \in 1..m+1 : p # m => half[p] = Allocated[p]
    BY <1>6, <1>7, <1>8
  <2>2. pages' = [half EXCEPT ![m + 1] = next]
    BY <1>10
  <2> HIDE DEF half
  <2>3. /\ pages' \in Seq(PageRecord(m + 1)) /\ Len(pages') = m + 1
        /\ pages'[m + 1] = next /\ \A p \in 1..m+1 : p # m + 1 => pages'[p] = half[p]
    BY <1>7, <1>9, <2>1, <2>2
  <2> QED
    BY <1>7, <2>1, <2>3
<1>12. Emitting(chunk, TRUE)
  <2>1. 0 + Len(rest) <= PageSize
    BY <1>1, <1>5
  <2> QED
    BY <1>4, <2>1 DEF EmitSplit, Emitting, Fits, rest
<1>13. Kept
  <2> SUFFICES ASSUME NEW p \in 1..m, NEW j \in 0..s-1, s * (p - 1) + j < size
               PROVE  pages'[p].data[j] = pages[p].data[j]
    BY <1>1 DEF Kept
  <2>1. p = m => j < s - free
    BY <1>3, <1>4
  <2> QED
    BY <1>6, <1>8, <1>11, <2>1
<1>14. Behind(chunk)
  <2> SUFFICES ASSUME NEW k \in 1..l
               PROVE  \E p \in Nat \ {0}, j \in 0..s-1 :
                        size + k - 1 = s * (p - 1) + j /\ pages'[p].data[j] = chunk[k]
    BY <1>1 DEF Behind
  <2>1. CASE k \in 1..free
    <3>1. s - free + k - 1 \in 0..s-1 /\ size + k - 1 = s * (m - 1) + (s - free + k - 1)
      BY <1>3, <1>4, <2>1
    <3>2. pages'[m].data[s - free + k - 1] = chunk[k]
      BY <1>8, <1>11, <2>1
    <3> QED
      BY <1>3, <3>1, <3>2
  <2>2. CASE k > free
    <3>1. PICK i \in 1..left : i = k - free /\ free + i = k
      BY <1>0, <1>4, <2>2
    <3>2. i - 1 \in 0..s-1 /\ size + k - 1 = s * (m + 1 - 1) + (i - 1)
      BY <1>1, <1>2, <1>3, <1>4, <3>1
    <3>3. pages'[m + 1].data[i - 1] = chunk[k]
      BY <1>9, <1>11, <3>1
    <3> QED
      BY <1>7, <3>2, <3>3
  <2>3. k \in 1..free \/ k > free
    OBVIOUS
  <2> QED
    BY <2>1, <2>2, <2>3
<1>15. \A p \in 1..m+1 : pages'[p].link = IF p < m + 1 THEN p + 1 ELSE NULL
  <2> TAKE p \in 1..m+1
  <2>1. CASE p = m + 1
    BY <1>6, <1>9, <1>11, <2>1
  <2>2. CASE p = m
    BY <1>6, <1>7, <1>8, <1>11, <2>2
  <2>3. CASE p # m /\ p \in 1..m
    BY <1>6, <1>11, <2>3
  <2> QED
    BY <2>1, <2>2, <2>3
<1>16. /\ capacity' = PageSize * (m + 1) /\ size + Len(chunk) <= capacity'
       /\ capacity' - PageSize < size + Len(chunk)
  BY <1>1, <1>2, <1>3, <1>4
<1>17. Extended(chunk)
  BY <1>1, <1>11, <1>13, <1>14, <1>15, <1>16 DEF Extended
<1> QED
  BY <1>2, <1>12, <1>17, Emitted

-----------------------------------------------------------------------------
(* What is read back.                                                      *)

(* A step that reads leaves the pages and what was emitted alone.          *)
LEMMA ReadKeeps ==
  ASSUME EmitterInv, UNCHANGED emitvars
  PROVE  /\ last_page' = last_page /\ Contents' = Contents
         /\ Filled' /\ Linked'
         /\ (/\ phase' \in {"emit", "sink", "free", "gone", "overrun"}
             /\ page' \in 0..last_page /\ bytes_left' \in 0..size
             /\ out' \in Seq(Byte) /\ result' \in Seq(Byte)
             /\ freed' \subseteq 1..last_page) => TypeOK'
<1>1. data' = data /\ pages' = pages /\ size' = size /\ capacity' = capacity
  BY DEF emitvars
<1>2. last_page' = last_page /\ Contents' = Contents
  BY <1>1 DEF last_page, Contents
<1>3. Filled' /\ Linked'
  BY <1>1, <1>2 DEF EmitterInv, Filled, Linked
<1> DEFINE record == [data : [0..PageSize-1 -> Byte], link : 0..last_page]
<1>4. pages \in Seq(record) /\ data \in Seq(Byte) /\ size \in Nat /\ capacity = PageSize * last_page
  BY DEF EmitterInv, TypeOK
<1>5. record' = record
  BY <1>2
<1>6. pages' \in Seq(record') /\ data' \in Seq(Byte) /\ size' \in Nat
      /\ capacity' = PageSize * last_page'
  BY <1>1, <1>2, <1>4, <1>5
<1>7. ASSUME /\ phase' \in {"emit", "sink", "free", "gone", "overrun"}
             /\ page' \in 0..last_page /\ bytes_left' \in 0..size
             /\ out' \in Seq(Byte) /\ result' \in Seq(Byte)
             /\ freed' \subseteq 1..last_page
      PROVE  TypeOK'
  <2>1. page' \in 0..last_page' /\ bytes_left' \in 0..size' /\ freed' \subseteq 1..last_page'
    BY <1>1, <1>2, <1>7
  <2> QED
    BY <1>6, <1>7, <2>1 DEF TypeOK
<1> QED
  BY <1>2, <1>3, <1>7

(* Where sink is: the page it copies, and whether it is the last.          *)
SinkAt(s, m, q, take) ==
  /\ s = PageSize /\ m = last_page /\ page = q + 1 /\ page \in 1..m
  /\ take = Taken /\ take <= s /\ take <= bytes_left
  /\ size - bytes_left = s * q /\ s * (q + 1) = s * q + s
  /\ page' = IF bytes_left > s THEN page + 1 ELSE NULL
  /\ bytes_left > s => page + 1 \in 1..m

LEMMA SinkPlace ==
  ASSUME EmitterInv, SinkPage
  PROVE  \E s \in Nat \ {0}, m \in Nat, q \in Nat, take \in Nat \ {0} : SinkAt(s, m, q, take)
<1>1. PICK s \in Nat \ {0}, m \in Nat :
        s = PageSize /\ m = last_page /\ size \in Nat /\ size <= s * m /\ s * m \in Nat
        /\ m = Len(pages) /\ (pages # <<>> => s * m - s < size)
  BY PagesTyped
<1>2. Sinking /\ page \in 0..m /\ bytes_left \in 0..size /\ bytes_left > 0 /\ page # NULL
  BY <1>1 DEF SinkPage, EmitterInv, TypeOK
<1>3. PICK q \in Nat : q = page - 1 /\ page = q + 1 /\ page \in 1..m
  BY <1>2 DEF NULL
<1>4. size - bytes_left = s * q /\ s * q \in Nat /\ s * (q + 1) = s * q + s
  BY <1>1, <1>2, <1>3 DEF Sinking
<1>5. PICK take \in Nat \ {0} : take = Taken /\ take <= s /\ take <= bytes_left
  BY <1>1, <1>2 DEF Taken
<1>6. page' = IF page < m THEN page + 1 ELSE NULL
  BY <1>1, <1>3 DEF SinkPage, EmitterInv, Linked
<1>7. pages # <<>>
  BY <1>1, <1>3
<1>8. bytes_left > s => page < m
  <2> HAVE bytes_left > s
  <2>1. s * (q + 1) < s * m
    BY <1>1, <1>2, <1>4
  <2>2. page # m
    BY <1>3, <2>1
  <2> QED
    BY <1>3, <2>2
<1>9. page < m => bytes_left > s
  <2> HAVE page < m
  <2>1. s * (q + 1) + s <= s * m
    BY <1>3, Times
  <2>2. s * m - s < size
    BY <1>1, <1>7
  <2> QED
    BY <1>1, <1>2, <1>4, <2>1, <2>2
<1>10. page' = IF bytes_left > s THEN page + 1 ELSE NULL
  BY <1>6, <1>8, <1>9
<1>11. bytes_left > s => page + 1 \in 1..m
  BY <1>3, <1>8
<1>12. SinkAt(s, m, q, take)
  BY <1>1, <1>3, <1>4, <1>5, <1>10, <1>11 DEF SinkAt
<1> QED
  BY <1>12

LEMMA SinkPageReads ==
  ASSUME EmitterInv, SinkPage
  PROVE  EmitterInv'
<1>1. PICK s \in Nat \ {0}, m \in Nat, q \in Nat, take \in Nat \ {0} : SinkAt(s, m, q, take)
  BY SinkPlace
<1>2. /\ pages' = pages /\ size' = size /\ UNCHANGED emitvars
      /\ phase = "sink" /\ phase' = phase /\ result' = result /\ freed' = freed
  BY DEF SinkPage, emitvars
<1>3. last_page' = last_page /\ Contents' = Contents /\ Filled' /\ Linked'
  BY <1>2, ReadKeeps
<1>4. Sinking /\ TypeOK
  BY <1>2 DEF EmitterInv
<1>5. size \in Nat /\ out \in Seq(Byte) /\ bytes_left \in 0..size
      /\ pages \in Seq(PageRecord(m)) /\ Len(pages) = m /\ Contents = Bytes(pages, size)
  BY <1>1, <1>4, PagesTyped DEF TypeOK, SinkAt
<1>6. s = PageSize /\ m = last_page /\ page = q + 1 /\ page \in 1..m
      /\ take = Taken /\ take <= s /\ take <= bytes_left
      /\ size - bytes_left = s * q
      /\ page' = (IF bytes_left > s THEN page + 1 ELSE NULL)
      /\ (bytes_left > s => page + 1 \in 1..m) /\ s * (q + 1) = s * q + s
  BY <1>1 DEF SinkAt
<1> DEFINE piece == [i \in 1..take |-> pages[page].data[i - 1]]
<1>7. pages[page] \in PageRecord(m)
  BY <1>5, <1>6
<1>8. pages[page].data \in [0..s-1 -> Byte]
  BY <1>6, <1>7 DEF PageRecord
<1>9. piece \in Seq(Byte) /\ Len(piece) = take
      /\ \A k \in 1..take : piece[k] = pages[page].data[k - 1]
  <2>1. \A i \in 1..take : i - 1 \in 0..s-1
    BY <1>6
  <2>2. piece \in [1..take -> Byte]
    BY <1>8, <2>1
  <2>3. \A k \in 1..take : piece[k] = pages[page].data[k - 1]
    OBVIOUS
  <2> HIDE DEF piece
  <2>4. piece \in Seq(Byte) /\ Len(piece) = take
    BY <2>2
  <2> QED
    BY <2>3, <2>4
<1>10. out' = out \o piece
  BY <1>6 DEF SinkPage
<1> HIDE DEF piece
<1>11. PICK n \in Nat : n = Len(out) /\ n = s * q /\ n = size - bytes_left
  BY <1>5, <1>6, <1>4 DEF Sinking
<1> DEFINE longer == out \o piece
<1>12. /\ longer \in Seq(Byte) /\ Len(longer) = n + take
       /\ \A i \in 1..n : longer[i] = out[i]
       /\ \A i \in 1..(n + take) : i > n => longer[i] = piece[i - n]
  <2>1. out \in Seq(Byte) /\ piece \in Seq(Byte) /\ Len(out) = n /\ Len(piece) = take
    BY <1>5, <1>9, <1>11
  <2>2. /\ longer \in Seq(Byte) /\ Len(longer) = n + Len(piece)
        /\ \A i \in 1..n : longer[i] = out[i]
        /\ \A i \in 1..(n + Len(piece)) : i > n => longer[i] = piece[i - n]
    BY <2>1, Concatenated, ZenonT(40)
  <2> QED
    BY <2>1, <2>2
<1>13. out' = longer
  BY <1>10
<1> HIDE DEF longer
<1>14. PICK left \in Nat : left = bytes_left - take /\ n + take = size - left /\ left \in 0..size
  BY <1>5, <1>6, <1>11
<1>15. bytes_left' = left
  BY <1>6, <1>14 DEF SinkPage
<1>16. ASSUME NEW i \in 1..(n + take)
       PROVE  longer[i] = Contents[i]
  <2>1. CASE i <= n
    <3>1. out[i] = Contents[i]
      BY <1>4, <1>11, <2>1 DEF Sinking
    <3> QED
      BY <1>12, <2>1, <3>1
  <2>2. CASE i > n
    <3>1. PICK k \in 1..take : k = i - n /\ k - 1 \in 0..s-1
      BY <1>6, <1>11, <2>2
    <3>2. i - 1 = s * q + (k - 1)
      BY <1>11, <3>1
    <3>3. (i - 1) \div s = q /\ (i - 1) % s = k - 1
      BY <3>1, <3>2, DivisionUnique
    <3>4. i \in 1..size
      BY <1>5, <1>14
    <3>5. Contents[i] = pages[(i - 1) \div s + 1].data[(i - 1) % s]
      BY <1>5, <1>6, <3>4 DEF Bytes
    <3>6. Contents[i] = pages[page].data[k - 1]
      BY <1>6, <3>3, <3>5
    <3>7. longer[i] = piece[k]
      BY <1>12, <2>2, <3>1
    <3> QED
      BY <1>9, <3>6, <3>7
  <2> QED
    BY <1>11, <2>1, <2>2
<1>17. /\ page' \in 0..m
       /\ page' = NULL <=> left = 0
       /\ page' # NULL => size - left = s * (page' - 1)
  <2>1. CASE bytes_left > s
    <3>1. take = s
      BY <1>6, <2>1 DEF Taken
    <3>2. page' - 1 = q + 1 /\ page' # NULL /\ page' \in 1..m
      BY <1>6, <2>1 DEF NULL
    <3> QED
      BY <1>5, <1>6, <1>11, <1>14, <2>1, <3>1, <3>2
  <2>2. CASE ~(bytes_left > s)
    <3>1. take = bytes_left
      BY <1>6, <2>2 DEF Taken
    <3> QED
      BY <1>5, <1>6, <1>14, <2>2, <3>1 DEF NULL
  <2> QED
    BY <2>1, <2>2
<1>18. Sinking'
  <2>1. freed' = {}
    BY <1>2, <1>4 DEF Sinking
  <2>2. Len(out') = size' - bytes_left'
    BY <1>2, <1>12, <1>13, <1>14, <1>15
  <2>3. \A i \in 1..Len(out') : out'[i] = Contents'[i]
    BY <1>3, <1>12, <1>13, <1>16
  <2> QED
    BY <1>2, <1>6, <1>15, <1>17, <2>1, <2>2, <2>3 DEF Sinking, NULL
<1>19. TypeOK'
  <2>1. /\ phase' \in {"emit", "sink", "free", "gone", "overrun"}
        /\ page' \in 0..last_page /\ bytes_left' \in 0..size
        /\ out' \in Seq(Byte) /\ result' \in Seq(Byte) /\ freed' \subseteq 1..last_page
    BY <1>2, <1>4, <1>6, <1>12, <1>13, <1>14, <1>15, <1>17 DEF TypeOK
  <2> QED
    BY <1>2, <2>1, ReadKeeps
<1> QED
  BY <1>2, <1>3, <1>18, <1>19 DEF EmitterInv

LEMMA SinkCallReads ==
  ASSUME EmitterInv, SinkCall
  PROVE  EmitterInv'
<1>1. PICK s \in Nat \ {0}, m \in Nat :
        s = PageSize /\ m = last_page /\ size \in Nat /\ s * m \in Nat /\ m = Len(pages)
        /\ (pages # <<>> => s * m - s < size) /\ (m = 0 => size = 0)
        /\ pages \in Seq(PageRecord(m))
  BY PagesTyped
<1>2. /\ size' = size /\ UNCHANGED emitvars
      /\ phase = "emit" /\ phase' = "sink" /\ out' = out /\ result' = result /\ freed' = freed
      /\ bytes_left' = size /\ page' = IF pages = <<>> THEN NULL ELSE 1
  BY DEF SinkCall, emitvars
<1>3. page' \in 0..m /\ (page' = NULL <=> pages = <<>>)
  BY <1>1, <1>2 DEF NULL
<1>4. pages = <<>> <=> size = 0
  <2>1. CASE pages # <<>>
    <3>1. PICK d \in Nat : m = d + 1
      BY <1>1, <2>1, m - 1 \in Nat
    <3>2. s * m = s * d + s /\ s * d \in Nat
      BY <3>1
    <3> QED
      BY <1>1, <2>1, <3>2
  <2>2. CASE pages = <<>>
    BY <1>1, <2>2
  <2> QED
    BY <2>1, <2>2
<1>5. Sinking'
  <2>1. out = <<>> /\ freed = {}
    BY <1>2 DEF EmitterInv
  <2>2. Len(out') = size' - bytes_left' /\ \A i \in 1..Len(out') : out'[i] = Contents'[i]
    BY <1>1, <1>2, <2>1
  <2>3. page' # NULL => size' - bytes_left' = PageSize * (page' - 1)
    BY <1>1, <1>2, <1>3
  <2> QED
    BY <1>2, <1>3, <1>4, <2>1, <2>2, <2>3 DEF Sinking, NULL
<1>6. TypeOK'
  <2>1. /\ phase' \in {"emit", "sink", "free", "gone", "overrun"}
        /\ page' \in 0..last_page /\ bytes_left' \in 0..size
        /\ out' \in Seq(Byte) /\ result' \in Seq(Byte) /\ freed' \subseteq 1..last_page
    BY <1>1, <1>2, <1>3 DEF EmitterInv, TypeOK
  <2> QED
    BY <1>2, <2>1, ReadKeeps
<1> QED
  BY <1>2, <1>5, <1>6, ReadKeeps DEF EmitterInv

LEMMA SinkReturnReads ==
  ASSUME EmitterInv, SinkReturn
  PROVE  EmitterInv' /\ result' = Contents
<1>1. PICK m \in Nat : m = last_page /\ m = Len(pages) /\ pages \in Seq(PageRecord(m))
  BY PagesTyped
<1>2. /\ UNCHANGED emitvars /\ pages' = pages
      /\ phase = "sink" /\ phase' = "free" /\ bytes_left = 0 /\ bytes_left' = 0
      /\ out' = out /\ result' = out /\ freed' = freed
      /\ page' = (IF pages = <<>> THEN NULL ELSE 1)
  BY DEF SinkReturn, emitvars
<1>3. Sinking /\ out \in Seq(Byte) /\ size \in Nat /\ freed = {}
  BY <1>2 DEF EmitterInv, TypeOK, Sinking
<1>4. out = Contents
  <2>1. Len(out) = size
    BY <1>2, <1>3 DEF Sinking
  <2>2. Contents \in Seq(Byte) /\ Len(Contents) = size
    BY PagesTyped
  <2>3. \A i \in 1..size : out[i] = Contents[i]
    BY <1>3, <2>1 DEF Sinking
  <2> QED
    BY <1>3, <2>1, <2>2, <2>3
<1>5. last_page' = last_page /\ Filled' /\ Linked'
  BY <1>2, ReadKeeps
<1>6. page' \in 0..m /\ Freeing'
  <2>1. CASE pages = <<>>
    <3>1. m = 0 /\ 1..m = {}
      BY <1>1, <2>1
    <3>2. page' = NULL /\ freed' = 1..last_page'
      BY <1>1, <1>2, <1>3, <1>5, <2>1, <3>1
    <3> QED
      BY <3>2 DEF Freeing, NULL
  <2>2. CASE pages # <<>>
    <3>1. page' = 1 /\ 1 \in 0..m /\ page' # NULL /\ 1..page'-1 = {}
      BY <1>1, <1>2, <2>2 DEF NULL
    <3> QED
      BY <1>2, <1>3, <3>1 DEF Freeing
  <2> QED
    BY <2>1, <2>2
<1>7. TypeOK'
  <2>1. /\ phase' \in {"emit", "sink", "free", "gone", "overrun"}
        /\ page' \in 0..last_page /\ bytes_left' \in 0..size
        /\ out' \in Seq(Byte) /\ result' \in Seq(Byte) /\ freed' \subseteq 1..last_page
    BY <1>1, <1>2, <1>3, <1>6
  <2> QED
    BY <1>2, <2>1, ReadKeeps
<1> QED
  BY <1>2, <1>4, <1>5, <1>6, <1>7 DEF EmitterInv

LEMMA FreePageFrees ==
  ASSUME EmitterInv, FreePage
  PROVE  EmitterInv'
<1>1. PICK m \in Nat : m = last_page /\ m = Len(pages)
  BY PagesTyped
<1>2. /\ UNCHANGED emitvars
      /\ phase = "free" /\ phase' = phase /\ bytes_left' = bytes_left
      /\ out' = out /\ result' = result /\ freed' = freed \cup {page}
      /\ page # NULL /\ page' = pages[page].link
  BY DEF FreePage
<1>3. PICK p \in 1..m : p = page /\ freed = 1..p-1
  <2>1. page \in 1..m
    BY <1>1, <1>2 DEF EmitterInv, TypeOK, NULL
  <2>2. freed = 1..page-1
    BY <1>2 DEF EmitterInv, Freeing
  <2> QED
    BY <2>1, <2>2
<1>4. page' = (IF p < m THEN p + 1 ELSE NULL)
  BY <1>1, <1>2, <1>3 DEF EmitterInv, Linked
<1>5. freed' = 1..p
  BY <1>1, <1>2, <1>3
<1>6. last_page' = last_page /\ Filled' /\ Linked'
  BY <1>2, ReadKeeps
<1>7. page' \in 0..m /\ Freeing'
  <2>1. CASE p < m
    BY <1>1, <1>4, <1>5, <2>1 DEF Freeing, NULL
  <2>2. CASE p = m
    <3>1. page' = NULL
      BY <1>4, <2>2
    <3>2. last_page' = p
      BY <1>1, <1>6, <2>2
    <3> QED
      BY <1>5, <3>1, <3>2 DEF Freeing, NULL
  <2> QED
    BY <2>1, <2>2
<1>8. TypeOK'
  <2>1. /\ phase' \in {"emit", "sink", "free", "gone", "overrun"}
        /\ page' \in 0..last_page /\ bytes_left' \in 0..size
        /\ out' \in Seq(Byte) /\ result' \in Seq(Byte) /\ freed' \subseteq 1..last_page
    BY <1>1, <1>2, <1>5, <1>7 DEF EmitterInv, TypeOK
  <2> QED
    BY <1>2, <2>1, ReadKeeps
<1> QED
  BY <1>2, <1>6, <1>7, <1>8 DEF EmitterInv

LEMMA FreeReturnFrees ==
  ASSUME EmitterInv, FreeReturn
  PROVE  EmitterInv'
<1>1. /\ UNCHANGED emitvars /\ UNCHANGED readvars
      /\ phase = "free" /\ phase' = "gone" /\ page = NULL
  BY DEF FreeReturn
<1>2. page' = page /\ bytes_left' = bytes_left /\ out' = out /\ result' = result /\ freed' = freed
  BY <1>1 DEF readvars
<1>3. last_page' = last_page /\ Filled' /\ Linked'
  BY <1>1, ReadKeeps
<1>4. freed' = 1..last_page'
  BY <1>1, <1>2, <1>3 DEF EmitterInv, Freeing
<1>5. TypeOK'
  <2>1. /\ phase' \in {"emit", "sink", "free", "gone", "overrun"}
        /\ page' \in 0..last_page /\ bytes_left' \in 0..size
        /\ out' \in Seq(Byte) /\ result' \in Seq(Byte) /\ freed' \subseteq 1..last_page
    BY <1>1, <1>2 DEF EmitterInv, TypeOK
  <2> QED
    BY <1>1, <2>1, ReadKeeps
<1> QED
  BY <1>1, <1>3, <1>4, <1>5 DEF EmitterInv

-----------------------------------------------------------------------------
(* The invariant, and what follows from it.                                *)

LEMMA EmitterInit == Init => EmitterInv /\ data = <<>> /\ Contents = <<>> /\ result = <<>>
<1> SUFFICES ASSUME Init
             PROVE  EmitterInv /\ data = <<>> /\ Contents = <<>> /\ result = <<>>
  OBVIOUS
<1>1. /\ data = <<>> /\ pages = <<>> /\ size = 0 /\ capacity = 0 /\ phase = "emit"
      /\ page = 0 /\ bytes_left = 0 /\ out = <<>> /\ result = <<>> /\ freed = {}
  BY DEF Init, NULL
<1>2. last_page = 0
  BY <1>1 DEF last_page
<1>3. PageSize * last_page = 0 /\ PageSize \in Nat
  BY <1>2, PageAssumption
<1>4. TypeOK
  BY <1>1, <1>2, <1>3 DEF TypeOK
<1>5. Filled /\ Linked
  BY <1>1, <1>2 DEF Filled, Linked
<1>6. Contents = <<>>
  BY <1>1 DEF Contents
<1> QED
  BY <1>1, <1>4, <1>5, <1>6 DEF EmitterInv

(* What a step is to the stream.                                           *)
StreamStep == [StreamOfPages!Next]_<<data, Contents, result>>

LEMMA EmitterStep ==
  ASSUME ShortChunks, EmitterInv, [Next]_vars
  PROVE  EmitterInv' /\ StreamStep
<1>1. ASSUME NEW chunk \in Chunks, Emit(chunk)
      PROVE  EmitterInv' /\ StreamStep
  <2>1. EmitterInv' /\ Contents' = Contents \o chunk
    BY <1>1, InPageEmits, OnNewPageEmits, SplitEmits DEF Emit
  <2>2. data' = chunk /\ result' = result
    BY <1>1 DEF Emit, EmitInPage, EmitOnNewPage, EmitSplit, Emitting, readvars
  <2> QED
    BY <2>1, <2>2 DEF StreamStep, StreamOfPages!Next, StreamOfPages!Emit
<1>2. ASSUME SinkCall \/ SinkPage \/ FreePage \/ FreeReturn
      PROVE  EmitterInv' /\ StreamStep
  <2>1. EmitterInv'
    BY <1>2, SinkCallReads, SinkPageReads, FreePageFrees, FreeReturnFrees
  <2>2. data' = data /\ result' = result /\ UNCHANGED emitvars
    BY <1>2 DEF SinkCall, SinkPage, FreePage, FreeReturn, emitvars, readvars
  <2>3. Contents' = Contents
    BY <2>2, ReadKeeps
  <2> QED
    BY <2>1, <2>2, <2>3 DEF StreamStep
<1>3. ASSUME SinkReturn
      PROVE  EmitterInv' /\ StreamStep
  <2>1. EmitterInv' /\ result' = Contents
    BY <1>3, SinkReturnReads
  <2>2. data' = data /\ UNCHANGED emitvars
    BY <1>3 DEF SinkReturn, emitvars
  <2>3. Contents' = Contents
    BY <2>2, ReadKeeps
  <2> QED
    BY <2>1, <2>2, <2>3 DEF StreamStep, StreamOfPages!Next, StreamOfPages!Read
<1>4. ASSUME UNCHANGED vars
      PROVE  EmitterInv' /\ StreamStep
  <2>1. /\ UNCHANGED emitvars
        /\ data' = data /\ phase' = phase /\ page' = page /\ bytes_left' = bytes_left
        /\ out' = out /\ result' = result /\ freed' = freed
    BY <1>4 DEF vars, emitvars
  <2>2. last_page' = last_page /\ Contents' = Contents /\ Filled' /\ Linked'
    BY <2>1, ReadKeeps
  <2>3. TypeOK'
    <3>1. /\ phase' \in {"emit", "sink", "free", "gone", "overrun"}
          /\ page' \in 0..last_page /\ bytes_left' \in 0..size
          /\ out' \in Seq(Byte) /\ result' \in Seq(Byte) /\ freed' \subseteq 1..last_page
      BY <2>1 DEF EmitterInv, TypeOK
    <3> QED
      BY <2>1, <3>1, ReadKeeps
  <2>4. size' = size
    BY <2>1 DEF emitvars
  <2>5. (phase = "sink" => Sinking)' /\ (phase = "free" => Freeing)'
    BY <2>1, <2>2, <2>4 DEF EmitterInv, Sinking, Freeing
  <2>6. EmitterInv'
    BY <2>1, <2>2, <2>3, <2>5 DEF EmitterInv
  <2> QED
    BY <2>1, <2>2, <2>6 DEF StreamStep
<1> QED
  BY <1>1, <1>2, <1>3, <1>4 DEF Next, ReadBack

(* With chunks of any length up to the size of a page, however they are    *)
(* emitted and wherever a page ends, the state of the emitter is typed.    *)
THEOREM EmitterTyped ==
  ASSUME ShortChunks
  PROVE  Spec => []TypeOK
<1>1. Init => EmitterInv
  BY EmitterInit
<1>2. EmitterInv /\ [Next]_vars => EmitterInv'
  BY EmitterStep
<1>3. EmitterInv => TypeOK
  BY DEF EmitterInv
<1> QED
  BY <1>1, <1>2, <1>3, PTL DEF Spec

(* emitter_emit_buffered never writes behind the end of a page, over the   *)
(* link to the next.                                                       *)
THEOREM NeverOverruns ==
  ASSUME ShortChunks
  PROVE  Spec => []NoOverrun
<1>1. Init => EmitterInv
  BY EmitterInit
<1>2. EmitterInv /\ [Next]_vars => EmitterInv'
  BY EmitterStep
<1>3. EmitterInv => NoOverrun
  BY DEF EmitterInv, NoOverrun
<1> QED
  BY <1>1, <1>2, <1>3, PTL DEF Spec

(* When compiler_emitter_buffered_destroy returns every page has been      *)
(* freed.                                                                  *)
THEOREM AllPagesFreed ==
  ASSUME ShortChunks
  PROVE  Spec => []EveryPageFreed
<1>1. Init => EmitterInv
  BY EmitterInit
<1>2. EmitterInv /\ [Next]_vars => EmitterInv'
  BY EmitterStep
<1>3. EmitterInv => EveryPageFreed
  BY DEF EmitterInv, EveryPageFreed
<1> QED
  BY <1>1, <1>2, <1>3, PTL DEF Spec

(* What is read back with compiler_emitter_sink is what was emitted, byte  *)
(* for byte and in that order: the emitter implements a stream.            *)
THEOREM EmitterIsStream ==
  ASSUME ShortChunks
  PROVE  Spec => StreamImplemented
<1>1. Init => EmitterInv /\ StreamOfPages!Init
  BY EmitterInit DEF StreamOfPages!Init
<1>2. EmitterInv /\ [Next]_vars => EmitterInv' /\ [StreamOfPages!Next]_StreamOfPages!vars
  BY EmitterStep DEF StreamStep, StreamOfPages!vars
<1> QED
  BY <1>1, <1>2, PTL DEF Spec, StreamImplemented, StreamOfPages!Spec
=============================================================================
