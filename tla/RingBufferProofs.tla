-------------------------- MODULE RingBufferProofs --------------------------
(***************************************************************************)
(* The ring buffer for every page size, number of pages and set of samples *)
(* (RingBuffer), and every client: the writers may write anything and      *)
(* SMON_IOCREAD may carry any numbers.                                     *)
(***************************************************************************)
EXTENDS RingBuffer, TLAPS

-----------------------------------------------------------------------------
(* Arithmetic of the circular buffer.                                      *)

\* The buffer has a positive number of words.
LEMMA SizePositive == Size \in Nat \ {0} /\ PageSize \in Nat \ {0} /\ Size >= PageSize
BY ConstantsAssumption DEF Size

\* The masks of rb.c on the arguments they are called with: a position stays,
\* or one turn of the buffer is subtracted or added.
LEMMA TrimNone == ASSUME NEW S \in Nat \ {0}, NEW x \in 0 .. S - 1
                  PROVE  x % S = x
OBVIOUS

LEMMA TrimOver == ASSUME NEW S \in Nat \ {0}, NEW x \in S .. 2 * S - 1
                  PROVE  x % S = x - S
OBVIOUS

LEMMA TrimUnder == ASSUME NEW S \in Nat \ {0}, NEW x \in -S .. -1
                   PROVE  x % S = x + S
OBVIOUS

\* A page boundary has offset 0.
LEMMA PageBoundary == ASSUME NEW q \in Nat, NEW S \in Nat \ {0}
                      PROVE  (q * S) % S = 0
OBVIOUS

\* RB_COUNT without the mask.
LEMMA Count ==
  ASSUME NEW h \in Positions, NEW t \in Positions
  PROVE  RB_COUNT(h, t) = IF h >= t THEN h - t ELSE h - t + Size
<1>1. h - t \in -Size .. Size - 1 /\ Size \in Nat \ {0} /\ h \in Int /\ t \in Int
  BY SizePositive DEF Positions
<1>2. CASE h >= t
  <2>1. h - t \in 0 .. Size - 1
    BY <1>1, <1>2
  <2> QED  BY <2>1, <1>1, <1>2 DEF RB_COUNT
<1>3. CASE h < t
  <2>1. h - t \in -Size .. -1
    BY <1>1, <1>3
  <2> QED  BY <2>1, <1>1, <1>3 DEF RB_COUNT
<1> QED  BY <1>1, <1>2, <1>3

LEMMA CountType ==
  ASSUME NEW h \in Positions, NEW t \in Positions
  PROVE  RB_COUNT(h, t) \in Int /\ RB_COUNT(h, t) \in 0 .. Size - 1
BY Count, SizePositive DEF Positions

\* RB_SPACE without the mask: one word always stays free.
LEMMA Space ==
  ASSUME NEW h \in Positions, NEW t \in Positions
  PROVE  RB_SPACE(h, t) = Size - 1 - RB_COUNT(h, t)
<1>1. t - (h + 1) \in -Size .. Size - 1
  BY SizePositive DEF Positions
<1>2. CASE t >= h + 1
  <2>1. t - (h + 1) \in 0 .. Size - 1
    BY <1>1, <1>2, SizePositive DEF Positions
  <2>2. (t - (h + 1)) % Size = t - (h + 1)
    BY <2>1, SizePositive, TrimNone
  <2> QED  BY <2>2, <1>2, Count, SizePositive DEF RB_SPACE, RB_COUNT, Positions
<1>3. CASE t < h + 1
  <2>1. t - (h + 1) \in -Size .. -1
    BY <1>1, <1>3, SizePositive DEF Positions
  <2>2. (t - (h + 1)) % Size = t - (h + 1) + Size
    BY <2>1, SizePositive, TrimUnder
  <2> QED  BY <2>2, <1>3, Count, SizePositive DEF RB_SPACE, RB_COUNT, Positions
<1> QED  BY <1>2, <1>3, SizePositive DEF Positions

\* Page and offset of a position.
LEMMA PageOf ==
  ASSUME NEW h \in Positions
  PROVE  /\ HEAD_PAGE(h) \in 0 .. NPages - 1
         /\ HEAD_OFFSET(h) \in 0 .. PageSize - 1
         /\ h = HEAD_PAGE(h) * PageSize + HEAD_OFFSET(h)
<1>1. h \in Nat /\ h < NPages * PageSize /\ PageSize \in Nat \ {0} /\ NPages \in Nat \ {0, 1}
  BY ConstantsAssumption DEF Positions, Size
<1>2. HEAD_OFFSET(h) \in 0 .. PageSize - 1
  BY <1>1 DEF HEAD_OFFSET
<1>3. h = HEAD_PAGE(h) * PageSize + HEAD_OFFSET(h)
  BY <1>1 DEF HEAD_PAGE, HEAD_OFFSET
<1>4. HEAD_PAGE(h) \in 0 .. NPages - 1
  BY <1>1 DEF HEAD_PAGE
<1> QED  BY <1>2, <1>3, <1>4

\* Stuffing a page moves head to the next page boundary, around the end of the
\* buffer if need be.
LEMMA Stuffed ==
  ASSUME NEW h \in Positions
  PROVE  /\ StuffedHead(h) \in Positions
         /\ RB_PAGE_SPACE(h) \in 1 .. PageSize
         /\ StuffedHead(h) = (h + RB_PAGE_SPACE(h)) % Size
         /\ HEAD_OFFSET(StuffedHead(h)) = 0
<1> DEFINE q == HEAD_PAGE(h)
           r == HEAD_OFFSET(h)
<1>1. q \in 0 .. NPages - 1 /\ r \in 0 .. PageSize - 1 /\ h = q * PageSize + r
  BY PageOf
<1>2. NPages \in Nat \ {0, 1} /\ PageSize \in Nat \ {0} /\ Size \in Nat \ {0}
  BY ConstantsAssumption, SizePositive
<1>3. RB_PAGE_SPACE(h) \in 1 .. PageSize /\ h + RB_PAGE_SPACE(h) = q * PageSize + PageSize
  BY <1>1, <1>2 DEF RB_PAGE_SPACE
<1>4. q * PageSize + PageSize = (q + 1) * PageSize
  BY <1>1, <1>2
<1>5. CASE q < NPages - 1
  <2>1. RB_NEXT_PAGE(q) = q + 1
    BY <1>1, <1>2, <1>5, TrimNone DEF RB_NEXT_PAGE
  <2>2. StuffedHead(h) = (q + 1) * PageSize
    BY <2>1 DEF StuffedHead
  <2>3. q + 1 \in 0 .. NPages - 1 /\ (q + 1) * PageSize \in 0 .. Size - 1
    BY <1>1, <1>2, <1>5 DEF Size
  <2>4. ((q + 1) * PageSize) % Size = (q + 1) * PageSize
    BY <2>3, <1>2, TrimNone
  <2>5. ((q + 1) * PageSize) % PageSize = 0
    BY <2>3, <1>2, PageBoundary
  <2> QED  BY <2>2, <2>3, <2>4, <2>5, <1>3, <1>4 DEF Positions, HEAD_OFFSET
<1>6. CASE q = NPages - 1
  <2>1. RB_NEXT_PAGE(q) = 0
    BY <1>1, <1>2, <1>6, TrimOver DEF RB_NEXT_PAGE
  <2>2. StuffedHead(h) = 0
    BY <2>1, <1>2 DEF StuffedHead
  <2>3. (q + 1) * PageSize = Size
    BY <1>1, <1>2, <1>6 DEF Size
  <2>4. Size % Size = 0 /\ 0 % PageSize = 0
    BY <1>2
  <2> QED  BY <2>2, <2>3, <2>4, <1>2, <1>3, <1>4 DEF Positions, HEAD_OFFSET
<1> QED  BY <1>1, <1>2, <1>5, <1>6

\* Moving a position forward by n words that are free adds n to the count.
LEMMA Advance ==
  ASSUME NEW h \in Positions, NEW t \in Positions, NEW n \in Nat,
         n <= RB_SPACE(h, t)
  PROVE  /\ HEAD_TRIM_PAGE(h + n) \in Positions
         /\ RB_COUNT(HEAD_TRIM_PAGE(h + n), t) = RB_COUNT(h, t) + n
<1>1. Size \in Nat \ {0} /\ n \in 0 .. Size - 1
  BY SizePositive, Space, Count DEF Positions
<1>2. HEAD_TRIM_PAGE(h + n) = IF h + n < Size THEN h + n ELSE h + n - Size
  <2>1. CASE h + n < Size
    BY <2>1, <1>1, TrimNone DEF HEAD_TRIM_PAGE, Positions
  <2>2. CASE h + n >= Size
    BY <2>2, <1>1, TrimOver DEF HEAD_TRIM_PAGE, Positions
  <2> QED  BY <2>1, <2>2, <1>1 DEF Positions
<1>3. HEAD_TRIM_PAGE(h + n) \in Positions
  BY <1>1, <1>2 DEF Positions
<1>4. RB_COUNT(h, t) + n <= Size - 1
  BY <1>1, Space, Count DEF Positions
<1>5. RB_COUNT(HEAD_TRIM_PAGE(h + n), t) = RB_COUNT(h, t) + n
  <2> DEFINE g == HEAD_TRIM_PAGE(h + n)
  <2>1. g \in Positions /\ g = IF h + n < Size THEN h + n ELSE h + n - Size
    BY <1>2, <1>3
  <2> HIDE DEF g
  <2>2. RB_COUNT(g, t) = IF g >= t THEN g - t ELSE g - t + Size
    BY <2>1, Count
  <2>3. RB_COUNT(h, t) = IF h >= t THEN h - t ELSE h - t + Size
    BY Count
  <2>4. RB_COUNT(g, t) = RB_COUNT(h, t) + n
    BY <2>1, <2>2, <2>3, <1>1, <1>4 DEF Positions
  <2> QED  BY <2>4 DEF g
<1> QED  BY <1>3, <1>5

-----------------------------------------------------------------------------
(* What one call of smon_rb_write does.                                    *)

\* Every record fits in a page, and has a header.
LEMMA RecordSize ==
  ASSUME NEW type \in RecordTypes
  PROVE  total_size(type) \in 1 .. PageSize
BY ConstantsAssumption DEF RecordTypes, total_size

\* The unread words are those closer to tail than head is, all of them before
\* the words a record of n words at h takes.
LEMMA WordsAreFree ==
  ASSUME NEW h \in Positions, NEW t \in Positions, NEW n \in Nat \ {0},
         n <= RB_SPACE(h, t), n <= RB_PAGE_SPACE(h),
         NEW p \in h .. h + n - 1
  PROVE  p \in Positions /\ RB_COUNT(p, t) >= RB_COUNT(h, t)
<1>1. h + n <= Size
  <2>1. HEAD_PAGE(h) \in 0 .. NPages - 1 /\ h = HEAD_PAGE(h) * PageSize + HEAD_OFFSET(h)
        /\ HEAD_OFFSET(h) \in 0 .. PageSize - 1
    BY PageOf
  <2>2. h + n <= HEAD_PAGE(h) * PageSize + PageSize
    BY <2>1, ConstantsAssumption DEF RB_PAGE_SPACE
  <2>3. HEAD_PAGE(h) * PageSize + PageSize <= NPages * PageSize
    BY <2>1, ConstantsAssumption
  <2>4. NPages * PageSize \in Nat /\ HEAD_PAGE(h) * PageSize \in Nat
    BY <2>1, ConstantsAssumption
  <2> QED  BY <2>1, <2>2, <2>3, <2>4, ConstantsAssumption DEF Size, Positions
<1>2. PICK j \in 0 .. n - 1 : p = h + j
  <2>1. p - h \in 0 .. n - 1 /\ p = h + (p - h)
    BY SizePositive DEF Positions
  <2> QED  BY <2>1
<1>3. p \in Positions
  BY <1>1, SizePositive DEF Positions
<1>4. HEAD_TRIM_PAGE(h + j) = p
  BY <1>2, <1>3, SizePositive, TrimNone DEF HEAD_TRIM_PAGE, Positions
<1>5. j \in Nat /\ j <= RB_SPACE(h, t)
  BY <1>2, Space, Count, SizePositive DEF Positions
<1>6. RB_COUNT(HEAD_TRIM_PAGE(h + j), t) = RB_COUNT(h, t) + j
  BY <1>5, Advance
<1>7. RB_COUNT(h, t) \in Int
  BY Count, SizePositive DEF Positions
<1> QED  BY <1>3, <1>4, <1>5, <1>6, <1>7

\* Storing a record at a free place: the unread region grows by the record, its
\* words stay as they are, and only the first word becomes a header.
LEMMA StoreEffect ==
  ASSUME NEW m \in [Positions -> Cells], NEW h \in Positions, NEW type \in RecordTypes,
         tail \in Positions, items \in 0 .. seq, irq \in BOOLEAN, seq \in Nat,
         total_size(type) <= RB_SPACE(h, tail),
         total_size(type) <= RB_PAGE_SPACE(h),
         Store(m, h, type)
  PROVE  /\ RbTypeOK'
         /\ RB_COUNT(head', tail) > RB_COUNT(h, tail)
         /\ \A p \in Positions : RB_COUNT(p, tail) < RB_COUNT(h, tail) => mem'[p] = m[p]
         /\ \A p \in Positions : mem'[p].type \in RecordTypes =>
               mem'[p] = m[p] \/ (p = h /\ mem'[p].type = type)
<1> DEFINE n == total_size(type)
<1>1. n \in 1 .. PageSize /\ PageSize \in Nat
  BY RecordSize, SizePositive
<1>2. head' \in Positions /\ RB_COUNT(head', tail) = RB_COUNT(h, tail) + n
  BY <1>1, Advance DEF Store
<1>3. RB_COUNT(h, tail) \in Int
  BY Count, SizePositive DEF Positions
<1>4. /\ tail' = tail /\ items' = items + 1 /\ seq' = seq + 1
      /\ irq' = (irq \/ items + 1 >= Batch)
      /\ mem' = Stored(m, h, type, n, seq + 1)
  BY DEF Store
<1>5. /\ type \in CellTypes /\ BODY \in CellTypes
      /\ \A c \in Nat, ct \in CellTypes : [type |-> ct, id |-> c] \in Cells
  BY DEF CellTypes, Cells
<1>6. \A p \in Positions :
        mem'[p] = IF p = h THEN [type |-> type, id |-> seq + 1]
                  ELSE IF p \in h + 1 .. h + n - 1 THEN [type |-> BODY, id |-> seq + 1]
                  ELSE m[p]
  BY <1>4 DEF Stored
<1>7. mem' \in [Positions -> Cells]
  <2>1. seq + 1 \in Nat
    OBVIOUS
  <2>2. \A p \in Positions : m[p] \in Cells
    OBVIOUS
  <2>3. \A p \in Positions :
          (IF p = h THEN [type |-> type, id |-> seq + 1]
           ELSE IF p \in h + 1 .. h + n - 1 THEN [type |-> BODY, id |-> seq + 1]
           ELSE m[p]) \in Cells
    BY <2>1, <2>2, <1>5
  <2> QED  BY <2>3, <1>4 DEF Stored
<1>8. RbTypeOK'
  <2>1. items' \in 0 .. seq' /\ seq' \in Nat
    BY <1>4
  <2>2. irq' \in BOOLEAN
    BY <1>4
  <2> QED  BY <1>2, <1>4, <1>7, <2>1, <2>2 DEF RbTypeOK, Positions
<1>9. ASSUME NEW p \in Positions, RB_COUNT(p, tail) < RB_COUNT(h, tail)
      PROVE  mem'[p] = m[p]
  <2>1. p \notin h .. h + n - 1
    <3>1. SUFFICES ASSUME p \in h .. h + n - 1 PROVE FALSE
      OBVIOUS
    <3>2. RB_COUNT(p, tail) >= RB_COUNT(h, tail)
      BY <1>1, <3>1, WordsAreFree
    <3>3. RB_COUNT(p, tail) \in Int
      BY Count, SizePositive DEF Positions
    <3> QED  BY <3>2, <3>3, <1>3, <1>9
  <2>2. p # h /\ p \notin h + 1 .. h + n - 1
    BY <2>1, <1>1, SizePositive DEF Positions
  <2> QED  BY <2>2, <1>6
<1>10. ASSUME NEW p \in Positions, mem'[p].type \in RecordTypes
       PROVE  mem'[p] = m[p] \/ (p = h /\ mem'[p].type = type)
  <2>1. BODY \notin RecordTypes
    BY ConstantsAssumption DEF RecordTypes, EOF, BODY
  <2> QED  BY <2>1, <1>6, <1>10
<1> QED  BY <1>1, <1>2, <1>3, <1>8, <1>9, <1>10

\* Stuffing a page touches the word at head only, and head does not reach tail.
LEMMA StuffEffect ==
  ASSUME RbTypeOK, NEW type \in RecordTypes,
         total_size(type) <= RB_SPACE(head, tail),
         total_size(type) > RB_PAGE_SPACE(head)
  PROVE  /\ Padded(mem, head) \in [Positions -> Cells]
         /\ StuffedHead(head) \in Positions
         /\ RB_COUNT(StuffedHead(head), tail) > RB_COUNT(head, tail)
         /\ RB_PAGE_SPACE(StuffedHead(head)) = PageSize
         /\ \A p \in Positions : p # head => Padded(mem, head)[p] = mem[p]
         /\ Padded(mem, head)[head].type = PAD
<1>1. head \in Positions /\ tail \in Positions /\ mem \in [Positions -> Cells] /\ seq \in Nat
  BY DEF RbTypeOK
<1>2. [type |-> PAD, id |-> seq] \in Cells
  BY <1>1 DEF Cells, CellTypes
<1>3. /\ StuffedHead(head) \in Positions
      /\ RB_PAGE_SPACE(head) \in 1 .. PageSize
      /\ StuffedHead(head) = HEAD_TRIM_PAGE(head + RB_PAGE_SPACE(head))
      /\ HEAD_OFFSET(StuffedHead(head)) = 0
  BY <1>1, Stuffed DEF HEAD_TRIM_PAGE
<1>4. RB_PAGE_SPACE(head) \in Nat /\ RB_PAGE_SPACE(head) <= RB_SPACE(head, tail)
  <2>1. total_size(type) \in Int /\ RB_SPACE(head, tail) \in Int
    BY <1>1, RecordSize, Space, CountType, SizePositive
  <2> QED  BY <1>3, <2>1
<1>5. RB_COUNT(StuffedHead(head), tail) = RB_COUNT(head, tail) + RB_PAGE_SPACE(head)
  BY <1>1, <1>3, <1>4, Advance
<1>6. RB_COUNT(head, tail) \in Int
  BY <1>1, CountType
<1>7. RB_COUNT(StuffedHead(head), tail) > RB_COUNT(head, tail)
  BY <1>3, <1>5, <1>6
<1>8. RB_PAGE_SPACE(StuffedHead(head)) = PageSize
  BY <1>3, SizePositive DEF RB_PAGE_SPACE
<1>9. Padded(mem, head) \in [Positions -> Cells]
  BY <1>1, <1>2 DEF Padded
<1>10. /\ \A p \in Positions : p # head => Padded(mem, head)[p] = mem[p]
       /\ Padded(mem, head)[head].type = PAD
  BY <1>1 DEF Padded
<1> QED  BY <1>3, <1>7, <1>8, <1>9, <1>10

\* A call of smon_rb_write, whichever way it goes.
LEMMA WriteEffect ==
  ASSUME RbTypeOK, NEW type \in RecordTypes, smon_rb_write(type)
  PROVE  /\ RbTypeOK'
         /\ tail' = tail
         /\ RB_COUNT(head', tail) >= RB_COUNT(head, tail)
         /\ NoOverwriteStep
         /\ InOnePage => InOnePage'
<1>1. /\ head \in Positions /\ tail \in Positions /\ items \in 0 .. seq
      /\ mem \in [Positions -> Cells] /\ irq \in BOOLEAN /\ seq \in Nat
  BY DEF RbTypeOK
<1>2. RB_COUNT(head, tail) \in Int /\ \A p \in Positions : RB_COUNT(p, tail) \in Int
  BY <1>1, CountType
<1>3. total_size(type) \in 1 .. PageSize /\ PageSize \in Nat
  BY RecordSize, SizePositive
<1>4. CASE WriteNoSpace(type)
  BY <1>1, <1>2, <1>4 DEF WriteNoSpace, rbVars, RbTypeOK, NoOverwriteStep, InOnePage
<1>5. CASE WriteInPage(type)
  <2>1. /\ RbTypeOK'
        /\ RB_COUNT(head', tail) > RB_COUNT(head, tail)
        /\ \A p \in Positions : RB_COUNT(p, tail) < RB_COUNT(head, tail) => mem'[p] = mem[p]
        /\ \A p \in Positions : mem'[p].type \in RecordTypes =>
              mem'[p] = mem[p] \/ (p = head /\ mem'[p].type = type)
    BY <1>1, <1>5, StoreEffect DEF WriteInPage
  <2>2. tail' = tail
    BY <1>5 DEF WriteInPage, Store
  <2>3. RB_COUNT(head', tail) \in Int
    BY <2>1, <1>2 DEF RbTypeOK
  <2>4. NoOverwriteStep
    BY <2>1 DEF NoOverwriteStep, Unread
  <2>5. HEAD_OFFSET(head) + total_size(type) <= PageSize
    BY <1>1, <1>3, <1>5, PageOf DEF WriteInPage, RB_PAGE_SPACE
  <2>6. InOnePage => InOnePage'
    BY <2>1, <2>5 DEF InOnePage
  <2> QED  BY <2>1, <2>2, <2>3, <2>4, <2>6, <1>2
<1>6. CASE WriteNextPage(type)
  <2> DEFINE m == Padded(mem, head)
             h == StuffedHead(head)
  <2>1. /\ m \in [Positions -> Cells]
        /\ h \in Positions
        /\ RB_COUNT(h, tail) > RB_COUNT(head, tail)
        /\ RB_PAGE_SPACE(h) = PageSize
        /\ \A p \in Positions : p # head => m[p] = mem[p]
        /\ m[head].type = PAD
    BY <1>6, StuffEffect DEF WriteNextPage
  <2>2. total_size(type) <= RB_SPACE(h, tail) /\ Store(m, h, type)
    BY <1>6 DEF WriteNextPage
  <2> HIDE DEF m, h
  <2>3. /\ RbTypeOK'
        /\ RB_COUNT(head', tail) > RB_COUNT(h, tail)
        /\ \A p \in Positions : RB_COUNT(p, tail) < RB_COUNT(h, tail) => mem'[p] = m[p]
        /\ \A p \in Positions : mem'[p].type \in RecordTypes =>
              mem'[p] = m[p] \/ (p = h /\ mem'[p].type = type)
    BY <1>1, <1>3, <2>1, <2>2, StoreEffect
  <2>4. tail' = tail
    BY <2>2 DEF Store
  <2>5. RB_COUNT(head', tail) \in Int /\ RB_COUNT(h, tail) \in Int
    BY <2>1, <2>3, <1>2 DEF RbTypeOK
  <2>6. NoOverwriteStep
    <3>1. SUFFICES ASSUME NEW p \in Positions, RB_COUNT(p, tail) < RB_COUNT(head, tail)
                   PROVE  mem'[p] = mem[p]
      BY DEF NoOverwriteStep, Unread
    <3>2. p # head /\ RB_COUNT(p, tail) < RB_COUNT(h, tail)
      BY <3>1, <1>1, <1>2, <2>1, <2>5
    <3> QED  BY <3>2, <2>1, <2>3
  <2>7. HEAD_OFFSET(h) + total_size(type) <= PageSize
    BY <1>3, <2>1, PageOf DEF RB_PAGE_SPACE
  <2>8. PAD \notin RecordTypes
    BY ConstantsAssumption DEF RecordTypes, PAD, EOF
  <2>9. InOnePage => InOnePage'
    BY <2>1, <2>3, <2>7, <2>8 DEF InOnePage
  <2> QED  BY <2>1, <2>3, <2>4, <2>5, <2>6, <2>9, <1>2
<1>7. CASE WriteStuffOnly(type)
  <2>1. /\ Padded(mem, head) \in [Positions -> Cells]
        /\ StuffedHead(head) \in Positions
        /\ RB_COUNT(StuffedHead(head), tail) > RB_COUNT(head, tail)
        /\ \A p \in Positions : p # head => Padded(mem, head)[p] = mem[p]
        /\ Padded(mem, head)[head].type = PAD
    BY <1>7, StuffEffect DEF WriteStuffOnly
  <2>2. /\ head' = StuffedHead(head) /\ mem' = Padded(mem, head)
        /\ tail' = tail /\ items' = items /\ irq' = irq /\ seq' = seq
    BY <1>7 DEF WriteStuffOnly
  <2>3. RbTypeOK'
    BY <1>1, <2>1, <2>2 DEF RbTypeOK
  <2>4. NoOverwriteStep
    BY <1>2, <2>1, <2>2 DEF NoOverwriteStep, Unread
  <2>5. PAD \notin RecordTypes
    BY ConstantsAssumption DEF RecordTypes, PAD, EOF
  <2>6. InOnePage => InOnePage'
    BY <2>1, <2>2, <2>5 DEF InOnePage
  <2> QED  BY <1>2, <2>1, <2>2, <2>3, <2>4, <2>6
<1> QED  BY <1>4, <1>5, <1>6, <1>7 DEF smon_rb_write

-----------------------------------------------------------------------------
(* The theorems.                                                           *)

\* smon_rb_read keeps the types: whatever numbers the ioctl carries, tail stays a
\* position of the buffer and items does not go below zero.
LEMMA ReadType ==
  ASSUME RbTypeOK, NEW n \in Nat, NEW sz \in Nat, smon_rb_read(n, sz)
  PROVE  RbTypeOK' /\ mem' = mem
<1>1. /\ head \in Positions /\ tail \in Positions /\ items \in 0 .. seq
      /\ mem \in [Positions -> Cells] /\ irq \in BOOLEAN /\ seq \in Nat
  BY DEF RbTypeOK
<1>2. head' = head /\ mem' = mem /\ irq' = irq /\ seq' = seq
  BY DEF smon_rb_read
<1>3. tail' \in Positions
  <2>1. (tail + sz) % Size \in 0 .. Size - 1
    BY <1>1, SizePositive DEF Positions
  <2> QED  BY <1>1, <2>1 DEF smon_rb_read, HEAD_TRIM_PAGE, Positions
<1>4. items' \in 0 .. seq'
  BY <1>1, <1>2 DEF smon_rb_read
<1> QED  BY <1>1, <1>2, <1>3, <1>4 DEF RbTypeOK

\* The initial state of smon_create_rb.
LEMMA InitType == RbInit => RbTypeOK /\ InOnePage
<1> SUFFICES ASSUME RbInit PROVE RbTypeOK /\ InOnePage
  OBVIOUS
<1>1. 0 \in Positions
  BY SizePositive DEF Positions
<1>2. [type |-> GARBAGE, id |-> 0] \in Cells
  BY DEF Cells, CellTypes
<1>3. GARBAGE \notin RecordTypes
  BY ConstantsAssumption DEF RecordTypes, GARBAGE, EOF
<1>4. RbTypeOK
  <2>1. mem \in [Positions -> Cells] /\ items \in 0 .. seq
    BY <1>2 DEF RbInit
  <2> QED  BY <1>1, <2>1 DEF RbInit, RbTypeOK
<1>5. InOnePage
  BY <1>3 DEF RbInit, InOnePage
<1> QED  BY <1>4, <1>5

\* One step of any client.
LEMMA RbStep ==
  ASSUME RbTypeOK, [RbNext]_rbVars
  PROVE  /\ RbTypeOK'
         /\ InOnePage => InOnePage'
         /\ NoOverwriteStep
         /\ tail' = tail => RB_COUNT(head', tail) >= RB_COUNT(head, tail)
<1>0. RB_COUNT(head, tail) \in Int
  BY CountType DEF RbTypeOK
<1>1. CASE RbWrite
  BY <1>1, WriteEffect DEF RbWrite
<1>2. CASE RbRead
  <2>1. PICK n \in Nat, sz \in Nat : smon_rb_read(n, sz)
    BY <1>2 DEF RbRead
  <2>2. RbTypeOK' /\ mem' = mem
    BY <2>1, ReadType
  <2>3. head' = head
    BY <2>1 DEF smon_rb_read
  <2> QED  BY <2>2, <2>3, <1>0 DEF InOnePage, NoOverwriteStep
<1>3. CASE smon_wake_up_reader
  <2>1. /\ head' = head /\ tail' = tail /\ items' = items /\ mem' = mem /\ seq' = seq
        /\ irq' \in BOOLEAN
    BY <1>3 DEF smon_wake_up_reader
  <2> QED  BY <2>1, <1>0 DEF RbTypeOK, InOnePage, NoOverwriteStep
<1>4. CASE irq_work_queue
  <2>1. /\ head' = head /\ tail' = tail /\ items' = items /\ mem' = mem /\ seq' = seq
        /\ irq' \in BOOLEAN
    BY <1>4 DEF irq_work_queue
  <2> QED  BY <2>1, <1>0 DEF RbTypeOK, InOnePage, NoOverwriteStep
<1>5. CASE UNCHANGED rbVars
  BY <1>5, <1>0 DEF rbVars, RbTypeOK, InOnePage, NoOverwriteStep
<1> QED  BY <1>1, <1>2, <1>3, <1>4, <1>5 DEF RbNext

\* Types: head and tail stay positions of the buffer and items never exceeds the
\* samples accepted, for every client and every number SMON_IOCREAD carries.
THEOREM RbTypeCorrect == RbSpec => []RbTypeOK
<1>1. RbInit => RbTypeOK
  BY InitType
<1>2. RbTypeOK /\ [RbNext]_rbVars => RbTypeOK'
  BY RbStep
<1> QED  BY <1>1, <1>2, PTL DEF RbSpec

\* smon_rb_write never writes past the end of a page: every record header in the
\* pages starts a record that ends in the same page.
THEOREM RecordsStayInPage == RbSpec => []InOnePage
<1>1. RbInit => InOnePage
  BY InitType
<1>2. RbTypeOK /\ InOnePage /\ [RbNext]_rbVars => InOnePage'
  BY RbStep
<1> QED  BY <1>1, <1>2, RbTypeCorrect, PTL DEF RbSpec

\* No step changes a word the reader has not returned, so the reader of the mapped
\* pages needs no lock.
THEOREM UnreadNeverOverwritten == RbSpec => NoOverwrite
<1>1. RbTypeOK /\ [RbNext]_rbVars => [NoOverwriteStep]_rbVars
  BY RbStep
<1> QED  BY <1>1, RbTypeCorrect, PTL DEF RbSpec, NoOverwrite

\* head never runs into tail: a write never takes a word out of the unread region.
THEOREM HeadNeverPassesTail == RbSpec => WriteGrows
<1>1. RbTypeOK /\ [RbNext]_rbVars => [WriteGrowsStep]_rbVars
  <2>1. SUFFICES ASSUME RbTypeOK, [RbNext]_rbVars, tail' = tail,
                        NEW p \in Positions, RB_COUNT(p, tail) < RB_COUNT(head, tail)
                 PROVE  RB_COUNT(p, tail) < RB_COUNT(head', tail)
    BY DEF WriteGrowsStep, Unread
  <2>2. RbTypeOK' /\ RB_COUNT(head', tail) >= RB_COUNT(head, tail)
    BY <2>1, RbStep
  <2>3. /\ RB_COUNT(p, tail) \in Int /\ RB_COUNT(head, tail) \in Int
        /\ RB_COUNT(head', tail) \in Int
    BY <2>1, <2>2, CountType DEF RbTypeOK
  <2> QED  BY <2>1, <2>2, <2>3
<1> QED  BY <1>1, RbTypeCorrect, PTL DEF RbSpec, WriteGrows

=============================================================================
