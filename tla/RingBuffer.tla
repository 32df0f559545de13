----------------------------- MODULE RingBuffer -----------------------------
(***************************************************************************)
(* The sample ring buffer of the driver (src/driver/rb.c): the writing     *)
(* position head, the reading position tail, the number of samples items,  *)
(* the data pages and the irq_work that wakes the reader.                  *)
(*                                                                         *)
(* Positions are counted in words of four bytes, the size of a sample      *)
(* header (struct smon_sample_header).  Every sample size and the page     *)
(* size are multiples of four, so head and tail always are, and the byte   *)
(* test  total_size > RB_SPACE(rb)  is exactly the word test written here: *)
(* 4t > 4k - 1 and t > k - 1 are the same condition.                       *)
(*                                                                         *)
(* The data pages are one array mem of cells.  A cell is the first word of *)
(* a record (its header, whose type is readable), a word of a sample's     *)
(* body, or a word that no record was written to (the pages come from      *)
(* __get_free_pages and are not cleared).  Each accepted sample carries    *)
(* its number id, so that properties can tell samples apart; the C code    *)
(* has no such number.                                                     *)
(*                                                                         *)
(* smon_rb_write and smon_rb_read hold rb->lock from their first access to *)
(* rb to their last, so each is one action.                                *)
(***************************************************************************)
EXTENDS Integers

CONSTANTS
  PageSize,     \* words in a page (1024 in the code)
  NPages,       \* rb->n_pages, a power of two, at least 2 (smon_mmap)
  SampleTypes,  \* the SAMPLE_TYPE_* that carry a sample
  TotalSize,    \* SampleTypes -> words of header and sample together
  Batch         \* rb->batch

PAD     == "PAD"
EOF     == "EOF"
BODY    == "BODY"
GARBAGE == "GARBAGE"

\* A record is never larger than a page (the largest, PMC, has 100 bytes),
\* and carries at least one word behind its header.
ASSUME ConstantsAssumption ==
  /\ PageSize \in Nat \ {0}
  /\ NPages \in Nat \ {0, 1}
  /\ TotalSize \in [SampleTypes -> 2 .. PageSize]
  /\ SampleTypes \cap {PAD, EOF, BODY, GARBAGE} = {}
  /\ Batch \in Nat \ {0}

Size      == NPages * PageSize
Positions == 0 .. Size - 1

\* What smon_rb_write accepts: the samples and the end-of-file header.
RecordTypes == SampleTypes \cup {EOF}
CellTypes   == RecordTypes \cup {PAD, BODY, GARBAGE}
Cells       == [type : CellTypes, id : Nat]

VARIABLES
  head,   \* rb->head
  tail,   \* rb->tail
  items,  \* rb->items
  mem,    \* the words of rb->data
  irq,    \* rb->irq is queued
  seq     \* number of the last accepted sample (not in the code)

rbVars == <<head, tail, items, mem, irq, seq>>

-----------------------------------------------------------------------------
(* The macros of rb.c.                                                     *)

HEAD_PAGE(h)   == h \div PageSize
HEAD_OFFSET(h) == h % PageSize

RB_COUNT(h, t) == (h - t) % Size

\* Faulty variants of the two space computations.
RB_SPACE_NoGap(h, t)      == ((t - h - 1) % Size) + 1
RB_SPACE_NoTail(h, t)     == Size - 1
RB_PAGE_SPACE_OffByOne(h)  == PageSize - HEAD_OFFSET(h) + 1

RB_SPACE(h, t)   == RB_COUNT(t, h + 1)
RB_PAGE_SPACE(h) == PageSize - HEAD_OFFSET(h)

\* HEAD_TRIM_PAGE: the mask of a power-of-two buffer is a remainder.
HEAD_TRIM_PAGE(h) == h % Size

RB_NEXT_PAGE(page) == (page + 1) % NPages

\* The head after smon_rb_stuff_page.
StuffedHead(h) == RB_NEXT_PAGE(HEAD_PAGE(h)) * PageSize

\* header_size + sample_size
total_size(type) == IF type = EOF THEN 1 ELSE TotalSize[type]

smon_rb_batch_available_OffByOne == items + 1 >= Batch

smon_rb_is_empty        == RB_COUNT(head, tail) = 0
smon_rb_batch_available == items >= Batch

-----------------------------------------------------------------------------
(* smon_rb_write, one disjunct for each way through it.                    *)

\* The PAD header that smon_rb_stuff_page writes at h.
Padded(m, h) == [m EXCEPT ![h] = [type |-> PAD, id |-> seq]]

\* A record of n words with number id written at h.
Stored(m, h, type, n, id) ==
  [p \in Positions |->
     IF p = h THEN [type |-> type, id |-> id]
     ELSE IF p \in h + 1 .. h + n - 1 THEN [type |-> BODY, id |-> id]
     ELSE m[p]]

\* Copy header and sample to h, advance head, count the item and alert the
\* reader when a batch is complete.
Store(m, h, type) ==
  /\ mem'   = Stored(m, h, type, total_size(type), seq + 1)
  /\ head'  = HEAD_TRIM_PAGE(h + total_size(type))
  /\ items' = items + 1
  /\ irq'   = (irq \/ items + 1 >= Batch)
  /\ seq'   = seq + 1
  /\ UNCHANGED tail

\* Not enough space: nothing is written.
WriteNoSpace(type) ==
  /\ total_size(type) > RB_SPACE(head, tail)
  /\ UNCHANGED rbVars

\* The record fits the page head is in.
WriteInPage(type) ==
  /\ total_size(type) <= RB_SPACE(head, tail)
  /\ total_size(type) <= RB_PAGE_SPACE(head)
  /\ Store(mem, head, type)

\* The page is stuffed and the record goes to the next one.
WriteNextPage(type) ==
  /\ total_size(type) <= RB_SPACE(head, tail)
  /\ total_size(type) > RB_PAGE_SPACE(head)
  /\ total_size(type) <= RB_SPACE(StuffedHead(head), tail)
  /\ Store(Padded(mem, head), StuffedHead(head), type)

\* The page is stuffed, and then there is not enough space left.
WriteStuffOnly(type) ==
  /\ total_size(type) <= RB_SPACE(head, tail)
  /\ total_size(type) > RB_PAGE_SPACE(head)
  /\ total_size(type) > RB_SPACE(StuffedHead(head), tail)
  /\ head' = StuffedHead(head)
  /\ mem'  = Padded(mem, head)
  /\ UNCHANGED <<tail, items, irq, seq>>

smon_rb_write(type) ==
  \/ WriteNoSpace(type)
  \/ WriteInPage(type)
  \/ WriteNextPage(type)
  \/ WriteStuffOnly(type)

-----------------------------------------------------------------------------
(* The other operations.                                                   *)

\* SMON_IOCREAD: the reader returns n samples and sz words.
smon_rb_read(n, sz) ==
  /\ tail'  = IF sz > RB_COUNT(head, tail) THEN head ELSE HEAD_TRIM_PAGE(tail + sz)
  /\ items' = IF n > items THEN 0 ELSE items - n
  /\ UNCHANGED <<head, mem, irq, seq>>

\* smon_release_rb alerts the reader after the EOF record.
irq_work_queue ==
  /\ irq' = TRUE
  /\ UNCHANGED <<head, tail, items, mem, seq>>

\* The irq_work runs: wake_up(&rb->inq).
smon_wake_up_reader ==
  /\ irq
  /\ irq' = FALSE
  /\ UNCHANGED <<head, tail, items, mem, seq>>

\* smon_create_rb.
RbInit ==
  /\ head  = 0
  /\ tail  = 0
  /\ items = 0
  /\ mem   = [p \in Positions |-> [type |-> GARBAGE, id |-> 0]]
  /\ irq   = FALSE
  /\ seq   = 0

\* Any client: any writer may write, and SMON_IOCREAD may carry any numbers
\* (both parameters of smon_rb_read are unsigned int).
RbWrite == \E type \in RecordTypes : smon_rb_write(type)
RbRead  == \E n, sz \in Nat : smon_rb_read(n, sz)
RbNext  == RbWrite \/ RbRead \/ irq_work_queue \/ smon_wake_up_reader

RbSpec == RbInit /\ [][RbNext]_rbVars

-----------------------------------------------------------------------------
(* Properties.                                                             *)

RbTypeOK ==
  /\ head \in Positions
  /\ tail \in Positions
  /\ items \in 0 .. seq
  /\ mem \in [Positions -> Cells]
  /\ irq \in BOOLEAN
  /\ seq \in Nat

\* The words that were written and not yet returned by the reader.
Unread == {p \in Positions : RB_COUNT(p, tail) < RB_COUNT(head, tail)}

\* No call of smon_rb_write or smon_rb_read ever changes a word the reader has not
\* returned: the user-space reader, which reads the mapped pages without any
\* lock, cannot see a sample change under it.
NoOverwriteStep == \A p \in Unread : mem'[p] = mem[p]
NoOverwrite     == [][NoOverwriteStep]_rbVars

\* The unread region only grows by a write, whatever page boundary or wrap-around
\* it crosses: head never reaches tail from behind, which would make a full
\* buffer look empty and lose every sample in it.
WriteGrowsStep ==
  tail' = tail => Unread \subseteq Unread'
WriteGrows == [][WriteGrowsStep]_rbVars

\* A record never straddles a page: the driver's pages are separate allocations,
\* so smon_rb_write would otherwise write behind the end of one of them.
InOnePage ==
  \A p \in Positions :
    mem[p].type \in RecordTypes =>
      HEAD_OFFSET(p) + total_size(mem[p].type) <= PageSize

=============================================================================
