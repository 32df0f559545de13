------------------------- MODULE SampleOrderProofs -------------------------
(***************************************************************************)
(* The order of the samples (SampleChannel) for every ring buffer, every   *)
(* finite set of tasks and every batch: the tool prints what was written,  *)
(* in order and once, until it reads at head, and it reads at head only in *)
(* the POLLHUP round and without an EOF record in the pages.  From this,   *)
(* that the channel implements the stream of SampleStream.                 *)
(***************************************************************************)
EXTENDS SampleChannelProofs, SampleChannelRefinement

-----------------------------------------------------------------------------
(* The inductive invariant.                                                *)
(*                                                                         *)
(* Positions are unrolled: T, U and H are tail, the tool's cursor and head *)
(* counted from the beginning of the session, so that T <= U <= H, and the *)
(* position in the pages is the remainder.  S is the set of the unrolled   *)
(* positions between U and H where a record starts.  The pages alone do    *)
(* not tell: the words behind a PAD are those of earlier turns, and there  *)
(* are old headers among them.                                             *)

At(m, p) == m[p % Size]

\* Words from a header to the next one.
Words(m, p) == IF At(m, p).type = PAD THEN RB_PAGE_SPACE(p % Size) ELSE total_size(At(m, p).type)
NextAt(m, p) == p + Words(m, p)

\* The number of the last sample before a record.
Before(c) == IF c.type = PAD THEN c.id ELSE c.id - 1

\* A record at p of S: the next one starts where it ends, and carries the next number.
Link(m, n, H, S, p) ==
  /\ At(m, p).type \in RecordTypes \cup {PAD}
  /\ At(m, p).id \in 1 .. n
  /\ NextAt(m, p) \in S \cup {H}
  /\ NextAt(m, p) = H => At(m, p).id = n
  /\ NextAt(m, p) \in S => Before(At(m, NextAt(m, p))) = At(m, p).id
  /\ \A q \in S : q > p => q >= NextAt(m, p)
  /\ At(m, p).type # PAD /\ At(m, p).id = 1 => At(m, p).type \in {"INFO", EOF}

\* The records from U to H, n samples having been written: every sample from the one at U
\* on, and no EOF elsewhere.
Chain(m, n, U, H, S) ==
  /\ S \subseteq U .. H - 1
  /\ U < H => U \in S
  /\ \A p \in S : Link(m, n, H, S, p)
  /\ \A p \in Positions : m[p].type = EOF => \E q \in S : q % Size = p
  /\ \A i \in 1 .. n : U < H /\ i > Before(At(m, U)) =>
                      \E p \in S : At(m, p).type # PAD /\ At(m, p).id = i

Window(T, U, H) ==
  /\ T <= U /\ U <= H /\ H - T < Size
  /\ tail = T % Size /\ utail = U % Size /\ head = H % Size
  /\ consumed = U - T

\* The tool stands at the record behind the last sample it printed; at the EOF it stays.
Cursor(U, H) ==
  /\ ~eof => last = IF U = H THEN seq ELSE Before(At(mem, U))
  /\ eof => U < H /\ At(mem, U).type = EOF /\ At(mem, U).id = last

OrderInv == \E T, U, H \in Nat, S \in SUBSET Nat :
              Window(T, U, H) /\ Chain(mem, seq, U, H, S) /\ Cursor(U, H)

\* The samples that a POLLIN round will print are in the buffer, and no EOF among them.
BatchInv ==
  rd = "read" /\ ~hup =>
    /\ n_samples <= Batch
    /\ seq >= last + Batch - n_samples
    /\ \A p \in Positions : mem[p].type = EOF => mem[p].id > last + Batch - n_samples

RoundInv ==
  /\ items = seq - (last - IF rd = "read" THEN n_samples ELSE 0)
  /\ rd \in {"poll", "sleep", "interrupted"} => ~eof /\ consumed = 0
  /\ rd = "done" => eof /\ consumed = 0
  /\ rd # "failed"
  /\ eof => hup
  /\ rd = "read" => n_samples <= consumed + IF eof THEN 1 ELSE 0

\* While the buffer has a writer there is no EOF record in the pages.
EofInv == active > 0 => \A p \in Positions : mem[p].type # EOF

\* Before the first record there is nothing that could write another than INFO or EOF.
FirstInv ==
  seq = 0 => /\ head = 0 /\ tail = 0
             /\ ~rapl
             /\ \A w \in Tasks : task[w] # "run"

OInv == EofInv /\ FirstInv /\ (~overrun => OrderInv /\ BatchInv /\ RoundInv)

-----------------------------------------------------------------------------
(* Unrolled positions.                                                     *)

LEMMA DivMod ==
  ASSUME NEW M \in Nat \ {0}, NEW a \in Int
  PROVE  a % M \in 0 .. M - 1 /\ a \div M \in Int /\ a = M * (a \div M) + (a % M)
<1>1. a % M \in 0 .. M - 1
  OBVIOUS
<1>2. a \div M \in Int
  OBVIOUS
<1>3. a = M * (a \div M) + (a % M)
  OBVIOUS
<1> QED
  BY <1>1, <1>2, <1>3

\* A multiple of M that is smaller than M is 0.
LEMMA SmallMultiple ==
  ASSUME NEW M \in Nat \ {0}, NEW d \in Int, NEW z \in Int, z = d * M, z < M, z > -M
  PROVE  z = 0
<1>1. CASE d >= 1
  <2>1. d * M >= M
    BY <1>1
  <2> QED
    BY <2>1
<1>2. CASE d <= -1
  <2>1. d * M <= -M
    BY <1>2
  <2> QED
    BY <2>1
<1>3. CASE d = 0
  BY <1>3
<1> QED
  BY <1>1, <1>2, <1>3

\* Numbers that differ by a multiple of M have the same remainder.
LEMMA SameRemainder ==
  ASSUME NEW M \in Nat \ {0}, NEW a \in Int, NEW b \in Int, NEW k \in Int, a = b + k * M
  PROVE  a % M = b % M
<1> DEFINE qa == a \div M
           qb == b \div M
           ra == a % M
           sb == b % M
<1>1. /\ ra \in 0 .. M - 1 /\ qa \in Int /\ a = M * qa + ra
      /\ sb \in 0 .. M - 1 /\ qb \in Int /\ b = M * qb + sb
  BY DivMod
<1> HIDE DEF qa, qb, ra, sb
<1>2. ra - sb = (qb + k - qa) * M
  BY <1>1
<1>3. qb + k - qa \in Int /\ ra - sb \in Int /\ ra - sb < M /\ ra - sb > -M
  BY <1>1
<1>4. ra - sb = 0
  BY <1>2, <1>3, SmallMultiple
<1> QED
  BY <1>1, <1>4 DEF ra, sb

\* Moving forward in the pages is moving forward, and the remainder.
LEMMA Forward ==
  ASSUME NEW a \in Nat, NEW n \in Nat
  PROVE  (a % Size) \in Positions /\ ((a % Size) + n) % Size = (a + n) % Size
<1>1. Size \in Nat \ {0}
  BY SizePositive
<1> DEFINE r == a % Size
           q == a \div Size
<1>2. r \in 0 .. Size - 1 /\ q \in Int /\ a = Size * q + r
  BY <1>1, DivMod
<1> HIDE DEF r, q
<1>3. a + n = (r + n) + q * Size /\ a + n \in Int /\ r + n \in Int
  BY <1>1, <1>2
<1>4. (a + n) % Size = (r + n) % Size
  BY <1>1, <1>2, <1>3, SameRemainder
<1> QED
  BY <1>2, <1>4 DEF r, Positions

\* RB_COUNT of two positions less than a turn apart is their distance.
LEMMA Distance ==
  ASSUME NEW a \in Nat, NEW b \in Nat, b <= a, a - b < Size
  PROVE  RB_COUNT(a % Size, b % Size) = a - b
<1>1. Size \in Nat \ {0}
  BY SizePositive
<1> DEFINE r == a % Size
           q == a \div Size
           s == b % Size
           o == b \div Size
<1>2. /\ r \in 0 .. Size - 1 /\ q \in Int /\ a = Size * q + r
      /\ s \in 0 .. Size - 1 /\ o \in Int /\ b = Size * o + s
  BY <1>1, DivMod
<1> HIDE DEF r, q, s, o
<1>3. a - b = (r - s) + (q - o) * Size /\ a - b \in 0 .. Size - 1 /\ r - s \in Int /\ q - o \in Int
  BY <1>1, <1>2
<1>4. (a - b) % Size = (r - s) % Size
  <2> DEFINE x == a - b
             y == r - s
             k == q - o
  <2>1. x \in Int /\ y \in Int /\ k \in Int /\ x = y + k * Size
    BY <1>1, <1>2, <1>3
  <2> HIDE DEF x, y, k
  <2>2. x % Size = y % Size
    BY <1>1, <2>1, SameRemainder
  <2> QED
    BY <2>2 DEF x, y
<1>5. (a - b) % Size = a - b
  BY <1>1, <1>3, TrimNone
<1> QED
  BY <1>4, <1>5 DEF r, s, RB_COUNT

\* Two of them in the same place are the same.
LEMMA Apart ==
  ASSUME NEW a \in Nat, NEW b \in Nat, a - b < Size, b - a < Size, a % Size = b % Size
  PROVE  a = b
<1>1. Size \in Nat \ {0}
  BY SizePositive
<1> DEFINE r == a % Size
           q == a \div Size
           o == b \div Size
<1>2. /\ r \in 0 .. Size - 1 /\ q \in Int /\ a = Size * q + r
      /\ o \in Int /\ b = Size * o + r
  BY <1>1, DivMod
<1> HIDE DEF r, q, o
<1>3. a - b = (q - o) * Size /\ a - b \in Int /\ q - o \in Int
  BY <1>1, <1>2
<1>4. a - b = 0
  BY <1>1, <1>3, SmallMultiple
<1> QED
  BY <1>4

-----------------------------------------------------------------------------
(* The chain of records.                                                   *)

LEMMA TypesApart ==
  /\ PAD \notin RecordTypes /\ BODY \notin RecordTypes /\ GARBAGE \notin RecordTypes
  /\ EOF \notin SampleTypes /\ PAD # EOF /\ BODY # EOF /\ GARBAGE # EOF
BY ConstantsAssumption DEF RecordTypes, PAD, EOF, BODY, GARBAGE

LEMMA WordsPositive ==
  ASSUME NEW m, NEW p \in Nat, At(m, p).type \in RecordTypes \cup {PAD}
  PROVE  Words(m, p) \in 1 .. PageSize /\ NextAt(m, p) \in Nat /\ NextAt(m, p) > p
<1>1. p % Size \in Positions
  BY Forward
<1>2. Words(m, p) \in 1 .. PageSize
  BY <1>1, Stuffed, RecordSize DEF Words
<1> QED
  BY <1>2, SizePositive DEF NextAt

\* A record written at H joins the chain.
LEMMA Extend ==
  ASSUME NEW m, NEW m2, NEW n \in Nat, NEW n2 \in Nat, NEW U \in Nat, NEW H \in Nat, U <= H,
         NEW S \in SUBSET Nat, Chain(m, n, U, H, S),
         \A p \in S : At(m2, p) = At(m, p),
         \A p \in Positions : m2[p].type = EOF => m[p].type = EOF \/ p = H % Size,
         At(m2, H).type \in RecordTypes \cup {PAD},
         n2 >= n, n2 >= 1, At(m2, H).id = n2, Before(At(m2, H)) = n,
         At(m2, H).type # PAD /\ n2 = 1 => At(m2, H).type \in {"INFO", EOF}
  PROVE  Chain(m2, n2, U, NextAt(m2, H), S \cup {H})
<1> DEFINE H2 == NextAt(m2, H)
           R  == S \cup {H}
<1>1. H2 \in Nat /\ H2 > H
  BY WordsPositive
<1>2. \A p \in S : p \in Nat /\ p >= U /\ p < H
  BY DEF Chain
<1>3. \A p \in S : Words(m2, p) = Words(m, p) /\ NextAt(m2, p) = NextAt(m, p)
  BY DEF Words, NextAt
<1>4. ASSUME NEW p \in S
      PROVE  NextAt(m, p) \in S \cup {H} /\ NextAt(m, p) \in Nat /\ NextAt(m, p) <= H
  <2>1. NextAt(m, p) \in S \cup {H}
    BY DEF Chain, Link
  <2>2. \A q \in S \cup {H} : q \in Nat /\ q <= H
    BY <1>2
  <2> QED
    BY <2>1, <2>2
<1>5. R \subseteq U .. H2 - 1
  <2> HIDE DEF H2
  <2>1. \A p \in S \cup {H} : p \in Nat /\ p >= U /\ p < H2
    BY <1>1, <1>2
  <2> QED
    BY <1>1, <2>1
<1>6. U < H2 => U \in R
  BY DEF Chain
<1>7. ASSUME NEW p \in S PROVE Link(m2, n2, H2, R, p)
  <2>1. Link(m, n, H, S, p) /\ At(m2, p) = At(m, p) /\ NextAt(m2, p) = NextAt(m, p)
    BY <1>3 DEF Chain
  <2>2. /\ At(m2, p).type \in RecordTypes \cup {PAD}
        /\ At(m2, p).id \in 1 .. n2
        /\ At(m2, p).type # PAD /\ At(m2, p).id = 1 => At(m2, p).type \in {"INFO", EOF}
    BY <2>1 DEF Link
  <2>3. NextAt(m2, p) \in R /\ NextAt(m2, p) # H2
    <3> HIDE DEF H2
    <3> QED
      BY <1>1, <1>4, <2>1
  <2>4. Before(At(m2, NextAt(m2, p))) = At(m2, p).id
    <3>1. CASE NextAt(m, p) = H
      BY <2>1, <3>1 DEF Link
    <3>2. CASE NextAt(m, p) \in S
      BY <2>1, <3>2 DEF Link
    <3> QED
      BY <1>4, <3>1, <3>2
  <2>5. \A q \in R : q > p => q >= NextAt(m2, p)
    BY <1>4, <2>1 DEF Link
  <2> QED
    BY <2>2, <2>3, <2>4, <2>5 DEF Link
<1>8. Link(m2, n2, H2, R, H)
  <2>1. NextAt(m2, H) = H2 /\ H2 \notin R
    BY <1>1, <1>2
  <2>2. \A q \in R : ~(q > H)
    BY <1>2
  <2> HIDE DEF H2, R
  <2> QED
    BY <2>1, <2>2 DEF Link
<1>9. ASSUME NEW p \in Positions, m2[p].type = EOF PROVE \E q \in R : q % Size = p
  BY <1>9 DEF Chain
<1>10. ASSUME NEW i \in 1 .. n2, i > Before(At(m2, U))
       PROVE  \E p \in R : At(m2, p).type # PAD /\ At(m2, p).id = i
  <2>1. CASE i <= n
    <3>1. U < H /\ U \in S
      BY <1>10, <2>1 DEF Chain
    <3>2. i \in 1 .. n /\ i > Before(At(m, U))
      BY <1>10, <2>1, <3>1
    <3> QED
      BY <3>1, <3>2 DEF Chain
  <2>2. CASE i > n
    <3>1. At(m2, H).type # PAD /\ i = n2
      BY <2>2 DEF Before
    <3> QED
      BY <3>1
  <2> QED
    BY <2>1, <2>2
<1>11. \A p \in R : Link(m2, n2, H2, R, p)
  BY <1>7, <1>8
<1> HIDE DEF H2, R
<1>12. Chain(m2, n2, U, H2, R)
  BY <1>5, <1>6, <1>9, <1>10, <1>11 DEF Chain
<1> QED
  BY <1>12 DEF H2, R

\* The tool leaves the record at its cursor behind.
LEMMA Consume ==
  ASSUME NEW m, NEW n \in Nat, NEW U \in Nat, NEW H \in Nat, U < H,
         NEW S \in SUBSET Nat, Chain(m, n, U, H, S), At(m, U).type # EOF,
         NEW R, R = S \ {U}
  PROVE  /\ Chain(m, n, NextAt(m, U), H, R)
         /\ NextAt(m, U) \in Nat /\ U < NextAt(m, U) /\ NextAt(m, U) <= H
         /\ NextAt(m, U) = H => At(m, U).id = n
         /\ NextAt(m, U) # H => At(m, U).id = Before(At(m, NextAt(m, U)))
<1> DEFINE V == NextAt(m, U)
<1>1. U \in S /\ Link(m, n, H, S, U)
  BY DEF Chain
<1>2. V \in Nat /\ U < V
  BY <1>1, WordsPositive DEF Link
<1>3. \A p \in S : p \in Nat /\ p >= U /\ p < H
  BY DEF Chain
<1>4. V \in S \cup {H} /\ V <= H
  <2>1. V \in S \cup {H}
    BY <1>1 DEF Link
  <2>2. \A q \in S \cup {H} : q <= H
    BY <1>3
  <2> QED
    BY <2>1, <2>2
<1>5. R \subseteq V .. H - 1
  <2>1. ASSUME NEW p \in R PROVE p \in V .. H - 1
    <3>1. p \in S /\ p > U
      BY <1>3
    <3>2. p >= V
      BY <1>1, <3>1 DEF Link
    <3> QED
      BY <1>2, <1>3, <3>1, <3>2
  <2> QED
    BY <2>1
<1>6. V < H => V \in R
  BY <1>2, <1>4
<1>7. ASSUME NEW p \in R PROVE Link(m, n, H, R, p)
  <2>1. p \in S /\ Link(m, n, H, S, p)
    BY DEF Chain
  <2>2. NextAt(m, p) > p /\ NextAt(m, p) \in Nat
    BY <1>3, <2>1, WordsPositive DEF Link
  <2>3. NextAt(m, p) # U
    BY <1>3, <2>1, <2>2
  <2>4. NextAt(m, p) \in R \cup {H}
    BY <2>1, <2>3 DEF Link
  <2> QED
    BY <2>1, <2>4 DEF Link
<1>8. ASSUME NEW p \in Positions, m[p].type = EOF PROVE \E q \in R : q % Size = p
  <2>1. PICK q \in S : q % Size = p
    BY <1>8 DEF Chain
  <2>2. q # U
    BY <1>8, <2>1 DEF At
  <2> QED
    BY <2>1, <2>2
<1>9. /\ V = H => At(m, U).id = n
      /\ V # H => At(m, U).id = Before(At(m, V))
  BY <1>1, <1>4 DEF Link
<1>10. ASSUME NEW i \in 1 .. n, V < H, i > Before(At(m, V))
       PROVE  \E p \in R : At(m, p).type # PAD /\ At(m, p).id = i
  <2>1. At(m, U).id = Before(At(m, V)) /\ At(m, U).id \in 1 .. n
    BY <1>1, <1>2, <1>9, <1>10 DEF Link
  <2>2. i > At(m, U).id /\ i > Before(At(m, U))
    BY <1>10, <2>1 DEF Before
  <2>3. PICK p \in S : At(m, p).type # PAD /\ At(m, p).id = i
    BY <2>2 DEF Chain
  <2> QED
    BY <2>1, <2>2, <2>3
<1> HIDE DEF V
<1>11. Chain(m, n, V, H, R)
  BY <1>5, <1>6, <1>7, <1>8, <1>10 DEF Chain
<1> QED
  BY <1>2, <1>4, <1>9, <1>11 DEF V

-----------------------------------------------------------------------------
(* Writing.                                                                *)

\* A record stored at the unrolled position G.
LEMMA StoreAt ==
  ASSUME NEW m \in [Positions -> Cells], NEW type \in RecordTypes,
         items \in 0 .. seq, irq \in BOOLEAN, seq \in Nat,
         NEW T \in Nat, NEW G \in Nat, T <= G, G - T < Size, tail = T % Size,
         total_size(type) <= RB_SPACE(G % Size, tail),
         total_size(type) <= RB_PAGE_SPACE(G % Size),
         Store(m, G % Size, type)
  PROVE  /\ NextAt(mem', G) \in Nat /\ NextAt(mem', G) > G /\ NextAt(mem', G) - T < Size
         /\ head' = NextAt(mem', G) % Size
         /\ seq' = seq + 1 /\ tail' = tail
         /\ At(mem', G) = [type |-> type, id |-> seq + 1]
         /\ \A p \in T .. G - 1 : At(mem', p) = At(m, p)
         /\ \A p \in Positions : mem'[p].type = EOF => m[p].type = EOF \/ p = G % Size
<1> DEFINE g == G % Size
           n == total_size(type)
<1>1. g \in Positions /\ tail \in Positions /\ Size \in Nat \ {0} /\ PageSize \in Nat
  BY Forward, SizePositive
<1>2. n \in 1 .. PageSize
  BY RecordSize
<1>3. /\ mem' = Stored(m, g, type, n, seq + 1)
      /\ head' = (g + n) % Size
      /\ seq' = seq + 1 /\ tail' = tail
  BY DEF Store, HEAD_TRIM_PAGE
<1>4. mem'[g] = [type |-> type, id |-> seq + 1]
  BY <1>1, <1>3 DEF Stored
<1>5. At(mem', G) = [type |-> type, id |-> seq + 1]
  BY <1>4 DEF At
<1>6. NextAt(mem', G) = G + n
  BY <1>5, TypesApart DEF NextAt, Words
<1>7. RB_COUNT(g, tail) = G - T
  BY Distance
<1>8. RB_SPACE(g, tail) = Size - 1 - (G - T)
  BY <1>1, <1>7, Space
<1>9. NextAt(mem', G) \in Nat /\ NextAt(mem', G) > G /\ NextAt(mem', G) - T < Size
  BY <1>1, <1>2, <1>6, <1>8
<1>10. head' = NextAt(mem', G) % Size
  <2>1. n \in Nat
    BY <1>1, <1>2
  <2>2. (g + n) % Size = (G + n) % Size
    BY <2>1, Forward
  <2> QED
    BY <1>3, <1>6, <2>2
<1>11. /\ \A p \in Positions : RB_COUNT(p, tail) < RB_COUNT(g, tail) => mem'[p] = m[p]
       /\ \A p \in Positions : mem'[p].type \in RecordTypes =>
             mem'[p] = m[p] \/ (p = g /\ mem'[p].type = type)
  BY <1>1, StoreEffect
<1>12. ASSUME NEW p \in T .. G - 1 PROVE At(mem', p) = At(m, p)
  <2>1. p \in Nat /\ T <= p /\ p - T < Size /\ p - T < G - T
    BY <1>1
  <2>2. p % Size \in Positions /\ RB_COUNT(p % Size, tail) = p - T
    BY <2>1, Forward, Distance
  <2> QED
    BY <1>7, <1>11, <2>1, <2>2 DEF At
<1>13. ASSUME NEW p \in Positions, mem'[p].type = EOF PROVE m[p].type = EOF \/ p = g
  <2>1. EOF \in RecordTypes
    BY DEF RecordTypes
  <2> QED
    BY <1>11, <1>13, <2>1
<1> QED
  BY <1>3, <1>5, <1>9, <1>10, <1>12, <1>13

\* A page stuffed at head, the unrolled position H.
LEMMA StuffAt ==
  ASSUME RbTypeOK, NEW type \in RecordTypes,
         NEW T \in Nat, NEW H \in Nat, T <= H, H - T < Size, tail = T % Size, head = H % Size,
         total_size(type) <= RB_SPACE(head, tail),
         total_size(type) > RB_PAGE_SPACE(head)
  PROVE  LET m == Padded(mem, head) IN
         /\ m \in [Positions -> Cells]
         /\ NextAt(m, H) \in Nat /\ NextAt(m, H) > H /\ NextAt(m, H) - T < Size
         /\ StuffedHead(head) = NextAt(m, H) % Size
         /\ RB_PAGE_SPACE(StuffedHead(head)) = PageSize
         /\ At(m, H) = [type |-> PAD, id |-> seq]
         /\ \A p \in T .. H - 1 : At(m, p) = At(mem, p)
         /\ \A p \in Positions : m[p].type = EOF => mem[p].type = EOF
<1> DEFINE m == Padded(mem, head)
           n == RB_PAGE_SPACE(head)
<1>1. /\ head \in Positions /\ tail \in Positions /\ mem \in [Positions -> Cells]
      /\ Size \in Nat \ {0} /\ PageSize \in Nat \ {0}
  BY SizePositive DEF RbTypeOK
<1>2. /\ m \in [Positions -> Cells]
      /\ RB_PAGE_SPACE(StuffedHead(head)) = PageSize
      /\ \A p \in Positions : p # head => m[p] = mem[p]
      /\ m[head].type = PAD
  BY StuffEffect
<1>3. n \in 1 .. PageSize /\ StuffedHead(head) = (head + n) % Size
  BY <1>1, Stuffed
<1>4. At(m, H) = [type |-> PAD, id |-> seq]
  BY <1>1 DEF At, Padded
<1>5. NextAt(m, H) = H + n
  BY <1>4 DEF NextAt, Words
<1>6. RB_SPACE(head, tail) = Size - 1 - (H - T)
  <2>1. RB_COUNT(head, tail) = H - T
    BY Distance
  <2> QED
    BY <1>1, <2>1, Space
<1>7. total_size(type) \in Int
  BY <1>1, RecordSize
<1>8. NextAt(m, H) \in Nat /\ NextAt(m, H) > H /\ NextAt(m, H) - T < Size
  BY <1>1, <1>3, <1>5, <1>6, <1>7
<1>9. StuffedHead(head) = NextAt(m, H) % Size
  <2>1. n \in Nat
    BY <1>1, <1>3
  <2>2. (head + n) % Size = (H + n) % Size
    BY <2>1, Forward
  <2> QED
    BY <1>3, <1>5, <2>2
<1>10. ASSUME NEW p \in T .. H - 1 PROVE At(m, p) = At(mem, p)
  <2>1. p \in Nat /\ p - H < Size /\ H - p < Size /\ p # H
    BY <1>1
  <2>2. p % Size \in Positions /\ p % Size # head
    BY <2>1, Forward, Apart
  <2> QED
    BY <1>2, <2>2 DEF At
<1>11. \A p \in Positions : m[p].type = EOF => mem[p].type = EOF
  BY <1>2, TypesApart
<1> HIDE DEF m
<1> QED
  BY <1>2, <1>4, <1>8, <1>9, <1>10, <1>11 DEF m

\* A call of smon_rb_write keeps the chain, and what the tool will find at its cursor.
LEMMA WriteChain ==
  ASSUME RbTypeOK, NEW type \in RecordTypes, smon_rb_write(type),
         seq = 0 => head = 0 /\ type \in {"INFO", EOF},
         NEW T \in Nat, NEW U \in Nat, NEW H \in Nat, NEW S \in SUBSET Nat,
         Window(T, U, H), Chain(mem, seq, U, H, S)
  PROVE  \E H2 \in Nat, R \in SUBSET Nat :
           /\ H2 >= H /\ H2 - T < Size
           /\ head' = H2 % Size /\ tail' = tail
           /\ Chain(mem', seq', U, H2, R)
           /\ U < H => At(mem', U) = At(mem, U)
           /\ U = H => IF H2 = H THEN seq' = seq ELSE Before(At(mem', U)) = seq
<1>1. /\ head \in Positions /\ tail \in Positions /\ mem \in [Positions -> Cells]
      /\ items \in 0 .. seq /\ irq \in BOOLEAN /\ seq \in Nat
      /\ Size \in Nat \ {0} /\ PageSize \in Nat \ {0}
  BY SizePositive DEF RbTypeOK
<1>2. /\ T <= U /\ U <= H /\ T <= H /\ H - T < Size
      /\ tail = T % Size /\ head = H % Size
  BY DEF Window
<1>3. /\ S \subseteq T .. H - 1 /\ (U < H => U \in T .. H - 1)
      /\ U < H => U \in S
  BY <1>2 DEF Chain
<1>4. total_size(type) \in 1 .. PageSize
  BY RecordSize
<1>5. CASE WriteNoSpace(type)
  <2>1. mem' = mem /\ head' = head /\ tail' = tail /\ seq' = seq
    BY <1>5 DEF WriteNoSpace, rbVars
  <2>2. Chain(mem', seq', U, H, S)
    BY <2>1
  <2> QED
    BY <1>2, <2>1, <2>2
<1>6. CASE WriteInPage(type)
  <2> DEFINE H2 == NextAt(mem', H)
             R  == S \cup {H}
  <2>1. /\ H2 \in Nat /\ H2 > H /\ H2 - T < Size
        /\ head' = H2 % Size
        /\ seq' = seq + 1 /\ tail' = tail
        /\ At(mem', H) = [type |-> type, id |-> seq + 1]
        /\ \A p \in T .. H - 1 : At(mem', p) = At(mem, p)
        /\ \A p \in Positions : mem'[p].type = EOF => mem[p].type = EOF \/ p = H % Size
    BY <1>1, <1>2, <1>6, StoreAt DEF WriteInPage
  <2>2. At(mem', H).type = type /\ At(mem', H).id = seq + 1 /\ Before(At(mem', H)) = seq
    BY <1>1, <2>1, TypesApart DEF Before
  <2>3. \A p \in S : At(mem', p) = At(mem, p)
    BY <1>3, <2>1
  <2>4. Chain(mem', seq', U, H2, R)
    <3>1. /\ seq' \in Nat /\ seq' >= seq /\ seq' >= 1 /\ U <= H
          /\ At(mem', H).type \in RecordTypes \cup {PAD}
          /\ At(mem', H).id = seq'
      BY <1>1, <1>2, <2>1, <2>2
    <3>2. At(mem', H).type # PAD /\ seq' = 1 => At(mem', H).type \in {"INFO", EOF}
      BY <1>1, <2>1, <2>2
    <3> QED
      BY <1>1, <2>1, <2>2, <2>3, <3>1, <3>2, Extend
  <2> HIDE DEF H2
  <2>5. R \in SUBSET Nat
    OBVIOUS
  <2> HIDE DEF R
  <2>6. H2 >= H /\ H2 # H
    BY <2>1
  <2>7. U = H => Before(At(mem', U)) = seq
    BY <2>2
  <2>8. U < H => At(mem', U) = At(mem, U)
    BY <1>3, <2>1
  <2> QED
    BY <2>1, <2>4, <2>5, <2>6, <2>7, <2>8
<1>7. ASSUME total_size(type) <= RB_SPACE(head, tail), total_size(type) > RB_PAGE_SPACE(head)
      PROVE  LET m == Padded(mem, head)
                 G == NextAt(m, H)
             IN  /\ m \in [Positions -> Cells]
                 /\ G \in Nat /\ G > H /\ G - T < Size
                 /\ StuffedHead(head) = G % Size
                 /\ RB_PAGE_SPACE(StuffedHead(head)) = PageSize
                 /\ Before(At(m, H)) = seq
                 /\ \A p \in T .. H - 1 : At(m, p) = At(mem, p)
                 /\ Chain(m, seq, U, G, S \cup {H})
  <2> DEFINE m == Padded(mem, head)
             G == NextAt(m, H)
  <2>1. /\ m \in [Positions -> Cells]
        /\ G \in Nat /\ G > H /\ G - T < Size
        /\ StuffedHead(head) = G % Size
        /\ RB_PAGE_SPACE(StuffedHead(head)) = PageSize
        /\ At(m, H) = [type |-> PAD, id |-> seq]
        /\ \A p \in T .. H - 1 : At(m, p) = At(mem, p)
        /\ \A p \in Positions : m[p].type = EOF => mem[p].type = EOF
    BY <1>2, <1>7, StuffAt
  <2> HIDE DEF m
  <2>2. At(m, H).type = PAD /\ At(m, H).id = seq /\ Before(At(m, H)) = seq
    BY <2>1 DEF Before
  <2>3. seq >= 1
    <3>1. SUFFICES ASSUME seq = 0 PROVE FALSE
      BY <1>1
    <3>2. RB_PAGE_SPACE(head) = PageSize
      BY <1>1, <3>1 DEF RB_PAGE_SPACE, HEAD_OFFSET
    <3> QED
      BY <1>1, <1>4, <1>7, <3>2
  <2>4. \A p \in S : At(m, p) = At(mem, p)
    BY <1>3, <2>1
  <2>5. Chain(m, seq, U, G, S \cup {H})
    <3>1. At(m, H).type \in RecordTypes \cup {PAD} /\ seq >= seq /\ U <= H
      BY <1>1, <1>2, <2>2
    <3>2. \A p \in Positions : m[p].type = EOF => mem[p].type = EOF \/ p = H % Size
      BY <2>1
    <3> QED
      BY <1>1, <2>2, <2>3, <2>4, <3>1, <3>2, Extend
  <2> QED
    BY <2>1, <2>2, <2>5 DEF m
<1>8. CASE WriteStuffOnly(type)
  <2> DEFINE m == Padded(mem, head)
             G == NextAt(m, H)
             R == S \cup {H}
  <2>1. mem' = m /\ head' = StuffedHead(head) /\ tail' = tail /\ seq' = seq
    BY <1>8 DEF WriteStuffOnly
  <2>2. /\ G \in Nat /\ G > H /\ G - T < Size
        /\ StuffedHead(head) = G % Size
        /\ Before(At(m, H)) = seq
        /\ \A p \in T .. H - 1 : At(m, p) = At(mem, p)
        /\ Chain(m, seq, U, G, R)
    BY <1>7, <1>8 DEF WriteStuffOnly
  <2>3. R \in SUBSET Nat
    OBVIOUS
  <2> HIDE DEF m, G, R
  <2>4. G >= H /\ G # H
    BY <2>2
  <2>5. Chain(mem', seq', U, G, R)
    BY <2>1, <2>2
  <2>6. U = H => Before(At(mem', U)) = seq
    BY <2>1, <2>2
  <2>7. U < H => At(mem', U) = At(mem, U)
    BY <1>3, <2>1, <2>2
  <2> QED
    BY <2>1, <2>2, <2>3, <2>4, <2>5, <2>6, <2>7
<1>9. CASE WriteNextPage(type)
  <2> DEFINE m  == Padded(mem, head)
             G  == NextAt(m, H)
             Q  == S \cup {H}
             H2 == NextAt(mem', G)
             R  == Q \cup {G}
  <2>1. /\ m \in [Positions -> Cells]
        /\ G \in Nat /\ G > H /\ G - T < Size
        /\ StuffedHead(head) = G % Size
        /\ RB_PAGE_SPACE(StuffedHead(head)) = PageSize
        /\ Before(At(m, H)) = seq
        /\ \A p \in T .. H - 1 : At(m, p) = At(mem, p)
        /\ Chain(m, seq, U, G, Q)
    BY <1>7, <1>9 DEF WriteNextPage
  <2>2. /\ total_size(type) <= RB_SPACE(StuffedHead(head), tail)
        /\ Store(m, StuffedHead(head), type)
    BY <1>9 DEF WriteNextPage
  <2> HIDE DEF m, G
  <2>3. T <= G /\ U <= G
    BY <1>2, <2>1
  <2>4. total_size(type) <= RB_PAGE_SPACE(StuffedHead(head))
    BY <1>1, <1>4, <2>1
  <2>5. /\ H2 \in Nat /\ H2 > G /\ H2 - T < Size
        /\ head' = H2 % Size
        /\ seq' = seq + 1 /\ tail' = tail
        /\ At(mem', G) = [type |-> type, id |-> seq + 1]
        /\ \A p \in T .. G - 1 : At(mem', p) = At(m, p)
        /\ \A p \in Positions : mem'[p].type = EOF => m[p].type = EOF \/ p = G % Size
    BY <1>1, <1>2, <2>1, <2>2, <2>3, <2>4, StoreAt
  <2>6. At(mem', G).type = type /\ At(mem', G).id = seq + 1 /\ Before(At(mem', G)) = seq
    BY <1>1, <2>5, TypesApart DEF Before
  <2>7. \A p \in T .. H : p \in T .. G - 1
    BY <1>2, <2>1
  <2>8. Q \in SUBSET Nat /\ \A p \in Q : p \in T .. H
    BY <1>2, <1>3
  <2>9. \A p \in Q : At(mem', p) = At(m, p)
    BY <2>5, <2>7, <2>8
  <2> HIDE DEF Q
  <2>10. Chain(mem', seq', U, H2, R)
    <3>1. /\ seq' \in Nat /\ seq' >= seq /\ seq' >= 1
          /\ At(mem', G).type \in RecordTypes \cup {PAD}
          /\ At(mem', G).id = seq'
      BY <1>1, <2>5, <2>6
    <3>2. At(mem', G).type # PAD /\ seq' = 1 => At(mem', G).type \in {"INFO", EOF}
      BY <1>1, <2>5, <2>6
    <3> QED
      BY <1>1, <2>1, <2>3, <2>5, <2>6, <2>8, <2>9, <3>1, <3>2, Extend
  <2>11. R \in SUBSET Nat
    BY <2>1, <2>8
  <2> HIDE DEF H2, R
  <2>12. H2 >= H /\ H2 # H
    BY <2>1, <2>5
  <2>13. U = H => Before(At(mem', U)) = seq
    <3>1. H \in T .. G - 1
      BY <1>2, <2>1
    <3> QED
      BY <2>1, <2>5, <3>1
  <2>14. U < H => At(mem', U) = At(mem, U)
    <3>1. U \in T .. G - 1 /\ (U < H => U \in T .. H - 1)
      BY <1>2, <2>1
    <3> QED
      BY <2>1, <2>5, <3>1
  <2> QED
    BY <2>5, <2>10, <2>11, <2>12, <2>13, <2>14
<1> QED
  BY <1>5, <1>6, <1>8, <1>9 DEF smon_rb_write

-----------------------------------------------------------------------------
(* The hooks.                                                              *)

\* What a call of smon_rb_write counts, and the only EOF it can bring.
LEMMA WriteCounts ==
  ASSUME RbTypeOK, NEW type \in RecordTypes, smon_rb_write(type)
  PROVE  /\ \E d \in {0, 1} : seq' = seq + d /\ items' = items + d
         /\ \A p \in Positions :
              mem'[p].type = EOF => mem[p] = mem'[p] \/ (type = EOF /\ mem'[p].id = seq + 1)
<1>1. /\ head \in Positions /\ mem \in [Positions -> Cells]
      /\ items \in Nat /\ seq \in Nat
  BY DEF RbTypeOK
<1>2. \E d \in {0, 1} : seq' = seq + d /\ items' = items + d
  BY <1>1 DEF smon_rb_write, WriteNoSpace, WriteInPage, WriteNextPage, WriteStuffOnly, Store, rbVars
<1>3. \A p \in Positions : Padded(mem, head)[p] = mem[p] \/ Padded(mem, head)[p].type = PAD
  BY <1>1 DEF Padded
<1>4. ASSUME NEW m, NEW h, Store(m, h, type), NEW p \in Positions, mem'[p].type = EOF
      PROVE  mem'[p] = m[p] \/ (type = EOF /\ mem'[p].id = seq + 1)
  <2>1. mem'[p] = IF p = h THEN [type |-> type, id |-> seq + 1]
                  ELSE IF p \in h + 1 .. h + total_size(type) - 1 THEN [type |-> BODY, id |-> seq + 1]
                  ELSE m[p]
    BY <1>4 DEF Store, Stored
  <2> QED
    BY <1>4, <2>1, TypesApart
<1>5. ASSUME NEW p \in Positions, mem'[p].type = EOF
      PROVE  mem[p] = mem'[p] \/ (type = EOF /\ mem'[p].id = seq + 1)
  <2>1. CASE WriteNoSpace(type)
    BY <2>1 DEF WriteNoSpace, rbVars
  <2>2. CASE WriteInPage(type)
    BY <1>4, <1>5, <2>2 DEF WriteInPage
  <2>3. CASE WriteNextPage(type)
    <3>1. mem'[p] = Padded(mem, head)[p] \/ (type = EOF /\ mem'[p].id = seq + 1)
      BY <1>4, <1>5, <2>3 DEF WriteNextPage
    <3> QED
      BY <1>3, <1>5, <3>1, TypesApart
  <2>4. CASE WriteStuffOnly(type)
    BY <1>3, <1>5, <2>4, TypesApart DEF WriteStuffOnly
  <2> QED
    BY <2>1, <2>2, <2>3, <2>4 DEF smon_rb_write
<1> QED
  BY <1>2, <1>5

\* The first record always fits.
LEMMA FirstFits ==
  ASSUME RbTypeOK, NEW type \in RecordTypes, smon_rb_write(type), seq = 0, head = 0, tail = 0
  PROVE  seq' = 1
<1>1. total_size(type) \in 1 .. PageSize /\ PageSize \in Nat \ {0} /\ Size \in Nat \ {0}
  BY RecordSize, SizePositive
<1>2. Size >= 2 * PageSize
  BY ConstantsAssumption DEF Size
<1>3. 0 \in Positions
  BY <1>1 DEF Positions
<1>4. RB_COUNT(0, 0) = 0
  BY <1>1, <1>3, Count
<1>5. RB_SPACE(0, 0) = Size - 1
  BY <1>1, <1>3, <1>4, Space
<1>6. RB_PAGE_SPACE(0) = PageSize
  BY <1>1 DEF RB_PAGE_SPACE, HEAD_OFFSET
<1>7. WriteInPage(type)
  <2>1. ~(total_size(type) > RB_SPACE(0, 0)) /\ ~(total_size(type) > RB_PAGE_SPACE(0))
    BY <1>1, <1>2, <1>5, <1>6
  <2> QED
    BY <2>1 DEF smon_rb_write, WriteNoSpace, WriteNextPage, WriteStuffOnly
<1> QED
  BY <1>7 DEF WriteInPage, Store

\* The writers: the first record is INFO or EOF, and an EOF comes when the last has left.
LEMMA HookWrites ==
  ASSUME Hook, RbTypeOK, HookTypeOK, ActiveCounts, FirstInv
  PROVE  /\ \/ \E type \in RecordTypes :
                 /\ smon_rb_write(type)
                 /\ seq = 0 => type \in {"INFO", EOF}
                 /\ type = EOF => active' = 0
            \/ irq_work_queue
            \/ UNCHANGED rbVars
         /\ active' > 0 => active > 0
<1> DEFINE Wr == \/ \E type \in RecordTypes :
                      /\ smon_rb_write(type)
                      /\ seq = 0 => type \in {"INFO", EOF}
                      /\ type = EOF => active' = 0
                 \/ irq_work_queue
                 \/ UNCHANGED rbVars
           Ac == active' > 0 => active > 0
<1>0. /\ active \in Nat /\ Root \in Tasks
      /\ \A t \in {"INFO", "PMC", "RAPL", "FORK"} : t \in RecordTypes /\ t # EOF
      /\ \A t \in TaskSamples : t \in RecordTypes /\ t # EOF
      /\ EOF \in RecordTypes
  BY KnownTypes, TypesApart, ChannelAssumption DEF HookTypeOK, TaskSamples
<1>1. CASE Exec
  BY <1>0, <1>1 DEF Exec
<1>2. ASSUME NEW w \in Tasks, NEW type \in TaskSamples, TaskSample(w, type) PROVE Wr /\ Ac
  <2>1. smon_rb_write(type) /\ seq # 0 /\ active' = active
    BY <1>2 DEF TaskSample, FirstInv, hookVars
  <2> QED
    BY <1>0, <2>1
<1>3. CASE RaplTick
  BY <1>0, <1>3 DEF RaplTick, FirstInv, hookVars
<1>4. ASSUME NEW w \in Tasks, NEW c \in Tasks, Fork(w, c) PROVE Wr /\ Ac
  <2>1. seq # 0 /\ task[w] = "run"
    BY <1>4 DEF Fork, FirstInv
  <2>2. active > 0
    <3>1. IsFiniteSet(Holders) /\ w \in Holders
      BY <2>1, ChannelAssumption, FS_Subset DEF Holders
    <3> QED
      BY <1>0, <3>1, FS_EmptySet DEF ActiveCounts
  <2>3. smon_rb_write("FORK") \/ UNCHANGED rbVars
    BY <1>4 DEF Fork
  <2> QED
    BY <1>0, <2>1, <2>2, <2>3
<1>5. ASSUME NEW w \in Tasks, ExitSave(w) PROVE Wr /\ Ac
  <2>1. smon_rb_write("PMC") /\ seq # 0 /\ active' = active
    BY <1>5 DEF ExitSave, FirstInv
  <2> QED
    BY <1>0, <2>1
<1>6. CASE ExitWait
  BY <1>6 DEF ExitWait
<1>7. ASSUME NEW w \in Tasks, ReleaseRb(w) PROVE Wr /\ Ac
  <2>1. UNCHANGED rbVars /\ active' = active - 1
    BY <1>7 DEF ReleaseRb
  <2> QED
    BY <1>0, <2>1
<1>8. ASSUME NEW w \in Tasks, WriteEof(w) PROVE Wr /\ Ac
  <2>1. smon_rb_write(EOF) /\ task[w] = "eof" /\ active' = active
    BY <1>8 DEF WriteEof
  <2>2. active' = 0
    BY <2>1 DEF ActiveCounts
  <2> QED
    BY <1>0, <2>1, <2>2
<1>9. ASSUME NEW w \in Tasks, AlertReader(w) PROVE Wr /\ Ac
  BY <1>9 DEF AlertReader
<1>10. CASE CancelRapl
  BY <1>10 DEF CancelRapl
<1> QED
  BY <1>1, <1>2, <1>3, <1>4, <1>5, <1>6, <1>7, <1>8, <1>9, <1>10 DEF Hook, ExitStep

LEMMA HookFirst ==
  ASSUME Hook, RbTypeOK, HookTypeOK, FirstInv, seq' >= seq, seq' = 0
  PROVE  FirstInv'
<1>1. seq = 0 /\ head = 0 /\ tail = 0 /\ ~rapl /\ \A w \in Tasks : task[w] # "run"
  BY DEF FirstInv, RbTypeOK
<1>2. \A type \in RecordTypes : ~smon_rb_write(type)
  BY <1>1, FirstFits
<1>3. /\ ~Exec /\ ~RaplTick
      /\ \A w \in Tasks : ~ExitSave(w) /\ ~WriteEof(w)
      /\ \A w \in Tasks, type \in TaskSamples : ~TaskSample(w, type)
      /\ \A w, c \in Tasks : ~Fork(w, c)
  BY <1>1, <1>2, KnownTypes DEF Exec, RaplTick, ExitSave, WriteEof, TaskSample, Fork
<1>4. ASSUME UNCHANGED <<head, tail>>, rapl' = rapl \/ rapl' = FALSE,
             NEW w \in Tasks, NEW s, s # "run", task' = [task EXCEPT ![w] = s]
      PROVE  FirstInv'
  BY <1>1, <1>4 DEF FirstInv, HookTypeOK
<1>5. CASE ExitWait
  BY <1>4, <1>5, ChannelAssumption DEF ExitWait, rbVars
<1>6. ASSUME NEW w \in Tasks, ReleaseRb(w) PROVE FirstInv'
  BY <1>4, <1>6 DEF ReleaseRb, rbVars, AfterRelease
<1>7. ASSUME NEW w \in Tasks, AlertReader(w) PROVE FirstInv'
  BY <1>4, <1>7 DEF AlertReader, irq_work_queue, AfterRelease
<1>8. CASE CancelRapl
  BY <1>4, <1>8, ChannelAssumption DEF CancelRapl, rbVars
<1> QED
  BY <1>3, <1>5, <1>6, <1>7, <1>8 DEF Hook, ExitStep

LEMMA SameOrder ==
  ASSUME OrderInv, UNCHANGED <<head, tail, mem, seq, utail, consumed, last, eof>>
  PROVE  OrderInv'
BY DEF OrderInv, Window, Cursor

LEMMA HookOrder ==
  ASSUME Hook, ChInv, OInv
  PROVE  OInv'
<1>1. RbTypeOK /\ HookTypeOK /\ UserTypeOK /\ ActiveCounts /\ EofInv /\ FirstInv
  BY ChTypeParts DEF ChInv, OInv
<1>2. UNCHANGED userVars
  BY HookLeavesTool
<1>3. active \in Nat /\ seq \in Nat /\ items \in Nat /\ last \in Nat /\ n_samples \in Nat /\ Batch \in Nat
  BY <1>1, ConstantsAssumption DEF RbTypeOK, HookTypeOK, UserTypeOK
<1>4. active' > 0 => active > 0
  BY <1>1, HookWrites
<1>5. ASSUME NEW type \in RecordTypes, smon_rb_write(type),
             seq = 0 => type \in {"INFO", EOF}, type = EOF => active' = 0
      PROVE  OInv'
  <2>1. /\ \E d \in {0, 1} : seq' = seq + d /\ items' = items + d
        /\ \A p \in Positions :
             mem'[p].type = EOF => mem[p] = mem'[p] \/ (type = EOF /\ mem'[p].id = seq + 1)
    BY <1>1, <1>5, WriteCounts
  <2>2. EofInv'
    BY <1>1, <1>4, <1>5, <2>1 DEF EofInv
  <2>3. FirstInv'
    <3>1. seq' \in Nat /\ seq' >= seq
      BY <1>3, <2>1
    <3> QED
      BY <1>1, <3>1, HookFirst DEF FirstInv
  <2>4. ASSUME ~overrun' PROVE OrderInv'
    <3>1. OrderInv
      BY <1>2, <2>4 DEF OInv, userVars
    <3>2. PICK T \in Nat, U \in Nat, H \in Nat, S \in SUBSET Nat :
            Window(T, U, H) /\ Chain(mem, seq, U, H, S) /\ Cursor(U, H)
      BY <3>1 DEF OrderInv
    <3>3. seq = 0 => head = 0 /\ type \in {"INFO", EOF}
      BY <1>1, <1>5 DEF FirstInv
    <3>4. PICK H2 \in Nat, R \in SUBSET Nat :
            /\ H2 >= H /\ H2 - T < Size
            /\ head' = H2 % Size /\ tail' = tail
            /\ Chain(mem', seq', U, H2, R)
            /\ U < H => At(mem', U) = At(mem, U)
            /\ U = H => IF H2 = H THEN seq' = seq ELSE Before(At(mem', U)) = seq
      BY <1>1, <1>5, <3>2, <3>3, WriteChain
    <3>5. /\ utail' = utail /\ consumed' = consumed /\ last' = last /\ eof' = eof
          /\ T <= U /\ U <= H
      BY <1>2, <3>2 DEF userVars, Window
    <3>6. Window(T, U, H2)'
      BY <3>2, <3>4, <3>5 DEF Window
    <3>7. Cursor(U, H2)'
      BY <3>2, <3>4, <3>5 DEF Cursor
    <3> QED
      BY <3>4, <3>6, <3>7 DEF OrderInv
  <2>5. ASSUME ~overrun' PROVE BatchInv'
    <3>1. BatchInv
      BY <1>2, <2>5 DEF OInv, userVars
    <3>2. SUFFICES ASSUME rd = "read", ~hup
                   PROVE  /\ n_samples <= Batch
                          /\ seq' >= last + Batch - n_samples
                          /\ \A p \in Positions :
                               mem'[p].type = EOF => mem'[p].id > last + Batch - n_samples
      BY <1>2 DEF BatchInv, userVars
    <3>3. /\ n_samples <= Batch
          /\ seq >= last + Batch - n_samples
          /\ \A p \in Positions : mem[p].type = EOF => mem[p].id > last + Batch - n_samples
      BY <3>1, <3>2 DEF BatchInv
    <3>4. ASSUME NEW p \in Positions, mem'[p].type = EOF
          PROVE  mem'[p].id > last + Batch - n_samples
      BY <1>3, <2>1, <3>3, <3>4
    <3> QED
      BY <1>3, <2>1, <3>3, <3>4
  <2>6. ASSUME ~overrun' PROVE RoundInv'
    <3>1. RoundInv
      BY <1>2, <2>6 DEF OInv, userVars
    <3>2. items' = seq' - (last - IF rd = "read" THEN n_samples ELSE 0)
      <4> DEFINE d == last - IF rd = "read" THEN n_samples ELSE 0
      <4>1. d \in Int /\ items = seq - d
        BY <1>3, <3>1 DEF RoundInv
      <4> HIDE DEF d
      <4>2. PICK x \in {0, 1} : seq' = seq + x /\ items' = items + x
        BY <2>1
      <4>4. items' = seq' - d
        BY <1>3, <4>1, <4>2
      <4> QED
        BY <4>4 DEF d
    <3> QED
      BY <1>2, <3>1, <3>2 DEF RoundInv, userVars
  <2> QED
    BY <2>2, <2>3, <2>4, <2>5, <2>6 DEF OInv
<1>6. ASSUME irq_work_queue \/ UNCHANGED rbVars PROVE OInv'
  <2>1. UNCHANGED <<head, tail, mem, seq, items>>
    BY <1>6 DEF irq_work_queue, rbVars
  <2>2. EofInv'
    BY <1>1, <1>4, <2>1 DEF EofInv
  <2>3. FirstInv'
    BY <1>1, <1>3, <2>1, HookFirst DEF FirstInv
  <2>4. ~overrun' => OrderInv'
    BY <1>2, <2>1, SameOrder DEF userVars, OInv
  <2>5. ~overrun' => BatchInv' /\ RoundInv'
    BY <1>2, <2>1 DEF userVars, OInv, BatchInv, RoundInv
  <2> QED
    BY <2>2, <2>3, <2>4, <2>5 DEF OInv
<1> QED
  BY <1>1, <1>5, <1>6, HookWrites

-----------------------------------------------------------------------------
(* The tool.                                                               *)

\* What the tool has at its cursor.
LEMMA CursorFacts ==
  ASSUME RbTypeOK, UserTypeOK,
         NEW T \in Nat, NEW U \in Nat, NEW H \in Nat, NEW S \in SUBSET Nat,
         Window(T, U, H), Chain(mem, seq, U, H, S), Cursor(U, H)
  PROVE  /\ At(mem, U) = mem[utail]
         /\ RB_COUNT(head, utail) = H - U /\ RB_COUNT(head, tail) = H - T
         /\ utail = head <=> U = H
         /\ last \in 0 .. seq
         /\ ~eof /\ U = H => last = seq
         /\ U < H => /\ mem[utail].type \in RecordTypes \cup {PAD}
                     /\ mem[utail].id \in 1 .. seq
                     /\ TypesAt(utail) = {mem[utail].type}
                     /\ ~eof /\ mem[utail].type = PAD => mem[utail].id = last
                     /\ ~eof /\ mem[utail].type # PAD => mem[utail].id = last + 1
<1>1. /\ T <= U /\ U <= H /\ H - T < Size
      /\ tail = T % Size /\ utail = U % Size /\ head = H % Size
      /\ Size \in Nat \ {0} /\ seq \in Nat /\ last \in Nat
  BY SizePositive DEF Window, RbTypeOK, UserTypeOK
<1>2. At(mem, U) = mem[utail]
  BY <1>1 DEF At
<1>3. RB_COUNT(head, utail) = H - U /\ RB_COUNT(head, tail) = H - T
  <2>1. H - U < Size /\ T <= H
    BY <1>1
  <2> QED
    BY <1>1, <2>1, Distance
<1>4. utail = head <=> U = H
  <2>1. H - U < Size /\ U - H < Size
    BY <1>1
  <2> QED
    BY <1>1, <2>1, Apart
<1>5. U < H => /\ mem[utail].type \in RecordTypes \cup {PAD}
               /\ mem[utail].id \in 1 .. seq
  BY <1>2 DEF Chain, Link
<1>6. U < H /\ ~eof => /\ mem[utail].type = PAD => mem[utail].id = last
                       /\ mem[utail].type # PAD => mem[utail].id = last + 1
  <2>1. U < H /\ ~eof => last = Before(mem[utail])
    BY <1>1, <1>2 DEF Cursor
  <2> QED
    BY <1>1, <1>5, <2>1 DEF Before
<1>7. U < H => TypesAt(utail) = {mem[utail].type}
  BY <1>5 DEF TypesAt
<1>8. ~eof /\ U = H => last = seq
  BY DEF Cursor
<1>9. last \in 0 .. seq
  <2>1. CASE eof
    BY <1>1, <1>2, <1>5, <2>1 DEF Cursor
  <2>2. CASE ~eof /\ U = H
    BY <1>1, <1>8, <2>2
  <2>3. CASE ~eof /\ U < H
    BY <1>1, <1>5, <1>6, <2>3
  <2> QED
    BY <1>1, <2>1, <2>2, <2>3
<1> QED
  BY <1>2, <1>3, <1>4, <1>5, <1>6, <1>7, <1>8, <1>9

\* A round that polled POLLIN has what it prints, and the cursor is never at head or at the EOF.
LEMMA PollinRound ==
  ASSUME RbTypeOK, UserTypeOK, BatchInv, rd = "read", ~hup, n_samples < nr_samples, ~eof,
         NEW T \in Nat, NEW U \in Nat, NEW H \in Nat, NEW S \in SUBSET Nat,
         Window(T, U, H), Chain(mem, seq, U, H, S), Cursor(U, H)
  PROVE  /\ n_samples < Batch
         /\ U < H
         /\ mem[utail].type # EOF
<1>1. /\ n_samples \in Nat /\ Batch \in Nat /\ last \in Nat /\ seq \in Nat /\ utail \in Positions
      /\ U <= H
  BY ConstantsAssumption DEF UserTypeOK, RbTypeOK, Window
<1>2. n_samples < Batch
  BY DEF nr_samples
<1>3. /\ seq >= last + Batch - n_samples
      /\ \A p \in Positions : mem[p].type = EOF => mem[p].id > last + Batch - n_samples
  BY DEF BatchInv
<1>4. U # H
  BY <1>1, <1>2, <1>3, CursorFacts
<1>5. mem[utail].type # EOF
  <2>1. SUFFICES ASSUME mem[utail].type = EOF PROVE FALSE
    OBVIOUS
  <2>2. mem[utail].id = last + 1
    BY <1>1, <1>4, <2>1, CursorFacts, TypesApart
  <2>3. mem[utail].id > last + Batch - n_samples
    BY <1>1, <1>3, <2>1
  <2> QED
    BY <1>1, <1>2, <2>2, <2>3
<1> QED
  BY <1>1, <1>2, <1>4, <1>5

\* What all the steps of read_samples share.
ReadFrame ==
  /\ rd = "read" /\ n_samples < nr_samples /\ ~eof
  /\ UNCHANGED <<head, tail, items, mem, irq, seq, active, task, rapl, hup>>
  /\ overrun' = (overrun \/ RB_COUNT(head, utail) = 0)

LEMMA ReadFrames == Read => ReadFrame
BY DEF Read, ReadSample, ReadPad, ReadEof, ReadUnknown, Observe, ReadFrame, rbVars, hookVars

\* The header at the cursor is left behind: the next record is in its turn.
LEMMA AdvanceCursor ==
  ASSUME RbTypeOK, UserTypeOK, ReadFrame,
         NEW T \in Nat, NEW U \in Nat, NEW H \in Nat, NEW S \in SUBSET Nat,
         Window(T, U, H), Chain(mem, seq, U, H, S), Cursor(U, H), U < H,
         mem[utail].type # EOF,
         NEW k \in Nat, k = Words(mem, U),
         utail' = (utail + k) % Size, consumed' = consumed + k, eof' = eof,
         last' = mem[utail].id
  PROVE  OrderInv'
<1>0. PICK R \in SUBSET Nat : R = S \ {U}
  OBVIOUS
<1>1. /\ T <= U /\ U <= H /\ H - T < Size
      /\ tail = T % Size /\ utail = U % Size /\ head = H % Size /\ consumed = U - T
      /\ tail' = tail /\ head' = head /\ mem' = mem /\ seq' = seq /\ ~eof
  BY DEF Window, ReadFrame
<1>2. At(mem, U) = mem[utail] /\ seq \in Nat
  BY CursorFacts DEF RbTypeOK
<1>3. PICK V \in Nat : V = NextAt(mem, U) /\ V = U + k
  <2>1. U + k \in Nat /\ NextAt(mem, U) = U + k
    BY DEF NextAt
  <2> QED
    BY <2>1
<1>4. /\ Chain(mem, seq, V, H, R)
      /\ U < V /\ V <= H
      /\ V = H => At(mem, U).id = seq
      /\ V # H => At(mem, U).id = Before(At(mem, V))
  <2>1. At(mem, U).type # EOF
    BY <1>2
  <2>2. /\ Chain(mem, seq, NextAt(mem, U), H, R)
        /\ U < NextAt(mem, U) /\ NextAt(mem, U) <= H
        /\ NextAt(mem, U) = H => At(mem, U).id = seq
        /\ NextAt(mem, U) # H => At(mem, U).id = Before(At(mem, NextAt(mem, U)))
    BY <1>0, <1>2, <2>1, Consume
  <2> QED
    BY <1>3, <2>2
<1>5. Window(T, V, H)'
  <2>1. utail' = V % Size
    BY <1>1, <1>3, Forward
  <2>2. T <= V /\ consumed' = V - T
    BY <1>1, <1>3, <1>4
  <2> QED
    BY <1>1, <1>4, <2>1, <2>2 DEF Window
<1>6. Cursor(V, H)'
  BY <1>1, <1>2, <1>4 DEF Cursor
<1>7. Chain(mem', seq', V, H, R)
  BY <1>1, <1>4
<1> QED
  BY <1>4, <1>5, <1>6, <1>7 DEF OrderInv

\* EofInv and FirstInv are about the driver only.
LEMMA ReadOrder ==
  ASSUME ChInv, OInv, Read
  PROVE  OInv'
<1>1. RbTypeOK /\ HookTypeOK /\ UserTypeOK /\ EofInv /\ FirstInv
  BY ChTypeParts DEF ChInv, OInv
<1>2. ReadFrame
  BY ReadFrames
<1>3. EofInv' /\ FirstInv'
  BY <1>1, <1>2 DEF ReadFrame, EofInv, FirstInv
<1>4. SUFFICES ASSUME ~overrun' PROVE OrderInv' /\ BatchInv' /\ RoundInv'
  BY <1>3 DEF OInv
<1>5. ~overrun /\ RB_COUNT(head, utail) # 0 /\ OrderInv /\ BatchInv /\ RoundInv
  BY <1>2, <1>4 DEF ReadFrame, OInv
<1>6. PICK T \in Nat, U \in Nat, H \in Nat, S \in SUBSET Nat :
        Window(T, U, H) /\ Chain(mem, seq, U, H, S) /\ Cursor(U, H)
  BY <1>5 DEF OrderInv
<1>7. U < H
  BY <1>1, <1>5, <1>6, CursorFacts DEF Window
<1>8. /\ mem[utail].type \in RecordTypes \cup {PAD}
      /\ TypesAt(utail) = {mem[utail].type}
      /\ mem[utail].type = PAD => mem[utail].id = last
      /\ mem[utail].type # PAD => mem[utail].id = last + 1
      /\ At(mem, U) = mem[utail]
  BY <1>1, <1>2, <1>6, <1>7, CursorFacts DEF ReadFrame
<1>9. /\ rd = "read" /\ ~eof /\ n_samples < nr_samples
      /\ UNCHANGED <<head, tail, items, mem, seq, hup>>
  BY <1>2 DEF ReadFrame
<1>10. /\ n_samples \in Nat /\ Batch \in Nat /\ last \in Nat /\ seq \in Nat /\ items \in Nat
       /\ consumed \in Nat /\ utail \in Positions /\ head \in Positions /\ hup \in BOOLEAN
       /\ \A p \in Positions : mem[p].id \in Nat
  BY <1>1, ConstantsAssumption DEF UserTypeOK, RbTypeOK, Cells
<1>11. /\ items = seq - (last - n_samples)
       /\ n_samples <= consumed
  BY <1>5, <1>9, <1>10 DEF RoundInv
<1>12. ~hup => /\ n_samples < Batch
               /\ mem[utail].type # EOF
               /\ seq >= last + Batch - n_samples
               /\ \A p \in Positions : mem[p].type = EOF => mem[p].id > last + Batch - n_samples
  BY <1>1, <1>5, <1>6, <1>9, PollinRound DEF BatchInv
<1>13. ASSUME NEW type \in SampleTypes, ReadSample(type)
       PROVE  OrderInv' /\ BatchInv' /\ RoundInv'
  <2>1. /\ mem[utail].type = type /\ type # EOF /\ type # PAD /\ type \in RecordTypes
    BY <1>8, <1>13, TypesApart DEF ReadSample, RecordTypes
  <2> DEFINE k == TotalSize[type]
  <2>2. k \in Nat /\ k >= 1 /\ k = Words(mem, U)
    BY <1>8, <2>1, ConstantsAssumption DEF Words, total_size
  <2>3. /\ utail' = (utail + k) % Size /\ consumed' = consumed + k /\ n_samples' = n_samples + 1
        /\ last' = mem[utail].id /\ eof' = eof /\ rd' = rd
    BY <1>13 DEF ReadSample, UserAdvance
  <2> HIDE DEF k
  <2>4. OrderInv'
    BY <1>1, <1>2, <1>6, <1>7, <2>1, <2>2, <2>3, AdvanceCursor
  <2>5. last' = last + 1
    BY <1>8, <2>1, <2>3
  <2>6. BatchInv'
    <3>1. SUFFICES ASSUME ~hup PROVE /\ n_samples' <= Batch
                                     /\ seq >= last' + Batch - n_samples'
                                     /\ \A p \in Positions :
                                          mem[p].type = EOF => mem[p].id > last' + Batch - n_samples'
      BY <1>9 DEF BatchInv
    <3>2. last' + Batch - n_samples' = last + Batch - n_samples
      BY <1>10, <2>3, <2>5
    <3> QED
      BY <1>10, <1>12, <2>3, <3>1, <3>2
  <2>7. RoundInv'
    <3>1. items = seq - (last' - n_samples') /\ n_samples' <= consumed'
      BY <1>10, <1>11, <2>2, <2>3, <2>5
    <3> QED
      BY <1>9, <2>3, <3>1 DEF RoundInv
  <2> QED
    BY <2>4, <2>6, <2>7
<1>14. CASE ReadPad
  <2>1. mem[utail].type = PAD /\ mem[utail].type # EOF
    BY <1>8, <1>14, TypesApart DEF ReadPad
  <2> DEFINE k == RB_PAGE_SPACE(utail)
  <2>2. /\ k \in Nat /\ k >= 1 /\ k = Words(mem, U)
        /\ UserNextPage(utail) = (utail + k) % Size
    <3>1. k \in 1 .. PageSize /\ UserNextPage(utail) = (utail + k) % Size
      BY <1>10, Stuffed DEF UserNextPage
    <3>2. utail = U % Size
      BY <1>6 DEF Window
    <3> QED
      BY <1>8, <2>1, <3>1, <3>2, SizePositive DEF Words
  <2>3. RB_COUNT(UserNextPage(utail), utail) = k
    <3>1. /\ NextAt(mem, U) = U + k /\ NextAt(mem, U) \in Nat /\ NextAt(mem, U) <= H
      BY <1>1, <1>6, <1>7, <1>8, <2>1, <2>2, Consume DEF NextAt, RbTypeOK
    <3>2. utail = U % Size /\ T <= U /\ H - T < Size /\ Size \in Nat
      BY <1>6, SizePositive DEF Window
    <3> HIDE DEF k
    <3>3. UserNextPage(utail) = (U + k) % Size
      BY <2>2, <3>2, Forward
    <3>4. U + k \in Nat /\ U <= U + k /\ (U + k) - U < Size /\ (U + k) - U = k
      BY <2>2, <3>1, <3>2
    <3>5. RB_COUNT((U + k) % Size, U % Size) = (U + k) - U
      BY <3>4, Distance
    <3> QED
      BY <3>2, <3>3, <3>4, <3>5
  <2>4. /\ utail' = (utail + k) % Size /\ consumed' = consumed + k /\ n_samples' = n_samples
        /\ last' = last /\ eof' = eof /\ rd' = rd
    BY <1>14, <2>2, <2>3 DEF ReadPad
  <2> HIDE DEF k
  <2>5. OrderInv'
    BY <1>1, <1>2, <1>6, <1>7, <1>8, <2>1, <2>2, <2>4, AdvanceCursor
  <2>6. BatchInv'
    BY <1>5, <1>9, <2>4 DEF BatchInv
  <2>7. RoundInv'
    <3>1. n_samples' <= consumed'
      BY <1>10, <1>11, <2>2, <2>4
    <3> QED
      BY <1>5, <1>9, <2>4, <3>1 DEF RoundInv
  <2> QED
    BY <2>5, <2>6, <2>7
<1>15. CASE ReadEof
  <2>1. mem[utail].type = EOF /\ hup
    BY <1>8, <1>10, <1>12, <1>15 DEF ReadEof
  <2>2. /\ n_samples' = n_samples + 1 /\ last' = mem[utail].id /\ eof' = TRUE
        /\ rd' = rd /\ utail' = utail /\ consumed' = consumed
    BY <1>15 DEF ReadEof
  <2>3. last' = last + 1
    BY <1>8, <2>1, <2>2, TypesApart
  <2>4. OrderInv'
    <3>1. Window(T, U, H)'
      BY <1>6, <1>9, <2>2 DEF Window
    <3>2. Cursor(U, H)'
      BY <1>7, <1>8, <1>9, <2>1, <2>2 DEF Cursor
    <3>3. Chain(mem', seq', U, H, S)
      BY <1>6, <1>9
    <3> QED
      BY <3>1, <3>2, <3>3 DEF OrderInv
  <2>5. BatchInv'
    BY <1>9, <2>1 DEF BatchInv
  <2>6. RoundInv'
    <3>1. items = seq - (last' - n_samples') /\ n_samples' <= consumed' + 1
      BY <1>10, <1>11, <2>2, <2>3
    <3> QED
      BY <1>9, <2>1, <2>2, <3>1 DEF RoundInv
  <2> QED
    BY <2>4, <2>5, <2>6
<1>16. ~ReadUnknown
  <2>1. UNKNOWN \notin RecordTypes \cup {PAD}
    BY ChannelAssumption DEF UNKNOWN, RecordTypes, EOF, PAD
  <2> QED
    BY <1>8, <2>1 DEF ReadUnknown
<1> QED
  BY <1>13, <1>14, <1>15, <1>16 DEF Read

\* SMON_IOCREAD returns exactly what the round read, and a POLLHUP round that ends without
\* reading at head ends at the EOF: there are fewer records than bytes in the buffer.
LEMMA CommitOrder ==
  ASSUME ChInv, OInv, Commit
  PROVE  OInv'
<1>1. RbTypeOK /\ HookTypeOK /\ UserTypeOK /\ EofInv /\ FirstInv
  BY ChTypeParts DEF ChInv, OInv
<1>2. /\ rd = "read" /\ (n_samples >= nr_samples \/ eof)
      /\ smon_rb_read(n_samples, consumed)
      /\ consumed' = 0 /\ rd' = IF hup THEN "done" ELSE "poll"
      /\ UNCHANGED <<active, task, rapl, hup, utail, n_samples, eof, last, overrun>>
  BY DEF Commit, hookVars
<1>3. /\ tail' = (IF consumed > RB_COUNT(head, tail) THEN head ELSE (tail + consumed) % Size)
      /\ items' = (IF n_samples > items THEN 0 ELSE items - n_samples)
      /\ UNCHANGED <<head, mem, irq, seq>>
  BY <1>2 DEF smon_rb_read, HEAD_TRIM_PAGE
<1>4. /\ n_samples \in Nat /\ last \in Nat /\ seq \in Nat /\ items \in Nat /\ consumed \in Nat
      /\ Size \in Nat \ {0} /\ hup \in BOOLEAN
  BY <1>1, SizePositive DEF UserTypeOK, RbTypeOK
<1>5. EofInv'
  BY <1>1, <1>2, <1>3 DEF EofInv
<1>6. FirstInv'
  <2>1. SUFFICES ASSUME seq = 0 PROVE tail' = 0
    BY <1>1, <1>2, <1>3 DEF FirstInv
  <2>2. head = 0 /\ tail = 0
    BY <1>1, <2>1 DEF FirstInv
  <2>3. 0 \in Positions
    BY <1>4 DEF Positions
  <2>4. RB_COUNT(head, tail) = 0
    BY <1>4, <2>2, <2>3, Count
  <2>5. (0 + 0) % Size = 0
    BY <1>4
  <2> QED
    BY <1>3, <1>4, <2>2, <2>4, <2>5
<1>7. SUFFICES ASSUME ~overrun PROVE OrderInv' /\ BatchInv' /\ RoundInv'
  BY <1>2, <1>5, <1>6 DEF OInv
<1>8. OrderInv /\ RoundInv
  BY <1>7 DEF OInv
<1>9. PICK T \in Nat, U \in Nat, H \in Nat, S \in SUBSET Nat :
        Window(T, U, H) /\ Chain(mem, seq, U, H, S) /\ Cursor(U, H)
  BY <1>8 DEF OrderInv
<1>10. /\ T <= U /\ U <= H /\ H - T < Size /\ consumed = U - T
       /\ tail = T % Size /\ utail = U % Size /\ head = H % Size
  BY <1>9 DEF Window
<1>11. RB_COUNT(head, tail) = H - T /\ last \in 0 .. seq
  BY <1>1, <1>9, CursorFacts
<1>12. tail' = U % Size
  <2>1. tail' = ((T % Size) + consumed) % Size
    BY <1>3, <1>10, <1>11
  <2>2. ((T % Size) + consumed) % Size = (T + consumed) % Size
    BY <1>4, Forward
  <2>3. T + consumed = U
    BY <1>10
  <2> QED
    BY <2>1, <2>2, <2>3
<1>13. OrderInv'
  <2>1. Window(U, U, H)'
    <3>1. U <= U /\ H - U < Size /\ U - U = 0
      BY <1>4, <1>10
    <3> QED
      BY <1>2, <1>3, <1>10, <1>12, <3>1 DEF Window
  <2>2. Cursor(U, H)' /\ Chain(mem', seq', U, H, S)
    BY <1>2, <1>3, <1>9 DEF Cursor
  <2> QED
    BY <2>1, <2>2 DEF OrderInv
<1>14. BatchInv'
  BY <1>2 DEF BatchInv
<1>15. /\ items = seq - (last - n_samples)
       /\ n_samples <= consumed + (IF eof THEN 1 ELSE 0)
       /\ eof => hup
  BY <1>2, <1>8 DEF RoundInv
<1>16. items' = seq - last
  BY <1>3, <1>4, <1>11, <1>15
<1>17. hup => eof
  <2>1. SUFFICES ASSUME hup, ~eof PROVE FALSE
    OBVIOUS
  <2>2. n_samples >= 4 * Size /\ n_samples <= consumed
    BY <1>2, <1>4, <1>15, <2>1 DEF nr_samples
  <2> QED
    BY <1>4, <1>10, <2>2
<1>18. RoundInv'
  <2>1. rd' = "done" => eof'
    BY <1>2, <1>17
  <2>2. rd' = "poll" => ~eof'
    BY <1>2, <1>15
  <2>3. rd' \in {"done", "poll"}
    BY <1>2
  <2>4. eof' => hup'
    BY <1>2, <1>15
  <2>5. items' = seq' - (last' - 0)
    BY <1>2, <1>3, <1>4, <1>16
  <2> QED
    BY <1>2, <2>1, <2>2, <2>3, <2>4, <2>5 DEF RoundInv
<1> QED
  BY <1>13, <1>14, <1>18

\* poll: a POLLIN round starts with its samples in the buffer and a writer still there.
LEMMA PollOrder ==
  ASSUME ChInv, OInv, PollSleep \/ PollReady \/ PollInterrupted \/ WakeUp
  PROVE  OInv'
<1>1. RbTypeOK /\ HookTypeOK /\ UserTypeOK /\ EofInv /\ FirstInv
  BY ChTypeParts DEF ChInv, OInv
<1>2. /\ UNCHANGED <<head, tail, items, mem, seq, active, task, rapl>>
      /\ UNCHANGED <<utail, consumed, last, overrun>>
  BY DEF PollSleep, PollReady, PollInterrupted, WakeUp, smon_wake_up_reader, rbVars, hookVars
<1>3. EofInv' /\ FirstInv'
  BY <1>1, <1>2 DEF EofInv, FirstInv
<1>4. SUFFICES ASSUME ~overrun PROVE OrderInv' /\ BatchInv' /\ RoundInv'
  BY <1>2, <1>3 DEF OInv
<1>5. OrderInv /\ BatchInv /\ RoundInv
  BY <1>4 DEF OInv
<1>6. CASE PollReady
  <2>1. /\ rd = "poll" /\ rd' = "read" /\ hup' = ~POLLIN /\ n_samples' = 0 /\ eof' = FALSE
    BY <1>6 DEF PollReady
  <2>2. ~eof /\ consumed = 0 /\ items = seq - (last - 0)
    BY <1>5, <2>1 DEF RoundInv
  <2>3. last \in Nat /\ seq \in Nat /\ items \in Nat /\ Batch \in Nat
    BY <1>1, ConstantsAssumption DEF RbTypeOK, UserTypeOK
  <2>4. OrderInv'
    <3>1. eof' = eof
      <4>1. eof \in BOOLEAN
        BY <1>1 DEF UserTypeOK
      <4> QED
        BY <2>1, <2>2, <4>1
    <3> QED
      BY <1>2, <1>5, <3>1, SameOrder
  <2>5. BatchInv'
    <3>1. SUFFICES ASSUME ~hup' PROVE BatchInv'
      BY DEF BatchInv
    <3>2. items >= Batch /\ active > 0
      BY <2>1, <3>1 DEF POLLIN, smon_rb_batch_available, smon_rb_is_active
    <3>3. seq >= last + Batch - 0 /\ Batch >= 0
      BY <2>2, <2>3, <3>2
    <3>4. \A p \in Positions : mem'[p].type # EOF
      BY <1>1, <1>2, <3>2 DEF EofInv
    <3> QED
      BY <1>2, <2>1, <3>3, <3>4 DEF BatchInv
  <2>6. RoundInv'
    BY <1>2, <2>1, <2>2, <2>3 DEF RoundInv
  <2> QED
    BY <2>4, <2>5, <2>6
<1>7. CASE PollSleep \/ PollInterrupted \/ WakeUp
  <2>1. /\ UNCHANGED <<hup, n_samples, eof>>
        /\ \/ rd' = rd
           \/ rd \in {"poll", "sleep"} /\ rd' \in {"poll", "sleep", "interrupted"}
    BY <1>7 DEF PollSleep, PollInterrupted, WakeUp
  <2>2. OrderInv'
    BY <1>2, <1>5, <2>1, SameOrder
  <2>3. BatchInv'
    BY <1>2, <1>5, <2>1 DEF BatchInv
  <2>4. RoundInv'
    BY <1>2, <1>5, <2>1 DEF RoundInv
  <2> QED
    BY <2>2, <2>3, <2>4
<1> QED
  BY <1>6, <1>7

-----------------------------------------------------------------------------
(* The theorems.                                                           *)

FullInv == ChInv /\ OInv

LEMMA OrderInit == ChInit => OInv
<1> SUFFICES ASSUME ChInit PROVE OInv
  OBVIOUS
<1>1. Size \in Nat \ {0} /\ 0 % Size = 0 /\ 0 \in Positions
  BY SizePositive DEF Positions
<1>2. \A p \in Positions : mem[p].type # EOF
  BY TypesApart DEF ChInit, RbInit
<1>3. EofInv
  BY <1>2 DEF EofInv
<1>4. FirstInv
  BY DEF ChInit, RbInit, FirstInv
<1>5. OrderInv
  <2>1. Window(0, 0, 0)
    BY <1>1 DEF ChInit, RbInit, Window
  <2>2. Chain(mem, seq, 0, 0, {})
    BY <1>2 DEF Chain
  <2>3. Cursor(0, 0)
    BY DEF ChInit, RbInit, Cursor
  <2> QED
    BY <2>1, <2>2, <2>3 DEF OrderInv
<1>6. BatchInv /\ RoundInv
  BY DEF ChInit, RbInit, BatchInv, RoundInv
<1> QED
  BY <1>3, <1>4, <1>5, <1>6 DEF OInv

LEMMA OrderStep == FullInv /\ [ChNext]_vars => FullInv'
<1> SUFFICES ASSUME FullInv, [ChNext]_vars PROVE FullInv'
  OBVIOUS
<1>1. ChInv /\ OInv
  BY DEF FullInv
<1>2. ChInv'
  BY <1>1, ChStepInv
<1>3. OInv'
  <2>1. CASE Hook
    BY <1>1, <2>1, HookOrder
  <2>2. CASE Read
    BY <1>1, <2>2, ReadOrder
  <2>3. CASE Commit
    BY <1>1, <2>3, CommitOrder
  <2>4. CASE PollSleep \/ PollReady \/ PollInterrupted \/ WakeUp
    BY <1>1, <2>4, PollOrder
  <2>5. CASE UNCHANGED vars
    <3>1. UNCHANGED <<head, tail, items, mem, seq, active, task, rapl, rd, hup, utail, consumed,
                      n_samples, eof, last, overrun>>
      BY <2>5 DEF vars, rbVars, hookVars, userVars
    <3>2. OrderInv => OrderInv'
      BY <3>1, SameOrder
    <3> QED
      BY <1>1, <3>1, <3>2 DEF OInv, EofInv, FirstInv, BatchInv, RoundInv
  <2> QED
    BY <2>1, <2>2, <2>3, <2>4, <2>5 DEF ChNext, Tool, Over
<1> QED
  BY <1>2, <1>3 DEF FullInv

LEMMA Ordered == ChSpec => []FullInv
<1>1. ChInit => FullInv
  BY ChInitInv, OrderInit DEF FullInv
<1> QED
  BY <1>1, OrderStep, PTL DEF ChSpec

LEMMA OrderedState ==
  ASSUME FullInv, ~overrun
  PROVE  /\ RbTypeOK /\ UserTypeOK /\ BatchInv /\ RoundInv
         /\ \E T, U, H \in Nat, S \in SUBSET Nat :
              Window(T, U, H) /\ Chain(mem, seq, U, H, S) /\ Cursor(U, H)
BY ChTypeParts DEF FullInv, ChInv, OInv, OrderInv

\* Samples are printed in the order in which they were written, each once, and no word of a
\* body or of an earlier turn is taken for a header.
THEOREM SamplesInOrder == ChSpec => []InOrder
<1>1. ASSUME FullInv, ~overrun, utail # head
      PROVE  /\ mem[utail].type \in RecordTypes \cup {PAD}
             /\ mem[utail].type # PAD => mem[utail].id = IF eof THEN last ELSE last + 1
  <2>1. RbTypeOK /\ UserTypeOK
    BY <1>1, OrderedState
  <2>2. PICK T \in Nat, U \in Nat, H \in Nat, S \in SUBSET Nat :
          Window(T, U, H) /\ Chain(mem, seq, U, H, S) /\ Cursor(U, H)
    BY <1>1, OrderedState
  <2>3. U < H
    BY <1>1, <2>1, <2>2, CursorFacts DEF Window
  <2>4. /\ mem[utail].type \in RecordTypes \cup {PAD}
        /\ ~eof /\ mem[utail].type # PAD => mem[utail].id = last + 1
        /\ At(mem, U) = mem[utail]
    BY <2>1, <2>2, <2>3, CursorFacts
  <2>5. eof => mem[utail].id = last
    BY <2>2, <2>4 DEF Cursor
  <2> QED
    BY <2>4, <2>5
<1>2. FullInv => InOrder
  BY <1>1 DEF InOrder
<1> QED
  BY <1>2, Ordered, PTL

\* rb->items and the tool's cursor never drift from what was written, read and returned.
THEOREM CountersAgree == ChSpec => []Accounting
<1>1. ASSUME FullInv, ~overrun
      PROVE  /\ items = seq - (last - IF rd = "read" THEN n_samples ELSE 0)
             /\ utail = UserAdvance(tail, consumed)
             /\ consumed <= RB_COUNT(head, tail)
  <2>1. RbTypeOK /\ UserTypeOK /\ RoundInv
    BY <1>1, OrderedState
  <2>2. PICK T \in Nat, U \in Nat, H \in Nat, S \in SUBSET Nat :
          Window(T, U, H) /\ Chain(mem, seq, U, H, S) /\ Cursor(U, H)
    BY <1>1, OrderedState
  <2>3. /\ consumed \in Nat /\ consumed = U - T /\ U <= H
        /\ tail = T % Size /\ utail = U % Size
    BY <2>1, <2>2 DEF UserTypeOK, Window
  <2>4. RB_COUNT(head, tail) = H - T
    BY <2>1, <2>2, CursorFacts
  <2>5. utail = UserAdvance(tail, consumed)
    <3>1. T + consumed = U
      BY <2>3
    <3> QED
      BY <2>3, <3>1, Forward DEF UserAdvance
  <2>6. consumed <= RB_COUNT(head, tail)
    BY <2>3, <2>4
  <2> QED
    BY <2>1, <2>5, <2>6 DEF RoundInv
<1>2. FullInv => Accounting
  BY <1>1 DEF Accounting
<1> QED
  BY <1>2, Ordered, PTL

\* A loop that ended with POLLHUP and never read at head has seen the EOF record.
THEOREM LoopEndsAtEof == ChSpec => []CompleteAtEof
<1>1. FullInv => CompleteAtEof
  BY OrderedState DEF CompleteAtEof, RoundInv
<1> QED
  BY <1>1, Ordered, PTL

\* The INFO sample is the first the tool prints.
THEOREM InfoComesFirst == ChSpec => []InfoFirst
<1>1. ASSUME FullInv, ~overrun, last = 0, utail # head
      PROVE  mem[utail].type \in {"INFO", EOF}
  <2>1. RbTypeOK /\ UserTypeOK
    BY <1>1, OrderedState
  <2>2. PICK T \in Nat, U \in Nat, H \in Nat, S \in SUBSET Nat :
          Window(T, U, H) /\ Chain(mem, seq, U, H, S) /\ Cursor(U, H)
    BY <1>1, OrderedState
  <2>3. U < H
    BY <1>1, <2>1, <2>2, CursorFacts DEF Window
  <2>4. /\ mem[utail].id \in 1 .. seq
        /\ ~eof /\ mem[utail].type = PAD => mem[utail].id = last
        /\ ~eof /\ mem[utail].type # PAD => mem[utail].id = last + 1
        /\ At(mem, U) = mem[utail]
    BY <2>1, <2>2, <2>3, CursorFacts
  <2>5. mem[utail].type # PAD /\ mem[utail].id = 1
    BY <1>1, <2>1, <2>2, <2>4 DEF Cursor, UserTypeOK
  <2>6. Link(mem, seq, H, S, U)
    BY <2>2, <2>3 DEF Chain
  <2> QED
    BY <2>4, <2>5, <2>6 DEF Link
<1>2. FullInv => InfoFirst
  BY <1>1 DEF InfoFirst
<1> QED
  BY <1>2, Ordered, PTL

\* The tool reads at head only in the POLLHUP round and with no EOF record in the pages.
THEOREM OverrunNeedsLostEof == ChSpec => OverrunOnlyWithoutEof
<1>1. ASSUME FullInv, [ChNext]_vars, overrun', ~overrun
      PROVE  hup /\ \A p \in Unread : mem[p].type # EOF
  <2>1. RbTypeOK /\ UserTypeOK /\ BatchInv
    BY <1>1, OrderedState
  <2>2. PICK T \in Nat, U \in Nat, H \in Nat, S \in SUBSET Nat :
          Window(T, U, H) /\ Chain(mem, seq, U, H, S) /\ Cursor(U, H)
    BY <1>1, OrderedState
  <2>3. Read
    <3>1. ~Read => UNCHANGED overrun
      BY <1>1, HookLeavesTool DEF ChNext, Tool, WakeUp, PollSleep, PollReady, PollInterrupted,
                                  Commit, Over, vars, userVars
    <3> QED
      BY <1>1, <3>1
  <2>4. RB_COUNT(head, utail) = 0 /\ rd = "read" /\ n_samples < nr_samples /\ ~eof
    BY <1>1, <2>3, ReadFrames DEF ReadFrame
  <2>5. ~(U < H)
    <3>1. RB_COUNT(head, utail) = H - U
      BY <2>1, <2>2, CursorFacts
    <3> QED
      BY <2>4, <3>1
  <2>6. hup
    <3>1. SUFFICES ASSUME ~hup PROVE FALSE
      OBVIOUS
    <3> QED
      BY <2>1, <2>2, <2>4, <2>5, <3>1, PollinRound
  <2>7. S = {}
    <3>1. U .. H - 1 = {}
      BY <2>5
    <3> QED
      BY <2>2, <3>1 DEF Chain
  <2>8. \A p \in Positions : mem[p].type # EOF
    BY <2>2, <2>7 DEF Chain
  <2> QED
    BY <2>6, <2>8 DEF Unread
<1>2. FullInv /\ [ChNext]_vars => [OverrunStep]_vars
  BY <1>1 DEF OverrunStep
<1> QED
  BY <1>2, Ordered, PTL DEF ChSpec, OverrunOnlyWithoutEof

-----------------------------------------------------------------------------
(* The refinement.                                                         *)

\* Each number is given once: the pages hold at most one header with it, old ones included.
Numbered(m, n) ==
  \A p \in Positions : m[p].type \in RecordTypes =>
    /\ m[p].id \in 1 .. n
    /\ \A q \in Positions : m[q].type \in RecordTypes /\ m[q].id = m[p].id => q = p

NumberInv == Numbered(mem, seq)

\* A POLLHUP round has no writers, and none joins.
HupInv == rd = "read" /\ hup => active = 0

\* The samples from the tool's cursor on are all in the pages.
HeldInv == ~overrun => /\ Front \in 1 .. seq + 1
                       /\ \A n \in Front .. seq : Places(mem, n) # {}

RefInv == FullInv /\ NumberInv /\ HupInv /\ HeldInv

LEMMA Found ==
  ASSUME NEW m, NEW n, Numbered(m, n), NEW p \in Positions, m[p].type \in RecordTypes
  PROVE  SampleAt(m, m[p].id) = m[p]
<1>1. Places(m, m[p].id) = {p}
  BY DEF Numbered, Places
<1> QED
  BY <1>1 DEF SampleAt

\* The samples from a on, when one is written ...
LEMMA SamplesAppend ==
  ASSUME NEW m, NEW m2, NEW a \in Nat \ {0}, NEW b \in Nat, a <= b + 1,
         \A n \in a .. b : SampleAt(m2, n) = SampleAt(m, n)
  PROVE  Samples(m2, a, b + 1) = Append(Samples(m, a, b), SampleAt(m2, b + 1))
<1> DEFINE s == Samples(m, a, b)
           t == Samples(m2, a, b + 1)
           k == b + 1 - a
<1>1. k \in Nat /\ (b + 1) + 1 - a = k + 1 /\ a + (k + 1) - 1 = b + 1
  OBVIOUS
<1>2. /\ s = [i \in 1 .. k |-> s[i]]
      /\ \A i \in 1 .. k : s[i] = SampleAt(m, a + i - 1)
  BY DEF Samples
<1>3. /\ t = [i \in 1 .. k + 1 |-> t[i]]
      /\ \A i \in 1 .. k + 1 : t[i] = SampleAt(m2, a + i - 1)
  BY <1>1 DEF Samples
<1>4. \A i \in 1 .. k : a + i - 1 \in a .. b /\ i \in 1 .. k + 1
  OBVIOUS
<1>5. \A i \in 1 .. k : t[i] = s[i]
  BY <1>2, <1>3, <1>4
<1> HIDE DEF s, t, k
<1>6. t[k + 1] = SampleAt(m2, b + 1)
  <2>1. k + 1 \in 1 .. k + 1
    BY <1>1
  <2>2. t[k + 1] = SampleAt(m2, a + (k + 1) - 1)
    BY <1>3, <2>1
  <2> QED
    BY <1>1, <2>2
<1>7. t = Append(s, SampleAt(m2, b + 1))
  <2>1. k \in Nat /\ s = [i \in 1 .. k |-> s[i]] /\ t = [i \in 1 .. k + 1 |-> t[i]]
    BY <1>1, <1>2, <1>3
  <2>2. Len(s) = k /\ DOMAIN s = 1 .. k
    BY <2>1
  <2>3. PICK e : e = SampleAt(m2, b + 1)
    OBVIOUS
  <2>4. Append(s, e) = [i \in 1 .. k + 1 |-> IF i = k + 1 THEN e ELSE s[i]]
    BY <2>1, <2>2
  <2>5. \A i \in 1 .. k + 1 : t[i] = IF i = k + 1 THEN e ELSE s[i]
    <3>1. \A i \in 1 .. k + 1 : i = k + 1 \/ i \in 1 .. k
      BY <2>1
    <3> QED
      BY <1>5, <1>6, <2>3, <3>1
  <2> QED
    BY <2>1, <2>3, <2>4, <2>5
<1> QED
  BY <1>7 DEF s, t

\* ... when none is, ...
LEMMA SamplesSame ==
  ASSUME NEW m, NEW m2, NEW a \in Nat \ {0}, NEW b \in Nat,
         \A n \in a .. b : SampleAt(m2, n) = SampleAt(m, n)
  PROVE  Samples(m2, a, b) = Samples(m, a, b)
<1>1. \A i \in 1 .. b + 1 - a : a + i - 1 \in a .. b
  OBVIOUS
<1> QED
  BY <1>1 DEF Samples

\* ... when the first is taken, ...
LEMMA SamplesTail ==
  ASSUME NEW m, NEW a \in Nat \ {0}, NEW b \in Nat, a <= b
  PROVE  /\ Samples(m, a + 1, b) = Tail(Samples(m, a, b))
         /\ Head(Samples(m, a, b)) = SampleAt(m, a)
         /\ Samples(m, a, b) # << >>
<1> DEFINE s == Samples(m, a, b)
           t == Samples(m, a + 1, b)
           k == b + 1 - a
<1>1. k \in Nat \ {0} /\ b + 1 - (a + 1) = k - 1
  OBVIOUS
<1>2. /\ s = [i \in 1 .. k |-> s[i]]
      /\ \A i \in 1 .. k : s[i] = SampleAt(m, a + i - 1)
  BY DEF Samples
<1>3. /\ t = [i \in 1 .. k - 1 |-> t[i]]
      /\ \A i \in 1 .. k - 1 : t[i] = SampleAt(m, (a + 1) + i - 1)
  BY <1>1 DEF Samples
<1>4. \A i \in 1 .. k - 1 : (a + 1) + i - 1 = a + (i + 1) - 1 /\ i + 1 \in 1 .. k
  OBVIOUS
<1>5. \A i \in 1 .. k - 1 : t[i] = s[i + 1]
  BY <1>2, <1>3, <1>4
<1>6. s[1] = SampleAt(m, a)
  BY <1>1, <1>2
<1> HIDE DEF s, t, k
<1>7. Len(s) = k /\ DOMAIN s = 1 .. k
  BY <1>1, <1>2
<1>8. Tail(s) = [i \in 1 .. k - 1 |-> s[i + 1]]
  <2>1. s = [i \in 1 .. k |-> s[i]]
    BY <1>2
  <2> QED
    BY <1>1, <1>7, <2>1
<1>9. t = Tail(s)
  BY <1>3, <1>5, <1>8
<1>10. Head(s) = s[1] /\ s # << >>
  BY <1>1, <1>7
<1> QED
  BY <1>6, <1>9, <1>10 DEF s, t

\* ... and when there is none left.
LEMMA SamplesEmpty ==
  ASSUME NEW m, NEW b \in Nat
  PROVE  Samples(m, b + 1, b) = << >>
BY DEF Samples

\* What a call of smon_rb_write does to the headers.
LEMMA WriteNumbers ==
  ASSUME RbTypeOK, NEW type \in RecordTypes, smon_rb_write(type)
  PROVE  \/ /\ seq' = seq
            /\ \A p \in Positions : mem'[p].type \in RecordTypes => mem'[p] = mem[p]
         \/ /\ seq' = seq + 1
            /\ \E g \in Positions :
                 /\ mem'[g] = [type |-> type, id |-> seq + 1]
                 /\ \A p \in Positions \ {g} : mem'[p].type \in RecordTypes => mem'[p] = mem[p]
<1>1. head \in Positions /\ mem \in [Positions -> Cells] /\ StuffedHead(head) \in Positions
  BY Stuffed DEF RbTypeOK
<1>2. \A p \in Positions : Padded(mem, head)[p] = mem[p] \/ Padded(mem, head)[p].type = PAD
  BY <1>1 DEF Padded
<1>3. ASSUME NEW m, NEW g \in Positions, Store(m, g, type)
      PROVE  /\ seq' = seq + 1
             /\ mem'[g] = [type |-> type, id |-> seq + 1]
             /\ \A p \in Positions \ {g} : mem'[p].type \in RecordTypes => mem'[p] = m[p]
  <2>1. \A p \in Positions :
          mem'[p] = IF p = g THEN [type |-> type, id |-> seq + 1]
                    ELSE IF p \in g + 1 .. g + total_size(type) - 1 THEN [type |-> BODY, id |-> seq + 1]
                    ELSE m[p]
    BY <1>3 DEF Store, Stored
  <2>2. seq' = seq + 1
    BY <1>3 DEF Store
  <2> QED
    BY <2>1, <2>2, TypesApart
<1>4. CASE WriteNoSpace(type)
  BY <1>4 DEF WriteNoSpace, rbVars
<1>5. CASE WriteInPage(type)
  BY <1>1, <1>3, <1>5 DEF WriteInPage
<1>6. CASE WriteNextPage(type)
  <2>1. /\ seq' = seq + 1
        /\ mem'[StuffedHead(head)] = [type |-> type, id |-> seq + 1]
        /\ \A p \in Positions \ {StuffedHead(head)} :
              mem'[p].type \in RecordTypes => mem'[p] = Padded(mem, head)[p]
    BY <1>1, <1>3, <1>6 DEF WriteNextPage
  <2> QED
    BY <1>1, <1>2, <2>1, TypesApart
<1>7. CASE WriteStuffOnly(type)
  BY <1>2, <1>7, TypesApart DEF WriteStuffOnly
<1> QED
  BY <1>4, <1>5, <1>6, <1>7 DEF smon_rb_write

LEMMA NumberStep == NumberInv /\ ChInv /\ [ChNext]_vars => NumberInv'
<1> SUFFICES ASSUME NumberInv, ChInv, [ChNext]_vars PROVE NumberInv'
  OBVIOUS
<1>1. RbTypeOK /\ UserTypeOK
  BY ChTypeParts DEF ChInv
<1>2. [RbNext]_rbVars
  BY <1>1, StepIsClient DEF UserTypeOK
<1>3. CASE UNCHANGED <<mem, seq>>
  BY <1>3 DEF NumberInv
<1>4. ASSUME NEW type \in RecordTypes, smon_rb_write(type) PROVE NumberInv'
  <2>1. seq \in Nat
    BY <1>1 DEF RbTypeOK
  <2>2. CASE /\ seq' = seq
             /\ \A p \in Positions : mem'[p].type \in RecordTypes => mem'[p] = mem[p]
    BY <2>2 DEF NumberInv, Numbered
  <2>3. CASE /\ seq' = seq + 1
             /\ \E g \in Positions :
                  /\ mem'[g] = [type |-> type, id |-> seq + 1]
                  /\ \A p \in Positions \ {g} : mem'[p].type \in RecordTypes => mem'[p] = mem[p]
    <3>1. PICK g \in Positions :
            /\ mem'[g] = [type |-> type, id |-> seq + 1]
            /\ \A p \in Positions \ {g} : mem'[p].type \in RecordTypes => mem'[p] = mem[p]
      BY <2>3
    <3>2. \A p \in Positions \ {g} : mem'[p].type \in RecordTypes =>
            mem'[p] = mem[p] /\ mem[p].id \in 1 .. seq /\ mem'[p].id # seq + 1
      BY <2>1, <3>1 DEF NumberInv, Numbered
    <3>3. mem'[g].id = seq + 1
      BY <3>1
    <3>4. ASSUME NEW p \in Positions, mem'[p].type \in RecordTypes
          PROVE  /\ mem'[p].id \in 1 .. seq'
                 /\ \A q \in Positions : mem'[q].type \in RecordTypes /\ mem'[q].id = mem'[p].id => q = p
      <4>1. CASE p = g
        BY <2>1, <2>3, <3>2, <3>3, <4>1
      <4>2. CASE p # g
        <5>1. mem'[p] = mem[p] /\ mem[p].id \in 1 .. seq /\ mem'[p].id # seq + 1
          BY <3>2, <3>4, <4>2
        <5>2. \A q \in Positions : mem'[q].type \in RecordTypes /\ mem'[q].id = mem'[p].id => q = p
          BY <3>2, <3>3, <3>4, <5>1 DEF NumberInv, Numbered
        <5> QED
          BY <2>1, <2>3, <5>1, <5>2
      <4> QED
        BY <4>1, <4>2
    <3> QED
      BY <3>4 DEF NumberInv, Numbered
  <2> QED
    BY <1>1, <1>4, <2>2, <2>3, WriteNumbers
<1> QED
  BY <1>2, <1>3, <1>4 DEF RbNext, RbWrite, RbRead, smon_rb_read, irq_work_queue, smon_wake_up_reader, rbVars

LEMMA HupStep == HupInv /\ FullInv /\ [ChNext]_vars => HupInv'
<1> SUFFICES ASSUME HupInv, FullInv, [ChNext]_vars PROVE HupInv'
  OBVIOUS
<1>1. RbTypeOK /\ HookTypeOK /\ UserTypeOK /\ ActiveCounts /\ FirstInv /\ active' \in Nat
  BY ChTypeParts, ChStepInv DEF FullInv, ChInv, OInv, ChTypeOK
<1>2. active \in Nat
  BY <1>1 DEF HookTypeOK
<1>3. CASE Hook
  <2>1. rd' = rd /\ hup' = hup
    BY <1>3, HookLeavesTool DEF userVars
  <2>2. active' > 0 => active > 0
    BY <1>1, <1>3, HookWrites
  <2> QED
    BY <1>1, <1>2, <2>1, <2>2 DEF HupInv
<1>4. CASE PollReady
  <2>1. hup' => POLLHUP
    BY <1>4 DEF PollReady
  <2>2. active' = active
    BY <1>4 DEF PollReady, hookVars
  <2> QED
    BY <1>2, <2>1, <2>2 DEF HupInv, POLLHUP, smon_rb_is_active
<1>5. CASE ~Hook /\ ~PollReady
  <2>1. active' = active /\ hup' = hup /\ (rd' = "read" => rd = "read")
    BY <1>5, ReadFrames DEF ChNext, Tool, WakeUp, PollSleep, PollInterrupted, Commit, Over,
                            ReadSample, ReadPad, ReadEof, ReadUnknown, ReadFrame, Read, vars, hookVars, userVars
  <2> QED
    BY <2>1 DEF HupInv
<1> QED
  BY <1>3, <1>4, <1>5

LEMMA FullInvHeld == FullInv => HeldInv
<1> SUFFICES ASSUME FullInv, ~overrun
             PROVE  /\ Front \in 1 .. seq + 1
                    /\ \A n \in Front .. seq : Places(mem, n) # {}
  BY DEF HeldInv
<1>1. RbTypeOK /\ UserTypeOK /\ seq \in Nat /\ last \in Nat /\ eof \in BOOLEAN
  BY OrderedState DEF RbTypeOK, UserTypeOK
<1>2. PICK T \in Nat, U \in Nat, H \in Nat, S \in SUBSET Nat :
        Window(T, U, H) /\ Chain(mem, seq, U, H, S) /\ Cursor(U, H)
  BY OrderedState
<1>3. /\ At(mem, U) = mem[utail] /\ last \in 0 .. seq
      /\ ~eof /\ U = H => last = seq
      /\ U < H => mem[utail].id \in 1 .. seq
  BY <1>1, <1>2, CursorFacts
<1>4. U <= H
  BY <1>2 DEF Window
<1>5. eof => U < H /\ mem[utail].type = EOF /\ mem[utail].id = last
  BY <1>2, <1>3 DEF Cursor
<1>6. Front \in 1 .. seq + 1
  BY <1>1, <1>3, <1>5 DEF Front
<1>7. U < H => Before(At(mem, U)) = Front - 1
  BY <1>1, <1>2, <1>3, <1>5, TypesApart DEF Cursor, Front, Before
<1>8. ASSUME NEW n \in Front .. seq PROVE Places(mem, n) # {}
  <2>1. U < H
    BY <1>1, <1>3, <1>4, <1>5, <1>6 DEF Front
  <2>2. n \in 1 .. seq /\ n > Before(At(mem, U))
    BY <1>1, <1>6, <1>7, <2>1
  <2>3. PICK p \in S : At(mem, p).type # PAD /\ At(mem, p).id = n
    BY <1>2, <2>1, <2>2 DEF Chain
  <2>4. At(mem, p).type \in RecordTypes
    BY <1>2, <2>3 DEF Chain, Link
  <2>5. p % Size \in Positions
    BY Forward
  <2> QED
    BY <2>3, <2>4, <2>5 DEF Places, At
<1> QED
  BY <1>6, <1>8

LEMMA Refining == ChSpec => []RefInv
<1>1. ChInit => NumberInv /\ HupInv
  BY TypesApart DEF ChInit, RbInit, NumberInv, Numbered, HupInv
<1>2. FullInv /\ NumberInv /\ [ChNext]_vars => NumberInv'
  BY NumberStep DEF FullInv
<1>3. FullInv /\ NumberInv /\ HupInv => RefInv
  BY FullInvHeld DEF RefInv
<1> QED
  BY <1>1, <1>2, <1>3, Ordered, HupStep, PTL DEF ChSpec

\* A call of smon_rb_write appends the sample to the stream, or leaves it alone.
LEMMA StreamWrite ==
  ASSUME RefInv, RefInv', NEW type \in RecordTypes, smon_rb_write(type), UNCHANGED userVars
  PROVE  /\ Out' = Out /\ Mode' = Mode
         /\ \/ seq' = seq /\ Queue' = Queue
            \/ /\ seq' = seq + 1
               /\ Queue' = IF Mode = "broken" THEN Queue
                           ELSE Append(Queue, [type |-> type, id |-> seq + 1])
<1>1. /\ RbTypeOK /\ Numbered(mem, seq) /\ Numbered(mem', seq') /\ seq \in Nat
      /\ mem \in [Positions -> Cells]
  BY ChTypeParts DEF RefInv, NumberInv, FullInv, ChInv, RbTypeOK
<1>2. /\ UNCHANGED <<last, eof, overrun>> /\ Out' = Out /\ Mode' = Mode /\ Front' = Front
  BY DEF userVars, Out, Mode, Front
<1>3. /\ \A p \in Positions : mem'[p].type \in RecordTypes /\ mem'[p].id # seq + 1 => mem'[p] = mem[p]
      /\ \/ seq' = seq
         \/ seq' = seq + 1 /\ \E g \in Positions : mem'[g] = [type |-> type, id |-> seq + 1]
  <2>1. CASE /\ seq' = seq
             /\ \A p \in Positions : mem'[p].type \in RecordTypes => mem'[p] = mem[p]
    BY <2>1
  <2>2. CASE /\ seq' = seq + 1
             /\ \E g \in Positions :
                  /\ mem'[g] = [type |-> type, id |-> seq + 1]
                  /\ \A p \in Positions \ {g} : mem'[p].type \in RecordTypes => mem'[p] = mem[p]
    BY <2>2
  <2> QED
    BY <1>1, <2>1, <2>2, WriteNumbers
<1>4. CASE overrun
  <2>1. Queue = << >> /\ Queue' = << >> /\ Mode = "broken"
    BY <1>2, <1>4 DEF Queue, Mode
  <2> QED
    BY <1>2, <1>3, <2>1
<1>5. CASE ~overrun
  <2>1. /\ Front \in Nat \ {0} /\ Front <= seq + 1
        /\ \A n \in Front .. seq' : Places(mem', n) # {}
    BY <1>1, <1>2, <1>5 DEF RefInv, HeldInv
  <2>2. ASSUME NEW n \in Front .. seq PROVE SampleAt(mem', n) = SampleAt(mem, n)
    <3>1. n \in Front .. seq' /\ n # seq + 1
      BY <1>1, <1>3, <2>1
    <3>2. PICK p \in Positions : mem'[p].type \in RecordTypes /\ mem'[p].id = n
      BY <2>1, <3>1 DEF Places
    <3>3. mem'[p] = mem[p]
      BY <1>3, <3>1, <3>2
    <3>4. SampleAt(mem', n) = mem'[p] /\ SampleAt(mem, n) = mem[p]
      BY <1>1, <3>2, <3>3, Found
    <3> QED
      BY <3>3, <3>4
  <2>3. Queue = Samples(mem, Front, seq) /\ Queue' = Samples(mem', Front, seq') /\ Mode # "broken"
    BY <1>2, <1>5 DEF Queue, Mode
  <2>4. CASE seq' = seq
    BY <1>1, <1>2, <2>1, <2>2, <2>3, <2>4, SamplesSame
  <2>5. CASE seq' = seq + 1 /\ \E g \in Positions : mem'[g] = [type |-> type, id |-> seq + 1]
    <3>1. PICK g \in Positions : mem'[g] = [type |-> type, id |-> seq + 1]
      BY <2>5
    <3>2. mem'[g].type \in RecordTypes /\ mem'[g].id = seq + 1
      BY <3>1
    <3>3. SampleAt(mem', seq + 1) = [type |-> type, id |-> seq + 1]
      BY <1>1, <3>1, <3>2, Found
    <3>4. Samples(mem', Front, seq + 1) = Append(Samples(mem, Front, seq), SampleAt(mem', seq + 1))
      BY <1>1, <2>1, <2>2, SamplesAppend
    <3> QED
      BY <1>2, <2>3, <2>5, <3>3, <3>4
  <2> QED
    BY <1>3, <2>4, <2>5
<1> QED
  BY <1>2, <1>4, <1>5

\* A write of a hook that neither takes nor releases the buffer.
LEMMA StreamPut ==
  ASSUME RefInv, RefInv', NEW type \in RecordTypes, smon_rb_write(type), UNCHANGED userVars,
         active' = active, type = EOF => active = 0
  PROVE  [Stream!Next]_Stream!streamVars
<1>1. /\ Out' = Out /\ Mode' = Mode
      /\ \/ seq' = seq /\ Queue' = Queue
         \/ /\ seq' = seq + 1
            /\ Queue' = IF Mode = "broken" THEN Queue
                        ELSE Append(Queue, [type |-> type, id |-> seq + 1])
  BY StreamWrite
<1>2. CASE seq' = seq /\ Queue' = Queue
  BY <1>1, <1>2 DEF Stream!streamVars
<1>3. CASE /\ seq' = seq + 1
           /\ Queue' = IF Mode = "broken" THEN Queue
                       ELSE Append(Queue, [type |-> type, id |-> seq + 1])
  <2>1. Stream!Put(type)
    BY <1>1, <1>3 DEF Stream!Put
  <2>2. type \in SampleTypes \cup {EOF}
    BY DEF RecordTypes
  <2> QED
    BY <2>1, <2>2 DEF Stream!Next
<1> QED
  BY <1>1, <1>2, <1>3

LEMMA SameStream ==
  ASSUME UNCHANGED <<mem, seq, active, last, eof, overrun>>
  PROVE  UNCHANGED Stream!streamVars
BY DEF Stream!streamVars, Queue, Out, Mode, Front, Samples, SampleAt, Places

\* The writers: they put, join and leave.
LEMMA HookStream ==
  ASSUME RefInv, RefInv', Hook
  PROVE  [Stream!Next]_Stream!streamVars
<1> DEFINE Goal == [Stream!Next]_Stream!streamVars
<1>1. /\ active \in Nat /\ ActiveCounts /\ HookTypeOK
      /\ \A t \in {"INFO", "PMC", "RAPL", "FORK"} : t \in RecordTypes /\ t # EOF
      /\ \A t \in TaskSamples : t \in RecordTypes /\ t # EOF
      /\ EOF \in RecordTypes /\ Root \in Tasks
  BY KnownTypes, TypesApart, ChannelAssumption, ChTypeParts
     DEF RefInv, FullInv, ChInv, HookTypeOK, TaskSamples
<1>2. UNCHANGED userVars
  BY HookLeavesTool
<1>3. ASSUME UNCHANGED rbVars, active' = active PROVE Goal
  BY <1>2, <1>3, SameStream DEF rbVars, userVars
<1>4. CASE Exec
  BY <1>1, <1>2, <1>4, StreamPut DEF Exec
<1>5. ASSUME NEW w \in Tasks, NEW type \in TaskSamples, TaskSample(w, type) PROVE Goal
  BY <1>1, <1>2, <1>5, StreamPut DEF TaskSample, hookVars
<1>6. CASE RaplTick
  BY <1>1, <1>2, <1>6, StreamPut DEF RaplTick, hookVars
<1>7. ASSUME NEW w \in Tasks, NEW c \in Tasks, Fork(w, c) PROVE Goal
  <2>1. active > 0
    <3>1. IsFiniteSet(Holders) /\ w \in Holders
      BY <1>7, ChannelAssumption, FS_Subset DEF Holders, Fork
    <3> QED
      BY <1>1, <3>1, FS_EmptySet DEF ActiveCounts
  <2>2. CASE ~InheritOn
    <3>1. active' = active /\ (smon_rb_write("FORK") \/ UNCHANGED rbVars)
      BY <1>7, <2>2 DEF Fork
    <3> QED
      BY <1>1, <1>2, <1>3, <3>1, StreamPut
  <2>3. CASE InheritOn
    <3>1. active' = active + 1 /\ (smon_rb_write("FORK") \/ UNCHANGED rbVars)
      BY <1>7, <2>3 DEF Fork
    <3>2. ASSUME UNCHANGED <<Queue, Out, Mode, seq>> PROVE Goal
      BY <2>1, <3>1, <3>2 DEF Stream!Next, Stream!Join
    <3>3. CASE UNCHANGED rbVars
      <4>1. UNCHANGED <<Queue, Out, Mode, seq>>
        BY <1>2, <3>3 DEF rbVars, userVars, Queue, Out, Mode, Front, Samples, SampleAt, Places
      <4> QED
        BY <3>2, <4>1
    <3>4. CASE smon_rb_write("FORK")
      <4>1. /\ Out' = Out /\ Mode' = Mode
            /\ \/ seq' = seq /\ Queue' = Queue
               \/ /\ seq' = seq + 1
                  /\ Queue' = IF Mode = "broken" THEN Queue
                              ELSE Append(Queue, [type |-> "FORK", id |-> seq + 1])
        BY <1>1, <1>2, <3>4, StreamWrite
      <4>2. CASE seq' = seq /\ Queue' = Queue
        BY <3>2, <4>1, <4>2
      <4>3. CASE /\ seq' = seq + 1
                 /\ Queue' = IF Mode = "broken" THEN Queue
                             ELSE Append(Queue, [type |-> "FORK", id |-> seq + 1])
        <5>1. Stream!JoinAndPut("FORK")
          BY <1>1, <2>1, <3>1, <4>1, <4>3 DEF Stream!JoinAndPut
        <5>2. "FORK" \in SampleTypes \cup {EOF}
          BY <1>1 DEF RecordTypes
        <5> QED
          BY <5>1, <5>2 DEF Stream!Next
      <4> QED
        BY <4>1, <4>2, <4>3
    <3> QED
      BY <3>1, <3>3, <3>4
  <2> QED
    BY <2>2, <2>3
<1>8. ASSUME NEW w \in Tasks, ExitSave(w) PROVE Goal
  BY <1>1, <1>2, <1>8, StreamPut DEF ExitSave
<1>9. CASE ExitWait
  BY <1>3, <1>9 DEF ExitWait
<1>10. ASSUME NEW w \in Tasks, ReleaseRb(w) PROVE Goal
  <2>1. active > 0
    <3>1. IsFiniteSet(Holders) /\ w \in Holders
      BY <1>10, ChannelAssumption, FS_Subset DEF Holders, ReleaseRb
    <3> QED
      BY <1>1, <3>1, FS_EmptySet DEF ActiveCounts
  <2>2. active' = active - 1 /\ UNCHANGED rbVars
    BY <1>10 DEF ReleaseRb
  <2>3. UNCHANGED <<Queue, Out, Mode, seq>>
    BY <1>2, <2>2 DEF rbVars, userVars, Queue, Out, Mode, Front, Samples, SampleAt, Places
  <2> QED
    BY <2>1, <2>2, <2>3 DEF Stream!Next, Stream!Leave
<1>11. ASSUME NEW w \in Tasks, WriteEof(w) PROVE Goal
  <2>1. smon_rb_write(EOF) /\ task[w] = "eof" /\ active' = active
    BY <1>11 DEF WriteEof
  <2>2. active = 0
    BY <1>1, <2>1 DEF ActiveCounts
  <2> QED
    BY <1>1, <1>2, <2>1, <2>2, StreamPut
<1>12. ASSUME NEW w \in Tasks, AlertReader(w) PROVE Goal
  BY <1>2, <1>12, SameStream DEF AlertReader, irq_work_queue, userVars
<1>13. CASE CancelRapl
  BY <1>3, <1>13 DEF CancelRapl
<1> QED
  BY <1>4, <1>5, <1>6, <1>7, <1>8, <1>9, <1>10, <1>11, <1>12, <1>13 DEF Hook, ExitStep

\* The tool takes the first sample of the stream, or closes or breaks it.
LEMMA ReadStream ==
  ASSUME RefInv, RefInv', Read
  PROVE  [Stream!Next]_Stream!streamVars
<1>1. ReadFrame
  BY ReadFrames
<1>2. /\ rd = "read" /\ n_samples < nr_samples /\ ~eof
      /\ UNCHANGED <<mem, seq, active>>
      /\ overrun' = (overrun \/ RB_COUNT(head, utail) = 0)
  BY <1>1 DEF ReadFrame
<1>3. CASE overrun
  BY <1>2, <1>3 DEF Stream!streamVars, Queue, Out, Mode
<1>4. CASE ~overrun
  <2>1. RbTypeOK /\ UserTypeOK /\ BatchInv /\ Numbered(mem, seq) /\ utail \in Positions
        /\ seq \in Nat /\ last \in Nat
    BY <1>4, OrderedState DEF RefInv, NumberInv, UserTypeOK, RbTypeOK
  <2>2. PICK T \in Nat, U \in Nat, H \in Nat, S \in SUBSET Nat :
          Window(T, U, H) /\ Chain(mem, seq, U, H, S) /\ Cursor(U, H)
    BY <1>4, OrderedState DEF RefInv
  <2>3. /\ RB_COUNT(head, utail) = H - U
        /\ U = H => last = seq
        /\ U < H => /\ mem[utail].type \in RecordTypes \cup {PAD}
                    /\ mem[utail].id \in 1 .. seq
                    /\ TypesAt(utail) = {mem[utail].type}
                    /\ mem[utail].type = PAD => mem[utail].id = last
                    /\ mem[utail].type # PAD => mem[utail].id = last + 1
        /\ U <= H
    BY <1>2, <2>1, <2>2, CursorFacts DEF Window
  <2>4. Queue = Samples(mem, last + 1, seq) /\ Out = last /\ Mode = "open"
    BY <1>2, <1>4 DEF Queue, Out, Mode, Front
  <2>5. CASE U = H
    <3>1. overrun'
      <4>1. RB_COUNT(head, utail) = 0
        BY <2>3, <2>5
      <4> QED
        BY <1>2, <4>1
    <3>2. active = 0
      <4>1. hup \in BOOLEAN
        BY <2>1 DEF UserTypeOK
      <4>2. ~hup => U < H
        BY <1>2, <2>1, <2>2, PollinRound
      <4> QED
        BY <1>2, <2>5, <4>1, <4>2 DEF RefInv, HupInv
    <3>3. Queue = << >>
      BY <2>1, <2>3, <2>4, <2>5, SamplesEmpty
    <3>4. Queue' = << >> /\ Out' = 0 /\ Mode' = "broken"
      BY <3>1 DEF Queue, Out, Mode
    <3> QED
      BY <1>2, <2>4, <3>2, <3>3, <3>4 DEF Stream!Next, Stream!Break
  <2>6. CASE U < H
    <3>1. ~overrun' /\ overrun' = overrun
      <4>1. RB_COUNT(head, utail) # 0
        BY <2>3, <2>6
      <4>2. overrun \in BOOLEAN
        BY <2>1 DEF UserTypeOK
      <4> QED
        BY <1>2, <1>4, <4>1, <4>2
    <3>2. CASE mem[utail].type = PAD
      <4>1. last' = last /\ eof' = eof
        BY <2>3, <2>6, <3>2, ConstantsAssumption, TypesApart, ChannelAssumption
           DEF Read, ReadSample, ReadPad, ReadEof, ReadUnknown, UNKNOWN, PAD, EOF
      <4> QED
        BY <1>2, <1>4, <3>1, <4>1, SameStream
    <3>3. CASE mem[utail].type # PAD
      <4>1. /\ mem[utail].type \in RecordTypes /\ mem[utail].id = last + 1
            /\ last + 1 \in Nat \ {0} /\ last + 1 <= seq
        BY <2>1, <2>3, <2>6, <3>3
      <4>2. SampleAt(mem, last + 1) = mem[utail]
        BY <2>1, <4>1, Found
      <4>3. /\ Samples(mem, (last + 1) + 1, seq) = Tail(Queue)
            /\ Head(Queue) = mem[utail]
            /\ Queue # << >>
        BY <2>1, <2>4, <4>1, <4>2, SamplesTail
      <4>4. CASE mem[utail].type = EOF
        <5>1. last' = last + 1 /\ eof' = TRUE
          BY <2>3, <2>6, <4>1, <4>4, TypesApart, ChannelAssumption
             DEF Read, ReadSample, ReadPad, ReadEof, ReadUnknown, UNKNOWN, EOF
        <5>2. Queue' = Samples(mem, last + 1, seq) /\ Out' = last + 1 /\ Mode' = "closed"
          BY <1>2, <3>1, <5>1 DEF Queue, Out, Mode, Front
        <5> QED
          BY <1>2, <2>4, <4>1, <4>3, <4>4, <5>2 DEF Stream!Next, Stream!Close
      <4>5. CASE mem[utail].type # EOF
        <5>1. last' = last + 1 /\ eof' = eof
          BY <2>3, <2>6, <3>3, <4>1, <4>5, ChannelAssumption
             DEF Read, ReadSample, ReadPad, ReadEof, ReadUnknown, UNKNOWN, RecordTypes
        <5>2. Queue' = Samples(mem, (last + 1) + 1, seq) /\ Out' = last + 1 /\ Mode' = "open"
          BY <1>2, <3>1, <5>1 DEF Queue, Out, Mode, Front
        <5> QED
          BY <1>2, <2>4, <4>1, <4>3, <4>5, <5>2 DEF Stream!Next, Stream!Deliver
      <4> QED
        BY <4>4, <4>5
    <3> QED
      BY <3>2, <3>3
  <2> QED
    BY <2>3, <2>5, <2>6
<1> QED
  BY <1>3, <1>4

\* Ring buffer, poll protocol and sampling loop together are the lossy stream: samples are
\* dropped before they enter it or printed once and in order, and it ends at the EOF record.
THEOREM ChannelImplementsStream == ChSpec => ImplementsStream
<1>1. ChInit => Stream!Init
  <2> SUFFICES ASSUME ChInit PROVE Stream!Init
    OBVIOUS
  <2>1. seq = 0 /\ active = 1 /\ last = 0 /\ ~eof /\ ~overrun
    BY DEF ChInit, RbInit
  <2>2. Queue = << >>
    BY <2>1, SamplesEmpty DEF Queue, Front
  <2>3. Out = 0 /\ Mode = "open"
    BY <2>1 DEF Out, Mode
  <2> QED
    BY <2>1, <2>2, <2>3 DEF Stream!Init
<1>2. ASSUME RefInv, RefInv', [ChNext]_vars PROVE [Stream!Next]_Stream!streamVars
  <2>1. CASE Hook
    BY <1>2, <2>1, HookStream
  <2>2. CASE Read
    BY <1>2, <2>2, ReadStream
  <2>3. CASE PollReady
    <3>1. UNCHANGED <<mem, seq, active, last, overrun>> /\ eof' = FALSE /\ rd = "poll"
      BY <2>3 DEF PollReady, rbVars, hookVars
    <3>2. CASE overrun
      BY <3>1, <3>2 DEF Stream!streamVars, Queue, Out, Mode
    <3>3. CASE ~overrun
      <4>1. ~eof /\ eof \in BOOLEAN
        BY <1>2, <3>1, <3>3, OrderedState DEF RefInv, RoundInv, UserTypeOK
      <4> QED
        BY <3>1, <4>1, SameStream
    <3> QED
      BY <3>2, <3>3
  <2>4. CASE PollSleep \/ PollInterrupted \/ WakeUp \/ Commit \/ Over \/ UNCHANGED vars
    <3>1. UNCHANGED <<mem, seq, active, last, eof, overrun>>
      BY <2>4 DEF PollSleep, PollInterrupted, WakeUp, Commit, Over, smon_wake_up_reader,
                  smon_rb_read, rbVars, hookVars, userVars, vars
    <3> QED
      BY <3>1, SameStream
  <2> QED
    BY <1>2, <2>1, <2>2, <2>3, <2>4 DEF ChNext, Tool
<1> QED
  BY <1>1, <1>2, Refining, PTL DEF ChSpec, ImplementsStream, Stream!Spec

=============================================================================
