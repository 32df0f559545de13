----------------------- MODULE SampleChannelRefinement -----------------------
(***************************************************************************)
(* The ring buffer, the poll protocol and the tool's loop implement the    *)
(* lossy stream of SampleStream.  The queue of the stream is the samples   *)
(* from the one at the tool's cursor to the last one written, each as the  *)
(* pages hold it.                                                          *)
(***************************************************************************)
EXTENDS SampleChannel, Sequences

\* Where pages m hold the header of the sample with number n, and the header.
Places(m, n)   == {p \in Positions : m[p].type \in RecordTypes /\ m[p].id = n}
SampleAt(m, n) == IF Places(m, n) = {} THEN [type |-> GARBAGE, id |-> n]
                  ELSE m[CHOOSE p \in Places(m, n) : TRUE]

\* The samples with the numbers from a to b.
Samples(m, a, b) == [i \in 1 .. b + 1 - a |-> SampleAt(m, a + i - 1)]

\* The number of the sample at the tool's cursor, where the EOF record stays.
Front == IF eof THEN last ELSE last + 1

Queue == IF overrun THEN << >> ELSE Samples(mem, Front, seq)
Out   == IF overrun THEN 0 ELSE last
Mode  == IF overrun THEN "broken" ELSE IF eof THEN "closed" ELSE "open"

Stream == INSTANCE SampleStream WITH
  SampleType <- SampleTypes,
  EofType    <- EOF,
  queue      <- Queue,
  out        <- Out,
  written    <- seq,
  writers    <- active,
  mode       <- Mode

\* Every step of writers, exit hooks, interrupts and tool is a step of the lossy
\* stream or leaves it alone.
ImplementsStream == Stream!Spec
=============================================================================
