---------------------------- MODULE SampleStream ----------------------------
(***************************************************************************)
(* What the ring buffer and the tool together promise: a lossy first-in    *)
(* first-out stream of samples from the writers to the output file.        *)
(*                                                                         *)
(* A sample the buffer has no room for is lost before it enters the        *)
(* stream; one that entered it is delivered in its turn, once.  The EOF    *)
(* record closes the stream.  A reader that is told of the end while the   *)
(* EOF record is not there breaks the stream: nothing is promised then.    *)
(***************************************************************************)
EXTENDS Naturals, Sequences

CONSTANTS SampleType, EofType

VARIABLES
  queue,    \* the samples written and not yet delivered, oldest first
  out,      \* number of the last sample delivered
  written,  \* number of samples that entered the stream
  writers,  \* number of writers
  mode      \* open, closed (the EOF was delivered) or broken

streamVars == <<queue, out, written, writers, mode>>

Init ==
  /\ queue = << >>
  /\ out = 0 /\ written = 0
  /\ writers = 1
  /\ mode = "open"

Put(type) ==
  /\ type = EofType => writers = 0
  /\ written' = written + 1
  /\ queue' = IF mode = "broken" THEN queue
              ELSE Append(queue, [type |-> type, id |-> written + 1])
  /\ UNCHANGED <<out, writers, mode>>

Deliver ==
  /\ mode = "open" /\ queue # << >>
  /\ Head(queue).type # EofType
  /\ out' = Head(queue).id
  /\ queue' = Tail(queue)
  /\ UNCHANGED <<written, writers, mode>>

Close ==
  /\ mode = "open" /\ queue # << >>
  /\ Head(queue).type = EofType
  /\ out' = Head(queue).id
  /\ mode' = "closed"
  /\ UNCHANGED <<queue, written, writers>>

Break ==
  /\ mode = "open" /\ queue = << >> /\ writers = 0
  /\ mode' = "broken" /\ out' = 0
  /\ UNCHANGED <<queue, written, writers>>

\* A writer can only join while there is one.
Join  == writers > 0 /\ writers' = writers + 1 /\ UNCHANGED <<queue, out, written, mode>>
Leave == writers > 0 /\ writers' = writers - 1 /\ UNCHANGED <<queue, out, written, mode>>

\* A fork: the child joins and its FORK sample is written.
JoinAndPut(type) ==
  /\ writers > 0 /\ writers' = writers + 1
  /\ type # EofType
  /\ written' = written + 1
  /\ queue' = IF mode = "broken" THEN queue
              ELSE Append(queue, [type |-> type, id |-> written + 1])
  /\ UNCHANGED <<out, mode>>

Next ==
  \/ \E type \in SampleType \cup {EofType} : Put(type) \/ JoinAndPut(type)
  \/ Deliver \/ Close \/ Break \/ Join \/ Leave

Spec == Init /\ [][Next]_streamVars
=============================================================================
