------------------------- MODULE CommandLineProofs -------------------------
(***************************************************************************)
(* The command line (CommandLine) for every size of the tables, and every  *)
(* number of options with every value: what a command hands to the driver, *)
(* in whatever order and however often its options were given.             *)
(***************************************************************************)
EXTENDS CommandLine, FiniteSetTheorems, TLAPS

-----------------------------------------------------------------------------
(* The inductive invariant.                                                *)

Options == {"INH", "EXE", "RAP", "CPU", "FORK", "SCHED", "STAT"}
Flags   == {"tag", "evsel", "umask", "events", "e"}

\* struct smon_evset, struct smon_envir and the rest of struct smon_cmd.
EvsetType == [evids       : [GpCtrs -> -1 .. MaxEvents - 1],
              fixed_ctrl  : SUBSET (0 .. 11),
              global_ctrl : SUBSET (0 .. 63)]
EnvirType == [options     : SUBSET Options,
              n_esids     : 0 .. MuxEvsets,
              esids       : [Slots -> -1 .. MaxEvsets - 1],
              sample_time : Nat,
              batch_size  : Nat \ {0}]
ConfType  == [mmap_pages  : Nat,
              cpumask     : SUBSET Nat,
              count_mode  : {0, 1}]

ArgsType ==
  /\ cmd \in {"none", "event", "evset"} \cup Profiles
  /\ pc \in {"command", "options", "subopts", "main", "start_profile"} \cup Ends
  /\ n_args \in 0 .. MaxArgs
  /\ given \in [Flags -> 0 .. MaxArgs]
  /\ \A f \in Flags : given[f] <= n_args
  /\ pc = "command" => cmd = "none" /\ n_args = 0
  /\ cmd = "none" => pc \in {"command", "refused"}
  /\ prog \in BOOLEAN
  /\ n_events \in 0 .. MaxEvents /\ n_evsets \in 0 .. MaxEvsets

RecordType == evset \in EvsetType /\ envir \in EnvirType /\ conf \in ConfType

\* Which command an end belongs to.
EndInv ==
  /\ pc = "smon_set_event" => cmd = "event"
  /\ pc = "smon_set_evset" => cmd = "evset"

\* event -a: nothing but the selector, the mask, the mode and the enable bit is ever set.
EventInv ==
  /\ perfevtsel \subseteq 0 .. OS \cup {EN}
  /\ cmd = "event" /\ pc \in {"main", "smon_set_event"} => perfevtsel \cap {USR, OS} # {}

\* evset -a: the enable bits agree once there is a list of events.
EvsetInv ==
  /\ given["events"] > 0 => \A i \in GpCtrs : evset.evids[i] >= 0 => i \in evset.global_ctrl
  /\ \A i \in FxCtrs : evset.fixed_ctrl \cap FX_EN(i) # {} <=> GLOBAL_FX(i) \in evset.global_ctrl
  /\ cmd = "evset" /\ pc \in {"main", "smon_set_evset"} => given["events"] > 0

PInv == EndInv /\ EventInv /\ EvsetInv

IInv == ArgsType /\ RecordType /\ PInv

-----------------------------------------------------------------------------
(* The operators.                                                          *)

LEMMA ConstantTypes ==
  /\ MaxGpCtrs \in Nat \ {0} /\ MaxGpCtrs <= 32
  /\ MaxEvents \in Nat \ {0} /\ MaxEvsets \in Nat \ {0} /\ MaxPages \in Nat \ {0}
  /\ MaxArgs \in Nat \ {0}
  /\ MuxEvsets \in Nat /\ MuxEvsets >= 3 /\ MaxEvsets >= 2
BY CommandLineAssumption

\* A counter that is zero has no bit set, so the parser's test fails.
LEMMA AllSetPositive ==
  ASSUME NEW S, NEW n \in S, n \in Nat, AllSet(S)
  PROVE  n > 0
<1>1. PICK k \in 0 .. MaxArgs : Bit(n, k)
  BY DEF AllSet
<1>2. 2^k \in Nat \ {0}
  BY CommandLineAssumption
<1>3. \A d \in Nat \ {0} : (0 \div d) % 2 = 0
  OBVIOUS
<1>4. n # 0
  BY <1>1, <1>2, <1>3 DEF Bit
<1> QED
  BY <1>4

\* A bit that a suboption of event -a sets.
LEMMA EventBitsBounded ==
  ASSUME NEW name \in {"mode", "evsel", "umask"}, NEW v \in Masks
  PROVE  EventBits(name, v) \subseteq 0 .. OS \cup {EN}
<1>1. v \subseteq Nat
  BY CommandLineAssumption
<1>2. Low(v, 8) \subseteq 0 .. 7 /\ Low(v, 2) \subseteq 0 .. 1
  BY DEF Low
<1>3. Shift(Low(v, 8), 8) \subseteq 8 .. 15 /\ Shift(Low(v, 2), 16) \subseteq 16 .. 17
  BY <1>2 DEF Shift
<1> QED
  BY <1>2, <1>3 DEF EventBits, OS, EN

\* A list of ids, and the positions of the ones -e keeps.
LEMMA IdListShape ==
  ASSUME NEW max \in Nat, NEW n \in Nat, NEW ids \in IdLists(max, n)
  PROVE  \E k \in 0 .. n :
           /\ ids \in [1 .. k -> {-1, max - 1, max}]
           /\ DOMAIN ids = 1 .. k
           /\ Len(ids) = k
BY DEF IdLists

LEMMA KeptFinite ==
  ASSUME NEW ids, NEW n \in Nat, DOMAIN ids = 1 .. n
  PROVE  /\ Kept(ids) \subseteq 1 .. n
         /\ IsFiniteSet(Kept(ids))
         /\ Cardinality(Kept(ids)) \in 0 .. n
         /\ Cardinality(Kept(ids)) = n => Kept(ids) = 1 .. n
<1>1. Kept(ids) \subseteq 1 .. n
  BY DEF Kept
<1>2. IsFiniteSet(1 .. n) /\ Cardinality(1 .. n) = n
  BY FS_Interval
<1> QED
  BY <1>1, <1>2, FS_Subset, FS_CardinalityType

\* A list that is not refused as too long has at most MUX_EVSETS ids to keep: the list
\* is read up to one id behind them.
LEMMA KeptFits ==
  ASSUME NEW ids \in IdLists(MaxEvsets, MuxEvsets + 1), ~TooMany(ids)
  PROVE  Cardinality(Kept(ids)) \in 0 .. MuxEvsets
<1> USE ConstantTypes
<1>1. PICK n \in 0 .. MuxEvsets + 1 : DOMAIN ids = 1 .. n
  BY IdListShape
<1>2. Cardinality(Kept(ids)) \in 0 .. n
  BY <1>1, KeptFinite
<1>3. ASSUME Cardinality(Kept(ids)) = MuxEvsets + 1
      PROVE  FALSE
  <2>1. n = MuxEvsets + 1 /\ Kept(ids) = 1 .. n
    BY <1>1, <1>2, <1>3, KeptFinite
  <2>2. {j \in Kept(ids) : j < n} = 1 .. MuxEvsets
    BY <2>1
  <2>3. KeptBefore(ids, n) = MuxEvsets
    <3>1. KeptBefore(ids, n) = Cardinality(1 .. MuxEvsets)
      BY <2>2 DEF KeptBefore
    <3> QED
      BY <3>1, FS_Interval
  <2> QED
    BY <1>1, <2>1, <2>3 DEF TooMany
<1> QED
  BY <1>2, <1>3

LEMMA EsidsType ==
  ASSUME NEW ids \in IdLists(MaxEvsets, MuxEvsets + 1),
         \A k \in DOMAIN ids : InTable(ids[k], MaxEvsets)
  PROVE  Esids(ids) \in [Slots -> -1 .. MaxEvsets - 1]
<1> USE ConstantTypes
<1>1. PICK n \in 0 .. MuxEvsets + 1 : ids \in [1 .. n -> {-1, MaxEvsets - 1, MaxEvsets}]
  BY IdListShape
<1>2. \A k \in Kept(ids) : ids[k] \in -1 .. MaxEvsets - 1
  BY <1>1 DEF Kept, InTable
<1>3. ASSUME NEW i \in Slots
      PROVE  (IF \E k \in Kept(ids) : KeptBefore(ids, k) = i
                THEN ids[CHOOSE k \in Kept(ids) : KeptBefore(ids, k) = i] ELSE -1)
               \in -1 .. MaxEvsets - 1
  BY <1>2
<1> QED
  BY <1>3 DEF Esids

\* What -e makes of a list that it accepts.
LEMMA NamedType ==
  ASSUME NEW ids \in IdLists(MaxEvsets, MuxEvsets + 1), ~TooMany(ids),
         \A k \in DOMAIN ids : InTable(ids[k], MaxEvsets)
  PROVE  /\ Named(ids).n_esids \in 0 .. MuxEvsets
         /\ Named(ids).esids \in [Slots -> -1 .. MaxEvsets - 1]
<1> USE ConstantTypes
<1>1. Cardinality(Kept(ids)) \in 0 .. MuxEvsets /\ Esids(ids) \in [Slots -> -1 .. MaxEvsets - 1]
  BY KeptFits, EsidsType
<1>2. 0 \in Slots
  BY DEF Slots
<1> QED
  BY <1>1, <1>2 DEF Named

-----------------------------------------------------------------------------
(* The first state.                                                        *)

LEMMA DefaultsType ==
  ASSUME NEW c \in {"none", "event", "evset"} \cup Profiles
  PROVE  Defaults(c) \in EnvirType
<1> USE ConstantTypes
<1>1. [i \in Slots |-> CASE c = "roof" /\ i = 1 -> 1
                         [] c = "roof" /\ i = 2 -> -1
                         [] OTHER -> 0] \in [Slots -> -1 .. MaxEvsets - 1]
  BY DEF Slots
<1> QED
  BY <1>1 DEF Defaults, EnvirType, Options, DEFAULT_SAMPLE_TIME, DEFAULT_BURST

LEMMA InitIInv == Init => IInv
<1> SUFFICES ASSUME Init PROVE IInv
  OBVIOUS
<1> USE ConstantTypes
<1>1. ArgsType
  <2>1. prog \in BOOLEAN
    BY DEF Init
  <2>2. given \in [Flags -> 0 .. MaxArgs] /\ \A f \in Flags : given[f] <= n_args
    BY DEF Init, Flags
  <2> QED
    BY <2>1, <2>2 DEF Init, ArgsType, Ends, Profiles
<1>2. RecordType
  <2>1. envir \in EnvirType
    BY DefaultsType DEF Init
  <2>2. evset \in EvsetType
    BY DEF Init, EvsetType, NoEvset
  <2>3. conf \in ConfType
    BY DEF Init, ConfType
  <2> QED
    BY <2>1, <2>2, <2>3 DEF RecordType
<1>3. EndInv /\ EventInv
  BY DEF Init, EndInv, EventInv
<1>4. EvsetInv
  BY DEF Init, EvsetInv, NoEvset, FxCtrs
<1> QED
  BY <1>1, <1>2, <1>3, <1>4 DEF IInv, PInv

-----------------------------------------------------------------------------
(* The steps.                                                              *)

\* The labels behind the end of the arguments.
Handed == {"main", "smon_set_event", "smon_set_evset"}

\* A step that leaves the records alone keeps their invariants, unless its new label
\* says something of them.
LEMMA SameRecords ==
  ASSUME IInv, UNCHANGED <<cmd, perfevtsel, evset, envir, conf, n_evsets>>,
         given'["events"] = given["events"] /\ given'["e"] = given["e"]
  PROVE  /\ RecordType'
         /\ pc' = pc => EndInv' /\ EventInv' /\ EvsetInv'
         /\ pc' \notin Handed => EndInv' /\ EventInv' /\ EvsetInv'
<1> USE DEF IInv, PInv
<1>1. RecordType'
  BY DEF RecordType
<1>2. pc' = pc => EndInv' /\ EventInv' /\ EvsetInv'
  BY DEF EndInv, EventInv, EvsetInv
<1>3. pc' \notin Handed => EndInv' /\ EventInv' /\ EvsetInv'
  BY DEF EndInv, EventInv, EvsetInv, Handed
<1> QED
  BY <1>1, <1>2, <1>3

\* The steps that read an argument nobody keeps, or none at all.
LabelStep ==
  \/ NoCommand \/ Add \/ List \/ NeitherAddNorList \/ Tag \/ BadSubopt
  \/ cmd \in Profiles /\ (OtherOption \/ Prog)

LEMMA LabelStepIInv ==
  ASSUME IInv, LabelStep
  PROVE  IInv'
<1> USE ConstantTypes
<1>1. ArgsType'
  <2>1. CASE NoCommand
    BY <2>1 DEF IInv, ArgsType, Flags, Ends, Profiles, driverVars, Arg, Count, NoCommand
  <2>2. CASE Add
    BY <2>2 DEF IInv, ArgsType, Flags, Ends, Profiles, driverVars, Arg, Count, Add
  <2>3. CASE List
    BY <2>3 DEF IInv, ArgsType, Flags, Ends, Profiles, driverVars, Arg, Count, List
  <2>4. CASE NeitherAddNorList
    BY <2>4 DEF IInv, ArgsType, Flags, Ends, Profiles, driverVars, Arg, Count, NeitherAddNorList
  <2>5. CASE Tag
    BY <2>5 DEF IInv, ArgsType, Flags, Ends, Profiles, driverVars, Arg, Count, Tag
  <2>6. CASE BadSubopt
    BY <2>6 DEF IInv, ArgsType, Flags, Ends, Profiles, driverVars, Arg, Count, BadSubopt
  <2>7. CASE OtherOption
    BY <2>7 DEF IInv, ArgsType, Flags, Ends, Profiles, driverVars, Arg, Count, OtherOption
  <2>8. CASE Prog
    BY <2>8 DEF IInv, ArgsType, Flags, Ends, Profiles, driverVars, Arg, Count, Prog
  <2> QED
    BY <2>1, <2>2, <2>3, <2>4, <2>5, <2>6, <2>7, <2>8 DEF LabelStep
<1>2. /\ UNCHANGED <<cmd, perfevtsel, evset, envir, conf, n_evsets>>
      /\ given'["events"] = given["events"] /\ given'["e"] = given["e"]
      /\ pc' = pc \/ pc' \notin Handed
  BY DEF IInv, ArgsType, Flags, LabelStep, NoCommand, Add, List, NeitherAddNorList, Tag, BadSubopt,
         OtherOption, Prog, Arg, Count, driverVars, Handed
<1> QED
  BY <1>1, <1>2, SameRecords DEF IInv, PInv

\* The first argument: nothing has been counted yet.
LEMMA CommandIInv ==
  ASSUME IInv, NEW c \in {"event", "evset"} \cup Profiles, Command(c)
  PROVE  IInv'
<1> USE ConstantTypes
<1>1. ArgsType'
  BY DEF IInv, ArgsType, Flags, Ends, Profiles, driverVars, Command
<1>2. /\ pc = "command" /\ pc' = "options" /\ cmd = "none" /\ cmd' = c
      /\ UNCHANGED <<given, perfevtsel, evset>>
      /\ given["events"] = 0 /\ given["e"] = 0
  BY DEF IInv, ArgsType, Flags, Command
<1>3. envir' \in EnvirType
  BY DefaultsType DEF Command, IInv, RecordType
<1>4. conf' \in ConfType
  <2>1. CASE c \in Profiles
    <3>1. PICK mask \in CpuMasks \cup {{}}, count \in {0, 1} :
            conf' = [mmap_pages |-> IF c = "stat" THEN 8 ELSE DEFAULT_MMAP_PAGES,
                     cpumask |-> mask, count_mode |-> count]
      BY <2>1 DEF Command
    <3>2. mask \in SUBSET Nat
      BY CommandLineAssumption
    <3> QED
      BY <3>1, <3>2 DEF ConfType, DEFAULT_MMAP_PAGES
  <2>2. CASE c \notin Profiles
    BY <2>2 DEF Command, IInv, RecordType
  <2> QED
    BY <2>1, <2>2
<1>5. RecordType'
  BY <1>2, <1>3, <1>4 DEF IInv, RecordType
<1>6. EndInv' /\ EventInv' /\ EvsetInv'
  BY <1>2 DEF IInv, PInv, EndInv, EventInv, EvsetInv
<1> QED
  BY <1>1, <1>3, <1>4, <1>5, <1>6 DEF IInv, PInv

\* event -a.
LEMMA EventSuboptIInv ==
  ASSUME IInv, NEW name \in {"mode", "evsel", "umask"}, NEW v \in Masks, EventSubopt(name, v)
  PROVE  IInv'
<1> USE ConstantTypes
<1>1. ArgsType'
  BY DEF IInv, ArgsType, Flags, Ends, Profiles, driverVars, Arg, Count, EventSubopt
<1>2. /\ UNCHANGED <<cmd, pc, evset, envir, conf, n_evsets>>
      /\ given'["events"] = given["events"] /\ given'["e"] = given["e"]
      /\ cmd = "event" /\ pc = "subopts"
  BY DEF IInv, ArgsType, Flags, EventSubopt, Arg, Count, driverVars
<1>3. EventInv'
  BY <1>2, EventBitsBounded DEF IInv, PInv, EventInv, EventSubopt
<1>4. RecordType' /\ EndInv'
  BY <1>2 DEF IInv, PInv, RecordType, EndInv
<1>5. EvsetInv'
  BY <1>2 DEF IInv, PInv, EvsetInv
<1> QED
  BY <1>1, <1>3, <1>4, <1>5 DEF IInv, PInv

LEMMA EventEndIInv ==
  ASSUME IInv, EventEnd
  PROVE  IInv'
<1> USE ConstantTypes
<1>1. ArgsType'
  BY DEF IInv, ArgsType, Flags, Ends, Profiles, driverVars, EventEnd
<1>2. /\ UNCHANGED <<cmd, given, evset, envir, conf, n_evsets>>
      /\ cmd = "event" /\ pc' \in {"main", "refused"}
  BY DEF EventEnd, driverVars
<1>3. EventInv'
  <2>1. perfevtsel \subseteq 0 .. 17 \cup {22}
    BY DEF IInv, PInv, EventInv, OS, EN
  <2>2. CASE UNCHANGED perfevtsel
    <3>1. pc' = "main" => perfevtsel \cap {USR, OS} # {}
      BY <2>2 DEF EventEnd, USR, OS
    <3> QED
      BY <1>2, <2>2, <3>1 DEF IInv, PInv, EventInv
  <2>3. CASE perfevtsel' = perfevtsel \cup {USR, OS}
    BY <2>1, <2>3 DEF EventInv, USR, OS, EN
  <2> QED
    BY <2>2, <2>3 DEF EventEnd
<1>4. RecordType' /\ EndInv'
  BY <1>2 DEF IInv, PInv, RecordType, EndInv
<1>5. EvsetInv'
  BY <1>2 DEF IInv, PInv, EvsetInv
<1> QED
  BY <1>1, <1>3, <1>4, <1>5 DEF IInv, PInv

\* evset -a: a list of events enables the counters it names and replaces the last one.
LEMMA EvsetEventsIInv ==
  ASSUME IInv, NEW ids \in IdLists(MaxEvents, MaxGpCtrs + 1), EvsetEvents(ids)
  PROVE  IInv'
<1> USE ConstantTypes
<1>1. ArgsType'
  <2>1. n_args' = n_args + 1 /\ n_args' \in 0 .. MaxArgs
    BY DEF IInv, ArgsType, Arg, EvsetEvents
  <2>2. given' = given \/ given' = [given EXCEPT !["events"] = @ + 1]
    BY DEF EvsetEvents, Count
  <2>3. given' \in [Flags -> 0 .. MaxArgs] /\ \A f \in Flags : given'[f] <= n_args'
    BY <2>1, <2>2 DEF IInv, ArgsType, Flags
  <2>4. pc' \in {pc, "refused"}
    BY DEF EvsetEvents
  <2> QED
    BY <2>1, <2>3, <2>4 DEF IInv, ArgsType, Ends, Profiles, driverVars, Arg, EvsetEvents
<1>2. /\ UNCHANGED <<cmd, perfevtsel, envir, conf, n_evsets>>
      /\ given'["e"] = given["e"]
      /\ cmd = "evset" /\ pc' \in {"subopts", "refused"}
  BY DEF IInv, ArgsType, Flags, EvsetEvents, Arg, Count, driverVars
<1>3. evset' \in EvsetType /\ EvsetInv'
  <2>1. CASE UNCHANGED <<evset, given>>
    BY <1>2, <2>1 DEF IInv, PInv, RecordType, EvsetInv
  <2>2. CASE ~UNCHANGED <<evset, given>>
    <3> DEFINE evids == [i \in GpCtrs |-> IF i < Len(ids) THEN ids[i + 1] ELSE -1]
    <3>1. /\ Len(ids) \in 1 .. MaxGpCtrs /\ \A k \in DOMAIN ids : InTable(ids[k], MaxEvents)
          /\ evset' = [evset EXCEPT !.evids = evids,
                         !.global_ctrl = @ \cup {i \in GpCtrs : evids[i] >= 0}]
      BY <2>2 DEF EvsetEvents
    <3>2. PICK n \in 0 .. MaxGpCtrs + 1 : /\ ids \in [1 .. n -> {-1, MaxEvents - 1, MaxEvents}]
                                          /\ DOMAIN ids = 1 .. n /\ Len(ids) = n
      BY IdListShape
    <3>3. \A k \in 1 .. n : ids[k] \in -1 .. MaxEvents - 1
      BY <3>1, <3>2 DEF InTable
    <3>4. evids \in [GpCtrs -> -1 .. MaxEvents - 1]
      BY <3>2, <3>3 DEF GpCtrs
    <3>5. /\ evset \in EvsetType
          /\ evset'.evids = evids /\ evset'.fixed_ctrl = evset.fixed_ctrl
          /\ evset'.global_ctrl = evset.global_ctrl \cup {i \in GpCtrs : evids[i] >= 0}
      BY <3>1 DEF IInv, RecordType, EvsetType
    <3>6. GpCtrs \subseteq 0 .. 31
      BY DEF GpCtrs
    <3>7. evset' \in EvsetType
      <4>1. evset' = [evids |-> evids, fixed_ctrl |-> evset.fixed_ctrl,
                      global_ctrl |-> evset.global_ctrl \cup {i \in GpCtrs : evids[i] >= 0}]
        BY <3>1, <3>5 DEF EvsetType
      <4> HIDE DEF evids
      <4>2. evset.global_ctrl \cup {i \in GpCtrs : evids[i] >= 0} \in SUBSET (0 .. 63)
        <5>1. evset.global_ctrl \subseteq 0 .. 63
          BY <3>5 DEF EvsetType
        <5>2. {i \in GpCtrs : evids[i] >= 0} \subseteq 0 .. 63
          <6>1. GpCtrs \subseteq 0 .. 63
            BY <3>6
          <6> QED
            BY <6>1, Zenon
        <5> QED
          BY <5>1, <5>2, Zenon
      <4>3. evset.fixed_ctrl \in SUBSET (0 .. 11)
        BY <3>5 DEF EvsetType
      <4> QED
        BY <3>4, <4>1, <4>2, <4>3 DEF EvsetType
    <3>8. \A i \in GpCtrs : evset'.evids[i] >= 0 => i \in evset'.global_ctrl
      BY <3>5
    <3>9. \A i \in FxCtrs : GLOBAL_FX(i) \notin GpCtrs
      BY <3>6 DEF FxCtrs, GLOBAL_FX
    <3>10. \A i \in FxCtrs :
             evset'.fixed_ctrl \cap FX_EN(i) # {} <=> GLOBAL_FX(i) \in evset'.global_ctrl
      BY <3>5, <3>9 DEF IInv, PInv, EvsetInv
    <3> QED
      BY <1>2, <3>7, <3>8, <3>10 DEF EvsetInv
  <2> QED
    BY <2>1, <2>2
<1>4. RecordType' /\ EndInv' /\ EventInv'
  BY <1>2, <1>3 DEF IInv, PInv, RecordType, EndInv, EventInv
<1> QED
  BY <1>1, <1>3, <1>4 DEF IInv, PInv

\* A fixed counter gets its enable bits and its bit of global_ctrl together.
LEMMA EvsetFixedIInv ==
  ASSUME IInv, NEW v \in Masks, EvsetFixed(v)
  PROVE  IInv'
<1> USE ConstantTypes
<1>1. ArgsType'
  BY DEF IInv, ArgsType, Flags, Ends, Profiles, driverVars, Arg, EvsetFixed
<1>2. /\ UNCHANGED <<cmd, pc, given, perfevtsel, envir, conf, n_evsets>>
      /\ cmd = "evset" /\ pc = "subopts"
  BY DEF EvsetFixed, Arg, driverVars
<1>3. evset' \in EvsetType /\ EvsetInv'
  <2> DEFINE all == UNION {FX_EN(i) : i \in FxCtrs}
             on  == {j \in FxCtrs : v \cap FX_EN(j) # {}}
  <2>1. /\ evset \in EvsetType
        /\ evset' = [evset EXCEPT !.fixed_ctrl = evset.fixed_ctrl \cup (v \cap all),
                       !.global_ctrl = evset.global_ctrl \cup {GLOBAL_FX(i) : i \in on}]
    BY DEF IInv, RecordType, EvsetType, EvsetFixed, FixedCtrl
  <2> HIDE DEF on
  <2>2. /\ evset'.evids = evset.evids
        /\ evset'.fixed_ctrl = evset.fixed_ctrl \cup (v \cap all)
        /\ evset'.global_ctrl = evset.global_ctrl \cup {GLOBAL_FX(i) : i \in on}
    BY <2>1 DEF EvsetType
  <2>3. all \subseteq 0 .. 11
    BY DEF FxCtrs, FX_EN
  <2>4. {GLOBAL_FX(i) : i \in on} \subseteq 32 .. 34
    BY DEF on, FxCtrs, GLOBAL_FX
  <2> HIDE DEF all
  <2>5. evset' \in EvsetType
    <3>1. evset' = [evids |-> evset.evids, fixed_ctrl |-> evset.fixed_ctrl \cup (v \cap all),
                    global_ctrl |-> evset.global_ctrl \cup {GLOBAL_FX(i) : i \in on}]
      BY <2>1 DEF EvsetType
    <3>2. evset.fixed_ctrl \cup (v \cap all) \in SUBSET (0 .. 11)
      BY <2>1, <2>3 DEF EvsetType
    <3>3. evset.global_ctrl \cup {GLOBAL_FX(i) : i \in on} \in SUBSET (0 .. 63)
      BY <2>1, <2>4 DEF EvsetType
    <3>4. evset.evids \in [GpCtrs -> -1 .. MaxEvents - 1]
      BY <2>1 DEF EvsetType
    <3> QED
      BY <3>1, <3>2, <3>3, <3>4 DEF EvsetType
  <2>6. ASSUME NEW i \in FxCtrs
        PROVE  /\ FX_EN(i) \subseteq all
               /\ i \in on <=> v \cap FX_EN(i) # {}
               /\ i \in on <=> GLOBAL_FX(i) \in {GLOBAL_FX(j) : j \in on}
    <3>1. on \subseteq Int /\ i \in Int
      BY DEF on, FxCtrs
    <3> QED
      BY <3>1 DEF all, on, GLOBAL_FX
  <2>7. \A i \in FxCtrs :
          evset'.fixed_ctrl \cap FX_EN(i) # {} <=> GLOBAL_FX(i) \in evset'.global_ctrl
    <3> TAKE i \in FxCtrs
    <3>1. evset.fixed_ctrl \cap FX_EN(i) # {} <=> GLOBAL_FX(i) \in evset.global_ctrl
      BY DEF IInv, PInv, EvsetInv
    <3>2. evset'.fixed_ctrl \cap FX_EN(i) # {}
            <=> evset.fixed_ctrl \cap FX_EN(i) # {} \/ v \cap FX_EN(i) # {}
      BY <2>2, <2>6, Zenon
    <3> QED
      BY <2>2, <2>6, <3>1, <3>2
  <2>8. given["events"] > 0 => \A i \in GpCtrs : evset'.evids[i] >= 0 => i \in evset'.global_ctrl
    BY <2>2 DEF IInv, PInv, EvsetInv
  <2> QED
    BY <1>2, <2>5, <2>7, <2>8 DEF EvsetInv
<1>4. RecordType' /\ EndInv' /\ EventInv'
  BY <1>2, <1>3 DEF IInv, PInv, RecordType, EndInv, EventInv
<1> QED
  BY <1>1, <1>3, <1>4 DEF IInv, PInv

LEMMA EvsetEndIInv ==
  ASSUME IInv, EvsetEnd
  PROVE  IInv'
<1> USE ConstantTypes
<1>1. ArgsType'
  BY DEF IInv, ArgsType, Flags, Ends, Profiles, driverVars, EvsetEnd
<1>2. /\ UNCHANGED <<cmd, given, perfevtsel, evset, envir, conf, n_evsets>>
      /\ cmd = "evset" /\ pc' \in {"main", "refused"}
  BY DEF EvsetEnd, driverVars
<1>3. pc' = "main" => given["events"] > 0
  <2>1. pc' = "main" => AllSet({given["tag"], given["events"]})
    BY DEF EvsetEnd
  <2>2. given["events"] \in Nat
    BY DEF IInv, ArgsType, Flags
  <2> QED
    BY <2>1, <2>2, AllSetPositive
<1>4. RecordType' /\ EndInv' /\ EventInv'
  BY <1>2 DEF IInv, PInv, RecordType, EndInv, EventInv
<1>5. EvsetInv'
  BY <1>2, <1>3 DEF IInv, PInv, EvsetInv
<1> QED
  BY <1>1, <1>3, <1>4, <1>5 DEF IInv, PInv

\* The options of profile, stat and roof.
LEMMA BurstIInv ==
  ASSUME IInv, cmd \in Profiles, NEW n \in Bursts, Burst(n)
  PROVE  IInv'
<1> USE ConstantTypes
<1>1. ArgsType'
  BY DEF IInv, ArgsType, Flags, Ends, Profiles, driverVars, Arg, Burst
<1>2. /\ UNCHANGED <<cmd, perfevtsel, evset, conf, n_evsets>>
      /\ given'["events"] = given["events"]
      /\ pc' \in {"options", "refused"}
  BY DEF IInv, ArgsType, Flags, Burst, Arg, driverVars
<1>3. /\ envir' \in EnvirType
      /\ given' = given
  <2>1. n \in Nat /\ envir \in EnvirType
    BY CommandLineAssumption DEF IInv, RecordType
  <2> QED
    BY <2>1 DEF Burst, EnvirType, DEFAULT_BURST
<1>4. RecordType' /\ EndInv' /\ EventInv' /\ EvsetInv'
  BY <1>2, <1>3 DEF IInv, PInv, RecordType, EndInv, EventInv, EvsetInv
<1> QED
  BY <1>1, <1>4 DEF IInv, PInv

LEMMA CpuMaskIInv ==
  ASSUME IInv, cmd \in Profiles, NEW mask \in CpuMasks, CpuMask(mask)
  PROVE  IInv'
<1> USE ConstantTypes
<1>1. ArgsType'
  BY DEF IInv, ArgsType, Flags, Ends, Profiles, driverVars, Arg, CpuMask
<1>2. /\ UNCHANGED <<cmd, perfevtsel, evset, envir, n_evsets>>
      /\ given'["events"] = given["events"]
      /\ pc' \in {"options", "refused"}
  BY DEF IInv, ArgsType, Flags, CpuMask, Arg, driverVars
<1>3. conf' \in ConfType /\ given' = given
  <2>1. mask \in SUBSET Nat /\ conf \in ConfType
    BY CommandLineAssumption DEF IInv, RecordType
  <2> QED
    BY <2>1 DEF CpuMask, ConfType
<1>4. RecordType' /\ EndInv' /\ EventInv' /\ EvsetInv'
  BY <1>2, <1>3 DEF IInv, PInv, RecordType, EndInv, EventInv, EvsetInv
<1> QED
  BY <1>1, <1>4 DEF IInv, PInv

LEMMA EvsetOptionIInv ==
  ASSUME IInv, cmd \in Profiles, NEW ids \in IdLists(MaxEvsets, MuxEvsets + 1), EvsetOption(ids)
  PROVE  IInv'
<1> USE ConstantTypes
<1>1. ArgsType'
  <2>1. n_args' = n_args + 1 /\ n_args' \in 0 .. MaxArgs
    BY DEF IInv, ArgsType, Arg, EvsetOption
  <2>2. given' = given \/ given' = [given EXCEPT !["e"] = @ + 1]
    BY DEF EvsetOption, Count
  <2>3. given' \in [Flags -> 0 .. MaxArgs] /\ \A f \in Flags : given'[f] <= n_args'
    BY <2>1, <2>2 DEF IInv, ArgsType, Flags
  <2>4. pc' \in {pc, "refused"}
    BY DEF EvsetOption
  <2> QED
    BY <2>1, <2>3, <2>4 DEF IInv, ArgsType, Ends, Profiles, driverVars, Arg, EvsetOption
<1>2. /\ UNCHANGED <<cmd, perfevtsel, evset, conf, n_evsets>>
      /\ given'["events"] = given["events"]
      /\ pc' \in {"options", "refused"}
  BY DEF IInv, ArgsType, Flags, EvsetOption, Count, Arg, driverVars
<1>3. envir' \in EnvirType
  <2>1. CASE UNCHANGED <<envir, given>>
    BY <2>1 DEF IInv, RecordType
  <2>2. CASE ~UNCHANGED <<envir, given>>
    <3>1. /\ ~TooMany(ids) /\ \A k \in DOMAIN ids : InTable(ids[k], MaxEvsets)
          /\ envir' = [envir EXCEPT !.n_esids = Named(ids).n_esids, !.esids = Named(ids).esids]
      BY <2>2 DEF EvsetOption
    <3>2. envir \in EnvirType
      BY DEF IInv, RecordType
    <3>3. /\ Named(ids).n_esids \in 0 .. MuxEvsets
          /\ Named(ids).esids \in [Slots -> -1 .. MaxEvsets - 1]
      BY <3>1, NamedType
    <3> QED
      BY <3>1, <3>2, <3>3 DEF EnvirType
  <2> QED
    BY <2>1, <2>2
<1>4. RecordType' /\ EndInv' /\ EventInv' /\ EvsetInv'
  BY <1>2, <1>3 DEF IInv, PInv, RecordType, EndInv, EventInv, EvsetInv
<1> QED
  BY <1>1, <1>4 DEF IInv, PInv

LEMMA FlagIInv ==
  ASSUME IInv, cmd \in Profiles, NEW option \in Options, Flag(option)
  PROVE  IInv'
<1> USE ConstantTypes
<1>1. ArgsType'
  BY DEF IInv, ArgsType, Flags, Ends, Profiles, driverVars, Arg, Flag
<1>2. /\ UNCHANGED <<cmd, perfevtsel, evset, conf, n_evsets>>
      /\ given'["events"] = given["events"]
      /\ pc' \in {"options", "refused"}
  BY DEF IInv, ArgsType, Flags, Flag, Arg, driverVars
<1>3. /\ envir' \in EnvirType
      /\ given' = given
  <2>1. envir \in EnvirType
    BY DEF IInv, RecordType
  <2> QED
    BY <2>1 DEF Flag, EnvirType
<1>4. RecordType' /\ EndInv' /\ EventInv' /\ EvsetInv'
  BY <1>2, <1>3 DEF IInv, PInv, RecordType, EndInv, EventInv, EvsetInv
<1> QED
  BY <1>1, <1>4 DEF IInv, PInv

LEMMA PagesIInv ==
  ASSUME IInv, cmd \in Profiles, NEW n \in PageCounts, Pages(n)
  PROVE  IInv'
<1> USE ConstantTypes
<1>1. ArgsType'
  BY DEF IInv, ArgsType, Flags, Ends, Profiles, driverVars, Arg, Pages
<1>2. /\ UNCHANGED <<cmd, perfevtsel, evset, envir, n_evsets>>
      /\ given'["events"] = given["events"]
      /\ pc' \in {"options", "refused"}
  BY DEF IInv, ArgsType, Flags, Pages, Arg, driverVars
<1>3. /\ conf' \in ConfType /\ given' = given
  <2>1. n \in Nat /\ conf \in ConfType
    BY CommandLineAssumption DEF IInv, RecordType
  <2>2. PagesOf(n) \in Nat
    BY <2>1 DEF PagesOf, DEFAULT_MMAP_PAGES
  <2> QED
    BY <2>1, <2>2 DEF Pages, ConfType
<1>4. RecordType' /\ EndInv' /\ EventInv' /\ EvsetInv'
  BY <1>2, <1>3 DEF IInv, PInv, RecordType, EndInv, EventInv, EvsetInv
<1> QED
  BY <1>1, <1>4 DEF IInv, PInv

LEMMA SampleTimeIInv ==
  ASSUME IInv, cmd \in Profiles, NEW n \in Times, SampleTime(n)
  PROVE  IInv'
<1> USE ConstantTypes
<1>1. ArgsType'
  BY DEF IInv, ArgsType, Flags, Ends, Profiles, driverVars, Arg, SampleTime
<1>2. /\ UNCHANGED <<cmd, perfevtsel, evset, n_evsets>>
      /\ given'["events"] = given["events"]
      /\ pc' \in {"options", "refused"}
  BY DEF IInv, ArgsType, Flags, SampleTime, Arg, driverVars
<1>3. /\ envir' \in EnvirType /\ conf' \in ConfType
      /\ given' = given
  <2>1. n \in Nat /\ envir \in EnvirType /\ conf \in ConfType
    BY CommandLineAssumption DEF IInv, RecordType
  <2> QED
    BY <2>1 DEF SampleTime, EnvirType, ConfType
<1>4. RecordType' /\ EndInv' /\ EventInv' /\ EvsetInv'
  BY <1>2, <1>3 DEF IInv, PInv, RecordType, EndInv, EventInv, EvsetInv
<1> QED
  BY <1>1, <1>4 DEF IInv, PInv

LEMMA OptionsEndIInv ==
  ASSUME IInv, cmd \in Profiles, OptionsEnd
  PROVE  IInv'
<1> USE ConstantTypes
<1>1. ArgsType'
  BY DEF IInv, ArgsType, Flags, Ends, Profiles, driverVars, OptionsEnd
<1>2. /\ UNCHANGED <<cmd, given, perfevtsel, evset, envir, conf, n_evsets>>
      /\ pc' \in {"main", "refused"}
      /\ pc' = "main" => cmd = "roof" \/ given["e"] > 0
  BY DEF OptionsEnd, driverVars
<1>3. RecordType' /\ EndInv' /\ EventInv'
  BY <1>2 DEF IInv, PInv, RecordType, EndInv, EventInv, Profiles
<1>4. EvsetInv'
  BY <1>2 DEF IInv, PInv, EvsetInv, Profiles
<1> QED
  BY <1>1, <1>3, <1>4 DEF IInv, PInv

\* main hands every command over to its own end.
LEMMA MainIInv ==
  ASSUME IInv, Main
  PROVE  IInv'
<1> USE ConstantTypes
<1>1. cmd # "none"
  BY DEF IInv, ArgsType, Main
<1>2. ArgsType'
  BY DEF IInv, ArgsType, Flags, Ends, Profiles, driverVars, Main
<1>3. /\ UNCHANGED <<cmd, given, perfevtsel, evset, envir, conf, n_evsets>>
      /\ pc = "main" /\ pc' \in {"smon_set_event", "smon_set_evset", "start_profile", "refused"}
      /\ pc' = "smon_set_event" => cmd = "event"
      /\ pc' = "smon_set_evset" => cmd = "evset"
  BY <1>1 DEF IInv, ArgsType, Main, driverVars, Profiles
<1>4. RecordType' /\ EndInv' /\ EventInv'
  BY <1>3 DEF IInv, PInv, RecordType, EndInv, EventInv, Profiles
<1>5. EvsetInv'
  BY <1>3 DEF IInv, PInv, EvsetInv
<1> QED
  BY <1>2, <1>4, <1>5 DEF IInv, PInv

\* The driver's copy of the environment has the type of the tool's.
LEMMA StartProfileIInv ==
  ASSUME IInv, StartProfile
  PROVE  IInv'
<1> USE ConstantTypes
<1>1. ArgsType'
  BY DEF IInv, ArgsType, Flags, Ends, Profiles, driverVars, StartProfile
<1>2. UNCHANGED <<cmd, given, perfevtsel, evset, conf>> /\ pc' \in {"session", "refused"}
  BY DEF StartProfile
<1>3. envir' \in EnvirType
  <2>1. envir \in EnvirType
    BY DEF IInv, RecordType
  <2>2. smon_create_envir \in EnvirType
    <3> DEFINE time == IF envir.sample_time > 0 THEN envir.sample_time ELSE DEFAULT_SAMPLE_TIME
               esids == IF "STAT" \in envir.options THEN 1 ELSE envir.n_esids
               options == IF "STAT" \in envir.options
                            THEN envir.options \ {"RAP", "CPU", "FORK", "SCHED"} ELSE envir.options
    <3>1. smon_create_envir = [envir EXCEPT !.sample_time = time, !.n_esids = esids, !.options = options]
      BY <2>1 DEF smon_create_envir, EnvirType
    <3>2. time \in Nat /\ esids \in 0 .. MuxEvsets
      BY <2>1 DEF EnvirType, DEFAULT_SAMPLE_TIME
    <3>3. options \in SUBSET Options
      BY <2>1 DEF EnvirType
    <3> HIDE DEF time, esids, options
    <3> QED
      BY <2>1, <3>1, <3>2, <3>3 DEF EnvirType
  <2> QED
    BY <2>1, <2>2 DEF StartProfile
<1>4. RecordType' /\ EndInv' /\ EventInv' /\ EvsetInv'
  BY <1>2, <1>3 DEF IInv, PInv, RecordType, EndInv, EventInv, EvsetInv
<1> QED
  BY <1>1, <1>4 DEF IInv, PInv

LEMMA NextIInv == IInv /\ [Next]_vars => IInv'
<1> SUFFICES ASSUME IInv, [Next]_vars PROVE IInv'
  OBVIOUS
<1>1. ASSUME NEW c \in {"event", "evset"} \cup Profiles, Command(c) PROVE IInv'
  BY <1>1, CommandIInv
<1>2. CASE LabelStep
  BY <1>2, LabelStepIInv
<1>3. CASE parse_event
  BY <1>3, EventSuboptIInv, EventEndIInv DEF parse_event
<1>4. CASE parse_evset
  BY <1>4, EvsetEventsIInv, EvsetFixedIInv, EvsetEndIInv DEF parse_evset
<1>5. ASSUME cmd \in Profiles, ProgramOptions PROVE IInv'
  BY <1>5, LabelStepIInv, OptionsEndIInv, CpuMaskIInv DEF ProgramOptions, LabelStep
<1>6. ASSUME cmd \in Profiles, cmd # "stat", SamplingOptions PROVE IInv'
  BY <1>6, BurstIInv, FlagIInv, PagesIInv, SampleTimeIInv DEF SamplingOptions, Options
<1>7. ASSUME cmd \in Profiles, EvsetOptions PROVE IInv'
  BY <1>7, EvsetOptionIInv DEF EvsetOptions
<1>8. CASE parse_profile \/ parse_stat \/ parse_roof
  BY <1>5, <1>6, <1>7, <1>8, FlagIInv DEF parse_profile, parse_stat, parse_roof, Profiles, Options
<1>9. CASE Main
  BY <1>9, MainIInv
<1>10. CASE StartProfile
  BY <1>10, StartProfileIInv
<1>11. CASE UNCHANGED vars
  BY <1>11 DEF vars, driverVars, IInv, ArgsType, RecordType, PInv, EndInv, EventInv, EvsetInv
<1> QED
  BY <1>1, <1>2, <1>3, <1>4, <1>8, <1>9, <1>10, <1>11 DEF Next, LabelStep, Over

LEMMA Invariance == Spec => []IInv
BY InitIInv, NextIInv, PTL DEF Spec

-----------------------------------------------------------------------------
(* The theorems.                                                           *)

\* Every value the command line keeps has its type: a list that -e accepts names at most
\* MUX_EVSETS event-sets, however many of its ids are below zero.
THEOREM CommandLineTypeCorrect == Spec => []TypeOK
<1>1. ASSUME IInv PROVE TypeOK
  <2>1. /\ evset.evids \in [GpCtrs -> -1 .. MaxEvents - 1]
        /\ evset.fixed_ctrl \in SUBSET (0 .. 11)
        /\ evset.global_ctrl \in SUBSET (0 .. 63)
    BY <1>1 DEF IInv, RecordType, EvsetType
  <2>2. /\ envir.options \in SUBSET Options
        /\ envir.n_esids \in 0 .. MuxEvsets
        /\ envir.esids \in [Slots -> -1 .. MaxEvsets - 1]
        /\ envir.sample_time \in Nat /\ envir.batch_size \in Nat \ {0}
        /\ conf.mmap_pages \in Nat /\ conf.count_mode \in {0, 1}
    BY <1>1 DEF IInv, RecordType, EnvirType, ConfType
  <2>3. perfevtsel \in SUBSET (0 .. 63)
    BY <1>1 DEF IInv, PInv, EventInv, OS, EN
  <2> QED
    BY <1>1, <2>1, <2>2, <2>3 DEF IInv, ArgsType, Flags, Options, TypeOK
<1> QED
  BY <1>1, Invariance, PTL

\* A counter that an event-set counts is enabled in its global_ctrl, and a fixed counter
\* that is not counted is not.
THEOREM CountersEnabled == Spec => []ReadCountersEnabled
<1>1. IInv => ReadCountersEnabled
  BY DEF IInv, PInv, EndInv, EvsetInv, ReadCountersEnabled
<1> QED
  BY <1>1, Invariance, PTL

\* An event has a mode and none of the flags of perfevtsel behind it.
THEOREM EventsWellFormed == Spec => []EventWellFormed
<1>1. IInv => EventWellFormed
  BY DEF IInv, PInv, EndInv, EventInv, EventWellFormed
<1> QED
  BY <1>1, Invariance, PTL

=============================================================================
