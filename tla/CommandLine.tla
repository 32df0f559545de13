---------------------------- MODULE CommandLine ----------------------------
(***************************************************************************)
(* The command line of the tool (src/tool/src/cmd.c) up to the call that   *)
(* carries the command out (src/tool/src/main.c), and what the driver      *)
(* makes of the values it is handed (smon_create_envir, smon_mmap).  One   *)
(* option or suboption of the arguments is read in a step, so every order  *)
(* and every repetition of them is a behaviour.                            *)
(*                                                                         *)
(* A number that is used as a mask is the set of its bits: | is union, &   *)
(* is intersection.  A list of ids is a sequence of numbers; an id below   *)
(* zero is what strtoul makes of "-1" in an int.  getopt moves the         *)
(* arguments that are no options to the end, so an option counts wherever  *)
(* it stands, behind PROG too.                                             *)
(***************************************************************************)
EXTENDS Integers, Sequences, FiniteSets

CONSTANTS
  MaxGpCtrs,    \* MAX_GP_CTRS
  MaxEvents,    \* MAX_EVENTS
  MaxEvsets,    \* MAX_EVSETS
  MuxEvsets,    \* MUX_EVSETS
  MaxPages,     \* SMON_MAX_PAGES
  Bursts, Times, PageCounts,  \* numbers given to -b, -t and -p
  Masks,        \* numbers given to suboptions, as sets of bits
  CpuMasks,     \* numbers given to -c, and what main's stack may hold
  MaxArgs       \* bound: options, or suboptions of -a, of one command

DEFAULT_BURST       == 1000
DEFAULT_SAMPLE_TIME == 10
DEFAULT_MMAP_PAGES  == 1024

\* (The last conjunct holds of every number; the provers know nothing of x^y.)
ASSUME CommandLineAssumption ==
  /\ {MaxGpCtrs, MaxEvents, MaxEvsets, MaxPages, MaxArgs} \subseteq Nat \ {0}
  /\ MaxGpCtrs <= 32   \* the fixed counters have the bits of global_ctrl from 32 on
  /\ MuxEvsets \in Nat /\ MuxEvsets >= 3
  /\ MaxEvsets >= 2    \* roof names the event-sets 0 and 1
  /\ Bursts \cup Times \cup PageCounts \subseteq Nat
  /\ \A v \in Masks \cup CpuMasks : v \subseteq Nat
  /\ \A k \in 0 .. MaxArgs : 2^k \in Nat \ {0}

GpCtrs == 0 .. MaxGpCtrs - 1
FxCtrs == 0 .. 2
Slots  == 0 .. MuxEvsets - 1

\* Lists of at most n ids: below zero, the last one a table can have, and the first it
\* cannot.
IdLists(max, n) == UNION {[1 .. k -> {-1, max - 1, max}] : k \in 0 .. n}

VARIABLES
  cmd,         \* type of struct smon_cmd
  pc,          \* command, options, subopts, main, start_profile, or how the command ends
  n_args,      \* options and suboptions read
  given,       \* ftag, fevsel, fumask, fevents, eflag
  perfevtsel,  \* event.perfevtsel
  evset,       \* evids, fixed_ctrl and global_ctrl of evset
  envir,       \* options, n_esids, esids, sample_time and batch_size of envir
  conf,        \* mmap_pages, cpumask and count_mode of struct smon_cmd
  prog,        \* a PROG argument has been read
  n_events,    \* of the driver
  n_evsets     \* of the driver

driverVars == <<n_events, n_evsets>>
vars == <<cmd, pc, n_args, given, perfevtsel, evset, envir, conf, prog, driverVars>>

Ends == {"refused", "listed", "smon_set_event", "smon_set_evset", "session"}

-----------------------------------------------------------------------------
(* Bits.                                                                   *)

Low(v, w)   == v \cap 0 .. w - 1      \* v & (2^w - 1)
Shift(v, k) == {b + k : b \in v}      \* v << k

\* Bit k of a counter, and the bitwise & of counters by which the parser tests that
\* all of them are set.
Bit(n, k) == (n \div 2^k) % 2 = 1
AllSet(counters) == \E k \in 0 .. MaxArgs : \A n \in counters : Bit(n, k)

EN   == 22
USR  == 16
OS   == 17
GLOBAL_FX(i) == 32 + i
FX_EN(i)     == {4 * i, 4 * i + 1}

-----------------------------------------------------------------------------
(* smon_parse_input.                                                       *)

Profiles == {"profile", "stat", "roof"}

NoEvset == [evids |-> [i \in GpCtrs |-> 0], fixed_ctrl |-> {}, global_ctrl |-> {}]

\* The options each command starts with.  roof names its two event-sets itself.
Defaults(c) ==
  [options     |-> IF c = "stat" THEN {"EXE", "STAT"} ELSE {"EXE"},
   n_esids     |-> IF c = "roof" THEN 2 ELSE 0,
   esids       |-> [i \in Slots |->
                      CASE c = "roof" /\ i = 1 -> 1
                        [] c = "roof" /\ i = 2 -> -1
                        [] OTHER -> 0],
   sample_time |-> DEFAULT_SAMPLE_TIME,
   batch_size  |-> IF c = "stat" THEN 1 ELSE DEFAULT_BURST]

\* The first argument.  Only profile sets cpumask and only roof sets count_mode: in
\* the others they are whatever main's stack holds.
Command(c) ==
  /\ pc = "command"
  /\ cmd' = c
  /\ pc' = "options"
  /\ IF c \in Profiles
       THEN /\ envir' = Defaults(c)
            /\ \E mask \in IF c = "profile" THEN {{}} ELSE CpuMasks,
                  count \in IF c = "roof" THEN {0} ELSE {0, 1} :
                 conf' = [mmap_pages |-> IF c = "stat" THEN 8 ELSE DEFAULT_MMAP_PAGES,
                          cpumask    |-> mask,
                          count_mode |-> count]
       ELSE UNCHANGED <<envir, conf>>
  /\ UNCHANGED <<n_args, given, perfevtsel, evset, prog, driverVars>>

\* No command, help, or an unknown one.
NoCommand ==
  /\ pc = "command"
  /\ pc' = "refused"
  /\ UNCHANGED <<cmd, n_args, given, perfevtsel, evset, envir, conf, prog, driverVars>>

\* Another option or suboption is read.
Arg(label) == pc = label /\ n_args < MaxArgs /\ n_args' = n_args + 1

\* The tests of an id against the size of a table.
InTable_OffByOne(id, max) == id <= max

InTable(id, max) == id < max

-----------------------------------------------------------------------------
(* parse_event and parse_evset.                                            *)

\* -a: its suboptions follow.  What comes behind -a or -l is not looked at.
Add ==
  /\ cmd \in {"event", "evset"} /\ pc = "options"
  /\ pc' = "subopts"
  /\ UNCHANGED <<cmd, n_args, given, perfevtsel, evset, envir, conf, prog, driverVars>>

\* -l.
List ==
  /\ cmd \in {"event", "evset"} /\ pc = "options"
  /\ pc' = "listed"
  /\ UNCHANGED <<cmd, n_args, given, perfevtsel, evset, envir, conf, prog, driverVars>>

\* Neither: the help is printed.
NeitherAddNorList ==
  /\ cmd \in {"event", "evset"} /\ pc = "options"
  /\ pc' = "refused"
  /\ UNCHANGED <<cmd, n_args, given, perfevtsel, evset, envir, conf, prog, driverVars>>

\* A suboption that is not one of the command's.
BadSubopt ==
  /\ Arg("subopts")
  /\ pc' = "refused"
  /\ UNCHANGED <<cmd, given, perfevtsel, evset, envir, conf, prog, driverVars>>

Count(flag) == given' = [given EXCEPT ![flag] = @ + 1]

Tag ==
  /\ Arg("subopts")
  /\ Count("tag")
  /\ UNCHANGED <<cmd, pc, perfevtsel, evset, envir, conf, prog, driverVars>>

\* The faulty umask is not cut to eight bits.
EventBits_NoMask(name, v) ==
  CASE name = "mode"  -> Shift(Low(v, 2), 16) \cup {EN}
    [] name = "evsel" -> Low(v, 8)
    [] name = "umask" -> Shift(v, 8)

\* What a suboption of event -a adds to perfevtsel.
EventBits(name, v) ==
  CASE name = "mode"  -> Shift(Low(v, 2), 16) \cup {EN}
    [] name = "evsel" -> Low(v, 8)
    [] name = "umask" -> Shift(Low(v, 8), 8)

EventSubopt(name, v) ==
  /\ cmd = "event" /\ Arg("subopts")
  /\ perfevtsel' = perfevtsel \cup EventBits(name, v)
  /\ IF name = "mode" THEN UNCHANGED given ELSE Count(name)
  /\ UNCHANGED <<cmd, pc, evset, envir, conf, prog, driverVars>>

\* The end of the suboptions of event -a.
EventEnd ==
  /\ cmd = "event" /\ pc = "subopts"
  /\ IF AllSet({given["tag"], given["evsel"], given["umask"]})
       THEN /\ pc' = "main"
            /\ perfevtsel' = IF perfevtsel \cap {USR, OS} = {}
                               THEN perfevtsel \cup {USR, OS} ELSE perfevtsel
       ELSE pc' = "refused" /\ UNCHANGED perfevtsel
  /\ UNCHANGED <<cmd, n_args, given, evset, envir, conf, prog, driverVars>>

\* events=...: at most MAX_GP_CTRS ids, none behind the table of events.
EvsetEvents(ids) ==
  /\ cmd = "evset" /\ Arg("subopts")
  /\ IF Len(ids) \in 1 .. MaxGpCtrs /\ \A k \in DOMAIN ids : InTable(ids[k], MaxEvents)
       THEN LET evids == [i \in GpCtrs |-> IF i < Len(ids) THEN ids[i + 1] ELSE -1]
            IN  /\ evset' = [evset EXCEPT !.evids = evids,
                               !.global_ctrl = @ \cup {i \in GpCtrs : evids[i] >= 0}]
                /\ Count("events")
                /\ UNCHANGED pc
       ELSE pc' = "refused" /\ UNCHANGED <<evset, given>>
  /\ UNCHANGED <<cmd, perfevtsel, envir, conf, prog, driverVars>>

\* fixed=...: the two enable bits of each fixed counter are added to fixed_ctrl.
FixedCtrl_Replaced(v) == v \cap UNION {FX_EN(i) : i \in FxCtrs}

FixedCtrl(v) == evset.fixed_ctrl \cup (v \cap UNION {FX_EN(i) : i \in FxCtrs})

EvsetFixed(v) ==
  /\ cmd = "evset" /\ Arg("subopts")
  /\ evset' = [evset EXCEPT !.fixed_ctrl = FixedCtrl(v),
                 !.global_ctrl = @ \cup {GLOBAL_FX(i) : i \in {j \in FxCtrs : v \cap FX_EN(j) # {}}}]
  /\ UNCHANGED <<cmd, pc, given, perfevtsel, envir, conf, prog, driverVars>>

\* The end of the suboptions of evset -a.
EvsetEnd ==
  /\ cmd = "evset" /\ pc = "subopts"
  /\ pc' = IF AllSet({given["tag"], given["events"]}) THEN "main" ELSE "refused"
  /\ UNCHANGED <<cmd, n_args, given, perfevtsel, evset, envir, conf, prog, driverVars>>

-----------------------------------------------------------------------------
(* parse_profile, parse_stat and parse_roof.                               *)

\* -o, and an option getopt does not know, change nothing the driver sees.
OtherOption ==
  /\ Arg("options")
  /\ UNCHANGED <<cmd, pc, given, perfevtsel, evset, envir, conf, prog, driverVars>>

\* -b: zero stands for the default.
Burst(n) ==
  /\ Arg("options")
  /\ envir' = [envir EXCEPT !.batch_size = IF n > 0 THEN n ELSE DEFAULT_BURST]
  /\ UNCHANGED <<cmd, pc, given, perfevtsel, evset, conf, prog, driverVars>>

\* -c.
CpuMask(mask) ==
  /\ Arg("options")
  /\ conf' = [conf EXCEPT !.cpumask = mask]
  /\ UNCHANGED <<cmd, pc, given, perfevtsel, evset, envir, prog, driverVars>>

\* -e: ids below zero are skipped, the others kept in their order, and the id behind
\* MUX_EVSETS kept ones is one too many, whatever it is.
Kept(ids) == {k \in DOMAIN ids : ids[k] >= 0}
KeptBefore(ids, k) == Cardinality({j \in Kept(ids) : j < k})
TooMany(ids) == \E k \in DOMAIN ids : KeptBefore(ids, k) = MuxEvsets
Esids(ids) ==
  [i \in Slots |-> IF \E k \in Kept(ids) : KeptBefore(ids, k) = i
                     THEN ids[CHOOSE k \in Kept(ids) : KeptBefore(ids, k) = i] ELSE -1]

\* The event-sets of the environment; stat takes the first one only.
Named(ids) ==
  IF cmd = "stat"
    THEN [n_esids |-> 1, esids |-> [i \in Slots |-> IF i = 0 THEN Esids(ids)[0] ELSE -1]]
    ELSE [n_esids |-> Cardinality(Kept(ids)), esids |-> Esids(ids)]

EvsetOption(ids) ==
  /\ Arg("options")
  /\ IF ids # <<>> /\ ~TooMany(ids) /\ \A k \in DOMAIN ids : InTable(ids[k], MaxEvsets)
       THEN /\ envir' = [envir EXCEPT !.n_esids = Named(ids).n_esids, !.esids = Named(ids).esids]
            /\ Count("e")
            /\ UNCHANGED pc
       ELSE pc' = "refused" /\ UNCHANGED <<envir, given>>
  /\ UNCHANGED <<cmd, perfevtsel, evset, conf, prog, driverVars>>

\* -f -i -m -r -s.
Flag(option) ==
  /\ Arg("options")
  /\ envir' = [envir EXCEPT !.options = @ \cup {option}]
  /\ UNCHANGED <<cmd, pc, given, perfevtsel, evset, conf, prog, driverVars>>

\* -p: a power of two from 2 to 8192, anything else stands for the default.
PagesOf(n) == IF \E k \in 1 .. 13 : n = 2^k THEN n ELSE DEFAULT_MMAP_PAGES

Pages(n) ==
  /\ Arg("options")
  /\ conf' = [conf EXCEPT !.mmap_pages = PagesOf(n)]
  /\ UNCHANGED <<cmd, pc, given, perfevtsel, evset, envir, prog, driverVars>>

\* -t: zero is kept by profile and asks roof for totals.
SampleTime(n) ==
  /\ Arg("options")
  /\ IF cmd = "roof" /\ n = 0
       THEN conf' = [conf EXCEPT !.count_mode = 1] /\ UNCHANGED envir
       ELSE envir' = [envir EXCEPT !.sample_time = n] /\ UNCHANGED conf
  /\ UNCHANGED <<cmd, pc, given, perfevtsel, evset, prog, driverVars>>

\* An argument that is no option: PROG, or one of its own.
Prog ==
  /\ Arg("options")
  /\ prog' = TRUE
  /\ UNCHANGED <<cmd, pc, given, perfevtsel, evset, envir, conf, driverVars>>

\* The end of the arguments.
OptionsEnd ==
  /\ pc = "options"
  /\ pc' = IF prog /\ (cmd = "roof" \/ given["e"] > 0) THEN "main" ELSE "refused"
  /\ UNCHANGED <<cmd, n_args, given, perfevtsel, evset, envir, conf, prog, driverVars>>

-----------------------------------------------------------------------------
(* main: the checks, and the call that carries the command out.            *)

smon_check_events == \A i \in GpCtrs : evset.evids[i] >= 0 => evset.evids[i] < n_events

\* smon_check_evset takes the id as unsigned: an id below zero is behind the table.
smon_check_evset(id) == id >= 0 /\ id < n_evsets

smon_check_evsets == \A i \in Slots : i < envir.n_esids => smon_check_evset(envir.esids[i])

Main ==
  /\ pc = "main"
  /\ pc' = CASE cmd = "event" -> "smon_set_event"
             [] cmd = "evset" -> IF smon_check_events THEN "smon_set_evset" ELSE "refused"
             [] cmd = "roof"  -> "start_profile"
             [] OTHER         -> IF smon_check_evsets THEN "start_profile" ELSE "refused"
  /\ UNCHANGED <<cmd, n_args, given, perfevtsel, evset, envir, conf, prog, driverVars>>

-----------------------------------------------------------------------------
(* What the driver makes of it.                                            *)

\* The copy of the environment that the session uses: zero milliseconds become the
\* default, and stat's event-set is made the only one.
smon_create_envir ==
  [envir EXCEPT
     !.sample_time = IF @ > 0 THEN @ ELSE DEFAULT_SAMPLE_TIME,
     !.n_esids = IF "STAT" \in envir.options THEN 1 ELSE @,
     !.options = IF "STAT" \in @ THEN @ \ {"RAP", "CPU", "FORK", "SCHED"} ELSE @]

is_power_of_2(n) == \E k \in 0 .. 13 : n = 2^k

\* The lengths smon_mmap accepts; the last test is smon_create_rb's.
smon_mmap(n_pages) == n_pages >= 2 /\ is_power_of_2(n_pages) /\ n_pages <= MaxPages

\* start_profile maps the buffer and hands the environment over with the task.
StartProfile ==
  /\ pc = "start_profile"
  /\ IF smon_mmap(conf.mmap_pages)
       THEN pc' = "session" /\ envir' = smon_create_envir
       ELSE pc' = "refused" /\ UNCHANGED envir
  /\ UNCHANGED <<cmd, n_args, given, perfevtsel, evset, conf, prog, driverVars>>

-----------------------------------------------------------------------------

Init ==
  /\ cmd = "none" /\ pc = "command" /\ n_args = 0
  /\ given = [f \in {"tag", "evsel", "umask", "events", "e"} |-> 0]
  /\ perfevtsel = {}
  /\ evset = NoEvset
  /\ envir = Defaults("none")
  /\ conf = [mmap_pages |-> 0, cpumask |-> {}, count_mode |-> 0]
  /\ prog = FALSE
  /\ n_events \in 0 .. MaxEvents /\ n_evsets \in 0 .. MaxEvsets

parse_event == EventEnd \/ \E name \in {"mode", "evsel", "umask"}, v \in Masks : EventSubopt(name, v)

parse_evset ==
  \/ \E ids \in IdLists(MaxEvents, MaxGpCtrs + 1) : EvsetEvents(ids)
  \/ \E v \in Masks : EvsetFixed(v)
  \/ EvsetEnd

\* What the option strings of all three, of profile and roof, and of profile and stat share.
ProgramOptions == OtherOption \/ Prog \/ OptionsEnd \/ \E mask \in CpuMasks : CpuMask(mask)

SamplingOptions ==
  \/ \E n \in Bursts : Burst(n)
  \/ \E option \in {"FORK", "INH", "CPU", "RAP", "SCHED"} : Flag(option)
  \/ \E n \in PageCounts : Pages(n)
  \/ \E n \in Times : SampleTime(n)

EvsetOptions == \E ids \in IdLists(MaxEvsets, MuxEvsets + 1) : EvsetOption(ids)

parse_profile == cmd = "profile" /\ (ProgramOptions \/ SamplingOptions \/ EvsetOptions)
parse_stat    == cmd = "stat"    /\ (ProgramOptions \/ Flag("INH") \/ EvsetOptions)
parse_roof    == cmd = "roof"    /\ (ProgramOptions \/ SamplingOptions)

Over == pc \in Ends /\ UNCHANGED vars

Next ==
  \/ \E c \in {"event", "evset"} \cup Profiles : Command(c)
  \/ NoCommand
  \/ Add \/ List \/ NeitherAddNorList \/ Tag \/ BadSubopt
  \/ parse_event \/ parse_evset
  \/ parse_profile \/ parse_stat \/ parse_roof
  \/ Main \/ StartProfile \/ Over

Spec == Init /\ [][Next]_vars

-----------------------------------------------------------------------------
(* Properties.                                                             *)

TypeOK ==
  /\ cmd \in {"none", "event", "evset"} \cup Profiles
  /\ pc \in {"command", "options", "subopts", "main", "start_profile"} \cup Ends
  /\ n_args \in 0 .. MaxArgs
  /\ given \in [{"tag", "evsel", "umask", "events", "e"} -> 0 .. MaxArgs]
  /\ perfevtsel \in SUBSET (0 .. 63)
  /\ evset.evids \in [GpCtrs -> -1 .. MaxEvents - 1]
  /\ evset.fixed_ctrl \in SUBSET (0 .. 11)
  /\ evset.global_ctrl \in SUBSET (0 .. 63)
  /\ envir.options \in SUBSET {"INH", "EXE", "RAP", "CPU", "FORK", "SCHED", "STAT"}
  /\ envir.n_esids \in 0 .. MuxEvsets
  /\ envir.esids \in [Slots -> -1 .. MaxEvsets - 1]
  /\ envir.sample_time \in Nat /\ envir.batch_size \in Nat \ {0}
  /\ conf.mmap_pages \in Nat /\ conf.count_mode \in {0, 1}
  /\ prog \in BOOLEAN
  /\ n_events \in 0 .. MaxEvents /\ n_evsets \in 0 .. MaxEvsets

\* A counter that smon_pmc_read reads for an event-set is enabled by the event-set's
\* global_ctrl, and the fixed counters that are not read are disabled, whatever
\* suboptions were given, in which order and how often.
ReadCountersEnabled ==
  pc = "smon_set_evset" =>
    /\ \A i \in GpCtrs : evset.evids[i] >= 0 => i \in evset.global_ctrl
    /\ \A i \in FxCtrs : evset.fixed_ctrl \cap FX_EN(i) # {} <=> GLOBAL_FX(i) \in evset.global_ctrl

\* An event has a mode, and none of the flags of perfevtsel behind it (edge, any,
\* inv, cmask) is ever set by an oversized evsel or umask.
EventWellFormed ==
  pc = "smon_set_event" =>
    perfevtsel \cap {USR, OS} # {} /\ perfevtsel \subseteq 0 .. OS \cup {EN}

-----------------------------------------------------------------------------
(* What the documentation says, and the code does not ensure.              *)

\* cmd.c: MODE is optional in  smon event -a  ([,mode=MODE]) and defaults to "user &
\* os": an event that was accepted is enabled in its select register.
EventCounts == pc = "smon_set_event" => EN \in perfevtsel

=============================================================================
