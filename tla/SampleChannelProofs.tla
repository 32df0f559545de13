------------------------- MODULE SampleChannelProofs -------------------------
(***************************************************************************)
(* The sample channel for every ring buffer and every finite set of tasks: *)
(* it uses the ring buffer as RingBuffer allows, so what RingBufferProofs  *)
(* shows of every client holds of it, and rb->active counts the holders.   *)
(***************************************************************************)
EXTENDS SampleChannel, RingBufferProofs, FiniteSetTheorems

-----------------------------------------------------------------------------
(* The channel is a client of the ring buffer.                             *)

\* The types the hooks write are types smon_rb_write knows.
LEMMA KnownTypes ==
  /\ EOF \in RecordTypes /\ "INFO" \in RecordTypes /\ "PMC" \in RecordTypes
  /\ "RAPL" \in RecordTypes /\ "FORK" \in RecordTypes
  /\ TaskSamples \subseteq RecordTypes
BY ChannelAssumption DEF RecordTypes, TaskSamples

\* Every hook makes at most one call of the ring buffer.
LEMMA HookIsClient ==
  ASSUME Hook
  PROVE  RbWrite \/ irq_work_queue \/ UNCHANGED rbVars
<1>1. CASE Exec
  BY <1>1, KnownTypes DEF Exec, RbWrite
<1>2. ASSUME NEW w \in Tasks, NEW type \in TaskSamples, TaskSample(w, type)
      PROVE  RbWrite
  BY <1>2, KnownTypes DEF TaskSample, RbWrite
<1>3. CASE RaplTick
  BY <1>3, KnownTypes DEF RaplTick, RbWrite
<1>4. ASSUME NEW w \in Tasks, NEW c \in Tasks, Fork(w, c)
      PROVE  RbWrite \/ UNCHANGED rbVars
  BY <1>4, KnownTypes DEF Fork, RbWrite
<1>5. ASSUME NEW w \in Tasks, ExitSave(w)
      PROVE  RbWrite
  BY <1>5, KnownTypes DEF ExitSave, RbWrite
<1>6. CASE ExitWait
  BY <1>6 DEF ExitWait
<1>7. ASSUME NEW w \in Tasks, ReleaseRb(w)
      PROVE  UNCHANGED rbVars
  BY <1>7 DEF ReleaseRb
<1>8. ASSUME NEW w \in Tasks, WriteEof(w)
      PROVE  RbWrite
  BY <1>8, KnownTypes DEF WriteEof, RbWrite
<1>9. ASSUME NEW w \in Tasks, AlertReader(w)
      PROVE  irq_work_queue
  BY <1>9 DEF AlertReader
<1>10. CASE CancelRapl
  BY <1>10 DEF CancelRapl
<1> QED  BY <1>1, <1>2, <1>3, <1>4, <1>5, <1>6, <1>7, <1>8, <1>9, <1>10 DEF Hook, ExitStep

\* The tool returns words with SMON_IOCREAD, and only reads otherwise.
LEMMA ToolIsClient ==
  ASSUME Tool, n_samples \in Nat, consumed \in Nat
  PROVE  RbRead \/ UNCHANGED rbVars
<1>1. CASE Commit
  BY <1>1 DEF Commit, RbRead
<1>2. CASE Read
  BY <1>2 DEF Read, ReadSample, ReadPad, ReadEof, ReadUnknown, Observe
<1>3. CASE PollSleep \/ PollReady \/ PollInterrupted
  BY <1>3 DEF PollSleep, PollReady, PollInterrupted
<1> QED  BY <1>1, <1>2, <1>3 DEF Tool

LEMMA StepIsClient ==
  ASSUME [ChNext]_vars, n_samples \in Nat, consumed \in Nat
  PROVE  [RbNext]_rbVars
<1>1. CASE Hook
  BY <1>1, HookIsClient DEF RbNext
<1>2. CASE WakeUp
  BY <1>2 DEF WakeUp, RbNext
<1>3. CASE Tool
  BY <1>3, ToolIsClient DEF RbNext
<1>4. CASE Over \/ UNCHANGED vars
  BY <1>4 DEF Over, vars
<1> QED  BY <1>1, <1>2, <1>3, <1>4 DEF ChNext

-----------------------------------------------------------------------------
(* Types of the tool's variables.                                          *)

UserTypeOK ==
  /\ rd \in ReaderStates
  /\ hup \in BOOLEAN
  /\ utail \in Positions
  /\ consumed \in Nat
  /\ n_samples \in Nat
  /\ eof \in BOOLEAN
  /\ last \in Nat
  /\ overrun \in BOOLEAN

\* The tool's cursor stays in the mapped pages, whatever it finds there.
LEMMA ReadKeepsTypes ==
  ASSUME RbTypeOK, UserTypeOK, Read
  PROVE  UserTypeOK'
<1>1. /\ head \in Positions /\ utail \in Positions /\ mem[utail].id \in Nat
      /\ Size \in Nat \ {0} /\ consumed \in Nat /\ n_samples \in Nat /\ last \in Nat
      /\ rd = "read" /\ hup \in BOOLEAN /\ eof \in BOOLEAN /\ overrun \in BOOLEAN
  BY SizePositive DEF RbTypeOK, UserTypeOK, Cells, Read, ReadSample, ReadPad, ReadEof, ReadUnknown
<1>2. overrun' \in BOOLEAN /\ hup' \in BOOLEAN
  BY <1>1 DEF Read, ReadSample, ReadPad, ReadEof, ReadUnknown, Observe
<1>3. ASSUME NEW type \in SampleTypes, ReadSample(type) PROVE UserTypeOK'
  <2>1. TotalSize[type] \in Nat
    BY ConstantsAssumption
  <2>2. utail' \in Positions
    BY <1>1, <1>3, <2>1 DEF ReadSample, UserAdvance, Positions
  <2> QED  BY <1>1, <1>2, <1>3, <2>1, <2>2 DEF ReadSample, UserTypeOK, ReaderStates
<1>4. CASE ReadPad
  <2>1. UserNextPage(utail) \in Positions
    BY <1>1, Stuffed DEF UserNextPage
  <2>2. RB_COUNT(UserNextPage(utail), utail) \in Nat
    BY <1>1, <2>1, CountType
  <2> QED  BY <1>1, <1>2, <1>4, <2>1, <2>2 DEF ReadPad, UserTypeOK, ReaderStates
<1>5. CASE ReadEof
  BY <1>1, <1>2, <1>5 DEF ReadEof, UserTypeOK, ReaderStates
<1>6. CASE ReadUnknown
  BY <1>1, <1>2, <1>6 DEF ReadUnknown, UserTypeOK, ReaderStates
<1> QED  BY <1>3, <1>4, <1>5, <1>6 DEF Read

LEMMA HookLeavesTool ==
  ASSUME Hook PROVE UNCHANGED userVars
BY DEF Hook, Exec, TaskSample, RaplTick, Fork, ExitSave, ExitWait, ExitStep, ReleaseRb,
       WriteEof, AlertReader, CancelRapl

LEMMA UserTypeStep ==
  ASSUME RbTypeOK, UserTypeOK, [ChNext]_vars
  PROVE  UserTypeOK'
<1>1. CASE Hook
  BY <1>1, HookLeavesTool DEF userVars, UserTypeOK
<1>2. CASE WakeUp
  BY <1>2 DEF WakeUp, UserTypeOK, ReaderStates
<1>3. CASE Read
  BY <1>3, ReadKeepsTypes
<1>4. CASE PollSleep
  BY <1>4 DEF PollSleep, UserTypeOK, ReaderStates
<1>5. CASE PollReady
  <2>1. hup' \in BOOLEAN
    BY <1>5 DEF PollReady
  <2> QED  BY <1>5, <2>1 DEF PollReady, UserTypeOK, ReaderStates
<1>6. CASE PollInterrupted
  BY <1>6 DEF PollInterrupted, UserTypeOK, ReaderStates
<1>7. CASE Commit
  BY <1>7 DEF Commit, UserTypeOK, ReaderStates
<1>8. CASE Over \/ UNCHANGED vars
  BY <1>8 DEF Over, vars, userVars, UserTypeOK
<1> QED  BY <1>1, <1>2, <1>3, <1>4, <1>5, <1>6, <1>7, <1>8 DEF ChNext, Tool

-----------------------------------------------------------------------------
(* rb->active counts the holders of the buffer.                            *)

HookTypeOK ==
  /\ active \in Nat
  /\ task \in [Tasks -> TaskStates]
  /\ rapl \in BOOLEAN

\* The steps that change neither the number of holders nor who writes the EOF.
LEMMA SameHolders ==
  ASSUME HookTypeOK, ActiveCounts, active' = active, rapl' \in BOOLEAN,
         NEW w \in Tasks, NEW s \in TaskStates, task' = [task EXCEPT ![w] = s],
         w \in Holders <=> s \in {"wait", "run", "release"},
         s \in {"eof", "wake"} => task[w] \in {"eof", "wake"}
  PROVE  HookTypeOK' /\ ActiveCounts'
<1>1. Holders' = Holders
  BY DEF Holders, HookTypeOK
<1>2. task' \in [Tasks -> TaskStates]
  BY DEF HookTypeOK
<1>3. \A v \in Tasks : task'[v] \in {"eof", "wake"} => task[v] \in {"eof", "wake"}
  BY DEF HookTypeOK
<1>4. HookTypeOK'
  BY <1>2 DEF HookTypeOK
<1>5. ActiveCounts'
  BY <1>1, <1>3 DEF ActiveCounts
<1> QED  BY <1>4, <1>5

\* smon_create_child takes the buffer for the child of a task that holds it.
LEMMA ForkCounts ==
  ASSUME HookTypeOK, ActiveCounts, NEW w \in Tasks, NEW c \in Tasks, Fork(w, c)
  PROVE  HookTypeOK' /\ ActiveCounts'
<1>1. task[w] = "run" /\ task[c] = "none" /\ rapl' = rapl
  BY DEF Fork
<1>2. CASE ~InheritOn
  BY <1>1, <1>2 DEF Fork, HookTypeOK, ActiveCounts, Holders
<1>3. CASE InheritOn
  <2>1. active' = active + 1 /\ task' = [task EXCEPT ![c] = "run"]
    BY <1>3 DEF Fork
  <2>2. IsFiniteSet(Holders) /\ w \in Holders /\ c \notin Holders
    BY <1>1, ChannelAssumption, FS_Subset DEF Holders
  <2>3. Holders' = Holders \cup {c}
    BY <2>1, <1>1 DEF Holders, HookTypeOK
  <2>4. Cardinality(Holders') = Cardinality(Holders) + 1
    BY <2>2, <2>3, FS_AddElement
  <2>5. active # 0
    BY <2>2, FS_EmptySet DEF ActiveCounts
  <2>6. \A v \in Tasks : task'[v] \notin {"eof", "wake"}
    BY <2>1, <2>5 DEF ActiveCounts, HookTypeOK
  <2>7. HookTypeOK'
    BY <2>1, <1>1 DEF HookTypeOK, TaskStates
  <2>8. ActiveCounts'
    BY <2>1, <2>4, <2>6 DEF ActiveCounts
  <2> QED  BY <2>7, <2>8
<1> QED  BY <1>2, <1>3

\* atomic_dec_and_test: the last holder, and only it, goes on to write the EOF.
LEMMA ReleaseCounts ==
  ASSUME HookTypeOK, ActiveCounts, NEW w \in Tasks, ReleaseRb(w)
  PROVE  HookTypeOK' /\ ActiveCounts'
<1> DEFINE s == IF active = 1 THEN "eof" ELSE AfterRelease(w)
<1>1. /\ task[w] = "release" /\ active' = active - 1 /\ rapl' = rapl
      /\ task' = [task EXCEPT ![w] = s]
  BY DEF ReleaseRb
<1>2. s \in TaskStates /\ s \notin {"wait", "run", "release", "wake"} /\ (s = "eof" => active = 1)
  BY DEF TaskStates, AfterRelease
<1> HIDE DEF s
<1>3. IsFiniteSet(Holders) /\ w \in Holders
  BY <1>1, ChannelAssumption, FS_Subset DEF Holders
<1>4. Holders' = Holders \ {w}
  BY <1>1, <1>2 DEF Holders, HookTypeOK
<1>5. Cardinality(Holders') = Cardinality(Holders) - 1
  BY <1>3, <1>4, FS_RemoveElement
<1>6. active # 0
  BY <1>3, FS_EmptySet DEF ActiveCounts
<1>7. \A v \in Tasks : task[v] \notin {"eof", "wake"}
  BY <1>6 DEF ActiveCounts
<1>8. \A v \in Tasks : task'[v] \in {"eof", "wake"} => v = w /\ active = 1
  BY <1>1, <1>2, <1>7 DEF HookTypeOK
<1>9. HookTypeOK'
  BY <1>1, <1>2, <1>6 DEF HookTypeOK
<1>10. ActiveCounts'
  BY <1>1, <1>5, <1>8, <1>9 DEF ActiveCounts, HookTypeOK
<1> QED  BY <1>9, <1>10

LEMMA HolderStep ==
  ASSUME HookTypeOK, ActiveCounts, [ChNext]_vars
  PROVE  HookTypeOK' /\ ActiveCounts'
<1>0. /\ \A t \in {"wait", "run", "release", "eof", "wake", "cancel", "gone"} : t \in TaskStates
      /\ Root \in Tasks
      /\ \A w : AfterRelease(w) \in {"cancel", "gone"}
  BY ChannelAssumption DEF TaskStates, AfterRelease
<1>1. CASE Exec
  BY <1>0, <1>1, ChannelAssumption, SameHolders DEF Exec, Holders
<1>2. ASSUME UNCHANGED hookVars PROVE HookTypeOK' /\ ActiveCounts'
  BY <1>2 DEF hookVars, HookTypeOK, ActiveCounts, Holders
<1>3. ASSUME NEW w \in Tasks, ExitSave(w) PROVE HookTypeOK' /\ ActiveCounts'
  <2>1. /\ active' = active /\ rapl' = rapl /\ task[w] = "run"
        /\ task' = [task EXCEPT ![w] = "release"]
    BY <1>3 DEF ExitSave
  <2> QED  BY <1>0, <2>1, SameHolders DEF HookTypeOK, Holders
<1>4. CASE ExitWait
  <2>1. /\ active' = active /\ rapl' = rapl /\ task[Root] = "wait"
        /\ task' = [task EXCEPT ![Root] = "release"]
    BY <1>4 DEF ExitWait
  <2> QED  BY <1>0, <2>1, SameHolders DEF HookTypeOK, Holders
<1>5. ASSUME NEW w \in Tasks, WriteEof(w) PROVE HookTypeOK' /\ ActiveCounts'
  <2>1. /\ active' = active /\ rapl' = rapl /\ task[w] = "eof"
        /\ task' = [task EXCEPT ![w] = "wake"]
    BY <1>5 DEF WriteEof
  <2> QED  BY <1>0, <2>1, SameHolders DEF HookTypeOK, Holders
<1>6. ASSUME NEW w \in Tasks, AlertReader(w) PROVE HookTypeOK' /\ ActiveCounts'
  <2>1. /\ active' = active /\ rapl' = rapl /\ task[w] = "wake"
        /\ task' = [task EXCEPT ![w] = AfterRelease(w)]
    BY <1>6 DEF AlertReader
  <2>2. w \notin Holders /\ AfterRelease(w) \in TaskStates
    BY <1>0, <2>1 DEF Holders
  <2>3. AfterRelease(w) \notin {"wait", "run", "release"} /\ AfterRelease(w) \notin {"eof", "wake"}
    BY <1>0
  <2> QED  BY <2>1, <2>2, <2>3, SameHolders DEF HookTypeOK
<1>7. CASE CancelRapl
  <2>1. /\ active' = active /\ rapl' = FALSE /\ task[Root] = "cancel"
        /\ task' = [task EXCEPT ![Root] = "gone"]
    BY <1>7 DEF CancelRapl
  <2> QED  BY <1>0, <2>1, SameHolders DEF Holders
<1>8. CASE RaplTick \/ (\E w \in Tasks, type \in TaskSamples : TaskSample(w, type))
  BY <1>2, <1>8 DEF RaplTick, TaskSample
<1>9. CASE Tool \/ WakeUp \/ Over \/ UNCHANGED vars
  <2>1. UNCHANGED hookVars
    BY <1>9 DEF Tool, PollSleep, PollReady, PollInterrupted, Read, ReadSample, ReadPad,
                ReadEof, ReadUnknown, Observe, Commit, WakeUp, Over, vars
  <2> QED  BY <1>2, <2>1
<1> QED  BY <1>1, <1>3, <1>4, <1>5, <1>6, <1>7, <1>8, <1>9, ForkCounts, ReleaseCounts
         DEF ChNext, Hook, ExitStep

-----------------------------------------------------------------------------
(* The theorems.                                                           *)

ChInv == ChTypeOK /\ ActiveCounts

\* The types split as the proofs do.
LEMMA ChTypeParts == ChTypeOK <=> RbTypeOK /\ HookTypeOK /\ UserTypeOK
BY DEF ChTypeOK, HookTypeOK, UserTypeOK

LEMMA ChInitInv == ChInit => ChInv
<1> SUFFICES ASSUME ChInit PROVE ChInv
  OBVIOUS
<1>1. RbTypeOK
  BY InitType DEF ChInit
<1>2. UserTypeOK
  <2>1. 0 \in Positions /\ 0 \in Nat
    BY SizePositive DEF Positions
  <2> QED  BY <2>1 DEF ChInit, UserTypeOK, ReaderStates
<1>3. HookTypeOK
  BY DEF ChInit, HookTypeOK, TaskStates
<1>4. Holders = {Root}
  BY ChannelAssumption DEF ChInit, Holders
<1>5. active = Cardinality(Holders)
  BY <1>4, FS_Singleton DEF ChInit
<1>6. \A v \in Tasks : task[v] \notin {"eof", "wake"}
  BY DEF ChInit
<1>7. ActiveCounts
  BY <1>5, <1>6 DEF ActiveCounts
<1> QED  BY <1>1, <1>2, <1>3, <1>7, ChTypeParts DEF ChInv

LEMMA ChStepInv == ChInv /\ [ChNext]_vars => ChInv'
<1> SUFFICES ASSUME ChInv, [ChNext]_vars PROVE ChInv'
  OBVIOUS
<1>1. RbTypeOK /\ HookTypeOK /\ UserTypeOK /\ ActiveCounts
  BY ChTypeParts DEF ChInv
<1>2. [RbNext]_rbVars
  BY <1>1, StepIsClient DEF UserTypeOK
<1>3. RbTypeOK'
  BY <1>1, <1>2, RbStep
<1>4. UserTypeOK'
  BY <1>1, UserTypeStep
<1>5. HookTypeOK' /\ ActiveCounts'
  BY <1>1, HolderStep
<1>6. ChTypeOK'
  BY <1>3, <1>4, <1>5 DEF ChTypeOK, HookTypeOK, UserTypeOK
<1> QED  BY <1>5, <1>6 DEF ChInv

\* Types of the whole channel: the tool's cursor stays in the mapped pages and
\* rb->active never goes below zero.
THEOREM ChTypeCorrect == ChSpec => []ChTypeOK
<1>1. ChInv => ChTypeOK
  BY DEF ChInv
<1> QED  BY <1>1, ChInitInv, ChStepInv, PTL DEF ChSpec

\* rb->active is the number of tasks that hold the buffer, and one exit hook at
\* most is past the last decrement: the EOF is written at most once.
THEOREM ActiveCountsHolders == ChSpec => []ActiveCounts
<1>1. ChInv => ActiveCounts
  BY DEF ChInv
<1> QED  BY <1>1, ChInitInv, ChStepInv, PTL DEF ChSpec

\* The channel uses the ring buffer as RingBuffer allows.
THEOREM ChannelImplementsRingBuffer == ChSpec => RbSpec
<1>1. ChInit => RbInit
  BY DEF ChInit
<1>2. ChTypeOK /\ [ChNext]_vars => [RbNext]_rbVars
  BY StepIsClient DEF ChTypeOK
<1> QED  BY <1>1, <1>2, ChTypeCorrect, PTL DEF ChSpec, RbSpec

\* With the tool's real returns: no writer ever changes a word the tool has not
\* returned, which is what lets it read the mapped pages without a lock.
THEOREM ToolReadsStablePages == ChSpec => NoOverwrite
BY ChannelImplementsRingBuffer, UnreadNeverOverwritten, PTL

=============================================================================
