--------------------------- MODULE SessionProofs ---------------------------
(***************************************************************************)
(* The session of the tool (Session) for every number of pages and         *)
(* signals, with and without the RAPL timer, and for every width of the    *)
(* energy registers.                                                       *)
(***************************************************************************)
EXTENDS Session, TLAPS

-----------------------------------------------------------------------------
(* The inductive invariant.                                                *)

\* Where the tool has the buffer mapped, and what is left of it elsewhere.
MappedLabels == {"mapped", "registered", "sampling", "polls", "wait", "unset", "munmap", "failunmap"}

\* The driver was loaded, and has not been unloaded since.
Loaded == module \in {"loaded", "oops"}

BufferInv ==
  /\ buf = "alive" <=> tool \in MappedLabels
  /\ buf = "destroyed" => pages = {} /\ tool \in {"fclose", "close", "end"}
  /\ buf = "none" /\ pages # {} => pages = {0} /\ tool \in {"failwait", "close", "end"}

\* Who has the device open, and so keeps the driver loaded.
FilesInv ==
  /\ "tool" \in files <=> tool \notin {"start", "end"}
  /\ child \in {"blocked", "posted", "exec"} => "child" \in files
  /\ child \in {"none", "zombie", "reaped"} => "child" \notin files
  /\ files # {} => Loaded
  /\ killed => tool = "end"

\* How far the child can be for each place of the tool.
ChildInv ==
  /\ tool \in {"start", "opened", "fopened"} => child = "none"
  /\ tool \in {"forked", "handler", "mapped", "failwait", "failunmap"} => child \in {"blocked", "zombie"}
  /\ tool \in {"registered", "sampling", "polls", "wait"} => child \notin {"none", "reaped"}
  /\ tool = "registered" => child \notin {"posted", "exec", "run"}
  /\ tool \in {"unset", "munmap"} => child = "reaped"
  /\ tool = "fclose" => child \in {"none", "reaped"}
  /\ sem = 1 => obj # "none"
  /\ sem = 1 /\ tool # "end" => tool \in {"sampling", "polls", "wait", "unset", "munmap", "fclose", "close"}

\* The struct smon_task: when it exists, which list holds it, and who holds the buffer.
TaskInv ==
  /\ tool \in {"start", "opened", "fopened", "forked", "handler", "mapped", "failwait", "failunmap"}
       => obj = "none"
  /\ tool \in {"registered", "sampling", "polls", "wait"} => obj = "alloc"
  /\ obj = "alloc" => tool \in {"registered", "sampling", "polls", "wait", "unset"} \/ killed
  /\ obj = "none" => ~rb /\ list = "none" /\ ~stale
                       /\ child \in {"none", "blocked", "zombie", "reaped"}
  /\ child \in {"posted", "exec", "release", "cancel"} => obj = "alloc"
  /\ child = "blocked" /\ obj # "none" => obj = "alloc" /\ list = "wait"
  /\ child = "posted" => list = "wait"
  /\ child \in {"exec", "release", "cancel"} => list = "none" /\ Loaded
  /\ child = "run" => IF Loaded THEN list = "cpu" /\ obj = "alloc"
                                ELSE list = "none" /\ obj = "freed"
  /\ list = "wait" => child \in {"blocked", "posted"} \/ (stale /\ child \in {"zombie", "reaped"})
  /\ list = "cpu" => child = "run"
  /\ stale => child \in {"zombie", "reaped"}
  /\ rb => obj = "alloc"
  /\ obj = "alloc" /\ child \notin {"cancel", "zombie", "reaped"} => rb
  /\ active = IF rb THEN 1 ELSE 0

\* The RAPL timer is armed from the exec hook to the end of the exit hook at most, and
\* only once.
TimerInv ==
  /\ rapl_timer # "off" => child \in {"run", "release", "cancel"} /\ obj = "alloc"
  /\ child \in {"none", "blocked", "posted", "exec"} => used = 0 /\ between = 0 /\ saved = 0

UnloadInv == ~Loaded => obj # "alloc" /\ rapl_timer = "off"

SInv == BufferInv /\ FilesInv /\ ChildInv /\ TaskInv /\ TimerInv /\ UnloadInv

\* EnergyAdds with its witness: the number of turns the register made and no sample saw.
Turns ==
  rapl_timer # "off" =>
    \E k \in Int : saved + between + (IF rapl_timer = "armed" THEN energy_status - rapl_sample ELSE 0)
                     = used + k * 2^EnergyBits

-----------------------------------------------------------------------------
(* Remainders.                                                             *)

LEMMA DivMod ==
  ASSUME NEW M \in Nat \ {0}, NEW a \in Int
  PROVE  a % M \in 0 .. M - 1 /\ a \div M \in Int /\ a = M * (a \div M) + (a % M)
<1>1. a % M \in 0 .. M - 1
  OBVIOUS
<1>2. a \div M \in Int
  OBVIOUS
<1>3. a = M * (a \div M) + (a % M)
  OBVIOUS
<1> QED  BY <1>1, <1>2, <1>3

\* A multiple of M that is smaller than M is 0.
LEMMA SmallMultiple ==
  ASSUME NEW M \in Nat \ {0}, NEW d \in Int, NEW z \in Int, z = d * M, z < M, z > -M
  PROVE  z = 0
<1>1. CASE d >= 1
  <2>1. d * M >= M
    BY <1>1
  <2> QED  BY <2>1
<1>2. CASE d <= -1
  <2>1. d * M <= -M
    BY <1>2
  <2> QED  BY <2>1
<1>3. CASE d = 0
  BY <1>3
<1> QED  BY <1>1, <1>2, <1>3

\* Numbers that differ by a multiple of M have the same remainder.
LEMMA SameRemainder ==
  ASSUME NEW M \in Nat \ {0}, NEW a \in Int, NEW b \in Int, NEW k \in Int, a = b + k * M
  PROVE  a % M = b % M
<1> DEFINE qa == a \div M
           qb == b \div M
           ra == a % M
           rb_ == b % M
<1>1. /\ ra \in 0 .. M - 1 /\ qa \in Int /\ a = M * qa + ra
      /\ rb_ \in 0 .. M - 1 /\ qb \in Int /\ b = M * qb + rb_
  BY DivMod
<1> HIDE DEF qa, qb, ra, rb_
<1>2. ra - rb_ = (qb + k - qa) * M
  BY <1>1
<1>3. qb + k - qa \in Int /\ ra - rb_ \in Int /\ ra - rb_ < M /\ ra - rb_ > -M
  BY <1>1
<1>4. ra - rb_ = 0
  BY <1>2, <1>3, SmallMultiple
<1> QED  BY <1>1, <1>4 DEF ra, rb_

-----------------------------------------------------------------------------
(* The RAPL timer (Rapl) by itself.                                        *)

\* The register counts modulo its range.
LEMMA RegisterStep ==
  ASSUME NEW M \in Nat \ {0}, NEW e \in 0 .. M - 1
  PROVE  \/ (e + 1) % M = e + 1 /\ e + 1 \in 0 .. M - 1
         \/ (e + 1) % M = 0 /\ e + 1 = M
<1>1. CASE e + 1 < M
  BY <1>1
<1>2. CASE e + 1 = M
  BY <1>2
<1> QED  BY <1>1, <1>2

LEMMA RaplStep ==
  ASSUME RaplTypeOK, Turns,
         UseEnergy \/ RaplStopSave \/ RaplRestart \/ CancelRapl \/ UNCHANGED raplVars
  PROVE  RaplTypeOK' /\ Turns'
<1> DEFINE M == 2^EnergyBits
<1>0. M \in Nat \ {0} /\ MaxEnergy \in Nat
  BY RaplAssumption
<1>1. CASE UseEnergy
  <2>1. PICK k \in Int : saved + between + (IF rapl_timer = "armed" THEN energy_status - rapl_sample ELSE 0)
                            = used + k * M
    BY <1>1 DEF Turns, UseEnergy
  <2>2. energy_status \in 0 .. M - 1 /\ energy_status' = (energy_status + 1) % M
    BY <1>1 DEF RaplTypeOK, UseEnergy
  <2>3. \/ energy_status' = energy_status + 1 /\ energy_status' \in 0 .. M - 1
        \/ energy_status' = 0 /\ energy_status + 1 = M
    BY <1>0, <2>2, RegisterStep
  <2> HIDE DEF M
  <2>4. energy_status' \in 0 .. M - 1
    BY <2>3, <1>0
  <2>5. RaplTypeOK'
    <3>1. /\ used' \in 0 .. MaxEnergy /\ between' \in 0 .. used'
          /\ rapl_sample' \in Int /\ saved' \in Int /\ rapl_timer' \in {"off", "armed", "callback"}
      BY <1>0, <1>1 DEF RaplTypeOK, UseEnergy
    <3> QED  BY <3>1, <2>4 DEF RaplTypeOK, M
  <2>6. /\ rapl_timer \in {"armed", "callback"} /\ rapl_timer' = rapl_timer
        /\ used \in Int /\ between \in Int /\ saved \in Int /\ rapl_sample \in Int
        /\ used' = used + 1 /\ saved' = saved /\ rapl_sample' = rapl_sample
        /\ between' = IF rapl_timer = "callback" THEN between + 1 ELSE between
    BY <1>1 DEF RaplTypeOK, UseEnergy
  <2>7. \E j \in Int : saved' + between' + (IF rapl_timer' = "armed" THEN energy_status' - rapl_sample' ELSE 0)
                          = used' + j * M
    <3>1. CASE rapl_timer = "callback"
      <4>1. saved' + between' + 0 = used' + k * M
        BY <3>1, <2>1, <2>6, <1>0
      <4> QED  BY <4>1, <3>1, <2>6
    <3>2. CASE rapl_timer = "armed" /\ energy_status' = energy_status + 1
      <4>1. saved' + between' + (energy_status' - rapl_sample') = used' + k * M
        BY <3>2, <2>1, <2>2, <2>6, <1>0
      <4> QED  BY <4>1, <3>2, <2>6
    <3>3. CASE rapl_timer = "armed" /\ energy_status' = 0 /\ energy_status + 1 = M
      <4>1. (k - 1) * M = k * M - M /\ k * M \in Int /\ k - 1 \in Int
        BY <1>0
      <4>2. saved' + between' + (energy_status' - rapl_sample') = used' + (k - 1) * M
        BY <4>1, <3>3, <2>1, <2>2, <2>6, <1>0
      <4> QED  BY <4>1, <4>2, <3>3, <2>6
    <3> QED  BY <3>1, <3>2, <3>3, <2>3, <2>6
  <2> QED  BY <2>5, <2>7 DEF Turns, M
<1>2. CASE RaplStopSave
  <2>1. PICK k \in Int : saved + between + (energy_status - rapl_sample) = used + k * M
    BY <1>2 DEF Turns, RaplStopSave
  <2>2. /\ rapl_sample' = energy_status - rapl_sample /\ saved' = saved + (energy_status - rapl_sample)
        /\ rapl_timer' = "callback" /\ UNCHANGED <<energy_status, used, between>>
    BY <1>2 DEF RaplStopSave, smon_rapl_sub
  <2>3. RaplTypeOK'
    BY <2>2, <1>0 DEF RaplTypeOK
  <2>4. saved \in Int /\ between \in Int /\ energy_status \in Int /\ rapl_sample \in Int /\ used \in Int
    BY <1>0 DEF RaplTypeOK
  <2> HIDE DEF M
  <2>5. saved' + between' + 0 = used' + k * M
    BY <2>1, <2>2, <2>4
  <2> QED  BY <2>2, <2>3, <2>5 DEF Turns, M
<1>3. CASE RaplRestart
  <2>1. PICK k \in Int : saved + between + 0 = used + k * M
    BY <1>3 DEF Turns, RaplRestart
  <2>2. /\ rapl_sample' = energy_status /\ rapl_timer' = "armed"
        /\ UNCHANGED <<energy_status, used, between, saved>>
    BY <1>3 DEF RaplRestart
  <2>3. RaplTypeOK'
    BY <2>2, <1>0 DEF RaplTypeOK
  <2>4. saved \in Int /\ between \in Int /\ energy_status \in Int /\ used \in Int
    BY <1>0 DEF RaplTypeOK
  <2> HIDE DEF M
  <2>5. saved' + between' + (energy_status' - rapl_sample') = used' + k * M
    BY <2>1, <2>2, <2>4
  <2> QED  BY <2>2, <2>3, <2>5 DEF Turns, M
<1>4. CASE CancelRapl
  BY <1>4 DEF CancelRapl, RaplTypeOK, Turns
<1>5. CASE UNCHANGED raplVars
  BY <1>5 DEF raplVars, RaplTypeOK, Turns
<1> QED  BY <1>1, <1>2, <1>3, <1>4, <1>5

\* The timer's start, before any energy was counted.
LEMMA RaplStart ==
  ASSUME RaplTypeOK, start_timer_rapl, used = 0, between = 0, saved = 0
  PROVE  RaplTypeOK' /\ Turns'
<1>1. RaplTypeOK'
  BY RaplAssumption DEF RaplTypeOK, start_timer_rapl
<1>2. 2^EnergyBits \in Int /\ energy_status \in Int
  BY RaplAssumption DEF RaplTypeOK
<1>3. saved' + between' + (energy_status' - rapl_sample') = used' + 0 * 2^EnergyBits
  BY <1>2 DEF start_timer_rapl
<1> QED  BY <1>1, <1>3 DEF Turns, start_timer_rapl

LEMMA TurnsAdds == RaplTypeOK /\ Turns => EnergyAdds
<1> SUFFICES ASSUME RaplTypeOK, Turns, rapl_timer # "off"
             PROVE  EnergyAdds
  BY DEF EnergyAdds
<1> DEFINE M == 2^EnergyBits
           sum == saved + between + IF rapl_timer = "armed" THEN energy_status - rapl_sample ELSE 0
<1>1. PICK k \in Int : sum = used + k * M
  BY DEF Turns
<1>2. M \in Nat \ {0} /\ used \in Int /\ sum \in Int
  BY RaplAssumption DEF RaplTypeOK
<1> HIDE DEF M, sum
<1>3. sum % M = used % M
  BY <1>1, <1>2, SameRemainder
<1> QED  BY <1>3 DEF EnergyAdds, M, sum

-----------------------------------------------------------------------------
(* The steps of the session.                                               *)

\* TypeOK without the timer's variables.
SType ==
  /\ module \in {"unloaded", "nodevice", "loaded", "oops"}
  /\ tool \in ToolLabels /\ child \in ChildStates
  /\ killed \in BOOLEAN /\ sigint \in BOOLEAN /\ sem \in {0, 1}
  /\ files \subseteq {"tool", "child"}
  /\ buf \in {"none", "alive", "destroyed"} /\ pages \subseteq Pages
  /\ active \in {0, 1} /\ stream \in {"empty", "samples", "eof", "lost"}
  /\ obj \in {"none", "alloc", "freed"} /\ rb \in BOOLEAN
  /\ list \in {"none", "wait", "cpu"}
  /\ stale \in BOOLEAN /\ signals \in 0 .. MaxSignals

\* The count of the buffer's holders stays with the task's pointer.
LEMMA Holders ==
  ASSUME SType, TaskInv
  PROVE  /\ smon_destroy_task => active' = 0 /\ ~rb' /\ obj' = "freed"
         /\ child = "release" => rb /\ active = 1
         /\ ~rb => active = 0
BY DEF SType, TaskInv, smon_destroy_task

\* Loading and unloading the driver.
LEMMA DriverStep ==
  ASSUME SType, SInv, module # "oops",
         Load \/ Unload \/ BufferUsedLate
  PROVE  SType' /\ SInv'
<1> USE DEF SType, SInv, BufferInv, FilesInv, ChildInv, TaskInv, TimerInv, UnloadInv, MappedLabels,
            Loaded, ToolLabels, ChildStates, Pages, driverVars, raplVars
<1>1. CASE Load
  BY SessionAssumption, <1>1 DEF Load
<1>2. CASE Unload
  <2>1. SType'
    <3>1. active' \in {0, 1} /\ rb' \in BOOLEAN /\ obj' \in {"none", "alloc", "freed"}
      BY Holders, <1>2 DEF Unload, smon_sched__unregister_task, smon_destroy_task
    <3> QED  BY <3>1, <1>2 DEF Unload
  <2>2. BufferInv'
    BY Holders, SessionAssumption, <1>2 DEF Unload, smon_sched__unregister_task, CancelRapl
  <2>3. FilesInv'
    BY Holders, SessionAssumption, <1>2 DEF Unload, smon_sched__unregister_task, CancelRapl
  <2>4. ChildInv'
    BY Holders, SessionAssumption, <1>2 DEF Unload, smon_sched__unregister_task, CancelRapl
  <2>5. TaskInv'
    BY Holders, SessionAssumption, <1>2 DEF Unload, smon_sched__unregister_task, CancelRapl
  <2>6. TimerInv'
    BY Holders, SessionAssumption, <1>2 DEF Unload, smon_sched__unregister_task, CancelRapl
  <2>7. UnloadInv'
    BY Holders, SessionAssumption, <1>2 DEF Unload, smon_sched__unregister_task, CancelRapl
  <2> QED  BY <2>1, <2>2, <2>3, <2>4, <2>5, <2>6, <2>7
<1>3. CASE BufferUsedLate
  <2>1. module = "loaded"
    BY <1>3 DEF BufferUsedLate
  <2> QED  BY <2>1, <1>3 DEF BufferUsedLate
<1> QED
  BY <1>1, <1>2, <1>3

\* The tool up to the registration of the child.
LEMMA ToolSetup ==
  ASSUME SType, SInv, module # "oops",
         Open \/ OpenFails \/ Fopen \/ Fork \/ ForkFails \/ InstallHandler \/ Mmap \/
         MmapFails \/ (\E i \in Pages : MmapFailsAtPage(i)) \/ SetTask \/ SetTaskFails
  PROVE  SType' /\ SInv'
<1> USE DEF SType, SInv, BufferInv, FilesInv, ChildInv, TaskInv, TimerInv, UnloadInv, MappedLabels,
            Loaded, ToolLabels, ChildStates, Pages, driverVars, raplVars
<1>1. CASE Open
  BY SessionAssumption, <1>1 DEF Open, Goto
<1>2. CASE OpenFails
  BY SessionAssumption, <1>2 DEF OpenFails, Goto
<1>3. CASE Fopen
  BY SessionAssumption, <1>3 DEF Fopen, Goto
<1>4. CASE Fork
  BY SessionAssumption, <1>4 DEF Fork, Goto
<1>5. CASE ForkFails
  BY SessionAssumption, <1>5 DEF ForkFails, Goto
<1>6. CASE InstallHandler
  BY SessionAssumption, <1>6 DEF InstallHandler, Goto
<1>7. CASE Mmap
  BY SessionAssumption, <1>7 DEF Mmap, Goto, smon_create_rb
<1>8. CASE MmapFails
  BY SessionAssumption, <1>8 DEF MmapFails, Goto, KillChild
<1>9. CASE \E i \in Pages : MmapFailsAtPage(i)
  BY SessionAssumption, <1>9 DEF Goto, KillChild, MmapFailsAtPage
<1>10. CASE SetTask
  <2>1. SType'
    BY Holders, SessionAssumption, <1>10 DEF SetTask, Goto
  <2>2. BufferInv'
    BY Holders, SessionAssumption, <1>10 DEF SetTask, Goto
  <2>3. FilesInv'
    BY Holders, SessionAssumption, <1>10 DEF SetTask, Goto
  <2>4. ChildInv'
    BY Holders, SessionAssumption, <1>10 DEF SetTask, Goto
  <2>5. TaskInv'
    <3>1. obj = "none" /\ ~rb /\ active = 0 /\ child \in {"blocked", "zombie"} /\ module = "loaded"
      BY Holders, <1>10 DEF SetTask, Goto
    <3>2. active' = 1 /\ rb' = TRUE /\ obj' = "alloc" /\ list' = "wait"
      BY <3>1, <1>10 DEF SetTask
    <3>3. stale' <=> (child = "zombie")
      BY <1>10, Zenon DEF SetTask
    <3> QED  BY <3>1, <3>2, <3>3, <1>10 DEF SetTask, Goto
  <2>6. TimerInv'
    BY Holders, SessionAssumption, <1>10 DEF SetTask, Goto
  <2>7. UnloadInv'
    BY Holders, SessionAssumption, <1>10 DEF SetTask, Goto
  <2> QED  BY <2>1, <2>2, <2>3, <2>4, <2>5, <2>6, <2>7
<1>11. CASE SetTaskFails
  BY SessionAssumption, <1>11 DEF SetTaskFails, Goto, KillChild
<1> QED
  BY <1>1, <1>2, <1>3, <1>4, <1>5, <1>6, <1>7, <1>8, <1>9, <1>10, <1>11

\* The tool from the registration on, and after a failure.
LEMMA ToolEnd ==
  ASSUME SType, SInv, module # "oops",
         FailWait \/ FailUnmap \/ Post \/ Hangup \/ Drained \/ WaitChild \/ UnsetTask \/ Munmap
         \/ Fclose \/ Close
  PROVE  SType' /\ SInv'
<1> USE DEF SType, SInv, BufferInv, FilesInv, ChildInv, TaskInv, TimerInv, UnloadInv, MappedLabels,
            Loaded, ToolLabels, ChildStates, Pages, driverVars, raplVars
<1>1. CASE FailWait
  BY SessionAssumption, <1>1 DEF FailWait, Goto
<1>2. CASE FailUnmap
  BY SessionAssumption, <1>2 DEF FailUnmap, Goto, smon_vma_close, smon_destroy_rb
<1>3. CASE Post
  BY SessionAssumption, <1>3 DEF Post, Goto
<1>4. CASE Hangup
  BY SessionAssumption, <1>4 DEF Hangup, Goto
<1>5. CASE WaitChild
  BY SessionAssumption, <1>5 DEF WaitChild, Goto
<1>6. CASE UnsetTask
  <2>1. SType'
    <3>1. active' \in {0, 1} /\ rb' \in BOOLEAN /\ obj' \in {"none", "alloc", "freed"}
      BY Holders, <1>6 DEF UnsetTask, smon_sched__unregister_task, smon_destroy_task
    <3> QED  BY <3>1, <1>6 DEF UnsetTask, Goto
  <2>2. BufferInv'
    BY Holders, SessionAssumption, <1>6 DEF UnsetTask, Goto, smon_sched__unregister_task, CancelRapl
  <2>3. FilesInv'
    BY Holders, SessionAssumption, <1>6 DEF UnsetTask, Goto, smon_sched__unregister_task, CancelRapl
  <2>4. ChildInv'
    BY Holders, SessionAssumption, <1>6 DEF UnsetTask, Goto, smon_sched__unregister_task, CancelRapl
  <2>5. TaskInv'
    BY Holders, SessionAssumption, <1>6 DEF UnsetTask, Goto, smon_sched__unregister_task, CancelRapl
  <2>6. TimerInv'
    BY Holders, SessionAssumption, <1>6 DEF UnsetTask, Goto, smon_sched__unregister_task, CancelRapl
  <2>7. UnloadInv'
    BY Holders, SessionAssumption, <1>6 DEF UnsetTask, Goto, smon_sched__unregister_task, CancelRapl
  <2> QED  BY <2>1, <2>2, <2>3, <2>4, <2>5, <2>6, <2>7
<1>7. CASE Munmap
  BY SessionAssumption, <1>7 DEF Munmap, Goto, smon_vma_close, smon_destroy_rb
<1>8. CASE Fclose
  BY SessionAssumption, <1>8 DEF Fclose, Goto
<1>9. CASE Close
  BY SessionAssumption, <1>9 DEF Close, Goto
<1>10. CASE Drained
  BY SessionAssumption, <1>10 DEF Drained, Goto
<1> QED
  BY <1>1, <1>2, <1>3, <1>4, <1>5, <1>6, <1>7, <1>8, <1>9, <1>10

\* Signals to the tool.
LEMMA SignalStep ==
  ASSUME SType, SInv, module # "oops",
         Interrupt \/ InterruptEarly \/ KillTool
  PROVE  SType' /\ SInv'
<1> USE DEF SType, SInv, BufferInv, FilesInv, ChildInv, TaskInv, TimerInv, UnloadInv, MappedLabels,
            Loaded, ToolLabels, ChildStates, Pages, driverVars, raplVars
<1>1. CASE Interrupt
  BY SessionAssumption, <1>1 DEF Interrupt, Handles, KillChild
<1>2. CASE InterruptEarly
  BY SessionAssumption, <1>2 DEF InterruptEarly, ToolDies, KillChild, smon_vma_close, smon_destroy_rb
<1>3. CASE KillTool
  <2>1. SType'
    <3>1. buf' \in {"none", "alive", "destroyed"} /\ pages' \subseteq Pages
      BY SessionAssumption, <1>3 DEF KillTool, ToolDies, smon_vma_close, smon_destroy_rb
    <3>2. killed' \in BOOLEAN /\ tool' \in ToolLabels /\ files' \subseteq {"tool", "child"}
      BY <1>3 DEF KillTool, ToolDies
    <3> QED  BY <3>1, <3>2, <1>3 DEF KillTool
  <2>2. BufferInv'
    BY SessionAssumption, <1>3 DEF KillTool, ToolDies, smon_vma_close, smon_destroy_rb
  <2>3. FilesInv'
    BY <1>3 DEF KillTool, ToolDies
  <2>4. ChildInv'
    BY SessionAssumption, <1>3 DEF KillTool, ToolDies, smon_vma_close, smon_destroy_rb
  <2>5. TaskInv'
    BY SessionAssumption, <1>3 DEF KillTool, ToolDies, smon_vma_close, smon_destroy_rb
  <2>6. TimerInv'
    BY SessionAssumption, <1>3 DEF KillTool, ToolDies, smon_vma_close, smon_destroy_rb
  <2>7. UnloadInv'
    BY SessionAssumption, <1>3 DEF KillTool, ToolDies, smon_vma_close, smon_destroy_rb
  <2> QED  BY <2>1, <2>2, <2>3, <2>4, <2>5, <2>6, <2>7
<1> QED
  BY <1>1, <1>2, <1>3

\* The child, its hooks and the timer's callback.
LEMMA ChildStep ==
  ASSUME SType, SInv, module # "oops",
         SemWait \/ Exec \/ ExecInsert \/ CloseFile \/ DieOfSignal \/ ExitByItself \/ Release
         \/ ExitEnd \/ RaplTick \/ RaplCallbackEnds
  PROVE  SType' /\ SInv'
<1> USE DEF SType, SInv, BufferInv, FilesInv, ChildInv, TaskInv, TimerInv, UnloadInv, MappedLabels,
            Loaded, ToolLabels, ChildStates, Pages, driverVars, raplVars
<1>1. CASE SemWait
  BY SessionAssumption, <1>1 DEF SemWait
<1>2. CASE Exec
  BY SessionAssumption, <1>2 DEF Exec
<1>3. CASE ExecInsert
  BY SessionAssumption, <1>3 DEF ExecInsert, start_timer_rapl
<1>4. CASE CloseFile
  BY SessionAssumption, <1>4 DEF CloseFile
<1>5. CASE DieOfSignal
  <2>1. SType'
    BY SessionAssumption, <1>5 DEF DieOfSignal, ExitListed, ExitUnlisted
  <2>2. BufferInv'
    BY SessionAssumption, <1>5 DEF DieOfSignal, ExitListed, ExitUnlisted
  <2>3. FilesInv'
    <3>1. CASE ExitListed
      BY <3>1, <1>5 DEF DieOfSignal, ExitListed
    <3>2. CASE ExitUnlisted
      BY <3>2, <1>5 DEF DieOfSignal, ExitUnlisted
    <3> QED  BY <3>1, <3>2, <1>5 DEF DieOfSignal
  <2>4. ChildInv'
    BY SessionAssumption, <1>5 DEF DieOfSignal, ExitListed, ExitUnlisted
  <2>5. TaskInv'
    <3>1. CASE ExitListed
      BY <3>1, <1>5 DEF DieOfSignal, ExitListed
    <3>2. CASE ExitUnlisted
      BY <3>2, <1>5 DEF DieOfSignal, ExitUnlisted
    <3> QED  BY <3>1, <3>2, <1>5 DEF DieOfSignal
  <2>6. TimerInv'
    BY SessionAssumption, <1>5 DEF DieOfSignal, ExitListed, ExitUnlisted
  <2>7. UnloadInv'
    BY SessionAssumption, <1>5 DEF DieOfSignal, ExitListed, ExitUnlisted
  <2> QED  BY <2>1, <2>2, <2>3, <2>4, <2>5, <2>6, <2>7
<1>6. CASE ExitByItself
  <2>1. SType'
    BY SessionAssumption, <1>6 DEF ExitByItself, ExitListed, ExitUnlisted
  <2>2. BufferInv'
    BY SessionAssumption, <1>6 DEF ExitByItself, ExitListed, ExitUnlisted
  <2>3. FilesInv'
    BY SessionAssumption, <1>6 DEF ExitByItself, ExitListed, ExitUnlisted
  <2>4. ChildInv'
    BY SessionAssumption, <1>6 DEF ExitByItself, ExitListed, ExitUnlisted
  <2>5. TaskInv'
    BY SessionAssumption, <1>6 DEF ExitByItself, ExitListed, ExitUnlisted
  <2>6. TimerInv'
    BY SessionAssumption, <1>6 DEF ExitByItself, ExitListed, ExitUnlisted
  <2>7. UnloadInv'
    BY SessionAssumption, <1>6 DEF ExitByItself, ExitListed, ExitUnlisted
  <2> QED  BY <2>1, <2>2, <2>3, <2>4, <2>5, <2>6, <2>7
<1>7. CASE Release
  <2>1. SType'
    <3>1. active' = 0 /\ rb' = FALSE
      BY Holders, <1>7 DEF Release
    <3> QED  BY <3>1, <1>7 DEF Release
  <2>2. BufferInv'
    BY Holders, SessionAssumption, <1>7 DEF Release
  <2>3. FilesInv'
    BY Holders, SessionAssumption, <1>7 DEF Release
  <2>4. ChildInv'
    BY Holders, SessionAssumption, <1>7 DEF Release
  <2>5. TaskInv'
    BY Holders, SessionAssumption, <1>7 DEF Release
  <2>6. TimerInv'
    BY Holders, SessionAssumption, <1>7 DEF Release
  <2>7. UnloadInv'
    BY Holders, SessionAssumption, <1>7 DEF Release
  <2> QED  BY <2>1, <2>2, <2>3, <2>4, <2>5, <2>6, <2>7
<1>8. CASE ExitEnd
  BY SessionAssumption, <1>8 DEF ExitEnd, CancelRapl
<1>9. CASE RaplTick
  BY SessionAssumption, <1>9 DEF RaplTick, UseEnergy, RaplStopSave
<1>10. CASE RaplCallbackEnds
  BY SessionAssumption, <1>10 DEF RaplCallbackEnds, RaplRestart
<1> QED
  BY <1>1, <1>2, <1>3, <1>4, <1>5, <1>6, <1>7, <1>8, <1>9, <1>10

-----------------------------------------------------------------------------
(* Theorems.                                                               *)

IInv == TypeOK /\ SInv /\ Turns

LEMMA SessionInit == Init => IInv
<1> SUFFICES ASSUME Init
             PROVE  IInv
  OBVIOUS
<1>1. TypeOK
  <2>1. RaplTypeOK
    BY RaplAssumption DEF Init, RaplInit, RaplTypeOK
  <2>2. SType
    <3>1. killed \in BOOLEAN /\ sigint \in BOOLEAN /\ rb \in BOOLEAN /\ stale \in BOOLEAN
      BY DEF Init
    <3>2. signals \in 0 .. MaxSignals /\ sem \in {0, 1} /\ active \in {0, 1}
      BY SessionAssumption DEF Init
    <3>3. files \subseteq {"tool", "child"} /\ pages \subseteq Pages
      BY DEF Init
    <3> QED  BY <3>1, <3>2, <3>3 DEF Init, SType, ToolLabels, ChildStates
  <2> QED  BY <2>1, <2>2 DEF TypeOK, SType
<1>2. SInv
  BY DEF Init, RaplInit, SInv, BufferInv, FilesInv, ChildInv, TaskInv, TimerInv, UnloadInv, MappedLabels,
         Loaded
<1>3. Turns
  BY DEF Init, RaplInit, Turns
<1> QED  BY <1>1, <1>2, <1>3 DEF IInv

\* What a step of the session does to the timer's variables.
LEMMA TimerStep ==
  ASSUME Next
  PROVE  \/ UseEnergy \/ RaplStopSave \/ RaplRestart \/ CancelRapl \/ UNCHANGED raplVars
         \/ child = "exec" /\ start_timer_rapl
<1>1. CASE Load \/ Unload \/ BufferUsedLate
  BY <1>1 DEF Load, Unload, BufferUsedLate, smon_sched__unregister_task
<1>2. CASE Tool
  BY <1>2 DEF Tool, start_profile, Open, OpenFails, Fopen, Fork, ForkFails, InstallHandler, Mmap, MmapFails,
              MmapFailsAtPage, FailWait, SetTask, SetTaskFails, FailUnmap, Post, Hangup, Drained, WaitChild,
              UnsetTask, smon_sched__unregister_task, Munmap, Fclose, Close
<1>3. CASE Interrupt \/ InterruptEarly \/ KillTool
  BY <1>3 DEF Interrupt, InterruptEarly, KillTool
<1>4. CASE Child
  BY <1>4 DEF Child, ChildGoesOn, SemWait, Exec, ExecInsert, CloseFile, DieOfSignal, ExitByItself,
              ExitListed, ExitUnlisted, Release, ExitEnd
<1>5. CASE RaplTick \/ RaplCallbackEnds
  BY <1>5 DEF RaplTick, RaplCallbackEnds
<1>6. CASE Over
  BY <1>6 DEF Over, vars
<1> QED  BY <1>1, <1>2, <1>3, <1>4, <1>5, <1>6 DEF Next, Step

LEMMA SessionStep == IInv /\ [Next]_vars => IInv'
<1> SUFFICES ASSUME IInv, [Next]_vars
             PROVE  IInv'
  OBVIOUS
<1>1. SType /\ SInv /\ RaplTypeOK /\ Turns
  BY DEF IInv, TypeOK, SType
<1>2. CASE Next
  <2>1. RaplTypeOK' /\ Turns'
    <3>1. CASE child = "exec" /\ start_timer_rapl
      BY <3>1, <1>1, RaplStart DEF SInv, TimerInv
    <3>2. CASE UseEnergy \/ RaplStopSave \/ RaplRestart \/ CancelRapl \/ UNCHANGED raplVars
      BY <3>2, <1>1, RaplStep
    <3> QED  BY <1>2, <3>1, <3>2, TimerStep
  <2>2. SType' /\ SInv'
    <3>1. CASE module # "oops" /\ (Load \/ Unload \/ BufferUsedLate)
      BY <3>1, <1>1, DriverStep
    <3>2. CASE module # "oops" /\ Tool
      BY <3>2, <1>1, ToolSetup, ToolEnd DEF Tool, start_profile
    <3>3. CASE module # "oops" /\ (Interrupt \/ InterruptEarly \/ KillTool)
      BY <3>3, <1>1, SignalStep
    <3>4. CASE module # "oops" /\ (Child \/ RaplTick \/ RaplCallbackEnds)
      BY <3>4, <1>1, ChildStep DEF Child, ChildGoesOn
    <3>5. CASE Over
      BY <3>5, <1>1 DEF Over, vars, driverVars, raplVars, SType, SInv, BufferInv, FilesInv, ChildInv, TaskInv,
                        TimerInv, UnloadInv, Loaded
    <3> QED  BY <1>2, <3>1, <3>2, <3>3, <3>4, <3>5 DEF Next, Step
  <2> QED  BY <2>1, <2>2 DEF IInv, TypeOK, SType
<1>3. CASE UNCHANGED vars
  BY <1>1, <1>3 DEF vars, driverVars, raplVars, IInv, TypeOK, RaplTypeOK, Turns, SType, SInv, BufferInv,
                    FilesInv, ChildInv, TaskInv, TimerInv, UnloadInv, Loaded
<1> QED  BY <1>2, <1>3

LEMMA SessionInvariant == Spec => []IInv
BY SessionInit, SessionStep, PTL DEF Spec

\* Every variable keeps its type; in particular rb->active stays 0 or 1, so that no path
\* through smon_destroy_task and the exit hook releases the buffer twice.
THEOREM SessionTypeCorrect == Spec => []TypeOK
<1>1. IInv => TypeOK
  BY DEF IInv
<1> QED  BY <1>1, SessionInvariant, PTL

\* smon_vma_close destroys the buffer of a session that is not killed only when no
\* task, exit hook or RAPL timer can write to it any more.
THEOREM BufferOutlivesWriters == Spec => []BufferLives
<1>1. IInv => BufferLives
  BY DEF IInv, SInv, BufferInv, FilesInv, ChildInv, TaskInv, TimerInv, BufferLives, MappedLabels,
         TypeOK, ToolLabels, ChildStates
<1> QED  BY <1>1, SessionInvariant, PTL

\* smon_unset_task, which leaves the wait list and the CPU's list alone, frees no task that is
\* on one of them, for a child that was alive when it was registered.
THEOREM ListedTasksAllocated == Spec => []NoFreedOnList
<1>1. IInv => NoFreedOnList
  BY DEF IInv, SInv, TaskInv, NoFreedOnList, TypeOK, ChildStates
<1> QED  BY <1>1, SessionInvariant, PTL

\* Every end of the tool, a kill included, gives the buffer's pages back, but for the
\* first page of a mapping that failed half-way.
THEOREM PagesGivenBack == Spec => []PagesFreed
<1>1. IInv => PagesFreed
  BY DEF IInv, SInv, BufferInv, PagesFreed, MappedLabels, TypeOK
<1> QED  BY <1>1, SessionInvariant, PTL

\* smon_sched_exit leaves no task and no armed timer, also when the tool was killed after
\* its child's exit hook and before unset_task.
THEOREM UnloadLeavesNothing == Spec => []UnloadCleans
<1>1. IInv => UnloadCleans
  BY DEF IInv, SInv, UnloadInv, Loaded, UnloadCleans
<1> QED  BY <1>1, SessionInvariant, PTL

\* The energy samples of smon_sched_timer_rapl add up to the energy used, modulo the range of
\* the register, for registers of any width.
THEOREM SamplesAddUp == Spec => []EnergyAdds
<1>1. IInv => EnergyAdds
  BY TurnsAdds DEF IInv, TypeOK
<1> QED  BY <1>1, SessionInvariant, PTL

=============================================================================
