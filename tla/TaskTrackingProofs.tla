------------------------ MODULE TaskTrackingProofs ------------------------
(***************************************************************************)
(* The driver's lists, tasks and references (TaskTracking) for every       *)
(* number of processes and CPUs.                                           *)
(***************************************************************************)
EXTENDS TaskTracking, FiniteSetTheorems, TLAPS

-----------------------------------------------------------------------------
(* The inductive invariant.  All but the first part is about orderly       *)
(* sessions.                                                               *)

\* A fork in progress has a child.
KidInv == \A p \in Procs : pc[p] \in {"copied", "fork"} <=> kid[p] # None

\* Processes and their hooks: who is in which, with which task object.
ProcInv ==
  \A p \in Procs :
    /\ pst[p] # "live" => pc[p] = "idle" /\ mig[p] = None
    /\ pst[p] = "none" => obj[p] = "none"
    /\ kid[p] # None => /\ pst[kid[p]] = "new"
                        /\ obj[kid[p]] = IF pc[p] = "copied" THEN "none" ELSE "alloc"
                        /\ \A q \in Procs : kid[q] = kid[p] => q = p
    /\ mig[p] # None => pc[p] \in {"idle", "copied"}
    /\ mig[p] # None \/ pc[p] \in {"fork", "exec", "release"} => obj[p] = "alloc" /\ p \notin wait_list
    /\ pc[p] = "null" => obj[p] # "none" /\ p \notin wait_list
    /\ pc[p] = "exec" => p = Root

\* The root, its children, and what the tool has done with them.
RootInv ==
  /\ pst[Root] \in {"live", "dead"}
  /\ tool = "register" => \A p \in Procs : /\ obj[p] = "none" /\ pc[p] = "idle"
                                           /\ p = Root => pst[p] = "live"
  /\ tool \in {"unset", "munmap", "end"} => pst[Root] = "dead"
  /\ ~inherit => children[Root] = {} /\ \A p \in Procs \ {Root} : obj[p] = "none"
  /\ Root \in task_list <=> obj[Root] = "alloc"
  /\ \A c \in children[Root] : obj[c] = "alloc" /\ c # Root

\* Lists: a process is on the list of its CPU exactly when it is on none of its hooks' ways.
Listed(p) ==
  /\ obj[p] = "alloc" /\ pst[p] = "live" /\ mig[p] = None
  /\ pc[p] \in {"idle", "copied", "fork"} /\ p \notin wait_list

ListInv ==
  /\ \A p \in Procs, c \in CPUs : p \in cpu_list[c] <=> c = pcpu[p] /\ Listed(p)
  /\ \A p \in wait_list : p = Root /\ obj[p] = "alloc" /\ pst[p] = "live" /\ pc[p] = "idle"

\* References on the ring buffer: active counts the holders for as long as the tool
\* samples; when it goes on because there is none left, none comes back.
Holders == {p \in Procs : rb[p] /\ pc[p] # "null"}

HoldInv ==
  /\ \A p \in Procs : rb[p] <=> obj[p] = "alloc" /\ pst[p] # "dead"
  /\ tool \in {"register", "sampling"} => active = Cardinality(Holders)
  /\ tool \notin {"register", "sampling"} /\ inherit => Holders = {}

Allocated == {p \in Procs : obj[p] = "alloc"}

FreedInv ==
  \A p \in Procs : obj[p] = "freed" =>
    pst[p] = "dead" \/ (pc[p] = "null" /\ p # Root)

TInv == ProcInv /\ RootInv /\ ListInv /\ HoldInv /\ FreedInv /\ count = Cardinality(Allocated)

IInv == TypeOK /\ KidInv /\ (Orderly => TInv)

-----------------------------------------------------------------------------
(* Counting.                                                               *)

\* A set of processes grows or shrinks by one.
LEMMA CountAdd ==
  ASSUME NEW S \in SUBSET Procs, NEW x \in Procs \ S
  PROVE  Cardinality(S \cup {x}) = Cardinality(S) + 1
BY TrackingAssumption, FS_Subset, FS_AddElement

LEMMA CountRemove ==
  ASSUME NEW S \in SUBSET Procs, NEW x \in S
  PROVE  Cardinality(S \ {x}) = Cardinality(S) - 1
BY TrackingAssumption, FS_Subset, FS_RemoveElement

LEMMA CountNat ==
  ASSUME NEW S \in SUBSET Procs
  PROVE  Cardinality(S) \in Nat /\ (Cardinality(S) <= 0 => S = {})
BY TrackingAssumption, FS_Subset, FS_CardinalityType, FS_EmptySet

-----------------------------------------------------------------------------
(* Types, which hold in every session.                                     *)

LEMMA TypeStep == TypeOK /\ KidInv /\ [Next]_vars => TypeOK' /\ KidInv'
<1> SUFFICES ASSUME TypeOK, KidInv, [Next]_vars
             PROVE  TypeOK' /\ KidInv'
  OBVIOUS
<1> USE TrackingAssumption DEF TypeOK, KidInv, procVars, listVars, taskVars
<1>1. ASSUME NEW p \in Procs, NEW c \in Procs, Copy(p, c)
      PROVE  TypeOK' /\ KidInv'
  BY <1>1 DEF Copy
<1>2. ASSUME NEW p \in Procs, ForkNotInherited(p)
      PROVE  TypeOK' /\ KidInv'
  BY <1>2 DEF ForkNotInherited, ChildRuns
<1>3. ASSUME NEW p \in Procs, ForkSameCpu(p)
      PROVE  TypeOK' /\ KidInv'
  <2>1. TypeOK'
    BY <1>3 DEF ForkSameCpu, ChildRuns, smon_create_child
  <2>2. KidInv'
    BY <1>3 DEF ForkSameCpu, ChildRuns, smon_create_child
  <2> QED  BY <2>1, <2>2
<1>4. ASSUME NEW p \in Procs, ForkOtherCpu(p)
      PROVE  TypeOK' /\ KidInv'
  <2>1. TypeOK'
    BY <1>4 DEF ForkOtherCpu, smon_create_child
  <2>2. KidInv'
    BY <1>4 DEF ForkOtherCpu, smon_create_child
  <2> QED  BY <2>1, <2>2
<1>5. ASSUME NEW p \in Procs, ForkInsert(p)
      PROVE  TypeOK' /\ KidInv'
  BY <1>5 DEF ForkInsert, ChildRuns
<1>6. CASE ExecRemove
  BY <1>6 DEF ExecRemove
<1>7. CASE ExecInsert
  BY <1>7 DEF ExecInsert
<1>8. ASSUME NEW p \in Procs, NEW c \in CPUs, MigrateNotFound(p, c)
      PROVE  TypeOK' /\ KidInv'
  BY <1>8 DEF MigrateNotFound, Movable
<1>9. ASSUME NEW p \in Procs, NEW c \in CPUs, MigrateRemove(p, c)
      PROVE  TypeOK' /\ KidInv'
  BY <1>9 DEF MigrateRemove, Movable
<1>10. ASSUME NEW p \in Procs, MigrateInsert(p)
      PROVE  TypeOK' /\ KidInv'
  BY <1>10 DEF MigrateInsert
<1>11. ASSUME NEW p \in Procs, ExitCpu(p)
      PROVE  TypeOK' /\ KidInv'
  BY <1>11 DEF ExitCpu, Exits
<1>12. ASSUME NEW p \in Procs, ExitWait(p)
      PROVE  TypeOK' /\ KidInv'
  BY <1>12 DEF ExitWait, Exits
<1>13. ASSUME NEW p \in Procs, ExitNotFound(p)
      PROVE  TypeOK' /\ KidInv'
  BY <1>13 DEF ExitNotFound, Exits
<1>14. ASSUME NEW p \in Procs, ExitRelease(p)
      PROVE  TypeOK' /\ KidInv'
  BY <1>14 DEF ExitRelease
<1>15. ASSUME NEW p \in Procs, ExitEnd(p)
      PROVE  TypeOK' /\ KidInv'
  BY <1>15 DEF ExitEnd
<1>16. CASE Register
  <2>1. TypeOK'
    BY <1>16 DEF Register
  <2>2. KidInv'
    BY <1>16 DEF Register
  <2> QED  BY <2>1, <2>2
<1>17. CASE Hangup
  BY <1>17 DEF Hangup
<1>18. CASE Interrupted
  BY <1>18 DEF Interrupted
<1>19. CASE WaitRoot
  BY <1>19 DEF WaitRoot
<1>20. ASSUME NEW c \in Procs, UnregisterChild(c)
      PROVE  TypeOK' /\ KidInv'
  <2>1. TypeOK'
    BY <1>20 DEF UnregisterChild, smon_destroy_task
  <2>2. KidInv'
    BY <1>20 DEF UnregisterChild, smon_destroy_task
  <2> QED  BY <2>1, <2>2
<1>21. CASE UnregisterRoot
  <2>1. TypeOK'
    BY <1>21 DEF UnregisterRoot, smon_destroy_task
  <2>2. KidInv'
    BY <1>21 DEF UnregisterRoot, smon_destroy_task
  <2> QED  BY <2>1, <2>2
<1>22. CASE Munmap
  BY <1>22 DEF Munmap
<1>23. ASSUME NEW p \in Procs, ForkNoMemory(p)
      PROVE  TypeOK' /\ KidInv'
  BY <1>23 DEF ForkNoMemory, ChildRuns
<1>24. CASE Drained
  BY <1>24 DEF Drained
<1>25. CASE UNCHANGED vars
  BY <1>25 DEF vars
<1> QED
  BY <1>1, <1>2, <1>3, <1>4, <1>5, <1>6, <1>7, <1>8, <1>9, <1>10, <1>11, <1>12, <1>13, <1>14, <1>15,
     <1>16, <1>17, <1>18, <1>19, <1>20, <1>21, <1>22, <1>23, <1>24, <1>25
  DEF Next, ProcStep, HookGoesOn, ToolStep, Over

-----------------------------------------------------------------------------
(* The steps of an orderly session.                                        *)

\* A session that is orderly was so before.
LEMMA OrderlyBefore == [Next]_vars /\ Orderly' => Orderly
BY DEF Next, vars, ProcStep, HookGoesOn, ToolStep, Over, Orderly, Copy, ForkNotInherited, ForkNoMemory, ForkSameCpu,
       ForkOtherCpu, ForkInsert, ExecRemove, ExecInsert, MigrateNotFound, MigrateRemove, MigrateInsert, ExitCpu,
       ExitWait, ExitNotFound, ExitRelease, ExitEnd, Register, Hangup, Drained, Interrupted, WaitRoot, UnregisterChild,
       UnregisterRoot, Munmap, procVars

\* The references of a step that changes none.
LEMMA SameReferences ==
  ASSUME HoldInv, Holders' = Holders, UNCHANGED <<active, tool, inherit>>,
         \A q \in Procs : rb'[q] <=> obj'[q] = "alloc" /\ pst'[q] # "dead"
  PROVE  HoldInv'
BY DEF HoldInv

\* The step of a process on a list, or of the root in a fork, finds the tool sampling if
\* children inherit: the process holds the buffer.
LEMMA Sampled ==
  ASSUME TypeOK, TInv, inherit, NEW p \in Procs, obj[p] = "alloc", pst[p] = "live", pc[p] # "null"
  PROVE  p \in Holders /\ tool \in {"register", "sampling"}
BY DEF TInv, HoldInv, Holders

LEMMA CopyStep ==
  ASSUME TypeOK, KidInv, TInv, Orderly', NEW p \in Procs, NEW c \in Procs, Copy(p, c)
  PROVE  TInv'
<1> USE TrackingAssumption DEF TInv, TypeOK, procVars, listVars, taskVars
<1>1. ProcInv'
  BY DEF Copy, KidInv, ProcInv, RootInv, ListInv, Listed, HoldInv, FreedInv
<1>2. RootInv'
  BY DEF Copy, KidInv, ProcInv, RootInv, ListInv, Listed, HoldInv, FreedInv
<1>3. ListInv'
  BY DEF Copy, KidInv, ProcInv, RootInv, ListInv, Listed, HoldInv, FreedInv
<1>4. FreedInv'
  BY DEF Copy, KidInv, ProcInv, RootInv, ListInv, Listed, HoldInv, FreedInv
<1>5. \A q \in Procs : rb'[q] <=> obj'[q] = "alloc" /\ pst'[q] # "dead"
  BY DEF Copy, KidInv, ProcInv, RootInv, ListInv, Listed, HoldInv, FreedInv
<1>6. Holders' = Holders /\ Allocated' = Allocated
  BY DEF Copy, KidInv, ProcInv, RootInv, ListInv, Listed, HoldInv, FreedInv, Holders, Allocated
<1>7. HoldInv' /\ count' = Cardinality(Allocated')
  BY <1>5, <1>6, SameReferences DEF Copy
<1> QED  BY <1>1, <1>2, <1>3, <1>4, <1>7

LEMMA ForkNotInheritedStep ==
  ASSUME TypeOK, KidInv, TInv, Orderly', NEW p \in Procs, ForkNotInherited(p)
  PROVE  TInv'
<1> USE TrackingAssumption DEF TInv, TypeOK, procVars, listVars, taskVars
<1>1. ProcInv'
  BY DEF ForkNotInherited, ChildRuns, KidInv, ProcInv, RootInv, ListInv, Listed, HoldInv, FreedInv
<1>2. RootInv'
  BY DEF ForkNotInherited, ChildRuns, KidInv, ProcInv, RootInv, ListInv, Listed, HoldInv, FreedInv,
         Holders
<1>3. ListInv'
  BY DEF ForkNotInherited, ChildRuns, KidInv, ProcInv, RootInv, ListInv, Listed, HoldInv, FreedInv
<1>4. FreedInv'
  BY DEF ForkNotInherited, ChildRuns, KidInv, ProcInv, RootInv, ListInv, Listed, HoldInv, FreedInv
<1>5. \A q \in Procs : rb'[q] <=> obj'[q] = "alloc" /\ pst'[q] # "dead"
  BY DEF ForkNotInherited, ChildRuns, KidInv, ProcInv, RootInv, ListInv, Listed, HoldInv, FreedInv
<1>6. Holders' = Holders /\ Allocated' = Allocated
  BY DEF ForkNotInherited, ChildRuns, KidInv, ProcInv, RootInv, ListInv, Listed, HoldInv, FreedInv, Holders, Allocated
<1>7. HoldInv' /\ count' = Cardinality(Allocated')
  BY <1>5, <1>6, SameReferences DEF ForkNotInherited, ChildRuns
<1> QED  BY <1>1, <1>2, <1>3, <1>4, <1>7

LEMMA ForkNoMemoryStep ==
  ASSUME TypeOK, KidInv, TInv, Orderly', NEW p \in Procs, ForkNoMemory(p)
  PROVE  TInv'
<1> USE TrackingAssumption DEF TInv, TypeOK, procVars, listVars, taskVars
<1>1. ProcInv'
  BY DEF ForkNoMemory, ChildRuns, KidInv, ProcInv, RootInv, ListInv, Listed, HoldInv, FreedInv
<1>2. RootInv'
  BY DEF ForkNoMemory, ChildRuns, KidInv, ProcInv, RootInv, ListInv, Listed, HoldInv, FreedInv,
         Holders
<1>3. ListInv'
  BY DEF ForkNoMemory, ChildRuns, KidInv, ProcInv, RootInv, ListInv, Listed, HoldInv, FreedInv
<1>4. FreedInv'
  BY DEF ForkNoMemory, ChildRuns, KidInv, ProcInv, RootInv, ListInv, Listed, HoldInv, FreedInv
<1>5. \A q \in Procs : rb'[q] <=> obj'[q] = "alloc" /\ pst'[q] # "dead"
  BY DEF ForkNoMemory, ChildRuns, KidInv, ProcInv, RootInv, ListInv, Listed, HoldInv, FreedInv
<1>6. Holders' = Holders /\ Allocated' = Allocated
  BY DEF ForkNoMemory, ChildRuns, KidInv, ProcInv, RootInv, ListInv, Listed, HoldInv, FreedInv, Holders, Allocated
<1>7. HoldInv' /\ count' = Cardinality(Allocated')
  BY <1>5, <1>6, SameReferences DEF ForkNoMemory, ChildRuns
<1> QED  BY <1>1, <1>2, <1>3, <1>4, <1>7

LEMMA ForkSameCpuStep ==
  ASSUME TypeOK, KidInv, TInv, Orderly', NEW p \in Procs, ForkSameCpu(p)
  PROVE  TInv'
<1> USE TrackingAssumption DEF TInv, TypeOK, procVars, listVars, taskVars
<1>1. ProcInv'
  BY DEF ForkSameCpu, ChildRuns, smon_create_child, KidInv, ProcInv, RootInv, ListInv, Listed,
         HoldInv, FreedInv
<1>2. RootInv'
  BY DEF ForkSameCpu, ChildRuns, smon_create_child, KidInv, ProcInv, RootInv, ListInv, Listed,
         HoldInv, FreedInv
<1>3. ListInv'
  BY DEF ForkSameCpu, ChildRuns, smon_create_child, KidInv, ProcInv, RootInv, ListInv, Listed,
         HoldInv, FreedInv
<1>4. FreedInv'
  BY DEF ForkSameCpu, ChildRuns, smon_create_child, KidInv, ProcInv, RootInv, ListInv, Listed,
         HoldInv, FreedInv
<1>5. \A q \in Procs : rb'[q] <=> obj'[q] = "alloc" /\ pst'[q] # "dead"
  BY DEF ForkSameCpu, ChildRuns, smon_create_child, KidInv, ProcInv, RootInv, ListInv, Listed, HoldInv, FreedInv
<1>6. PICK c \in Procs : c = kid[p]
  BY DEF ForkSameCpu, ChildRuns, smon_create_child, KidInv
<1>7. c \notin Holders /\ c \notin Allocated /\ Holders' = Holders \cup {c} /\ Allocated' = Allocated \cup {c}
  BY <1>6 DEF ForkSameCpu, ChildRuns, smon_create_child, KidInv, ProcInv, RootInv, ListInv, Listed, HoldInv, FreedInv, Holders, Allocated
<1>8. Cardinality(Holders') = Cardinality(Holders) + 1 /\ Cardinality(Allocated') = Cardinality(Allocated) + 1
  <2>1. Holders \in SUBSET Procs /\ Allocated \in SUBSET Procs
    BY DEF Holders, Allocated
  <2> QED  BY <2>1, <1>7, CountAdd
<1>9. tool \in {"register", "sampling"}
  BY Sampled DEF ForkSameCpu, ChildRuns, smon_create_child, ListInv, Listed
<1>10. HoldInv' /\ count' = Cardinality(Allocated')
  BY <1>5, <1>8, <1>9 DEF ForkSameCpu, ChildRuns, smon_create_child, HoldInv
<1> QED  BY <1>1, <1>2, <1>3, <1>4, <1>10

LEMMA ForkOtherCpuStep ==
  ASSUME TypeOK, KidInv, TInv, Orderly', NEW p \in Procs, ForkOtherCpu(p)
  PROVE  TInv'
<1> USE TrackingAssumption DEF TInv, TypeOK, procVars, listVars, taskVars
<1>1. ProcInv'
  BY DEF ForkOtherCpu, smon_create_child, KidInv, ProcInv, RootInv, ListInv, Listed, HoldInv,
         FreedInv
<1>2. RootInv'
  BY DEF ForkOtherCpu, smon_create_child, KidInv, ProcInv, RootInv, ListInv, Listed, HoldInv,
         FreedInv
<1>3. ListInv'
  BY DEF ForkOtherCpu, smon_create_child, KidInv, ProcInv, RootInv, ListInv, Listed, HoldInv,
         FreedInv
<1>4. FreedInv'
  BY DEF ForkOtherCpu, smon_create_child, KidInv, ProcInv, RootInv, ListInv, Listed, HoldInv,
         FreedInv
<1>5. \A q \in Procs : rb'[q] <=> obj'[q] = "alloc" /\ pst'[q] # "dead"
  BY DEF ForkOtherCpu, smon_create_child, KidInv, ProcInv, RootInv, ListInv, Listed, HoldInv, FreedInv
<1>6. PICK c \in Procs : c = kid[p]
  BY DEF ForkOtherCpu, smon_create_child, KidInv
<1>7. c \notin Holders /\ c \notin Allocated /\ Holders' = Holders \cup {c} /\ Allocated' = Allocated \cup {c}
  BY <1>6 DEF ForkOtherCpu, smon_create_child, KidInv, ProcInv, RootInv, ListInv, Listed, HoldInv, FreedInv, Holders, Allocated
<1>8. Cardinality(Holders') = Cardinality(Holders) + 1 /\ Cardinality(Allocated') = Cardinality(Allocated) + 1
  <2>1. Holders \in SUBSET Procs /\ Allocated \in SUBSET Procs
    BY DEF Holders, Allocated
  <2> QED  BY <2>1, <1>7, CountAdd
<1>9. tool \in {"register", "sampling"}
  BY Sampled DEF ForkOtherCpu, smon_create_child, ListInv, Listed
<1>10. HoldInv' /\ count' = Cardinality(Allocated')
  BY <1>5, <1>8, <1>9 DEF ForkOtherCpu, smon_create_child, HoldInv
<1> QED  BY <1>1, <1>2, <1>3, <1>4, <1>10

LEMMA ForkInsertStep ==
  ASSUME TypeOK, KidInv, TInv, Orderly', NEW p \in Procs, ForkInsert(p)
  PROVE  TInv'
<1> USE TrackingAssumption DEF TInv, TypeOK, procVars, listVars, taskVars
<1>1. ProcInv'
  BY DEF ForkInsert, ChildRuns, KidInv, ProcInv, RootInv, ListInv, Listed, HoldInv, FreedInv
<1>2. RootInv'
  BY DEF ForkInsert, ChildRuns, KidInv, ProcInv, RootInv, ListInv, Listed, HoldInv, FreedInv
<1>3. ListInv'
  BY DEF ForkInsert, ChildRuns, KidInv, ProcInv, RootInv, ListInv, Listed, HoldInv, FreedInv
<1>4. FreedInv'
  BY DEF ForkInsert, ChildRuns, KidInv, ProcInv, RootInv, ListInv, Listed, HoldInv, FreedInv
<1>5. \A q \in Procs : rb'[q] <=> obj'[q] = "alloc" /\ pst'[q] # "dead"
  BY DEF ForkInsert, ChildRuns, KidInv, ProcInv, RootInv, ListInv, Listed, HoldInv, FreedInv
<1>6. Holders' = Holders /\ Allocated' = Allocated
  BY DEF ForkInsert, ChildRuns, KidInv, ProcInv, RootInv, ListInv, Listed, HoldInv, FreedInv, Holders, Allocated
<1>7. HoldInv' /\ count' = Cardinality(Allocated')
  BY <1>5, <1>6, SameReferences DEF ForkInsert, ChildRuns
<1> QED  BY <1>1, <1>2, <1>3, <1>4, <1>7

LEMMA ExecRemoveStep ==
  ASSUME TypeOK, KidInv, TInv, Orderly', ExecRemove
  PROVE  TInv'
<1> USE TrackingAssumption DEF TInv, TypeOK, procVars, listVars, taskVars
<1>1. ProcInv'
  BY DEF ExecRemove, KidInv, ProcInv, RootInv, ListInv, Listed, HoldInv, FreedInv
<1>2. RootInv'
  BY DEF ExecRemove, KidInv, ProcInv, RootInv, ListInv, Listed, HoldInv, FreedInv
<1>3. ListInv'
  BY DEF ExecRemove, KidInv, ProcInv, RootInv, ListInv, Listed, HoldInv, FreedInv
<1>4. FreedInv'
  BY DEF ExecRemove, KidInv, ProcInv, RootInv, ListInv, Listed, HoldInv, FreedInv
<1>5. \A q \in Procs : rb'[q] <=> obj'[q] = "alloc" /\ pst'[q] # "dead"
  BY DEF ExecRemove, KidInv, ProcInv, RootInv, ListInv, Listed, HoldInv, FreedInv
<1>6. Holders' = Holders /\ Allocated' = Allocated
  BY DEF ExecRemove, KidInv, ProcInv, RootInv, ListInv, Listed, HoldInv, FreedInv, Holders, Allocated
<1>7. HoldInv' /\ count' = Cardinality(Allocated')
  BY <1>5, <1>6, SameReferences DEF ExecRemove
<1> QED  BY <1>1, <1>2, <1>3, <1>4, <1>7

LEMMA ExecInsertStep ==
  ASSUME TypeOK, KidInv, TInv, Orderly', ExecInsert
  PROVE  TInv'
<1> USE TrackingAssumption DEF TInv, TypeOK, procVars, listVars, taskVars
<1>1. ProcInv'
  BY DEF ExecInsert, KidInv, ProcInv, RootInv, ListInv, Listed, HoldInv, FreedInv
<1>2. RootInv'
  BY DEF ExecInsert, KidInv, ProcInv, RootInv, ListInv, Listed, HoldInv, FreedInv
<1>3. ListInv'
  BY DEF ExecInsert, KidInv, ProcInv, RootInv, ListInv, Listed, HoldInv, FreedInv
<1>4. FreedInv'
  BY DEF ExecInsert, KidInv, ProcInv, RootInv, ListInv, Listed, HoldInv, FreedInv
<1>5. \A q \in Procs : rb'[q] <=> obj'[q] = "alloc" /\ pst'[q] # "dead"
  BY DEF ExecInsert, KidInv, ProcInv, RootInv, ListInv, Listed, HoldInv, FreedInv
<1>6. Holders' = Holders /\ Allocated' = Allocated
  BY DEF ExecInsert, KidInv, ProcInv, RootInv, ListInv, Listed, HoldInv, FreedInv, Holders, Allocated
<1>7. HoldInv' /\ count' = Cardinality(Allocated')
  BY <1>5, <1>6, SameReferences DEF ExecInsert
<1> QED  BY <1>1, <1>2, <1>3, <1>4, <1>7

LEMMA MigrateNotFoundStep ==
  ASSUME TypeOK, KidInv, TInv, Orderly', NEW p \in Procs, NEW c \in CPUs, MigrateNotFound(p, c)
  PROVE  TInv'
<1> USE TrackingAssumption DEF TInv, TypeOK, procVars, listVars, taskVars
<1>1. ProcInv'
  BY DEF MigrateNotFound, Movable, KidInv, ProcInv, RootInv, ListInv, Listed, HoldInv, FreedInv
<1>2. RootInv'
  BY DEF MigrateNotFound, Movable, KidInv, ProcInv, RootInv, ListInv, Listed, HoldInv, FreedInv
<1>3. ListInv'
  BY DEF MigrateNotFound, Movable, KidInv, ProcInv, RootInv, ListInv, Listed, HoldInv, FreedInv
<1>4. FreedInv'
  BY DEF MigrateNotFound, Movable, KidInv, ProcInv, RootInv, ListInv, Listed, HoldInv, FreedInv
<1>5. \A q \in Procs : rb'[q] <=> obj'[q] = "alloc" /\ pst'[q] # "dead"
  BY DEF MigrateNotFound, Movable, KidInv, ProcInv, RootInv, ListInv, Listed, HoldInv, FreedInv
<1>6. Holders' = Holders /\ Allocated' = Allocated
  BY DEF MigrateNotFound, Movable, KidInv, ProcInv, RootInv, ListInv, Listed, HoldInv, FreedInv, Holders, Allocated
<1>7. HoldInv' /\ count' = Cardinality(Allocated')
  BY <1>5, <1>6, SameReferences DEF MigrateNotFound, Movable
<1> QED  BY <1>1, <1>2, <1>3, <1>4, <1>7

LEMMA MigrateRemoveStep ==
  ASSUME TypeOK, KidInv, TInv, Orderly', NEW p \in Procs, NEW c \in CPUs, MigrateRemove(p, c)
  PROVE  TInv'
<1> USE TrackingAssumption DEF TInv, TypeOK, procVars, listVars, taskVars
<1>1. ProcInv'
  BY DEF MigrateRemove, Movable, KidInv, ProcInv, RootInv, ListInv, Listed, HoldInv, FreedInv
<1>2. RootInv'
  BY DEF MigrateRemove, Movable, KidInv, ProcInv, RootInv, ListInv, Listed, HoldInv, FreedInv
<1>3. ListInv'
  BY DEF MigrateRemove, Movable, KidInv, ProcInv, RootInv, ListInv, Listed, HoldInv, FreedInv
<1>4. FreedInv'
  BY DEF MigrateRemove, Movable, KidInv, ProcInv, RootInv, ListInv, Listed, HoldInv, FreedInv
<1>5. \A q \in Procs : rb'[q] <=> obj'[q] = "alloc" /\ pst'[q] # "dead"
  BY DEF MigrateRemove, Movable, KidInv, ProcInv, RootInv, ListInv, Listed, HoldInv, FreedInv
<1>6. Holders' = Holders /\ Allocated' = Allocated
  BY DEF MigrateRemove, Movable, KidInv, ProcInv, RootInv, ListInv, Listed, HoldInv, FreedInv, Holders, Allocated
<1>7. HoldInv' /\ count' = Cardinality(Allocated')
  BY <1>5, <1>6, SameReferences DEF MigrateRemove, Movable
<1> QED  BY <1>1, <1>2, <1>3, <1>4, <1>7

LEMMA MigrateInsertStep ==
  ASSUME TypeOK, KidInv, TInv, Orderly', NEW p \in Procs, MigrateInsert(p)
  PROVE  TInv'
<1> USE TrackingAssumption DEF TInv, TypeOK, procVars, listVars, taskVars
<1>1. ProcInv'
  BY DEF MigrateInsert, KidInv, ProcInv, RootInv, ListInv, Listed, HoldInv, FreedInv
<1>2. RootInv'
  BY DEF MigrateInsert, KidInv, ProcInv, RootInv, ListInv, Listed, HoldInv, FreedInv
<1>3. ListInv'
  BY DEF MigrateInsert, KidInv, ProcInv, RootInv, ListInv, Listed, HoldInv, FreedInv
<1>4. FreedInv'
  BY DEF MigrateInsert, KidInv, ProcInv, RootInv, ListInv, Listed, HoldInv, FreedInv
<1>5. \A q \in Procs : rb'[q] <=> obj'[q] = "alloc" /\ pst'[q] # "dead"
  BY DEF MigrateInsert, KidInv, ProcInv, RootInv, ListInv, Listed, HoldInv, FreedInv
<1>6. Holders' = Holders /\ Allocated' = Allocated
  BY DEF MigrateInsert, KidInv, ProcInv, RootInv, ListInv, Listed, HoldInv, FreedInv, Holders, Allocated
<1>7. HoldInv' /\ count' = Cardinality(Allocated')
  BY <1>5, <1>6, SameReferences DEF MigrateInsert
<1> QED  BY <1>1, <1>2, <1>3, <1>4, <1>7

LEMMA ExitCpuStep ==
  ASSUME TypeOK, KidInv, TInv, Orderly', NEW p \in Procs, ExitCpu(p)
  PROVE  TInv'
<1> USE TrackingAssumption DEF TInv, TypeOK, procVars, listVars, taskVars
<1>1. ProcInv'
  BY DEF ExitCpu, Exits, KidInv, ProcInv, RootInv, ListInv, Listed, HoldInv, FreedInv
<1>2. RootInv'
  BY DEF ExitCpu, Exits, KidInv, ProcInv, RootInv, ListInv, Listed, HoldInv, FreedInv
<1>3. ListInv'
  BY DEF ExitCpu, Exits, KidInv, ProcInv, RootInv, ListInv, Listed, HoldInv, FreedInv
<1>4. FreedInv'
  BY DEF ExitCpu, Exits, KidInv, ProcInv, RootInv, ListInv, Listed, HoldInv, FreedInv
<1>5. \A q \in Procs : rb'[q] <=> obj'[q] = "alloc" /\ pst'[q] # "dead"
  BY DEF ExitCpu, Exits, KidInv, ProcInv, RootInv, ListInv, Listed, HoldInv, FreedInv
<1>6. Holders' = Holders /\ Allocated' = Allocated
  BY DEF ExitCpu, Exits, KidInv, ProcInv, RootInv, ListInv, Listed, HoldInv, FreedInv, Holders, Allocated
<1>7. HoldInv' /\ count' = Cardinality(Allocated')
  BY <1>5, <1>6, SameReferences DEF ExitCpu, Exits
<1> QED  BY <1>1, <1>2, <1>3, <1>4, <1>7

LEMMA ExitWaitStep ==
  ASSUME TypeOK, KidInv, TInv, Orderly', NEW p \in Procs, ExitWait(p)
  PROVE  TInv'
<1> USE TrackingAssumption DEF TInv, TypeOK, procVars, listVars, taskVars
<1>1. ProcInv'
  BY DEF ExitWait, Exits, KidInv, ProcInv, RootInv, ListInv, Listed, HoldInv, FreedInv
<1>2. RootInv'
  BY DEF ExitWait, Exits, KidInv, ProcInv, RootInv, ListInv, Listed, HoldInv, FreedInv
<1>3. ListInv'
  BY DEF ExitWait, Exits, KidInv, ProcInv, RootInv, ListInv, Listed, HoldInv, FreedInv
<1>4. FreedInv'
  BY DEF ExitWait, Exits, KidInv, ProcInv, RootInv, ListInv, Listed, HoldInv, FreedInv
<1>5. \A q \in Procs : rb'[q] <=> obj'[q] = "alloc" /\ pst'[q] # "dead"
  BY DEF ExitWait, Exits, KidInv, ProcInv, RootInv, ListInv, Listed, HoldInv, FreedInv
<1>6. Holders' = Holders /\ Allocated' = Allocated
  BY DEF ExitWait, Exits, KidInv, ProcInv, RootInv, ListInv, Listed, HoldInv, FreedInv, Holders, Allocated
<1>7. HoldInv' /\ count' = Cardinality(Allocated')
  BY <1>5, <1>6, SameReferences DEF ExitWait, Exits
<1> QED  BY <1>1, <1>2, <1>3, <1>4, <1>7

LEMMA ExitNotFoundStep ==
  ASSUME TypeOK, KidInv, TInv, Orderly', NEW p \in Procs, ExitNotFound(p)
  PROVE  TInv'
<1> USE TrackingAssumption DEF TInv, TypeOK, procVars, listVars, taskVars
<1>1. ProcInv'
  BY DEF ExitNotFound, Exits, KidInv, ProcInv, RootInv, ListInv, Listed, HoldInv, FreedInv
<1>2. RootInv'
  BY DEF ExitNotFound, Exits, KidInv, ProcInv, RootInv, ListInv, Listed, HoldInv, FreedInv
<1>3. ListInv'
  BY DEF ExitNotFound, Exits, KidInv, ProcInv, RootInv, ListInv, Listed, HoldInv, FreedInv
<1>4. FreedInv'
  BY DEF ExitNotFound, Exits, KidInv, ProcInv, RootInv, ListInv, Listed, HoldInv, FreedInv
<1>5. \A q \in Procs : rb'[q] <=> obj'[q] = "alloc" /\ pst'[q] # "dead"
  BY DEF ExitNotFound, Exits, KidInv, ProcInv, RootInv, ListInv, Listed, HoldInv, FreedInv
<1>6. Holders' = Holders /\ Allocated' = Allocated
  BY DEF ExitNotFound, Exits, KidInv, ProcInv, RootInv, ListInv, Listed, HoldInv, FreedInv, Holders, Allocated
<1>7. HoldInv' /\ count' = Cardinality(Allocated')
  BY <1>5, <1>6, SameReferences DEF ExitNotFound, Exits
<1> QED  BY <1>1, <1>2, <1>3, <1>4, <1>7

LEMMA ExitReleaseStep ==
  ASSUME TypeOK, KidInv, TInv, Orderly', NEW p \in Procs, ExitRelease(p)
  PROVE  TInv'
<1> USE TrackingAssumption DEF TInv, TypeOK, procVars, listVars, taskVars
<1>1. ProcInv'
  BY DEF ExitRelease, KidInv, ProcInv, RootInv, ListInv, Listed, HoldInv, FreedInv
<1>2. RootInv'
  BY DEF ExitRelease, KidInv, ProcInv, RootInv, ListInv, Listed, HoldInv, FreedInv
<1>3. ListInv'
  BY DEF ExitRelease, KidInv, ProcInv, RootInv, ListInv, Listed, HoldInv, FreedInv
<1>4. FreedInv'
  BY DEF ExitRelease, KidInv, ProcInv, RootInv, ListInv, Listed, HoldInv, FreedInv
<1>5. p \in Holders /\ Holders' = Holders \ {p} /\ Allocated' = Allocated
  BY DEF ExitRelease, KidInv, ProcInv, RootInv, ListInv, Listed, HoldInv, FreedInv, Holders, Allocated
<1>6. Cardinality(Holders') = Cardinality(Holders) - 1
  <2>1. Holders \in SUBSET Procs
    BY DEF Holders
  <2> QED  BY <2>1, <1>5, CountRemove
<1>7. HoldInv' /\ count' = Cardinality(Allocated')
  BY <1>5, <1>6 DEF ExitRelease, HoldInv
<1> QED  BY <1>1, <1>2, <1>3, <1>4, <1>7

LEMMA ExitEndStep ==
  ASSUME TypeOK, KidInv, TInv, Orderly', NEW p \in Procs, ExitEnd(p)
  PROVE  TInv'
<1> USE TrackingAssumption DEF TInv, TypeOK, procVars, listVars, taskVars
<1>1. ProcInv'
  BY DEF ExitEnd, KidInv, ProcInv, RootInv, ListInv, Listed, HoldInv, FreedInv
<1>2. RootInv'
  BY DEF ExitEnd, KidInv, ProcInv, RootInv, ListInv, Listed, HoldInv, FreedInv
<1>3. ListInv'
  BY DEF ExitEnd, KidInv, ProcInv, RootInv, ListInv, Listed, HoldInv, FreedInv
<1>4. FreedInv'
  BY DEF ExitEnd, KidInv, ProcInv, RootInv, ListInv, Listed, HoldInv, FreedInv
<1>5. \A q \in Procs : rb'[q] <=> obj'[q] = "alloc" /\ pst'[q] # "dead"
  BY DEF ExitEnd, KidInv, ProcInv, RootInv, ListInv, Listed, HoldInv, FreedInv
<1>6. Holders' = Holders /\ Allocated' = Allocated
  BY DEF ExitEnd, KidInv, ProcInv, RootInv, ListInv, Listed, HoldInv, FreedInv, Holders, Allocated
<1>7. HoldInv' /\ count' = Cardinality(Allocated')
  BY <1>5, <1>6, SameReferences DEF ExitEnd
<1> QED  BY <1>1, <1>2, <1>3, <1>4, <1>7

LEMMA RegisterStep ==
  ASSUME TypeOK, KidInv, TInv, Orderly', Register
  PROVE  TInv'
<1> USE TrackingAssumption DEF TInv, TypeOK, procVars, listVars, taskVars
<1>1. ProcInv'
  BY DEF Register, KidInv, ProcInv, RootInv, ListInv, Listed, HoldInv, FreedInv
<1>2. RootInv'
  BY DEF Register, KidInv, ProcInv, RootInv, ListInv, Listed, HoldInv, FreedInv
<1>3. ListInv'
  BY DEF Register, KidInv, ProcInv, RootInv, ListInv, Listed, HoldInv, FreedInv
<1>4. FreedInv'
  BY DEF Register, KidInv, ProcInv, RootInv, ListInv, Listed, HoldInv, FreedInv
<1>5. \A q \in Procs : rb'[q] <=> obj'[q] = "alloc" /\ pst'[q] # "dead"
  BY DEF Register, KidInv, ProcInv, RootInv, ListInv, Listed, HoldInv, FreedInv
<1>6. Holders = {} /\ Holders' = {Root} /\ Allocated' = {Root}
  BY DEF Register, KidInv, ProcInv, RootInv, ListInv, Listed, HoldInv, FreedInv, Holders, Allocated
<1>7. Cardinality(Holders) = 0 /\ Cardinality(Holders') = 1 /\ Cardinality(Allocated') = 1
  BY <1>6, FS_EmptySet, FS_Singleton
<1>8. HoldInv' /\ count' = Cardinality(Allocated')
  BY <1>5, <1>7 DEF Register, HoldInv
<1> QED  BY <1>1, <1>2, <1>3, <1>4, <1>8

LEMMA HangupStep ==
  ASSUME TypeOK, KidInv, TInv, Orderly', Hangup
  PROVE  TInv'
<1> USE TrackingAssumption DEF TInv, TypeOK, procVars, listVars, taskVars
<1>1. ProcInv'
  BY DEF Hangup, KidInv, ProcInv, RootInv, ListInv, Listed, HoldInv, FreedInv
<1>2. RootInv'
  BY DEF Hangup, KidInv, ProcInv, RootInv, ListInv, Listed, HoldInv, FreedInv
<1>3. ListInv'
  BY DEF Hangup, KidInv, ProcInv, RootInv, ListInv, Listed, HoldInv, FreedInv
<1>4. FreedInv'
  BY DEF Hangup, KidInv, ProcInv, RootInv, ListInv, Listed, HoldInv, FreedInv
<1>5. Holders' = Holders /\ Allocated' = Allocated
  BY DEF Hangup, Holders, Allocated
<1>6. Holders = {}
  <2>1. Cardinality(Holders) <= 0 /\ Holders \in SUBSET Procs
    BY DEF Hangup, HoldInv, Holders
  <2> QED  BY <2>1, CountNat
<1>7. HoldInv' /\ count' = Cardinality(Allocated')
  BY <1>5, <1>6 DEF Hangup, HoldInv
<1> QED  BY <1>1, <1>2, <1>3, <1>4, <1>7

LEMMA DrainedStep ==
  ASSUME TypeOK, KidInv, TInv, Orderly', Drained
  PROVE  TInv'
<1> USE TrackingAssumption DEF TInv, TypeOK, procVars, listVars, taskVars
<1>1. ProcInv'
  BY DEF Drained, KidInv, ProcInv, RootInv, ListInv, Listed, HoldInv, FreedInv
<1>2. RootInv'
  BY DEF Drained, KidInv, ProcInv, RootInv, ListInv, Listed, HoldInv, FreedInv
<1>3. ListInv'
  BY DEF Drained, KidInv, ProcInv, RootInv, ListInv, Listed, HoldInv, FreedInv
<1>4. FreedInv'
  BY DEF Drained, KidInv, ProcInv, RootInv, ListInv, Listed, HoldInv, FreedInv
<1>5. Holders' = Holders /\ Allocated' = Allocated
  BY DEF Drained, Holders, Allocated
<1>6. Holders = {}
  <2>1. Cardinality(Holders) <= 0 /\ Holders \in SUBSET Procs
    BY DEF Drained, HoldInv, Holders
  <2> QED  BY <2>1, CountNat
<1>7. HoldInv' /\ count' = Cardinality(Allocated')
  BY <1>5, <1>6 DEF Drained, HoldInv
<1> QED  BY <1>1, <1>2, <1>3, <1>4, <1>7

LEMMA InterruptedStep ==
  ASSUME TypeOK, KidInv, TInv, Orderly', Interrupted
  PROVE  TInv'
<1> USE TrackingAssumption DEF TInv, TypeOK, procVars, listVars, taskVars
<1>1. ProcInv'
  BY DEF Interrupted, KidInv, ProcInv, RootInv, ListInv, Listed, HoldInv, FreedInv, Orderly
<1>2. RootInv'
  BY DEF Interrupted, KidInv, ProcInv, RootInv, ListInv, Listed, HoldInv, FreedInv, Orderly
<1>3. ListInv'
  BY DEF Interrupted, KidInv, ProcInv, RootInv, ListInv, Listed, HoldInv, FreedInv, Orderly
<1>4. FreedInv'
  BY DEF Interrupted, KidInv, ProcInv, RootInv, ListInv, Listed, HoldInv, FreedInv, Orderly
<1>5. Holders' = Holders /\ Allocated' = Allocated
  BY DEF Interrupted, Holders, Allocated
<1>6. HoldInv' /\ count' = Cardinality(Allocated')
  BY <1>5 DEF Interrupted, HoldInv, Orderly
<1> QED  BY <1>1, <1>2, <1>3, <1>4, <1>6

LEMMA WaitRootStep ==
  ASSUME TypeOK, KidInv, TInv, Orderly', WaitRoot
  PROVE  TInv'
<1> USE TrackingAssumption DEF TInv, TypeOK, procVars, listVars, taskVars
<1>1. ProcInv'
  BY DEF WaitRoot, KidInv, ProcInv, RootInv, ListInv, Listed, HoldInv, FreedInv
<1>2. RootInv'
  BY DEF WaitRoot, KidInv, ProcInv, RootInv, ListInv, Listed, HoldInv, FreedInv
<1>3. ListInv'
  BY DEF WaitRoot, KidInv, ProcInv, RootInv, ListInv, Listed, HoldInv, FreedInv
<1>4. FreedInv'
  BY DEF WaitRoot, KidInv, ProcInv, RootInv, ListInv, Listed, HoldInv, FreedInv
<1>5. Holders' = Holders /\ Allocated' = Allocated
  BY DEF WaitRoot, Holders, Allocated
<1>6. HoldInv' /\ count' = Cardinality(Allocated')
  BY <1>5 DEF WaitRoot, HoldInv
<1> QED  BY <1>1, <1>2, <1>3, <1>4, <1>6

LEMMA UnregisterChildStep ==
  ASSUME TypeOK, KidInv, TInv, Orderly', NEW c \in Procs, UnregisterChild(c)
  PROVE  TInv'
<1> USE TrackingAssumption DEF TInv, TypeOK, procVars, listVars, taskVars
<1>1. ProcInv'
  <2>1. c # Root /\ obj[c] = "alloc" /\ inherit
    BY DEF UnregisterChild, smon_destroy_task, RootInv
  <2>2. c \notin Holders /\ (pst[c] = "dead" \/ pc[c] = "null")
    BY <2>1 DEF UnregisterChild, smon_destroy_task, HoldInv, Holders
  <2>3. \A q \in Procs : kid[q] # c
    BY <2>2 DEF ProcInv, KidInv
  <2>4. \A q \in Procs \ {c} : obj'[q] = obj[q]
    BY DEF UnregisterChild, smon_destroy_task
  <2>5. obj'[c] = "freed" /\ UNCHANGED <<procVars, listVars>>
    BY DEF UnregisterChild, smon_destroy_task
  <2> QED  BY <2>1, <2>2, <2>3, <2>4, <2>5 DEF ProcInv, KidInv
<1>2. RootInv'
  BY DEF UnregisterChild, smon_destroy_task, KidInv, ProcInv, RootInv, ListInv, Listed, HoldInv,
         FreedInv, Holders
<1>3. ListInv'
  BY DEF UnregisterChild, smon_destroy_task, KidInv, ProcInv, RootInv, ListInv, Listed, HoldInv,
         FreedInv, Holders
<1>4. FreedInv'
  BY DEF UnregisterChild, smon_destroy_task, KidInv, ProcInv, RootInv, ListInv, Listed, HoldInv,
         FreedInv, Holders
<1>5. \A q \in Procs : rb'[q] <=> obj'[q] = "alloc" /\ pst'[q] # "dead"
  BY DEF UnregisterChild, smon_destroy_task, KidInv, ProcInv, RootInv, ListInv, Listed, HoldInv, FreedInv
<1>6. Holders' \subseteq Holders /\ c \in Allocated /\ Allocated' = Allocated \ {c}
  BY DEF UnregisterChild, smon_destroy_task, KidInv, ProcInv, RootInv, ListInv, Listed, HoldInv, FreedInv, Holders, Allocated
<1>7. Cardinality(Allocated') = Cardinality(Allocated) - 1
  <2>1. Allocated \in SUBSET Procs
    BY DEF Allocated
  <2> QED  BY <2>1, <1>6, CountRemove
<1>8. HoldInv' /\ count' = Cardinality(Allocated')
  BY <1>5, <1>6, <1>7 DEF UnregisterChild, smon_destroy_task, HoldInv
<1> QED  BY <1>1, <1>2, <1>3, <1>4, <1>8

LEMMA UnregisterRootStep ==
  ASSUME TypeOK, KidInv, TInv, Orderly', UnregisterRoot
  PROVE  TInv'
<1> USE TrackingAssumption DEF TInv, TypeOK, procVars, listVars, taskVars
<1>1. ProcInv'
  BY DEF UnregisterRoot, smon_destroy_task, KidInv, ProcInv, RootInv, ListInv, Listed, HoldInv,
         FreedInv
<1>2. RootInv'
  BY DEF UnregisterRoot, smon_destroy_task, KidInv, ProcInv, RootInv, ListInv, Listed, HoldInv,
         FreedInv
<1>3. ListInv'
  BY DEF UnregisterRoot, smon_destroy_task, KidInv, ProcInv, RootInv, ListInv, Listed, HoldInv,
         FreedInv
<1>4. FreedInv'
  BY DEF UnregisterRoot, smon_destroy_task, KidInv, ProcInv, RootInv, ListInv, Listed, HoldInv,
         FreedInv
<1>5. \A q \in Procs : rb'[q] <=> obj'[q] = "alloc" /\ pst'[q] # "dead"
  BY DEF UnregisterRoot, smon_destroy_task, KidInv, ProcInv, RootInv, ListInv, Listed, HoldInv, FreedInv
<1>6. Holders' \subseteq Holders /\ Root \in Allocated /\ Allocated' = Allocated \ {Root}
  BY DEF UnregisterRoot, smon_destroy_task, KidInv, ProcInv, RootInv, ListInv, Listed, HoldInv, FreedInv, Holders, Allocated
<1>7. Cardinality(Allocated') = Cardinality(Allocated) - 1
  <2>1. Allocated \in SUBSET Procs
    BY DEF Allocated
  <2> QED  BY <2>1, <1>6, CountRemove
<1>8. HoldInv' /\ count' = Cardinality(Allocated')
  BY <1>5, <1>6, <1>7 DEF UnregisterRoot, smon_destroy_task, HoldInv
<1> QED  BY <1>1, <1>2, <1>3, <1>4, <1>8

LEMMA MunmapStep ==
  ASSUME TypeOK, KidInv, TInv, Orderly', Munmap
  PROVE  TInv'
<1> USE TrackingAssumption DEF TInv, TypeOK, procVars, listVars, taskVars
<1>1. ProcInv'
  BY DEF Munmap, KidInv, ProcInv, RootInv, ListInv, Listed, HoldInv, FreedInv
<1>2. RootInv'
  BY DEF Munmap, KidInv, ProcInv, RootInv, ListInv, Listed, HoldInv, FreedInv
<1>3. ListInv'
  BY DEF Munmap, KidInv, ProcInv, RootInv, ListInv, Listed, HoldInv, FreedInv
<1>4. FreedInv'
  BY DEF Munmap, KidInv, ProcInv, RootInv, ListInv, Listed, HoldInv, FreedInv
<1>5. Holders' = Holders /\ Allocated' = Allocated
  BY DEF Munmap, Holders, Allocated
<1>6. HoldInv' /\ count' = Cardinality(Allocated')
  BY <1>5 DEF Munmap, HoldInv
<1> QED  BY <1>1, <1>2, <1>3, <1>4, <1>6

-----------------------------------------------------------------------------
(* Theorems.                                                               *)

LEMMA TrackingInit == Init => IInv
<1> SUFFICES ASSUME Init
             PROVE  IInv
  OBVIOUS
<1>1. TypeOK
  <2>1. pcpu \in [Procs -> CPUs]
    BY DEF Init
  <2>2. rb \in [Procs -> BOOLEAN] /\ signalled \in BOOLEAN /\ inherit \in BOOLEAN
    BY DEF Init
  <2> QED  BY <2>1, <2>2 DEF Init, TypeOK
<1>2. KidInv
  BY DEF Init, KidInv
<1>3. ProcInv /\ RootInv /\ ListInv /\ FreedInv
  BY TrackingAssumption DEF Init, ProcInv, RootInv, ListInv, Listed, FreedInv
<1>4. Holders = {} /\ Allocated = {}
  BY DEF Init, Holders, Allocated
<1>5. HoldInv /\ count = Cardinality(Allocated)
  BY <1>4, FS_EmptySet DEF Init, HoldInv
<1> QED  BY <1>1, <1>2, <1>3, <1>5 DEF IInv, TInv

LEMMA TrackingStep == IInv /\ [Next]_vars => IInv'
<1> SUFFICES ASSUME IInv, [Next]_vars
             PROVE  IInv'
  OBVIOUS
<1>1. TypeOK' /\ KidInv'
  BY TypeStep DEF IInv
<1>2. ASSUME Orderly'
      PROVE  TInv'
  <2>1. TypeOK /\ KidInv /\ TInv
    BY <1>2, OrderlyBefore DEF IInv
  <2>2. CASE UNCHANGED vars
    BY <2>1, <2>2 DEF vars, procVars, listVars, taskVars, TInv, ProcInv, RootInv, ListInv, Listed, HoldInv,
                      Holders, FreedInv, Allocated
  <2>3. CASE \E p \in Procs : ProcStep(p)
    BY <1>2, <2>1, <2>3, CopyStep, ForkNotInheritedStep, ForkNoMemoryStep, ForkSameCpuStep, ForkOtherCpuStep, ForkInsertStep,
       MigrateNotFoundStep, MigrateRemoveStep, MigrateInsertStep, ExitCpuStep, ExitWaitStep, ExitNotFoundStep,
       ExitReleaseStep, ExitEndStep
    DEF ProcStep, HookGoesOn
  <2>4. CASE ExecRemove \/ ExecInsert
    BY <1>2, <2>1, <2>4, ExecRemoveStep, ExecInsertStep
  <2>5. CASE ToolStep \/ Interrupted
    BY <1>2, <2>1, <2>5, RegisterStep, HangupStep, DrainedStep, WaitRootStep, UnregisterRootStep, MunmapStep,
       UnregisterChildStep, InterruptedStep
    DEF ToolStep
  <2> QED  BY <2>2, <2>3, <2>4, <2>5 DEF Next, Over
<1> QED  BY <1>1, <1>2 DEF IInv

LEMMA TrackingInvariant == Spec => []IInv
BY TrackingInit, TrackingStep, PTL DEF Spec

\* The hooks and the tool keep the lists, the tasks and the references in their types, in
\* every session.
THEOREM TrackingTypeCorrect == Spec => []TypeOK
<1>1. IInv => TypeOK
  BY DEF IInv
<1> QED  BY <1>1, TrackingInvariant, PTL

\* Whatever fork, exec and migration hooks race, smon_sched_switch finds a live monitored process
\* on the list of its CPU, or on wait_list before its exec, and on no other.
THEOREM ProcessesFollowed == Spec => []Followed
<1>1. IInv => Followed
  BY DEF IInv, TypeOK, TInv, ProcInv, ListInv, Listed, FreedInv, Followed
<1> QED  BY <1>1, TrackingInvariant, PTL

\* No list holds a task that smon_destroy_task has freed.
THEOREM ListsAllocated == Spec => []ListsHoldLiveTasks
<1>1. IInv => ListsHoldLiveTasks
  BY DEF IInv, TypeOK, TInv, ListInv, Listed, ListsHoldLiveTasks
<1> QED  BY <1>1, TrackingInvariant, PTL

\* smon_unset_task frees no task before its exit hook has released the ring buffer.
THEOREM FreesComeLate == Spec => []FreedAfterRelease
<1>1. IInv => FreedAfterRelease
  BY DEF IInv, TInv, FreedInv, FreedAfterRelease
<1> QED  BY <1>1, TrackingInvariant, PTL

\* envir->count, on which smon_release_envir frees the environment, is the number of tasks.
THEOREM EnvirCountsTasks == Spec => []EnvirCount
<1>1. IInv => EnvirCount
  BY DEF IInv, TInv, Allocated, EnvirCount
<1> QED  BY <1>1, TrackingInvariant, PTL

=============================================================================
