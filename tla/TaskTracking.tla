---------------------------- MODULE TaskTracking ----------------------------
(***************************************************************************)
(* How the driver follows the monitored processes (src/driver/sched.c,     *)
(* src/driver/task.c, src/driver/envir.c): the list of tasks that wait for *)
(* their exec, a list of tasks for each CPU, the children of each task,    *)
(* the references that tasks hold on the environment and on the ring       *)
(* buffer, and the tool's session that registers and unregisters the root  *)
(* (src/tool/src/profile.c).                                               *)
(*                                                                         *)
(* The kernel calls the hooks (tracepoints): fork, exec and exit on the    *)
(* process's own CPU, with preemption off; migrate while the process does  *)
(* not run, before its CPU changes.  So the hooks of one process exclude   *)
(* each other, and those of different processes run in any order.  Each    *)
(* section under a list lock is a step; a hook that keeps one lock while   *)
(* it does more, or that leaves the lists in between, takes several.       *)
(*                                                                         *)
(* What the hooks write into the ring buffer is SampleChannel's matter.    *)
(***************************************************************************)
EXTENDS Integers, FiniteSets

CONSTANTS
  Procs,       \* processes of a session
  Root,        \* the one the tool forks and registers
  CPUs,
  None

ASSUME TrackingAssumption ==
  /\ Root \in Procs /\ IsFiniteSet(Procs)
  /\ CPUs # {}
  /\ None \notin Procs \cup CPUs

VARIABLES
  pst,        \* process: none, new (copied, does not run yet), live, dead
  pcpu,       \* task_cpu(p)
  pc,         \* hook the process is in: idle, copied, fork, exec, release, null
  kid,        \* child of the fork in progress
  mig,        \* destination of the migration in progress
  cpu_list,   \* sched.cpu_list
  wait_list,  \* sched.wait_list
  cpu_lock,   \* sched.cpu_lock[c] is held across steps by this process
  wait_lock,  \* so is sched.wait_lock
  obj,        \* the struct smon_task of a process: none, alloc, freed
  rb,         \* task->rb is set
  children,   \* task->children
  task_list,  \* sched.task_list
  active,     \* rb->active
  count,      \* envir->count
  inherit,    \* ENVOP_INH of the session
  eof,        \* the EOF record: none yet, written, or lost for want of space
  tool,       \* register, sampling, polls (forever), wait, unset, munmap, end
  signalled   \* a signal has ended the sampling

procVars == <<pst, pcpu, pc, kid, mig, inherit>>
listVars == <<cpu_list, wait_list, cpu_lock, wait_lock>>
taskVars == <<obj, rb, children, task_list, active, count, eof>>
vars     == <<procVars, listVars, taskVars, tool, signalled>>

Free(c) == cpu_lock[c] = None

-----------------------------------------------------------------------------
(* Task objects.                                                           *)

\* smon_create_child: the object, its reference on the ring buffer (smon_get_rb)
\* and on the environment (smon_get_envir), and the parent's list.
smon_create_child(p, c) ==
  /\ obj'      = [obj EXCEPT ![c] = "alloc"]
  /\ rb'       = [rb EXCEPT ![c] = TRUE]
  /\ children' = [children EXCEPT ![p] = @ \cup {c}]
  /\ active'   = active + 1
  /\ count'    = count + 1

\* smon_destroy_task: release what the task still holds and free it.
smon_destroy_task_KeepEnvir(t) ==
  /\ obj'    = [obj EXCEPT ![t] = "freed"]
  /\ rb'     = [rb EXCEPT ![t] = FALSE]
  /\ active' = IF rb[t] THEN active - 1 ELSE active
  /\ count'  = count

smon_destroy_task(t) ==
  /\ obj'    = [obj EXCEPT ![t] = "freed"]
  /\ rb'     = [rb EXCEPT ![t] = FALSE]
  /\ active' = IF rb[t] THEN active - 1 ELSE active
  /\ count'  = count - 1

-----------------------------------------------------------------------------
(* Fork.                                                                   *)

\* copy_process: the child gets the CPU the parent is on.  The parent can still
\* be moved before the tracepoint.  The root is in sem_wait until it is registered.
Copy(p, c) ==
  /\ tool # "register"
  /\ pst[p] = "live" /\ pc[p] = "idle" /\ mig[p] = None
  /\ p \notin wait_list
  /\ pst[c] = "none"
  /\ pst'  = [pst EXCEPT ![c] = "new"]
  /\ pcpu' = [pcpu EXCEPT ![c] = pcpu[p]]
  /\ pc'   = [pc EXCEPT ![p] = "copied"]
  /\ kid'  = [kid EXCEPT ![p] = c]
  /\ UNCHANGED <<signalled, inherit, mig, listVars, taskVars, tool>>

\* The fork is over and the child can run.
ChildRuns(p) ==
  /\ pst' = [pst EXCEPT ![kid[p]] = "live"]
  /\ pc'  = [pc EXCEPT ![p] = "idle"]
  /\ kid' = [kid EXCEPT ![p] = None]

\* smon_sched_process_fork of a process that is not on the list of its CPU, or
\* whose children do not inherit monitoring.
ForkNotInherited(p) ==
  /\ pc[p] = "copied" /\ mig[p] = None /\ Free(pcpu[p])
  /\ p \notin cpu_list[pcpu[p]] \/ ~inherit
  /\ ChildRuns(p)
  /\ UNCHANGED <<signalled, inherit, pcpu, mig, listVars, taskVars, tool>>

\* smon_sched_process_fork when smon_create_child finds no memory: the child is not
\* monitored.
ForkNoMemory(p) ==
  /\ pc[p] = "copied" /\ mig[p] = None /\ Free(pcpu[p])
  /\ p \in cpu_list[pcpu[p]] /\ inherit
  /\ ChildRuns(p)
  /\ UNCHANGED <<signalled, inherit, pcpu, mig, listVars, taskVars, tool>>

\* smon_sched_process_fork, the child on the parent's CPU.  The faulty one links the
\* child into sched.task_list as well, as smon_sched_register_task does with the root.
ForkSameCpu_TaskList(p) ==
  /\ pc[p] = "copied" /\ mig[p] = None /\ Free(pcpu[p])
  /\ p \in cpu_list[pcpu[p]] /\ inherit
  /\ pcpu[kid[p]] = pcpu[p]
  /\ smon_create_child(p, kid[p])
  /\ task_list' = task_list \cup {kid[p]}
  /\ cpu_list' = [cpu_list EXCEPT ![pcpu[p]] = @ \cup {kid[p]}]
  /\ ChildRuns(p)
  /\ UNCHANGED <<signalled, inherit, pcpu, mig, wait_list, cpu_lock, wait_lock, eof, tool>>

ForkSameCpu(p) ==
  /\ pc[p] = "copied" /\ mig[p] = None /\ Free(pcpu[p])
  /\ p \in cpu_list[pcpu[p]] /\ inherit
  /\ pcpu[kid[p]] = pcpu[p]
  /\ smon_create_child(p, kid[p])
  /\ cpu_list' = [cpu_list EXCEPT ![pcpu[p]] = @ \cup {kid[p]}]
  /\ ChildRuns(p)
  /\ UNCHANGED <<signalled, inherit, pcpu, mig, wait_list, cpu_lock, wait_lock, task_list, eof, tool>>

\* smon_sched_process_fork, the child on another CPU: the parent's lock is kept
\* while the child's is taken.
ForkOtherCpu(p) ==
  /\ pc[p] = "copied" /\ mig[p] = None /\ Free(pcpu[p])
  /\ p \in cpu_list[pcpu[p]] /\ inherit
  /\ pcpu[kid[p]] # pcpu[p]
  /\ smon_create_child(p, kid[p])
  /\ cpu_lock' = [cpu_lock EXCEPT ![pcpu[p]] = p]
  /\ pc' = [pc EXCEPT ![p] = "fork"]
  /\ UNCHANGED <<signalled, inherit, pst, pcpu, kid, mig, cpu_list, wait_list, wait_lock, task_list, eof, tool>>

\* The faulty insertion takes the parent's list.
ForkInsert_ParentList(p) ==
  /\ pc[p] = "fork" /\ Free(pcpu[kid[p]])
  /\ cpu_list' = [cpu_list EXCEPT ![pcpu[p]] = @ \cup {kid[p]}]
  /\ cpu_lock' = [cpu_lock EXCEPT ![pcpu[p]] = None]
  /\ ChildRuns(p)
  /\ UNCHANGED <<signalled, inherit, pcpu, mig, wait_list, wait_lock, taskVars, tool>>

ForkInsert(p) ==
  /\ pc[p] = "fork" /\ Free(pcpu[kid[p]])
  /\ cpu_list' = [cpu_list EXCEPT ![pcpu[kid[p]]] = @ \cup {kid[p]}]
  /\ cpu_lock' = [cpu_lock EXCEPT ![pcpu[p]] = None]
  /\ ChildRuns(p)
  /\ UNCHANGED <<signalled, inherit, pcpu, mig, wait_list, wait_lock, taskVars, tool>>

-----------------------------------------------------------------------------
(* Exec and migration.                                                     *)

\* smon_sched_process_exec takes the root from wait_list, then, after the INFO
\* sample and the start of the counters, puts it on its CPU's list.
ExecRemove ==
  /\ tool # "register"
  /\ pst[Root] = "live" /\ pc[Root] = "idle" /\ mig[Root] = None
  /\ Root \in wait_list /\ wait_lock = None
  /\ wait_list' = wait_list \ {Root}
  /\ pc' = [pc EXCEPT ![Root] = "exec"]
  /\ UNCHANGED <<signalled, inherit, pst, pcpu, kid, mig, cpu_list, cpu_lock, wait_lock, taskVars, tool>>

ExecInsert ==
  /\ pc[Root] = "exec" /\ Free(pcpu[Root])
  /\ cpu_list' = [cpu_list EXCEPT ![pcpu[Root]] = @ \cup {Root}]
  /\ pc' = [pc EXCEPT ![Root] = "idle"]
  /\ UNCHANGED <<signalled, inherit, pst, pcpu, kid, mig, wait_list, cpu_lock, wait_lock, taskVars, tool>>

\* A process that does not run is moved.
Movable(p) == pst[p] = "live" /\ pc[p] \in {"idle", "copied"} /\ mig[p] = None

\* smon_sched_migrate_task of a process that is not on its CPU's list.
MigrateNotFound(p, dest_cpu) ==
  /\ Movable(p) /\ Free(pcpu[p])
  /\ p \notin cpu_list[pcpu[p]]
  /\ pcpu' = [pcpu EXCEPT ![p] = dest_cpu]
  /\ UNCHANGED <<signalled, inherit, pst, pc, kid, mig, listVars, taskVars, tool>>

\* smon_sched_migrate_task: out of the old list under the old lock, into the new
\* one under the new lock, and in no list in between.
MigrateRemove(p, dest_cpu) ==
  /\ Movable(p) /\ Free(pcpu[p])
  /\ p \in cpu_list[pcpu[p]]
  /\ cpu_list' = [cpu_list EXCEPT ![pcpu[p]] = @ \ {p}]
  /\ mig' = [mig EXCEPT ![p] = dest_cpu]
  /\ UNCHANGED <<signalled, inherit, pst, pcpu, pc, kid, wait_list, cpu_lock, wait_lock, taskVars, tool>>

MigrateInsert(p) ==
  /\ mig[p] # None /\ Free(mig[p])
  /\ cpu_list' = [cpu_list EXCEPT ![mig[p]] = @ \cup {p}]
  /\ pcpu' = [pcpu EXCEPT ![p] = mig[p]]
  /\ mig' = [mig EXCEPT ![p] = None]
  /\ UNCHANGED <<signalled, inherit, pst, pc, kid, wait_list, cpu_lock, wait_lock, taskVars, tool>>

-----------------------------------------------------------------------------
(* Exit.                                                                   *)

Exits(p) == pst[p] = "live" /\ pc[p] = "idle" /\ mig[p] = None

\* smon_sched_process_exit of a process that is on its CPU's list: list_del under
\* the lock, which is kept until the end of the hook.
ExitCpu(p) ==
  /\ Exits(p) /\ Free(pcpu[p])
  /\ p \in cpu_list[pcpu[p]]
  /\ cpu_list' = [cpu_list EXCEPT ![pcpu[p]] = @ \ {p}]
  /\ cpu_lock' = [cpu_lock EXCEPT ![pcpu[p]] = p]
  /\ pc' = [pc EXCEPT ![p] = "release"]
  /\ UNCHANGED <<signalled, inherit, pst, pcpu, kid, mig, wait_list, wait_lock, taskVars, tool>>

\* ... that is on wait_list (execv error).
ExitWait_NoRelease(p) ==
  /\ Exits(p) /\ Free(pcpu[p]) /\ tool # "register"
  /\ p \notin cpu_list[pcpu[p]] /\ p \in wait_list /\ wait_lock = None
  /\ wait_list' = wait_list \ {p}
  /\ pst' = [pst EXCEPT ![p] = "dead"]
  /\ UNCHANGED <<signalled, inherit, pcpu, pc, kid, mig, cpu_list, cpu_lock, wait_lock, taskVars, tool>>

ExitWait(p) ==
  /\ Exits(p) /\ Free(pcpu[p]) /\ tool # "register"
  /\ p \notin cpu_list[pcpu[p]] /\ p \in wait_list /\ wait_lock = None
  /\ wait_list' = wait_list \ {p}
  /\ wait_lock' = p
  /\ pc' = [pc EXCEPT ![p] = "release"]
  /\ UNCHANGED <<signalled, inherit, pst, pcpu, kid, mig, cpu_list, cpu_lock, taskVars, tool>>

\* ... that is on no list: it is not monitored.
ExitNotFound(p) ==
  /\ Exits(p) /\ Free(pcpu[p]) /\ tool # "register"
  /\ p \notin cpu_list[pcpu[p]] /\ p \notin wait_list
  /\ pst' = [pst EXCEPT ![p] = "dead"]
  /\ UNCHANGED <<signalled, inherit, pcpu, pc, kid, mig, listVars, taskVars, tool>>

\* smon_release_rb of the exit hook.  The last one writes the EOF record, which
\* smon_rb_write drops when the buffer is full.
ExitRelease(p) ==
  /\ pc[p] = "release"
  /\ active' = active - 1
  /\ IF active' = 0 THEN eof' \in {"written", "lost"} ELSE eof' = eof
  /\ pc' = [pc EXCEPT ![p] = "null"]
  /\ UNCHANGED <<signalled, inherit, pst, pcpu, kid, mig, listVars, obj, rb, children, task_list, count, tool>>

\* task->rb = NULL and the end of the hook; a process is a zombie its parent can
\* wait for after that.
ExitEnd(p) ==
  /\ pc[p] = "null"
  /\ rb' = [rb EXCEPT ![p] = FALSE]
  /\ cpu_lock' = [c \in CPUs |-> IF cpu_lock[c] = p THEN None ELSE cpu_lock[c]]
  /\ wait_lock' = IF wait_lock = p THEN None ELSE wait_lock
  /\ pc' = [pc EXCEPT ![p] = "idle"]
  /\ pst' = [pst EXCEPT ![p] = "dead"]
  /\ UNCHANGED <<signalled, inherit, pcpu, kid, mig, cpu_list, wait_list, obj, children, task_list, active,
                 count, eof, tool>>

-----------------------------------------------------------------------------
(* The tool's session.                                                     *)

\* smon_set_task: smon_create_task, task_list and wait_list.  The root is blocked
\* in sem_wait, so nothing can come in between.
Register ==
  /\ tool = "register"
  /\ obj'       = [obj EXCEPT ![Root] = "alloc"]
  /\ rb'        = [rb EXCEPT ![Root] = TRUE]
  /\ active'    = active + 1
  /\ count'     = 1
  /\ task_list' = task_list \cup {Root}
  /\ wait_list' = wait_list \cup {Root}
  /\ tool'      = "sampling"
  /\ UNCHANGED <<signalled, procVars, cpu_list, cpu_lock, wait_lock, children, eof>>

\* start_sampling ends: poll reports POLLHUP when smon_rb_is_active is false and the
\* buffer is not empty.  It is not, as long as the tool has not read the EOF record
\* or, if that was dropped, the samples for which it was.
Hangup_AnyTime ==
  /\ tool = "sampling"
  /\ tool' = "wait"
  /\ UNCHANGED <<signalled, procVars, listVars, taskVars>>

Hangup ==
  /\ tool = "sampling" /\ active <= 0
  /\ tool' = "wait"
  /\ UNCHANGED <<signalled, procVars, listVars, taskVars>>

\* A round that began as POLLIN reads the buffer empty after the EOF was dropped: poll
\* reports nothing any more.
Drained ==
  /\ tool = "sampling" /\ active <= 0 /\ eof = "lost"
  /\ tool' = "polls"
  /\ UNCHANGED <<signalled, procVars, listVars, taskVars>>

\* start_sampling ends: a signal interrupted poll.
Interrupted ==
  /\ tool \in {"sampling", "polls"}
  /\ tool' = "wait"
  /\ signalled' = TRUE
  /\ UNCHANGED <<procVars, listVars, taskVars>>

\* wait(NULL).
WaitRoot_Skipped ==
  /\ tool = "wait"
  /\ tool' = "unset"
  /\ UNCHANGED <<signalled, procVars, listVars, taskVars>>

WaitRoot ==
  /\ tool = "wait" /\ pst[Root] = "dead"
  /\ tool' = "unset"
  /\ UNCHANGED <<signalled, procVars, listVars, taskVars>>

\* smon_sched_unregister_children of the root, one child a step.
UnregisterChild(c) ==
  /\ tool = "unset" /\ Root \in task_list
  /\ c \in children[Root]
  /\ children' = [children EXCEPT ![Root] = @ \ {c}]
  /\ smon_destroy_task(c)
  /\ UNCHANGED <<signalled, procVars, listVars, task_list, eof, tool>>

\* The rest of smon_sched__unregister_task.
UnregisterRoot ==
  /\ tool = "unset" /\ Root \in task_list
  /\ children[Root] = {}
  /\ task_list' = task_list \ {Root}
  /\ smon_destroy_task(Root)
  /\ tool' = "munmap"
  /\ UNCHANGED <<signalled, procVars, listVars, children, eof>>

\* munmap: smon_vma_close destroys the ring buffer.
Munmap ==
  /\ tool = "munmap"
  /\ tool' = "end"
  /\ UNCHANGED <<signalled, procVars, listVars, taskVars>>

-----------------------------------------------------------------------------

Init ==
  /\ pst = [p \in Procs |-> IF p = Root THEN "live" ELSE "none"]
  /\ \E c \in CPUs : pcpu = [p \in Procs |-> c]
  /\ inherit \in BOOLEAN
  /\ pc = [p \in Procs |-> "idle"]
  /\ kid = [p \in Procs |-> None]
  /\ mig = [p \in Procs |-> None]
  /\ cpu_list = [c \in CPUs |-> {}] /\ wait_list = {}
  /\ cpu_lock = [c \in CPUs |-> None] /\ wait_lock = None
  /\ obj = [p \in Procs |-> "none"]
  /\ rb = [p \in Procs |-> FALSE]
  /\ children = [p \in Procs |-> {}]
  /\ task_list = {}
  /\ active = 0 /\ count = 0 /\ eof = "none"
  /\ tool = "register" /\ signalled = FALSE

\* The steps by which a hook that has started goes on.
HookGoesOn(p) ==
  \/ ForkNotInherited(p) \/ ForkNoMemory(p)
  \/ ForkSameCpu(p) \/ ForkOtherCpu(p) \/ ForkInsert(p)
  \/ MigrateInsert(p)
  \/ ExitRelease(p) \/ ExitEnd(p)

ProcStep(p) ==
  \/ \E c \in Procs : Copy(p, c)
  \/ \E c \in CPUs : c # pcpu[p] /\ (MigrateNotFound(p, c) \/ MigrateRemove(p, c))
  \/ ExitCpu(p) \/ ExitWait(p) \/ ExitNotFound(p)
  \/ HookGoesOn(p)

ToolStep ==
  \/ Register \/ Hangup \/ Drained \/ WaitRoot \/ UnregisterRoot \/ Munmap
  \/ \E c \in Procs : UnregisterChild(c)

\* Every process has ended and the session is over, or in a poll that only a signal
\* ends.
Over ==
  /\ tool \in {"end", "polls"}
  /\ \A p \in Procs : pst[p] \in {"none", "dead"}
  /\ UNCHANGED vars

Next ==
  \/ \E p \in Procs : ProcStep(p)
  \/ ExecRemove \/ ExecInsert
  \/ ToolStep \/ Interrupted
  \/ Over

\* Hooks run to their end and the tool is scheduled; the monitored processes need
\* not fork, move or exit.
Fairness ==
  /\ \A p \in Procs : WF_vars(HookGoesOn(p))
  /\ WF_vars(ExecInsert)
  /\ WF_vars(ToolStep)

Spec == Init /\ [][Next]_vars /\ Fairness

-----------------------------------------------------------------------------
(* Properties.                                                             *)

TypeOK ==
  /\ pst \in [Procs -> {"none", "new", "live", "dead"}]
  /\ pcpu \in [Procs -> CPUs]
  /\ pc \in [Procs -> {"idle", "copied", "fork", "exec", "release", "null"}]
  /\ kid \in [Procs -> Procs \cup {None}]
  /\ mig \in [Procs -> CPUs \cup {None}]
  /\ cpu_list \in [CPUs -> SUBSET Procs]
  /\ wait_list \in SUBSET Procs
  /\ cpu_lock \in [CPUs -> Procs \cup {None}]
  /\ wait_lock \in Procs \cup {None}
  /\ obj \in [Procs -> {"none", "alloc", "freed"}]
  /\ rb \in [Procs -> BOOLEAN]
  /\ children \in [Procs -> SUBSET Procs]
  /\ task_list \in SUBSET {Root}
  /\ active \in Int /\ count \in Int
  /\ eof \in {"none", "written", "lost"}
  /\ inherit \in BOOLEAN
  /\ tool \in {"register", "sampling", "polls", "wait", "unset", "munmap", "end"}
  /\ signalled \in BOOLEAN

\* A signal does not end the sampling of a session whose children inherit.  In the
\* others the tool frees tasks of children that are still alive and on lists
\* (smon_sched_unregister_children), and what the hooks do then is not defined.
Orderly == ~(signalled /\ inherit)

\* A process is followed from its registration to its exit: while no hook of its
\* own is in progress, a live monitored process is on the list of the CPU it is
\* on, or on wait_list before its exec, and on no other list: the switch hook,
\* which looks at one list only, always finds it.
Followed ==
  Orderly => \A p \in Procs :
    pst[p] = "live" /\ pc[p] \in {"idle", "copied"} /\ mig[p] = None /\ obj[p] # "none" =>
      \/ p \in wait_list /\ p = Root /\ \A c \in CPUs : p \notin cpu_list[c]
      \/ p \notin wait_list /\ \A c \in CPUs : p \in cpu_list[c] <=> c = pcpu[p]

\* A task on a list was not freed: a list walk of any hook touches live memory.
ListsHoldLiveTasks ==
  Orderly => \A p \in Procs :
    (p \in wait_list \/ \E c \in CPUs : p \in cpu_list[c]) => obj[p] = "alloc"

\* The tool frees a task only when its process has given up the ring buffer.
FreedAfterRelease ==
  Orderly => \A p \in Procs : obj[p] = "freed" => pst[p] = "dead" \/ pc[p] = "null"

\* envir->count is the number of task objects, so the environment is freed with
\* the last of them and never before.
EnvirCount == Orderly => count = Cardinality({p \in Procs : obj[p] = "alloc"})

\* Once every process has ended the session comes to its end, unless the last exit
\* hook found no space for the EOF record and the tool read the buffer empty before
\* it looked: then it stays in poll.
SessionEnds ==
  (tool # "register" /\ \A p \in Procs : pst[p] \in {"none", "dead"}) ~>
    (tool = "end" \/ (tool = "polls" /\ eof = "lost"))

\* smon.h: active is the "number of active writers".
ActiveIsANumber == Orderly => active >= 0

=============================================================================
