------------------------------ MODULE Session ------------------------------
(***************************************************************************)
(* A session of the tool from open to close (src/tool/src/profile.c,       *)
(* start_profile, and src/tool/src/driver.c), with its failures: the       *)
(* device, the output file, fork, mmap and the registration may fail, and  *)
(* signals reach the tool and its child at any point.  Against it run the  *)
(* child, up to and through its exit hook, the RAPL timer, and the driver, *)
(* which creates the ring buffer with the mapping, destroys it with it     *)
(* (src/driver/main.c, rb.c), and can be loaded and unloaded.              *)
(*                                                                         *)
(* The child does not fork: descendants are TaskTracking's matter, and the *)
(* records SampleChannel's.                                                *)
(***************************************************************************)
EXTENDS Rapl, FiniteSets

CONSTANTS
  NPages,      \* pages of the mapping
  RaplOn,      \* ENVOP_RAP
  MaxSignals   \* bound: SIGINTs from the terminal

ASSUME SessionAssumption ==
  NPages \in Nat \ {0} /\ RaplOn \in BOOLEAN /\ MaxSignals \in Nat

Pages == 0 .. NPages - 1

ToolLabels == {"start",       \* before smon_load_driver
               "opened", "fopened", "forked",
               "handler",     \* SIGINT is handled
               "mapped", "registered",
               "sampling",
               "polls",       \* in a poll that only a signal ends
               "wait", "unset", "munmap", "fclose", "close",
               "failwait",    \* mmap has failed: wait(NULL)
               "failunmap",   \* smon_set_task has failed: munmap
               "end"}

ChildStates == {"none",
                "blocked",    \* forked, up to sem_wait
                "posted",     \* behind sem_wait, before execv
                "exec",       \* in the exec hook
                "run",
                "release",    \* in the exit hook, before smon_release_rb
                "cancel",     \* in the exit hook, before hrtimer_cancel
                "zombie",
                "reaped"}

VARIABLES
  module,     \* the driver: unloaded, loaded without its device, loaded, or crashed (oops)
  tool,       \* where start_profile is
  killed,     \* the tool was ended by a signal
  child,      \* where the child is
  sigint,     \* a SIGINT is pending for the child
  sem,        \* value of the semaphore
  files,      \* who has the device's file open
  buf,        \* the ring buffer: none, alive, destroyed
  pages,      \* pages of the buffer that are allocated
  active,     \* rb->active
  stream,     \* what the buffer was given: nothing (empty), samples, then the EOF
              \* record (eof), or no EOF because it was full (lost)
  obj,        \* the struct smon_task: none, alloc, freed
  rb,         \* task->rb is set
  list,       \* list the task is on: none, wait, cpu
  stale,      \* the child was dead when it was registered (not in the code)
  signals     \* SIGINTs sent

driverVars == <<buf, pages, active, stream, obj, rb, list>>
vars == <<module, tool, killed, child, sigint, sem, files, driverVars, stale, signals, raplVars>>

Goto(a, b) == tool = a /\ tool' = b

-----------------------------------------------------------------------------
(* The driver's calls.                                                     *)

\* smon_create_rb, all pages allocated.
smon_create_rb ==
  /\ buf' = "alive"
  /\ pages' = Pages
  /\ active' = 0

\* The pages smon_destroy_rb leaves allocated: none.
smon_destroy_rb_LastPage == {NPages - 1}

smon_destroy_rb == {}

\* smon_vma_close, at munmap and when the tool's memory goes.
smon_vma_close ==
  IF buf = "alive"
    THEN buf' = "destroyed" /\ pages' = smon_destroy_rb
    ELSE UNCHANGED <<buf, pages>>

\* smon_destroy_task: the reference on the buffer is released if it is still there.
smon_destroy_task_Always ==
  /\ obj' = "freed"
  /\ rb' = FALSE
  /\ active' = active - 1

smon_destroy_task ==
  /\ obj' = "freed"
  /\ rb' = FALSE
  /\ active' = IF rb THEN active - 1 ELSE active

\* The RAPL timer is cancelled with the task's extra.
smon_sched__unregister_task ==
  /\ smon_destroy_task
  /\ CancelRapl

-----------------------------------------------------------------------------
(* The driver as a module.                                                 *)

\* smon_init.  A device that cannot be added is only logged (smon_setup_cdev); any
\* other failure is undone, and the module stays unloaded.
Load ==
  /\ module = "unloaded" /\ tool = "start"
  /\ module' \in {"loaded", "nodevice"}
  /\ UNCHANGED <<tool, killed, child, sigint, sem, files, driverVars, stale, signals, raplVars>>

\* smon_exit, which the kernel allows when no file is open: smon_sched_exit takes the
\* tasks from the CPUs' lists and unregisters those of task_list.  A task that still holds
\* a destroyed buffer is the matter of BufferUsedLate.  smon_exit does not wait for a hook
\* in progress; nothing can be said of what that hook does then.
Unload_NoSchedExit ==
  /\ module # "unloaded" /\ files = {}
  /\ module' = "unloaded"
  /\ UNCHANGED <<tool, killed, child, sigint, sem, files, driverVars, stale, signals, raplVars>>

Unload ==
  /\ module # "unloaded" /\ files = {}
  /\ child \notin {"exec", "release", "cancel"}
  /\ rb => buf = "alive"
  /\ module' = "unloaded"
  /\ list' = IF list = "cpu" THEN "none" ELSE list
  /\ IF obj = "alloc"
       THEN smon_sched__unregister_task
       ELSE UNCHANGED <<obj, rb, active, raplVars>>
  /\ UNCHANGED <<tool, killed, child, sigint, sem, files, buf, pages, stream, stale, signals>>

-----------------------------------------------------------------------------
(* The tool.                                                               *)

\* smon_load_driver.
Open ==
  /\ Goto("start", "opened")
  /\ module = "loaded"
  /\ files' = files \cup {"tool"}
  /\ UNCHANGED <<module, killed, child, sigint, sem, driverVars, stale, signals, raplVars>>

OpenFails ==
  /\ Goto("start", "end")
  /\ module # "loaded"
  /\ UNCHANGED <<module, killed, child, sigint, sem, files, driverVars, stale, signals, raplVars>>

\* fopen of the output file, or its failure.
Fopen ==
  /\ Goto("opened", "fopened") \/ Goto("opened", "close")
  /\ UNCHANGED <<module, killed, child, sigint, sem, files, driverVars, stale, signals, raplVars>>

\* fork: the child has the tool's open file, and its actions for signals.
Fork ==
  /\ Goto("fopened", "forked")
  /\ child' = "blocked"
  /\ files' = files \cup {"child"}
  /\ UNCHANGED <<module, killed, sigint, sem, driverVars, stale, signals, raplVars>>

ForkFails ==
  /\ Goto("fopened", "fclose")
  /\ UNCHANGED <<module, killed, child, sigint, sem, files, driverVars, stale, signals, raplVars>>

\* signal(SIGINT, handler_exit).
InstallHandler ==
  /\ Goto("forked", "handler")
  /\ UNCHANGED <<module, killed, child, sigint, sem, files, driverVars, stale, signals, raplVars>>

\* kill(pid, SIGINT): nothing if the child is dead.
KillChild == sigint' = (sigint \/ child \notin {"none", "zombie", "reaped"})

\* smon_mmap of the driver.
Mmap ==
  /\ Goto("handler", "mapped")
  /\ smon_create_rb
  /\ UNCHANGED <<module, killed, child, sigint, sem, files, stream, obj, rb, list, stale,
                 signals, raplVars>>

\* It refuses the length, or the first two allocations fail: nothing is left.
MmapFails ==
  /\ Goto("handler", "failwait")
  /\ KillChild
  /\ UNCHANGED <<module, killed, child, sem, files, driverVars, stale, signals, raplVars>>

\* The allocation of page i > 0 fails: the loop that frees the others stops in front
\* of page 0.  (With i = 0 it runs below the array, and no more can be said.)
MmapFailsAtPage(i) ==
  /\ Goto("handler", "failwait")
  /\ i \in Pages \ {0}
  /\ pages' = {0}
  /\ KillChild
  /\ UNCHANGED <<module, killed, child, sem, files, buf, active, stream, obj, rb, list, stale,
                 signals, raplVars>>

\* wait(NULL) after a failed mmap.
FailWait ==
  /\ Goto("failwait", "close")
  /\ child = "zombie"
  /\ child' = "reaped"
  /\ UNCHANGED <<module, killed, sigint, sem, files, driverVars, stale, signals, raplVars>>

\* smon_set_task: smon_create_task finds the child, dead or alive, and the task goes on
\* wait_list.
SetTask ==
  /\ Goto("mapped", "registered")
  /\ obj' = "alloc"
  /\ rb' = TRUE
  /\ active' = active + 1
  /\ list' = "wait"
  /\ stale' = (child = "zombie")
  /\ UNCHANGED <<module, killed, child, sigint, sem, files, buf, pages, stream, signals, raplVars>>

\* smon_create_task fails to allocate the task or its environment.
SetTaskFails_NoKill ==
  /\ Goto("mapped", "failunmap")
  /\ UNCHANGED <<module, killed, child, sigint, sem, files, driverVars, stale, signals, raplVars>>

SetTaskFails ==
  /\ Goto("mapped", "failunmap")
  /\ KillChild
  /\ UNCHANGED <<module, killed, child, sem, files, driverVars, stale, signals, raplVars>>

FailUnmap ==
  /\ Goto("failunmap", "close")
  /\ smon_vma_close
  /\ UNCHANGED <<module, killed, child, sigint, sem, files, active, stream, obj, rb, list,
                 stale, signals, raplVars>>

\* sem_post.
Post ==
  /\ Goto("registered", "sampling")
  /\ sem' = 1
  /\ UNCHANGED <<module, killed, child, sigint, files, driverVars, stale, signals, raplVars>>

\* start_sampling ends: poll reports POLLHUP when smon_rb_is_active is false and the
\* buffer is not empty.  It is not, as long as the tool has not read the EOF record or,
\* if that was dropped, the samples for which it was.
Hangup ==
  /\ Goto("sampling", "wait")
  /\ active = 0
  /\ UNCHANGED <<module, killed, child, sigint, sem, files, driverVars, stale, signals, raplVars>>

\* A round that began as POLLIN reads the buffer empty after the EOF was dropped: poll
\* reports nothing any more.
Drained ==
  /\ Goto("sampling", "polls")
  /\ active = 0 /\ stream = "lost"
  /\ UNCHANGED <<module, killed, child, sigint, sem, files, driverVars, stale, signals, raplVars>>

\* wait(NULL), restarted when a signal interrupts it.
WaitChild_Skipped ==
  /\ Goto("wait", "unset")
  /\ child' = IF child = "zombie" THEN "reaped" ELSE child
  /\ UNCHANGED <<module, killed, sigint, sem, files, driverVars, stale, signals, raplVars>>

WaitChild_NoUnset ==
  /\ Goto("wait", "munmap")
  /\ child = "zombie"
  /\ child' = "reaped"
  /\ UNCHANGED <<module, killed, sigint, sem, files, driverVars, stale, signals, raplVars>>

WaitChild ==
  /\ Goto("wait", "unset")
  /\ child = "zombie"
  /\ child' = "reaped"
  /\ UNCHANGED <<module, killed, sigint, sem, files, driverVars, stale, signals, raplVars>>

\* smon_unset_task: the task's lists but task_list are left alone.
UnsetTask ==
  /\ Goto("unset", "munmap")
  /\ smon_sched__unregister_task
  /\ UNCHANGED <<module, killed, child, sigint, sem, files, buf, pages, stream, list, stale,
                 signals>>

Munmap ==
  /\ Goto("munmap", "fclose")
  /\ smon_vma_close
  /\ UNCHANGED <<module, killed, child, sigint, sem, files, active, stream, obj, rb, list,
                 stale, signals, raplVars>>

\* fclose and the parse script.
Fclose ==
  /\ Goto("fclose", "close")
  /\ UNCHANGED <<module, killed, child, sigint, sem, files, driverVars, stale, signals, raplVars>>

\* smon_unload_driver, the end of main.
Close ==
  /\ Goto("close", "end")
  /\ files' = files \ {"tool"}
  /\ UNCHANGED <<module, killed, child, sigint, sem, driverVars, stale, signals, raplVars>>

-----------------------------------------------------------------------------
(* Signals.                                                                *)

Handles == tool \notin {"start", "opened", "fopened", "forked", "end"}

\* Ctrl-C: the terminal sends SIGINT to the tool and to the child.  handler_exit sends
\* it to the child again; a poll that sleeps returns and ends the sampling.
Interrupt ==
  /\ Handles /\ signals < MaxSignals
  /\ signals' = signals + 1
  /\ KillChild
  /\ tool' \in IF tool \in {"sampling", "polls"} THEN {tool, "wait"} ELSE {tool}
  /\ UNCHANGED <<module, killed, child, sem, files, driverVars, stale, raplVars>>

\* The kernel closes what the tool had open and unmaps its memory.
ToolDies ==
  /\ killed' = TRUE
  /\ tool' = "end"
  /\ files' = files \ {"tool"}
  /\ smon_vma_close

\* The same before the handler is there: the tool dies, and so does the child.
InterruptEarly ==
  /\ tool \in {"opened", "fopened", "forked"} /\ signals < MaxSignals
  /\ signals' = signals + 1
  /\ ToolDies
  /\ KillChild
  /\ UNCHANGED <<module, child, sem, active, stream, obj, rb, list, stale, raplVars>>

\* The tool alone is ended by a signal it does not handle.
KillTool ==
  /\ tool \notin {"start", "end"}
  /\ ToolDies
  /\ UNCHANGED <<module, child, sigint, sem, active, stream, obj, rb, list, stale, signals,
                 raplVars>>

-----------------------------------------------------------------------------
(* The child and its hooks.                                                *)

\* sem_wait returns.
SemWait ==
  /\ child = "blocked" /\ sem = 1 /\ ~sigint
  /\ sem' = 0
  /\ child' = "posted"
  /\ UNCHANGED <<module, tool, killed, sigint, files, driverVars, stale, signals, raplVars>>

\* execv succeeds: smon_sched_process_exec takes the task from wait_list, writes the
\* INFO sample and queues the irq_work of the RAPL timer, ...
Exec ==
  /\ child = "posted" /\ list = "wait"
  /\ buf = "alive"
  /\ list' = "none"
  /\ child' = "exec"
  /\ stream' = "samples"
  /\ UNCHANGED <<module, tool, killed, sigint, sem, files, buf, pages, active, obj, rb, stale,
                 signals, raplVars>>

\* ... which runs before the task is on the CPU's list.
ExecInsert ==
  /\ child = "exec"
  /\ list' = "cpu"
  /\ child' = "run"
  /\ IF RaplOn THEN start_timer_rapl ELSE UNCHANGED raplVars
  /\ UNCHANGED <<module, tool, killed, sigint, sem, files, buf, pages, active, stream, obj, rb,
                 stale, signals>>

\* The program closes the file it was given.
CloseFile ==
  /\ child = "run" /\ "child" \in files
  /\ files' = files \ {"child"}
  /\ UNCHANGED <<module, tool, killed, child, sigint, sem, driverVars, stale, signals, raplVars>>

\* smon_sched_process_exit of a task on a list: it leaves the list, and its
\* process is a zombie only at the end of the hook.
ExitListed ==
  /\ list # "none" /\ module = "loaded"
  /\ list' = "none"
  /\ child' = "release"
  /\ UNCHANGED <<module, tool, killed, sigint, sem, files, buf, pages, active, stream, obj, rb,
                 stale, signals, raplVars>>

\* ... of a process the driver does not know.
ExitUnlisted ==
  /\ list = "none" \/ module # "loaded"
  /\ child' = "zombie"
  /\ files' = files \ {"child"}
  /\ UNCHANGED <<module, tool, killed, sigint, sem, driverVars, stale, signals, raplVars>>

\* A SIGINT ends the child; the program may handle it, the tool's child code does not.
DieOfSignal == child \in {"blocked", "posted"} /\ sigint /\ (ExitListed \/ ExitUnlisted)

\* execv fails, or the program ends.
ExitByItself == child \in {"posted", "run"} /\ (ExitListed \/ ExitUnlisted)

\* smon_release_rb and task->rb = NULL.  The EOF record of the last release is dropped
\* when samples have filled the buffer.
Release_Missing ==
  /\ child = "release"
  /\ rb' = FALSE
  /\ child' = "cancel"
  /\ UNCHANGED <<module, tool, killed, sigint, sem, files, buf, pages, active, stream, obj, list,
                 stale, signals, raplVars>>

Release ==
  /\ child = "release"
  /\ buf = "alive"
  /\ active' = active - 1
  /\ stream' \in IF stream = "samples" THEN {"eof", "lost"} ELSE {"eof"}
  /\ rb' = FALSE
  /\ child' = "cancel"
  /\ UNCHANGED <<module, tool, killed, sigint, sem, files, buf, pages, obj, list, stale, signals,
                 raplVars>>

\* hrtimer_cancel of the RAPL timer (a task that was on wait_list has none armed), and
\* the end of the hook.
ExitEnd ==
  /\ child = "cancel"
  /\ CancelRapl
  /\ child' = "zombie"
  /\ files' = files \ {"child"}
  /\ UNCHANGED <<module, tool, killed, sigint, sem, driverVars, stale, signals>>

\* The RAPL timer beside all that.
RaplTick ==
  /\ UseEnergy \/ (buf = "alive" /\ RaplStopSave)
  /\ UNCHANGED <<module, tool, killed, child, sigint, sem, files, driverVars, stale, signals>>

RaplCallbackEnds ==
  /\ RaplRestart
  /\ UNCHANGED <<module, tool, killed, child, sigint, sem, files, driverVars, stale, signals>>

\* The driver uses a ring buffer that smon_vma_close has destroyed, which it can when the
\* tool was killed: the INFO sample of the exec hook, a sample of the running program, the
\* release of the exit hook, a sample of the RAPL timer, or the release of smon_exit.
\* rb->data is NULL then (smon_destroy_rb): the kernel stops here, and so does the model.
BufferUsedLate ==
  /\ buf = "destroyed"
  /\ \/ child = "posted" /\ list = "wait"
     \/ child = "run" /\ list = "cpu"
     \/ child = "release"
     \/ rapl_timer = "armed"
     \/ module = "loaded" /\ files = {} /\ rb
  /\ module' = "oops"
  /\ UNCHANGED <<tool, killed, child, sigint, sem, files, driverVars, stale, signals, raplVars>>

-----------------------------------------------------------------------------

Init ==
  /\ module = "unloaded"
  /\ tool = "start" /\ killed = FALSE
  /\ child = "none" /\ sigint = FALSE /\ sem = 0 /\ files = {}
  /\ buf = "none" /\ pages = {} /\ active = 0 /\ stream = "empty"
  /\ obj = "none" /\ rb = FALSE /\ list = "none"
  /\ stale = FALSE /\ signals = 0
  /\ RaplInit

start_profile ==
  \/ Fopen \/ Fork \/ ForkFails \/ InstallHandler
  \/ Mmap \/ MmapFails \/ (\E i \in Pages : MmapFailsAtPage(i)) \/ FailWait
  \/ SetTask \/ SetTaskFails \/ FailUnmap
  \/ Post \/ Hangup \/ Drained \/ WaitChild \/ UnsetTask \/ Munmap \/ Fclose

Tool == Open \/ OpenFails \/ start_profile \/ Close

\* What the child does without the program's help.
ChildGoesOn == SemWait \/ Exec \/ ExecInsert \/ DieOfSignal \/ Release \/ ExitEnd

Child == ChildGoesOn \/ CloseFile \/ ExitByItself

Step ==
  \/ Load \/ Unload
  \/ Tool \/ Interrupt \/ InterruptEarly \/ KillTool
  \/ Child \/ RaplTick \/ RaplCallbackEnds
  \/ BufferUsedLate

Over ==
  /\ module = "oops" \/ (tool \in {"end", "polls"} /\ child \in {"none", "blocked", "zombie", "reaped"})
  /\ UNCHANGED vars

Next == (module # "oops" /\ Step) \/ Over

\* The tool and its child are scheduled, hooks and timer callbacks run to their end.
\* Nothing is assumed of signals, of the program or of the module's administrator.
Fairness ==
  /\ WF_vars(module # "oops" /\ Tool)
  /\ WF_vars(module # "oops" /\ ChildGoesOn)
  /\ WF_vars(module # "oops" /\ RaplCallbackEnds)

Spec == Init /\ [][Next]_vars /\ Fairness

-----------------------------------------------------------------------------
(* Properties.                                                             *)

TypeOK ==
  /\ RaplTypeOK
  /\ module \in {"unloaded", "nodevice", "loaded", "oops"}
  /\ tool \in ToolLabels /\ child \in ChildStates
  /\ killed \in BOOLEAN /\ sigint \in BOOLEAN /\ sem \in {0, 1}
  /\ files \subseteq {"tool", "child"}
  /\ buf \in {"none", "alive", "destroyed"} /\ pages \subseteq Pages
  /\ active \in {0, 1} /\ stream \in {"empty", "samples", "eof", "lost"}
  /\ obj \in {"none", "alloc", "freed"} /\ rb \in BOOLEAN
  /\ list \in {"none", "wait", "cpu"}
  /\ stale \in BOOLEAN /\ signals \in 0 .. MaxSignals

\* While the tool lives to the end of its session, the ring buffer is destroyed only
\* when nobody can write to it any more: no task holds it, no exit hook is about to
\* release it and the RAPL timer, which has its own pointer, is off.
BufferLives ==
  ~killed /\ buf = "destroyed" => ~rb /\ rapl_timer = "off" /\ child # "release"

\* A task that is on a list was not freed, for a child that was alive when it was
\* registered: unset_task, which takes the task from no list but its own, comes late enough.
NoFreedOnList == ~killed /\ ~stale /\ list # "none" => obj = "alloc"

\* Every end of a session, killed or not, gives back the pages of the buffer; only
\* a mapping that failed half-way keeps its first page.
PagesFreed == tool = "end" => pages = {} \/ (buf = "none" /\ pages = {0})

\* An unloaded driver leaves no task and no armed timer behind, even when the tool was
\* killed between its child's exit and unset_task.  (The task of a tool that was killed
\* earlier still holds the destroyed buffer, and the driver does not live to be unloaded.)
UnloadCleans == module = "unloaded" => obj # "alloc" /\ rapl_timer = "off"

\* The child is never left in sem_wait by a tool that lives: every path of
\* start_profile either posts the semaphore or kills it.
ChildReleased == child = "blocked" ~> (child # "blocked" \/ killed)

\* A child's death ends the session, unless it was dead before it was registered, or
\* its exit hook found no space for the EOF record and the tool read the buffer empty
\* before it looked: then the tool stays in poll.
SessionEnds ==
  child = "zombie" ~> (tool = "end" \/ (tool = "polls" /\ stream = "lost") \/ stale)

-----------------------------------------------------------------------------
(* What the code says, and does not ensure.                                *)

\* profile.c: "Be prepared for outside termination": once the handler has ended the
\* child, the session comes to its end (a poll left without an EOF record apart).
TerminationHandled == child = "zombie" ~> tool \in {"end", "polls"}

=============================================================================
