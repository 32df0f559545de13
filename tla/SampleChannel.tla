---------------------------- MODULE SampleChannel ----------------------------
(***************************************************************************)
(* The way of a sample from the scheduler hooks to the output file: the    *)
(* monitored tasks and the RAPL timer write into the ring buffer           *)
(* (src/driver/sched.c, src/driver/sample.c), smon_poll tells the tool     *)
(* what there is (src/driver/main.c), and the tool's sampling loop reads   *)
(* the mapped pages and returns them with SMON_IOCREAD                     *)
(* (src/tool/src/profile.c, src/tool/src/rb.c).                            *)
(*                                                                         *)
(* The kernel side runs under rb->lock, one call a step.  The tool reads   *)
(* the pages without a lock, one record a step, so that writers, exiting   *)
(* tasks and interrupts come between any two records.  The hooks of an     *)
(* exiting task (smon_sched_process_exit) are cut where another CPU can    *)
(* see the difference: at the last sample, at the decrement of rb->active, *)
(* at the EOF record, at the irq_work and at the cancelled RAPL timer.     *)
(***************************************************************************)
EXTENDS RingBuffer, FiniteSets

CONSTANTS
  Tasks,       \* processes the tool's session can monitor
  Root,        \* the process that the tool forks
  RaplOn,      \* ENVOP_RAP
  InheritOn,   \* ENVOP_INH
  ForkOn,      \* ENVOP_FORK
  MaxSamples   \* bound: no new sample is taken once seq has reached it

UNKNOWN == "UNKNOWN"

ASSUME ChannelAssumption ==
  /\ Root \in Tasks /\ IsFiniteSet(Tasks)
  /\ RaplOn \in BOOLEAN /\ InheritOn \in BOOLEAN /\ ForkOn \in BOOLEAN
  /\ {"INFO", "PMC", "FORK", "RAPL"} \subseteq SampleTypes
  /\ UNKNOWN \notin SampleTypes
  /\ MaxSamples \in Nat

\* What a running task writes by itself: PMC (timer tick, switch out), SCHED
\* (switch out) and CPU (migration).
TaskSamples == SampleTypes \ {"INFO", "FORK", "RAPL"}

TaskStates == {"none",     \* not forked yet, or not inherited
               "wait",     \* on wait_list until its exec
               "run",      \* on a cpu_list
               "release",  \* in the exit hook, before smon_release_rb
               "eof",      \* in smon_release_rb, active is 0, before the EOF record
               "wake",     \* in smon_release_rb, before irq_work_queue
               "cancel",   \* before hrtimer_cancel of the RAPL timer
               "gone"}

ReaderStates == {"poll",         \* about to call poll
                 "sleep",        \* in poll, on rb->inq
                 "read",         \* in read_samples
                 "done",         \* after the POLLHUP round
                 "failed",       \* read_samples returned -1
                 "interrupted"}  \* poll returned -1

VARIABLES
  active,     \* rb->active
  task,       \* where each task is
  rapl,       \* the RAPL timer is armed
  rd,         \* where the tool's loop is
  hup,        \* poll reported POLLHUP
  utail,      \* tail of the tool's struct smon_rb
  consumed,   \* consumed of the tool's struct smon_rb, in words
  n_samples,  \* of read_samples
  eof,        \* of read_samples
  last,       \* number of the last sample delivered (not in the code)
  overrun     \* the tool has read a record at head (not in the code)

userVars == <<rd, hup, utail, consumed, n_samples, eof, last, overrun>>
hookVars == <<active, task, rapl>>
vars     == <<rbVars, hookVars, userVars>>

-----------------------------------------------------------------------------
(* The hooks.                                                              *)

\* smon_sched_process_exec finds the root on wait_list: smon_task_extra_start
\* writes the INFO sample and starts the RAPL timer.
Exec_NoInfo ==
  /\ task[Root] = "wait"
  /\ task' = [task EXCEPT ![Root] = "run"]
  /\ rapl' = RaplOn
  /\ UNCHANGED <<rbVars, active, userVars>>

Exec ==
  /\ task[Root] = "wait"
  /\ smon_rb_write("INFO")
  /\ task' = [task EXCEPT ![Root] = "run"]
  /\ rapl' = RaplOn
  /\ UNCHANGED <<active, userVars>>

\* A sample of a running task.
TaskSample(w, type) ==
  /\ task[w] = "run"
  /\ seq < MaxSamples
  /\ smon_rb_write(type)
  /\ UNCHANGED <<hookVars, userVars>>

\* smon_sched_timer_rapl.
RaplTick ==
  /\ rapl
  /\ seq < MaxSamples
  /\ smon_rb_write("RAPL")
  /\ UNCHANGED <<hookVars, userVars>>

\* smon_sched_process_fork: the child is registered (smon_create_child takes the
\* ring buffer) before the FORK sample is written, and it does not run yet.
Fork_NoGet(w, c) ==
  /\ task[w] = "run"
  /\ task[c] = "none" /\ c # Root
  /\ seq < MaxSamples
  /\ InheritOn
  /\ task' = [task EXCEPT ![c] = "run"]
  /\ UNCHANGED <<rbVars, active, rapl, userVars>>

Fork(w, c) ==
  /\ task[w] = "run"
  /\ task[c] = "none" /\ c # Root
  /\ seq < MaxSamples
  /\ IF InheritOn
       THEN active' = active + 1 /\ task' = [task EXCEPT ![c] = "run"]
       ELSE UNCHANGED <<active, task>>
  /\ IF ForkOn THEN smon_rb_write("FORK") ELSE UNCHANGED rbVars
  /\ UNCHANGED <<rapl, userVars>>

\* smon_sched_process_exit of a task on a cpu_list: the last PMC sample.
ExitSave(w) ==
  /\ task[w] = "run"
  /\ smon_rb_write("PMC")
  /\ task' = [task EXCEPT ![w] = "release"]
  /\ UNCHANGED <<active, rapl, userVars>>

\* smon_sched_process_exit of a task on wait_list: execv failed.
ExitWait ==
  /\ task[Root] = "wait"
  /\ task' = [task EXCEPT ![Root] = "release"]
  /\ UNCHANGED <<rbVars, active, rapl, userVars>>

\* Where a task goes after smon_release_rb: only the root has an extra.
AfterRelease(w) == IF w = Root THEN "cancel" ELSE "gone"

\* atomic_dec_and_test of smon_release_rb, which holds no lock of the buffer.
ReleaseRb(w) ==
  /\ task[w] = "release"
  /\ active' = active - 1
  /\ task' = [task EXCEPT ![w] = IF active = 1 THEN "eof" ELSE AfterRelease(w)]
  /\ UNCHANGED <<rbVars, rapl, userVars>>

\* smon_rb_write_eof.
WriteEof(w) ==
  /\ task[w] = "eof"
  /\ smon_rb_write(EOF)
  /\ task' = [task EXCEPT ![w] = "wake"]
  /\ UNCHANGED <<active, rapl, userVars>>

\* irq_work_queue, the end of smon_release_rb.
AlertReader_Missing(w) ==
  /\ task[w] = "wake"
  /\ task' = [task EXCEPT ![w] = AfterRelease(w)]
  /\ UNCHANGED <<rbVars, active, rapl, userVars>>

AlertReader(w) ==
  /\ task[w] = "wake"
  /\ irq_work_queue
  /\ task' = [task EXCEPT ![w] = AfterRelease(w)]
  /\ UNCHANGED <<active, rapl, userVars>>

\* hrtimer_cancel of the RAPL timer, the last thing the root's exit hook does.
CancelRapl ==
  /\ task[Root] = "cancel"
  /\ rapl' = FALSE
  /\ task' = [task EXCEPT ![Root] = "gone"]
  /\ UNCHANGED <<rbVars, active, userVars>>

\* The irq_work runs and wakes the tool, if it sleeps in poll.
WakeUp_NotWoken ==
  /\ smon_wake_up_reader
  /\ UNCHANGED <<hookVars, userVars>>

WakeUp ==
  /\ smon_wake_up_reader
  /\ rd' = IF rd = "sleep" THEN "poll" ELSE rd
  /\ UNCHANGED <<hookVars, hup, utail, consumed, n_samples, eof, last, overrun>>

-----------------------------------------------------------------------------
(* The tool.                                                               *)

smon_rb_is_active == active > 0

POLLIN  == smon_rb_batch_available /\ smon_rb_is_active
POLLHUP == /\ ~smon_rb_is_active
           /\ smon_rb_batch_available \/ ~smon_rb_is_empty

\* poll finds nothing and sleeps.  smon_poll enters the wait queue (poll_wait) and
\* tests the buffer under rb->lock, so no wake-up falls between the two.
PollSleep ==
  /\ rd = "poll"
  /\ ~POLLIN /\ ~POLLHUP
  /\ rd' = "sleep"
  /\ UNCHANGED <<rbVars, hookVars, hup, utail, consumed, n_samples, eof, last, overrun>>

\* poll returns 1 and read_samples starts.
PollReady ==
  /\ rd = "poll"
  /\ POLLIN \/ POLLHUP
  /\ rd' = "read"
  /\ hup' = ~POLLIN
  /\ n_samples' = 0
  /\ eof' = FALSE
  /\ UNCHANGED <<rbVars, hookVars, utail, consumed, last, overrun>>

\* A signal ends poll with -1: the loop is done.
PollInterrupted ==
  /\ rd = "sleep"
  /\ rd' = "interrupted"
  /\ UNCHANGED <<rbVars, hookVars, hup, utail, consumed, n_samples, eof, last, overrun>>

\* The second argument of read_samples: the batch, or rb.size, which is in bytes.
nr_samples_Batch == Batch

nr_samples == IF hup THEN 4 * Size ELSE Batch

\* The type the tool can find at p.  A word that is not a header holds data: any
\* type may appear there.
TypesAt(p) == IF mem[p].type \in RecordTypes \cup {PAD}
                THEN {mem[p].type}
                ELSE RecordTypes \cup {PAD, UNKNOWN}

\* smon_rb_page_next and smon_rb_consume.
UserNextPage(p)  == StuffedHead(p)
UserAdvance(p, n) == (p + n) % Size

\* What every record read does to the variables of the proof of order: overrun
\* when there was nothing to read, last the number in the header.
Observe ==
  /\ overrun' = (overrun \/ RB_COUNT(head, utail) = 0)
  /\ UNCHANGED <<rbVars, hookVars, hup>>

\* A sample is printed and consumed.
ReadSample(type) ==
  /\ rd = "read" /\ n_samples < nr_samples /\ ~eof
  /\ type \in SampleTypes \cap TypesAt(utail)
  /\ utail' = UserAdvance(utail, TotalSize[type])
  /\ consumed' = consumed + TotalSize[type]
  /\ n_samples' = n_samples + 1
  /\ last' = mem[utail].id
  /\ Observe
  /\ UNCHANGED <<rd, eof>>

\* A PAD header: the loop's n_samples-- and n_samples++ cancel out.
ReadPad_HeaderOnly ==
  /\ rd = "read" /\ n_samples < nr_samples /\ ~eof
  /\ PAD \in TypesAt(utail)
  /\ utail' = UserAdvance(utail, 1)
  /\ consumed' = consumed + 1
  /\ Observe
  /\ UNCHANGED <<rd, n_samples, eof, last>>

ReadPad ==
  /\ rd = "read" /\ n_samples < nr_samples /\ ~eof
  /\ PAD \in TypesAt(utail)
  /\ utail' = UserNextPage(utail)
  /\ consumed' = consumed + RB_COUNT(UserNextPage(utail), utail)
  /\ Observe
  /\ UNCHANGED <<rd, n_samples, eof, last>>

\* The EOF header: counted by the loop, its bytes are not consumed.
ReadEof ==
  /\ rd = "read" /\ n_samples < nr_samples /\ ~eof
  /\ EOF \in TypesAt(utail)
  /\ eof' = TRUE
  /\ n_samples' = n_samples + 1
  /\ last' = mem[utail].id
  /\ Observe
  /\ UNCHANGED <<rd, utail, consumed>>

\* An unknown header: read_samples returns -1 and returns nothing to the driver.
ReadUnknown ==
  /\ rd = "read" /\ n_samples < nr_samples /\ ~eof
  /\ UNKNOWN \in TypesAt(utail)
  /\ rd' = "failed"
  /\ Observe
  /\ UNCHANGED <<utail, consumed, n_samples, eof, last>>

\* The end of the loop: smon_rb_flush and SMON_IOCREAD.
Commit ==
  /\ rd = "read" /\ (n_samples >= nr_samples \/ eof)
  /\ smon_rb_read(n_samples, consumed)
  /\ consumed' = 0
  /\ rd' = IF hup THEN "done" ELSE "poll"
  /\ UNCHANGED <<hookVars, hup, utail, n_samples, eof, last, overrun>>

-----------------------------------------------------------------------------

\* smon_mmap and smon_set_task have been called: the root is on wait_list and
\* holds the ring buffer.
ChInit ==
  /\ RbInit
  /\ active = 1
  /\ task = [w \in Tasks |-> IF w = Root THEN "wait" ELSE "none"]
  /\ rapl = FALSE
  /\ rd = "poll" /\ hup = FALSE
  /\ utail = 0 /\ consumed = 0
  /\ n_samples = 0 /\ eof = FALSE
  /\ last = 0 /\ overrun = FALSE

\* The steps of an exit hook, which runs with a spin lock held and does not stop.
ExitStep(w) == ReleaseRb(w) \/ WriteEof(w) \/ AlertReader(w)

Hook ==
  \/ Exec
  \/ \E w \in Tasks, type \in TaskSamples : TaskSample(w, type)
  \/ RaplTick
  \/ \E w, c \in Tasks : Fork(w, c)
  \/ \E w \in Tasks : ExitSave(w)
  \/ ExitWait
  \/ \E w \in Tasks : ExitStep(w)
  \/ CancelRapl

Read == \/ \E type \in SampleTypes : ReadSample(type)
        \/ ReadPad
        \/ ReadEof
        \/ ReadUnknown

Tool == PollSleep \/ PollReady \/ PollInterrupted \/ Read \/ Commit

\* The session is over: the tool has left its loop and every task is gone.
Over ==
  /\ rd \in {"done", "failed", "interrupted"}
  /\ \A w \in Tasks : task[w] \in {"none", "gone"}
  /\ UNCHANGED vars

ChNext == Hook \/ WakeUp \/ Tool \/ Over

\* The exit hooks and the irq_work run to their end, and the tool is scheduled
\* while it is runnable.  Nothing is assumed of the monitored program.
Fairness ==
  /\ \A w \in Tasks : WF_vars(ExitStep(w))
  /\ WF_vars(WakeUp)
  /\ WF_vars(PollSleep) /\ WF_vars(PollReady) /\ WF_vars(Read) /\ WF_vars(Commit)

ChSpec == ChInit /\ [][ChNext]_vars /\ Fairness

-----------------------------------------------------------------------------
(* Properties.                                                             *)

ChTypeOK ==
  /\ RbTypeOK
  /\ active \in Nat
  /\ task \in [Tasks -> TaskStates]
  /\ rapl \in BOOLEAN
  /\ rd \in ReaderStates
  /\ hup \in BOOLEAN
  /\ utail \in Positions
  /\ consumed \in Nat
  /\ n_samples \in Nat
  /\ eof \in BOOLEAN
  /\ last \in Nat
  /\ overrun \in BOOLEAN

\* The tool's cursor always points at head or at the header of the next sample it
\* has to deliver: samples are printed in the order they were written, each once,
\* none is skipped and no word of a body is taken for a header.  (At the EOF the
\* cursor stays.)  Until the tool overruns head.
InOrder ==
  ~overrun /\ utail # head =>
    /\ mem[utail].type \in RecordTypes \cup {PAD}
    /\ mem[utail].type # PAD => mem[utail].id = IF eof THEN last ELSE last + 1

\* "items: number of samples in the buffer": rb->items is the number of samples
\* accepted and not yet returned, and the tool's cursor is tail plus what
\* it has consumed since; PADs, wrap-around and late returns do not make them drift.
Accounting ==
  ~overrun =>
    /\ items = seq - (last - IF rd = "read" THEN n_samples ELSE 0)
    /\ utail = UserAdvance(tail, consumed)
    /\ consumed <= RB_COUNT(head, tail)

\* When the sampling loop ends with POLLHUP and without an overrun it has seen the
\* EOF record, so every sample written before it is in the output file.
CompleteAtEof == rd = "done" /\ ~overrun => eof

\* The tool reads at head only when poll reported POLLHUP and no EOF record is in
\* the buffer.
OverrunStep ==
  overrun' /\ ~overrun => hup /\ \A p \in Unread : mem[p].type # EOF
OverrunOnlyWithoutEof == [][OverrunStep]_vars

\* The tasks that hold the ring buffer: they still have to call smon_release_rb.
Holders == {w \in Tasks : task[w] \in {"wait", "run", "release"}}

\* "active: number of active writers": rb->active is the number of tasks that hold
\* the buffer, through forks and exits in any order; it reaches zero once,
\* and then exactly one exit hook writes the EOF record.
ActiveCounts ==
  /\ active = Cardinality(Holders)
  /\ \A v, w \in Tasks :
       /\ task[v] \in {"eof", "wake"} => active = 0
       /\ task[v] \in {"eof", "wake"} /\ task[w] \in {"eof", "wake"} => v = w

\* The INFO sample is the first the tool prints, so the parsing scripts know the
\* clock before the first timestamp.
InfoFirst ==
  ~overrun /\ last = 0 /\ utail # head => mem[utail].type \in {"INFO", EOF}

Terminated == rd \in {"done", "failed", "interrupted"}

\* Once the EOF record is in the buffer the sampling loop ends: the tool does not
\* sleep in poll on an EOF nobody announces.
EofEndsLoop == (\E p \in Unread : mem[p].type = EOF) ~> Terminated

\* A tool that sleeps while a batch is in the buffer is woken up.
BatchWakes == (rd = "sleep" /\ smon_rb_batch_available) ~> rd # "sleep"

-----------------------------------------------------------------------------
(* What the documentation says of the output, and the code does not ensure. *)

\* README.md: the output file has "the raw values obtained by the tool": the
\* tool prints only what was written, it never reads at head.
NoOverrun == ~overrun

\* profile.c ends the session ("Terminate") after start_sampling: when the last
\* writer has left, the loop ends.
LoopEnds == (active = 0) ~> Terminated

=============================================================================
