# Verification of SchedMon

SchedMon profiles Linux processes. A kernel module (`src/driver`) hooks the
scheduler's tracepoints, counts hardware events for the monitored tasks and
writes samples into a ring buffer that is mapped into a command-line tool
(`src/tool/src`), which prints them. This directory has TLA+ models of both, TLC configurations that check them on small instances and
TLAPS proofs of every invariant those configurations check, for instances of any size.

## 1. Inventory

| Component | Source | State | Operations | Interacts through |
|---|---|---|---|---|
| ring buffer | `driver/rb.c` | `head`, `tail`, `items`, `batch`, pages, `active`, `irq` | write, read (return), get, release, EOF, create, destroy | `rb->lock`, `atomic active`, mapped pages, `irq_work` |
| device | `driver/main.c` | `filp->private_data`, `vma->vm_private_data` | load, unload, open, release, poll, ioctl, mmap, vma close/fault | calls all others |
| task tracking | `driver/sched.c`, `task.c`, `envir.c` | `task_list`, `wait_list`, `cpu_list[]` and their locks, `smon_task`, `envir->count` | register, unregister, hooks for fork, exec, migrate, exit | tracepoints; the tool's ioctls |
| counting and sampling | `driver/sched.c`, `sample.c`, `pmc.c` | `evset`, `sample_pmc`, `timer`, `timer_flags`, irq_works, the CPU's counters | switch hook, timer tick, start/stop irq_works | interrupts, switch hook |
| RAPL | `driver/sched.c`, `rapl.c`, `sample.c` | `rapl_timer`, `rapl_sample`, energy registers | timer tick, start, cancel | writes samples, cancelled by the exit hook and with the task |
| events, event-sets | `driver/event.c`, `evset.c` | two growing arrays and their counts | set, get, check | ioctls, read by sampling |
| sampling loop | `tool/src/profile.c`, `rb.c` | its own `tail`, `consumed` | poll, read records, return them | mapped pages, poll, SMON_IOCREAD |
| session | `tool/src/profile.c`, `driver.c` | child pid, semaphore, open file, mapping | open, fork, mmap, set_task, sampling, wait, unset_task, munmap, close | ioctls, signals, the child |
| command line | `tool/src/cmd.c`, `main.c` | one `struct smon_cmd`, an event, event-set or environment | parse, check, carry out | ioctls, start_profile |

What is hard here:

* *The ring buffer.* Variable-size records that may not cross a page, a page
  that is stuffed with a PAD header when the record does not fit, a gap word
  that tells full from empty, and a reader that decodes the pages without a
  lock with its own copy of `tail`.
* *The end of a session.* `active` counts the writers; when the last one leaves,
  an EOF record is written and the reader is woken. Decrement, record and
  wake-up are three steps, the record can be dropped, and the RAPL timer is
  still armed.
* *Task objects.* They are on per-CPU lists, moved by the migrate hook in two
  steps, created under one CPU's lock for another CPU's list, and destroyed by the
  tool, which takes none of those locks.
* *Sampling.* Counters are per CPU, samples per task; a timer, two irq_works and
  the switch hook share `timer_flags`, and a task changes CPUs in between.
* *Failures and signals of a session.* A child is forked before the buffer is
  mapped and the task registered, each of which can fail; SIGINT reaches the tool
  and the child at any point, and a tool that is killed leaves its task behind.
* *The command line.* Options and suboptions may be repeated, come in any order
  and be out of range, and the values end up in hardware registers, table
  look-ups and a divisor.

The properties that make each component correct are listed with its module below;
`PROJECT.json` has the list of hazards, each with the properties aimed at it.

## 2. Modules

| Module | What it is |
|---|---|
| `RingBuffer` | the ring buffer with any client |
| `RingBufferProofs` | its theorems |
| `SampleChannel` | extends `RingBuffer` with the writers, exit hooks, poll and the tool's loop |
| `SampleStream` | abstract specification: a lossy FIFO with an end |
| `SampleChannelRefinement` | refinement mapping from the channel to the stream |
| `SampleChannelProofs` | theorems of the channel: types, references, it is a client of the ring buffer |
| `SampleOrderProofs` | extends it: order, accounting and end of the sampling loop, and the refinement |
| `TaskTracking` | lists, task objects, reference counts, the tool's session |
| `Sampling` | counters, timers and event-sets |
| `Registry` | the tables of events and event-sets under concurrent commands |
| `CommandLine` | the tool's option parsing, its checks, and what the driver makes of the values |
| `Rapl` | the energy register, its sample and its timer |
| `Session` | extends `Rapl` with a session from open to close, its failures, signals, the child's hooks, and the module's load and unload |
| `TaskTrackingProofs`, `SamplingProofs`, `RegistryProofs`, `CommandLineProofs`, `SessionProofs` | theorems of these modules (`SessionProofs` has `Rapl`'s too) |
| `MC*` | instances for TLC |

Definitions named `X_Something` next to a definition `X` are faulty variants of
it (a dropped guard, an off-by-one, a missing reset): substituting one for `X`
must make TLC report the property it is paired with in `PROJECT.json`. They are
part of no specification.

### RingBuffer

State and macros have the names of `rb.c`. Positions are in words of four bytes
(a header is one word; all sizes are multiples of four), so `RB_SPACE` in words
gives exactly the byte comparison. `mem` holds, for each word, whether it is a
record's header, a word of a body, a PAD or memory no record was written to. `seq`
numbers accepted samples for the properties only. `smon_rb_write` has one
disjunct for each path: no space, in page, next page, and stuffed without room
(`head` moves, nothing is counted). The lock makes each call one step.

* `InOnePage`: a record never leaves its page.
* `NoOverwrite`: no step changes a word between `tail` and `head`.
* `WriteGrows`: a step that does not move `tail` keeps every unread word unread;
  `head` never meets `tail` from behind.

### SampleChannel

The hooks write through `smon_rb_write`. The exit hook is cut where another CPU
can see the difference: last sample, `active` decrement, EOF record, irq_work,
cancellation of the RAPL timer. The tool reads one record a step. A word that is
not a header is read as any type, so nothing is hidden when the reader goes
astray; `overrun` records that it has read at `head`.

* `InOrder`, `Accounting`: until an overrun, the cursor is at the header of the
  next sample in order, `items` is the number of accepted samples not returned
  and both tails agree.
* `CompleteAtEof`, `OverrunOnlyWithoutEof`: an orderly end has seen the EOF
  record; the reader overruns only when POLLHUP was reported without one.
* `ActiveCounts`: `active` is the number of holders, and one hook writes the EOF.
* `InfoFirst`: the INFO sample is the first one printed.
* `ImplementsStream`: every step is a step of `SampleStream` or a stutter. The
  queue of the stream is the samples from the tool's cursor on, as the pages hold them.
* `EofEndsLoop`, `BatchWakes` (liveness): an EOF record ends the loop; a sleeping
  tool in front of a complete batch is woken.

Abstractions: of the samples of a running task only the type is kept, RAPL's irq_works
are taken with the steps that queue them, and in a session with ENVOP_STAT fewer types occur.

### TaskTracking

One step per section under a list lock. Fork for another CPU keeps the parent's
lock (`cpu_lock`), migration is on no list in between, exec takes the root from
`wait_list` and inserts it later, exit keeps its lock until `task->rb = NULL`. The
kernel's part (`Copy`, when a process can move or exit) is marked external; the root is in
`sem_wait` until it is registered and forks nothing before.
`wait(NULL)` returns for a root that has passed its exit hook. The tool's
unregistration is one step a child. A child for which there is no memory is not
monitored (`ForkNoMemory`). `eof` says what became of the EOF record of the last
release: poll reports POLLHUP as long as something is left to be read (`Hangup`), and
when the record was dropped and a POLLIN round has read the rest, nothing any
more (`Drained`): the tool is in `polls` until a signal comes.

* `Followed`: a live monitored process is on the list of the CPU it is on (or on
  `wait_list`) and on no other.
* `ListsHoldLiveTasks`: no freed task is on a list.
* `FreedAfterRelease`: a task is freed only after its process gave up the buffer.
* `EnvirCount`: the environment's count is the number of task objects.
* `SessionEnds` (liveness): when all processes have ended, so does the session, or it stays
  in poll after a dropped EOF record.

The first four are stated for orderly sessions (`Orderly`): a signal that ends the
sampling of a session with inheriting children lets the tool free tasks that are
still on the CPUs' lists (`sched.c:191`), after which no statement about them holds.
Interrupted sessions without inheritance are included, and so is `SessionEnds` for all.

Not modelled: registration of a running process (the tool always sets ENVOP_EXE).
Failures of the registration, a killed tool and `smon_sched_exit` are in `Session`, for a task
without descendants.

### Sampling

One counter stands for the CPU's counters. The switch hook stops and starts
it, the irq_works run on the CPU that queued them before anything else there, but
possibly after another CPU has taken over the task. `start_timer_pmc` is two steps:
it sets `timer_flags` (`start_timer_flag`), and then moves the timer and starts the
counter; the CPU the task comes from sees the state in between. An interrupt of a
CPU waits for an irq_work that is being carried out there; the callback of a timer is one
step. Time is abstracted: an armed timer may expire at any moment, and a sample may be
over at a switch. Stat mode uses one event-set and no timer. An event-set of the
environment may be missing from the table and be added during the session (`Define`):
`smon_sample_start` then leaves the counter alone, and the next `smon_sample_stop`
reads through a null pointer, where the model stops (`NoEvset`, `oops`). A sample
may be dropped by a full buffer (`lost`). `happened`, `saved`, `lost` and `stray` are
for the properties; `stray` says that a sample was read from a counter that did
not count for its task.

* `TickOnOwnCpu`: a timer that may take a sample is armed on its task's CPU. The one
  exception is the moment between the two lines of `start_timer_pmc` on the CPU the task
  has moved to, and only while the irq_work that stops the old timer is pending. A tick
  in that moment samples another task's counter.
* `CountersOwned`: an enabled counter belongs to the monitored task its CPU runs,
  with that task's event-set, until such a tick.
* `Conserved`: for each task and event-set, the samples handed to `smon_rb_write`, dropped
  ones included, and the unfinished one add up to the events that happened while it was
  counted, until such a tick.

### Registry

`smon event -a` and `smon evset -a` as processes that interleave at every access
to a count or a slot, since the ioctls take no lock. `events[n_events++] = new` is a load
of the count and two stores in either order. The tool's check (`smon_check_event`,
by count) and the driver's look-up (`smon_get_event`, by count and slot) are separate
ioctls and steps. An event-set is its set of events, an event the command that added it.

* `EvsetsUseDefinedEvents`: every event of an event-set is in the table.
* `NoHole`: when no add is in progress, no slot below the count is empty, although
  updates of the count may have been lost (the list commands stop at the first hole).

Two adds that both find one slot left pass the test for a full table, and the second
stores behind its end (`event.c:43`, `evset.c:43`); the model drops such a store, since
nothing can be said of what it hits.

Not modelled: the tables' removal at module exit and the list commands. The check of
event-sets of `smon profile` and `smon stat` is in `CommandLine`.

### CommandLine

One option, or one suboption of `-a`, is a step, so every order and repetition is a
behaviour. A number used as a mask is the set of its bits. An id below zero stands for
what `strtoul` makes of `-1` in an `int`. `Command` gives `cpumask` and `count_mode`
any value where the code leaves them uninitialised. `parse_profile`, `parse_stat` and
`parse_roof` share the actions their option strings share. `Main` makes the tool's
checks against tables of every filling (`n_events`, `n_evsets`, constant during one
command; how they race is `Registry`'s matter), and `StartProfile` is what the driver
makes of the result: `smon_mmap` refuses some lengths, and `smon_create_envir` changes
the environment it is given.

* `ReadCountersEnabled`: the counters `smon_pmc_read` reads for an event-set are enabled
  by its `global_ctrl`, and a fixed counter that is not read is not enabled.
* `EventWellFormed`: an oversized `evsel` or `umask` never reaches another field of
  `perfevtsel`, and an accepted event has a mode.

Where the tool and the driver do not agree, the model does what the code does and no
property is stated:

* `-p` takes 2048, 4096 and 8192 pages, the driver at most 1024 (`rb.c:39`): the session ends
  with the mapping.
* `-t 0` is replaced by 10 ms (`envir.c:25`), although the comment in `smon.h:196` says
  "if 0, only count".
* `roof` starts with event-sets 0 and 1 whether they are there or not; what follows is in
  `Sampling`.
* `profile -e -1` starts a session with no event-set: the check passes over nothing.

Left out: text (tags, file names, help), the `-l` commands behind the parser.

### Rapl and Session

`Rapl` has one register for the three, with `EnergyBits` bits. The callback is cut
between its two readings. `used`, `between` and `saved` are for the property.
`Session` follows `start_profile` call by call, with the failure of each call the
code tests; `sem_open` is not tested by the code and taken to succeed. The child goes from
the fork through `sem_wait`, the exec hook and the exit hook; its hooks are cut at
`smon_release_rb` and at `hrtimer_cancel`. The ring buffer is reduced to its life,
its pages, `active` and what it was given (`stream`): nothing, samples, the EOF record,
or no EOF record because samples had filled it. `Hangup`, `Drained` and `polls` are as in
`TaskTracking`. The driver has no way to know that a buffer was destroyed: `BufferUsedLate`
is any use of one, and the model stops there (`module` is `oops`). The handler is there from
`InstallHandler` on; before it a SIGINT ends the tool. The module can be loaded before
the tool starts and unloaded when no file is open. `stale` says that the
child was dead when it was registered.

* `BufferLives`: while the tool is not killed, the buffer is destroyed only when no
  task, no exit hook and no RAPL timer can use it any more.
* `NoFreedOnList`: `unset_task` comes after the exit hook has taken the task from its list.
* `PagesFreed`: every end of a session gives the pages back; the only exception is page 0
  of a mapping that failed half-way (`rb.c:73`).
* `UnloadCleans`: after unloading there is no task and no armed timer, also when the tool was
  killed between its child's exit hook and `unset_task`. A tool that is killed earlier leaves
  a task that holds the destroyed buffer, and the first hook, timer or `smon_exit` that
  uses it ends the behaviour.
* `EnergyAdds`: samples handed to the buffer, the gaps between two readings and the unfinished sample add
  up to the energy used, modulo the register's range.
* `ChildReleased` (liveness): no path of `start_profile` leaves the child in `sem_wait`.
* `SessionEnds` (liveness): the child's death ends the session, unless it came before
  the registration, or the EOF record was dropped and the tool stays in poll.

## 3. Runs

Passing runs (a few seconds to about two minutes each with two workers):

| Run | Instance | Shows |
|---|---|---|
| `channel` | 2 pages of 4 words, sizes 2 and 3, batch 2, root and child, RAPL, 3 samples | page and overwrite safety, order, accounting, refinement, liveness |
| `tracking` | root and two descendants, 2 CPUs | lists, objects, counts, end of session; signals, with and without inheritance |
| `sampling` | 2 tasks, 2 CPUs, 2 event-sets, each in the table or not, 2 events | counters and timers |
| `registry` | 4 commands, 2 events, 1 event-set | concurrent adds up to and over the limits |
| `cmdline` | tables of 2, 4 arguments, masks with bits in, at the edge of and above each field | what every command line hands to the driver |
| `session` | 2 pages, 2 SIGINTs, a register of 2 bits, 5 units of energy | failures, signals, kill, load and unload; energy sums; liveness |

Bounds. Three samples, the last PMC samples of two exits and the EOF, of one to three words,
in eight words wrap `head` around and meet `tail` again, with and without a stuffed page
and with the buffer exactly full; the proofs of section 4 cover every other size and client.
`MaxSamples` stops new samples, not the last PMC sample and the EOF of an exit, so every
behaviour can end. Two tasks are enough for every order of fork and exit around
the last release; three processes give siblings and a grandchild; two events
meet in one sample, in two, or on two CPUs. Four arguments let every suboption an
`-a` needs come with one repeated, and a list of ids is one longer than the
table of the environment. Two SIGINTs are one more than a session needs: the second
ends a tool that polls for a dead child. Five units wrap a register of two bits.
In `sampling` tasks and CPUs are interchangeable (the run has no liveness property, and no definition
names one of them), and a state with `stray` is checked but not explored (`BeforeStray`):
a counter that was read for two tasks has its events in two samples, so that sums grow
for ever, and nothing is claimed of them. The proofs have no such restriction.

Violation runs state what the repository says and show that the code does not
ensure it:

| Run | Property | What happens |
|---|---|---|
| `eof_race` | `NoOverrun` | `active` is 0 before the EOF record is written; a poll in between reports POLLHUP and the tool reads past `head` |
| `eof_dropped` | `LoopEnds` | the EOF finds the buffer full and is dropped; the tool empties the buffer and polls for ever |
| `double_release` | `ActiveIsANumber` | `unset_task` finds `task->rb` of a child between release and reset in its exit hook |
| `late_stop` | `TimerRuns` | the stop irq_work of the old CPU cancels the timer the new CPU has armed |
| `event_disabled` | `EventCounts` | `smon event -a` without `mode=`: the default mode lacks the enable bit, and the event never counts |
| `dead_child` | `TerminationHandled` | the child dies between the handler's installation and the registration; nothing is left to release the buffer, and the tool polls for ever |

Other effects the models show, which no run states, since no document rules them out or
the run would repeat one of those above: with four processes `TaskTracking`
deadlocks, two fork hooks holding each other's CPU lock (`sched.c:176`); a RAPL sample
written between the EOF record and the timer's cancellation is never printed
(`sched.c:598`); a buffer that is full before its batch is complete is never read;
two adds at the limit of a table (above); a timer that is being moved to another CPU ticks
once more on the old one and samples another task's counter (`sched.c:232`); a driver whose
tool was killed uses the buffer it has destroyed; the differences between tool and driver
under `CommandLine`.

Fairness. In the channel: exit hooks and irq_works go on to their end (they run
with preemption or interrupts off), and the tool runs when it is runnable; nothing
is assumed of the monitored program, the RAPL timer or signals. In
`TaskTracking`: a hook that has begun finishes, and the tool is scheduled; no
process has to fork, move or exit. In `Session`: the tool and its child are scheduled
(a child that has a pending SIGINT dies), hooks and timer callbacks end, as long as the kernel
has not stopped; signals, the program's
end and the module's administrator are free to come or not.

Deadlock is checked in every passing run. `Over` is the state in which all has ended.

## 4. Proofs

`RingBufferProofs` proves, for every page size, number of pages, set of sample
sizes up to a page and batch, and for every client (any writer, any SMON_IOCREAD
numbers), `RbTypeCorrect`, `RecordsStayInPage`,
`UnreadNeverOverwritten` and `HeadNeverPassesTail`. The inductive invariant is
`RbTypeOK /\ InOnePage`; the two action properties need `RbTypeOK` only. The argument
is arithmetic modulo `Size`, collected in lemmas: `Count` and `Space` give the
remainders without modulo (by the order of the two positions), `Advance` and
`Stuffed` say how the distance from `tail` grows when `head` advances or goes to
the next page, `WordsAreFree` that the words of a record are outside the unread region;
`StoreEffect`, `StuffEffect` and `WriteEffect` put them together for each path of
`smon_rb_write`. The proof assumes `ConstantsAssumption` only; that the
number of pages is a power of two is not needed once masks are remainders.

`SampleChannelProofs` shows `ChannelImplementsRingBuffer`: each hook and each step
of the tool makes at most one call of the ring buffer, so the theorems above
hold of the channel (`ToolReadsStablePages`). `ChTypeCorrect` and
`ActiveCountsHolders` use the invariant `ChTypeOK /\ ActiveCounts`:
`active \in Nat` alone is not inductive, since a release subtracts one, and only the
count of the holders shows that it was positive. The finite-set theorems give how
the count changes when a child joins or a task leaves.

`SampleOrderProofs` proves `SamplesInOrder`, `CountersAgree`, `LoopEndsAtEof`,
`InfoComesFirst` and the action property `OverrunNeedsLostEof`. The words behind a PAD are
those of earlier turns, old headers included, so the pages alone do not tell where the
records are. The invariant `OrderInv` therefore states that there are unrolled positions
T <= U <= H of `tail`, the tool's cursor and `head`, and a set S of positions between U and
H where records start, such that each record ends where the next one starts and carries the
next number (`Chain`). A write adds one element to S, or two with a PAD (`Extend`), reading a record takes the first
one away (`Consume`), returning moves T to U. `BatchInv` says that the
samples a POLLIN round will read are there and no EOF among them, `RoundInv` relates `items`,
`consumed` and `n_samples` through a round, `EofInv` that there is no EOF while a task
holds the buffer, `FirstInv` that nothing can be written before the INFO sample. All but
`EofInv` and `FirstInv` hold until an overrun, after which the tool reads anything.

`ChannelImplementsStream` proves the refinement. The mapping finds a sample of the queue by its
number, so it needs that no two headers in the pages, stale ones included, have the same number
(`NumberInv`) and that every sample from the cursor to the last one written is there
(`HeldInv`, from the chain). With these a write is a `Put` (with a fork, a `JoinAndPut`) or a stutter, a record
that is read is `Deliver` or `Close`, and reading at `head` is `Break`, for which the writers must all be
gone (`HupInv`).

`SessionProofs`: `SessionTypeCorrect`, `BufferOutlivesWriters`, `ListedTasksAllocated`,
`PagesGivenBack`, `UnloadLeavesNothing`, `SamplesAddUp`. None of them is inductive: the
invariant relates the tool's position to the buffer (`BufferInv`), the open file and mapping
(`FilesInv`), the child's state (`ChildInv`), the task object and its reference (`TaskInv`) and
the timer (`TimerInv`), since what `smon_vma_close` may free depends on all of them. The part of
`UnloadLeavesNothing` is `UnloadInv`: tasks and timers are there only while the driver is. For the
energy, `Turns` says that the sums differ from the register by a number of whole turns,
which is the form in which `EnergyAdds` is preserved by additions.

`RegistryProofs`: `RegistryTypeCorrect`, `EvsetsOfDefinedEvents`, `TablesWithoutHoles`, for any
number of commands. Counts go back when an update is lost, so
`NoHole` has to be strengthened to every count a command has loaded or will store: each slot
below it is filled or is one that an add in progress still owes (`EventsCovered`,
`EvsetsCovered`); `LookedUp` keeps what the driver's look-up found until it is used.

`SamplingProofs`: `SamplingTypeCorrect`, `CountersFollowTasks`, `TicksAtHome`,
`CountsConserved`, for any tasks, CPUs and event-sets. `SchedInv` has a task on one CPU at
most, `QueueInv` where an irq_work can be pending or half done, `TimerInv` when a timer is armed
and that one that is elsewhere than its task is about to be stopped, `OwnInv` whose counter is
enabled. The sum is kept in three forms: with the
value of the running counter (`CountingInv`), with the unfinished sample
of a task that is out (`KeptInv`), and without either for other event-sets (`ClosedInv`). These
four hold until a stray read; the others, and with them `TicksAtHome`, always.

`TaskTrackingProofs`: `TrackingTypeCorrect` for all sessions; `ProcessesFollowed`,
`ListsAllocated`, `FreesComeLate` and `EnvirCountsTasks` for orderly ones, for any processes and
CPUs. `ListInv` gives the list of each process at each point of its hooks, `HoldInv` makes
`active` the number of processes with the buffer, from which it follows that none is left when
POLLHUP ends the sampling, and `FreedInv` that only ended processes are freed.

`CommandLineProofs`: `CommandLineTypeCorrect`, `CountersEnabled`, `EventsWellFormed`, for
tables of any size and any number of options. The invariant says what holds between two
suboptions: which enable bits agree already (`EvsetInv`), which bits of `perfevtsel` can be set
(`EventInv`).

Each inductive invariant was checked by TLC on the instance of its run first.

Assumptions. Each module's `ASSUME` is all its proofs use of the constants, and TLC evaluates
it in every run. `2^EnergyBits \in Nat \ {0}` (`Rapl`) and
`2^k \in Nat \ {0}` (`CommandLine`) are facts of arithmetic, stated because the provers know nothing of
exponentiation. `Null` and `Idle` differ from what is stored beside them (a null pointer, a
CPU's idle task). `MaxGpCtrs <= 32` (`CommandLine`) holds since the fixed counters have the
bits of `global_ctrl` from 32 on, and `MaxEvsets >= 2` since `roof` names event-sets 0 and 1;
both are far from the driver's values.

Only model-checked: the liveness properties `EofEndsLoop`, `BatchWakes`, `SessionEnds` and
`ChildReleased`, which need fairness and ENABLED. For the violation runs there is nothing to prove.

## 5. Plan

Done: the models of all components, and the proofs of all invariants, action properties and the
refinement that the passing runs check. Next: a killed tool whose task has descendants, with
`Session` and `TaskTracking` composed.

## 6. Not modelled

* MSR access (`msr.c`): single machine instructions.
* Page faults of the mapping and the argument checks and copies of the ioctls
  (`main.c`): they change no state of the driver.
* The printing of samples, the totals of `count_mode`, the list commands, the shell
  scripts: text only.
* What happens after memory was used, written or freed wrongly. The use of a destroyed buffer
  (`Session`) and of a missing event-set (`Sampling`) are steps after which the models stop; a store
  behind a table is dropped (`Registry`); a page array freed below its start and a hook that runs while
  the module goes (`Session`), and freed tasks on lists in an interrupted session
  (`TaskTracking`, `Orderly`), are excluded where the modules say so.
* The lost wake-up between the tool's look at the buffer and its sleep: `poll_wait` comes before
  the look, and the rest is the kernel's poll. One step in `SampleChannel`.
* `hrtimer_start` of a timer whose callback is running on another CPU: the callback is one step.
* Registration of a process that already runs: the tool always sets ENVOP_EXE.
