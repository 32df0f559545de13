------------------------------ MODULE Sampling ------------------------------
(***************************************************************************)
(* Counting and sampling of the monitored tasks (src/driver/sched.c,       *)
(* src/driver/sample.c, src/driver/pmc.c): on each switch the hooks stop   *)
(* the counters for the task that leaves the CPU and start them for the    *)
(* one that comes, a timer ends each PMC sample and goes on to the next    *)
(* event-set, and irq_works start and stop that timer.                     *)
(*                                                                         *)
(* The hardware of a CPU is one counter: it is enabled or not, programmed  *)
(* for an event-set, and has a value.  Time is left out: an armed timer    *)
(* may expire at any moment.  TaskTracking shows that the switch hook      *)
(* finds every monitored task, so lists do not appear here.                *)
(*                                                                         *)
(* A switch runs with interrupts off; the irq_works it queues run on the   *)
(* same CPU as soon as they are on again, before anything else there.  By  *)
(* then another CPU may already run the task that left, and nothing stops  *)
(* it between the lines of an irq_work that matter to the other CPUs.      *)
(*                                                                         *)
(* An event-set of the environment may be missing from the driver's table  *)
(* (roof does not check its own) and may be added during the session.  The *)
(* counter is then not started, and smon_sample_stop, which tests nothing, *)
(* reads through a null pointer: the model stops there.                    *)
(***************************************************************************)
EXTENDS Integers

CONSTANTS
  Tasks,      \* monitored tasks
  CPUs,
  Idle,       \* what a CPU runs when it runs no monitored task
  NEvsets,    \* event-sets the user asked for
  MaxEvents   \* bound: events in a behaviour

ASSUME SamplingAssumption ==
  /\ Idle \notin Tasks \cup CPUs
  /\ NEvsets \in Nat \ {0}
  /\ MaxEvents \in Nat

Evsets == 0 .. NEvsets - 1

VARIABLES
  running,   \* what each CPU runs
  alive,     \* the task has not passed its exit hook
  started,   \* the task has passed its exec, or was forked
  stat,      \* ENVOP_STAT of the session
  \* per task
  evset,     \* task->evset
  acc,       \* task->sample_pmc.pmc
  timer,     \* CPU the hrtimer is armed on, or Idle
  flag,      \* task->timer_flags & SMON_TIMER_ON
  \* per CPU
  startq,    \* queued irq_start_timer
  arming,    \* irq_start_timer that has set the flag and not armed the timer yet
  stopq,     \* queued irq_stop_timer
  enabled,   \* IA32_PERF_GLOBAL_CTRL
  prog,      \* event-set programmed
  val,       \* counter
  defined,   \* event-sets of the environment that are in the driver's table
  oops,      \* the kernel has stopped
  \* not in the code
  saved,     \* counts written to the ring buffer, by task and event-set
  lost,      \* counts of the samples smon_rb_write has dropped
  stray,     \* some sample was read from a counter that did not count for its task
  happened,  \* events that happened while the counter was enabled
  n          \* number of events

hwVars   == <<enabled, prog, val>>
taskVars == <<evset, acc, timer, flag>>
written  == <<saved, lost>>
world    == <<defined, oops>>
vars     == <<running, alive, started, stat, taskVars, startq, arming, stopq, hwVars,
              world, written, stray, happened, n>>

\* No irq_work is pending on c.
Quiet(c) == startq[c] = {} /\ stopq[c] = {}

\* smon_create_envir: "only 1 event-set in stat mode".
n_esids == IF stat THEN 1 ELSE NEvsets

smon_envir_next_evset_NoWrap(e) == e + 1

smon_envir_next_evset(e) == (e + 1) % n_esids

-----------------------------------------------------------------------------
(* pmc.c on the counter of CPU c, and sample.c.  Several calls happen in one *)
(* step, so that each says what it does to the state before the step.        *)

smon_pmc_set(c, e) == prog' = [prog EXCEPT ![c] = e]

smon_pmc_write_Zero(c, a) == val' = [val EXCEPT ![c] = 0]

smon_pmc_write(c, a) == val' = [val EXCEPT ![c] = a]

smon_pmc_start(c) == enabled' = [enabled EXCEPT ![c] = TRUE]

smon_pmc_stop_Missing(c) == UNCHANGED enabled

smon_pmc_stop(c) == enabled' = [enabled EXCEPT ![c] = FALSE]

smon_pmc_read(c) == val[c]

\* smon_sample_start: program event-set e, reload count a, start.  Without the event-set
\* it returns, and the counter stays as it is: on or off.
smon_sample_start(c, e, a, on) ==
  IF e \in defined
    THEN smon_pmc_set(c, e) /\ smon_pmc_write(c, a) /\ smon_pmc_start(c)
    ELSE enabled' = [enabled EXCEPT ![c] = on] /\ UNCHANGED <<prog, val>>

\* smon_sample_stop: the counter stops; what it has counted is smon_pmc_read(c).
smon_sample_stop(c) == smon_pmc_stop(c) /\ UNCHANGED <<prog, val>>

\* smon_pmc_read for t needs t's event-set (NoEvset is the other case).
Reads(t, c) ==
  /\ evset[t] \in defined
  /\ stray' = (stray \/ running[c] # t \/ ~enabled[c])

\* smon_sample_save of a sample with count a: written, or dropped by a full buffer;
\* in both cases reset, and on to the next event-set.
smon_sample_save(t, a) ==
  /\ \/ saved' = [saved EXCEPT ![t][evset[t]] = @ + a] /\ UNCHANGED lost
     \/ lost'  = [lost EXCEPT ![t][evset[t]] = @ + a] /\ UNCHANGED saved
  /\ acc'   = [acc EXCEPT ![t] = 0]
  /\ evset' = [evset EXCEPT ![t] = smon_envir_next_evset(@)]

\* The sample is kept with count a.
Keep(t, a) ==
  /\ acc' = [acc EXCEPT ![t] = a]
  /\ UNCHANGED <<written, evset>>

-----------------------------------------------------------------------------
(* smon_sched_switch.                                                      *)

Monitored(t) == t \in Tasks /\ alive[t] /\ started[t]

\* The scheduler: a task that is alive comes to a CPU when it runs nowhere.
CanRun(t) == t \in Tasks => started[t] /\ alive[t] /\ \A c \in CPUs : running[c] # t

\* smon_sched_task_in: the timer and the counter are started by the irq_work.
TaskIn(next, c) ==
  startq' = IF Monitored(next) THEN [startq EXCEPT ![c] = {next}] ELSE startq

\* A switch without a monitored task on its way out: smon_sched_task_in only.
SwitchIn(c, next) ==
  /\ ~stat
  /\ Quiet(c) /\ ~Monitored(running[c]) /\ next # running[c] /\ CanRun(next)
  /\ running' = [running EXCEPT ![c] = next]
  /\ TaskIn(next, c)
  /\ UNCHANGED <<alive, started, stat, taskVars, arming, stopq, hwVars, world, written, stray,
                 happened, n>>

\* irq_work_queue of irq_stop_timer on c: nothing when it is queued already.
QueueStop(t, c) ==
  stopq' = IF \E d \in CPUs : t \in stopq[d] THEN stopq ELSE [stopq EXCEPT ![c] = {t}]

\* smon_sched_task_out with the timer active: the counter stops, a sample whose
\* time is over (expired) is saved, and the timer is to be stopped.
SwitchOutTimer_FlagOn(c, next, expired) ==
  LET prev == running[c] IN
  /\ ~stat
  /\ Quiet(c) /\ Monitored(prev) /\ next # prev /\ CanRun(next)
  /\ timer[prev] # Idle
  /\ smon_sample_stop(c) /\ Reads(prev, c)
  /\ IF expired THEN smon_sample_save(prev, smon_pmc_read(c)) ELSE Keep(prev, smon_pmc_read(c))
  /\ QueueStop(prev, c)
  /\ running' = [running EXCEPT ![c] = next]
  /\ TaskIn(next, c)
  /\ UNCHANGED <<alive, started, stat, timer, flag, arming, world, happened, n>>

SwitchOutTimer(c, next, expired) ==
  LET prev == running[c] IN
  /\ ~stat
  /\ Quiet(c) /\ Monitored(prev) /\ next # prev /\ CanRun(next)
  /\ timer[prev] # Idle
  /\ smon_sample_stop(c) /\ Reads(prev, c)
  /\ IF expired THEN smon_sample_save(prev, smon_pmc_read(c)) ELSE Keep(prev, smon_pmc_read(c))
  /\ flag' = [flag EXCEPT ![prev] = FALSE]
  /\ QueueStop(prev, c)
  /\ running' = [running EXCEPT ![c] = next]
  /\ TaskIn(next, c)
  /\ UNCHANGED <<alive, started, stat, timer, arming, world, happened, n>>

\* smon_sched_task_out with the timer inactive: the counter stops, no more.
SwitchOut(c, next) ==
  LET prev == running[c] IN
  /\ ~stat
  /\ Quiet(c) /\ Monitored(prev) /\ next # prev /\ CanRun(next)
  /\ timer[prev] = Idle
  /\ smon_sample_stop(c) /\ Reads(prev, c)
  /\ Keep(prev, smon_pmc_read(c))
  /\ running' = [running EXCEPT ![c] = next]
  /\ TaskIn(next, c)
  /\ UNCHANGED <<alive, started, stat, timer, flag, arming, stopq, world, happened, n>>

\* A switch in stat mode: no timer, smon_sched_task_in starts the counter itself.
SwitchStat(c, next) ==
  LET prev == running[c] IN
  /\ stat
  /\ next # prev /\ CanRun(next)
  /\ IF Monitored(prev) THEN Keep(prev, smon_pmc_read(c)) /\ Reads(prev, c)
     ELSE UNCHANGED <<acc, evset, written, stray>>
  /\ IF Monitored(next)
       THEN smon_sample_start(c, evset[next], acc[next], enabled[c] /\ ~Monitored(prev))
     ELSE IF Monitored(prev) THEN smon_sample_stop(c)
     ELSE UNCHANGED hwVars
  /\ running' = [running EXCEPT ![c] = next]
  /\ UNCHANGED <<alive, started, stat, timer, flag, startq, arming, stopq, world, happened, n>>

-----------------------------------------------------------------------------
(* irq_works and the timer.                                                *)

\* start_timer_pmc sets the flag; the timer may still be armed on the CPU t comes from ...
start_timer_flag(t, c) ==
  /\ t \in startq[c] \ arming[c]
  /\ flag'   = [flag EXCEPT ![t] = TRUE]
  /\ arming' = [arming EXCEPT ![c] = @ \cup {t}]
  /\ UNCHANGED <<running, alive, started, stat, evset, acc, timer, startq, stopq, hwVars, world,
                 written, stray, happened, n>>

\* ... until hrtimer_start moves it here, and the counter is started.
start_timer_pmc(t, c) ==
  /\ t \in arming[c]
  /\ arming' = [arming EXCEPT ![c] = @ \ {t}]
  /\ startq' = [startq EXCEPT ![c] = @ \ {t}]
  /\ timer'  = [timer EXCEPT ![t] = c]
  /\ smon_sample_start(c, evset[t], acc[t], enabled[c])
  /\ UNCHANGED <<running, alive, started, stat, evset, acc, flag, stopq, world, written, stray,
                 happened, n>>

\* stop_timer_pmc: hrtimer_cancel, wherever the timer is armed.
stop_timer_pmc(t, c) ==
  /\ t \in stopq[c]
  /\ stopq' = [stopq EXCEPT ![c] = @ \ {t}]
  /\ timer' = [timer EXCEPT ![t] = Idle]
  /\ UNCHANGED <<running, alive, started, stat, evset, acc, flag, startq, arming, hwVars, world,
                 written, stray, happened, n>>

\* A timer interrupt on c waits for an irq_work that is being carried out there.
TimerFires(t, c) == timer[t] = c /\ arming[c] = {}

\* smon_sched_timer_tick on the CPU the timer is armed on: the counter of that CPU is
\* stopped, the sample is saved and the counter goes on with the next event-set.
TimerTick(t, c) ==
  /\ TimerFires(t, c) /\ flag[t]
  /\ Reads(t, c)
  /\ smon_sample_save(t, smon_pmc_read(c))
  /\ smon_sample_start(c, smon_envir_next_evset(evset[t]), 0, FALSE)
  /\ UNCHANGED <<running, alive, started, stat, timer, flag, startq, arming, stopq, world,
                 happened, n>>

\* The timer fires after smon_sched_task_out and before stop_timer_pmc: the flag is
\* off and nothing happens (HRTIMER_NORESTART).
TimerTickOff(t, c) ==
  /\ TimerFires(t, c) /\ ~flag[t]
  /\ timer' = [timer EXCEPT ![t] = Idle]
  /\ UNCHANGED <<running, alive, started, stat, evset, acc, flag, startq, arming, stopq, hwVars,
                 world, written, stray, happened, n>>

-----------------------------------------------------------------------------
(* Exec and exit, on the CPU the task runs on.                             *)

\* smon_sched_process_exec: smon_sched_task_in for a task that runs already.
Exec(t, c) ==
  /\ running[c] = Idle /\ Quiet(c)
  /\ ~started[t] /\ alive[t]
  /\ running' = [running EXCEPT ![c] = t]
  /\ started' = [started EXCEPT ![t] = TRUE]
  /\ IF stat THEN smon_sample_start(c, evset[t], acc[t], enabled[c]) /\ UNCHANGED startq
     ELSE startq' = [startq EXCEPT ![c] = {t}] /\ UNCHANGED hwVars
  /\ UNCHANGED <<alive, stat, taskVars, arming, stopq, world, written, stray, happened, n>>

\* smon_sched_process_fork: the child of a task that runs is on a list before it runs.
Fork(t, c) ==
  /\ Monitored(running[c])
  /\ ~started[t] /\ alive[t]
  /\ started' = [started EXCEPT ![t] = TRUE]
  /\ UNCHANGED <<running, alive, stat, taskVars, startq, arming, stopq, hwVars, world, written,
                 stray, happened, n>>

\* smon_sched_process_exit: timer cancelled, counter stopped, last sample saved.
Exit(t, c) ==
  /\ running[c] = t /\ Quiet(c) /\ Monitored(t)
  /\ timer' = [timer EXCEPT ![t] = Idle]
  /\ smon_sample_stop(c) /\ Reads(t, c)
  /\ smon_sample_save(t, smon_pmc_read(c))
  /\ alive' = [alive EXCEPT ![t] = FALSE]
  /\ UNCHANGED <<running, started, stat, flag, startq, arming, stopq, world, happened, n>>

\* The hardware counts an event of what c runs.
Event(c) ==
  /\ n < MaxEvents /\ Quiet(c) /\ running[c] \in Tasks
  /\ enabled[c]
  /\ val' = [val EXCEPT ![c] = @ + 1]
  /\ happened' = [happened EXCEPT ![running[c]][prog[c]] = @ + 1]
  /\ n' = n + 1
  /\ UNCHANGED <<running, alive, started, stat, taskVars, startq, arming, stopq, enabled, prog,
                 world, written, stray>>

-----------------------------------------------------------------------------
(* Event-sets that are not in the driver's table.                          *)

\* Another command adds event-set e (smon_set_evset).
Define(e) ==
  /\ defined' = defined \cup {e}
  /\ UNCHANGED <<running, alive, started, stat, taskVars, startq, arming, stopq, hwVars, oops,
                 written, stray, happened, n>>

\* A switch, an exit or a tick stops the sample of a task whose event-set is missing:
\* smon_pmc_read is handed a null pointer.
NoEvset(t, c) ==
  /\ evset[t] \notin defined
  /\ \/ running[c] = t /\ Quiet(c) /\ Monitored(t)
     \/ TimerFires(t, c) /\ flag[t]
  /\ oops' = TRUE
  /\ UNCHANGED <<running, alive, started, stat, taskVars, startq, arming, stopq, hwVars, defined,
                 written, stray, happened, n>>

-----------------------------------------------------------------------------

Init ==
  /\ running = [c \in CPUs |-> Idle]
  /\ alive = [t \in Tasks |-> TRUE]
  /\ started = [t \in Tasks |-> FALSE]
  /\ stat \in BOOLEAN
  /\ evset = [t \in Tasks |-> 0]
  /\ acc = [t \in Tasks |-> 0]
  /\ timer = [t \in Tasks |-> Idle]
  /\ flag = [t \in Tasks |-> FALSE]
  /\ startq = [c \in CPUs |-> {}] /\ stopq = [c \in CPUs |-> {}]
  /\ arming = [c \in CPUs |-> {}]
  /\ enabled = [c \in CPUs |-> FALSE]
  /\ prog = [c \in CPUs |-> 0] /\ val = [c \in CPUs |-> 0]
  /\ defined \in SUBSET Evsets
  /\ oops = FALSE
  /\ saved = [t \in Tasks |-> [e \in Evsets |-> 0]]
  /\ lost = [t \in Tasks |-> [e \in Evsets |-> 0]]
  /\ stray = FALSE
  /\ happened = [t \in Tasks |-> [e \in Evsets |-> 0]]
  /\ n = 0

Switch(c, next) ==
  \/ SwitchIn(c, next)
  \/ \E expired \in BOOLEAN : SwitchOutTimer(c, next, expired)
  \/ SwitchOut(c, next)
  \/ SwitchStat(c, next)

\* Every task is gone and nothing is left to do, or the kernel has stopped.
Over ==
  /\ \/ /\ \A t \in Tasks : ~alive[t]
        /\ \A c \in CPUs : running[c] = Idle /\ Quiet(c)
     \/ oops
  /\ UNCHANGED vars

IrqWork(t, c) == start_timer_flag(t, c) \/ start_timer_pmc(t, c) \/ stop_timer_pmc(t, c)
Timer(t, c)   == TimerTick(t, c) \/ TimerTickOff(t, c)
Process(t, c) == Exec(t, c) \/ Fork(t, c) \/ Exit(t, c)

Step ==
  \/ \E c \in CPUs, next \in Tasks \cup {Idle} : Switch(c, next)
  \/ \E t \in Tasks, c \in CPUs :
       IrqWork(t, c) \/ Timer(t, c) \/ Process(t, c) \/ NoEvset(t, c)
  \/ \E c \in CPUs : Event(c)
  \/ \E e \in Evsets \ defined : Define(e)

Next == (~oops /\ Step) \/ Over

Spec == Init /\ [][Next]_vars

-----------------------------------------------------------------------------
(* Properties.                                                             *)

TypeOK ==
  /\ running \in [CPUs -> Tasks \cup {Idle}]
  /\ alive \in [Tasks -> BOOLEAN] /\ started \in [Tasks -> BOOLEAN]
  /\ stat \in BOOLEAN
  /\ evset \in [Tasks -> Evsets]
  /\ acc \in [Tasks -> Nat]
  /\ timer \in [Tasks -> CPUs \cup {Idle}]
  /\ flag \in [Tasks -> BOOLEAN]
  /\ startq \in [CPUs -> SUBSET Tasks] /\ stopq \in [CPUs -> SUBSET Tasks]
  /\ arming \in [CPUs -> SUBSET Tasks]
  /\ enabled \in [CPUs -> BOOLEAN]
  /\ prog \in [CPUs -> Evsets] /\ val \in [CPUs -> Nat]
  /\ defined \in SUBSET Evsets /\ oops \in BOOLEAN /\ stray \in BOOLEAN
  /\ saved \in [Tasks -> [Evsets -> Nat]] /\ lost \in [Tasks -> [Evsets -> Nat]]
  /\ happened \in [Tasks -> [Evsets -> Nat]]
  /\ n \in Nat

\* A counter runs only for the monitored task its CPU runs, programmed for that
\* task's current event-set: nobody else's events get into a sample.  (Until a sample
\* is read from a counter that was not its task's: see TickOnOwnCpu.)
CountersOwned ==
  ~stray =>
    \A c \in CPUs : enabled[c] => Monitored(running[c]) /\ prog[c] = evset[running[c]]

\* What is in the counter or in the unfinished sample of t.
Pending(t) ==
  IF \E c \in CPUs : running[c] = t /\ enabled[c]
    THEN val[CHOOSE c \in CPUs : running[c] = t /\ enabled[c]]
    ELSE acc[t]

\* No event is lost and none is counted twice: through switches, migrations, ticks
\* and changes of the event-set, the samples handed to smon_rb_write, the dropped
\* ones included, and the unfinished one add up to the events that happened while
\* the task was counted.
Conserved ==
  ~stray =>
    \A t \in Tasks, e \in Evsets :
      happened[t][e] = saved[t][e] + lost[t][e] + IF evset[t] = e THEN Pending(t) ELSE 0

\* A tick that takes a sample runs on the CPU that runs its task: otherwise it
\* would stop the counter of another CPU and read what that counted.  The one
\* exception is short: the task's new CPU is between the two lines of
\* start_timer_pmc and the irq_work that stops the old timer is still on its way.
TickOnOwnCpu ==
  \A t \in Tasks : timer[t] # Idle /\ flag[t] /\ running[timer[t]] # t =>
    /\ \E c \in CPUs : running[c] = t /\ t \in arming[c]
    /\ \E d \in CPUs : t \in stopq[d]

\* smon.h: timer_flags is "Used to avoid conflicts between irq and timer
\* interrupts": a task that runs with its irq_works done has its timer armed,
\* so that its sample ends and its event-sets take turns.
TimerRuns ==
  ~stat => \A c \in CPUs : Monitored(running[c]) /\ Quiet(c) => timer[running[c]] = c

=============================================================================
