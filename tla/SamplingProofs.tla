--------------------------- MODULE SamplingProofs ---------------------------
(***************************************************************************)
(* Counting and sampling (Sampling) for every number of tasks, CPUs and    *)
(* event-sets.                                                             *)
(***************************************************************************)
EXTENDS Sampling, TLAPS

-----------------------------------------------------------------------------
(* The inductive invariant.                                                *)

\* The scheduler runs a task on one CPU, and only after its exec or fork.
SchedInv ==
  \A c \in CPUs : running[c] \in Tasks =>
    started[running[c]] /\ \A d \in CPUs : running[d] = running[c] => d = c

\* The irq_work that starts a timer is queued where its task runs; when it is half
\* done the flag is on.
QueueInv ==
  \A c \in CPUs :
    /\ \A t \in startq[c] : running[c] = t /\ Monitored(t) /\ ~stat
    /\ \A t \in arming[c] : t \in startq[c] /\ flag[t]

\* Timers are for tasks that live.  A timer with its flag on is on the task's own CPU,
\* unless the irq_work there is half done; a timer that is elsewhere, or that has its flag
\* off, is about to be stopped.
TimerInv ==
  \A t \in Tasks : timer[t] # Idle =>
    /\ Monitored(t) /\ ~stat
    /\ flag[t] /\ running[timer[t]] # t => \E c \in CPUs : running[c] = t /\ t \in arming[c]
    /\ ~flag[t] \/ running[timer[t]] # t => \E d \in CPUs : t \in stopq[d]

\* A counter runs for the task's event-set, and not yet while the irq_work is on its way.
OwnInv ==
  \A c \in CPUs : enabled[c] =>
    Monitored(running[c]) /\ prog[c] = evset[running[c]] /\ running[c] \notin startq[c]

\* The counts of event-set e of t that were handed to smon_rb_write.
Handed(t, e) == saved[t][e] + lost[t][e]

\* All events of the event-sets that do not have their turn are in samples handed over.
ClosedInv ==
  \A t \in Tasks : \A e \in Evsets \ {evset[t]} : happened[t][e] = Handed(t, e)

\* The event-set that has its turn: the rest is in the counter of the CPU that counts for
\* the task, or else in the unfinished sample.
Balance(t, a) == happened[t][evset[t]] = Handed(t, evset[t]) + a

CountingInv == \A c \in CPUs : enabled[c] => Balance(running[c], val[c])

KeptInv ==
  \A t \in Tasks : (\A c \in CPUs : running[c] = t => ~enabled[c]) => Balance(t, acc[t])

SInv == TypeOK /\ SchedInv /\ QueueInv /\ TimerInv

\* The counts are in order as long as every sample was read from its task's own counter.
Counts == OwnInv /\ ClosedInv /\ CountingInv /\ KeptInv
CInv == ~stray => Counts

-----------------------------------------------------------------------------
(* Helpers.                                                                *)

\* smon_envir_next_evset stays within the event-sets of the environment.
LEMMA NextEvset ==
  ASSUME stat \in BOOLEAN, NEW e \in Evsets
  PROVE  smon_envir_next_evset(e) \in Evsets
<1>1. n_esids \in 1 .. NEvsets /\ e + 1 \in Nat
  BY SamplingAssumption DEF n_esids, Evsets
<1>2. (e + 1) % n_esids \in 0 .. n_esids - 1
  BY <1>1
<1> QED  BY <1>1, <1>2, SamplingAssumption DEF smon_envir_next_evset, Evsets

\* Adding a to the counts of one task and event-set.
LEMMA AddCounts ==
  ASSUME NEW f \in [Tasks -> [Evsets -> Nat]], NEW t \in Tasks, NEW e \in Evsets, NEW a \in Nat
  PROVE  LET g == [f EXCEPT ![t][e] = @ + a]
         IN  /\ g \in [Tasks -> [Evsets -> Nat]]
             /\ g[t][e] = f[t][e] + a
             /\ \A x \in Evsets \ {e} : g[t][x] = f[t][x]
             /\ \A u \in Tasks \ {t} : g[u] = f[u]
<1> DEFINE g == [f EXCEPT ![t] = [f[t] EXCEPT ![e] = f[t][e] + a]]
<1>1. f[t] \in [Evsets -> Nat] /\ f[t][e] + a \in Nat
  OBVIOUS
<1>2. [f[t] EXCEPT ![e] = f[t][e] + a] \in [Evsets -> Nat]
  BY <1>1
<1> QED  BY <1>1, <1>2

\* What smon_sample_save changes, whether the sample is written or dropped.
LEMMA SaveEffect ==
  ASSUME TypeOK, NEW t \in Tasks, NEW a \in Nat, smon_sample_save(t, a)
  PROVE  /\ saved' \in [Tasks -> [Evsets -> Nat]] /\ lost' \in [Tasks -> [Evsets -> Nat]]
         /\ acc' \in [Tasks -> Nat] /\ evset' \in [Tasks -> Evsets]
         /\ \A u \in Tasks \ {t} : saved'[u] = saved[u] /\ lost'[u] = lost[u] /\ acc'[u] = acc[u] /\ evset'[u] = evset[u]
         /\ acc'[t] = 0 /\ evset'[t] = smon_envir_next_evset(evset[t])
         /\ saved'[t][evset[t]] + lost'[t][evset[t]] = Handed(t, evset[t]) + a
         /\ \A e \in Evsets \ {evset[t]} : saved'[t][e] = saved[t][e] /\ lost'[t][e] = lost[t][e]
<1>1. evset[t] \in Evsets /\ smon_envir_next_evset(evset[t]) \in Evsets
  BY NextEvset DEF TypeOK
<1>2. evset' \in [Tasks -> Evsets] /\ acc' \in [Tasks -> Nat] /\ acc'[t] = 0
      /\ evset'[t] = smon_envir_next_evset(evset[t])
      /\ \A u \in Tasks \ {t} : acc'[u] = acc[u] /\ evset'[u] = evset[u]
  BY <1>1 DEF TypeOK, smon_sample_save
<1>3. saved[t][evset[t]] \in Nat /\ lost[t][evset[t]] \in Nat
  BY <1>1 DEF TypeOK
<1>4. CASE saved' = [saved EXCEPT ![t][evset[t]] = @ + a] /\ UNCHANGED lost
  <2>1. /\ saved' \in [Tasks -> [Evsets -> Nat]] /\ saved'[t][evset[t]] = saved[t][evset[t]] + a
        /\ \A x \in Evsets \ {evset[t]} : saved'[t][x] = saved[t][x]
        /\ \A u \in Tasks \ {t} : saved'[u] = saved[u]
    BY <1>1, <1>4, AddCounts DEF TypeOK
  <2> QED  BY <1>2, <1>3, <1>4, <2>1 DEF Handed, TypeOK
<1>5. CASE lost' = [lost EXCEPT ![t][evset[t]] = @ + a] /\ UNCHANGED saved
  <2>1. /\ lost' \in [Tasks -> [Evsets -> Nat]] /\ lost'[t][evset[t]] = lost[t][evset[t]] + a
        /\ \A x \in Evsets \ {evset[t]} : lost'[t][x] = lost[t][x]
        /\ \A u \in Tasks \ {t} : lost'[u] = lost[u]
    BY <1>1, <1>5, AddCounts DEF TypeOK
  <2> QED  BY <1>2, <1>3, <1>5, <2>1 DEF Handed, TypeOK
<1> QED  BY <1>4, <1>5 DEF smon_sample_save

\* The same for a sample that is kept.
LEMMA KeepEffect ==
  ASSUME TypeOK, NEW t \in Tasks, NEW a \in Nat, Keep(t, a)
  PROVE  /\ acc' \in [Tasks -> Nat] /\ acc'[t] = a /\ \A u \in Tasks \ {t} : acc'[u] = acc[u]
         /\ UNCHANGED <<saved, lost, evset>>
BY DEF TypeOK, Keep, written

\* A sample that is saved or kept stays in its type and is nobody else's.
LEMMA SampleTypes ==
  ASSUME TypeOK, NEW t \in Tasks, NEW a \in Nat, smon_sample_save(t, a) \/ Keep(t, a)
  PROVE  /\ saved' \in [Tasks -> [Evsets -> Nat]] /\ lost' \in [Tasks -> [Evsets -> Nat]]
         /\ acc' \in [Tasks -> Nat] /\ evset' \in [Tasks -> Evsets]
         /\ \A u \in Tasks \ {t} : saved'[u] = saved[u] /\ lost'[u] = lost[u] /\ acc'[u] = acc[u] /\ evset'[u] = evset[u]
<1>1. CASE smon_sample_save(t, a)
  BY <1>1, SaveEffect
<1>2. CASE Keep(t, a)
  BY <1>2, KeepEffect DEF TypeOK
<1> QED  BY <1>1, <1>2

\* A sample that is stopped with all the counts of its task, whether it is saved or kept,
\* leaves them in the samples handed over and in the unfinished one.
LEMMA AfterSample ==
  ASSUME TypeOK, ClosedInv, NEW t \in Tasks, NEW a \in Nat, Balance(t, a), UNCHANGED happened,
         smon_sample_save(t, a) \/ Keep(t, a)
  PROVE  ClosedInv' /\ Balance(t, acc[t])'
<1>0. \A u \in Tasks \ {t} : saved'[u] = saved[u] /\ lost'[u] = lost[u] /\ evset'[u] = evset[u]
  BY SampleTypes
<1>1. CASE smon_sample_save(t, a)
  <2>1. \A e \in Evsets : happened'[t][e] = saved'[t][e] + lost'[t][e]
    <3> SUFFICES ASSUME NEW e \in Evsets
                 PROVE  happened'[t][e] = saved'[t][e] + lost'[t][e]
      OBVIOUS
    <3>1. CASE e = evset[t]
      BY <3>1, <1>1, SaveEffect DEF Balance
    <3>2. CASE e # evset[t]
      BY <3>2, <1>1, SaveEffect DEF ClosedInv, Handed
    <3> QED  BY <3>1, <3>2
  <2>2. /\ evset'[t] \in Evsets /\ acc'[t] = 0
        /\ saved'[t][evset'[t]] \in Nat /\ lost'[t][evset'[t]] \in Nat
    BY <1>1, SaveEffect
  <2>3. Balance(t, acc[t])'
    BY <2>1, <2>2 DEF Balance, Handed
  <2>4. ClosedInv'
    BY <1>0, <2>1 DEF ClosedInv, Handed
  <2> QED  BY <2>3, <2>4
<1>2. CASE Keep(t, a)
  BY <1>2, KeepEffect DEF ClosedInv, Balance, Handed
<1> QED  BY <1>1, <1>2

\* What another task has counted is not touched.
LEMMA Others ==
  ASSUME NEW u, UNCHANGED happened, saved'[u] = saved[u], lost'[u] = lost[u], evset'[u] = evset[u], NEW a,
         Balance(u, a)
  PROVE  happened'[u][evset'[u]] = saved'[u][evset'[u]] + lost'[u][evset'[u]] + a
BY DEF Balance, Handed

\* A sample is read: the properties go on only when the counter was the task's.
LEMMA OwnRead ==
  ASSUME CInv, NEW t, NEW c, Reads(t, c), ~stray'
  PROVE  ~stray /\ Counts /\ running[c] = t /\ enabled[c]
BY DEF CInv, Reads

\* The task leaves CPU c: its sample is stopped and saved or kept.
LEMMA LeaveCpu ==
  ASSUME SInv, CInv, NEW c \in CPUs, NEW next \in Tasks \cup {Idle},
         running[c] \in Tasks, next # running[c], CanRun(next),
         smon_sample_stop(c), Reads(running[c], c), TaskIn(next, c),
         UNCHANGED <<happened, alive, started>>, running' = [running EXCEPT ![c] = next],
         smon_sample_save(running[c], val[c]) \/ Keep(running[c], val[c])
  PROVE  CInv'
<1> SUFFICES ASSUME ~stray'
             PROVE  Counts'
  BY DEF CInv
<1>1. PICK prev \in Tasks : prev = running[c]
  OBVIOUS
<1>a. Counts /\ enabled[c]
  BY OwnRead
<1>b. val[c] \in Nat /\ Balance(prev, val[c])
  BY <1>1, <1>a DEF Counts, CountingInv, SInv, TypeOK
<1>2. /\ ClosedInv' /\ Balance(prev, acc[prev])'
      /\ \A u \in Tasks \ {prev} :
           saved'[u] = saved[u] /\ lost'[u] = lost[u] /\ acc'[u] = acc[u] /\ evset'[u] = evset[u]
  BY <1>1, <1>a, <1>b, AfterSample, SampleTypes DEF SInv, Counts
<1>3. /\ ~enabled'[c] /\ running'[c] = next
      /\ \A d \in CPUs \ {c} : enabled'[d] = enabled[d] /\ running'[d] = running[d] /\ running[d] # prev
      /\ UNCHANGED <<val, prog>>
  BY <1>1 DEF SInv, TypeOK, SchedInv, smon_sample_stop, smon_pmc_stop
<1>4. OwnInv'
  <2> SUFFICES ASSUME NEW d \in CPUs, enabled'[d]
               PROVE  Monitored(running[d])' /\ prog'[d] = evset'[running'[d]] /\ running'[d] \notin startq'[d]
    BY DEF OwnInv
  <2>1. d # c /\ enabled[d] /\ running'[d] = running[d] /\ running[d] # prev
    BY <1>3
  <2>2. Monitored(running[d]) /\ prog[d] = evset[running[d]] /\ running[d] \notin startq[d]
    BY <2>1, <1>a DEF Counts, OwnInv
  <2>3. startq'[d] = startq[d]
    BY <2>1 DEF TaskIn, SInv, TypeOK
  <2> QED  BY <2>1, <2>2, <2>3, <1>2, <1>3 DEF Monitored
<1>5. CountingInv'
  <2> SUFFICES ASSUME NEW d \in CPUs, enabled'[d]
               PROVE  Balance(running[d], val[d])'
    BY DEF CountingInv
  <2>1. d # c /\ enabled[d] /\ running[d] \in Tasks \ {prev} /\ running'[d] = running[d] /\ val'[d] = val[d]
    BY <1>3, <1>a DEF Counts, OwnInv, Monitored
  <2>2. Balance(running[d], val[d])
    BY <2>1, <1>a DEF Counts, CountingInv
  <2> QED  BY <2>1, <2>2, <1>2, Others DEF Balance, Handed
<1>6. KeptInv'
  <2> SUFFICES ASSUME NEW u \in Tasks, \A d \in CPUs : running'[d] = u => ~enabled'[d]
               PROVE  Balance(u, acc[u])'
    BY DEF KeptInv
  <2>1. CASE u = prev
    BY <2>1, <1>2
  <2>2. CASE u # prev
    <3>1. \A d \in CPUs : running[d] = u => ~enabled[d]
      BY <2>2, <1>1, <1>3
    <3>2. Balance(u, acc[u])
      BY <3>1, <1>a DEF Counts, KeptInv
    <3> QED  BY <2>2, <3>2, <1>2, Others DEF Balance, Handed
  <2> QED  BY <2>1, <2>2
<1> QED  BY <1>2, <1>4, <1>5, <1>6 DEF Counts

-----------------------------------------------------------------------------
(* smon_sched_switch.                                                      *)

LEMMA SwitchInStep ==
  ASSUME SInv, CInv, NEW c \in CPUs, NEW next \in Tasks \cup {Idle}, SwitchIn(c, next)
  PROVE  SInv' /\ CInv'
<1> USE SamplingAssumption DEF SInv, TypeOK, Monitored
<1>0. /\ UNCHANGED <<alive, started, stat, evset, acc, timer, flag, arming, stopq, enabled, prog, val, defined, oops,
                     saved, lost, stray, happened, n>>
      /\ ~stat /\ startq[c] = {} /\ ~Monitored(running[c]) /\ next # running[c] /\ CanRun(next)
      /\ running' = [running EXCEPT ![c] = next] /\ TaskIn(next, c)
  BY DEF SwitchIn, Quiet, taskVars, hwVars, world, written
<1>1. TypeOK'
  BY <1>0 DEF TaskIn
<1>2. SchedInv'
  BY <1>0 DEF CanRun, SchedInv
<1>3. QueueInv'
  BY <1>0 DEF CanRun, TaskIn, SchedInv, QueueInv
<1>4. TimerInv'
  <2> SUFFICES ASSUME NEW t \in Tasks, timer'[t] # Idle
               PROVE  /\ Monitored(t)' /\ ~stat'
                      /\ flag'[t] /\ running'[timer'[t]] # t =>
                           \E x \in CPUs : running'[x] = t /\ t \in arming'[x]
                      /\ ~flag'[t] \/ running'[timer'[t]] # t => \E d \in CPUs : t \in stopq'[d]
    BY DEF TimerInv
  <2>1. Monitored(t) /\ ~stat /\ running[c] # t /\ timer[t] \in CPUs
    BY <1>0 DEF TimerInv
  <2>2. \A x \in CPUs : running[x] = t => running'[x] = t
    BY <2>1, <1>0
  <2> QED  BY <1>0, <2>1, <2>2 DEF TimerInv, CanRun
<1>5. CInv'
  <2> SUFFICES ASSUME Counts
               PROVE  Counts'
    BY <1>0 DEF CInv
  <2>1. ~enabled[c]
    BY <1>0 DEF Counts, OwnInv
  <2>2. OwnInv'
    BY <1>0, <2>1 DEF Counts, OwnInv, TaskIn
  <2>3. CountingInv' /\ KeptInv' /\ ClosedInv'
    BY <1>0, <2>1 DEF Counts, CountingInv, KeptInv, ClosedInv, Balance, Handed
  <2> QED  BY <2>2, <2>3 DEF Counts
<1> QED  BY <1>1, <1>2, <1>3, <1>4, <1>5

LEMMA SwitchOutTimerStep ==
  ASSUME SInv, CInv, NEW c \in CPUs, NEW next \in Tasks \cup {Idle}, NEW expired \in BOOLEAN,
         SwitchOutTimer(c, next, expired)
  PROVE  SInv' /\ CInv'
<1>0. PICK prev \in Tasks : prev = running[c] /\ Monitored(prev) /\ val[c] \in Nat
  BY DEF SwitchOutTimer, Monitored, SInv, TypeOK
<1>a. smon_sample_save(prev, val[c]) \/ Keep(prev, val[c])
  BY <1>0 DEF SwitchOutTimer, smon_pmc_read
<1>b. /\ saved' \in [Tasks -> [Evsets -> Nat]] /\ lost' \in [Tasks -> [Evsets -> Nat]]
      /\ acc' \in [Tasks -> Nat] /\ evset' \in [Tasks -> Evsets]
  BY <1>0, <1>a, SampleTypes DEF SInv
<1>c. /\ UNCHANGED <<alive, started, stat, timer, arming, defined, oops, happened, n, prog, val>>
      /\ ~stat /\ startq[c] = {} /\ stopq[c] = {} /\ next # prev /\ CanRun(next)
      /\ flag' = [flag EXCEPT ![prev] = FALSE]
      /\ running' = [running EXCEPT ![c] = next]
      /\ enabled' = [enabled EXCEPT ![c] = FALSE]
      /\ TaskIn(next, c) /\ QueueStop(prev, c)
      /\ stray' = (stray \/ running[c] # prev \/ ~enabled[c])
  BY <1>0 DEF SwitchOutTimer, smon_sample_stop, smon_pmc_stop, Quiet, Reads, world
<1>6. CInv'
  <2>1. smon_sample_stop(c) /\ Reads(prev, c)
    BY <1>0 DEF SwitchOutTimer
  <2> QED  BY <2>1, <1>0, <1>a, <1>c, LeaveCpu
<1> USE SamplingAssumption DEF SInv, TypeOK, Monitored
<1>1. TypeOK'
  <2>1. stopq' \in [CPUs -> SUBSET Tasks]
    BY <1>c DEF QueueStop
  <2>2. startq' \in [CPUs -> SUBSET Tasks]
    BY <1>c DEF TaskIn
  <2>3. stray' \in BOOLEAN /\ flag' \in [Tasks -> BOOLEAN] /\ enabled' \in [CPUs -> BOOLEAN]
    BY <1>c
  <2> QED  BY <1>b, <1>c, <2>1, <2>2, <2>3
<1>2. SchedInv'
  BY <1>c DEF CanRun, SchedInv
<1>3. QueueInv'
  BY <1>0, <1>c DEF CanRun, TaskIn, SchedInv, QueueInv
<1>4. TimerInv'
  <2>1. /\ \E d \in CPUs : prev \in stopq'[d]
        /\ \A u \in Tasks : (\E d \in CPUs : u \in stopq[d]) => \E d \in CPUs : u \in stopq'[d]
    BY <1>c DEF QueueStop
  <2>2. \A x \in CPUs : running[x] # prev => running'[x] = running[x]
    BY <1>0, <1>c
  <2> SUFFICES ASSUME NEW t \in Tasks, timer'[t] # Idle
               PROVE  /\ Monitored(t)' /\ ~stat'
                      /\ flag'[t] /\ running'[timer'[t]] # t =>
                           \E x \in CPUs : running'[x] = t /\ t \in arming'[x]
                      /\ ~flag'[t] \/ running'[timer'[t]] # t => \E d \in CPUs : t \in stopq'[d]
    BY DEF TimerInv
  <2>3. CASE t = prev
    BY <2>1, <2>3, <1>0, <1>c
  <2>4. CASE t # prev
    <3>1. flag'[t] = flag[t] /\ timer'[t] = timer[t] /\ timer[t] \in CPUs
      BY <2>4, <1>c
    <3>2. \A x \in CPUs : running[x] = t => running'[x] = t
      BY <2>2, <2>4
    <3> QED  BY <2>1, <2>4, <3>1, <3>2, <1>c DEF TimerInv
  <2> QED  BY <2>3, <2>4
<1> QED  BY <1>1, <1>2, <1>3, <1>4, <1>6

LEMMA SwitchOutStep ==
  ASSUME SInv, CInv, NEW c \in CPUs, NEW next \in Tasks \cup {Idle}, SwitchOut(c, next)
  PROVE  SInv' /\ CInv'
<1>0. PICK prev \in Tasks : prev = running[c] /\ Monitored(prev) /\ timer[prev] = Idle /\ val[c] \in Nat
  BY DEF SwitchOut, Monitored, SInv, TypeOK
<1>a. Keep(prev, val[c])
  BY <1>0 DEF SwitchOut, smon_pmc_read
<1>b. /\ saved' \in [Tasks -> [Evsets -> Nat]] /\ lost' \in [Tasks -> [Evsets -> Nat]]
      /\ acc' \in [Tasks -> Nat] /\ evset' \in [Tasks -> Evsets]
  BY <1>0, <1>a, SampleTypes DEF SInv
<1>c. /\ UNCHANGED <<alive, started, stat, timer, flag, arming, stopq, defined, oops, happened, n, prog, val>>
      /\ ~stat /\ startq[c] = {} /\ next # prev /\ CanRun(next)
      /\ running' = [running EXCEPT ![c] = next]
      /\ enabled' = [enabled EXCEPT ![c] = FALSE]
      /\ TaskIn(next, c)
      /\ stray' = (stray \/ running[c] # prev \/ ~enabled[c])
  BY <1>0 DEF SwitchOut, smon_sample_stop, smon_pmc_stop, Quiet, Reads, world
<1>6. CInv'
  <2>1. smon_sample_stop(c) /\ Reads(prev, c)
    BY <1>0 DEF SwitchOut
  <2> QED  BY <2>1, <1>0, <1>a, <1>c, LeaveCpu
<1> USE SamplingAssumption DEF SInv, TypeOK, Monitored
<1>1. TypeOK'
  <2>1. startq' \in [CPUs -> SUBSET Tasks]
    BY <1>c DEF TaskIn
  <2>2. stray' \in BOOLEAN /\ enabled' \in [CPUs -> BOOLEAN]
    BY <1>c
  <2> QED  BY <1>b, <1>c, <2>1, <2>2
<1>2. SchedInv'
  BY <1>c DEF CanRun, SchedInv
<1>3. QueueInv'
  BY <1>0, <1>c DEF CanRun, TaskIn, SchedInv, QueueInv
<1>4. TimerInv'
  <2> SUFFICES ASSUME NEW t \in Tasks, timer'[t] # Idle
               PROVE  /\ Monitored(t)' /\ ~stat'
                      /\ flag'[t] /\ running'[timer'[t]] # t =>
                           \E x \in CPUs : running'[x] = t /\ t \in arming'[x]
                      /\ ~flag'[t] \/ running'[timer'[t]] # t => \E d \in CPUs : t \in stopq'[d]
    BY DEF TimerInv
  <2>1. t # prev /\ timer[t] \in CPUs
    BY <1>0, <1>c
  <2>2. \A x \in CPUs : running[x] = t => running'[x] = t
    BY <2>1, <1>0, <1>c
  <2> QED  BY <2>1, <2>2, <1>c DEF TimerInv
<1> QED  BY <1>1, <1>2, <1>3, <1>4, <1>6

LEMMA SwitchStatStep ==
  ASSUME SInv, CInv, NEW c \in CPUs, NEW next \in Tasks \cup {Idle}, SwitchStat(c, next)
  PROVE  SInv' /\ CInv'
<1> USE SamplingAssumption DEF SInv, TypeOK, Monitored
<1>0. /\ stat /\ \A d \in CPUs : startq[d] = {}
      /\ running' = [running EXCEPT ![c] = next] /\ next # running[c] /\ CanRun(next)
      /\ UNCHANGED <<alive, started, stat, timer, flag, startq, arming, stopq, defined, oops, happened, n>>
  BY DEF SwitchStat, QueueInv, world
\* What becomes of the counter of c, ...
<1>a. /\ \A d \in CPUs \ {c} : enabled'[d] = enabled[d] /\ prog'[d] = prog[d] /\ val'[d] = val[d]
      /\ enabled' \in [CPUs -> BOOLEAN] /\ prog' \in [CPUs -> Evsets] /\ val' \in [CPUs -> Nat]
      /\ enabled'[c] => \/ Monitored(next) /\ prog'[c] = evset[next] /\ val'[c] = acc[next]
                        \/ enabled[c] /\ ~Monitored(running[c])
  <2>1. CASE Monitored(next) /\ evset[next] \in defined
    <3>1. evset[next] \in Evsets /\ acc[next] \in Nat
      BY <2>1
    <3>2. /\ prog' = [prog EXCEPT ![c] = evset[next]] /\ val' = [val EXCEPT ![c] = acc[next]]
          /\ enabled' = [enabled EXCEPT ![c] = TRUE]
      BY <2>1 DEF SwitchStat, smon_sample_start, smon_pmc_set, smon_pmc_write, smon_pmc_start
    <3> QED  BY <2>1, <3>1, <3>2
  <2>2. CASE Monitored(next) /\ evset[next] \notin defined
    <3> DEFINE on == enabled[c] /\ ~Monitored(running[c])
    <3>1. enabled' = [enabled EXCEPT ![c] = on] /\ UNCHANGED <<prog, val>>
      BY <2>2 DEF SwitchStat, smon_sample_start
    <3>2. on \in BOOLEAN
      OBVIOUS
    <3> QED  BY <3>1, <3>2
  <2>3. CASE ~Monitored(next) /\ Monitored(running[c])
    BY <2>3 DEF SwitchStat, smon_sample_stop, smon_pmc_stop
  <2>4. CASE ~Monitored(next) /\ ~Monitored(running[c])
    BY <2>4 DEF SwitchStat, hwVars
  <2> QED  BY <2>1, <2>2, <2>3, <2>4
\* ... and of the sample of the task that leaves.
<1>c. /\ UNCHANGED <<saved, lost, evset>> /\ acc' \in [Tasks -> Nat]
      /\ \A u \in Tasks : acc'[u] = IF u = running[c] /\ Monitored(u) THEN val[c] ELSE acc[u]
      /\ stray' = (stray \/ (Monitored(running[c]) /\ ~enabled[c]))
  BY DEF SwitchStat, Keep, smon_pmc_read, Reads, written
<1>1. TypeOK'
  BY <1>0, <1>a, <1>c
<1>2. SchedInv'
  BY <1>0 DEF CanRun, SchedInv
<1>3. QueueInv'
  BY <1>0 DEF QueueInv
<1>4. TimerInv'
  BY <1>0 DEF TimerInv
<1>5. CInv'
  <2> SUFFICES ASSUME ~stray'
               PROVE  Counts'
    BY DEF CInv
  <2>0. Counts /\ (Monitored(running[c]) <=> enabled[c])
    BY <1>c DEF CInv, Counts, OwnInv
  <2>b. enabled'[c] => Monitored(next) /\ prog'[c] = evset[next] /\ val'[c] = acc[next]
    BY <1>a, <2>0
  <2>1. OwnInv'
    BY <1>0, <1>a, <1>c, <2>0, <2>b DEF Counts, OwnInv
  <2>2. CountingInv'
    <3> SUFFICES ASSUME NEW d \in CPUs, enabled'[d]
                 PROVE  Balance(running[d], val[d])'
      BY DEF CountingInv
    <3>1. CASE d = c
      <4>1. next \in Tasks /\ val'[c] = acc[next] /\ \A x \in CPUs : running[x] # next
        BY <3>1, <2>b, <1>0 DEF CanRun
      <4>2. Balance(next, acc[next])
        BY <4>1, <2>0 DEF Counts, KeptInv
      <4> QED  BY <3>1, <4>1, <4>2, <1>0, <1>c DEF Balance, Handed
    <3>2. CASE d # c
      <4>1. enabled[d] /\ running'[d] = running[d] /\ val'[d] = val[d]
        BY <3>2, <1>a, <1>0
      <4>2. Balance(running[d], val[d])
        BY <4>1, <2>0 DEF Counts, CountingInv
      <4> QED  BY <4>1, <4>2, <1>0, <1>c DEF Balance, Handed
    <3> QED  BY <3>1, <3>2
  <2>3. KeptInv'
    <3> SUFFICES ASSUME NEW u \in Tasks, \A d \in CPUs : running'[d] = u => ~enabled'[d]
                 PROVE  Balance(u, acc[u])'
      BY DEF KeptInv
    <3>1. CASE u = running[c] /\ Monitored(u)
      <4>1. Balance(u, val[c])
        BY <3>1, <2>0 DEF Counts, CountingInv
      <4> QED  BY <4>1, <3>1, <1>0, <1>c DEF Balance, Handed
    <3>2. CASE ~(u = running[c] /\ Monitored(u))
      <4>1. ASSUME NEW d \in CPUs, running[d] = u
            PROVE  ~enabled[d]
        <5>1. CASE d = c
          BY <5>1, <4>1, <3>2, <2>0
        <5>2. CASE d # c
          BY <5>2, <4>1, <1>0, <1>a
        <5> QED  BY <5>1, <5>2
      <4>2. Balance(u, acc[u])
        BY <4>1, <2>0 DEF Counts, KeptInv
      <4> QED  BY <4>2, <3>2, <1>0, <1>c DEF Balance, Handed
    <3> QED  BY <3>1, <3>2
  <2>4. ClosedInv'
    BY <1>0, <1>c, <2>0 DEF Counts, ClosedInv, Handed
  <2> QED  BY <2>1, <2>2, <2>3, <2>4 DEF Counts
<1> QED  BY <1>1, <1>2, <1>3, <1>4, <1>5

-----------------------------------------------------------------------------
(* irq_works and the timer.                                                *)

\* The counts do not depend on the timers.
LEMMA SameCounts ==
  ASSUME CInv, UNCHANGED <<running, alive, started, evset, acc, startq, enabled, prog, val, saved, lost, stray, happened>>
  PROVE  CInv'
BY DEF CInv, Counts, OwnInv, ClosedInv, CountingInv, KeptInv, Balance, Handed, Monitored

LEMMA StartFlagStep ==
  ASSUME SInv, CInv, NEW t \in Tasks, NEW c \in CPUs, start_timer_flag(t, c)
  PROVE  SInv' /\ CInv'
<1> USE SamplingAssumption DEF SInv, TypeOK, Monitored
<1>0. /\ UNCHANGED <<running, alive, started, stat, evset, acc, timer, startq, stopq, enabled, prog, val,
                     defined, oops, saved, lost, stray, happened, n>>
      /\ t \in startq[c] /\ flag' = [flag EXCEPT ![t] = TRUE] /\ arming' = [arming EXCEPT ![c] = @ \cup {t}]
  BY DEF start_timer_flag, hwVars, world, written
<1>1. TypeOK'
  BY <1>0
<1>2. SchedInv'
  BY <1>0 DEF SchedInv
<1>3. QueueInv'
  BY <1>0 DEF QueueInv
<1>4. TimerInv'
  <2>1. running[c] = t /\ t \in arming'[c] /\ \A x \in CPUs : arming[x] \subseteq arming'[x]
    BY <1>0 DEF QueueInv
  <2> SUFFICES ASSUME NEW u \in Tasks, timer'[u] # Idle
               PROVE  /\ Monitored(u)' /\ ~stat'
                      /\ flag'[u] /\ running'[timer'[u]] # u =>
                           \E x \in CPUs : running'[x] = u /\ u \in arming'[x]
                      /\ ~flag'[u] \/ running'[timer'[u]] # u => \E d \in CPUs : u \in stopq'[d]
    BY DEF TimerInv
  <2>2. CASE u = t
    BY <2>1, <2>2, <1>0 DEF TimerInv
  <2>3. CASE u # t
    BY <2>1, <2>3, <1>0 DEF TimerInv
  <2> QED  BY <2>2, <2>3
<1>5. CInv'
  BY <1>0, SameCounts
<1> QED  BY <1>1, <1>2, <1>3, <1>4, <1>5

LEMMA StartTimerStep ==
  ASSUME SInv, CInv, NEW t \in Tasks, NEW c \in CPUs, start_timer_pmc(t, c)
  PROVE  SInv' /\ CInv'
<1> USE SamplingAssumption DEF SInv, TypeOK, Monitored
<1>0. /\ UNCHANGED <<running, alive, started, stat, evset, acc, flag, stopq, defined, oops, saved, lost, stray, happened, n>>
      /\ t \in arming[c] /\ arming' = [arming EXCEPT ![c] = @ \ {t}] /\ startq' = [startq EXCEPT ![c] = @ \ {t}]
      /\ timer' = [timer EXCEPT ![t] = c]
  BY DEF start_timer_pmc, world, written
<1>a. /\ t \in startq[c] /\ flag[t] /\ running[c] = t /\ Monitored(t) /\ ~stat
      /\ \A d \in CPUs : running[d] = t => d = c
      /\ evset[t] \in Evsets /\ acc[t] \in Nat
  BY <1>0 DEF QueueInv, SchedInv
\* The counter is started, or left as it is when there is no event-set.
<1>b. IF evset[t] \in defined
        THEN /\ enabled' = [enabled EXCEPT ![c] = TRUE] /\ prog' = [prog EXCEPT ![c] = evset[t]]
             /\ val' = [val EXCEPT ![c] = acc[t]]
        ELSE UNCHANGED <<enabled, prog, val>>
  BY DEF start_timer_pmc, smon_sample_start, smon_pmc_set, smon_pmc_write, smon_pmc_start
<1>1. TypeOK'
  BY <1>0, <1>a, <1>b
<1>2. SchedInv'
  BY <1>0 DEF SchedInv
<1>3. QueueInv'
  BY <1>0, <1>a DEF QueueInv
<1>4. TimerInv'
  <2> SUFFICES ASSUME NEW u \in Tasks, timer'[u] # Idle
               PROVE  /\ Monitored(u)' /\ ~stat'
                      /\ flag'[u] /\ running'[timer'[u]] # u =>
                           \E x \in CPUs : running'[x] = u /\ u \in arming'[x]
                      /\ ~flag'[u] \/ running'[timer'[u]] # u => \E d \in CPUs : u \in stopq'[d]
    BY DEF TimerInv
  <2>1. CASE u = t
    BY <2>1, <1>0, <1>a
  <2>2. CASE u # t
    <3>1. timer'[u] = timer[u] /\ \A x \in CPUs : u \in arming[x] => u \in arming'[x]
      BY <2>2, <1>0
    <3> QED  BY <3>1, <1>0 DEF TimerInv
  <2> QED  BY <2>1, <2>2
<1>5. CInv'
  <2> SUFFICES ASSUME Counts
               PROVE  Counts'
    BY <1>0 DEF CInv
  <2>1. ~enabled[c] /\ Balance(t, acc[t])
    BY <1>a DEF Counts, OwnInv, KeptInv
  <2>2. OwnInv'
    BY <1>0, <1>a, <1>b, <2>1 DEF Counts, OwnInv
  <2>3. CountingInv'
    BY <1>0, <1>a, <1>b, <2>1 DEF Counts, CountingInv, Balance, Handed
  <2>4. KeptInv'
    <3> SUFFICES ASSUME NEW u \in Tasks, \A d \in CPUs : running'[d] = u => ~enabled'[d]
                 PROVE  Balance(u, acc[u])'
      BY DEF KeptInv
    <3>1. \A d \in CPUs : running[d] = u => ~enabled[d]
      BY <1>0, <1>a, <1>b, <2>1
    <3>2. Balance(u, acc[u])
      BY <3>1 DEF Counts, KeptInv
    <3> QED  BY <3>2, <1>0 DEF Balance, Handed
  <2>5. ClosedInv'
    BY <1>0 DEF Counts, ClosedInv, Handed
  <2> QED  BY <2>2, <2>3, <2>4, <2>5 DEF Counts
<1> QED  BY <1>1, <1>2, <1>3, <1>4, <1>5

LEMMA StopTimerStep ==
  ASSUME SInv, CInv, NEW t \in Tasks, NEW c \in CPUs, stop_timer_pmc(t, c)
  PROVE  SInv' /\ CInv'
<1> USE SamplingAssumption DEF SInv, TypeOK, Monitored
<1>0. /\ UNCHANGED <<running, alive, started, stat, evset, acc, flag, startq, arming, enabled, prog, val,
                     defined, oops, saved, lost, stray, happened, n>>
      /\ stopq' = [stopq EXCEPT ![c] = @ \ {t}] /\ timer' = [timer EXCEPT ![t] = Idle]
  BY DEF stop_timer_pmc, hwVars, world, written
<1>1. TypeOK'
  BY <1>0
<1>2. SchedInv' /\ QueueInv'
  BY <1>0 DEF SchedInv, QueueInv
<1>3. TimerInv'
  <2>1. \A u \in Tasks \ {t} : timer'[u] = timer[u] /\ \A d \in CPUs : u \in stopq[d] => u \in stopq'[d]
    BY <1>0
  <2>2. timer'[t] = Idle
    BY <1>0
  <2> QED  BY <2>1, <2>2, <1>0 DEF TimerInv
<1>4. CInv'
  BY <1>0, SameCounts
<1> QED  BY <1>1, <1>2, <1>3, <1>4

LEMMA TimerTickStep ==
  ASSUME SInv, CInv, NEW t \in Tasks, NEW c \in CPUs, TimerTick(t, c)
  PROVE  SInv' /\ CInv'
<1> USE SamplingAssumption DEF SInv, TypeOK, Monitored
<1>0. /\ smon_sample_save(t, val[c]) /\ val[c] \in Nat /\ Reads(t, c)
      /\ UNCHANGED <<running, alive, started, stat, timer, flag, startq, arming, stopq, defined, oops, happened, n>>
  BY DEF TimerTick, smon_pmc_read, world
<1>a. /\ saved' \in [Tasks -> [Evsets -> Nat]] /\ lost' \in [Tasks -> [Evsets -> Nat]]
      /\ acc' \in [Tasks -> Nat] /\ evset' \in [Tasks -> Evsets]
      /\ acc'[t] = 0 /\ evset'[t] = smon_envir_next_evset(evset[t])
      /\ \A u \in Tasks \ {t} : saved'[u] = saved[u] /\ lost'[u] = lost[u] /\ acc'[u] = acc[u] /\ evset'[u] = evset[u]
  BY <1>0, SaveEffect
<1>b. IF evset'[t] \in defined
        THEN /\ enabled' = [enabled EXCEPT ![c] = TRUE] /\ prog' = [prog EXCEPT ![c] = evset'[t]]
             /\ val' = [val EXCEPT ![c] = 0]
        ELSE enabled' = [enabled EXCEPT ![c] = FALSE] /\ UNCHANGED <<prog, val>>
  BY <1>a DEF TimerTick, smon_sample_start, smon_pmc_set, smon_pmc_write, smon_pmc_start
<1>c. stray' = (stray \/ running[c] # t \/ ~enabled[c])
  BY <1>0 DEF Reads
<1>1. TypeOK'
  <2>1. enabled' \in [CPUs -> BOOLEAN] /\ prog' \in [CPUs -> Evsets] /\ val' \in [CPUs -> Nat]
    BY <1>a, <1>b
  <2>2. stray' \in BOOLEAN
    BY <1>c
  <2> QED  BY <1>0, <1>a, <2>1, <2>2
<1>2. SchedInv' /\ QueueInv'
  BY <1>0 DEF SchedInv, QueueInv
<1>3. TimerInv'
  BY <1>0 DEF TimerInv
<1>4. CInv'
  <2> SUFFICES ASSUME ~stray'
               PROVE  Counts'
    BY DEF CInv
  <2>0. Counts /\ running[c] = t /\ enabled[c] /\ \A d \in CPUs \ {c} : running[d] # t
    BY <1>0, OwnRead DEF SchedInv
  <2>1. Balance(t, val[c])
    BY <2>0 DEF Counts, CountingInv
  <2>2. ClosedInv' /\ Balance(t, acc[t])'
    BY <1>0, <2>0, <2>1, AfterSample DEF Counts
  <2>3. OwnInv'
    <3> SUFFICES ASSUME NEW d \in CPUs, enabled'[d]
                 PROVE  Monitored(running[d])' /\ prog'[d] = evset'[running'[d]] /\ running'[d] \notin startq'[d]
      BY DEF OwnInv
    <3>1. CASE d = c
      <4>1. Monitored(t) /\ t \notin startq[c]
        BY <2>0 DEF Counts, OwnInv
      <4>2. prog'[c] = evset'[t]
        BY <3>1, <1>b
      <4> QED  BY <3>1, <4>1, <4>2, <2>0, <1>0
    <3>2. CASE d # c
      <4>1. enabled[d] /\ prog'[d] = prog[d]
        BY <3>2, <1>b
      <4>2. Monitored(running[d]) /\ prog[d] = evset[running[d]] /\ running[d] \notin startq[d] /\ running[d] # t
        BY <3>2, <4>1, <2>0 DEF Counts, OwnInv
      <4> QED  BY <4>1, <4>2, <1>0, <1>a
    <3> QED  BY <3>1, <3>2
  <2>4. CountingInv'
    <3> SUFFICES ASSUME NEW d \in CPUs, enabled'[d]
                 PROVE  Balance(running[d], val[d])'
      BY DEF CountingInv
    <3>1. CASE d = c
      BY <3>1, <1>0, <1>a, <1>b, <2>0, <2>2 DEF Balance
    <3>2. CASE d # c
      <4>1. enabled[d] /\ val'[d] = val[d] /\ running[d] \in Tasks \ {t} /\ running'[d] = running[d]
        BY <3>2, <1>0, <1>b, <2>0 DEF Counts, OwnInv
      <4>2. Balance(running[d], val[d])
        BY <4>1, <2>0 DEF Counts, CountingInv
      <4> QED  BY <4>1, <4>2, <1>0, <1>a, Others DEF Balance, Handed
    <3> QED  BY <3>1, <3>2
  <2>5. KeptInv'
    <3> SUFFICES ASSUME NEW u \in Tasks, \A d \in CPUs : running'[d] = u => ~enabled'[d]
                 PROVE  Balance(u, acc[u])'
      BY DEF KeptInv
    <3>1. CASE u = t
      BY <3>1, <2>2
    <3>2. CASE u # t
      <4>1. \A d \in CPUs : running[d] = u => ~enabled[d]
        BY <3>2, <1>0, <1>b, <2>0
      <4>2. Balance(u, acc[u])
        BY <4>1, <2>0 DEF Counts, KeptInv
      <4> QED  BY <4>2, <3>2, <1>0, <1>a, Others DEF Balance, Handed
    <3> QED  BY <3>1, <3>2
  <2> QED  BY <2>2, <2>3, <2>4, <2>5 DEF Counts
<1> QED  BY <1>1, <1>2, <1>3, <1>4

LEMMA TimerTickOffStep ==
  ASSUME SInv, CInv, NEW t \in Tasks, NEW c \in CPUs, TimerTickOff(t, c)
  PROVE  SInv' /\ CInv'
<1> USE SamplingAssumption DEF SInv, TypeOK, Monitored
<1>0. /\ UNCHANGED <<running, alive, started, stat, evset, acc, flag, startq, arming, stopq, enabled, prog, val,
                     defined, oops, saved, lost, stray, happened, n>>
      /\ timer' = [timer EXCEPT ![t] = Idle]
  BY DEF TimerTickOff, hwVars, world, written
<1>1. TypeOK'
  BY <1>0
<1>2. SchedInv' /\ QueueInv'
  BY <1>0 DEF SchedInv, QueueInv
<1>3. TimerInv'
  BY <1>0 DEF TimerInv
<1>4. CInv'
  BY <1>0, SameCounts
<1> QED  BY <1>1, <1>2, <1>3, <1>4

-----------------------------------------------------------------------------
(* Exec, fork, exit, the events and the event-sets.                        *)

LEMMA ExecStep ==
  ASSUME SInv, CInv, NEW t \in Tasks, NEW c \in CPUs, Exec(t, c)
  PROVE  SInv' /\ CInv'
<1> USE SamplingAssumption DEF SInv, TypeOK, Monitored
<1>0. /\ running[c] = Idle /\ ~started[t] /\ alive[t] /\ \A d \in CPUs : running[d] # t
      /\ startq[c] = {}
      /\ running' = [running EXCEPT ![c] = t] /\ started' = [started EXCEPT ![t] = TRUE]
      /\ UNCHANGED <<alive, stat, evset, acc, timer, flag, arming, stopq, defined, oops, saved, lost, stray, happened, n>>
  BY DEF Exec, SchedInv, Quiet, taskVars, world, written
<1>a. IF stat /\ evset[t] \in defined
        THEN /\ enabled' = [enabled EXCEPT ![c] = TRUE] /\ prog' = [prog EXCEPT ![c] = evset[t]]
             /\ val' = [val EXCEPT ![c] = acc[t]]
        ELSE UNCHANGED <<enabled, prog, val>>
  BY DEF Exec, smon_sample_start, smon_pmc_set, smon_pmc_write, smon_pmc_start, hwVars
<1>b. IF stat THEN UNCHANGED startq ELSE startq' = [startq EXCEPT ![c] = {t}]
  BY DEF Exec
<1>c. evset[t] \in Evsets /\ acc[t] \in Nat
  OBVIOUS
<1>1. TypeOK'
  <2>1. enabled' \in [CPUs -> BOOLEAN] /\ prog' \in [CPUs -> Evsets] /\ val' \in [CPUs -> Nat]
    BY <1>a, <1>c
  <2>2. startq' \in [CPUs -> SUBSET Tasks]
    <3>1. CASE stat
      BY <3>1, <1>b
    <3>2. CASE ~stat
      <4>1. startq' = [startq EXCEPT ![c] = {t}] /\ {t} \in SUBSET Tasks
        BY <3>2, <1>b
      <4> QED  BY <4>1
    <3> QED  BY <3>1, <3>2
  <2>3. started' \in [Tasks -> BOOLEAN] /\ running' \in [CPUs -> Tasks \cup {Idle}]
    BY <1>0
  <2> QED  BY <2>1, <2>2, <2>3, <1>0
<1>2. SchedInv'
  BY <1>0 DEF SchedInv
<1>3. QueueInv'
  BY <1>0, <1>b DEF QueueInv
<1>4. TimerInv'
  <2>1. timer[t] = Idle /\ \A u \in Tasks : timer[u] # Idle => timer[u] \in CPUs
    BY <1>0 DEF TimerInv
  <2>2. \A u \in Tasks \ {t} : \A x \in CPUs : running[x] = u <=> running'[x] = u
    BY <1>0
  <2> QED  BY <2>1, <2>2, <1>0 DEF TimerInv
<1>5. CInv'
  <2> SUFFICES ASSUME Counts
               PROVE  Counts'
    BY <1>0 DEF CInv
  <2>1. ~enabled[c] /\ Balance(t, acc[t])
    BY <1>0 DEF Counts, OwnInv, KeptInv
  <2>2. OwnInv'
    BY <1>0, <1>a, <1>b, <2>1 DEF Counts, OwnInv, QueueInv
  <2>3. CountingInv'
    BY <1>0, <1>a, <2>1 DEF Counts, CountingInv, Balance, Handed
  <2>4. KeptInv'
    BY <1>0, <1>a, <2>1 DEF Counts, KeptInv, Balance, Handed
  <2>5. ClosedInv'
    BY <1>0 DEF Counts, ClosedInv, Handed
  <2> QED  BY <2>2, <2>3, <2>4, <2>5 DEF Counts
<1> QED  BY <1>1, <1>2, <1>3, <1>4, <1>5

LEMMA ForkStep ==
  ASSUME SInv, CInv, NEW t \in Tasks, NEW c \in CPUs, Fork(t, c)
  PROVE  SInv' /\ CInv'
<1> USE SamplingAssumption DEF SInv, TypeOK, Monitored
<1>0. /\ UNCHANGED <<running, alive, stat, evset, acc, timer, flag, startq, arming, stopq, enabled, prog, val,
                     defined, oops, saved, lost, stray, happened, n>>
      /\ started' = [started EXCEPT ![t] = TRUE]
  BY DEF Fork, taskVars, hwVars, world, written
<1>1. TypeOK'
  BY <1>0
<1>2. SchedInv' /\ QueueInv'
  BY <1>0 DEF SchedInv, QueueInv
<1>3. TimerInv'
  BY <1>0 DEF TimerInv
<1>4. CInv'
  BY <1>0 DEF CInv, Counts, OwnInv, ClosedInv, CountingInv, KeptInv, Balance, Handed
<1> QED  BY <1>1, <1>2, <1>3, <1>4

LEMMA ExitStep ==
  ASSUME SInv, CInv, NEW t \in Tasks, NEW c \in CPUs, Exit(t, c)
  PROVE  SInv' /\ CInv'
<1> USE SamplingAssumption DEF SInv, TypeOK, Monitored
<1>0. /\ running[c] = t /\ val[c] \in Nat /\ startq[c] = {} /\ \A d \in CPUs \ {c} : running[d] # t
      /\ smon_sample_save(t, val[c]) /\ Reads(t, c)
  BY DEF Exit, Quiet, SchedInv, smon_pmc_read
<1>b. /\ timer' = [timer EXCEPT ![t] = Idle] /\ alive' = [alive EXCEPT ![t] = FALSE]
      /\ enabled' = [enabled EXCEPT ![c] = FALSE]
      /\ UNCHANGED <<prog, val, running, started, stat, flag, startq, arming, stopq, defined, oops, happened, n>>
  BY DEF Exit, smon_sample_stop, smon_pmc_stop, world
<1>c. /\ saved' \in [Tasks -> [Evsets -> Nat]] /\ lost' \in [Tasks -> [Evsets -> Nat]]
      /\ acc' \in [Tasks -> Nat] /\ evset' \in [Tasks -> Evsets]
      /\ \A u \in Tasks \ {t} : saved'[u] = saved[u] /\ lost'[u] = lost[u] /\ acc'[u] = acc[u] /\ evset'[u] = evset[u]
  BY <1>0, SaveEffect
<1>d. stray' = (stray \/ running[c] # t \/ ~enabled[c])
  BY <1>0 DEF Reads
<1>1. TypeOK'
  <2>1. stray' \in BOOLEAN /\ alive' \in [Tasks -> BOOLEAN] /\ enabled' \in [CPUs -> BOOLEAN]
    BY <1>b, <1>d
  <2> QED  BY <1>b, <1>c, <2>1
<1>2. SchedInv' /\ QueueInv'
  BY <1>0, <1>b DEF SchedInv, QueueInv
<1>3. TimerInv'
  BY <1>b DEF TimerInv
<1>4. CInv'
  <2> SUFFICES ASSUME ~stray'
               PROVE  Counts'
    BY DEF CInv
  <2>0. Counts /\ enabled[c]
    BY <1>0, OwnRead
  <2>1. Balance(t, val[c])
    BY <1>0, <2>0 DEF Counts, CountingInv
  <2>2. ClosedInv' /\ Balance(t, acc[t])'
    BY <1>0, <1>b, <2>0, <2>1, AfterSample DEF Counts
  <2>3. OwnInv'
    BY <1>0, <1>b, <1>c, <2>0 DEF Counts, OwnInv
  <2>4. CountingInv'
    <3> SUFFICES ASSUME NEW d \in CPUs, enabled'[d]
                 PROVE  Balance(running[d], val[d])'
      BY DEF CountingInv
    <3>1. d # c /\ enabled[d] /\ val'[d] = val[d] /\ running[d] \in Tasks \ {t} /\ running'[d] = running[d]
      BY <1>0, <1>b, <2>0 DEF Counts, OwnInv
    <3>2. Balance(running[d], val[d])
      BY <3>1, <2>0 DEF Counts, CountingInv
    <3> QED  BY <3>1, <3>2, <1>b, <1>c, Others DEF Balance, Handed
  <2>5. KeptInv'
    <3> SUFFICES ASSUME NEW u \in Tasks, \A d \in CPUs : running'[d] = u => ~enabled'[d]
                 PROVE  Balance(u, acc[u])'
      BY DEF KeptInv
    <3>1. CASE u = t
      BY <3>1, <2>2
    <3>2. CASE u # t
      <4>1. \A d \in CPUs : running[d] = u => ~enabled[d]
        BY <3>2, <1>0, <1>b
      <4>2. Balance(u, acc[u])
        BY <4>1, <2>0 DEF Counts, KeptInv
      <4> QED  BY <4>2, <3>2, <1>b, <1>c, Others DEF Balance, Handed
    <3> QED  BY <3>1, <3>2
  <2> QED  BY <2>2, <2>3, <2>4, <2>5 DEF Counts
<1> QED  BY <1>1, <1>2, <1>3, <1>4

LEMMA EventStep ==
  ASSUME SInv, CInv, NEW c \in CPUs, Event(c)
  PROVE  SInv' /\ CInv'
<1> USE SamplingAssumption DEF SInv, TypeOK, Monitored
<1>0. PICK t \in Tasks : running[c] = t /\ prog[c] \in Evsets /\ \A d \in CPUs \ {c} : running[d] # t
  BY DEF Event, SchedInv
<1>a. /\ enabled[c] /\ val' = [val EXCEPT ![c] = @ + 1] /\ n' = n + 1
      /\ happened' = [happened EXCEPT ![t][prog[c]] = @ + 1]
      /\ UNCHANGED <<running, alive, started, stat, evset, acc, timer, flag, startq, arming, stopq, enabled, prog,
                     defined, oops, saved, lost, stray>>
  BY <1>0 DEF Event, taskVars, world, written
<1>b. /\ happened' \in [Tasks -> [Evsets -> Nat]]
      /\ happened'[t][prog[c]] = happened[t][prog[c]] + 1
      /\ \A e \in Evsets \ {prog[c]} : happened'[t][e] = happened[t][e]
      /\ \A u \in Tasks \ {t} : happened'[u] = happened[u]
  BY <1>0, <1>a, AddCounts
<1>1. TypeOK'
  BY <1>a, <1>b
<1>2. SchedInv' /\ QueueInv'
  BY <1>a DEF SchedInv, QueueInv
<1>3. TimerInv'
  BY <1>a DEF TimerInv
<1>4. CInv'
  <2> SUFFICES ASSUME Counts
               PROVE  Counts'
    BY <1>a DEF CInv
  <2>0. prog[c] = evset[t]
    BY <1>0, <1>a DEF Counts, OwnInv
  <2>1. ClosedInv'
    BY <1>a, <1>b, <2>0 DEF Counts, ClosedInv, Handed
  <2>2. CountingInv'
    <3> SUFFICES ASSUME NEW d \in CPUs, enabled[d]
                 PROVE  Balance(running[d], val[d])'
      BY <1>a DEF CountingInv
    <3>1. Balance(running[d], val[d])
      BY DEF Counts, CountingInv
    <3>2. CASE d = c
      BY <3>1, <3>2, <2>0, <1>0, <1>a, <1>b DEF Balance, Handed
    <3>3. CASE d # c
      <4>1. running[d] \in Tasks \ {t}
        BY <3>3, <1>0 DEF Counts, OwnInv
      <4> QED  BY <4>1, <3>1, <3>3, <1>a, <1>b DEF Balance, Handed
    <3> QED  BY <3>2, <3>3
  <2>3. KeptInv'
    BY <1>0, <1>a, <1>b DEF Counts, KeptInv, Balance, Handed
  <2>4. OwnInv'
    BY <1>a DEF Counts, OwnInv
  <2> QED  BY <2>1, <2>2, <2>3, <2>4 DEF Counts
<1> QED  BY <1>1, <1>2, <1>3, <1>4

\* An event-set that is added, and the end of the kernel, change no sample.
LEMMA WorldStep ==
  ASSUME SInv, CInv, (\E e \in Evsets : Define(e)) \/ (\E t \in Tasks, c \in CPUs : NoEvset(t, c))
  PROVE  SInv' /\ CInv'
<1> USE DEF SInv, TypeOK, Monitored
<1>0. /\ UNCHANGED <<running, alive, started, stat, evset, acc, timer, flag, startq, arming, stopq, enabled, prog, val,
                     saved, lost, stray, happened, n>>
      /\ defined' \in SUBSET Evsets /\ oops' \in BOOLEAN
  BY DEF Define, NoEvset, taskVars, hwVars, written
<1>1. TypeOK'
  BY <1>0
<1>2. SchedInv' /\ QueueInv'
  BY <1>0 DEF SchedInv, QueueInv
<1>3. TimerInv'
  BY <1>0 DEF TimerInv
<1>4. CInv'
  BY <1>0, SameCounts
<1> QED  BY <1>1, <1>2, <1>3, <1>4

-----------------------------------------------------------------------------
(* Theorems.                                                               *)

LEMMA SamplingInit == Init => SInv /\ CInv
<1> SUFFICES ASSUME Init
             PROVE  SInv /\ CInv
  OBVIOUS
<1>1. TypeOK
  <2>1. 0 \in Evsets
    BY SamplingAssumption DEF Evsets
  <2>2. alive \in [Tasks -> BOOLEAN] /\ started \in [Tasks -> BOOLEAN] /\ flag \in [Tasks -> BOOLEAN]
        /\ enabled \in [CPUs -> BOOLEAN]
    BY DEF Init
  <2>3. oops \in BOOLEAN /\ stray \in BOOLEAN /\ stat \in BOOLEAN
    BY DEF Init
  <2> QED  BY <2>1, <2>2, <2>3 DEF Init, TypeOK
<1>2. SchedInv /\ QueueInv /\ TimerInv /\ OwnInv
  BY SamplingAssumption DEF Init, SchedInv, QueueInv, TimerInv, OwnInv, Monitored
<1>3. ClosedInv /\ CountingInv /\ KeptInv
  <2>1. \A t \in Tasks, e \in Evsets : happened[t][e] = 0 /\ saved[t][e] = 0 /\ lost[t][e] = 0
    BY DEF Init
  <2>2. \A t \in Tasks : evset[t] \in Evsets /\ acc[t] = 0
    BY <1>1 DEF Init, TypeOK
  <2> QED  BY <2>1, <2>2 DEF Init, ClosedInv, CountingInv, KeptInv, Balance, Handed
<1> QED  BY <1>1, <1>2, <1>3 DEF SInv, CInv, Counts

LEMMA SamplingStep == SInv /\ CInv /\ [Next]_vars => (SInv /\ CInv)'
<1> SUFFICES ASSUME SInv, CInv, [Next]_vars
             PROVE  SInv' /\ CInv'
  OBVIOUS
<1>1. CASE \E c \in CPUs, next \in Tasks \cup {Idle} : Switch(c, next)
  BY <1>1, SwitchInStep, SwitchOutTimerStep, SwitchOutStep, SwitchStatStep DEF Switch
<1>2. CASE \E t \in Tasks, c \in CPUs : IrqWork(t, c)
  BY <1>2, StartFlagStep, StartTimerStep, StopTimerStep DEF IrqWork
<1>3. CASE \E t \in Tasks, c \in CPUs : Timer(t, c)
  BY <1>3, TimerTickStep, TimerTickOffStep DEF Timer
<1>4. CASE \E t \in Tasks, c \in CPUs : Process(t, c)
  BY <1>4, ExecStep, ForkStep, ExitStep DEF Process
<1>5. CASE \E c \in CPUs : Event(c)
  BY <1>5, EventStep
<1>6. CASE (\E e \in Evsets \ defined : Define(e)) \/ (\E t \in Tasks, c \in CPUs : NoEvset(t, c))
  BY <1>6, WorldStep
<1>7. CASE UNCHANGED vars
  <2>1. UNCHANGED <<running, alive, started, stat, evset, acc, timer, flag, startq, arming, stopq, enabled, prog, val,
                    defined, oops, saved, lost, stray, happened, n>>
    BY <1>7 DEF vars, taskVars, hwVars, world, written
  <2>2. SInv'
    BY <2>1 DEF SInv, TypeOK, SchedInv, QueueInv, TimerInv, Monitored
  <2> QED  BY <2>1, <2>2, SameCounts
<1> QED  BY <1>1, <1>2, <1>3, <1>4, <1>5, <1>6, <1>7 DEF Next, Step, Over

LEMMA SamplingInvariant == Spec => [](SInv /\ CInv)
BY SamplingInit, SamplingStep, PTL DEF Spec

\* Every variable keeps its type; in particular smon_envir_next_evset never leaves the
\* event-sets of the environment.
THEOREM SamplingTypeCorrect == Spec => []TypeOK
<1>1. SInv => TypeOK
  BY DEF SInv
<1> QED  BY <1>1, SamplingInvariant, PTL

\* smon_sched_switch, the timer and the irq_works let a counter run only for the monitored
\* task on its CPU, with that task's event-set, as long as no sample was read from a
\* counter that was not its task's.
THEOREM CountersFollowTasks == Spec => []CountersOwned
<1>1. CInv => CountersOwned
  BY DEF CInv, Counts, OwnInv, CountersOwned
<1> QED  BY <1>1, SamplingInvariant, PTL

\* smon_sched_timer_tick stops and reads the counter of a CPU that does not run its task only
\* while start_timer_pmc is between its two lines on the CPU that does, and the irq_work
\* that cancels the old timer has not run yet.
THEOREM TicksAtHome == Spec => []TickOnOwnCpu
<1>1. SInv => TickOnOwnCpu
  BY DEF SInv, TimerInv, TickOnOwnCpu
<1> QED  BY <1>1, SamplingInvariant, PTL

\* The counts handed to smon_rb_write and those of the unfinished sample are the events that
\* happened, for each task and event-set: none lost, none twice, none with another task.
THEOREM CountsConserved == Spec => []Conserved
<1>1. SInv /\ CInv => Conserved
  <2> SUFFICES ASSUME SInv, Counts, NEW t \in Tasks, NEW e \in Evsets
               PROVE  happened[t][e] = saved[t][e] + lost[t][e] + IF evset[t] = e THEN Pending(t) ELSE 0
    BY DEF Conserved, CInv
  <2>1. happened[t][e] \in Nat /\ saved[t][e] \in Nat /\ lost[t][e] \in Nat
    BY DEF SInv, TypeOK
  <2>2. CASE evset[t] # e
    BY <2>1, <2>2 DEF Counts, ClosedInv, Handed
  <2>3. CASE evset[t] = e
    <3>1. Balance(t, Pending(t))
      <4>1. CASE \E c \in CPUs : running[c] = t /\ enabled[c]
        <5> DEFINE d == CHOOSE c \in CPUs : running[c] = t /\ enabled[c]
        <5>1. d \in CPUs /\ running[d] = t /\ enabled[d]
          BY <4>1
        <5>2. Balance(t, val[d])
          BY <5>1 DEF Counts, CountingInv
        <5> QED  BY <5>2, <4>1 DEF Pending
      <4>2. CASE ~(\E c \in CPUs : running[c] = t /\ enabled[c])
        BY <4>2 DEF Pending, Counts, KeptInv
      <4> QED  BY <4>1, <4>2
    <3> QED  BY <3>1, <2>3 DEF Balance, Handed
  <2> QED  BY <2>2, <2>3
<1> QED  BY <1>1, SamplingInvariant, PTL

=============================================================================
