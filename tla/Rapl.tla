-------------------------------- MODULE Rapl --------------------------------
(***************************************************************************)
(* Energy samples (src/driver/rapl.c, src/driver/sample.c and the timer of *)
(* src/driver/sched.c).  One register stands for the three that are read,  *)
(* which are treated alike.  The register has EnergyBits bits and wraps;   *)
(* the sample is a 64-bit difference of two readings.  The timer callback  *)
(* reads the register twice, at the end of a sample and at the start of    *)
(* the next one, with the write into the ring buffer in between.           *)
(***************************************************************************)
EXTENDS Integers

CONSTANTS
  EnergyBits,   \* bits of the energy status registers, 32 in the hardware
  MaxEnergy     \* bound: energy units a session uses

\* The second conjunct follows from the first; the provers know nothing of x^y.
ASSUME RaplAssumption ==
  EnergyBits \in Nat /\ 2^EnergyBits \in Nat \ {0} /\ MaxEnergy \in Nat

VARIABLES
  energy_status,  \* MSR_PKG_ENERGY_STATUS
  rapl_sample,    \* extra->rapl_sample: the start of a sample, or the sample itself
  rapl_timer,     \* off, armed, or in the callback between the two readings
  used,           \* energy used while the timer was on (not in the code)
  between,        \* ... of it, between the two readings (not in the code)
  saved           \* sum of the samples handed to smon_rb_write (not in the code)

raplVars == <<energy_status, rapl_sample, rapl_timer, used, between, saved>>

\* A unit of energy is used.  Nothing looks at the register while the timer is off.
UseEnergy ==
  /\ rapl_timer # "off" /\ used < MaxEnergy
  /\ energy_status' = (energy_status + 1) % 2^EnergyBits
  /\ used' = used + 1
  /\ between' = IF rapl_timer = "callback" THEN between + 1 ELSE between
  /\ UNCHANGED <<rapl_sample, rapl_timer, saved>>

\* start_timer_rapl: timer_flags, smon_sample_rapl_start and hrtimer_start.
start_timer_rapl ==
  /\ rapl_sample' = energy_status
  /\ rapl_timer' = "armed"
  /\ UNCHANGED <<energy_status, used, between, saved>>

\* smon_rapl_sub.
smon_rapl_sub(a, b) == a - b

\* The first half of smon_sched_timer_rapl: smon_sample_rapl_stop and _save.
RaplStopSave ==
  /\ rapl_timer = "armed"
  /\ rapl_sample' = smon_rapl_sub(energy_status, rapl_sample)
  /\ saved' = saved + rapl_sample'
  /\ rapl_timer' = "callback"
  /\ UNCHANGED <<energy_status, used, between>>

\* The second half: smon_sample_rapl_start and the timer's restart.  The faulty one
\* only restarts the timer.
RaplRestart_NoStart ==
  /\ rapl_timer = "callback"
  /\ rapl_timer' = "armed"
  /\ UNCHANGED <<energy_status, rapl_sample, used, between, saved>>

RaplRestart ==
  /\ rapl_timer = "callback"
  /\ rapl_sample' = energy_status
  /\ rapl_timer' = "armed"
  /\ UNCHANGED <<energy_status, used, between, saved>>

\* hrtimer_cancel waits for a callback that is running.
CancelRapl ==
  /\ rapl_timer # "callback"
  /\ rapl_timer' = "off"
  /\ UNCHANGED <<energy_status, rapl_sample, used, between, saved>>

RaplInit ==
  /\ energy_status \in 0 .. 2^EnergyBits - 1
  /\ rapl_sample = 0 /\ rapl_timer = "off"
  /\ used = 0 /\ between = 0 /\ saved = 0

RaplTypeOK ==
  /\ energy_status \in 0 .. 2^EnergyBits - 1
  /\ rapl_sample \in Int
  /\ rapl_timer \in {"off", "armed", "callback"}
  /\ used \in 0 .. MaxEnergy /\ between \in 0 .. used
  /\ saved \in Int

\* The samples add up: what has been written, what passed between the two readings of
\* a callback and the unfinished sample make the energy used, up to multiples of the
\* register's range.  So a sample that spans a wrap is short by that range, and the
\* error does not stay in the later ones.
EnergyAdds ==
  rapl_timer # "off" =>
    (saved + between + IF rapl_timer = "armed" THEN energy_status - rapl_sample ELSE 0)
      % 2^EnergyBits = used % 2^EnergyBits

=============================================================================
