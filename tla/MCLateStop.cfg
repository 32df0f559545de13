SPECIFICATION Spec
CONSTANTS
  Tasks = {"t1", "t2"}
  CPUs = {"cpu0", "cpu1"}
  Idle = "idle"
  NEvsets = 2
  MaxEvents = 2
INVARIANT
  TimerRuns
