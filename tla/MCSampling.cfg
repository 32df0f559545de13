SPECIFICATION Spec
CONSTANTS
  Tasks = {t1, t2}
  CPUs = {cpu0, cpu1}
  Idle = idle
  NEvsets = 2
  MaxEvents = 2
SYMMETRY Symmetry
CONSTRAINT BeforeStray
INVARIANTS
  TypeOK
  CountersOwned
  Conserved
  TickOnOwnCpu
