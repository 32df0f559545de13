SPECIFICATION Spec
CONSTANTS
  MaxGpCtrs = 2
  MaxEvents = 2
  MaxEvsets = 2
  MuxEvsets = 3
  MaxPages = 1024
  Bursts = {0, 7}
  Times = {0, 5}
  PageCounts = {1, 8, 2048}
  Masks <- MCMasks
  CpuMasks <- MCCpuMasks
  MaxArgs = 4
INVARIANTS
  TypeOK
  ReadCountersEnabled
  EventWellFormed
