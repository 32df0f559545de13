SPECIFICATION Spec
CONSTANTS
  Procs = {"root", "p1", "p2"}
  Root = "root"
  CPUs = {"cpu0", "cpu1"}
  None = "none"
INVARIANTS
  TypeOK
  Followed
  ListsHoldLiveTasks
  FreedAfterRelease
  EnvirCount
PROPERTY
  SessionEnds
