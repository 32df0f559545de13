SPECIFICATION ChSpec
CONSTANTS
  PageSize = 4
  NPages = 2
  SampleTypes = {"PMC", "INFO", "RAPL", "FORK"}
  TotalSize <- MCTotalSize
  Batch = 2
  Tasks = {"root", "child"}
  Root = "root"
  RaplOn = FALSE
  InheritOn = TRUE
  ForkOn = TRUE
  MaxSamples = 3
PROPERTY
  LoopEnds
