SPECIFICATION ChSpec
CONSTANTS
  PageSize = 4
  NPages = 2
  SampleTypes = {"PMC", "INFO", "RAPL", "FORK"}
  TotalSize <- MCTotalSize
  Batch = 2
  Tasks = {"root", "child"}
  Root = "root"
  RaplOn = TRUE
  InheritOn = TRUE
  ForkOn = TRUE
  MaxSamples = 3
INVARIANTS
  ChTypeOK
  InOrder
  Accounting
  CompleteAtEof
  ActiveCounts
  InfoFirst
  InOnePage
PROPERTIES
  NoOverwrite
  WriteGrows
  OverrunOnlyWithoutEof
  ImplementsStream
  EofEndsLoop
  BatchWakes
