SPECIFICATION Spec
CONSTANTS
  EnergyBits = 2
  MaxEnergy = 5
  NPages = 2
  RaplOn = TRUE
  MaxSignals = 2
INVARIANTS
  TypeOK
  BufferLives
  NoFreedOnList
  PagesFreed
  UnloadCleans
  EnergyAdds
PROPERTIES
  ChildReleased
  SessionEnds
