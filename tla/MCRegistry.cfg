SPECIFICATION Spec
CONSTANTS
  Commands = {c1, c2, c3, c4}
  MaxEvents = 2
  MaxEvsets = 1
  Null = Null
SYMMETRY Symmetry
INVARIANTS TypeOK EvsetsUseDefinedEvents NoHole
