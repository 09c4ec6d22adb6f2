CONSTANTS
  Count = 3
  MaxNeeds = 2
SPECIFICATION FairSpec
INVARIANTS
  TypeOK
  DependenciesFirst
  LoadsWhatCanBe
  CyclesAreReal
PROPERTIES
  Loads
CHECK_DEADLOCK FALSE
