SPECIFICATION FairSpec
CONSTANTS
  Setups <- AllSetups
  None = None
  First = 2
  Second = 1
  Band = 2
INVARIANTS ReferencesExact ArmedByGain NoFalseStop
PROPERTY DropStops
CHECK_DEADLOCK FALSE
