SPECIFICATION EmulatorSpec
CONSTANTS
  N = 3
  Floorplan <- FloorplanDef
  ChannelAt = 1
  SlotLength = 2
  Configs <- ConfigsDef
  Flows = {1}
  Supplies <- SuppliesDef
INVARIANT OutputsConsistent
INVARIANT OutputsComplete
INVARIANT EndsWithTheTrace
INVARIANT SteadyShowsItsRow
PROPERTY Terminates
CHECK_DEADLOCK FALSE
