SPECIFICATION Spec
CONSTANTS
  N = 2
  Floorplan <- FloorplanDef
  ChannelAt = 1
  SlotLength = 2
  Configs <- ConfigsDef
  Flows = {1}
  Clients = {c1, c2}
  Nobody = nobody
  Supplies <- SuppliesDef
  FilesBefore = {"nobody"}
  CommandLines <- CommandLinesDef
  TraceRows <- TraceRowsDef
  Sentinel = 3
  MayCrash = {"client", "server"}
INVARIANT Lockstep
INVARIANT InStep
INVARIANT AnswerOfItsSlot
INVARIANT SuccessMeansSimulated
INVARIANT TornRowsNotSimulated
PROPERTY EverybodyEnds
CHECK_DEADLOCK FALSE
