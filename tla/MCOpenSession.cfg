SPECIFICATION Spec
CONSTANTS
  N = 2
  Floorplan <- FloorplanDef
  ChannelAt = 1
  SlotLength = 2
  Configs <- ConfigsDef
  Flows = {1}
  Clients = {c1}
  Nobody = nobody
  Supplies <- SuppliesDef
  FilesBefore = {"earlier_run"}
  InsertSizes = {1, 2}
  MaxInserts = 1
  MaxPrints = 2
  MaxAhead = 2
INVARIANT OneAnswerUnderWay
INVARIANT OutputIsUpToDate
INVARIANT EndMeansOut
INVARIANT FilesFollowPrints
PROPERTY NobodyWaitsForever
CHECK_DEADLOCK FALSE
