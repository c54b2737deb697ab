SPECIFICATION FairSpec
CONSTANTS
  N = 3
  Floorplan <- FloorplanDef
  ChannelAt = 1
  SlotLength = 2
  Configs <- ConfigsDef
  Flows = {1, 2}
  Supplies <- SuppliesDef
  MaxSupply = 3
  MaxTime = 5
INVARIANT TypeOK
INVARIANT SlotUsesItsRow
INVARIANT RowsDifferBySupply
INVARIANT FlowConsistent
INVARIANT OneSlotPerCall
PROPERTY SlotCallReturns
CHECK_DEADLOCK FALSE
