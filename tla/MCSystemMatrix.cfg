CONSTANTS
  Stacks <- StacksDef
  Elements <- ElementsDef
  MaxElements = 4
  Word = 65536
SPECIFICATION Spec
CHECK_DEADLOCK FALSE
INVARIANTS
  RowsAscend
  CoefficientsAgree
  Equilibrium
  HeatFlowsEverywhere
  CountIsExact
