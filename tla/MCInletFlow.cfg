CONSTANTS
  Stacks <- StacksDef
  Elements <- ElementsDef
  MaxElements = 3
  Word = 65536
  Chunk = 4
SPECIFICATION BuildSpec
CHECK_DEADLOCK FALSE
CONSTRAINT FewIfParallel
INVARIANTS
  InletFollowsFlow
