SPECIFICATION Spec
CONSTANTS
  Queues = {qa, qb}
  Power = {zero, p1}
  Zero = zero
  Capacities <- CapacitiesDef
  MaxCapacity = 4
INVARIANT RingOK
PROPERTY ImplementsFifo
CHECK_DEADLOCK FALSE
