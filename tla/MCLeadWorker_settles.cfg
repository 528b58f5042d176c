SPECIFICATION FairSpec
CONSTANTS
  m1 = m1
  m2 = m2
  Msg = {m1, m2}
  o1 = o1
  Order = {o1}
  OrderOf <- OneLead
  MaxAttempts = 2
  MaxDeliveries = 2
  PoolSize = 1
  Faults <- QuietFaults
INVARIANTS
  AckedIsDistributed
  DroppedIsBuried
PROPERTIES
  EveryMessageSettles
