SPECIFICATION Spec
CONSTANTS
  m1 = m1
  Msg = {m1}
  o1 = o1
  Order = {o1}
  OrderOf <- OneLead
  MaxAttempts = 2
  MaxDeliveries = 1
  PoolSize = 1
  Faults <- BrokerFaults
INVARIANTS
  AckedIsDistributed
