SPECIFICATION FairSpec
CONSTANTS
  w1 = w1
  Webhook = {w1}
  o1 = o1
  Order = {o1}
  MaxSends = 2
  FoundRows = TRUE
  NoId = NoId
  Form <- SameLead
  ReceiverFaults <- Doubling
  MaxAttempts = 1
  MaxDeliveries = 2
  PoolSize = 1
  WorkerFaults <- Redelivering
INVARIANTS
  ToldIsAccountedFor
  EndedIsAccountedFor
PROPERTIES
  ImplementsLeadDelivery
  EveryLeadReachesChannels
