SPECIFICATION FairSpec
CONSTANTS
  w1 = w1
  w2 = w2
  Webhook = {w1, w2}
  o1 = o1
  Order = {o1}
  NoId = NoId
  Submissions <- SameKeyFresh
  MaxSends = 2
  FoundRows = TRUE
  Faults <- EndingFaults
INVARIANTS
  OneFirstSeenPerKey
PROPERTIES
  EveryRequestEnds
  EveryWebhookSettles
  EveryLeadArrives
