SPECIFICATION Spec
CONSTANTS
  w1 = w1
  Webhook = {w1}
  o1 = o1
  Order = {o1}
  NoId = NoId
  Submissions <- ApprovedHeader
  MaxSends = 2
  FoundRows = TRUE
  Faults <- Slow
INVARIANTS
  OneFirstSeenPerKey
