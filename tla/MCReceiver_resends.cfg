SPECIFICATION Spec
CONSTANTS
  w1 = w1
  Webhook = {w1}
  o1 = o1
  Order = {o1}
  NoId = NoId
  Submissions <- EveryForm
  MaxSends = 3
  FoundRows = TRUE
  Faults <- EveryFault
INVARIANTS
  TypeOK
  OneClaimPerKey
  DuplicateIsBacked
  SwallowedLeadWasRefused
  AnswerMatchesQueue
  AnsweredIsAudited
  SecondLeadNeedsLostTransaction
  EndedEventIsSettled
