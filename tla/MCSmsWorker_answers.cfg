SPECIFICATION Spec
CONSTANTS
  MaxRetries = 3
  Backoffs = 3
  MaxAttempts = 4
  MaxCopies = 5
  MaxDeliveries = 1
  MaxMishaps = 0
  Answers <- EveryAnswer
INVARIANTS
  TypeOK
  OutcomesAgree
  RetriesAreBounded
PROPERTIES
  SettledRowIsFinal
