SPECIFICATION Spec
CONSTANTS
  MaxRetries = 3
  Backoffs = 3
  MaxAttempts = 4
  MaxCopies = 4
  MaxDeliveries = 1
  MaxMishaps = 0
  Answers <- AcceptsOrDefers
INVARIANTS
  GivenUpIsDeadLettered
