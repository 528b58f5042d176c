SPECIFICATION FairSpec
CONSTANTS
  MaxRetries = 1
  Backoffs = 1
  MaxAttempts = 2
  MaxCopies = 5
  MaxDeliveries = 2
  MaxMishaps = 1
  Answers <- AcceptsOrDefers
INVARIANTS
  PendingIsLive
  DelayExists
  RetriesAreBounded
  SmsAreAccountedFor
PROPERTIES
  RetriesEnd
