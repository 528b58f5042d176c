SPECIFICATION SortedSpec
CONSTANTS
  Call = {1, 2, 3}
  Email = {1, 2}
  Order = {1}
  Event = {1, 2}
  Details = {1, 2}
  Nobody = 0
  Breakable = TRUE
INVARIANTS
  TypeOK
  RowsBelongTogether
  RefusedRacedAnotherEmail
  ReturnsAreTrue
PROPERTIES
  ImplementsLeadStore
  EveryCallReturns
