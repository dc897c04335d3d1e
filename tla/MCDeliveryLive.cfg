SPECIFICATION FairSpec
CONSTANTS
  e1 = e1
  e2 = e2
  w1 = w1
  w2 = w2
  Editions = {e1, e2}
  Workers = {w1, w2}
  IdOf <- SharedIds
  NoOwner = NoOwner
  NoEdition = NoEdition
  MaxAttempts = 2
  BatchSize = 1
  LeaseMinutes = 2
  MaxBackoff = 2
  Timely = TRUE
  MaxClaims = 4
  MaxInterventions = 1
PROPERTIES
  EventuallyResolved
