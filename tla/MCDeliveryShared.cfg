SPECIFICATION Spec
CONSTANTS
  e1 = e1
  e2 = e2
  w1 = w1
  w2 = w2
  Editions = {e1, e2}
  Workers = {w1, w2}
  IdOf <- SharedIds
  NoOwner = NoOwner
  NoEdition = NoEdition
  MaxAttempts = 2
  BatchSize = 2
  LeaseMinutes = 1
  MaxBackoff = 1
  Timely = FALSE
  MaxClaims = 3
  MaxInterventions = 1
SYMMETRY EditionSymmetry
INVARIANTS
  OutboxAgrees
  DeliveredWasAccepted
  LeaseExcludes
  RetryBudget
  UsageCoversCalls
PROPERTIES
  LifecycleSpec
