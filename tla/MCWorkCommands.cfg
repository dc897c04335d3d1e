SPECIFICATION Spec
CONSTANTS
  s1 = s1
  s2 = s2
  r1 = r1
  o1 = o1
  p1 = p1
  p2 = p2
  Syncs = {s1, s2}
  Orders = {o1}
  Retries = {}
  Budgeted = {s1}
  Chain <- TwoProviders
  Providers = {p1, p2}
  Chunks <- OneChunk
  Lengths = {1}
  MaxAttempts = 1
  MaxRequests = 1
  MaxChars = 2
  RunRequests = 1
  MaxTexts = 2
  Days = {1}
  MaxCrashes = 0
  MaxOrders = 1
INVARIANTS TypeOK Attributed
