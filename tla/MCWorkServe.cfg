SPECIFICATION FairSpec
CONSTANTS
  s1 = s1
  s2 = s2
  r1 = r1
  o1 = o1
  p1 = p1
  p2 = p2
  Syncs = {s1}
  Orders = {}
  Retries = {r1}
  Budgeted = {s1, r1}
  Chain <- OneProvider
  Providers = {p1}
  Chunks <- TwoChunks
  Lengths = {1, 2}
  MaxAttempts = 2
  MaxRequests = 3
  MaxChars = 4
  RunRequests = 1
  MaxTexts = 2
  Days = {1, 2}
  MaxCrashes = 1
  MaxOrders = 0
PROPERTIES LedgerSpec EventuallyDecided EventuallyStored TranslatedWhenQuiet
