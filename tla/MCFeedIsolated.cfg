\* A feed that exchanges two links, ahead of one that is in order.
SPECIFICATION FairSpec
CONSTANTS
  bad = bad
  good = good
  moves = moves
  g1 = g1
  g2 = g2
  u1 = u1
  u2 = u2
  u3 = u3
  x = x
  y = y
  s1 = s1
  s2 = s2
  Order <- MovesThenGood
  Entries <- Served
  NoGuid = NoGuid
  NoLink = NoLink
  BadLink = BadLink
  NoRow = NoRow
  Validating = {good}
  Syncs = {s1}
  MaxEntries = 2
  MaxAttempts = 2
  MaxFaults = 0
  MaxPurges = 0
  MaxFrozen = 0
PROPERTIES
  FailureIsIsolated
