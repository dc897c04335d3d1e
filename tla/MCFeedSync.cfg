\* Two overlapping rounds over a feed that cannot be read and, behind it, one that
\* changes, with two entries kept of each version; two crashes or failed fetches,
\* one retention run, one frozen article.
SPECIFICATION FairSpec
CONSTANTS
  bad = bad
  good = good
  moves = moves
  g1 = g1
  g2 = g2
  u1 = u1
  u2 = u2
  u3 = u3
  x = x
  y = y
  s1 = s1
  s2 = s2
  Order <- BadThenGood
  Entries <- Served
  NoGuid = NoGuid
  NoLink = NoLink
  BadLink = BadLink
  NoRow = NoRow
  Validating = {good}
  Syncs = {s1, s2}
  MaxEntries = 2
  MaxAttempts = 2
  MaxFaults = 2
  MaxPurges = 1
  MaxFrozen = 1
INVARIANTS
  SettledIsStored
PROPERTIES
  EditionArticlesStay
  EventuallySynced
