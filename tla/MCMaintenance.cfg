\* Two commands at once, two migrations, one item, backups on two dates of which
\* the second makes the first obsolete, and one crash; two snapshots are kept, one
\* backup by the one command and two by the other.
SPECIFICATION FairSpec
CONSTANTS
  p1 = p1
  p2 = p2
  i1 = i1
  First = 1
  Last = 3
  Keep = 2
  Commands = {p1, p2}
  Items = {i1}
  Date <- TwoDaysApart
  Days = 1
  Count <- OneThenTwo
  MaxVersion = 2
  MaxNow = 2
  MaxFaults = 1
INVARIANTS
  UpgradeCanBeUndone
PROPERTIES
  BackedUpBeforeDeletion
  EventuallyUpgraded
