\* Three articles, two of them per resume and two provider calls per process, two
\* processes that may overlap once, one crash.  A run that is done is left alone.
SPECIFICATION FairSpec
CONSTANTS
  Articles = {1, 2, 3}
  Runners = {r1, r2}
  Limit = 2
  Budget = 2
  MaxCrashes = 1
  MaxOverlaps = 1
INVARIANTS
  TypeOK
  CheckpointsAreTrue
  SuccessOnce
PROPERTIES
  EventuallyDone
CHECK_DEADLOCK FALSE
