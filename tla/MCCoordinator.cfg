\* Two topics under one deadline-run after the other, with two interventions: an agent's
\* version, an edit of the configuration, an operator's build, a crash, a broken edition.
SPECIFICATION FairSpec
CONSTANTS
  t1 = t1
  t2 = t2
  early = early
  late = late
  off = off
  Order <- TwoTopics
  Contents = {early, late, off}
  NoContent = NoContent
  Offset <- OffsetOf
  Deadline <- DeadlineOf
  Preparation <- PreparationOf
  Enabled <- EnabledOf
  DayLength = 3
  MaxVersion = 2
  Overrides = {1}
  Runs = {r1}
  Hands = {h1}
  FirstConfig <- Start1
  Horizon = 3
  MaxInterventions = 2
INVARIANTS
  WorksOnStoredVersions
  
  DryRunAgrees

PROPERTIES
  EventuallyBuilt
