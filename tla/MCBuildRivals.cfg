SPECIFICATION Spec
CONSTANTS
  a1 = a1
  a2 = a2
  Builders = {b1, b2}
  Ranked <- TwoArticles
  EditorialModes = {TRUE, FALSE}
  IncludeUntranslated = TRUE
  MaxSize = 3
  NoRendering = NoRendering
  MaxDrift = 2
  MaxFaults = 1
INVARIANTS
  TypeOK
  QueuedIsRecorded
  DegradedIsReported
  ShowsFrozenArticles
  PiOnce
  ArtifactIntact
PROPERTIES
  FrozenForGood
  LifecycleSpec
