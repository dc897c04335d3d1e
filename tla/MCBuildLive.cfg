SPECIFICATION FairSpec
CONSTANTS
  a1 = a1
  a2 = a2
  Builders = {b1}
  Ranked <- OneArticle
  EditorialModes = {TRUE, FALSE}
  IncludeUntranslated = TRUE
  MaxSize = 2
  NoRendering = NoRendering
  MaxDrift = 2
  MaxFaults = 2
PROPERTIES
  QueuedWhenSettled
  ArtifactRestored
