SPECIFICATION FairSpec
CONSTANTS
  Main = Main
  W = W
  T = T
  NULL = NULL
  Chunks = 3
INVARIANTS TornDownQuietly BodyIsPrefix ShortExportNoticed
PROPERTIES JobsEnd ProcessEnds
CHECK_DEADLOCK FALSE
