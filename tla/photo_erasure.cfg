CONSTANTS
  s1 = s1
  s2 = s2
  c1 = c1
  c2 = c2
  NoCopy = none
  Scrape <- MCScrape2
  Call <- MCCalls
  Kinds <- MCKinds
  Ext = {"jpg"}
  Remote = TRUE
  Production = FALSE
  Faults = {"redis", "r2", "database", "crash"}
SPECIFICATION FairSpec
INVARIANTS TypeOK ErasedExceptLate CachedIsStored RegisterAgrees
PROPERTIES DsarsEnd
CHECK_DEADLOCK FALSE
