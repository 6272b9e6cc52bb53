CONSTANTS
  email = email
  profile = profile
  h1 = h1
  h2 = h2
  h3 = h3
  c1 = c1
  c2 = c2
  Identifier <- MCIdentifier
  Handler <- MCHandler
  Target <- MCTarget
  Check <- MCCheck
  Values <- MCValues
  Faults = {"outage", "loss", "abort"}
SPECIFICATION Spec
INVARIANTS TypeOK CacheWithinList
PROPERTIES ImplementsList
