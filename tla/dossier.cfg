CONSTANTS
  Submitted <- MCSubmitted
  Modes <- MCModes
  Platforms <- MCPlatforms
  PlatformOf <- MCPlatformOf
  Listings <- MCListings
  Rows <- MCRows
  Leaks <- MCLeaks
  Harvests <- MCHarvests
  Patterns <- MCPatterns
  Junk <- MCJunk
  Postings <- MCPostings
  Cap = 2
  Threshold = 70
  Opinions <- MCOpinions
CHECK_DEADLOCK FALSE
SPECIFICATION Spec
INVARIANTS TypeOK BestHandleKept FindsMerged VerifiedWithinBudget VerdictsHold Vouched StatusTruthful
PROPERTIES EveryDispatchEnds
