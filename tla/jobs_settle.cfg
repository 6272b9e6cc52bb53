CONSTANTS
  j1 = j1
  j2 = j2
  email = email
  profile = profile
  Job <- MCJobs1
  Identifier <- MCIdentifiers1
  IdentifiersOf <- MCAlone
  Workers = 1
  Faults = {"error", "broker"}
  MaxErrors = 3
SPECIFICATION FairSpec
INVARIANTS RunningHasExecutor QueuedHasCarrier
PROPERTIES EveryJobSettles
