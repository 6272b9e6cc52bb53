CONSTANTS
  j1 = j1
  j2 = j2
  email = email
  profile = profile
  Job <- MCJobs2
  Identifier <- MCIdentifiers2
  IdentifiersOf <- MCOverlap
  Workers = 2
  Faults = {}
  MaxErrors = 0
SPECIFICATION Spec
INVARIANTS PurgeHoldsDossiers ErasedExceptRacing
