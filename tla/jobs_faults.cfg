CONSTANTS
  j1 = j1
  j2 = j2
  email = email
  profile = profile
  Job <- MCJobs1
  Identifier <- MCIdentifiers2
  IdentifiersOf <- MCBoth
  Workers = 1
  Faults = {"crash", "error", "early", "timeout", "broker"}
  MaxErrors = 1
SYMMETRY MCSymmetry
SPECIFICATION Spec
INVARIANTS TypeOK NoDispatchAfterOptOut StatusTellsDossier AnnouncedDossierKept ErasedExceptRacing
PROPERTIES ImplementsLife
