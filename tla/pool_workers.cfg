CONSTANTS
  w1 = w1
  w2 = w2
  NoWorker = none
  Worker <- MCWorkers2
  Size = 2
  Limit = 1
  Attempts = 2
  Retries = 0
  Faults = {}
  Slack = 1
SPECIFICATION Spec
INVARIANTS TypeOK OvershootBounded NoOrphanBrowser
SYMMETRY Symmetric
