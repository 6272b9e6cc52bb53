CONSTANTS
  w1 = w1
  w2 = w2
  NoWorker = none
  Worker <- MCWorkers2
  Size = 1
  Limit = 1
  Attempts = 2
  Retries = 1
  Faults = {"crash", "redis", "launcher", "quit"}
  Slack = 1
SPECIFICATION Spec
INVARIANTS CounterCoversSessions
SYMMETRY Symmetric
