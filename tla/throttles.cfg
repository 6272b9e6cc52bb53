CONSTANTS
  g1 = g1
  g2 = g2
  a1 = a1
  github = github
  async = async
  Caller <- MCCallers
  Scope <- MCScopes
  ScopeOf <- MCScopeOf
  Guarded <- MCGuarded
  Limit <- MCLimit
  Cooldown = TRUE
  Faults = {"redis", "crash"}
  MaxCount = 2
SPECIFICATION FairSpec
INVARIANTS TypeOK CounterExpires CooldownRespected BudgetPerWindow
PROPERTIES WindowReopens
