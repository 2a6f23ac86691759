SPECIFICATION FairSpec
CONSTANTS
  Goroutines = {g1, g2}
  Ids = {acct1, acct2}
  NoManager = NoManager
  NoGoroutine = NoGoroutine
INVARIANTS
  TypeOK
  MapAccessIsExclusive
  NoGoroutineBuildsTwice
  ManagersServeTheirId
PROPERTY EveryCallReturns
