SPECIFICATION Spec
CONSTANTS
  Goroutines = {g1, g2}
  Ids = {acct1}
  NoManager = NoManager
  NoGoroutine = NoGoroutine
INVARIANT OneManagerPerId
