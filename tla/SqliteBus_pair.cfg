CONSTANTS
  Requests = {r1, r2}
  Urgent = {r1}
  Listeners = {l1, l2}
  NoReq = NoReq
  Stale = 0
  RequestTTL = 1
  WaitTicks = 1
  Keep = 1
  MaxRuns = 3
  MaxOutages = 1
  MaxLocked = 1
SPECIFICATION Spec
SYMMETRY Symmetry
INVARIANTS AnswersAreEarned RunsBoundedByReclaims
PROPERTIES SettledStaysOutOfQueue
