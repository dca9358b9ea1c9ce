CONSTANTS
  Requests = {r1}
  Urgent = {}
  Listeners = {l1, l2}
  NoReq = NoReq
  Stale = 1
  RequestTTL = 2
  WaitTicks = 1
  Keep = 0
  MaxRuns = 2
  MaxOutages = 2
  MaxLocked = 1
SPECIFICATION FairSpec
PROPERTIES RequestLeavesQueue
