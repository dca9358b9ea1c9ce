CONSTANTS
  Requests = {r1, r2, r3}
  Malformed = {r3}
  Listeners = {l1}
  NoReq = NoReq
  Stale = 1
  RequestTTL = 2
  ResponseTTL = 1
  WaitTicks = 1
  MaxRuns = 4
  MaxOutages = 2
SPECIFICATION Spec
INVARIANTS RunsBoundedByOutages ClaimIsHeld 
PROPERTIES KeepsStrictContract
