CONSTANTS
  Requests = {r1}
  Malformed = {}
  Listeners = {l1, l2}
  NoReq = NoReq
  Stale = 1
  RequestTTL = 2
  ResponseTTL = 1
  WaitTicks = 1
  MaxRuns = 2
  MaxOutages = 0
SPECIFICATION Spec
INVARIANTS NoDoubleProcessing
