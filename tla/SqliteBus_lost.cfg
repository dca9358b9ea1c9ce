CONSTANTS
  Requests = {r1}
  Urgent = {}
  Listeners = {l1}
  NoReq = NoReq
  Stale = 1
  RequestTTL = 2
  WaitTicks = 1
  Keep = 1
  MaxRuns = 2
  MaxOutages = 0
  MaxLocked = 0
SPECIFICATION Spec
PROPERTIES AnswerWaitsForCaller
