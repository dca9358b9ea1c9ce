CONSTANTS
  Clients = {w1, w2}
  Phrases = {"automation start", "automation stop", "automation enable", "automation disable", "emergency stop automation", "automation approve x", "automation deny x", "run ls", "run ", "confrm", "cancel", "why"}
  Exact <- MCExact
  Prefix <- MCPrefix
  Nearest <- MCNearest
  HighRisk = {"automation_emergency_stop", "shell"}
  None = None
  TTL = 1
  MaxCommands = 3
  MaxKills = 1
  Daemons = {d1, d2}
  Rules = {r1, r2}
  MaxCrashes = 1
  Readers = {t1, t2}
  MaxJournal = 3
  MaxTicks = 2
  Keep = 2
  MaxEntries = 4
  MaxRestarts = 2
  Submitters = {w1, w2}
  Unheld = Unheld
  Accounts = {u1, u2}
  Show = 2
  MaxRecords = 3
  MaxResets = 1
  t1 = t1
  t2 = t2
  p1 = p1
  p2 = p2
  m1 = m1
  m2 = m2
  m3 = m3
  Asks = {t1, t2}
  ProcessOf <- MCProcessOf
  Unlocked = Unlocked
  MaxHistory = 1
  MaxChoices = 2
  MaxStarts = 1
  Writers = {w1, w2}
  Nodes = {m1, m2, m3}
  Score <- MCScore
  RefreshLimit = 1
  Old = {m1}
  MaxDepth = 2
  MaxNodes = 3
  Fan = 2
  Links <- MCLinks
SPECIFICATION PartsSpec
INVARIANTS OneDaemonAndFound NothingStaleIsUsed  WalkFindsNearest
PROPERTIES ConfirmTakesLiveCommand HighRiskGetsQueued
CHECK_DEADLOCK FALSE
