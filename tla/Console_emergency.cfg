CONSTANTS
  Clients = {w1, w2}
  Phrases = {"automation start", "automation stop", "automation enable", "automation disable", "emergency stop automation", "automation approve x", "automation deny x", "run ls", "run ", "confrm", "cancel", "why"}
  Exact <- MCExact
  Prefix <- MCPrefix
  Nearest <- MCNearest
  HighRisk = {"automation_emergency_stop", "shell"}
  None = None
  TTL = 1
  MaxCommands = 3
  MaxKills = 0
  Daemons = {d1, d2}
  Rules = {r1, r2}
  MaxCrashes = 0
SPECIFICATION Spec

PROPERTY EmergencyStopHalts
CHECK_DEADLOCK FALSE
