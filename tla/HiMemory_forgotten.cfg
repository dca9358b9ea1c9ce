CONSTANTS
  note = note
  twin = twin
  guest = guest
  Entries = {note, twin}
  Foreign = {}
  Public = {}
  Old = {}
  Text <- MCText
  Workers = {w1}
  NoWorker = NoWorker
  NoEntry = NoEntry
  Cap = 2
  MaxUpsets = 1
SPECIFICATION Spec
INVARIANT DeletedStaysDeleted
