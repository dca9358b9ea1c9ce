CONSTANTS
  note = note
  twin = twin
  guest = guest
  Entries = {note, twin, guest}
  Foreign = {guest}
  Public = {twin}
  Old = {note}
  Text <- MCText
  Workers = {w1, w2}
  NoWorker = NoWorker
  NoEntry = NoEntry
  Cap = 2
  MaxUpsets = 1
SPECIFICATION FairSpec
INVARIANTS TypeOK NothingIsLost IdentityIsStable NothingShownUnasked
PROPERTY MemoryIsIndexed
