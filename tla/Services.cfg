CONSTANTS
  a = a
  b = b
  Devices = {a, b}
  Syncers <- MCSyncers
  Home <- MCHome
  Text <- MCText
  Peer <- MCPeer
  Share = "public"
  Limit = 1
  Nobody = Nobody
  MaxEvents = 2
  Viewers = {v1}
  QueueSize = 1
  Cap = 1
  MaxEdits = 2
  MaxServers = 1
  Questions = {q1, q2}
  Workers = 1
  Rpm = 1
  FormRpm = 2
  Window = 1
  TokenTTL = 2
  MaxChanges = 1
  MaxForms = 1
  Sessions = {s1, s2}
  NoThread = NoThread
  Loops = {t1, t2}
  Retries = 1
  MaxErrors = 2
  Notes = {n1, n2}
  Seed = Seed
  Feeds = {c1}
  Pages = {p1}
  CacheTicks = 2
  MaxNoteEdits = 2
  Phrase <- MCPhrase
  Letters <- MCLetters
  ExitWords = {"stop"}
  Replies <- MCReplies
  MaxWords = 4
SPECIFICATION Spec
INVARIANTS TypeOK  FocusOnBoard
PROPERTIES PublicReachesPeers ServersComeBack ViewersCatchUp EveryQuestionAnswered  
CHECK_DEADLOCK FALSE
