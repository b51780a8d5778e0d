SPECIFICATION FairSpec
CONSTANTS
  Clients = {c1, c2}
  Commands <- Few
  Worlds = {TRUE, FALSE}
  PollSetSize = 5
  MaxConnects = 2
  MaxUnread = 1
INVARIANTS TypeOK PollSetMatches OutlivesOrderlyClients
PROPERTIES OrderlyAnswers StartsStraight StopsOrWaits
CHECK_DEADLOCK FALSE
