SPECIFICATION Spec
CONSTANTS
  Clients = {c1, c2}
  Commands <- Few
  Worlds = {TRUE, FALSE}
  PollSetSize = 5
  MaxConnects = 2
  MaxUnread = 1
PROPERTY AnswersGoToSender
CHECK_DEADLOCK FALSE
