CONSTANTS
  None = None
  NoToken = NoToken
  NoSocket = NoSocket
  Tokens = {t1, t2}
  Sockets = {s1, s2}
  Chats = {P, Q}
  Page = 1
  OlderPage = 1
  MaxLog = 3
  MaxTasks = 2
  MaxAsked = 3
  MaxMarks = 1
  MaxFlips = 2
  MaxTyped = 1
  MaxMounts = 1
  MaxOpens = 2
  MaxCuts = 1
SPECIFICATION PartsSpec
SYMMETRY Symmetry
CONSTRAINT Bound
INVARIANTS SocketOwned ShownOnce NothingMissing ReadExplained PresenceShown
CHECK_DEADLOCK FALSE
