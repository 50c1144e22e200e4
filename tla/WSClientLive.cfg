CONSTANTS
  NoToken = NoToken
  NoSocket = NoSocket
  Tokens = {t1}
  Sockets = {s1, s2}
SPECIFICATION FairSpec
PROPERTIES Reconnects OrphansEnd
CHECK_DEADLOCK FALSE
