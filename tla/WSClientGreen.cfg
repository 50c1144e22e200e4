CONSTANTS
  NoToken = NoToken
  NoSocket = NoSocket
  Tokens = {t1}
  Sockets = {s1, s2}
SPECIFICATION Spec
INVARIANT GreenIsOk
CHECK_DEADLOCK FALSE
