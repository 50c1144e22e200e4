CONSTANTS
  Users = {u1, u2}
  Messages = {m1}
  Movers = {u2}
  Sender <- OneSender
  Previous <- AfterOne
  NoMessage = NoMessage
  Nobody = Nobody
  BcastCap = 2
SPECIFICATION Spec
INVARIANT NewMessageReachesSender
CHECK_DEADLOCK FALSE
