CONSTANTS
  Users = {u1, u2}
  Messages = {m1, m2}
  Movers = {u2}
  Sender <- OneSender
  Previous <- AfterOne
  NoMessage = NoMessage
  Nobody = Nobody
  BcastCap = 1
SPECIFICATION Spec
INVARIANTS EachSendRouted InOrder FanoutKept
CHECK_DEADLOCK FALSE
