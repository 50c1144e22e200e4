CONSTANTS
  u1 = u1
  u2 = u2
  a1 = a1
  a2 = a2
  b1 = b1
  Users = {u1, u2}
  Clients = {a1, a2, b1}
  UserOf <- MCUserOf
  Chats = {}
  Lists <- MCLists
  NoClient = NoClient
  Data = Data
  RegCap = 2
  UnregCap = 2
  BcastCap = 0
  SendCap = 1
SPECIFICATION Spec
SYMMETRY Symmetry
INVARIANTS PresenceTold RemovedOnce
CHECK_DEADLOCK FALSE
