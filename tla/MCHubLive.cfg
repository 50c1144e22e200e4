CONSTANTS
  u1 = u1
  u2 = u2
  a1 = a1
  a2 = a2
  b1 = b1
  Users = {u1, u2}
  Clients = {a1, b1}
  UserOf <- MCUserOf
  Chats = {ch}
  Lists <- MCLists
  NoClient = NoClient
  Data = Data
  RegCap = 1
  UnregCap = 1
  BcastCap = 1
  SendCap = 1
SPECIFICATION FairSpec
PROPERTY SessionRetired
CHECK_DEADLOCK FALSE
