CONSTANTS
  None = None
  c1 = c1
  c2 = c2
  e1 = e1
  e2 = e2
  g1 = g1
  p1 = p1
  Users = {u1, u2}
  Calls = {c1, c2}
  Contacts = {a1}
  MaxClicks = 2
  MaxOthers = 1
  MaxTyped = 1
  Emails = {e1, e2}
  Start <- MCStart
  MaxVerifyAttempts = 1
  MaxIssued = 2
  MaxTokens = 2
  MaxAsked = 2
  Parties = {1, 2, 3}
  Rings = {g1, p1}
  GroupRings = {g1}
  Caller <- MCCaller
  Callees <- MCCallees
  Chat <- MCChat
  Gathers = {2}
  Talks = {1, 2}
  VideoTalks = {1}
  GroupTalks = {}
  MaxTracks = 4
  MaxTasks = 2
SPECIFICATION PartsSpec
SYMMETRY Symmetry
CONSTRAINT Bound
INVARIANTS BlockRespected ListsCurrent UserOfToken TriesBounded OneOfferer
INVARIANTS CandidatesKept TogetherAtRest TracksHeld
PROPERTIES AgreedByBoth
CHECK_DEADLOCK FALSE
