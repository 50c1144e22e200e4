CONSTANTS
  c1 = c1
  c2 = c2
  x1 = x1
  x2 = x2
  v1 = v1
  v2 = v2
  w1 = w1
  w2 = w2
  i1 = i1
  i2 = i2
  o1 = o1
  p1 = p1
  None = None
  Chats = {c1, c2}
  Windows = {w1, w2}
  Earlier <- MCEarlier
  Choices <- MCChosen
  Ids = {i1, i2}
  MaxApplied = 2
  MaxLoaded = 2
  Voice = {v1}
  Notes = {v2}
  MaxEvents = 3
  Tracks = {v1, v2}
  MaxQueue = 2
  MusicEvents = 4
  Types = {"p", "g"}
  Default = "p"
  Sort <- MCSort
  MaxMessages = 2
  MaxCalls = 3
  MaxTexts = 2
  MaxSends = 2
  Targets = {x1, x2}
  MaxFiles = 2
  MaxSwitches = 1
  MaxReplies = 1
  MaxRecs = 2
  Emojis = {v1, v2}
  Options = {o1, p1}
  Multiple = TRUE
  MaxClicks = 2
  MaxOthers = 1
  Theirs <- MCTheirs
  maxStickersPerUser = 1
  maxPacksPerUser = 2
  StickerCalls = 2
  StickerLoads = 1
  MaxChanges = 2
  MaxTasks = 2
  f1 = f1
  Nil = Nil
  ChatSet = {c1, c2}
  MaxSlides = 2
  Tabs = {"media"}
  TypeOf <- MCTypeOf
  RoleOf <- MCRoleOf
  Invite = {c1}
  MaxMounts = 1
  MaxElse = 1
  MaxLoads = 2
  MaxOps = 1
  MaxTold = 1
  Names = {f1}
  Kind <- MCKind
  MaxMoves = 1
  Pages = {Home, p1}
  Home = Home
  BROWSER_MAX_TABS = 2
  MaxTabs = 3
  MaxSteps = 1
  Messages = {1, 2, 3, 4}
  ChatOf <- MCOf
  Mine = {1, 4}
  System = {2}
  MAX_MESSAGE_SELECTION = 2
  MaxRounds = 1
  MaxAsks = 1
  MaxStories = 1
  StoryMoves = 2
  MaxAges = 1
  Talkers = {x1, x2}
  Requests = {i1, i2}
  Voters = {v1, v2}
  MaxChats = 3
  MaxAsked = 3
  MaxVotes = 3
  ListChanges = 2
  PanelTasks = 2
SPECIFICATION Spec
SYMMETRY Symmetry
CONSTRAINT Bound
INVARIANTS ChoiceKept AskedIsShown ListCurrent HistoryHere OneVoice AlertsTrue DraftKept InPlace
INVARIANTS MicHeld ChosenHere AnswersTrue StoriesTrue LimitRaced
CHECK_DEADLOCK FALSE
