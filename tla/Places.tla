-------------------------------- MODULE Places --------------------------------
(* The panels, lists and strips of the window: they share no state, and a behaviour is of one  *)
(* of them, in the same variables s1 to s17.  Desk has the other parts.                        *)
EXTENDS Naturals, Sequences, FiniteSets, TLC

CONSTANTS
  Nil, ChatSet,             \* what the parts call None and Chats
  MaxSlides,                                                               \* of Layout
  Tabs, TypeOf, RoleOf, Invite, MaxMounts, PanelTasks, MaxElse,            \* of InfoPanel
  ListChanges, MaxLoads, MaxOps, MaxTold,                                  \* of ChatList
  Names, Kind(_), MaxMoves,                                                \* of Folders
  Pages, Home, BROWSER_MAX_TABS, MaxTabs, MaxSteps,                        \* of Browser
  Messages, ChatOf, Mine, System, MAX_MESSAGE_SELECTION, MaxRounds, MaxAsks, \* of Selection
  MaxStories, StoryMoves, MaxAges                                          \* of Stories

VARIABLE place \* the part this behaviour is of: the steps of one among those of another would
              \* show nothing

(* The places.  A part leaves those it does not use as they are. *)
VARIABLES s1, s2, s3, s4, s5, s6, s7, s8, s9, s10, s11, s12, s13, s14, s15, s16, s17
Free18 == TRUE
Free17 == s17 = Nil /\ Free18
Free16 == s16 = Nil /\ Free17
Free15 == s15 = Nil /\ Free16
Free14 == s14 = Nil /\ Free15
Free13 == s13 = Nil /\ Free14
Free12 == s12 = Nil /\ Free13
Free11 == s11 = Nil /\ Free12
Free10 == s10 = Nil /\ Free11
Free9 == s9 = Nil /\ Free10
Same18 == TRUE
Same17 == UNCHANGED s17 /\ Same18
Same16 == UNCHANGED s16 /\ Same17
Same15 == UNCHANGED s15 /\ Same16
Same14 == UNCHANGED s14 /\ Same15
Same13 == UNCHANGED s13 /\ Same14
Same12 == UNCHANGED s12 /\ Same13
Same11 == UNCHANGED s11 /\ Same12
Same10 == UNCHANGED s10 /\ Same11
Same9 == UNCHANGED s9 /\ Same10

(* The panels over each other. *)
L == INSTANCE Layout WITH None <- Nil, Chats <- ChatSet, width <- s1, settings <- s2,
      favorites <- s3, profile <- s4, rootTab <- s5, chat <- s6, slides <- s7, asked <- s8, odd <- s9
ASSUME LayoutAssumption == L!LayoutConstants

(* The panel on a chat. *)
I == INSTANCE InfoPanel WITH None <- Nil, Chats <- ChatSet, Type <- TypeOf, Role <- RoleOf,
      MaxTasks <- PanelTasks, at <- s1, mount <- s2, shown <- s3, tab <- s4, muted <- s5,
      tasks <- s6, silent <- s7, elses <- s8, late <- s9, unsure <- s10
ASSUME InfoPanelAssumption == I!InfoPanelConstants

(* The list of chats. *)
C == INSTANCE ChatList WITH None <- Nil, MaxChanges <- ListChanges, log <- s1, cache <- s2,
      list <- s3, loads <- s4, ops <- s5, told <- s6, modal <- s7, odd <- s8
ASSUME ChatListAssumption == C!ChatListConstants

(* Its tabs and folders. *)
F == INSTANCE Folders WITH None <- Nil, Chats <- ChatSet, TypeOf <- Kind, here <- s1,
      archived <- s2, pinned <- s3, found <- s4, folders <- s5, tab <- s6, filter <- s7,
      editor <- s8, n <- s9
ASSUME FoldersAssumption == F!FoldersConstants

(* The browser in the window. *)
B == INSTANCE Browser WITH None <- Nil, native <- s1, tabs <- s2, active <- s3, url <- s4,
      hist <- s5, bar <- s6, loading <- s7, going <- s8, devtools <- s9, drag <- s10, made <- s11,
      steps <- s12, odd <- s13
ASSUME BrowserAssumption == B!BrowserConstants

(* The messages chosen. *)
S == INSTANCE Selection WITH None <- Nil, Chats <- ChatSet, MaxTasks <- MaxRounds, chat <- s1,
      messages <- s2, selected <- s3, anchor <- s4, replying <- s5, dialog <- s6, hide <- s7,
      rounds <- s8, gone <- s9, asks <- s10, shown <- s11, stray <- s12
ASSUME SelectionAssumption == S!SelectionConstants

(* The strip of stories. *)
Y == INSTANCE Stories WITH None <- Nil, MaxMoves <- StoryMoves, stories <- s1, friend <- s2,
      local <- s3, items <- s4, asks <- s5, tasks <- s6, open <- s7, viewer <- s8, views <- s9,
      seen <- s10, made <- s11, fate <- s12, odd <- s13, asked <- s14, newest <- s15, moves <- s16,
      ages <- s17
ASSUME StoriesAssumption == Y!StoriesConstants

-----------------------------------------------------------------------------
PlacesInit ==
  \/ place = "layout" /\ L!Init /\ Free10
  \/ place = "info" /\ I!Init /\ Free11
  \/ place = "list" /\ C!Init /\ Free9
  \/ place = "folders" /\ F!Init /\ Free10
  \/ place = "browser" /\ B!Init /\ Free14
  \/ place = "selection" /\ S!Init /\ Free13
  \/ place = "stories" /\ Y!Init /\ Free18

places == <<s1, s2, s3, s4, s5, s6, s7, s8, s9, s10, s11, s12, s13, s14, s15, s16, s17>>
placesVars == <<place, places>>

At(part) == place = part /\ UNCHANGED place
PlacesNext ==
  \/ At("layout") /\ Same10 /\ L!Next
  \/ At("info") /\ Same11 /\ I!Next
  \/ At("list") /\ Same9 /\ C!Next
  \/ At("folders") /\ Same10 /\ F!Next
  \/ At("browser") /\ Same14 /\ B!Next
  \/ At("selection") /\ Same13 /\ S!Next
  \/ At("stories") /\ Same18 /\ Y!Next

PlacesSpec == PlacesInit /\ [][PlacesNext]_placesVars
-----------------------------------------------------------------------------
(* AskedIsShown of Layout and PanelHere of InfoPanel: what the user asked to see last is on the
   screen, and the panel on a chat shows the one that is open, but for the exceptions stated
   there (MainLayout.tsx, ChatInfoPanel.tsx). *)
AskedIsShown == (place = "layout" => L!AskedIsShown) /\ (place = "info" => I!PanelHere)

(* ListCurrent of ChatList and FolderShows of Folders: with nothing under way the list has
   every change, and a chat put into a folder is under its tab or in the archive it leads to
   (loadChats, filtered, DialogList.tsx; getChats, client.ts). *)
ListCurrent == (place = "list" => C!ListCurrent) /\ (place = "folders" => F!FolderShows)

(* HistoryHere and LineTrue of Browser: a tab is where its history says, and its line says
   truly that a page is loading (BrowserPanel.tsx, store/index.ts). *)
HistoryHere == place = "browser" => B!HistoryHere /\ B!LineTrue

(* ChosenHere of Selection: what a round works through is of one chat, but for what was chosen
   while the list was not of the open chat, and within the limit (handleSelectionClick,
   loadChat, ChatView.tsx). *)
ChosenHere == place = "selection" => S!ChosenHere

(* StoriesTrue and PublishedKept of Stories, with its types: with nothing under way the strip
   shows the feed of the moment, and a published story is at the server or kept here
   (StoriesStrip.tsx, stories.ts). *)
StoriesTrue == place = "stories" => Y!TypeOK /\ Y!StoriesTrue /\ Y!PublishedKept
==============================================================================
