--------------------------------- MODULE Desk ---------------------------------
(* The parts of the window that share no state: what is chosen in the settings, the players,  *)
(* the field of a message, the toasts, the reactions and the stickers; and the chats and votes *)
(* at the server.  Places has the other parts.                                                *)
EXTENDS Naturals, Sequences, FiniteSets, TLC

CONSTANTS
  None, Chats,
  Windows, Earlier, Choices,                                               \* of Prefs
  Ids, MaxApplied, MaxLoaded,                                              \* of Devices
  Voice, Notes, MaxEvents,                                                 \* of Voices
  Tracks, MaxQueue, MusicEvents,                                           \* of Music
  Types, Default, Sort(_), MaxMessages, MaxCalls,                          \* of Alerts
  MaxTexts, MaxSends,                                                      \* of Draft
  Targets, MaxFiles, MaxSwitches, MaxReplies,                              \* of Attach
  MaxRecs,                                                                 \* of Recorder
  Emojis, Options, Multiple, MaxClicks, MaxOthers,                         \* of Reactions
  Theirs, maxStickersPerUser, maxPacksPerUser, StickerCalls, StickerLoads, \* of Stickers
  Talkers, Requests, Voters, MaxChats, MaxAsked, MaxVotes,                 \* of Dialogs
  MaxChanges, MaxTasks                                                     \* of several

VARIABLE only \* the part this behaviour is of: the parts share no state, so that
              \* the steps of one among those of another would show nothing

(* The choices of the settings, in several windows. *)
VARIABLES mem, prefsDisk, left, prefsLast, over, behind
prefsVars == <<mem, prefsDisk, left, prefsLast, over, behind>>
P == INSTANCE Prefs WITH Chosen <- Choices, disk <- prefsDisk, last <- prefsLast
ASSUME PrefsAssumption == P!PrefsConstants
prefsAbsent == /\ mem = None /\ prefsDisk = None /\ left = None /\ prefsLast = None /\ over = None
               /\ behind = None

(* The devices of calls. *)
VARIABLES prefs, devicesDisk, idb, devicesTasks, read, devicesDraft, section, devicesN, loaded,
          chosen, devicesOdd
devicesVars == <<prefs, devicesDisk, idb, devicesTasks, read, devicesDraft, section, devicesN,
                 loaded, chosen, devicesOdd>>
D == INSTANCE Devices WITH disk <- devicesDisk, tasks <- devicesTasks, draft <- devicesDraft,
      n <- devicesN, odd <- devicesOdd
ASSUME DevicesAssumption == D!DevicesConstants
devicesAbsent == /\ prefs = None /\ devicesDisk = None /\ idb = None /\ devicesTasks = None
                 /\ read = None /\ devicesDraft = None /\ section = None /\ devicesN = None
                 /\ loaded = None /\ chosen = None /\ devicesOdd = None

(* Voice messages and notes. *)
VARIABLES here, st, voiceEvents, voiceButton, active, voiceOdd
voicesVars == <<here, st, voiceEvents, voiceButton, active, voiceOdd>>
V == INSTANCE Voices WITH events <- voiceEvents, button <- voiceButton, odd <- voiceOdd
ASSUME VoicesAssumption == V!VoicesConstants
voicesAbsent == /\ here = None /\ st = None /\ voiceEvents = None /\ voiceButton = None
                /\ active = None /\ voiceOdd = None

(* The player of music. *)
VARIABLES musicCurrent, queue, patched, src, playing, musicEvents, musicButton, fetching, asked,
          musicOdd
musicVars == <<musicCurrent, queue, patched, src, playing, musicEvents, musicButton, fetching,
               asked, musicOdd>>
U == INSTANCE Music WITH MaxEvents <- MusicEvents, current <- musicCurrent, events <- musicEvents,
      button <- musicButton, odd <- musicOdd
ASSUME MusicAssumption == U!MusicConstants
musicAbsent == /\ musicCurrent = None /\ queue = None /\ patched = None /\ src = None
               /\ playing = None /\ musicEvents = None /\ musicButton = None /\ fetching = None
               /\ asked = None /\ musicOdd = None

(* Toasts, sounds and the banner of a group call. *)
VARIABLES alertCurrent, hidden, known, on, muted, toasts, timers, notes, alertN, alertLast, gone,
          banner, ends, calls, told, cut
alertsVars == <<alertCurrent, hidden, known, on, muted, toasts, timers, notes, alertN, alertLast,
                gone, banner, ends, calls, told, cut>>
A == INSTANCE Alerts WITH TypeOf <- Sort, current <- alertCurrent, n <- alertN, last <- alertLast
ASSUME AlertsAssumption == A!AlertsConstants
alertsAbsent == /\ alertCurrent = None /\ hidden = None /\ known = None /\ on = None
                /\ muted = None /\ toasts = None /\ timers = None /\ notes = None /\ alertN = None
                /\ alertLast = None /\ gone = None /\ banner = None /\ ends = None /\ calls = None
                /\ told = None /\ cut = None

(* The text in the field. *)
VARIABLES draftChat, field, drafts, timer, sending, sends, mount, draftN, wants, lost
draftVars == <<draftChat, field, drafts, timer, sending, sends, mount, draftN, wants, lost>>
T == INSTANCE Draft WITH chat <- draftChat, draft <- drafts, n <- draftN
ASSUME DraftAssumption == T!DraftConstants
draftAbsent == /\ draftChat = None /\ field = None /\ drafts = None /\ timer = None
               /\ sending = None /\ sends = None /\ mount = None /\ draftN = None /\ wants = None
               /\ lost = None

(* The files and contacts attached. *)
VARIABLES attachChat, reply, menu, pollBusy, pickers, attachTasks, log, shown, done, started,
          switches, replies
attachVars == <<attachChat, reply, menu, pollBusy, pickers, attachTasks, log, shown, done,
                started, switches, replies>>
H == INSTANCE Attach WITH Chats <- Targets, chat <- attachChat, tasks <- attachTasks
ASSUME AttachAssumption == H!AttachConstants
attachAbsent == /\ attachChat = None /\ reply = None /\ menu = None /\ pollBusy = None
                /\ pickers = None /\ attachTasks = None /\ log = None /\ shown = None
                /\ done = None /\ started = None /\ switches = None /\ replies = None

(* The recorder of voice and video messages. *)
VARIABLES there, press, mode, bar, recs, recorderN, chunks, recorderCurrent, stream, live, flips,
          limits, files, recorderOdd
recorderVars == <<there, press, mode, bar, recs, recorderN, chunks, recorderCurrent, stream, live,
                  flips, limits, files, recorderOdd>>
R == INSTANCE Recorder WITH n <- recorderN, current <- recorderCurrent, odd <- recorderOdd
ASSUME RecorderAssumption == R!RecorderConstants
recorderAbsent == /\ there = None /\ press = None /\ mode = None /\ bar = None /\ recs = None
                  /\ recorderN = None /\ chunks = None /\ recorderCurrent = None /\ stream = None
                  /\ live = None /\ flips = None /\ limits = None /\ files = None
                  /\ recorderOdd = None

(* Reactions and votes. *)
VARIABLES placed, reacts, local, reactTasks, inbox, mine, votes, voting, clicks, others, reactOdd
reactionsVars == <<placed, reacts, local, reactTasks, inbox, mine, votes, voting, clicks, others,
                   reactOdd>>
E == INSTANCE Reactions WITH tasks <- reactTasks, odd <- reactOdd
ASSUME ReactionsAssumption == E!ReactionsConstants
reactionsAbsent == /\ placed = None /\ reacts = None /\ local = None /\ reactTasks = None
                   /\ inbox = None /\ mine = None /\ votes = None /\ voting = None
                   /\ clicks = None /\ others = None /\ reactOdd = None

(* The stickers of a user. *)
VARIABLES packs, stickers, stickerCalls, crowded, stickersShown, packShown, libraries, cached,
          uploading, packsMine, importing, packsAll, stickersOdd, stickersMade, stickersAsked,
          stickersNewest, stickersLoaded
stickersVars == <<packs, stickers, stickerCalls, crowded, stickersShown, packShown, libraries,
                  cached, uploading, packsMine, importing, packsAll, stickersOdd, stickersMade,
                  stickersAsked, stickersNewest, stickersLoaded>>
K == INSTANCE Stickers WITH MaxCalls <- StickerCalls, MaxLoads <- StickerLoads,
      calls <- stickerCalls, over <- crowded, shown <- stickersShown, sel <- packShown,
      asks <- libraries, busy <- uploading, mine <- packsMine, all <- packsAll, odd <- stickersOdd,
      made <- stickersMade, asked <- stickersAsked, newest <- stickersNewest,
      loads <- stickersLoaded
ASSUME StickersAssumption == K!StickersConstants
stickersAbsent == /\ packs = None /\ stickers = None /\ stickerCalls = None /\ crowded = None
                  /\ stickersShown = None /\ packShown = None /\ libraries = None
                  /\ cached = None /\ uploading = None /\ packsMine = None /\ importing = None
                  /\ packsAll = None /\ stickersOdd = None /\ stickersMade = None
                  /\ stickersAsked = None /\ stickersNewest = None /\ stickersLoaded = None

(* Private chats, saved messages and votes at the server. *)
VARIABLES chats, lookups, lookedUp, twice, ballots, polls, ballot, mixed, voted
dialogsVars == <<chats, lookups, lookedUp, twice, ballots, polls, ballot, mixed, voted>>
N == INSTANCE Dialogs WITH Users <- Talkers, asks <- lookups, asked <- lookedUp, odd <- twice,
      votes <- ballots, runs <- polls
ASSUME DialogsAssumption == N!DialogsConstants
dialogsAbsent == /\ chats = None /\ lookups = None /\ lookedUp = None /\ twice = None
                 /\ ballots = None /\ polls = None /\ ballot = None /\ mixed = None
                 /\ voted = None

-----------------------------------------------------------------------------
Parts == {"prefs", "devices", "voices", "music", "alerts", "draft", "attach", "recorder",
          "reactions", "stickers", "dialogs"}

DeskInit ==
  /\ only \in Parts
  /\ IF only = "prefs" THEN P!Init ELSE prefsAbsent
  /\ IF only = "devices" THEN D!Init ELSE devicesAbsent
  /\ IF only = "voices" THEN V!Init ELSE voicesAbsent
  /\ IF only = "music" THEN U!Init ELSE musicAbsent
  /\ IF only = "alerts" THEN A!Init ELSE alertsAbsent
  /\ IF only = "draft" THEN T!Init ELSE draftAbsent
  /\ IF only = "attach" THEN H!Init ELSE attachAbsent
  /\ IF only = "recorder" THEN R!Init ELSE recorderAbsent
  /\ IF only = "reactions" THEN E!Init ELSE reactionsAbsent
  /\ IF only = "stickers" THEN K!Init ELSE stickersAbsent
  /\ IF only = "dialogs" THEN N!Init ELSE dialogsAbsent

settings == <<prefsVars, devicesVars>>
players == <<voicesVars, musicVars>>
input == <<draftVars, attachVars, recorderVars>>
answers == <<alertsVars, reactionsVars>>
served == <<stickersVars, dialogsVars>>
deskVars == <<only, settings, players, input, answers, served>>

Only(part) == only = part /\ UNCHANGED only
DeskNext ==
  \/ Only("prefs") /\ UNCHANGED <<devicesVars, players, input, answers, served>> /\ P!Next
  \/ Only("devices") /\ UNCHANGED <<prefsVars, players, input, answers, served>> /\ D!Next
  \/ Only("voices") /\ UNCHANGED <<settings, musicVars, input, answers, served>> /\ V!Next
  \/ Only("music") /\ UNCHANGED <<settings, voicesVars, input, answers, served>> /\ U!Next
  \/ Only("alerts") /\ UNCHANGED <<settings, players, input, reactionsVars, served>> /\ A!Next
  \/ /\ Only("draft") /\ UNCHANGED <<settings, players, attachVars, recorderVars, answers, served>>
     /\ T!Next
  \/ /\ Only("attach") /\ UNCHANGED <<settings, players, draftVars, recorderVars, answers, served>>
     /\ H!Next
  \/ /\ Only("recorder") /\ UNCHANGED <<settings, players, draftVars, attachVars, answers, served>>
     /\ R!Next
  \/ Only("reactions") /\ UNCHANGED <<settings, players, input, alertsVars, served>> /\ E!Next
  \/ Only("stickers") /\ UNCHANGED <<settings, players, input, answers, dialogsVars>> /\ K!Next
  \/ Only("dialogs") /\ UNCHANGED <<settings, players, input, answers, stickersVars>> /\ N!Next

DeskSpec == DeskInit /\ [][DeskNext]_deskVars
-----------------------------------------------------------------------------
(* ChoiceKept of Prefs and ChoiceInUse of Devices: what was chosen last is what the window goes
   by and what will be loaded (merge and partialize of store/index.ts,
   DeviceSettingsPersistence.tsx). *)
ChoiceKept == (only = "prefs" => P!ChoiceKept) /\ (only = "devices" => D!ChoiceInUse)

(* OneVoice of Voices and MusicObeys of Music: at most one message plays and the bar is its
   bar, and the player of music plays what was asked (VoiceBar, MusicPlayerContext.tsx). *)
OneVoice == (only = "voices" => V!OneVoice) /\ (only = "music" => U!MusicObeys)

(* AlertsTrue of Alerts: a toast stays for its time, and the banner of a group call says what
   was told last (Toast.tsx, App.tsx). *)
AlertsTrue == only = "alerts" => A!AlertsTrue

(* DraftKept of Draft: what was written and not sent is in the field or in its draft
   (MessageInput.tsx). *)
DraftKept == only = "draft" => T!DraftKept

(* InPlace and AnsweredOnce of Attach, with its types: a file goes to the chat it was attached
   to, once and in order, and one attachment answers a message (sendFileAsMessage,
   MessageInput.tsx). *)
InPlace == only = "attach" => H!TypeOK /\ H!InPlace /\ H!AnsweredOnce

(* MicHeld of Recorder: the microphone and the camera are on only while the bar shows a
   recording (startRecording, stopRecording, MessageInput.tsx). *)
MicHeld == only = "recorder" => R!MicHeld

(* AnswersTrue of Reactions: with nothing under way, the reactions and votes shown are those of
   the server (MessageBubble.tsx, PollBubble.tsx). *)
AnswersTrue == only = "reactions" => E!AnswersTrue

(* LimitRaced and PanelTrue of Stickers, with its types, and OnceForEach and LastVoteCounts of
   Dialogs: the limits of packs and stickers are passed, and a chat is made twice, only by calls
   that looked before another one wrote; with nothing under way the panel shows the library; and
   a vote that was overtaken crossed the one that counts (userstickers/service.go, StickerPanel.tsx;
   CreatePrivateChat, VotePoll, messaging/service.go). *)
LimitRaced == /\ only = "stickers" => K!TypeOK /\ K!LimitRaced /\ K!PanelTrue
              /\ only = "dialogs" => N!OnceForEach /\ N!LastVoteCounts
==============================================================================
