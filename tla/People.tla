-------------------------------- MODULE People --------------------------------
(* Friends, the panel that shows them, and what else two people have with each other:         *)
(* accounts, the signalling of calls and the media of a device in its calls.                  *)
EXTENDS Friends, Sequences, TLC

CONSTANTS
  None,
  Contacts, MaxClicks, MaxOthers, MaxTyped,                          \* of FriendsPanel
  Emails, Start, MaxVerifyAttempts, MaxIssued, MaxTokens, MaxAsked,  \* of Account
  Parties, Rings, GroupRings, Caller, Callees, Chat, Gathers,        \* of Calls
  Talks, VideoTalks, GroupTalks, MaxTracks, MaxTasks                 \* of CallMedia

VARIABLE only \* the part this behaviour is of: the parts share no state, so that
              \* the steps of one among those of another would show nothing

(* The section of the settings that lists friends and requests. *)
VARIABLES panelRow, open, shown, loads, query, timer, asking, hits, clicks, others, panelOdd
panelVars == <<panelRow, open, shown, loads, query, timer, asking, hits, clicks, others,
              panelOdd>>
P == INSTANCE FriendsPanel WITH People <- Contacts, row <- panelRow, odd <- panelOdd
ASSUME PanelAssumption == P!FriendsPanelConstants
panelAbsent == /\ panelRow = None /\ open = None /\ shown = None /\ loads = None /\ query = None
               /\ timer = None /\ asking = None /\ hits = None /\ clicks = None /\ others = None
               /\ panelOdd = None

(* Signing up, in and out, and saving the profile. *)
VARIABLES acct, issued, code, tries, refused, slips, reset, temps, signed, used, excused, token,
          user, held, step, email, temp, accountAsked, accountOdd
accountVars == <<acct, issued, code, tries, refused, slips, reset, temps, signed, used, excused,
                token, user, held, step, email, temp, accountAsked, accountOdd>>
A == INSTANCE Account WITH asked <- accountAsked, odd <- accountOdd
ASSUME AccountAssumption == A!AccountConstants
accountAbsent == /\ acct = None /\ issued = None /\ code = None /\ tries = None /\ reset = None
                 /\ temps = None /\ signed = None /\ token = None /\ user = None /\ held = None
                 /\ step = None /\ email = None /\ temp = None /\ accountAsked = None
                 /\ accountOdd = None /\ refused = None /\ slips = None /\ used = None
                 /\ excused = None

(* The signalling of calls. *)
VARIABLES active, incoming, callsPc, mesh, callsStream, peerRef, outgoing, party, joined,
          waiting, upgraded, pend, callsTasks, net, begun, callsOdd, apart, dropped
callsVars == <<active, incoming, callsPc, mesh, callsStream, peerRef, outgoing, party, joined,
              waiting, upgraded, pend, callsTasks, net, begun, callsOdd, apart, dropped>>
K == INSTANCE Calls WITH Users <- Parties, Calls <- Rings, Group <- GroupRings, pc <- callsPc,
      stream <- callsStream, tasks <- callsTasks, odd <- callsOdd
ASSUME CallsAssumption == K!CallsConstants
callsAbsent == /\ active = None /\ incoming = None /\ callsPc = None /\ mesh = None
               /\ callsStream = None /\ peerRef = None /\ outgoing = None /\ party = None
               /\ joined = None /\ waiting = None /\ upgraded = None /\ pend = None
               /\ callsTasks = None /\ net = None /\ begun = None /\ callsOdd = None
               /\ apart = None /\ dropped = None

(* What a device captures and sends in its calls. *)
VARIABLES desktop, call, video, mediaPc, kind, live, on, mediaStream, screen, pip, sharing,
          picker, audioOn, videoOn, mediaTasks, last, loose, mediaCrossed, early
mediaVars == <<desktop, call, video, mediaPc, kind, live, on, mediaStream, screen, pip, sharing,
              picker, audioOn, videoOn, mediaTasks, last, loose, mediaCrossed, early>>
M == INSTANCE CallMedia WITH Calls <- Talks, Video <- VideoTalks, Group <- GroupTalks,
      pc <- mediaPc, stream <- mediaStream, tasks <- mediaTasks, crossed <- mediaCrossed
ASSUME MediaAssumption == M!MediaConstants
mediaAbsent == /\ desktop = None /\ call = None /\ video = None /\ mediaPc = None /\ kind = None
               /\ live = None /\ on = None /\ mediaStream = None /\ screen = None /\ pip = None
               /\ sharing = None /\ picker = None /\ audioOn = None /\ videoOn = None
               /\ mediaTasks = None /\ last = None /\ loose = None /\ mediaCrossed = None
               /\ early = None

Parts == {"friends", "panel", "account", "calls", "media"}

PartsInit ==
  /\ only \in Parts
  /\ Init /\ (only # "friends" => pair = [k \in Calls |-> CHOOSE p \in Pairs : TRUE])
  /\ IF only = "panel" THEN P!Init ELSE panelAbsent
  /\ IF only = "account" THEN A!Init ELSE accountAbsent
  /\ IF only = "calls" THEN K!Init ELSE callsAbsent
  /\ IF only = "media" THEN M!Init ELSE mediaAbsent

Only(part) == only = part /\ UNCHANGED only
PartsNext ==
  \/ Only("friends") /\ Next /\ UNCHANGED <<panelVars, accountVars, callsVars, mediaVars>>
  \/ Only("panel") /\ P!Next /\ UNCHANGED <<vars, accountVars, callsVars, mediaVars>>
  \/ Only("account") /\ A!Next /\ UNCHANGED <<vars, panelVars, callsVars, mediaVars>>
  \/ Only("calls") /\ K!Next /\ UNCHANGED <<vars, panelVars, accountVars, mediaVars>>
  \/ Only("media") /\ M!Next /\ UNCHANGED <<vars, panelVars, accountVars, callsVars>>

PartsSpec == PartsInit /\ [][PartsNext]_<<only, vars, panelVars, accountVars, callsVars,
             mediaVars>>

(* ListsCurrent of FriendsPanel: an open section shows everybody under what they are to the
   user, but for what others did or a request lost meanwhile (SettingsPanel.tsx). *)
ListsCurrent == only = "panel" => P!ListsCurrent

(* UserOfToken, OwnProfile and ProfileHasToken of Account: the user shown, the profile saved
   and the last step of the form are those of the token, but for the answers that come late
   (App.tsx, AuthScreen.tsx, SettingsPanel.tsx). *)
UserOfToken == only = "account" => A!UserOfToken /\ A!OwnProfile /\ A!ProfileHasToken

(* TriesBounded, CodeOnce and PasswordLive of Account: the tries refused are bounded but for
   errors of Redis, a code signs in once, and a password that is asked for can still be checked
   (auth/service.go, VerifyCode and Verify2FA). *)
TriesBounded == only = "account" => A!TriesBounded /\ A!CodeOnce /\ A!PasswordLive

(* OneOfferer of Calls, with its types: two members of a group call never both wait for the
   other's answer (shouldInitiateMeshPeer, groupCallPeers.ts). *)
OneOfferer == only = "calls" => K!TypeOK /\ K!OneOfferer

(* CandidatesKept of Calls: a candidate waits for its description, is on its way or was added
   (pendingIceByPeerRef, CallModal.tsx). *)
CandidatesKept == only = "calls" => K!CandidatesKept

(* TogetherAtRest and MeshAtRest of Calls: with nothing under way, the ends of a call agree
   that there is one, and the members of a group call are connected (CallModal.tsx,
   onCallSignal). *)
TogetherAtRest == only = "calls" => K!TogetherAtRest /\ K!MeshAtRest

(* TracksHeld, BannerTrue and ButtonsTrue of CallMedia, with its types, and MicExplained of
   Calls: a track that is captured is held where cleanup looks for it, the banner and the
   buttons say what is sent, and the microphone is not live without a call but for the awaits
   the code does not check (acquireCallMediaStream, startScreenShare, toggleAudio, cleanup,
   CallModal.tsx). *)
TracksHeld == /\ only = "media" => M!TypeOK /\ M!TracksHeld /\ M!BannerTrue /\ M!ButtonsTrue
              /\ only = "calls" => K!MicExplained
==============================================================================
