--------------------------------- MODULE Link ---------------------------------
(* The socket of the client, and what is shown of what comes over it: the messages of the     *)
(* chats (Timeline) and the presence of a peer (Presence).                                    *)
EXTENDS WSClient, Sequences, TLC

CONSTANTS None,
          Chats, Page, OlderPage, MaxLog, MaxTasks, MaxAsked, MaxMarks, \* of Timeline
          MaxFlips, MaxTyped, MaxMounts, MaxOpens,                      \* of Presence
          MaxCuts                                                       \* of both

VARIABLE only \* the part this behaviour is of: the parts share no state, so that
              \* the steps of one among those of another would show nothing

(* The messages of the open chat. *)
VARIABLES log, timelineUp, inbox, spent, timelineChat, list, marked, tasks,
          timelineTimer, loading, done, seen, guessed, lost, stale, endHere
timelineVars == <<log, timelineUp, inbox, spent, timelineChat, list, marked, tasks, timelineTimer,
                 loading, done, seen, guessed, lost, stale, endHere>>
T == INSTANCE Timeline WITH up <- timelineUp, chat <- timelineChat, timer <- timelineTimer
ASSUME TimelineAssumption == T!TimelineConstants
timelineAbsent == /\ log = None /\ timelineUp = None /\ inbox = None /\ spent = None
                  /\ timelineChat = None /\ list = None /\ marked = None /\ tasks = None
                  /\ timelineTimer = None /\ loading = None /\ done = None /\ seen = None /\ guessed = None
                  /\ lost = None /\ stale = None /\ endHere = None

(* Who is online and who types. *)
VARIABLES presencePeer, link, presenceWire, snaps, listed, presenceChat, loads, head, header,
          whose, ref, owner, mounted, typing, presenceTimer, listTyping, listTimers, odd, used
presenceVars == <<presencePeer, link, presenceWire, snaps, listed, presenceChat, loads, head,
                 header, whose, ref, owner, mounted, typing, presenceTimer, listTyping, listTimers, odd, used>>
O == INSTANCE Presence WITH peer <- presencePeer, wire <- presenceWire, chat <- presenceChat,
      timer <- presenceTimer
ASSUME PresenceAssumption == O!PresenceConstants
presenceAbsent == /\ presencePeer = None /\ link = None /\ presenceWire = None /\ snaps = None
                  /\ listed = None /\ presenceChat = None /\ loads = None /\ header = None
                  /\ head = None /\ whose = None /\ ref = None
                  /\ owner = None /\ mounted = None /\ typing = None /\ presenceTimer = None
                  /\ listTyping = None /\ listTimers = None /\ odd = None /\ used = None

Parts == {"link", "timeline", "presence"}

PartsInit ==
  /\ only \in Parts
  /\ Init /\ (only # "link" => token = NoToken /\ up)
  /\ IF only = "timeline" THEN T!Init ELSE timelineAbsent
  /\ IF only = "presence" THEN O!Init ELSE presenceAbsent

Only(part) == only = part /\ UNCHANGED only
PartsNext ==
  \/ Only("link") /\ Next /\ UNCHANGED <<timelineVars, presenceVars>>
  \/ Only("timeline") /\ T!Next /\ UNCHANGED <<vars, presenceVars>>
  \/ Only("presence") /\ O!Next /\ UNCHANGED <<vars, timelineVars>>

PartsSpec == PartsInit /\ [][PartsNext]_<<only, vars, timelineVars, presenceVars>>

(* ShownOnce and OwnMessages of Timeline: no message is shown twice, and none of another chat
   but for an answer that was asked for there (handleNewMessage, handleSendMessage,
   handleLoadOlder, loadChat, ChatView.tsx). *)
ShownOnce == only = "timeline" => T!TypeOK /\ T!ShownOnce /\ T!OwnMessages

(* NothingMissing and EndTrue of Timeline: every message since the oldest one shown is shown,
   and when no older page will be asked for there is none, but for the answers the code does
   not compare (ChatView.tsx, MessageList.tsx). *)
NothingMissing == only = "timeline" => T!NothingMissing /\ T!EndTrue

(* ReadExplained of Timeline: a message shown as read was read, or a mark of the peer named one
   the list did not hold (handleReadReceipt, ChatView.tsx). *)
ReadExplained == only = "timeline" => T!ReadExplained

(* PresenceShown of Presence, with its types: the dot and the header of a peer are what the hub
   knows, but for lost events and older lists (store/index.ts, DialogList.tsx, ChatView.tsx). *)
PresenceShown == only = "presence" => O!TypeOK /\ O!PresenceShown
-----------------------------------------------------------------------------
(* For TLC: the chats are alike, and a behaviour has one of a loss of the socket, a mark of    *)
(* the peer and a deletion, or none but a third request; of those about presence two chats are *)
(* opened, after the list of peers is answered, while the peer comes and goes, or three such   *)
(* things happen one of which is a cut or a view mounted anew; and two loads are under way at  *)
(* a time.                                                                                     *)
Symmetry == Permutations(Chats)
Gone == {id \in DOMAIN log : log[id].gone}
Bound ==
  /\ only = "timeline" =>
       /\ Len(inbox) <= 1 /\ spent.cuts + spent.marks + Cardinality(Gone) <= 1
       /\ spent.asked = 3 => spent.cuts + spent.marks + Cardinality(Gone) = 0
  /\ only = "presence" =>
       /\ Cardinality(loads) <= 2
       /\ used["opens"] = 2 => "list" \notin odd /\ snaps = {} /\ "list" \in mounted
       /\ used["flips"] + used["cuts"] + used["typed"] + used["mounts"] + used["opens"]
            <= (IF used["cuts"] + used["mounts"] = 0 THEN 4 ELSE 3) - 2 * used["typed"]
=============================================================================
