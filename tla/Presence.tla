------------------------------ MODULE Presence -------------------------------
(* What the client shows of one peer: the dot in the list of chats (the       *)
(* store's onlineUserIds), "online" in the header of his chat, and that he is  *)
(* typing.  The events come in one stream, but the client has one table of    *)
(* callbacks, which App, the list of chats and the chat view write by turns.  *)
EXTENDS Integers, FiniteSets, Sequences

CONSTANTS
  None,       \* no chat, no header; nobody is typing
  MaxFlips,   \* how often the peer comes and goes
  MaxCuts,    \* how often the link is lost
  MaxTyped,   \* how many events of typing
  MaxMounts,  \* how often the list or the chat view is mounted
  MaxOpens    \* how often a chat is opened

PresenceConstants ==
  /\ None \notin BOOLEAN /\ None \notin {"theirs", "private", "group"}
  /\ {MaxFlips, MaxCuts, MaxTyped, MaxMounts, MaxOpens} \subseteq Nat

VARIABLES
  peer,       \* does the hub hold a session of the peer?
  link,       \* does it hold mine?
  wire,       \* the events on their way to me
  snaps,      \* the answers of getPeersPresence on their way
  listed,     \* is the peer in onlineUserIds?
  chat,       \* currentChatId: the peer's, a private chat with somebody else, a group
  loads,      \* the chats being loaded, and how far each has come; two alike are one
  head,       \* the chat of the header: the state of that name
  header,     \* peerUser.online
  whose,      \* the chat for which peerUser was loaded
  ref,        \* the chat whose member peerMemberRef names
  owner,      \* whose onOnline, onOffline and onTyping are in the table
  mounted,    \* the views that are mounted
  typing, timer,          \* the chat view's typingName and its timer
  listTyping, listTimers, \* the list's entry and its timers
  odd,        \* why something shown may be out of date
  used        \* how often each bounded thing has happened
vars == <<peer, link, wire, snaps, listed, chat, loads, head, header, whose, ref, owner, mounted,
          typing, timer, listTyping, listTimers, odd, used>>
marks == <<typing, timer, listTyping, listTimers>>
views == <<chat, loads, head, header, whose, ref, owner, mounted>>
(* The peer's chat, a private one with somebody else, a group. *)
ChatKinds == {"theirs", "private", "group"}

Bounds == [flips |-> MaxFlips, cuts |-> MaxCuts, typed |-> MaxTyped,
           mounts |-> MaxMounts, opens |-> MaxOpens]
Once(what) == used[what] < Bounds[what] /\ used' = [used EXCEPT ![what] = @ + 1]

Init ==
  /\ peer \in BOOLEAN /\ link = TRUE /\ wire = <<>>
  /\ snaps = {[got |-> <<>>, stale |-> FALSE]} /\ listed = FALSE
  /\ chat = None /\ loads = {} /\ head = None /\ header = None /\ whose = None /\ ref = None
  /\ owner = "chat" /\ mounted = {"list", "chat"}
  /\ typing = None /\ timer = FALSE /\ listTyping = FALSE /\ listTimers = 0
  /\ odd = {} /\ used = [w \in DOMAIN Bounds |-> 0]

Stale(set) == {IF s.got = <<>> THEN s ELSE [s EXCEPT !.stale = TRUE] : s \in set}

(* One more load; it is mixed with those under way.                          *)
Load(c) ==
  /\ loads' = loads \union {<<c, "asked">>}
  /\ odd' = IF loads = {} THEN odd \ {"mixed"} ELSE odd \union {"mixed"}

-----------------------------------------------------------------------------
(* The hub tells every other session twice of a first session or of the last *)
(* one gone: online or offline, and online_status.                           *)
Told(up) == <<[t |-> "line", up |-> up], [t |-> "status", up |-> up]>>
Flip ==
  /\ Once("flips") /\ peer' = ~peer
  /\ wire' = IF link THEN wire \o Told(peer') ELSE wire
  /\ snaps' = Stale(snaps)
  /\ odd' = IF link THEN odd ELSE odd \union {"list", "header"}
  /\ UNCHANGED <<link, listed, views, marks>>

(* The link is lost with what is on it; when it is made again, the presence  *)
(* of all peers is asked for, and the chat view loads its chat again.        *)
Cut ==
  /\ link /\ Once("cuts") /\ link' = FALSE /\ wire' = <<>>
  /\ odd' = IF wire # <<>> THEN odd \union {"list", "header"} ELSE odd
  /\ UNCHANGED <<peer, snaps, listed, views, marks>>
Linked ==
  /\ ~link /\ link' = TRUE
  /\ snaps' = snaps \union {[got |-> <<>>, stale |-> FALSE]}
  /\ IF "chat" \in mounted /\ chat # None THEN Load(chat) ELSE UNCHANGED <<loads, odd>>
  /\ UNCHANGED <<peer, wire, listed, chat, head, header, whose, ref, owner, mounted, marks, used>>

(* handleGetPeersPresence asks the hub; mergeOnlineUserIds only adds. *)
Serve ==
  /\ \E s \in snaps : s.got = <<>>
       /\ snaps' = (snaps \ {s}) \union {[s EXCEPT !.got = <<peer>>]}
  /\ UNCHANGED <<peer, link, wire, listed, views, marks, odd, used>>
mergeOnlineUserIds(up) == listed' = (listed \/ up)
Snapshot ==
  /\ \E s \in snaps :
       /\ snaps' = snaps \ {s}
       /\ \/ s.got # <<>> /\ mergeOnlineUserIds(s.got[1])
             /\ odd' = IF s.stale THEN odd \union {"list"} ELSE odd
          \/ odd' = odd \union {"list"} /\ UNCHANGED listed
  /\ UNCHANGED <<peer, link, wire, views, marks, used>>

-----------------------------------------------------------------------------
(* The events.  online_status is App's; the other two go to whoever wrote     *)
(* the table last.  The chat view looks at peerUser, which is there only when *)
(* a private chat has been loaded, and at peerMemberRef, which is set before  *)
(* peerUser is.                                                               *)
IgnoresOffline(up) == listed' = (listed \/ up)                   \* mutant
onOnlineStatus(up) == listed' = up
Status ==
  /\ wire # <<>> /\ Head(wire).t = "status" /\ wire' = Tail(wire)
  /\ onOnlineStatus(Head(wire).up) /\ odd' = odd \ {"list"}
  /\ UNCHANGED <<peer, link, snaps, views, marks, used>>

onLine(c, up) ==
  IF header # None /\ ref = c
  THEN header' = up /\ odd' = odd \ {"header"}
  ELSE odd' = odd \union {"header"} /\ UNCHANGED header
Line ==
  /\ wire # <<>> /\ Head(wire).t = "line" /\ wire' = Tail(wire)
  /\ CASE owner = "chat" -> onLine("theirs", Head(wire).up) /\ UNCHANGED listed
       [] owner = "list" -> /\ listed' = Head(wire).up
                            /\ odd' = odd \union {"header"} /\ UNCHANGED header
       [] owner = "none" -> odd' = odd \union {"header"} /\ UNCHANGED <<listed, header>>
  /\ UNCHANGED <<peer, link, snaps, chat, loads, head, whose, ref, owner, mounted, marks, used>>

(* The same of the member of the other private chat, whose coming and going   *)
(* is not followed; it may set a peerUser that was loaded for the peer.       *)
OtherLine ==
  /\ link /\ owner = "chat" /\ header # None /\ ref = "private"
  /\ header' \in BOOLEAN
  /\ odd' = IF whose = ref THEN odd ELSE odd \union {"header"}
  /\ UNCHANGED <<peer, link, wire, snaps, listed, chat, loads, head, whose, ref, owner, mounted,
                 marks, used>>

(* Somebody types in a chat; each event in the list has a timer of its own,  *)
(* the chat view's timer is set again.                                       *)
Typed ==
  /\ link /\ Once("typed")
  /\ \/ /\ owner = "chat"
        /\ \E c \in ChatKinds :
             IF c = chat THEN typing' = c /\ timer' = TRUE
             ELSE UNCHANGED <<typing, timer>>
        /\ UNCHANGED <<listTyping, listTimers>>
     \/ /\ owner = "list" /\ listTyping' = TRUE /\ listTimers' = listTimers + 1
        /\ UNCHANGED <<typing, timer>>
  /\ UNCHANGED <<peer, link, wire, snaps, listed, views, odd>>
ChatTimer ==
  /\ timer /\ timer' = FALSE /\ typing' = None
  /\ UNCHANGED <<peer, link, wire, snaps, listed, views, listTyping, listTimers, odd, used>>
ListTimer ==
  /\ listTimers > 0 /\ listTimers' = listTimers - 1 /\ listTyping' = FALSE
  /\ UNCHANGED <<peer, link, wire, snaps, listed, views, typing, timer, odd, used>>

-----------------------------------------------------------------------------
(* Another chat is opened, or none: the callbacks of the chat view, which     *)
(* depend on it, are written anew, and the header stays the old one's until   *)
(* the steps of the load replace it, one by one.                              *)
Open ==
  /\ "chat" \in mounted /\ Once("opens")
  /\ chat' \in (ChatKinds \union {None}) \ {chat} /\ owner' = "chat"
  /\ IF chat' = None
     THEN head' = None /\ typing' = None /\ UNCHANGED <<loads, odd, timer>>
     ELSE Load(chat') /\ UNCHANGED <<head, typing, timer>>
  /\ UNCHANGED <<peer, link, wire, snaps, listed, header, whose, ref, mounted, listTyping, listTimers>>

(* getChats is answered: setChat.                                             *)
Found ==
  /\ \E c \in ChatKinds :
       /\ <<c, "asked">> \in loads
       /\ loads' = (loads \ {<<c, "asked">>}) \union {<<c, "found">>}
       /\ head' = c
  /\ UNCHANGED <<peer, link, wire, snaps, listed, chat, header, whose, ref, owner, mounted, marks,
                 odd, used>>

(* The members and their names are there: handleTyping depends on them, so    *)
(* that the table is written again.  A private chat asks for its peer next.   *)
Named ==
  /\ \E c \in ChatKinds :
       /\ <<c, "found">> \in loads
       /\ ref' = c /\ owner' = "chat"
       /\ IF c = "group"
          THEN /\ loads' = (loads \ {<<c, "found">>}) \union {<<c, "peered">>}
               /\ header' = None /\ whose' = c
          ELSE /\ loads' = (loads \ {<<c, "found">>}) \union {<<c, "named">>}
               /\ UNCHANGED <<header, whose>>
  /\ UNCHANGED <<peer, link, wire, snaps, listed, chat, head, mounted, marks, odd, used>>

(* setPeerUser.  The server's users.online, which this reads, is never        *)
(* written, so that a loaded peer is off-line; null if it failed.             *)
Peered ==
  /\ \E c \in ChatKinds :
       /\ <<c, "named">> \in loads
       /\ loads' = (loads \ {<<c, "named">>}) \union {<<c, "peered">>}
       /\ header' \in {FALSE, None} /\ whose' = c
  /\ owner' = "chat" /\ odd' = odd \ {"header"}
  /\ UNCHANGED <<peer, link, wire, snaps, listed, chat, head, ref, mounted, marks, used>>

(* The messages are there, or any of the requests failed: setChat(null), and  *)
(* the names are set anew.                                                    *)
Loaded ==
  /\ \E l \in loads :
       /\ loads' = loads \ {l}
       /\ \/ l[2] = "peered" /\ UNCHANGED <<head, owner>>
          \/ head' = None /\ owner' = "chat"
  /\ UNCHANGED <<peer, link, wire, snaps, listed, chat, header, whose, ref, mounted, marks, odd, used>>

(* A view that is mounted writes the table; one that is unmounted empties its *)
(* entries, whoever wrote them.                                              *)
Fresh == head' = None /\ header' = None /\ whose' = None /\ ref' = None
Mount ==
  /\ Once("mounts")
  /\ \E v \in {"list", "chat"} \ mounted :
       /\ mounted' = mounted \union {v} /\ owner' = v
       /\ IF v = "chat" /\ chat # None THEN Load(chat) ELSE UNCHANGED <<loads, odd>>
  /\ UNCHANGED <<peer, link, wire, snaps, listed, chat, head, header, whose, ref, marks>>
Unmount ==
  /\ \E v \in mounted :
       /\ mounted' = mounted \ {v} /\ owner' = "none"
       /\ IF v = "chat"
          THEN /\ Fresh /\ loads' = {} /\ typing' = None /\ timer' = FALSE
               /\ UNCHANGED <<listTyping, listTimers>>
          ELSE /\ listTyping' = FALSE /\ listTimers' = 0
               /\ UNCHANGED <<loads, head, header, whose, ref, typing, timer>>
  /\ UNCHANGED <<peer, link, wire, snaps, listed, chat, odd, used>>

Next ==
  \/ Flip \/ Cut \/ Linked \/ Serve \/ Snapshot \/ Status \/ Line \/ OtherLine \/ Typed
  \/ ChatTimer \/ ListTimer \/ Open \/ Found \/ Named \/ Peered \/ Loaded
  \/ Mount \/ Unmount

Spec == Init /\ [][Next]_vars

-----------------------------------------------------------------------------
TypeOK ==
  /\ {peer, link, listed, timer, listTyping} \subseteq BOOLEAN
  /\ header \in BOOLEAN \union {None} /\ {chat, head, whose, ref, typing} \subseteq ChatKinds \union {None}
  /\ loads \subseteq ChatKinds \X {"asked", "found", "named", "peered"}
  /\ owner \in {"chat", "list", "none"} /\ mounted \subseteq {"chat", "list"}
  /\ owner # "none" => owner \in mounted
  /\ listTimers \in 0..MaxTyped /\ odd \subseteq {"list", "header", "mixed"}

(* When the link is up and nothing is on its way, the peer's dot is what the  *)
(* hub knows, unless an event was lost, or a list of peers failed or was      *)
(* older than an event told before it; and the header of his chat says that   *)
(* he is online only if he is, unless that event was lost, or nobody or the   *)
(* list of chats held the callbacks then, or peerMemberRef named another      *)
(* (store/index.ts:244-267, ChatView.tsx:252-282, DialogList.tsx:199-215,     *)
(* App.tsx:136-155).  And what the header says is of its own chat once that   *)
(* is loaded, unless another load was under way with it: nothing compares the *)
(* chat of an answer with the one that is open (ChatView.tsx:53-129).         *)
PresenceShown ==
  /\ link /\ wire = <<>> /\ snaps = {} =>
       /\ "list" \notin odd => listed = peer
       /\ "header" \notin odd /\ head = "theirs" /\ whose = "theirs" /\ header = TRUE => peer
  /\ loads = {} /\ "mixed" \notin odd /\ head # None /\ header # None => whose = head
=============================================================================
