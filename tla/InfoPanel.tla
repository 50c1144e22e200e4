------------------------------ MODULE InfoPanel ------------------------------
(***************************************************************************)
(* The panel beside a chat (ChatInfoPanel.tsx): what it loads about the    *)
(* chat, the tabs, and what it lets the user change.  It stays when        *)
(* another chat is opened: only the loading of the chat and its members    *)
(* is cancelled then.  The server takes a request before it is answered,   *)
(* and answers come in any order: nothing keeps the bell from being        *)
(* pressed again.                                                          *)
(***************************************************************************)
EXTENDS Naturals, FiniteSets

CONSTANTS Chats, None,
          Tabs,              \* those with a list: media, favorites, links, voice
          Type, Role,        \* of each chat: 0 private, 1 group, 2 channel; the user's role in it
          Invite,            \* chats that have a link already
          MaxMounts, MaxTasks, MaxElse \* bounds for TLC: panels, requests under way, changes elsewhere
InfoPanelConstants ==
  /\ Type \in [Chats -> 0..2] /\ Role \in [Chats -> 0..2] /\ Invite \subseteq Chats
  /\ None \notin Chats /\ {"chat", "members", "invite"} \cap Tabs = {} /\ {MaxMounts, MaxTasks, MaxElse} \subseteq Nat

Pieces == {"chat", "members", "invite"} \cup Tabs
VARIABLES
  at,      \* chatId of the panel; None while it is closed
  mount,   \* counter: panels opened
  shown,   \* the chat each piece is of; None before there is one
  tab,
  muted,   \* isMuted
  tasks,   \* requests under way
  silent,  \* the server: chats whose notifications are off
  elses,   \* counter of changes elsewhere
  late,    \* history: pieces that stayed from the chat before, or that an answer for it replaced
  unsure   \* history: isMuted is of an answer for another chat or one that a change overtook, or a
           \* change was made elsewhere or its answer lost
vars == <<at, mount, shown, tab, muted, tasks, silent, elses, late, unsure>>

Init == /\ at = None /\ mount = 0 /\ shown = [p \in Pieces |-> None] /\ tab = "members" /\ muted = FALSE
        /\ tasks = {} /\ silent = {} /\ elses = 0 /\ late = {} /\ unsure = FALSE

(* Of two equal requests each has a number of its own.                                         *)
Numbered(t) == CHOOSE i \in 1..Cardinality(tasks) + 1 :
                 \A s \in tasks : s.id = i => <<s.op, s.chat, s.mount, s.arg>> # t
Task(op, c, arg, m) == [op |-> op, chat |-> c, mount |-> m, arg |-> arg,
                        id |-> Numbered(<<op, c, m, arg>>), served |-> FALSE, past |-> FALSE]
(* The effects of a chat: the list of chats, then the members; and the tab, if it has a list.  *)
Loads(c, t, m) == {Task("chat", c, "", m)} \cup (IF t = "members" THEN {} ELSE {Task("tab", c, t, m)})
(* What a cancelled request is answered changes nothing: it is left out.                       *)
Cancelled(S) == {t \in S : t.op \notin {"chat", "members"}}
Show(c) == /\ at = None /\ mount < MaxMounts /\ at' = c /\ mount' = mount + 1
           /\ tab' \in Tabs /\ shown' = [p \in Pieces |-> None] /\ muted' = FALSE
           /\ tasks' = tasks \cup Loads(c, tab', mount') /\ late' = {} /\ unsure' = FALSE
           /\ UNCHANGED <<silent, elses>>
OpenChat(c) == /\ at \notin {None, c} /\ Cardinality(tasks) < MaxTasks /\ at' = c
               /\ tasks' = Cancelled(tasks) \cup Loads(c, tab, mount)
               /\ late' = {p \in Pieces : shown[p] \notin {None, c}} /\ UNCHANGED <<mount, shown, tab, muted, silent, elses, unsure>>
(* What was asked for to be changed is changed all the same.                                   *)
Close == /\ at # None /\ at' = None /\ tasks' = {t \in tasks : t.op \in {"mute", "act"}}
         /\ UNCHANGED <<mount, shown, tab, muted, silent, elses, late, unsure>>
ChooseTab(t) == /\ at # None /\ shown["chat"] # None /\ t # tab /\ tab' = t /\ Cardinality(tasks) < MaxTasks
                /\ tasks' = tasks \cup (IF t = "members" THEN {} ELSE {Task("tab", at, t, mount)})
                /\ UNCHANGED <<at, mount, shown, muted, silent, elses, late, unsure>>
-----------------------------------------------------------------------------
(* A list takes what was loaded, or is empty.                                                 *)
Takes(p, c) == /\ shown' = [shown EXCEPT ![p] = c]
               /\ late' = IF c \in {at, None} THEN late \ {p} ELSE late \cup {p}
(* A list without the chat, or no list, leaves the chat before, and a chat without a link      *)
(* leaves the link before.                                                                     *)
ChatLoaded(t, found) ==
  /\ t.op = "chat" /\ (found => t.served)
  /\ tasks' = (tasks \ {t}) \cup {Task("members", t.chat, "", mount)}
  /\ IF found
     THEN LET ps == {"chat"} \cup (IF t.chat \in Invite THEN {"invite"} ELSE {})
          IN /\ shown' = [p \in Pieces |-> IF p \in ps THEN t.chat ELSE shown[p]]
             /\ late' = late \ ps /\ muted' = (t.arg = "silence") /\ unsure' = t.past
     ELSE UNCHANGED <<shown, late, muted, unsure>>
  /\ UNCHANGED <<at, mount, tab, silent, elses>>
(* A failing answer means the two of a private chat, or nobody.                                *)
MembersLoaded(t) ==
  /\ t.op = "members" /\ tasks' = tasks \ {t}
  /\ shown' = [shown EXCEPT !["members"] = t.chat] /\ late' = late \ {"members"}
  /\ UNCHANGED <<at, mount, tab, muted, silent, elses, unsure>>
TabLoaded(t, ok) == /\ t.op = "tab" /\ tasks' = tasks \ {t} /\ Takes(t.arg, IF ok THEN t.chat ELSE None)
                    /\ UNCHANGED <<at, mount, tab, muted, silent, elses, unsure>>
-----------------------------------------------------------------------------
(* The buttons go by the chat and the members that are shown, and act on the chat that is open. *)
Ready == at # None /\ shown["chat"] # None
IsRoom == Type[shown["chat"]] # 0
CanRename == IsRoom /\ shown["members"] # None /\ Role[shown["members"]] > 0
Offers(kind) == CASE kind \in {"title", "slow", "invite", "discussion"} -> CanRename /\ (kind = "discussion" => Type[shown["chat"]] = 2)
                  [] kind = "add" -> IsRoom
                  [] kind = "role" -> tab = "members" /\ shown["members"] # None /\ Role[shown["members"]] = 2
Acts == {"title", "slow", "invite", "discussion", "add", "role"}
(* Where the answer goes: the title, the slow mode and the discussion into the chat.           *)
Into(kind) == CASE kind = "invite" -> "invite" [] kind \in {"add", "role"} -> "members" [] OTHER -> "chat"
Act(kind) == /\ Ready /\ Offers(kind) /\ Cardinality(tasks) < MaxTasks /\ tasks' = tasks \cup {Task("act", at, Into(kind), mount)}
             /\ UNCHANGED <<at, mount, shown, tab, muted, silent, elses, late, unsure>>
Mute == /\ Ready /\ Cardinality(tasks) < MaxTasks /\ tasks' = tasks \cup {Task("mute", at, IF muted THEN "sound" ELSE "silence", mount)}
        /\ UNCHANGED <<at, mount, shown, tab, muted, silent, elses, late, unsure>>
(* The answer to a change is written into whatever is shown by then.                           *)
ActDone(t, ok) ==
  /\ t.op = "act" /\ tasks' = tasks \ {t}
  /\ IF ~ok \/ t.mount # mount \/ at = None THEN UNCHANGED <<shown, late>>
     ELSE IF t.arg = "invite" THEN Takes("invite", t.chat)
     ELSE UNCHANGED shown /\ late' = late \cup (IF t.chat = at THEN {} ELSE {t.arg})
  /\ UNCHANGED <<at, mount, tab, muted, silent, elses, unsure>>
(* What was not asked here is not shown before the chat is loaded again.                       *)
MuteDone(t, ok) ==
  /\ t.op = "mute" /\ (ok => t.served) /\ tasks' = tasks \ {t}
  /\ IF t.mount # mount \/ at = None THEN UNCHANGED <<muted, unsure>>
     ELSE IF ok THEN muted' = (t.arg = "silence") /\ unsure' = (t.past \/ t.chat # shown["chat"])
     ELSE UNCHANGED muted /\ unsure' = (unsure \/ (t.served /\ t.chat = shown["chat"]))
  /\ UNCHANGED <<at, mount, shown, tab, silent, elses, late>>
-----------------------------------------------------------------------------
(* The server: GetUserChatsEnriched says whether the chat is silent, MuteChat makes it so.      *)
Set(c, mute) == silent' = IF mute THEN silent \cup {c} ELSE silent \ {c}
Overtaken(c, S) == {IF t.chat = c /\ t.served THEN [t EXCEPT !.past = TRUE] ELSE t : t \in S}
ChatRead(t) ==
  /\ t.op = "chat" /\ ~t.served
  /\ tasks' = (tasks \ {t}) \cup
               {[t EXCEPT !.served = TRUE, !.arg = IF t.chat \in silent THEN "silence" ELSE "sound"]}
  /\ UNCHANGED <<at, mount, shown, tab, muted, silent, elses, late, unsure>>
MuteChat(t) ==
  /\ t.op = "mute" /\ ~t.served /\ Set(t.chat, t.arg = "silence")
  /\ tasks' = Overtaken(t.chat, tasks \ {t}) \cup {[t EXCEPT !.served = TRUE]}
  /\ unsure' = (unsure \/ (t.mount # mount /\ t.chat = shown["chat"]))
  /\ UNCHANGED <<at, mount, shown, tab, muted, elses, late>>
(* The menu of the list of chats, or another window, does the same.                            *)
MuteElsewhere(c) == /\ elses < MaxElse /\ elses' = elses + 1 /\ Set(c, c \notin silent)
                    /\ tasks' = Overtaken(c, tasks) /\ unsure' = (unsure \/ c = shown["chat"])
                    /\ UNCHANGED <<at, mount, shown, tab, muted, late>>

Next == \/ Close \/ Mute
        \/ \E c \in Chats : Show(c) \/ OpenChat(c) \/ MuteElsewhere(c)
        \/ \E t \in Tabs \cup {"members"} : ChooseTab(t)
        \/ \E k \in Acts : Act(k)
        \/ \E t \in tasks : MembersLoaded(t) \/ ChatRead(t) \/ MuteChat(t)
        \/ \E t \in tasks, ok \in BOOLEAN : ChatLoaded(t, ok) \/ TabLoaded(t, ok) \/ ActDone(t, ok) \/ MuteDone(t, ok)
Spec == Init /\ [][Next]_vars
-----------------------------------------------------------------------------
(* What the panel shows is of the chat that is open, and its bell as the server has it, but    *)
(* for what stayed from the chat before until it is loaded, an answer about that chat which    *)
(* came late to a tab or to a change, a press of the bell whose answer is under way, and       *)
(* changes that an answer did not know of. (The effect on chatId, loadTabData and the          *)
(* handlers, ChatInfoPanel.tsx.)                                                               *)
Told == \A t \in tasks : t.op = "mute" /\ t.mount = mount /\ t.chat = shown["chat"] => ~t.served
PanelHere == at # None =>
  /\ \A p \in Pieces \ late : shown[p] \in {at, None}
  /\ shown["chat"] # None /\ "chat" \notin late /\ ~unsure /\ Told => (muted <=> at \in silent)
=============================================================================
