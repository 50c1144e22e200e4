------------------------------ MODULE Selection ------------------------------
(***************************************************************************)
(* Messages chosen in a chat and what is done with them together           *)
(* (ChatView.tsx, lib/messageSelection.ts): deleting and keeping one after *)
(* the other, forwarding by a dialog that outlives the selection, pinning, *)
(* answering.  The list on the screen is put there by answers that come    *)
(* when they come: for a while, or for long, it is of another chat than    *)
(* the open one.  Messages are numbered in the order of time.  Of one      *)
(* view, that is not taken down.                                           *)
(***************************************************************************)
EXTENDS Naturals, Sequences, FiniteSets, SequencesExt

CONSTANTS Chats, None, Messages,
          ChatOf, Mine, System, \* of each message; who wrote it: the user, or the server
          MAX_MESSAGE_SELECTION,
          MaxTasks, MaxAsks \* bounds for TLC: rounds under way, and questions of a kind and chat
SelectionConstants ==
  /\ Messages \subseteq Nat /\ ChatOf \in [Messages -> Chats] /\ Mine \cup System \subseteq Messages
  /\ None \notin Chats /\ None \notin Messages
  /\ MAX_MESSAGE_SELECTION \in Nat \ {0} /\ {MaxTasks, MaxAsks} \subseteq Nat

VARIABLES
  chat,     \* currentChatId
  messages, \* the messages shown
  selected, \* selectedIds, in the order they were chosen; selectionMode is that there are some
  anchor,   \* selectionShiftAnchorRef
  replying, \* replyingTo
  dialog,   \* forwardMessageIds
  hide,     \* forwardHideAuthor
  rounds,   \* handleBatchDelete, handleBatchFavorites and handleForwardToChat under way
  gone,     \* the server: messages deleted
  asks,     \* questions under way, of each kind and chat: loads of the chat, and what adds to its list
  shown,    \* history: the chat whose messages the list is made of, None when of several
  stray     \* history: messages chosen while the list was not of the open chat
vars == <<chat, messages, selected, anchor, replying, dialog, hide, rounds, gone, asks, shown, stray>>
chosen == <<selected, anchor, stray>>
list == <<messages, shown, asks>>

Of(c) == {m \in Messages \ gone : ChatOf[m] = c}
Init == /\ chat = None /\ messages = {} /\ selected = <<>> /\ anchor = None /\ replying = None
        /\ dialog = <<>> /\ hide = FALSE /\ rounds = {} /\ gone = {}
        /\ asks = [k \in {"load", "more"} \X Chats |-> 0] /\ shown = None /\ stray = {}

(* The members of a set in the order of time, and those of a sequence that are in a set.       *)
InOrder(set) == [i \in 1..Cardinality(set) |->
                   CHOOSE m \in set : Cardinality({k \in set : k < m}) = i - 1]
Those(s, set) == LET at == InOrder({i \in DOMAIN s : s[i] \in set})
                 IN [i \in DOMAIN at |-> s[at[i]]]

isMessageSelectable(m) == chat # None /\ m \in messages \ System
exitSelection == selected' = <<>> /\ anchor' = None
Exited == exitSelection /\ UNCHANGED stray
(* Mutant: the selection stays when another chat is opened. *)
OtherChatKeeps == UNCHANGED chosen
OtherChat == Exited
-----------------------------------------------------------------------------
Ask(kind, c) == asks[<<kind, c>>] < MaxAsks /\ asks' = [asks EXCEPT ![<<kind, c>>] = @ + 1]
Answer(kind, c) == asks[<<kind, c>>] > 0 /\ asks' = [asks EXCEPT ![<<kind, c>>] = @ - 1]
(* The list of the chat before stays until an answer replaces it.                              *)
Open(c) == /\ c # chat /\ chat' = c /\ OtherChat /\ Ask("load", c)
           /\ UNCHANGED <<messages, shown, replying, dialog, hide, rounds, gone>>
(* No chat is open: the list is emptied, and what is asked goes on.                            *)
Close == /\ chat # None /\ chat' = None /\ OtherChat /\ messages' = {} /\ shown' = None
         /\ UNCHANGED <<asks, replying, dialog, hide, rounds, gone>>
(* After a reconnection the chat is loaded again.                                              *)
Reload == /\ chat # None /\ Ask("load", chat)
          /\ UNCHANGED <<chat, messages, shown, chosen, replying, dialog, hide, rounds, gone>>
(* loadChat answered, for whichever chat it was: with an error in between there are none.      *)
Loaded(c, ok) == /\ Answer("load", c) /\ messages' = (IF ok THEN Of(c) ELSE {}) /\ shown' = c
                 /\ UNCHANGED <<chat, chosen, replying, dialog, hide, rounds, gone>>
Joined(c, set) == /\ messages' = messages \cup set
                  /\ shown' = IF messages = {} \/ shown = c THEN c ELSE None
(* A message of the open chat is told. (handleNewMessage)                                      *)
Arrive(m) == /\ chat # None /\ m \in Of(chat) \ messages /\ Joined(chat, {m})
             /\ UNCHANGED <<asks, chat, chosen, replying, dialog, hide, rounds, gone>>
(* Older messages are asked for, or one is sent, and what is answered is added to the list     *)
(* there is by then.                                                                           *)
AskMore == /\ chat # None /\ Ask("more", chat)
           /\ UNCHANGED <<chat, messages, shown, chosen, replying, dialog, hide, rounds, gone>>
More(c, set) == /\ Answer("more", c) /\ IF set = {} THEN UNCHANGED <<messages, shown>> ELSE Joined(c, set)
                /\ UNCHANGED <<chat, chosen, replying, dialog, hide, rounds, gone>>
(* A message is deleted one by one, or is not in the page loaded again; the selection keeps it. *)
Vanish(m) == /\ m \in messages /\ messages' = messages \ {m} /\ gone' \in {gone, gone \cup {m}}
             /\ UNCHANGED <<chat, asks, shown, chosen, replying, dialog, hide, rounds>>
-----------------------------------------------------------------------------
Picked(set) == stray' = stray \cup (IF shown = chat THEN {} ELSE set)
enterSelection(m) == /\ selected = <<>> /\ isMessageSelectable(m) /\ selected' = <<m>> /\ anchor' = m
                     /\ Picked({m})
                     /\ UNCHANGED <<chat, list, replying, dialog, hide, rounds, gone>>
Toggled(m) == IF m \in ToSet(selected) THEN Those(selected, Messages \ {m})
              ELSE IF Len(selected) >= MAX_MESSAGE_SELECTION THEN selected ELSE Append(selected, m)
messageIdsBetween(a, b) ==
  IF {a, b} \subseteq messages THEN {m \in messages : (a <= m /\ m <= b) \/ (b <= m /\ m <= a)} ELSE {}
(* The range is put after what is selected, and cut at the limit.                              *)
Ranged(m) ==
  LET more == InOrder(messageIdsBetween(anchor, m) \ (System \cup ToSet(selected)))
      all == selected \o more
  IN SubSeq(all, 1, IF Len(all) > MAX_MESSAGE_SELECTION THEN MAX_MESSAGE_SELECTION ELSE Len(all))
handleSelectionClick(m, shift) ==
  /\ selected # <<>> /\ isMessageSelectable(m)
  /\ IF shift /\ anchor # None THEN selected' = Ranged(m) /\ UNCHANGED anchor
     ELSE selected' = Toggled(m) /\ anchor' = IF selected' = <<>> THEN None ELSE m
  /\ Picked(ToSet(selected') \ ToSet(selected))
  /\ UNCHANGED <<chat, list, replying, dialog, hide, rounds, gone>>
(* The cross and Escape.                                                                       *)
Exit == selected # <<>> /\ Exited /\ UNCHANGED <<chat, list, replying, dialog, hide, rounds, gone>>
-----------------------------------------------------------------------------
Round(op, ids, to) == /\ Cardinality(rounds) < MaxTasks
                      /\ rounds' = rounds \cup {[op |-> op, ids |-> ids, left |-> ids, to |-> to]}
handleBatchDelete ==
  LET own == Those(selected, messages \cap Mine)
  IN own # <<>> /\ Round("delete", own, None) /\ UNCHANGED <<chat, list, chosen, replying, dialog, hide, gone>>
handleBatchFavorites == /\ selected # <<>> /\ Round("keep", selected, None)
                        /\ UNCHANGED <<chat, list, chosen, replying, dialog, hide, gone>>
handleBatchForward == /\ selected # <<>> /\ dialog' = selected /\ hide' = FALSE /\ Exited
                      /\ UNCHANGED <<chat, list, replying, rounds, gone>>
handleForward(m) == /\ chat # None /\ m \in messages /\ dialog' = <<m>> /\ hide' = FALSE
                    /\ UNCHANGED <<chat, list, chosen, replying, rounds, gone>>
(* The buttons that want exactly one message. Pinning is the server's.                         *)
PinOne == /\ Len(selected) = 1 /\ Exited /\ UNCHANGED <<chat, list, replying, dialog, hide, rounds, gone>>
ReplyOne == /\ Len(selected) = 1 /\ replying' = (IF selected[1] \in messages THEN selected[1] ELSE None)
            /\ Exited /\ UNCHANGED <<chat, list, dialog, hide, rounds, gone>>
ClearReply == chat # None /\ replying # None /\ replying' = None /\ UNCHANGED <<chat, list, chosen, dialog, hide, rounds, gone>>
HideAuthor(h) == /\ chat # None /\ dialog # <<>> /\ hide # h /\ hide' = h
                 /\ UNCHANGED <<chat, list, chosen, replying, dialog, rounds, gone>>
CloseDialog == /\ chat # None /\ dialog # <<>> /\ dialog' = <<>> /\ hide' = FALSE
               /\ UNCHANGED <<chat, list, chosen, replying, rounds, gone>>
(* The dialog lists the other chats. A second click before the answer is a second round.       *)
handleForwardToChat(c) == /\ chat # None /\ dialog # <<>> /\ c # chat /\ Round("forward", dialog, c)
                          /\ UNCHANGED <<chat, list, chosen, replying, dialog, hide, gone>>
-----------------------------------------------------------------------------
(* One request of a round. Only a forwarding that fails ends its round, with the dialog open.  *)
Request(r, ok) ==
  /\ r.left # <<>> /\ (ok => Head(r.left) \notin gone)
  /\ rounds' = (rounds \ {r}) \cup (IF ok \/ r.op # "forward" THEN {[r EXCEPT !.left = Tail(@)]} ELSE {})
  /\ gone' = gone \cup (IF ok /\ r.op = "delete" THEN {Head(r.left)} ELSE {})
  /\ UNCHANGED <<chat, list, chosen, replying, dialog, hide>>
(* The end of a round clears the selection, or the dialog, there is by then.                   *)
RoundEnds(r) ==
  /\ r.left = <<>> /\ rounds' = rounds \ {r}
  /\ UNCHANGED <<asks, shown>> /\ messages' = messages \ (IF r.op = "delete" THEN ToSet(r.ids) ELSE {})
  /\ IF r.op = "forward" THEN dialog' = <<>> /\ hide' = FALSE /\ UNCHANGED chosen
     ELSE Exited /\ UNCHANGED <<dialog, hide>>
  /\ UNCHANGED <<chat, replying, gone>>

Next == \/ Exit \/ handleBatchDelete \/ handleBatchFavorites \/ handleBatchForward \/ PinOne \/ ReplyOne
        \/ ClearReply \/ CloseDialog \/ Close \/ Reload \/ AskMore
        \/ \E c \in Chats : Open(c) \/ handleForwardToChat(c)
        \/ \E c \in Chats, ok \in BOOLEAN : Loaded(c, ok)
        \/ \E c \in Chats : \E set \in SUBSET Of(c) : More(c, set)
        \/ \E m \in Messages, s \in BOOLEAN : enterSelection(m) \/ handleSelectionClick(m, s)
        \/ \E m \in Messages : Vanish(m) \/ Arrive(m) \/ handleForward(m)
        \/ \E h \in BOOLEAN : HideAuthor(h)
        \/ \E r \in rounds : RoundEnds(r) \/ \E ok \in BOOLEAN : Request(r, ok)
Spec == Init /\ [][Next]_vars
-----------------------------------------------------------------------------
OneChat(s) == \A i, j \in DOMAIN s : /\ s[i] = s[j] => i = j
                                     /\ {s[i], s[j]} \cap stray = {} => ChatOf[s[i]] = ChatOf[s[j]]
(* The messages a round works through, those of the dialog and the selection are each of one   *)
(* chat, the selection of the chat that is open, but for messages that were chosen while the   *)
(* list was, in whole or in part, not of the open chat: its load was not answered, one for     *)
(* another chat was answered after it, or a message of one chat was added to the list of       *)
(* another. None is there twice, and never more than the limit, whatever ranges and clicks     *)
(* they came from, and rounds that ended meanwhile. (handleSelectionClick, exitSelection,      *)
(* loadChat, ChatView.tsx.)                                                                    *)
ChosenHere == /\ \A s \in {selected, dialog} \cup {r.ids : r \in rounds} :
                    OneChat(s) /\ Len(s) <= MAX_MESSAGE_SELECTION
              /\ \A i \in DOMAIN selected : /\ selected[i] \notin System
                                            /\ selected[i] \notin stray => ChatOf[selected[i]] = chat
=============================================================================
