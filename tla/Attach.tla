------------------------------- MODULE Attach --------------------------------
(* What is attached to a chat (MessageInput.tsx): files from a dialog or       *)
(* dropped, a place, a contact, a poll.  Each is sent by a function that holds *)
(* the chat and the reply of the moment it was called; files of one choice are *)
(* uploaded and sent one after the other, several choices at once.             *)
EXTENDS Integers, FiniteSets, Sequences

CONSTANTS
  Chats, None,
  MaxFiles,      \* how many files are chosen together
  MaxTasks,      \* how many times something is attached
  MaxSwitches,   \* how many times another chat is opened
  MaxReplies     \* how many times a message is chosen to be answered

AttachConstants ==
  /\ None \notin Chats /\ MaxFiles \in Nat \ {0}
  /\ {MaxTasks, MaxSwitches, MaxReplies} \subseteq Nat

VARIABLES
  chat,      \* the chat shown
  reply,     \* replyingTo: its number and its chat, or None
  menu,      \* the menu or the dialog that is open
  pollBusy,  \* pollSending
  pickers,   \* the system's dialogs, and places being looked for
  tasks,     \* what is being sent
  log,       \* the messages at the server, in the order of their sending
  shown,     \* the messages sent from here that the screen shows
  done,      \* the messages whose sending was answered
  started, switches, replies
vars == <<chat, reply, menu, pollBusy, pickers, tasks, log, shown, done,
          started, switches, replies>>
screen == <<chat, switches, replies>>
sent == <<shown, done>>

Init ==
  /\ chat \in Chats /\ reply = None /\ menu = "none" /\ pollBusy = FALSE
  /\ pickers = {} /\ tasks = {} /\ log = <<>> /\ shown = {} /\ done = {}
  /\ started = 0 /\ switches = 0 /\ replies = 0

Sent == {log[i] : i \in DOMAIN log}

(* Another chat is opened and loaded.  The reply, the menus and what is being *)
(* sent stay: the input is not mounted again.                                 *)
Open ==
  /\ switches < MaxSwitches /\ switches' = switches + 1
  /\ chat' \in Chats \ {chat}
  /\ shown' = {m \in Sent : m.to = chat'}
  /\ UNCHANGED <<reply, menu, pollBusy, pickers, tasks, log, done, started, replies>>

Answer ==
  /\ replies < MaxReplies /\ replies' = replies + 1
  /\ reply' = [n |-> replies + 1, of |-> chat]
  /\ UNCHANGED <<chat, menu, pollBusy, pickers, tasks, log, sent, started, switches>>
Unanswer ==
  /\ reply # None /\ reply' = None
  /\ UNCHANGED <<screen, menu, pollBusy, pickers, tasks, log, sent, started>>

(* The menu's button; a click elsewhere closes it. *)
Menu ==
  /\ menu \in {"none", "attach"} /\ menu' \in {"none", "attach"} \ {menu}
  /\ UNCHANGED <<screen, reply, pollBusy, pickers, tasks, log, sent, started>>
Dialog ==
  /\ \/ menu = "attach" /\ menu' \in {"poll", "contact"}
     \/ menu \in {"poll", "contact"} /\ menu' = "none"
  /\ UNCHANGED <<screen, reply, pollBusy, pickers, tasks, log, sent, started>>

-----------------------------------------------------------------------------
(* The function that sends, with what it closed over. *)
Held(kind) == [kind |-> kind, to |-> chat, reply |-> reply, done |-> done]
Begin(held, n, st) ==
  /\ started < MaxTasks /\ started' = started + 1
  /\ tasks' = tasks \union
       {[id |-> started + 1, held |-> held, k |-> 1, n |-> n, st |-> st]}

(* handleFileSelect and handleGeolocation: the answer comes later, and goes *)
(* where the menu was clicked.                                              *)
Pick ==
  /\ menu = "attach" /\ menu' = "none" /\ Cardinality(pickers) < MaxTasks
  /\ \E kind \in {"file", "place"} : pickers' = pickers \union {Held(kind)}
  /\ UNCHANGED <<screen, reply, pollBusy, tasks, log, sent, started>>
Picked ==
  /\ \E p \in pickers, n \in 1..MaxFiles :
       /\ pickers' = pickers \ {p}
       /\ p.kind = "place" => n = 1
       /\ Begin(p, n, IF p.kind = "place" THEN "send" ELSE "upload")
  /\ UNCHANGED <<screen, reply, menu, pollBusy, log, sent>>
Unpicked ==
  /\ \E p \in pickers : pickers' = pickers \ {p}
  /\ UNCHANGED <<screen, reply, menu, pollBusy, tasks, log, sent, started>>

(* handleFileDrop. *)
Drop ==
  /\ \E n \in 1..MaxFiles : Begin(Held("file"), n, "upload")
  /\ UNCHANGED <<screen, reply, menu, pollBusy, pickers, log, sent>>

(* A click on a contact; handleCreatePoll, one at a time. *)
Contact ==
  /\ menu = "contact" /\ Begin(Held("contact"), 1, "send")
  /\ UNCHANGED <<screen, reply, menu, pollBusy, pickers, log, sent>>
Poll ==
  /\ menu = "poll" /\ ~pollBusy /\ pollBusy' = TRUE
  /\ Begin([Held("poll") EXCEPT !.reply = None], 1, "send")
  /\ UNCHANGED <<screen, reply, menu, pickers, log, sent>>

-----------------------------------------------------------------------------
(* sendFileAsMessage: the upload, then the message. *)
Uploaded ==
  /\ \E t \in tasks :
       /\ t.st = "upload"
       /\ tasks' = (tasks \ {t}) \union {[t EXCEPT !.st = "send"]}
  /\ UNCHANGED <<screen, reply, menu, pollBusy, pickers, log, sent, started>>

TargetNow(t) == chat                                             \* mutant
Target(t) == t.held.to
Posts(t) ==
  /\ t.st = "send"
  /\ log' = Append(log, [id |-> t.id, k |-> t.k, to |-> Target(t),
                         reply |-> t.held.reply, held |-> t.held])
  /\ tasks' = (tasks \ {t}) \union {[t EXCEPT !.st = "sent"]}
Posted ==
  /\ \E t \in tasks : Posts(t)
  /\ UNCHANGED <<screen, reply, menu, pollBusy, pickers, sent, started>>

(* The next file of the choice, or the end of it. *)
Goes(t) ==
  tasks' = (tasks \ {t}) \union
    (IF t.k < t.n THEN {[t EXCEPT !.k = @ + 1, !.st = "upload"]} ELSE {})

(* onMessageSent puts the message into the list that is shown, and            *)
(* onClearReply clears the reply there is by now.  A poll does neither, but   *)
(* closes its dialog; a contact closes its own.                               *)
ReplyStays(t) == reply' = reply                                  \* mutant
onClearReply(t) == reply' = (IF t.held.kind = "poll" THEN reply ELSE None)
Closes(t) ==
  menu' = IF menu = t.held.kind THEN "none" ELSE menu
Answered ==
  /\ \E t \in tasks :
       /\ t.st = "sent" /\ Goes(t) /\ onClearReply(t) /\ Closes(t)
       /\ pollBusy' = (pollBusy /\ t.held.kind # "poll")
       /\ done' = done \union {<<t.id, t.k>>}
       /\ shown' = IF t.held.kind = "poll" THEN shown
                   ELSE shown \union {m \in Sent : m.id = t.id /\ m.k = t.k}
  /\ UNCHANGED <<screen, pickers, log, started>>

(* Any call fails, or its answer is lost: an alert, and the next file. *)
Failed ==
  /\ \E t \in tasks :
       /\ Goes(t) /\ pollBusy' = (pollBusy /\ t.held.kind # "poll")
       /\ IF t.held.kind = "contact" THEN Closes(t) ELSE UNCHANGED menu
  /\ UNCHANGED <<screen, reply, pickers, log, sent, started>>

Next ==
  \/ Open \/ Answer \/ Unanswer \/ Menu \/ Dialog \/ Pick \/ Picked \/ Unpicked
  \/ Drop \/ Contact \/ Poll \/ Uploaded \/ Posted \/ Answered \/ Failed

Spec == Init /\ [][Next]_vars

-----------------------------------------------------------------------------
TypeOK ==
  /\ chat \in Chats /\ menu \in {"none", "attach", "poll", "contact"}
  /\ pollBusy \in BOOLEAN /\ started \in 0..MaxTasks
  /\ \A t \in tasks : t.k \in 1..t.n /\ t.st \in {"upload", "send", "sent"}
  /\ shown \subseteq Sent

(* Whatever chats are opened while a file is chosen, uploaded and sent, it     *)
(* goes to the chat it was attached to, once, and the files of one choice keep *)
(* their order (sendFileAsMessage, MessageInput.tsx:304-347).                  *)
InPlace ==
  \A i, j \in DOMAIN log :
    /\ log[i].to = log[i].held.to
    /\ i < j /\ log[i].id = log[j].id => log[i].k < log[j].k

(* A message is answered by one attachment: two of them answer it only when    *)
(* each was begun before the other's sending was answered; that is when the    *)
(* reply is cleared (MessageInput.tsx:290-316, 824-830).                       *)
AnsweredOnce ==
  \A m, l \in Sent :
    m.reply # None /\ m.reply = l.reply /\ m.id # l.id
      => <<m.id, m.k>> \notin l.held.done
=============================================================================
