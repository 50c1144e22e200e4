------------------------------ MODULE Timeline ------------------------------
(***************************************************************************)
(* The messages that ChatView.tsx and MessageList.tsx show: what is loaded *)
(* when a chat is opened or the socket comes back, the pages of older      *)
(* messages, the messages and read receipts that arrive by the socket, and *)
(* the user's own messages, sent and deleted.  A request is served by the  *)
(* server (messaging/service.go) at one moment and its answer applied at a *)
(* later one, by a function that was made when the request was.            *)
(***************************************************************************)
EXTENDS Naturals, Sequences, FiniteSets

CONSTANTS Chats,
          Page,      \* the limit of handleGetMessages, 50
          OlderPage, \* the limit of handleLoadOlder, 30
          MaxLog,    \* bound for TLC: messages ever written
          MaxTasks,  \* bound for TLC: requests under way at a time
          MaxAsked,  \* bound for TLC: requests ever made
          MaxCuts,   \* bound for TLC: losses of the socket
          MaxMarks,  \* bound for TLC: read marks of the peer
          None

TimelineConstants == /\ {Page, OlderPage, MaxLog} \subseteq Nat \ {0}
                     /\ {MaxTasks, MaxAsked, MaxCuts, MaxMarks} \subseteq Nat /\ None \notin Chats

VARIABLES
  log,     \* table messages, in the order of created_at: an id is an index
  up,      \* the socket is open
  inbox,   \* the events on their way to the client
  spent,   \* what there was of requests, losses of the socket and marks, for the bounds
  chat,    \* currentChatId
  list,    \* messages of ChatView: how many times each is there, MessageList sorts them
  marked,  \* those with the peer in read_by
  tasks,   \* the requests under way
  timer,   \* the timer of 400 ms that loads the chat after a reconnection
  loading, \* isLoadingRef of MessageList
  done,    \* olderDoneRef of MessageList
  seen,    \* history: per chat, the newest of its messages the peer has marked as read
  guessed, \* history: messages marked as read by a receipt of another chat, or one that named
           \* a message the list did not hold
  lost,    \* history: messages that a failed loading or an answer older than them took
           \* from the list, whose deletion or sending failed, or that stand between
           \* the page shown and an older message that came late
  stale,   \* history: an answer asked for another chat or list was put into this one
  endHere  \* history: done was set, and the list was not replaced since

rows == <<list, marked>>
ends == <<loading, done, endHere>>
past == <<seen, guessed, lost, stale>>
vars == <<log, up, inbox, spent, chat, rows, tasks, timer, ends, past>>

Ids == 1..MaxLog
Slots == 1..MaxTasks
(* The id "pending-..." of the message that request n sends: its time is the latest.           *)
Pending(n) == MaxLog + n
PendingIds == {Pending(n) : n \in Slots}
Shown == DOMAIN list
Empty == [id \in {} |-> 1]
Without(S) == [id \in Shown \ S |-> list[id]]
(* Mutant: no look at what the list holds. *)
AddedAgain(S, l) ==
  [id \in DOMAIN l \cup S |-> (IF id \in DOMAIN l THEN l[id] ELSE 0) + IF id \in S THEN 1 ELSE 0]
Added(S, l) == [id \in DOMAIN l \cup S |-> IF id \in DOMAIN l THEN l[id] ELSE 1]

Live(c) == {id \in DOMAIN log : log[id].chat = c /\ ~log[id].gone}
(* The newest n messages of the chat with an id below before: the one page there is.           *)
Newest(c, before, n) ==
  LET S == {id \in Live(c) : id < before}
  IN {G \in SUBSET S : /\ Cardinality(G) <= n /\ (G # S => Cardinality(G) = n)
                       /\ \A x \in G, y \in S \ G : y < x}

(* A request: what it asks and for which chat, the messages it is about, whether the list and  *)
(* the MessageList are still those it was made for, and what the server has answered, with the *)
(* length of the log then.                                                                     *)
Request(n, op, c, S) == [n |-> n, op |-> op, chat |-> c, ids |-> S, here |-> TRUE,
                         mounted |-> TRUE, served |-> FALSE, got |-> {}, at |-> 0]
Elsewhere(T) == {[t EXCEPT !.here = FALSE] : t \in T}
Unmounted(T) == {[t EXCEPT !.here = FALSE, !.mounted = FALSE] : t \in T}
(* A number for the request, the first that is free. *)
Asking(n) == /\ spent.asked < MaxAsked /\ spent' = [spent EXCEPT !.asked = @ + 1]
             /\ \A t \in tasks : t.n # n
             /\ \A m \in 1..n - 1 : \E t \in tasks : t.n = m
Ask(T, op, c, S) == \E n \in Slots : Asking(n) /\ tasks' = T \cup {Request(n, op, c, S)}
Load(T, c) == Ask(T, "load", c, {})

Init == /\ log = <<>> /\ up = TRUE /\ inbox = <<>> /\ spent = [asked |-> 0, cuts |-> 0, marks |-> 0]
        /\ chat = None /\ list = Empty /\ marked = {} /\ tasks = {} /\ timer = FALSE
        /\ loading = FALSE /\ done = FALSE /\ endHere = FALSE
        /\ seen = [c \in Chats |-> 0] /\ guessed = {} /\ lost = {} /\ stale = FALSE

(* What the server tells the client is lost while its socket is closed. *)
Tell(e) == inbox' = IF up THEN Append(inbox, e) ELSE inbox
NewMessage(id) == [t |-> "new", chat |-> log'[id].chat, id |-> id]

(* Another member writes, or an older message of his is deleted: nobody is told of that. *)
PeerWrites(c) ==
  /\ Len(log) < MaxLog
  /\ log' = Append(log, [chat |-> c, mine |-> FALSE, gone |-> FALSE])
  /\ Tell(NewMessage(Len(log')))
  /\ UNCHANGED <<up, spent, chat, rows, tasks, timer, ends, past>>

PeerDeletes(id) ==
  /\ ~log[id].mine /\ ~log[id].gone
  /\ log' = [log EXCEPT ![id].gone = TRUE]
  /\ UNCHANGED <<up, inbox, spent, chat, rows, tasks, timer, ends, past>>

(* His client marks the chat as read; it may name a message of the chat it showed before.       *)
PeerReads(c, id) ==
  /\ up /\ spent.marks < MaxMarks /\ spent' = [spent EXCEPT !.marks = @ + 1]
  /\ Tell([t |-> "read", chat |-> c, id |-> id])
  /\ seen' = IF log[id].chat = c /\ id > seen[c] THEN [seen EXCEPT ![c] = id] ELSE seen
  /\ UNCHANGED <<log, up, chat, rows, tasks, timer, ends, guessed, lost, stale>>

Cut == /\ up /\ spent.cuts < MaxCuts
       /\ up' = FALSE /\ inbox' = <<>> /\ spent' = [spent EXCEPT !.cuts = @ + 1]
       /\ UNCHANGED <<log, chat, rows, tasks, timer, ends, past>>

(* The event dierchat:ws_connected: the open chat is to be loaded in 400 ms. *)
(* Mutant: a reconnection is not heard. *)
NeverArmed == FALSE
Armed == chat # None
Reconnect == /\ ~up /\ up' = TRUE /\ timer' = (timer \/ Armed)
             /\ UNCHANGED <<log, inbox, spent, chat, rows, tasks, ends, past>>

Reload == /\ timer /\ timer' = FALSE /\ Load(tasks, chat)
          /\ UNCHANGED <<log, up, inbox, chat, rows, ends, past>>

(* setCurrentChatId: the messages of the chat before stay until those of the new one have      *)
(* come; MessageList is a new one.                                                             *)
Open(c) ==
  /\ c # chat
  /\ chat' = c /\ timer' = FALSE /\ Load(Unmounted(tasks), c)
  /\ stale' = TRUE /\ loading' = FALSE /\ done' = FALSE /\ endHere' = FALSE
  /\ UNCHANGED <<log, up, inbox, rows, seen, guessed, lost>>

Close ==
  /\ chat # None
  /\ chat' = None /\ list' = Empty /\ marked' = {} /\ timer' = FALSE /\ tasks' = Unmounted(tasks)
  /\ stale' = FALSE /\ lost' = {} /\ guessed' = {}
  /\ loading' = FALSE /\ done' = FALSE /\ endHere' = FALSE
  /\ UNCHANGED <<log, up, inbox, spent, seen>>

(* What is taken from the list is read no more; and when the list has become empty there may   *)
(* be older messages again (MessageList).                                                      *)
MarksAfter == marked' = marked \cap DOMAIN list'
EndAfter == done' = (done /\ (Shown # {} => DOMAIN list' # {}))

(* What will still be put into the list: by an event, by the answer to a sending.              *)
Coming == {inbox[i].id : i \in {j \in DOMAIN inbox : inbox[j].t = "new"}}
Due == Coming \cup UNION {t.got : t \in {u \in tasks : u.op = "send"}}
(* What a message leaves out that comes late, older than all that is shown.                    *)
Between(id) == {x \in DOMAIN log \ Due : id < x /\ \A y \in Shown : x < y}
(* handleNewMessage; an own one takes the place of those pending with the same text, and the   *)
(* model gives all the same.                                                                   *)
ForThisChat(c) == c = chat
OnNewMessage ==
  /\ inbox # <<>> /\ Head(inbox).t = "new"
  /\ inbox' = Tail(inbox)
  /\ LET id == Head(inbox).id IN
     IF ForThisChat(Head(inbox).chat) /\ id \notin Shown
     THEN /\ list' = Added({id}, IF log[id].mine THEN Without(PendingIds) ELSE list)
          /\ lost' = (lost \ {id}) \cup Between(id)
          /\ MarksAfter
     ELSE UNCHANGED <<rows, lost>>
  /\ UNCHANGED <<log, up, spent, chat, tasks, timer, ends, seen, guessed, stale>>

(* handleReadReceipt: all messages up to the one that was read, and every one when the list    *)
(* does not hold that one.                                                                     *)
(* Mutant: whatever was read, all are. *)
ReachesAll(id) == MaxLog + MaxTasks
Reaches(id) == IF id \in Shown THEN id ELSE MaxLog + MaxTasks
OnRead ==
  /\ inbox # <<>> /\ Head(inbox).t = "read"
  /\ inbox' = Tail(inbox)
  /\ LET id == Head(inbox).id IN
     IF Head(inbox).chat = chat
     THEN /\ marked' = marked \cup {x \in Shown : x <= Reaches(id)}
          /\ guessed' = guessed \cup
                       IF id \in Shown /\ log[id].chat = chat
                       THEN {x \in Shown \ PendingIds : log[x].chat # chat} ELSE Shown
     ELSE UNCHANGED <<marked, guessed>>
  /\ UNCHANGED <<log, up, spent, chat, list, tasks, timer, ends, seen, lost, stale>>

(* tryLoadOlder, from the oldest message shown. *)
LoadOlder ==
  /\ ~done /\ ~loading /\ chat # None
  /\ loading' = TRUE
  /\ \E id \in Shown : (\A y \in Shown : id <= y) /\ Ask(tasks, "older", chat, {id})
  /\ UNCHANGED <<log, up, inbox, chat, rows, timer, done, endHere, past>>

(* handleSendMessage: the message is shown while it is sent.  Sending without a connection is  *)
(* the module Outbox.                                                                          *)
StartSend ==
  /\ chat # None /\ Len(log) < MaxLog
  /\ \E n \in Slots : /\ Asking(n)
                      /\ tasks' = tasks \cup {Request(n, "send", chat, {Pending(n)})}
                      /\ list' = Added({Pending(n)}, list)
  /\ UNCHANGED <<log, up, inbox, chat, marked, timer, ends, past>>

(* handleDelete of one message, handleBatchDelete of the selected: own ones.                   *)
StartDelete(op, S) ==
  /\ chat # None /\ S # {} /\ (op = "delete" => Cardinality(S) = 1)
  /\ \A id \in S : id \in Ids /\ log[id].mine
  /\ Ask(tasks, op, chat, S)
  /\ UNCHANGED <<log, up, inbox, chat, rows, timer, ends, past>>

Answered(t, got) ==
  tasks' = (tasks \ {t}) \cup {[t EXCEPT !.served = TRUE, !.got = got, !.at = Len(log')]}

(* The server handles a request: GetMessages, SendMessage -- of which the sender is told or    *)
(* not, see Fanout -- and DeleteMessage, once for each message of a batch, whose failures are  *)
(* ignored.                                                                                    *)
Serve(t) ==
  /\ ~t.served
  /\ \/ /\ t.op = "load" /\ UNCHANGED <<log, inbox>>
        /\ \E G \in Newest(t.chat, MaxLog + 1, Page) : Answered(t, G)
     \/ /\ t.op = "older" /\ UNCHANGED <<log, inbox>>
        /\ \E b \in t.ids : \E G \in Newest(t.chat, b, OlderPage) : Answered(t, G)
     \/ /\ t.op = "send" /\ Len(log) < MaxLog
        /\ log' = Append(log, [chat |-> t.chat, mine |-> TRUE, gone |-> FALSE])
        /\ Answered(t, {Len(log')})
        /\ Tell(NewMessage(Len(log'))) \/ UNCHANGED inbox
     \/ /\ t.op \in {"delete", "batch"} /\ UNCHANGED inbox
        /\ \E D \in SUBSET t.ids :
             /\ t.op = "delete" => D = t.ids
             /\ log' = [id \in DOMAIN log |-> [log[id] EXCEPT !.gone = @ \/ id \in D]]
        /\ Answered(t, {})
  /\ UNCHANGED <<up, spent, chat, rows, timer, ends, past>>

(* loadChat has its answer, whatever chat is open now.  What was written since the server read *)
(* is lost from the list unless it is still to come.                                           *)
Loaded(t) ==
  /\ t.op = "load" /\ t.served
  /\ tasks' = Elsewhere(tasks \ {t})
  /\ list' = Added(t.got, Empty) /\ marked' = {}
  /\ stale' = (t.chat # chat)
  /\ lost' = (t.at + 1..Len(log)) \ Due
  /\ guessed' = {} /\ endHere' = FALSE
  /\ EndAfter
  /\ UNCHANGED <<log, up, inbox, spent, chat, timer, loading, seen>>

(* It fails: everything shown goes. *)
LoadFails(t) ==
  /\ t.op = "load"
  /\ tasks' = Elsewhere(tasks \ {t}) /\ list' = Empty /\ marked' = {}
  /\ endHere' = FALSE /\ guessed' = {} /\ stale' = FALSE
  /\ lost' = DOMAIN log \ Due
  /\ EndAfter
  /\ UNCHANGED <<log, up, inbox, spent, chat, timer, loading, seen>>

NoMore(t) == t.got = {}
(* handleLoadOlder puts the page before what is shown now; whether there is more, the          *)
(* MessageList learns that asked.                                                              *)
OlderLoaded(t) ==
  /\ t.op = "older" /\ t.served
  /\ tasks' = tasks \ {t}
  /\ list' = Added(t.got, list)
  /\ stale' = (stale \/ ~t.here)
  /\ IF t.mounted THEN /\ loading' = FALSE
                       /\ done' = (done \/ NoMore(t))
                       /\ endHere' = IF NoMore(t) THEN t.here /\ ~stale ELSE endHere
                  ELSE UNCHANGED ends
  /\ UNCHANGED <<log, up, inbox, spent, chat, marked, timer, seen, guessed, lost>>

OlderFails(t) ==
  /\ t.op = "older"
  /\ tasks' = tasks \ {t}
  /\ loading' = (loading /\ ~t.mounted)
  /\ UNCHANGED <<log, up, inbox, spent, chat, rows, timer, done, endHere, past>>

(* The message that was sent takes the place of the pending one. *)
Sent(t) ==
  /\ t.op = "send" /\ t.served
  /\ tasks' = tasks \ {t}
  /\ \E id \in t.got : /\ list' = Added({id}, Without(t.ids))
                       /\ lost' = (lost \ {id}) \cup Between(id)
  /\ stale' = (stale \/ t.chat # chat)
  /\ MarksAfter
  /\ UNCHANGED <<log, up, inbox, spent, chat, timer, ends, seen, guessed>>

SendFails(t) ==
  /\ t.op = "send"
  /\ tasks' = tasks \ {t}
  /\ list' = Without(t.ids) /\ lost' = lost \cup t.got
  /\ MarksAfter /\ EndAfter
  /\ UNCHANGED <<log, up, inbox, spent, chat, timer, loading, endHere, seen, guessed, stale>>

Deleted(t) ==
  /\ t.op \in {"delete", "batch"} /\ t.served
  /\ tasks' = tasks \ {t}
  /\ list' = Without(t.ids) /\ lost' = lost \cup {id \in t.ids : ~log[id].gone}
  /\ MarksAfter /\ EndAfter
  /\ UNCHANGED <<log, up, inbox, spent, chat, timer, loading, endHere, seen, guessed, stale>>

DeleteFails(t) ==
  /\ t.op = "delete"
  /\ tasks' = tasks \ {t}
  /\ UNCHANGED <<log, up, inbox, spent, chat, rows, timer, ends, past>>

Next ==
  \/ \E c \in Chats : PeerWrites(c) \/ Open(c)
  \/ \E id \in DOMAIN log : PeerDeletes(id) \/ \E c \in Chats : PeerReads(c, id)
  \/ Cut \/ Reconnect \/ Reload \/ Close \/ OnNewMessage \/ OnRead \/ LoadOlder \/ StartSend
  \/ \E op \in {"delete", "batch"}, S \in SUBSET Shown : StartDelete(op, S)
  \/ \E t \in tasks : \/ Serve(t) \/ Loaded(t) \/ LoadFails(t) \/ OlderLoaded(t)
                      \/ OlderFails(t) \/ Sent(t) \/ SendFails(t) \/ Deleted(t)
                      \/ DeleteFails(t)

Spec == Init /\ [][Next]_vars
-----------------------------------------------------------------------------
(* Nothing is under way any more. *)
AtRest == up /\ inbox = <<>> /\ ~timer /\ tasks = {} /\ chat # None

TypeOK ==
  /\ log \in Seq([chat : Chats, mine : BOOLEAN, gone : BOOLEAN]) /\ Len(log) <= MaxLog
  /\ {up, timer, loading, done, stale, endHere} \subseteq BOOLEAN
  /\ inbox \in Seq([t : {"new", "read"}, chat : Chats, id : Ids])
  /\ chat \in Chats \cup {None}
  /\ Shown \subseteq Ids \cup PendingIds /\ list \in [Shown -> Nat \ {0}] /\ marked \subseteq Shown
  /\ tasks \subseteq [n : Slots, op : {"load", "older", "send", "delete", "batch"},
                     chat : Chats, ids : SUBSET (Ids \cup PendingIds), here : BOOLEAN,
                     mounted : BOOLEAN, served : BOOLEAN, got : SUBSET Ids, at : 0..MaxLog]
  /\ seen \in [Chats -> 0..MaxLog] /\ guessed \subseteq Ids \cup PendingIds /\ lost \subseteq Ids

(* No message is shown twice, by whatever of the answer to its sending, its event, a page and  *)
(* a loading it came (handleNewMessage, handleSendMessage, handleLoadOlder).                   *)
ShownOnce == \A id \in Shown : list[id] = 1

(* Once nothing is under way, a chat shows no message of another, unless an answer that was     *)
(* asked for there has been put into its list (loadChat does not compare).                     *)
OwnMessages == AtRest /\ ~stale => \A id \in Shown : log[id].chat = chat

(* Once nothing is under way, every message since the oldest one shown is shown, unless an     *)
(* answer older than the message replaced the list, its own sending or deletion failed, or it   *)
(* is newer than one that came late and older than all that was shown then.                    *)
NothingMissing == AtRest /\ ~stale =>
                    \A id \in Live(chat), y \in Shown : y <= id => id \in Shown \cup lost

(* A message is shown as read only if the peer has read that far in its chat, or his mark       *)
(* named a message the list did not hold (handleReadReceipt).                                  *)
ReadExplained == \A id \in marked \cap Ids : id <= seen[log[id].chat] \/ id \in guessed

(* When MessageList will ask for no older page there is none, as long as the list was not      *)
(* replaced after it found out.                                                                *)
EndTrue == AtRest /\ done /\ endHere /\ ~stale => Live(chat) \subseteq Shown \cup lost
=============================================================================
