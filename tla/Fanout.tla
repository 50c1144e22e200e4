------------------------------- MODULE Fanout -------------------------------
(***************************************************************************)
(* broadcastNewMessage: how a stored message goes out to the members of    *)
(* its chat.  The handler builds ONE ws.Event and passes its address to    *)
(* SendToUser once per member; SendToUser overwrites the UserID of that    *)
(* event and puts the pointer in the broadcast channel, where Hub.Run may  *)
(* read it while the handler is already writing the next UserID.           *)
(*                                                                         *)
(* A message stands for its event, and the channel holds messages.  What   *)
(* the hub does with the user it reads is module Hub.                      *)
(***************************************************************************)
EXTENDS Naturals, Sequences, FiniteSets, Functions

CONSTANTS Users,
          Movers,     \* the users whose sessions come and go (all, but for TLC)
          Messages,
          Sender,     \* the sender of a message
          Previous,   \* the message its user's client wrote before it, or NoMessage
          NoMessage,
          Nobody,     \* a UserID that is no user's: zero, or torn by the data race
          BcastCap    \* capacity of the broadcast channel

ASSUME FanoutAssumption ==
  /\ Sender \in [Messages -> Users]
  /\ Previous \in [Messages -> Messages \cup {NoMessage}]
  /\ NoMessage \notin Messages
  /\ Movers \subseteq Users
  /\ Nobody \notin Users
  /\ BcastCap \in Nat

VARIABLES
  inSession, \* the messages sent over the WebSocket of their sender, the others by POST
  pc,        \* where the handler of a message is
  members,   \* the members it read
  current,   \* the user of the SendToUser under way
  told,      \* the users SendToUser was called for
  known,     \* whether broadcastNewMessage found the sender's row
  address,   \* the UserID of the event
  broadcast, \* hub.broadcast
  taken,     \* the event handleBroadcast holds, or NoMessage
  online,    \* the users with a registered session
  got,       \* history: the users the hub routed the event to, one after the other
  pushed,    \* history: the users for whom a push notification was started
  around     \* history: the users seen online since the message was stored

handler == <<pc, members, current, told, known>>
history == <<got, pushed, around>>
vars == <<inSession, handler, address, broadcast, taken, online, history>>

Init ==
  /\ inSession \in SUBSET Messages
  /\ pc = [m \in Messages |-> "new"]
  /\ members = [m \in Messages |-> {}]
  /\ current = [m \in Messages |-> Nobody]
  /\ told = [m \in Messages |-> {}]
  /\ known = [m \in Messages |-> FALSE]
  /\ address = [m \in Messages |-> Nobody]
  /\ broadcast = <<>>
  /\ taken = NoMessage
  /\ online \in SUBSET Users
  /\ got = [m \in Messages |-> <<>>]
  /\ pushed = [m \in Messages |-> {}]
  /\ around = [m \in Messages |-> {}]

----------------------------------------------------------------------------
Follows(m) == Previous[m] \in inSession /\ m \in inSession

(* Mutant: a goroutine per message. *)
TurnAny(m) == pc[m] = "new"

(* ReadPump handles the messages of its session one after the other; every POST has a goroutine. *)
Turn(m) ==
  /\ pc[m] = "new"
  /\ Follows(m) => pc[Previous[m]] = "done"

(* SendMessage inserts the row, whoever is a member; an error ends the handler. *)
SendMessage(m) ==
  /\ Turn(m)
  /\ \E to \in {"stored", "done"} : pc' = [pc EXCEPT ![m] = to]
  /\ around' = [around EXCEPT ![m] = online]
  /\ UNCHANGED <<members, current, told, known, address, broadcast, taken, online, got, pushed>>

(* GetChatMembers, an error giving no members, then the row of the sender. *)
ReadMembers(m, us, found) ==
  /\ pc[m] = "stored"
  /\ members' = [members EXCEPT ![m] = us]
  /\ known' = [known EXCEPT ![m] = found]
  /\ pc' = [pc EXCEPT ![m] = "loop"]
  /\ UNCHANGED <<current, told, address, broadcast, taken, online, history>>

ToSender(m) == IF known[m] THEN {Sender[m]} ELSE {}

(* Mutant: the sender is one of the members. *)
NextUsersMixed(m) == (members[m] \cup ToSender(m)) \ told[m]

(* The next user: a member, the rows come in any order, and after all members a sender who is
   not one of them. *)
NextUsers(m) ==
  LET rest == members[m] \ told[m]
  IN  IF rest # {} THEN rest ELSE ToSender(m) \ told[m]

StartSend(m) ==
  /\ pc[m] = "loop"
  /\ \E u \in NextUsers(m) :
       /\ current' = [current EXCEPT ![m] = u]
       /\ told' = [told EXCEPT ![m] = @ \cup {u}]
  /\ pc' = [pc EXCEPT ![m] = "write"]
  /\ UNCHANGED <<members, known, address, broadcast, taken, online, history>>

Finish(m) ==
  /\ pc[m] = "loop"
  /\ NextUsers(m) = {}
  /\ pc' = [pc EXCEPT ![m] = "done"]
  /\ UNCHANGED <<members, current, told, known, address, broadcast, taken, online, history>>

Addressed(m) == [address EXCEPT ![m] = current[m]]

(* SendToUser, event.UserID = userID. *)
WriteAddress(m) ==
  /\ pc[m] = "write"
  /\ address' = Addressed(m)
  /\ pc' = [pc EXCEPT ![m] = "send"]
  /\ UNCHANGED <<members, current, told, known, broadcast, taken, online, history>>

(* Mutant: a full channel drops the event. *)
EnqueuedOrDropped(m) ==
  broadcast' = IF Len(broadcast) < BcastCap THEN Append(broadcast, m) ELSE broadcast

Enqueued(m) == Len(broadcast) < BcastCap /\ broadcast' = Append(broadcast, m)

(* SendToUser, h.broadcast <- event; it blocks while the channel is full. *)
Enqueue(m) ==
  /\ pc[m] = "send"
  /\ Enqueued(m)
  /\ pc' = [pc EXCEPT ![m] = "check"]
  /\ UNCHANGED <<members, current, told, known, address, taken, online, history>>

(* Whom the handler notifies by push once it queued the event for them. *)
Away(m) == {current[m]} \ (online \cup ToSender(m))

CheckOnline(m) ==
  /\ pc[m] = "check"
  /\ pushed' = [pushed EXCEPT ![m] = @ \cup Away(m)]
  /\ pc' = [pc EXCEPT ![m] = "loop"]
  /\ UNCHANGED <<members, current, told, known, address, broadcast, taken, online, got, around>>

----------------------------------------------------------------------------
(* Hub.Run receives an event. *)
Take ==
  /\ taken = NoMessage
  /\ broadcast # <<>>
  /\ taken' = Head(broadcast)
  /\ broadcast' = Tail(broadcast)
  /\ UNCHANGED <<handler, address, online, history>>

(* What handleBroadcast may read: UserID is 16 bytes, and a read that races with the write of
   the next one gives the old, the new, or a mix that is nobody's. *)
Seen(m) == IF pc[m] = "write" THEN {address[m], current[m], Nobody} ELSE {address[m]}

(* handleBroadcast reads the UserID of the event now and sends to that user. *)
Route ==
  /\ taken # NoMessage
  /\ \E u \in Seen(taken) : got' = [got EXCEPT ![taken] = Append(@, u)]
  /\ taken' = NoMessage
  /\ UNCHANGED <<handler, address, broadcast, online, pushed, around>>

(* A user's first session registers, or the last one leaves. *)
TogglePresence(u) ==
  /\ online' = IF u \in online THEN online \ {u} ELSE online \cup {u}
  /\ around' = [m \in Messages |-> around[m] \cup {u}]
  /\ UNCHANGED <<handler, address, broadcast, taken, got, pushed>>

----------------------------------------------------------------------------
Handle(m) ==
  /\ \/ SendMessage(m)
     \/ \E us \in SUBSET Users, found \in BOOLEAN : ReadMembers(m, us, found)
     \/ StartSend(m) \/ Finish(m)
     \/ WriteAddress(m) \/ Enqueue(m) \/ CheckOnline(m)
  /\ UNCHANGED inSession

Hub == (Take \/ Route) /\ UNCHANGED inSession

Next ==
  \/ \E m \in Messages : Handle(m)
  \/ Hub
  \/ \E u \in Movers : TogglePresence(u) /\ UNCHANGED inSession

Spec == Init /\ [][Next]_vars

----------------------------------------------------------------------------
TypeOK ==
  /\ inSession \in SUBSET Messages
  /\ pc \in [Messages -> {"new", "stored", "loop", "write", "send", "check", "done"}]
  /\ members \in [Messages -> SUBSET Users]
  /\ current \in [Messages -> Users \cup {Nobody}]
  /\ told \in [Messages -> SUBSET Users]
  /\ known \in [Messages -> BOOLEAN]
  /\ address \in [Messages -> Users \cup {Nobody}]
  /\ broadcast \in Seq(Messages) /\ Len(broadcast) <= BcastCap
  /\ taken \in Messages \cup {NoMessage}
  /\ online \in SUBSET Users
  /\ got \in [Messages -> Seq(Users \cup {Nobody})]
  /\ pushed \in [Messages -> SUBSET Users]
  /\ around \in [Messages -> SUBSET Users]

InFlight(m) == taken = m \/ \E i \in DOMAIN broadcast : broadcast[i] = m
Drained(m) == pc[m] = "done" /\ ~InFlight(m)

(* However the handler and the hub interleave, no user is sent a message but those the handler
   named: the shared event never carries the address of another message (SendToUser). *)
OnlyAudience ==
  \A m \in Messages : Range(got[m]) \subseteq told[m] \cup {Nobody}

Sends(m) == Cardinality(told[m]) - (IF pc[m] \in {"write", "send"} THEN 1 ELSE 0)
Waiting(m) == Cardinality({i \in DOMAIN broadcast : broadcast[i] = m}) + (IF taken = m THEN 1 ELSE 0)

(* Every SendToUser is routed exactly once, if not to its user: a member who misses the message
   is made up for by another one who gets it twice, or by a send to nobody. *)
EachSendRouted ==
  \A m \in Messages : Len(got[m]) + Waiting(m) = Sends(m)

(* The last user a message was addressed to gets it: what overtakes an address is always a
   later one, so the race can only rob the users before. *)
LastServed ==
  \A m \in Messages : Drained(m) /\ told[m] # {} => address[m] \in Range(got[m])

(* A sender without a row in chat_members gets new_message (the last lines of
   broadcastNewMessage), because it comes after all members. *)
AbsentSenderServed ==
  \A m \in Messages :
    Drained(m) /\ known[m] /\ Sender[m] \notin members[m] => Sender[m] \in Range(got[m])

(* Messages of one WebSocket session are sent out in their order, to whomever: none is routed
   before all events of the one before it are. *)
InOrder ==
  \A m \in Messages :
    Follows(m) /\ got[m] # <<>> => Drained(Previous[m])

(* A member who had no session from the storing of a message to the end of its handler is
   notified by push, whether or not the handler found the sender (push is enabled). *)
AwayNotified ==
  \A m \in Messages :
    pc[m] = "done" => members[m] \ (around[m] \cup {Sender[m]}) \subseteq pushed[m]

(* What the race on the shared event leaves of broadcastNewMessage: nobody else is sent the
   message, whoever comes last is served, and the absent ones are pushed to. *)
FanoutKept == OnlyAudience /\ LastServed /\ AbsentSenderServed /\ AwayNotified

(* "The sender always gets new_message": once the handler ended and the channel drained, a
   sender that broadcastNewMessage found was sent the message. *)
NewMessageReachesSender ==
  \A m \in Messages : Drained(m) /\ known[m] => Sender[m] \in Range(got[m])

(* For TLC: all messages are of one user, whose client wrote each but one after that one. *)
OneSender == [m \in Messages |-> CHOOSE u \in Users \ Movers : TRUE]
AfterOne == LET one == CHOOSE m \in Messages : TRUE
            IN  [m \in Messages |-> IF m = one THEN NoMessage ELSE one]
============================================================================
