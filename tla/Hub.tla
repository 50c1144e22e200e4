-------------------------------- MODULE Hub --------------------------------
(***************************************************************************)
(* The WebSocket hub of DierCHAT-Server: one goroutine, Hub.Run, that owns *)
(* the registry of sessions, and per session a ReadPump and a WritePump    *)
(* goroutine.  They share the bounded channels register, unregister and    *)
(* broadcast and one bounded Send channel per session.                     *)
(*                                                                         *)
(* One Client is one session: a *ws.Client pointer, never used again after *)
(* its socket is gone.  A payload is only a presence claim about a user or *)
(* Data; a Send channel is the number of payloads it buffers, since a      *)
(* WritePump hands them over in order and looks at none of them.           *)
(***************************************************************************)
EXTENDS Naturals, Sequences, FiniteSets

CONSTANTS Users,      \* the accounts
          Clients,    \* the sessions
          UserOf,     \* the account of a session
          Chats,      \* the chats that have a member list in the hub
          Lists,      \* the member lists a handler may read from the database
          RegCap,     \* capacity of the register channel, 256 in the code
          UnregCap,   \* capacity of the unregister channel, 256 in the code
          BcastCap,   \* capacity of the broadcast channel, 4096 in the code
          SendCap,    \* capacity of a Send channel, 256 in the code
          NoClient,   \* "no session", for the session being retired
          Data        \* any payload that is not a claim about presence

\* The claim, pushed to others, that a user is on or off line.
Claim == [user : Users, state : {"on", "off"}]

ASSUME HubAssumption ==
  /\ UserOf \in [Clients -> Users]
  /\ Users \cap Chats = {}
  /\ Lists \subseteq SUBSET Users
  /\ NoClient \notin Clients
  /\ Data \notin Claim
  /\ RegCap \in Nat /\ UnregCap \in Nat /\ BcastCap \in Nat /\ SendCap \in Nat

Payload == Claim \cup {Data}
\* broadcastOnline or broadcastOffline is pass 1, broadcastOnlineStatus pass 2.
Push == [pass : {1, 2}, to : Clients, what : Payload]
\* An event in the broadcast channel is its address: a user, or a chat.
Event == Users \cup Chats

VARIABLES
  clients,     \* hub.clients, the maps of all users in one set
  chatMembers, \* hub.chatMembers
  register,    \* the three channels
  unregister,
  broadcast,
  buffered,    \* how many payloads each Send channel holds
  closed,      \* the sessions whose Send channel is closed
  conn,        \* the socket: "none", "open" or "gone"
  rp,          \* handleWebSocket, then ReadPump: "new", "filling", "run", "done"
  wp,          \* WritePump: "new", "run", "done"
  todo,        \* pushes the hub still makes in this turn of its loop
  closing,     \* the session this turn ends by closing, or NoClient
  fate,        \* "up"; "stuck": the hub blocks forever; or the panic that ended the process
  told,        \* history: the last claim about a user buffered for a session
  dropped,     \* history: sessions the hub itself queued for removal
  overtaken    \* history: sessions whose removal was handled before their registration

channels == <<register, unregister, broadcast>>
pumps == <<conn, rp, wp>>
history == <<told, dropped, overtaken>>
vars == <<clients, chatMembers, channels, buffered, closed, pumps, todo, closing, fate, history>>

InChannel(c, ch) == \E i \in DOMAIN ch : ch[i] = c

Init ==
  /\ clients = {}
  /\ chatMembers = [h \in Chats |-> {}]
  /\ register = <<>> /\ unregister = <<>> /\ broadcast = <<>>
  /\ buffered = [c \in Clients |-> 0]
  /\ closed = {}
  /\ conn = [c \in Clients |-> "none"]
  /\ rp = [c \in Clients |-> "new"]
  /\ wp = [c \in Clients |-> "new"]
  /\ todo = {} /\ closing = NoClient
  /\ fate = "up"
  /\ told = [c \in Clients |-> [u \in Users |-> "none"]]
  /\ dropped = {} /\ overtaken = {}

----------------------------------------------------------------------------
(* The process lives unless a goroutine panicked; a stuck hub does not end it. *)
Alive == fate \in {"up", "stuck"}

Conns(u) == {c \in clients : UserOf[c] = u}
IsOnline(u) == Conns(u) # {}

HubIdle == todo = {} /\ closing = NoClient
HubTurn == fate = "up" /\ HubIdle

HasRoom(c) == buffered[c] < SendCap

(* The pushes of one presence broadcast: twice to every session of the others. *)
ClaimPushes(u, s, cs) ==
  {[pass |-> p, to |-> c, what |-> [user |-> u, state |-> s]] :
      p \in {1, 2}, c \in {d \in cs : UserOf[d] # u}}

----------------------------------------------------------------------------
(* handleWebSocket: upgrade, NewClient, Register.  Register blocks while the channel is full. *)
Connect(c) ==
  /\ Alive
  /\ rp[c] = "new"
  /\ Len(register) < RegCap
  /\ register' = Append(register, c)
  /\ conn' = [conn EXCEPT ![c] = "open"]
  /\ rp' = [rp EXCEPT ![c] = "filling"]
  /\ UNCHANGED <<clients, chatMembers, unregister, broadcast, buffered, closed, wp, todo,
                 closing, fate, history>>

(* The presence passes hold the read lock while they push. *)
ReadLocked == \E p \in todo : p.what # Data

(* A handler stores the members of a chat it read from the database, be it the refresh
   after a change of members or the fill of handleWebSocket. *)
UpdateChatMembers(h, us) ==
  /\ Alive
  /\ ~ReadLocked
  /\ chatMembers' = [chatMembers EXCEPT ![h] = us]
  /\ UNCHANGED <<clients, channels, buffered, closed, pumps, todo, closing, fate, history>>

(* The end of handleWebSocket: both pumps start. *)
StartPumps(c) ==
  /\ Alive
  /\ rp[c] = "filling"
  /\ rp' = [rp EXCEPT ![c] = "run"]
  /\ wp' = [wp EXCEPT ![c] = "run"]
  /\ UNCHANGED <<clients, chatMembers, channels, buffered, closed, conn, todo, closing, fate,
                 history>>

(* The peer goes away, its network fails, or nothing is read for pongWait. *)
PeerGone(c) ==
  /\ Alive
  /\ conn[c] = "open"
  /\ conn' = [conn EXCEPT ![c] = "gone"]
  /\ UNCHANGED <<clients, chatMembers, channels, buffered, closed, rp, wp, todo, closing, fate,
                 history>>

(* ReadPump answers a ping without going through the hub: a full channel drops the pong,
   and a closed one panics. *)
AnswerPing(c) ==
  /\ Alive
  /\ rp[c] = "run" /\ conn[c] = "open"
  /\ \/ /\ c \in closed
        /\ fate' = "send on closed"
        /\ UNCHANGED buffered
     \/ /\ c \notin closed
        /\ HasRoom(c)
        /\ buffered' = [buffered EXCEPT ![c] = @ + 1]
        /\ UNCHANGED fate
  /\ UNCHANGED <<clients, chatMembers, channels, closed, pumps, todo, closing, history>>

(* ReadMessage fails: the deferred Unregister, which blocks while the channel is full. *)
ReadPumpExit(c) ==
  /\ Alive
  /\ rp[c] = "run" /\ conn[c] = "gone"
  /\ Len(unregister) < UnregCap
  /\ unregister' = Append(unregister, c)
  /\ rp' = [rp EXCEPT ![c] = "done"]
  /\ UNCHANGED <<clients, chatMembers, register, broadcast, buffered, closed, conn, wp, todo,
                 closing, fate, history>>

(* WritePump writes the payload it took and all those buffered behind it as one frame. *)
WriteBatch(c) ==
  /\ Alive
  /\ wp[c] = "run" /\ conn[c] = "open"
  /\ buffered[c] > 0
  /\ buffered' = [buffered EXCEPT ![c] = 0]
  /\ UNCHANGED <<clients, chatMembers, channels, closed, pumps, todo, closing, fate, history>>

(* Every return of WritePump closes the socket. *)
WritePumpReturn(c) ==
  /\ wp' = [wp EXCEPT ![c] = "done"]
  /\ conn' = [conn EXCEPT ![c] = "gone"]
  /\ UNCHANGED unregister

(* WritePump ends: a write to a lost socket fails (the ping ticker alone would try one), or
   the Send channel is closed and drained. *)
WritePumpEnd(c) ==
  /\ Alive
  /\ wp[c] = "run"
  /\ conn[c] = "gone" \/ (c \in closed /\ buffered[c] = 0)
  /\ WritePumpReturn(c)
  /\ UNCHANGED <<clients, chatMembers, register, broadcast, buffered, closed, rp, todo, closing,
                 fate, history>>

(* Broadcast, SendToUser and SendToChat by any handler; they block while the channel is full. *)
Publish(e) ==
  /\ Alive
  /\ Len(broadcast) < BcastCap
  /\ broadcast' = Append(broadcast, e)
  /\ UNCHANGED <<clients, chatMembers, register, unregister, buffered, closed, pumps, todo,
                 closing, fate, history>>

----------------------------------------------------------------------------
(* Hub.Run, case client := <-h.register. *)
HandleRegister ==
  /\ HubTurn
  /\ register # <<>>
  /\ LET c == Head(register) IN
       /\ register' = Tail(register)
       /\ clients' = clients \cup {c}
       /\ todo' = IF IsOnline(UserOf[c]) THEN {} ELSE ClaimPushes(UserOf[c], "on", clients)
  /\ UNCHANGED <<chatMembers, unregister, broadcast, buffered, closed, pumps, closing, fate,
                 history>>

(* Mutant: the count is taken after the deletion. *)
NowOfflineNever(c) == Conns(UserOf[c]) = {}

(* len(conns) == 1, whether or not c is the one. *)
NowOffline(c) == \E d \in clients : Conns(UserOf[c]) = {d}

(* Mutant: the session stays in the map. *)
ForgetNothing(c) == clients

Forget(c) == clients \ {c}

(* Hub.Run, case client := <-h.unregister, up to the close. *)
HandleUnregister ==
  /\ HubTurn
  /\ unregister # <<>>
  /\ LET c == Head(unregister) IN
       /\ unregister' = Tail(unregister)
       /\ clients' = Forget(c)
       /\ todo' = IF NowOffline(c) THEN ClaimPushes(UserOf[c], "off", Forget(c)) ELSE {}
       /\ closing' = c
       /\ overtaken' = IF InChannel(c, register) THEN overtaken \cup {c} ELSE overtaken
  /\ UNCHANGED <<chatMembers, register, broadcast, buffered, closed, pumps, fate, told, dropped>>

(* Mutant: the channel is left open. *)
CloseSendSkipped ==
  /\ fate = "up"
  /\ todo = {} /\ closing # NoClient
  /\ closing' = NoClient
  /\ UNCHANGED <<clients, chatMembers, channels, buffered, closed, pumps, todo, fate, history>>

(* close(client.Send), the last act of that turn; closing twice panics. *)
CloseSend ==
  /\ fate = "up"
  /\ todo = {} /\ closing # NoClient
  /\ IF closing \in closed
     THEN fate' = "close of closed" /\ UNCHANGED <<closed, closing>>
     ELSE closed' = closed \cup {closing} /\ closing' = NoClient /\ UNCHANGED fate
  /\ UNCHANGED <<clients, chatMembers, channels, buffered, pumps, todo, history>>

(* The users an event is for: those of the chat's list, or the one user. *)
Audience(e) == IF e \in Chats THEN chatMembers[e] ELSE {e}

(* Hub.Run, case event := <-h.broadcast: handleBroadcast and sendToUser start their loops. *)
HandleBroadcast ==
  /\ HubTurn
  /\ broadcast # <<>>
  /\ LET us == Audience(Head(broadcast)) IN
       todo' = {[pass |-> 1, to |-> c, what |-> Data] : c \in {d \in clients : UserOf[d] \in us}}
  /\ broadcast' = Tail(broadcast)
  /\ UNCHANGED <<clients, chatMembers, register, unregister, buffered, closed, pumps, closing,
                 fate, history>>

(* One select of a push loop.  A Send channel without room makes the hub queue the session
   for removal; it waits there for a consumer of unregister, and it is the only one. *)
PushOne(p) ==
  /\ fate = "up"
  /\ p \in todo
  /\ \A q \in todo : p.pass <= q.pass
  /\ IF p.to \in closed
     THEN fate' = "send on closed" /\ UNCHANGED <<buffered, told, unregister, dropped, todo>>
     ELSE IF HasRoom(p.to)
     THEN /\ buffered' = [buffered EXCEPT ![p.to] = @ + 1]
          /\ told' = IF p.what = Data THEN told
                     ELSE [told EXCEPT ![p.to][p.what.user] = p.what.state]
          /\ todo' = todo \ {p}
          /\ UNCHANGED <<unregister, dropped, fate>>
     ELSE IF Len(unregister) < UnregCap
     THEN /\ unregister' = Append(unregister, p.to)
          /\ dropped' = dropped \cup {p.to}
          /\ todo' = todo \ {p}
          /\ UNCHANGED <<buffered, told, fate>>
     ELSE fate' = "stuck" /\ UNCHANGED <<buffered, told, unregister, dropped, todo>>
  /\ UNCHANGED <<clients, chatMembers, register, broadcast, closed, pumps, closing, overtaken>>

----------------------------------------------------------------------------
Session(c) ==
  \/ Connect(c) \/ StartPumps(c) \/ PeerGone(c) \/ AnswerPing(c)
  \/ ReadPumpExit(c) \/ WriteBatch(c) \/ WritePumpEnd(c)

HubStep ==
  \/ HandleRegister \/ HandleUnregister \/ CloseSend \/ HandleBroadcast
  \/ \E p \in todo : PushOne(p)

Next ==
  \/ \E c \in Clients : Session(c)
  \/ HubStep
  \/ \E e \in Event : Publish(e)
  \/ \E h \in Chats, us \in Lists : UpdateChatMembers(h, us)

Spec == Init /\ [][Next]_vars

(* Every goroutine that can take its next step takes it.  Go's select picks among the ready
   cases at random, so none of the hub's three cases is passed over forever. *)
Fairness ==
  /\ SF_vars(HandleRegister) /\ SF_vars(HandleUnregister)
  /\ WF_vars(CloseSend) /\ WF_vars(\E p \in todo : PushOne(p))
  /\ \A c \in Clients :
       /\ WF_vars(StartPumps(c))
       /\ WF_vars(WriteBatch(c)) /\ WF_vars(WritePumpEnd(c))
       /\ SF_vars(ReadPumpExit(c))

FairSpec == Spec /\ Fairness

----------------------------------------------------------------------------
RegistryTypes ==
  /\ clients \in SUBSET Clients
  /\ chatMembers \in [Chats -> Lists \cup {{}}]
ChannelTypes ==
  /\ register \in Seq(Clients) /\ Len(register) <= RegCap
  /\ unregister \in Seq(Clients) /\ Len(unregister) <= UnregCap
  /\ broadcast \in Seq(Event) /\ Len(broadcast) <= BcastCap
SendTypes ==
  /\ buffered \in [Clients -> 0..SendCap]
  /\ closed \in SUBSET Clients
PumpTypes ==
  /\ conn \in [Clients -> {"none", "open", "gone"}]
  /\ rp \in [Clients -> {"new", "filling", "run", "done"}]
  /\ wp \in [Clients -> {"new", "run", "done"}]
TurnTypes ==
  /\ todo \in SUBSET Push
  /\ closing \in Clients \cup {NoClient}
  /\ fate \in {"up", "stuck", "send on closed", "close of closed"}
HistoryTypes ==
  /\ told \in [Clients -> [Users -> {"none", "on", "off"}]]
  /\ dropped \in SUBSET Clients /\ overtaken \in SUBSET Clients

(* Types of every variable, with the capacities of the channels. *)
TypeOK ==
  RegistryTypes /\ ChannelTypes /\ SendTypes /\ PumpTypes /\ TurnTypes /\ HistoryTypes

(* The process panics only through the two races of the hub with itself: a session it dropped
   for a full Send channel, whose ReadPump unregisters it a second time or still answers pings,
   or a session whose removal overtook its registration (Hub.Run and both pumps together). *)
PanicExplained ==
  /\ fate = "close of closed" => closing \in dropped
  /\ fate = "send on closed" => dropped \cup overtaken # {}

(* Between two turns of the hub, what a session was last told of a user's presence is what
   the registry says, unless a removal overtook a registration (broadcastOnline,
   broadcastOffline, broadcastOnlineStatus against register and unregister). *)
PresenceTold ==
  fate = "up" /\ HubIdle /\ overtaken = {} =>
    \A c \in clients \ dropped, u \in Users :
      /\ told[c][u] = "on" => IsOnline(u)
      /\ told[c][u] = "off" => ~IsOnline(u)

(* When the hub has caught up, its registry holds exactly the sessions whose ReadPump has not
   ended: IsOnline neither keeps a ghost nor misses a live session that it did not drop. *)
RegistryAccurate ==
  fate = "up" /\ HubIdle /\ register = <<>> /\ unregister = <<>> /\ overtaken = {} =>
    \A c \in Clients \ dropped : c \in clients <=> rp[c] \in {"filling", "run"}

(* A session is registered and removed once: the registry is that of the live ones, and a panic
   for a second removal, or a send after one, has only the two causes named. *)
RemovedOnce == PanicExplained /\ RegistryAccurate

(* A session whose socket is gone is retired: its Send channel is closed and its WritePump
   ends, so neither goroutine leaks, unless the hub panicked or blocked on itself. *)
SessionRetired ==
  \A c \in Clients :
    conn[c] = "gone" ~> (c \in closed /\ wp[c] = "done") \/ fate # "up"
============================================================================
