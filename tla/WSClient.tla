------------------------------ MODULE WSClient ------------------------------
(***************************************************************************)
(* The WebSocket link of the desktop client: WSClient with its reconnect,  *)
(* heartbeat and pong timers, the effect of App and the profile step of    *)
(* AuthScreen that connect and disconnect it, the browser's sockets, a     *)
(* network that may cut a socket without telling either end, and the       *)
(* server's end of every socket (handleWebSocket, ReadPump, WritePump).    *)
(*                                                                         *)
(* A socket that both ends have left may be taken for a new one.  What the *)
(* events of the server carry is not modelled, but for the pong.           *)
(***************************************************************************)
EXTENDS Naturals, FiniteSets

CONSTANTS Tokens, NoToken,
          Sockets,  \* bound for TLC: how many sockets either end still holds
          NoSocket

ASSUME WSClientAssumption == NoToken \notin Tokens /\ NoSocket \notin Sockets

VARIABLES
  token,   \* the token of the store, NoToken when signed out
  asking,  \* the token App's effect awaits getMe for, or NoToken
  saving,  \* the token AuthScreen saves a profile with, or NoToken
  named,   \* the tokens whose profile has been saved
  ws, wsToken, timers, status, \* WSClient; timers \subseteq {"reconnect", "heartbeat", "pong"}
  ready,   \* readyState of every socket
  onclose, \* the sockets whose close event WSClient handles
  pings, pongs, \* the sockets with a ping or its pong under way
  peer,    \* the server's end: none before its upgrade, open, or gone
  up,      \* the network passes messages and the server takes the token
  cut,     \* the sockets whose connection broke, though nobody was told
  pinged,  \* history: the socket of the last ping
  overtaken \* history: WSClient was connected with the token of a profile that was saved too late

app == <<token, asking, saving, named, overtaken>>
client == <<ws, wsToken, timers, status, pinged>>
wire == <<ready, onclose, pings, pongs, peer>>
vars == <<app, client, wire, up, cut>>

Init ==
  /\ token \in Tokens \cup {NoToken}
  /\ asking = token
  /\ saving = NoToken /\ named = {}
  /\ ws = NoSocket /\ wsToken = NoToken /\ timers = {} /\ status = "disconnected"
  /\ ready = [s \in Sockets |-> "closed"]
  /\ onclose = {} /\ pings = {} /\ pongs = {}
  /\ peer = [s \in Sockets |-> "none"]
  /\ up \in BOOLEAN /\ cut = {}
  /\ pinged = NoSocket /\ overtaken = FALSE

----------------------------------------------------------------------------
Passes(s) == up /\ s \notin cut

(* close() of a WebSocket; its close event comes later. *)
Closed(s) ==
  [r \in Sockets |-> IF r = s /\ ready[r] \in {"connecting", "open"} THEN "closing" ELSE ready[r]]

(* disconnect closes the socket it has. *)
LeftClosed == Closed(ws)

(* Mutant: the pong timeout is not cleared. *)
TimersButPong == timers \cap {"pong"}

(* What clearTimers leaves. *)
Cleared == {}

(* disconnect sets the onclose of its socket to null. *)
Detached(s) == onclose \ {s}

(* disconnect; the status stays. *)
Disconnect ==
  /\ timers' = Cleared
  /\ ready' = LeftClosed
  /\ onclose' = Detached(ws)
  /\ ws' = NoSocket
  /\ UNCHANGED <<wsToken, status, pinged, pings, pongs, peer, cut>>

(* A socket nobody holds. *)
Free(s) == ready[s] = "closed" /\ peer[s] # "open" /\ s # ws

(* connect; it disconnects first. *)
Connect(t) ==
  \E s \in {r \in Sockets : Free(r)} :
    /\ wsToken' = t
    /\ timers' = Cleared
    /\ ws' = s
    /\ ready' = [LeftClosed EXCEPT ![s] = "connecting"]
    /\ onclose' = Detached(ws) \cup {s}
    /\ pings' = pings \ {s} /\ pongs' = pongs \ {s}
    /\ peer' = [peer EXCEPT ![s] = "none"]
    /\ cut' = cut \ {s}
    /\ UNCHANGED <<status, pinged>>

----------------------------------------------------------------------------
(* AuthScreen gets a token; App's effect awaits getMe. *)
SignIn(t) ==
  /\ token = NoToken
  /\ token' = t /\ asking' = t
  /\ UNCHANGED <<saving, named, overtaken, client, wire, up, cut>>

(* The effect's cleanup: cancelled = true. *)
Cancelled == NoToken

(* logout; the effect's cleanup disconnects. *)
SignOut ==
  /\ token # NoToken
  /\ token' = NoToken
  /\ asking' = Cancelled
  /\ overtaken' = FALSE
  /\ Disconnect
  /\ UNCHANGED <<saving, named, up>>

GetMeAnswered ==
  /\ asking # NoToken
  /\ asking' = NoToken
  /\ overtaken' = FALSE
  /\ Connect(asking)
  /\ UNCHANGED <<token, saving, named, up>>

(* Any error of getMe signs out. *)
GetMeFailed ==
  /\ asking # NoToken
  /\ token' = NoToken /\ asking' = NoToken
  /\ overtaken' = FALSE
  /\ Disconnect
  /\ UNCHANGED <<saving, named, up>>

(* handleProfileSubmit of AuthScreen, once for an account; it connects with the token there was
   when the form was sent. *)
SaveProfile ==
  /\ saving = NoToken
  /\ token \in Tokens \ named
  /\ saving' = token
  /\ UNCHANGED <<token, asking, named, overtaken, client, wire, up, cut>>

ProfileSaved ==
  /\ saving # NoToken
  /\ saving' = NoToken
  /\ named' = named \cup {saving}
  /\ overtaken' = (saving # token)
  /\ Connect(saving)
  /\ UNCHANGED <<token, asking, up>>

ProfileNotSaved ==
  /\ saving # NoToken
  /\ saving' = NoToken
  /\ UNCHANGED <<token, asking, named, overtaken, client, wire, up, cut>>

----------------------------------------------------------------------------
(* handleOpen *)
Opened(s) ==
  /\ ready[s] = "connecting" /\ peer[s] = "open" /\ Passes(s)
  /\ ready' = [ready EXCEPT ![s] = "open"]
  /\ timers' = Cleared \cup {"heartbeat"}
  /\ status' = "connected"
  /\ UNCHANGED <<app, ws, wsToken, pinged, onclose, pings, pongs, peer, up, cut>>

(* handleClose clears the timers and sets one to reconnect. *)
AfterClose == Cleared \cup {"reconnect"}

HandleClose(s) ==
  /\ ready' = [ready EXCEPT ![s] = "closed"]
  /\ timers' = IF s \in onclose THEN AfterClose ELSE timers
  /\ status' = IF s \in onclose THEN "reconnecting" ELSE status
  /\ UNCHANGED <<app, ws, wsToken, pinged, onclose, pings, pongs, peer, up, cut>>

(* The browser ends a socket that it closes, that the server closed, or that does not open. *)
CloseEvent(s) ==
  /\ \/ ready[s] = "closing"
     \/ ready[s] \in {"connecting", "open"} /\ Passes(s) /\ peer[s] = "gone"
     \/ ready[s] = "connecting" /\ ~Passes(s)
  /\ HandleClose(s)

(* It may notice that a connection broke, or not. *)
ErrorEvent(s) ==
  /\ ready[s] = "open" /\ ~Passes(s)
  /\ HandleClose(s)

ReconnectTimer ==
  /\ "reconnect" \in timers
  /\ Connect(wsToken)
  /\ UNCHANGED <<app, up>>

(* Mutant: a ping is sent without a timeout for its pong. *)
AfterPingNothing == timers

AfterPing == timers \cup {"pong"}

(* The interval of startHeartbeat: a ping, and a new timeout. *)
Heartbeat ==
  /\ "heartbeat" \in timers
  /\ ws # NoSocket /\ ready[ws] = "open"
  /\ pings' = pings \cup {ws}
  /\ timers' = AfterPing
  /\ pinged' = ws
  /\ UNCHANGED <<app, ws, wsToken, status, ready, onclose, pongs, peer, up, cut>>

PongTimeout ==
  /\ "pong" \in timers
  /\ timers' = timers \ {"pong"}
  /\ ready' = Closed(ws)
  /\ UNCHANGED <<app, ws, wsToken, status, pinged, onclose, pings, pongs, peer, up, cut>>

(* The case "pong" of dispatchEvent; a socket that is not open delivers nothing. *)
Pong(s) ==
  /\ s \in pongs /\ Passes(s)
  /\ pongs' = pongs \ {s}
  /\ timers' = IF ready[s] = "open" THEN timers \ {"pong"} ELSE timers
  /\ UNCHANGED <<app, ws, wsToken, status, pinged, ready, onclose, pings, peer, up, cut>>

----------------------------------------------------------------------------
SetPeer(s, to) ==
  /\ peer' = [peer EXCEPT ![s] = to]
  /\ UNCHANGED <<app, client, ready, onclose, pings, pongs, up, cut>>

(* handleWebSocket *)
Upgrade(s) ==
  /\ ready[s] \in {"connecting", "closing"} /\ peer[s] = "none" /\ Passes(s)
  /\ SetPeer(s, "open")

(* handleWSMessage; a full Send drops the pong. *)
Ping(s) ==
  /\ s \in pings /\ Passes(s)
  /\ pings' = pings \ {s}
  /\ \/ peer[s] = "open" /\ pongs' = pongs \cup {s}
     \/ UNCHANGED pongs
  /\ UNCHANGED <<app, client, ready, onclose, peer, up, cut>>

(* Mutant: the server waits for a client that is gone. *)
DeadlineNever(s) == FALSE

(* pongWait passes without a pong. *)
Deadline(s) == ~Passes(s)

(* ReadPump ends. *)
ReadFails(s) ==
  /\ peer[s] = "open"
  /\ \/ Deadline(s)
     \/ Passes(s) /\ ready[s] \in {"closing", "closed"}
  /\ SetPeer(s, "gone")

(* WritePump ends: the hub dropped the session, or the server restarts. *)
WriteEnds(s) == peer[s] = "open" /\ SetPeer(s, "gone")

----------------------------------------------------------------------------
Fail == up /\ up' = FALSE /\ UNCHANGED <<app, client, wire, cut>>
Recover == ~up /\ up' = TRUE /\ UNCHANGED <<app, client, wire, cut>>

Cut(s) ==
  /\ ~up
  /\ ready[s] # "closed" \/ peer[s] = "open"
  /\ cut' = cut \cup {s}
  /\ UNCHANGED <<app, client, wire, up>>

App ==
  \/ \E t \in Tokens : SignIn(t)
  \/ SignOut \/ GetMeAnswered \/ GetMeFailed
  \/ SaveProfile \/ ProfileSaved \/ ProfileNotSaved

Socket(s) ==
  \/ Opened(s) \/ CloseEvent(s) \/ ErrorEvent(s) \/ Pong(s)
  \/ Upgrade(s) \/ Ping(s) \/ ReadFails(s) \/ WriteEnds(s) \/ Cut(s)

Next ==
  \/ App
  \/ ReconnectTimer \/ Heartbeat \/ PongTimeout
  \/ \E s \in Sockets : Socket(s)
  \/ Fail \/ Recover

Spec == Init /\ [][Next]_vars

(* The timers fire, an answer to getMe comes or fails, the browser ends the sockets it closes or
   cannot open, and the server its own; the server does not end every session before its client
   saw it open.  Nothing says that the network recovers or that a pong arrives. *)
Fairness ==
  /\ WF_vars(GetMeAnswered \/ GetMeFailed)
  /\ WF_vars(ReconnectTimer) /\ WF_vars(Heartbeat) /\ WF_vars(PongTimeout)
  /\ \A s \in Sockets :
       /\ SF_vars(Opened(s)) /\ WF_vars(CloseEvent(s))
       /\ WF_vars(Upgrade(s)) /\ WF_vars(ReadFails(s))

FairSpec == Spec /\ Fairness

----------------------------------------------------------------------------
TypeOK ==
  /\ token \in Tokens \cup {NoToken}
  /\ asking \in {token, NoToken}
  /\ saving \in Tokens \cup {NoToken}
  /\ named \subseteq Tokens
  /\ ws \in Sockets \cup {NoSocket}
  /\ wsToken \in Tokens \cup {NoToken}
  /\ timers \subseteq {"reconnect", "heartbeat", "pong"}
  /\ status \in {"disconnected", "connected", "reconnecting"}
  /\ ready \in [Sockets -> {"connecting", "open", "closing", "closed"}]
  /\ peer \in [Sockets -> {"none", "open", "gone"}]
  /\ onclose \subseteq Sockets /\ pings \subseteq Sockets
  /\ pongs \subseteq Sockets /\ cut \subseteq Sockets
  /\ up \in BOOLEAN /\ overtaken \in BOOLEAN
  /\ pinged \in Sockets \cup {NoSocket}

(* However sign-ins, saved profiles and reconnects overlap, the client has one socket: every
   other one is closed or closing, so that no session of the server outlives it for long and no
   event comes twice. *)
OneSocket ==
  \A s \in Sockets : ready[s] \in {"connecting", "open"} => s = ws

(* The reconnect timer never tears down a connection that lives or is being made: it is only set
   while the socket WSClient holds has closed. *)
ReconnectsAfterClose ==
  "reconnect" \in timers => ws # NoSocket /\ ready[ws] = "closed"

(* The timeout for a pong only ever closes the socket its ping went out on. *)
TimeoutIsOwn ==
  "pong" \in timers => pinged = ws

(* The socket is of the account that is signed in, and there is none for nobody: the answers to
   getMe that come after a sign-out are ignored.  Only a profile saved too late connects with a
   token that is no longer the store's. *)
SocketIsMine ==
  ws # NoSocket /\ ~overtaken => wsToken = token

(* One live socket, of the account that is signed in, and timers that only act on it (connect,
   disconnect, onclose, scheduleReconnect, schedulePongTimeout). *)
SocketOwned == OneSocket /\ ReconnectsAfterClose /\ TimeoutIsOwn /\ SocketIsMine

(* While somebody stays signed in and the network has come back for good, the client is
   connected again and again, whatever was cut, dropped or timed out before and after. *)
Reconnects ==
  <>[](up /\ token # NoToken) => []<>(ws # NoSocket /\ ready[ws] = "open" /\ Passes(ws))

(* A session of the server whose client left it ends, told or not (pongWait). *)
OrphansEnd ==
  \A s \in Sockets : s # ws /\ peer[s] = "open" ~> peer[s] # "open"

(* The indicator of the connection is green only when it is ok: not without any socket. *)
GreenIsOk ==
  token # NoToken /\ status = "connected" => ws # NoSocket
=============================================================================
