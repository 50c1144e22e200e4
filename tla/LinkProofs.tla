----------------------------- MODULE LinkProofs -----------------------------
(***************************************************************************)
(* What WSClient says of the client's link, for every set of tokens and    *)
(* sockets, Presence of what a chat shows of its peer, and Timeline of the *)
(* messages it shows, for every number of chats, messages and requests.    *)
(***************************************************************************)
EXTENDS Link, SequenceTheorems, FiniteSetTheorems, TLAPS

(* The invariants need two more facts to be inductive: WSClient listens to no socket but its
   own, and its socket has an account's token. *)
ListensToOwn == onclose \subseteq {ws}
TokenOfSocket == ws # NoSocket => wsToken \in Tokens

IInv ==
  /\ TypeOK
  /\ OneSocket
  /\ ReconnectsAfterClose
  /\ TimeoutIsOwn
  /\ SocketIsMine
  /\ ListensToOwn
  /\ TokenOfSocket

(* close() ends nothing but the socket it is called on, and that one surely. *)
LEMMA ClosedOnlyOwn ==
  ASSUME TypeOK, NEW s \in Sockets \cup {NoSocket}
  PROVE  /\ Closed(s) \in [Sockets -> {"connecting", "open", "closing", "closed"}]
         /\ \A r \in Sockets : r # s => Closed(s)[r] = ready[r]
         /\ \A r \in Sockets : r = s => Closed(s)[r] \in {"closing", "closed"}
         /\ \A r \in Sockets : ready[r] = "closed" => Closed(s)[r] = "closed"
BY DEF Closed, TypeOK

LEMMA InitHolds == ASSUME Init PROVE IInv
BY WSClientAssumption
   DEF Init, IInv, TypeOK, OneSocket, ReconnectsAfterClose, TimeoutIsOwn, SocketIsMine,
       ListensToOwn, TokenOfSocket

(* What disconnect leaves satisfies all but SocketIsMine, whatever becomes of the token. *)
LEMMA DisconnectLeaves ==
  ASSUME IInv, Disconnect
  PROVE  /\ ws' = NoSocket /\ timers' = {} /\ onclose' = {}
         /\ ready' \in [Sockets -> {"connecting", "open", "closing", "closed"}]
         /\ \A s \in Sockets : ready'[s] \in {"closing", "closed"}
<1>. USE DEF IInv, Disconnect, OneSocket, ListensToOwn, LeftClosed, Cleared, Detached
<1>1. ws \in Sockets \cup {NoSocket} BY DEF TypeOK
<1>2. ready' \in [Sockets -> {"connecting", "open", "closing", "closed"}]
  BY <1>1, ClosedOnlyOwn
<1>3. \A s \in Sockets : ready'[s] \in {"closing", "closed"}
  <2>1. TAKE s \in Sockets
  <2>2. CASE s = ws BY <2>2, <1>1, ClosedOnlyOwn
  <2>3. CASE s # ws
    <3>1. ready'[s] = ready[s] BY <2>3, <1>1, ClosedOnlyOwn
    <3>2. ready[s] \in {"closing", "closed"} BY <2>3 DEF TypeOK
    <3>3. QED BY <3>1, <3>2
  <2>4. QED BY <2>2, <2>3
<1>4. QED BY <1>2, <1>3

(* connect leaves one socket, that it listens to, with the token it was given. *)
LEMMA ConnectLeaves ==
  ASSUME IInv, NEW t \in Tokens, Connect(t)
  PROVE  /\ ws' \in Sockets /\ wsToken' = t /\ timers' = {} /\ onclose' = {ws'}
         /\ ready' \in [Sockets -> {"connecting", "open", "closing", "closed"}]
         /\ \A s \in Sockets : ready'[s] \in {"connecting", "open"} => s = ws'
         /\ pings' \subseteq Sockets /\ pongs' \subseteq Sockets /\ cut' \subseteq Sockets
         /\ peer' \in [Sockets -> {"none", "open", "gone"}]
         /\ UNCHANGED <<status, pinged>>
<1>1. PICK s \in {r \in Sockets : Free(r)} :
        /\ ws' = s /\ wsToken' = t /\ timers' = {}
        /\ ready' = [Closed(ws) EXCEPT ![s] = "connecting"]
        /\ onclose' = (onclose \ {ws}) \cup {s}
        /\ pings' = pings \ {s} /\ pongs' = pongs \ {s}
        /\ peer' = [peer EXCEPT ![s] = "none"] /\ cut' = cut \ {s}
        /\ UNCHANGED <<status, pinged>>
  BY DEF Connect, LeftClosed, Cleared, Detached
<1>2. ws \in Sockets \cup {NoSocket} BY DEF IInv, TypeOK
<1>3. Closed(ws) \in [Sockets -> {"connecting", "open", "closing", "closed"}]
  BY <1>2, ClosedOnlyOwn DEF IInv
<1>4. ready' \in [Sockets -> {"connecting", "open", "closing", "closed"}] BY <1>1, <1>3
<1>5. \A r \in Sockets : ready'[r] \in {"connecting", "open"} => r = ws'
  <2>1. SUFFICES ASSUME NEW r \in Sockets, r # s PROVE ready'[r] \in {"closing", "closed"}
    BY <1>1
  <2>2. ready'[r] = Closed(ws)[r] BY <1>1, <1>3, <2>1
  <2>3. CASE r = ws BY <2>2, <2>3, <1>2, ClosedOnlyOwn DEF IInv
  <2>4. CASE r # ws
    <3>1. Closed(ws)[r] = ready[r] BY <2>4, <1>2, ClosedOnlyOwn DEF IInv
    <3>2. ready[r] \in {"closing", "closed"} BY <2>4 DEF IInv, TypeOK, OneSocket
    <3>3. QED BY <2>2, <3>1, <3>2
  <2>5. QED BY <2>3, <2>4
<1>6. onclose' = {ws'} BY <1>1 DEF IInv, ListensToOwn
<1>7. QED BY <1>1, <1>4, <1>5, <1>6 DEF IInv, TypeOK

LEMMA AppKeeps == ASSUME IInv, App PROVE IInv'
<1>. USE WSClientAssumption
     DEF OneSocket, ReconnectsAfterClose, TimeoutIsOwn, SocketIsMine, ListensToOwn, TokenOfSocket
<1>1. ASSUME NEW t \in Tokens, SignIn(t) PROVE IInv'
  BY <1>1 DEF IInv, SignIn, TypeOK, client, wire
<1>2. CASE SignOut
  BY <1>2, DisconnectLeaves DEF IInv, SignOut, Cancelled, Disconnect, TypeOK
<1>3. CASE GetMeAnswered
  <2>1. asking = token /\ asking \in Tokens BY <1>3 DEF IInv, GetMeAnswered, TypeOK
  <2>2. Connect(asking) BY <1>3 DEF GetMeAnswered
  <2>3. QED BY <1>3, <2>1, <2>2, ConnectLeaves DEF IInv, GetMeAnswered, TypeOK
<1>4. CASE GetMeFailed
  BY <1>4, DisconnectLeaves DEF IInv, GetMeFailed, Disconnect, TypeOK
<1>5. CASE SaveProfile
  BY <1>5 DEF IInv, SaveProfile, TypeOK, client, wire
<1>6. CASE ProfileSaved
  <2>1. saving \in Tokens BY <1>6 DEF IInv, ProfileSaved, TypeOK
  <2>2. Connect(saving) BY <1>6 DEF ProfileSaved
  <2>3. QED BY <1>6, <2>1, <2>2, ConnectLeaves DEF IInv, ProfileSaved, TypeOK
<1>7. CASE ProfileNotSaved
  BY <1>7 DEF IInv, ProfileNotSaved, TypeOK, client, wire
<1>8. QED BY <1>1, <1>2, <1>3, <1>4, <1>5, <1>6, <1>7 DEF App

LEMMA TimersKeep == ASSUME IInv, ReconnectTimer \/ Heartbeat \/ PongTimeout PROVE IInv'
<1>. USE WSClientAssumption
     DEF OneSocket, ReconnectsAfterClose, TimeoutIsOwn, SocketIsMine, ListensToOwn, TokenOfSocket
<1>1. CASE ReconnectTimer
  <2>1. ws # NoSocket /\ wsToken \in Tokens BY <1>1 DEF IInv, ReconnectTimer
  <2>2. Connect(wsToken) BY <1>1 DEF ReconnectTimer
  <2>3. QED BY <1>1, <2>1, <2>2, ConnectLeaves DEF IInv, ReconnectTimer, app, TypeOK
<1>2. CASE Heartbeat
  BY <1>2 DEF IInv, Heartbeat, AfterPing, app, TypeOK
<1>3. CASE PongTimeout
  <2>1. ws \in Sockets \cup {NoSocket} BY DEF IInv, TypeOK
  <2>2. ready' = Closed(ws) /\ timers' = timers \ {"pong"} BY <1>3 DEF PongTimeout
  <2>3. /\ ready' \in [Sockets -> {"connecting", "open", "closing", "closed"}]
        /\ \A r \in Sockets : r # ws => ready'[r] = ready[r]
        /\ \A r \in Sockets : ready[r] = "closed" => ready'[r] = "closed"
    BY <2>1, <2>2, ClosedOnlyOwn DEF IInv
  <2>4. TypeOK' BY <1>3, <2>3 DEF IInv, PongTimeout, app, TypeOK
  <2>5. OneSocket' BY <1>3, <2>3 DEF IInv, PongTimeout
  <2>6. ReconnectsAfterClose' BY <1>3, <2>1, <2>3 DEF IInv, PongTimeout
  <2>7. QED BY <1>3, <2>4, <2>5, <2>6 DEF IInv, PongTimeout, app
<1>4. QED BY <1>1, <1>2, <1>3

LEMMA SocketsKeep == ASSUME IInv, NEW s \in Sockets, Socket(s) PROVE IInv'
<1>. USE WSClientAssumption
     DEF OneSocket, ReconnectsAfterClose, TimeoutIsOwn, SocketIsMine, ListensToOwn, TokenOfSocket
<1>1. CASE Opened(s)
  BY <1>1 DEF IInv, Opened, Cleared, app, TypeOK
<1>2. CASE HandleClose(s)
  <2>1. s \in onclose => s = ws BY DEF IInv
  <2>2. /\ ready' \in [Sockets -> {"connecting", "open", "closing", "closed"}]
        /\ \A r \in Sockets : r # s => ready'[r] = ready[r]
        /\ ready'[s] = "closed"
    BY <1>2 DEF IInv, HandleClose, TypeOK
  <2>3. timers' = timers \/ (timers' = {"reconnect"} /\ s = ws)
    <3>1. CASE s \in onclose
      <4>1. timers' = Cleared \cup {"reconnect"} BY <1>2, <3>1 DEF HandleClose, AfterClose
      <4>2. QED BY <4>1, <2>1, <3>1 DEF Cleared
    <3>2. CASE s \notin onclose BY <1>2, <3>2 DEF HandleClose
    <3>3. QED BY <3>1, <3>2
  <2>4. status' \in {"disconnected", "connected", "reconnecting"}
    BY <1>2 DEF IInv, HandleClose, TypeOK
  <2>5. UNCHANGED <<app, ws, wsToken, pinged, onclose, pings, pongs, peer, up, cut>>
    BY <1>2 DEF HandleClose
  <2>6. TypeOK' BY <2>2, <2>3, <2>4, <2>5 DEF IInv, app, TypeOK
  <2>7. OneSocket'
    <3>1. SUFFICES ASSUME NEW r \in Sockets, ready'[r] \in {"connecting", "open"} PROVE r = ws'
      OBVIOUS
    <3>2. r # s BY <3>1, <2>2
    <3>3. ready[r] \in {"connecting", "open"} BY <3>1, <3>2, <2>2
    <3>4. QED BY <3>3, <2>5 DEF IInv
  <2>8. ReconnectsAfterClose'
    <3>1. CASE ws = s BY <3>1, <2>2, <2>5, WSClientAssumption
    <3>2. CASE ws # s
      <4>1. timers' = timers BY <2>3, <3>2
      <4>2. ws \in Sockets => ready'[ws] = ready[ws] BY <3>2, <2>2
      <4>3. QED BY <4>1, <4>2, <2>5 DEF IInv, TypeOK
    <3>3. QED BY <3>1, <3>2
  <2>9. QED BY <2>3, <2>5, <2>6, <2>7, <2>8 DEF IInv, app
<1>3. CASE Pong(s)
  BY <1>3 DEF IInv, Pong, app, TypeOK
<1>4. CASE Ping(s)
  BY <1>4 DEF IInv, Ping, app, client, TypeOK
<1>5. ASSUME NEW to \in {"open", "gone"}, SetPeer(s, to) PROVE IInv'
  BY <1>5 DEF IInv, SetPeer, app, client, TypeOK
<1>6. CASE Cut(s)
  BY <1>6 DEF IInv, Cut, app, client, wire, TypeOK
<1>7. QED
  BY <1>1, <1>2, <1>3, <1>4, <1>5, <1>6
  DEF Socket, CloseEvent, ErrorEvent, Upgrade, ReadFails, WriteEnds

LEMMA StepKeeps == ASSUME IInv, [Next]_vars PROVE IInv'
<1>1. CASE Fail \/ Recover
  BY <1>1 DEF IInv, Fail, Recover, app, client, wire, TypeOK, OneSocket, ReconnectsAfterClose,
              TimeoutIsOwn, SocketIsMine, ListensToOwn, TokenOfSocket
<1>2. CASE UNCHANGED vars
  BY <1>2 DEF IInv, vars, app, client, wire, TypeOK, OneSocket, ReconnectsAfterClose,
              TimeoutIsOwn, SocketIsMine, ListensToOwn, TokenOfSocket
<1>3. QED BY <1>1, <1>2, AppKeeps, TimersKeep, SocketsKeep DEF Next

(* The strengthened invariant holds throughout. *)
THEOREM LinkInvariant == Spec => []IInv
<1>1. Init => IInv BY InitHolds
<1>2. IInv /\ [Next]_vars => IInv' BY StepKeeps
<1>3. QED BY <1>1, <1>2, PTL DEF Spec

(* The state of the link keeps its types. *)
THEOREM LinkTypes == Spec => []TypeOK
<1>1. IInv => TypeOK BY DEF IInv
<1>2. QED BY <1>1, LinkInvariant, PTL

(* However sign-ins, saved profiles and reconnects overlap, at most one socket of the client is
   open or opening. *)
THEOREM OnlyOneSocket == Spec => []OneSocket
<1>1. IInv => OneSocket BY DEF IInv
<1>2. QED BY <1>1, LinkInvariant, PTL

(* The reconnect timer is only ever set while the client's socket has closed. *)
THEOREM ReconnectIsSafe == Spec => []ReconnectsAfterClose
<1>1. IInv => ReconnectsAfterClose BY DEF IInv
<1>2. QED BY <1>1, LinkInvariant, PTL

(* The pong timeout closes no socket but the one that was pinged. *)
THEOREM PongTimeoutIsOwn == Spec => []TimeoutIsOwn
<1>1. IInv => TimeoutIsOwn BY DEF IInv
<1>2. QED BY <1>1, LinkInvariant, PTL

(* The socket is of the account that is signed in, unless a profile was saved too late. *)
THEOREM SocketHasToken == Spec => []SocketIsMine
<1>1. IInv => SocketIsMine BY DEF IInv
<1>2. QED BY <1>1, LinkInvariant, PTL

(* One live socket, of the account signed in, and timers that only act on it. *)
THEOREM SocketIsOwned == Spec => []SocketOwned
<1>1. OneSocket /\ ReconnectsAfterClose /\ TimeoutIsOwn /\ SocketIsMine => SocketOwned
  BY DEF SocketOwned
<1> QED BY <1>1, OnlyOneSocket, ReconnectIsSafe, PongTimeoutIsOwn, SocketHasToken, PTL

-----------------------------------------------------------------------------
(* The presence of the peer: what is on the wire ends with what the hub knows, each event in   *)
(* its two forms; and what is not noted as old is what it says, or what will still come.       *)
WireEvents == [t : {"line", "status"}, up : BOOLEAN]
Line(x) == [t |-> "line", up |-> x]
Status(x) == [t |-> "status", up |-> x]
Paired(w, x) ==
  /\ w # <<>> => w[Len(w)] = Status(x)
  /\ \A i \in 2..Len(w) : w[i].t = "status" => w[i - 1] = Line(w[i].up)
WireTypes ==
  /\ presenceWire \in Seq(WireEvents) /\ Paired(presenceWire, presencePeer)
  /\ presenceWire # <<>> => link
Snaps == [got : {<<>>, <<TRUE>>, <<FALSE>>}, stale : BOOLEAN]
SnapsCurrent ==
  /\ snaps \subseteq Snaps
  /\ \A s \in snaps : s.got # <<>> /\ ~s.stale => s.got = <<presencePeer>>
PresenceTypes ==
  /\ O!TypeOK /\ used \in [DOMAIN O!Bounds -> Nat] /\ listTimers <= used["typed"]
  /\ used["typed"] <= MaxTyped /\ (loads # {} => "chat" \in mounted)
DotCurrent ==
  "list" \notin odd /\ presenceWire = <<>> =>
    /\ listed => presencePeer
    /\ presencePeer /\ ~listed => snaps # {}
HeaderCurrent ==
  "header" \notin odd /\ whose = "theirs" /\ header = TRUE /\ ~presencePeer =>
    \E i \in DOMAIN presenceWire : presenceWire[i] = Line(FALSE)
(* A load that is alone has the header to itself, step by step. *)
Agrees == head = None \/ header = None \/ whose = head
LoadsKept ==
  "mixed" \notin odd =>
    /\ \A l, m \in loads : l = m
    /\ loads = {} => Agrees
    /\ \A l \in loads : /\ l[2] # "asked" => head \in {l[1], None}
                        /\ l[2] = "peered" => header = None \/ whose = l[1]
PresenceInv == PresenceTypes /\ WireTypes /\ SnapsCurrent /\ DotCurrent /\ HeaderCurrent /\ LoadsKept

LEMMA PresenceNumbers == None \notin BOOLEAN /\ MaxTyped \in Nat
BY PresenceAssumption DEF O!PresenceConstants

LEMMA Counted == DOMAIN O!Bounds = {"flips", "cuts", "typed", "mounts", "opens"}
BY DEF O!Bounds

LEMMA PresenceInit == ASSUME O!Init PROVE PresenceInv
<1>1. O!TypeOK /\ used["typed"] = 0 /\ used \in [DOMAIN O!Bounds -> Nat]
  <2>1. used = [x \in DOMAIN O!Bounds |-> 0] BY DEF O!Init
  <2>2. used["typed"] = 0 /\ used \in [DOMAIN O!Bounds -> Nat] BY <2>1, Counted
  <2>3. O!TypeOK
    <3>1. listTimers \in 0..MaxTyped /\ odd = {} BY PresenceNumbers DEF O!Init
    <3>2. {presencePeer, link, listed, presenceTimer, listTyping} \subseteq BOOLEAN BY DEF O!Init
    <3>3. header \in BOOLEAN \cup {None} /\ {presenceChat, head, whose, ref, typing} \subseteq O!ChatKinds \cup {None}
          /\ owner = "chat" /\ mounted = {"list", "chat"} /\ loads = {}
      BY DEF O!Init
    <3>4. QED BY <3>1, <3>2, <3>3 DEF O!TypeOK
  <2>4. QED BY <2>2, <2>3
<1>2. PresenceTypes BY <1>1, PresenceNumbers DEF O!Init, PresenceTypes
<1>3. WireTypes BY DEF O!Init, WireTypes, Paired
<1>4. SnapsCurrent
  <2>1. [got |-> <<>>, stale |-> FALSE] \in Snaps BY DEF Snaps
  <2>2. snaps = {[got |-> <<>>, stale |-> FALSE]} BY DEF O!Init
  <2>3. QED BY <2>1, <2>2 DEF SnapsCurrent
<1>5. DotCurrent /\ HeaderCurrent BY PresenceNumbers DEF O!Init, DotCurrent, HeaderCurrent
<1>7. LoadsKept BY DEF O!Init, LoadsKept, Agrees
<1>6. QED BY <1>2, <1>3, <1>4, <1>5, <1>7 DEF PresenceInv

(* The first event of the wire is taken off. *)
LEMMA WireTail ==
  ASSUME WireTypes, presenceWire # <<>>
  PROVE  /\ Head(presenceWire) \in WireEvents /\ Tail(presenceWire) \in Seq(WireEvents)
         /\ Paired(Tail(presenceWire), presencePeer)
         /\ Head(presenceWire).t = "status" /\ Tail(presenceWire) = <<>>
              => Head(presenceWire).up = presencePeer
         /\ Head(presenceWire).t = "line" => Tail(presenceWire) # <<>>
         /\ \A i \in DOMAIN presenceWire :
              presenceWire[i] = Head(presenceWire)
              \/ \E j \in DOMAIN Tail(presenceWire) : Tail(presenceWire)[j] = presenceWire[i]
<1> DEFINE w == presenceWire
           r == Tail(w)
<1>1. /\ Head(w) \in WireEvents /\ r \in Seq(WireEvents) /\ Len(r) = Len(w) - 1
      /\ \A i \in 1..Len(r) : r[i] = w[i + 1]
  BY HeadTailProperties DEF WireTypes
<1>2. Len(w) \in Nat \ {0} /\ Head(w) = w[1] /\ DOMAIN w = 1..Len(w) /\ DOMAIN r = 1..Len(r)
      /\ Len(r) \in Nat
  BY <1>1, EmptySeq, LenProperties DEF WireTypes
<1>3. r = <<>> <=> Len(r) = 0 BY <1>1, EmptySeq
<1>4. w[Len(w)] = Status(presencePeer)
      /\ \A i \in 2..Len(w) : w[i].t = "status" => w[i - 1] = Line(w[i].up)
  BY DEF WireTypes, Paired
<1> HIDE DEF r, w
<1>5. Paired(r, presencePeer)
  <2>1. r # <<>> => r[Len(r)] = Status(presencePeer) BY <1>1, <1>2, <1>3, <1>4
  <2>2. ASSUME NEW i \in 2..Len(r), r[i].t = "status" PROVE r[i - 1] = Line(r[i].up)
    <3>1. i \in 1..Len(r) /\ i - 1 \in 1..Len(r) /\ i + 1 \in 2..Len(w) /\ i \in Nat
      BY <1>1, <1>2
    <3>2. r[i] = w[i + 1] /\ r[i - 1] = w[i] BY <1>1, <3>1
    <3>3. w[(i + 1) - 1] = Line(w[i + 1].up) BY <1>4, <2>2, <3>1, <3>2
    <3>4. QED BY <3>1, <3>2, <3>3
  <2>3. QED BY <2>1, <2>2 DEF Paired
<1>6. r = <<>> => Head(w) = Status(presencePeer) BY <1>1, <1>2, <1>3, <1>4
<1>7. \A i \in DOMAIN w : w[i] = Head(w) \/ \E j \in DOMAIN r : r[j] = w[i]
  <2>1. ASSUME NEW i \in 2..Len(w) PROVE \E j \in DOMAIN r : r[j] = w[i]
    <3>1. i - 1 \in DOMAIN r /\ r[i - 1] = w[i] BY <1>1, <1>2, <2>1
    <3>2. QED BY <3>1
  <2>2. QED BY <1>2, <2>1
<1>8. QED BY <1>1, <1>5, <1>6, <1>7 DEF r, w, Status

(* After "online" of somebody who is not, "offline" follows. *)
LEMMA LineFollows ==
  ASSUME WireTypes, presenceWire # <<>>, Head(presenceWire) = Line(TRUE), presencePeer = FALSE
  PROVE  \E i \in DOMAIN Tail(presenceWire) : Tail(presenceWire)[i] = Line(FALSE)
<1> DEFINE w == presenceWire
           r == Tail(w)
           n == Len(w)
<1>1. /\ r \in Seq(WireEvents) /\ Len(r) = n - 1
      /\ \A i \in 1..Len(r) : r[i] = w[i + 1]
  BY HeadTailProperties DEF WireTypes
<1>2. n \in Nat \ {0} /\ w[1] = Line(TRUE) /\ DOMAIN r = 1..Len(r)
  <2>1. n \in Nat \ {0} BY EmptySeq DEF WireTypes
  <2>2. Head(w) = w[1] BY <2>1, LenProperties DEF WireTypes
  <2>3. DOMAIN r = 1..Len(r) BY <1>1, LenProperties
  <2>4. QED BY <2>1, <2>2, <2>3
<1>3. w[n] = Status(FALSE)
      /\ \A i \in 2..n : w[i].t = "status" => w[i - 1] = Line(w[i].up)
  BY DEF WireTypes, Paired
<1> HIDE DEF w, r, n
<1>4. n # 1 BY <1>2, <1>3 DEF Line, Status
<1>5. w[n - 1] = Line(FALSE)
  <2>1. n \in 2..n BY <1>2, <1>4
  <2>2. w[n].t = "status" /\ w[n].up = FALSE BY <1>3 DEF Status
  <2>3. QED BY <1>3, <2>1, <2>2
<1>6. n - 1 # 1 BY <1>2, <1>5 DEF Line
<1>7. n - 2 \in 1..Len(r) /\ (n - 2) + 1 = n - 1 BY <1>1, <1>2, <1>4, <1>6
<1>8. r[n - 2] = Line(FALSE) BY <1>1, <1>5, <1>7
<1>9. QED BY <1>2, <1>7, <1>8 DEF r, w

(* What leaves the loads and the header as they are leaves LoadsKept, and so does one more load. *)
LEMMA LoadsSame ==
  ASSUME LoadsKept, UNCHANGED <<loads, head, header, whose>>, "mixed" \in odd' <=> "mixed" \in odd
  PROVE  LoadsKept'
BY DEF LoadsKept, Agrees

LEMMA LoadsMore ==
  ASSUME LoadsKept, NEW c, O!Load(c), UNCHANGED <<head, header, whose>>
  PROVE  LoadsKept' /\ ("list" \in odd' <=> "list" \in odd) /\ ("header" \in odd' <=> "header" \in odd)
<1>1. CASE loads = {}
  <2>1. loads' = {<<c, "asked">>} /\ <<c, "asked">>[2] = "asked" BY <1>1 DEF O!Load
  <2>2. QED BY <1>1, <2>1 DEF O!Load, LoadsKept
<1>2. CASE loads # {} BY <1>2 DEF O!Load, LoadsKept
<1>3. QED BY <1>1, <1>2

(* The hub's two events of a change. *)
LEMMA WireTold ==
  ASSUME WireTypes, presencePeer \in BOOLEAN, NEW x \in BOOLEAN
  PROVE  /\ presenceWire \o O!Told(x) \in Seq(WireEvents)
         /\ presenceWire \o O!Told(x) # <<>> /\ Paired(presenceWire \o O!Told(x), x)
         /\ \E i \in DOMAIN (presenceWire \o O!Told(x)) :
              (presenceWire \o O!Told(x))[i] = Line(x)
<1> DEFINE w == presenceWire
           two == O!Told(x)
           r == w \o two
<1>1. two \in Seq(WireEvents) /\ Len(two) = 2 /\ two[1] = Line(x) /\ two[2] = Status(x)
  BY DEF O!Told, WireEvents, Line, Status
<1>2. w \in Seq(WireEvents) /\ Len(w) \in Nat
      /\ (\A i \in 2..Len(w) : w[i].t = "status" => w[i - 1] = Line(w[i].up))
  BY LenProperties DEF WireTypes, Paired
<1> HIDE DEF two, w
<1>3. /\ r \in Seq(WireEvents) /\ Len(r) = Len(w) + 2
      /\ \A i \in 1..(Len(w) + 2) : r[i] = IF i <= Len(w) THEN w[i] ELSE two[i - Len(w)]
  <2>1. /\ r \in Seq(WireEvents) /\ Len(r) = Len(w) + Len(two)
        /\ \A i \in 1..(Len(w) + Len(two)) : r[i] = IF i <= Len(w) THEN w[i] ELSE two[i - Len(w)]
    BY <1>1, <1>2, ConcatProperties
  <2>2. QED BY <1>1, <2>1
<1> HIDE DEF r
<1>4. r[Len(w) + 1] = Line(x) /\ r[Len(w) + 2] = Status(x) /\ DOMAIN r = 1..Len(r)
  <2>1. (Len(w) + 1) - Len(w) = 1 /\ (Len(w) + 2) - Len(w) = 2 BY <1>2
  <2>2. r[Len(w) + 1] = two[1] /\ r[Len(w) + 2] = two[2] BY <1>2, <1>3, <2>1
  <2>3. QED BY <1>1, <1>3, <2>2, LenProperties
<1>5. ASSUME NEW i \in 2..Len(r), r[i].t = "status" PROVE r[i - 1] = Line(r[i].up)
  <2>1. CASE i <= Len(w)
    <3>1. r[i] = w[i] /\ r[i - 1] = w[i - 1] /\ i \in 2..Len(w) BY <1>2, <1>3, <2>1
    <3>2. QED BY <1>2, <1>5, <3>1
  <2>2. CASE i = Len(w) + 1 BY <1>4, <1>5, <2>2 DEF Line
  <2>3. CASE i = Len(w) + 2
    <3>1. i - 1 = Len(w) + 1 BY <1>2, <2>3
    <3>2. QED BY <1>4, <2>3, <3>1 DEF Status
  <2>4. QED BY <1>2, <1>3, <2>1, <2>2, <2>3
<1>6. r # <<>> /\ Paired(r, x) /\ \E i \in DOMAIN r : r[i] = Line(x)
  <2>1. Len(w) + 1 \in DOMAIN r BY <1>2, <1>3, <1>4
  <2>2. r # <<>> BY <1>2, <1>3, EmptySeq
  <2>3. QED BY <1>3, <1>4, <1>5, <2>1, <2>2 DEF Paired
<1>7. QED BY <1>3, <1>6 DEF r, w, two

LEMMA FlipStep == ASSUME PresenceInv, O!Flip PROVE PresenceInv'
<1>1. presencePeer \in BOOLEAN /\ presencePeer' \in BOOLEAN /\ presencePeer' # presencePeer
      /\ link \in BOOLEAN
  BY DEF PresenceInv, PresenceTypes, O!TypeOK, O!Flip
<1>2. used' = [used EXCEPT !["flips"] = @ + 1] BY DEF O!Flip, O!Once
<1>3. PresenceTypes'
  <2>1. used' \in [DOMAIN O!Bounds -> Nat] /\ used'["typed"] = used["typed"]
    BY <1>2, Counted DEF PresenceInv, PresenceTypes
  <2>2. O!TypeOK' BY <1>1 DEF PresenceInv, PresenceTypes, O!TypeOK, O!Flip, O!views, O!marks
  <2>3. QED BY <2>1, <2>2 DEF PresenceInv, PresenceTypes, O!Flip, O!views, O!marks
<1>4. SnapsCurrent'
  <2>1. ASSUME NEW s \in Snaps
        PROVE  /\ [s EXCEPT !.stale = TRUE] \in Snaps /\ [s EXCEPT !.stale = TRUE].stale
    BY <2>1 DEF Snaps
  <2>2. QED BY <2>1 DEF O!Flip, O!Stale, PresenceInv, SnapsCurrent
<1>5. snaps = {} => snaps' = {} BY DEF O!Flip, O!Stale
<1>9. LoadsKept' BY LoadsSame DEF PresenceInv, O!Flip, O!views
<1>6. CASE link
  <2>1. presenceWire' = presenceWire \o O!Told(presencePeer') BY <1>6 DEF O!Flip
  <2>2. /\ presenceWire' \in Seq(WireEvents) /\ presenceWire' # <<>>
        /\ Paired(presenceWire', presencePeer')
        /\ \E i \in DOMAIN presenceWire' : presenceWire'[i] = Line(presencePeer')
    BY <1>1, <2>1, WireTold DEF PresenceInv
  <2>3. WireTypes' BY <1>6, <2>2 DEF O!Flip, WireTypes
  <2>4. HeaderCurrent' BY <1>1, <2>2 DEF HeaderCurrent
  <2>5. QED BY <1>3, <1>4, <1>9, <2>2, <2>3, <2>4 DEF PresenceInv, DotCurrent
<1>7. CASE ~link
  <2>1. presenceWire = <<>> /\ presenceWire' = presenceWire /\ odd' = odd \cup {"list", "header"}
    BY <1>7 DEF O!Flip, PresenceInv, WireTypes
  <2>2. WireTypes' BY <2>1 DEF WireTypes, Paired
  <2>3. QED BY <1>3, <1>4, <1>9, <2>1, <2>2 DEF PresenceInv, DotCurrent, HeaderCurrent
<1>8. QED BY <1>1, <1>6, <1>7

(* The link is lost and made again, and the list of peers asked for and answered. *)
LEMMA CutStep == ASSUME PresenceInv, O!Cut PROVE PresenceInv'
<1>1. used' = [used EXCEPT !["cuts"] = @ + 1] BY DEF O!Cut, O!Once
<1>2. PresenceTypes'
  <2>1. used' \in [DOMAIN O!Bounds -> Nat] /\ used'["typed"] = used["typed"]
    BY <1>1, Counted DEF PresenceInv, PresenceTypes
  <2>2. O!TypeOK' BY DEF PresenceInv, PresenceTypes, O!TypeOK, O!Cut, O!views, O!marks
  <2>3. QED BY <2>1, <2>2 DEF PresenceInv, PresenceTypes, O!Cut, O!views, O!marks
<1>3. WireTypes' BY DEF O!Cut, WireTypes, Paired
<1>4. SnapsCurrent' BY DEF O!Cut, PresenceInv, SnapsCurrent
<1>5. DotCurrent' BY DEF O!Cut, PresenceInv, DotCurrent
<1>6. HeaderCurrent' BY DEF O!Cut, O!views, PresenceInv, HeaderCurrent
<1>7. LoadsKept' BY LoadsSame DEF PresenceInv, O!Cut, O!views
<1>8. QED BY <1>2, <1>3, <1>4, <1>5, <1>6, <1>7 DEF PresenceInv

LEMMA SnapsStep == ASSUME PresenceInv, O!Linked \/ O!Serve \/ O!Snapshot PROVE PresenceInv'
<1>1. presencePeer \in BOOLEAN BY DEF PresenceInv, PresenceTypes, O!TypeOK
<1>2. UNCHANGED <<presencePeer, presenceWire, head, header, whose, used, listTimers>>
  BY DEF O!Linked, O!Serve, O!Snapshot, O!views, O!marks
<1>9. LoadsKept' /\ ("header" \in odd <=> "header" \in odd') /\ (O!Linked => ("list" \in odd <=> "list" \in odd'))
  <2>1. CASE O!Linked
    <3>1. CASE O!Load(presenceChat) BY <1>2, <3>1, LoadsMore DEF PresenceInv
    <3>2. CASE UNCHANGED <<loads, odd>> BY <1>2, <3>2, LoadsSame DEF PresenceInv
    <3>3. QED BY <2>1, <3>1, <3>2 DEF O!Linked
  <2>2. CASE O!Serve \/ O!Snapshot
    <3>1. loads' = loads /\ ("mixed" \in odd' <=> "mixed" \in odd) /\ ("header" \in odd' <=> "header" \in odd)
      BY <2>2 DEF O!Serve, O!Snapshot, O!views
    <3>2. (O!Linked => ("list" \in odd <=> "list" \in odd'))
      BY <2>1
    <3>3. QED BY <1>2, <3>1, <3>2, LoadsSame DEF PresenceInv
  <2>3. QED BY <2>1, <2>2
<1>3. SnapsCurrent'
  <2>1. CASE O!Linked
    <3> DEFINE m == [got |-> <<>>, stale |-> FALSE]
    <3>1. m \in Snaps /\ m.got = <<>> BY DEF Snaps
    <3>2. snaps' = snaps \cup {m} BY <2>1 DEF O!Linked
    <3> HIDE DEF m
    <3>3. QED BY <1>2, <3>1, <3>2 DEF PresenceInv, SnapsCurrent
  <2>2. CASE O!Serve
    <3>1. PICK s \in snaps : s.got = <<>>
                             /\ snaps' = (snaps \ {s}) \cup {[s EXCEPT !.got = <<presencePeer>>]}
      BY <2>2 DEF O!Serve
    <3>2. s \in Snaps BY DEF PresenceInv, SnapsCurrent
    <3> DEFINE m == [s EXCEPT !.got = <<presencePeer>>]
    <3>3. m \in Snaps /\ m.got = <<presencePeer>> BY <1>1, <3>2 DEF Snaps
    <3> HIDE DEF m
    <3>4. QED BY <1>2, <3>1, <3>3 DEF m, PresenceInv, SnapsCurrent
  <2>3. CASE O!Snapshot BY <1>2, <2>3 DEF O!Snapshot, PresenceInv, SnapsCurrent
  <2>4. QED BY <2>1, <2>2, <2>3
<1>4. PresenceTypes'
  <2>1. O!TypeOK'
    <3>1. listed' \in BOOLEAN
      <4>1. CASE O!Snapshot
        BY <4>1
           DEF O!Snapshot, O!mergeOnlineUserIds, PresenceInv, PresenceTypes, O!TypeOK,
               SnapsCurrent, Snaps
      <4>2. QED BY <4>1 DEF O!Linked, O!Serve, PresenceInv, PresenceTypes, O!TypeOK
    <3>3. loads' \subseteq O!ChatKinds \X {"asked", "found", "named", "peered"} /\ odd' \subseteq {"list", "header", "mixed"}
      BY DEF O!Linked, O!Serve, O!Snapshot, O!Load, O!views, PresenceInv, PresenceTypes, O!TypeOK
    <3>2. QED
      BY <3>1, <3>3 DEF O!Linked, O!Serve, O!Snapshot, O!views, O!marks, PresenceInv, PresenceTypes,
                  O!TypeOK
  <2>2. loads' # {} => "chat" \in mounted'
    BY DEF O!Linked, O!Serve, O!Snapshot, O!Load, O!views, PresenceInv, PresenceTypes
  <2>3. QED BY <1>2, <2>1, <2>2 DEF PresenceInv, PresenceTypes
<1>5. WireTypes'
  BY <1>2 DEF O!Linked, O!Serve, O!Snapshot, PresenceInv, WireTypes, Paired
<1>6. DotCurrent'
  <2>1. CASE O!Linked \/ O!Serve
    BY <1>2, <1>9, <2>1 DEF O!Linked, O!Serve, PresenceInv, DotCurrent
  <2>2. CASE O!Snapshot
    <3>1. PICK s \in snaps :
            \/ s.got # <<>> /\ listed' = (listed \/ s.got[1])
               /\ odd' = IF s.stale THEN odd \cup {"list"} ELSE odd
            \/ odd' = odd \cup {"list"}
      BY <2>2 DEF O!Snapshot, O!mergeOnlineUserIds
    <3>2. CASE s.got # <<>> /\ ~s.stale /\ listed' = (listed \/ s.got[1]) /\ odd' = odd
      <4>1. s.got[1] = presencePeer BY <3>2 DEF PresenceInv, SnapsCurrent
      <4>2. QED BY <1>2, <3>2, <4>1 DEF PresenceInv, DotCurrent
    <3>3. QED BY <3>1, <3>2 DEF DotCurrent
  <2>3. QED BY <2>1, <2>2
<1>7. HeaderCurrent'
  <2>1. "header" \in odd <=> "header" \in odd' BY <1>9
  <2>2. QED BY <1>2, <2>1 DEF PresenceInv, HeaderCurrent
<1>8. QED BY <1>3, <1>4, <1>5, <1>6, <1>7, <1>9 DEF PresenceInv

LEMMA EventStep == ASSUME PresenceInv, O!Status \/ O!Line PROVE PresenceInv'
<1>1. presenceWire # <<>> /\ presenceWire' = Tail(presenceWire)
      /\ UNCHANGED <<presencePeer, link, snaps, used, listTimers, owner, mounted, loads, head, whose>>
  BY DEF O!Status, O!Line, O!views, O!marks
<1>9. "mixed" \in odd' <=> "mixed" \in odd
  <2>1. owner \in {"chat", "list", "none"} BY DEF PresenceInv, PresenceTypes, O!TypeOK
  <2>2. CASE O!Status BY <2>2 DEF O!Status
  <2>3. CASE O!Line
    <3>1. odd' \in {odd \ {"header"}, odd \cup {"header"}} BY <2>1, <2>3 DEF O!Line, O!onLine
    <3>2. QED BY <3>1
  <2>4. QED BY <2>2, <2>3
<1>2. presencePeer \in BOOLEAN /\ header \in BOOLEAN \cup {None}
  BY DEF PresenceInv, PresenceTypes, O!TypeOK
<1> DEFINE first == Head(presenceWire)
<1>3. /\ first \in WireEvents /\ presenceWire' \in Seq(WireEvents)
      /\ Paired(presenceWire', presencePeer)
      /\ first.t = "status" /\ presenceWire' = <<>> => first.up = presencePeer
      /\ first.t = "line" => presenceWire' # <<>>
      /\ \A i \in DOMAIN presenceWire :
           presenceWire[i] = first
                \/ \E j \in DOMAIN presenceWire' : presenceWire'[j] = presenceWire[i]
  BY <1>1, WireTail DEF PresenceInv
<1>4. WireTypes' BY <1>1, <1>3 DEF PresenceInv, WireTypes
<1>5. SnapsCurrent' BY <1>1 DEF PresenceInv, SnapsCurrent
<1>6. CASE O!Status
  <2>1. first.t = "status" /\ listed' = first.up /\ odd' = odd \ {"list"} /\ header' = header
    BY <1>6 DEF O!Status, O!onOnlineStatus, O!views
  <2>2. PresenceTypes'
    BY <1>1, <1>3, <1>6, <2>1
       DEF O!Status, O!views, O!marks, PresenceInv, PresenceTypes, O!TypeOK, WireEvents
  <2>3. DotCurrent' BY <1>1, <1>3, <2>1 DEF DotCurrent
  <2>4. HeaderCurrent'
    <3>1. SUFFICES ASSUME "header" \notin odd, whose = "theirs", header = TRUE, ~presencePeer
                   PROVE  \E i \in DOMAIN presenceWire' : presenceWire'[i] = Line(FALSE)
      BY <1>1, <2>1 DEF HeaderCurrent
    <3>2. PICK i \in DOMAIN presenceWire : presenceWire[i] = Line(FALSE)
      BY <3>1 DEF PresenceInv, HeaderCurrent
    <3>3. presenceWire[i] # first BY <2>1, <3>2 DEF Line
    <3>4. QED BY <1>3, <3>2, <3>3
  <2>6. LoadsKept' BY <1>1, <1>9, <2>1, LoadsSame DEF PresenceInv
  <2>5. QED BY <1>4, <1>5, <2>2, <2>3, <2>4, <2>6 DEF PresenceInv
<1>7. CASE O!Line
  <2>1. first.t = "line" BY <1>7 DEF O!Line
  <2>2. \/ /\ owner = "chat" /\ header # None /\ header' = first.up
           /\ odd' = odd \ {"header"} /\ listed' = listed
        \/ /\ listed' \in {first.up, listed} /\ odd' = odd \cup {"header"} /\ header' = header
    <3>1. owner \in {"chat", "list", "none"} BY DEF PresenceInv, PresenceTypes, O!TypeOK
    <3>2. QED BY <1>7, <3>1 DEF O!Line, O!onLine
  <2>3. PresenceTypes'
    BY <1>1, <1>2, <1>3, <1>7, <2>2
       DEF O!Line, O!marks, PresenceInv, PresenceTypes, O!TypeOK, WireEvents
  <2>4. DotCurrent' BY <1>3, <2>1 DEF DotCurrent
  <2>5. HeaderCurrent'
    <3>1. SUFFICES ASSUME "header" \notin odd', header' = TRUE, ~presencePeer
                   PROVE  \E i \in DOMAIN presenceWire' : presenceWire'[i] = Line(FALSE)
      BY <1>1 DEF HeaderCurrent
    <3>2. first.up = TRUE BY <2>2, <3>1, PresenceNumbers
    <3>3. first = Line(TRUE) BY <1>3, <2>1, <3>2 DEF WireEvents, Line
    <3>4. QED BY <1>1, <1>2, <3>1, <3>3, LineFollows DEF PresenceInv
  <2>7. LoadsKept'
    <3>1. CASE header' = header BY <1>1, <1>9, <3>1, LoadsSame DEF PresenceInv
    <3>2. CASE header # None BY <1>1, <1>9, <3>2 DEF PresenceInv, LoadsKept, Agrees
    <3>3. QED BY <2>2, <3>1, <3>2
  <2>6. QED BY <1>4, <1>5, <2>3, <2>4, <2>5, <2>7 DEF PresenceInv
<1>8. QED BY <1>6, <1>7

(* The chats that are opened and loaded, the views that are mounted, and who types. *)
LEMMA LoadStep ==
  ASSUME PresenceInv, O!Found \/ O!Named \/ O!Peered \/ O!Loaded
  PROVE  LoadsKept' /\ O!TypeOK' /\ HeaderCurrent'
<1>1. /\ UNCHANGED <<presencePeer, link, presenceWire, snaps, listed, presenceChat, mounted,
                     typing, presenceTimer, listTyping, listTimers, used>>
      /\ odd' \in {odd, odd \ {"header"}}
  BY DEF O!Found, O!Named, O!Peered, O!Loaded, O!marks
<1> DEFINE Steps == {"asked", "found", "named", "peered"}
           After(l, n) == (loads \ {l}) \cup {n}
<1>2. O!TypeOK /\ (loads # {} => "chat" \in mounted) BY DEF PresenceInv, PresenceTypes
<1>3. ASSUME NEW l \in loads, NEW n \in O!ChatKinds \X Steps, n[1] = l[1], n[2] # "asked",
             loads' = After(l, n), head' \in {l[1], None},
             n[2] = "peered" => header' = None \/ whose' = l[1]
      PROVE  LoadsKept' /\ loads' \subseteq O!ChatKinds \X Steps
  <2>1. loads' \subseteq O!ChatKinds \X Steps BY <1>2, <1>3 DEF O!TypeOK
  <2>2. CASE "mixed" \in odd'
    BY <2>1, <2>2 DEF LoadsKept
  <2>3. CASE "mixed" \notin odd'
    <3>1. loads' = {n} BY <1>1, <1>3, <2>3 DEF PresenceInv, LoadsKept
    <3>2. QED BY <1>3, <2>1, <3>1 DEF LoadsKept
  <2>4. QED BY <2>2, <2>3
<1> DEFINE Kept(l) == "mixed" \in odd \/ (/\ l[2] # "asked" => head \in {l[1], None}
                                          /\ l[2] = "peered" => header = None \/ whose = l[1])
<1>4. \A l \in loads : Kept(l) BY DEF PresenceInv, LoadsKept
<1>5. CASE O!Found
  <2>1. PICK c \in O!ChatKinds : /\ <<c, "asked">> \in loads
                             /\ loads' = After(<<c, "asked">>, <<c, "found">>) /\ head' = c
    BY <1>5 DEF O!Found
  <2>2. LoadsKept' /\ loads' \subseteq O!ChatKinds \X Steps
    BY <2>1, <1>3
  <2>3. UNCHANGED <<header, whose, ref, owner, odd>> BY <1>5 DEF O!Found
  <2>4. O!TypeOK' BY <1>1, <1>2, <2>1, <2>2, <2>3 DEF O!TypeOK
  <2>5. HeaderCurrent' BY <1>1, <2>3 DEF PresenceInv, HeaderCurrent
  <2>6. QED BY <2>2, <2>4, <2>5
<1>6. CASE O!Named
  <2>1. PICK c \in O!ChatKinds :
          /\ <<c, "found">> \in loads /\ ref' = c /\ owner' = "chat"
          /\ \/ /\ loads' = After(<<c, "found">>, <<c, "peered">>) /\ header' = None /\ whose' = c
             \/ /\ loads' = After(<<c, "found">>, <<c, "named">>) /\ UNCHANGED <<header, whose>>
    BY <1>6 DEF O!Named
  <2>2. UNCHANGED <<head, odd>> BY <1>6 DEF O!Named
  <2>3. "mixed" \in odd \/ head \in {c, None} BY <2>1, <1>4
  <2>4. LoadsKept' /\ loads' \subseteq O!ChatKinds \X Steps
    <3>1. CASE "mixed" \in odd
      BY <2>1, <2>2, <3>1, <1>2 DEF LoadsKept, O!TypeOK
    <3>2. CASE "mixed" \notin odd
      BY <2>1, <2>2, <2>3, <3>2, <1>3
    <3>3. QED BY <3>1, <3>2
  <2>5. O!TypeOK'
    <3>1. "chat" \in mounted BY <1>2, <2>1
    <3>2. QED BY <1>1, <1>2, <2>1, <2>2, <2>4, <3>1 DEF O!TypeOK
  <2>6. HeaderCurrent' BY <1>1, <2>1, <2>2, PresenceNumbers DEF PresenceInv, HeaderCurrent
  <2>7. QED BY <2>4, <2>5, <2>6
<1>7. CASE O!Peered
  <2>1. PICK c \in O!ChatKinds :
          /\ <<c, "named">> \in loads /\ header' \in {FALSE, None} /\ whose' = c
          /\ loads' = After(<<c, "named">>, <<c, "peered">>)
    BY <1>7 DEF O!Peered
  <2>2. UNCHANGED <<head, ref>> /\ owner' = "chat" BY <1>7 DEF O!Peered
  <2>3. "mixed" \in odd \/ head \in {c, None} BY <2>1, <1>4
  <2>4. LoadsKept' /\ loads' \subseteq O!ChatKinds \X Steps
    <3>1. CASE "mixed" \in odd
      BY <1>1, <2>1, <2>2, <3>1, <1>2 DEF LoadsKept, O!TypeOK
    <3>2. CASE "mixed" \notin odd
      BY <2>1, <2>2, <2>3, <3>2, <1>3
    <3>3. QED BY <3>1, <3>2
  <2>5. O!TypeOK'
    <3>1. "chat" \in mounted BY <1>2, <2>1
    <3>2. header' \in BOOLEAN \cup {None} /\ odd' \subseteq {"list", "header", "mixed"}
      BY <1>1, <1>2, <2>1 DEF O!TypeOK
    <3>3. QED BY <1>1, <1>2, <2>1, <2>2, <2>4, <3>1, <3>2 DEF O!TypeOK
  <2>6. HeaderCurrent' BY <2>1, PresenceNumbers DEF HeaderCurrent
  <2>7. QED BY <2>4, <2>5, <2>6
<1>8. CASE O!Loaded
  <2>1. PICK l \in loads : /\ loads' = loads \ {l}
                           /\ \/ l[2] = "peered" /\ UNCHANGED <<head, owner>>
                              \/ head' = None /\ owner' = "chat"
    BY <1>8 DEF O!Loaded
  <2>2. UNCHANGED <<header, whose, ref, odd>> BY <1>8 DEF O!Loaded
  <2>3. LoadsKept'
    <3>1. SUFFICES ASSUME "mixed" \notin odd PROVE loads' = {} /\ Agrees'
      BY <2>2 DEF LoadsKept
    <3>2. loads = {l} BY <3>1 DEF PresenceInv, LoadsKept
    <3>3. l[2] = "peered" => head \in {l[1], None} /\ (header = None \/ whose = l[1])
      BY <1>4, <3>1
    <3>4. Agrees' BY <2>1, <2>2, <3>3 DEF Agrees
    <3>5. QED BY <2>1, <3>2, <3>4
  <2>4. O!TypeOK' BY <1>1, <1>2, <2>1, <2>2 DEF O!TypeOK
  <2>5. HeaderCurrent' BY <1>1, <2>2 DEF PresenceInv, HeaderCurrent
  <2>6. QED BY <2>3, <2>4, <2>5
<1>9. QED BY <1>5, <1>6, <1>7, <1>8

LEMMA ViewStep ==
  ASSUME PresenceInv,
         \/ O!Open \/ O!Found \/ O!Named \/ O!Peered \/ O!Loaded \/ O!Mount \/ O!Unmount
         \/ O!OtherLine \/ O!Typed \/ O!ChatTimer \/ O!ListTimer
  PROVE  PresenceInv'
<1> DEFINE Loading == O!Found \/ O!Named \/ O!Peered \/ O!Loaded
           Watching == O!Typed \/ O!ChatTimer \/ O!ListTimer
<1>1. UNCHANGED <<presencePeer, link, presenceWire, snaps, listed>>
            /\ ("list" \in odd' <=> "list" \in odd)
  BY DEF O!Open, O!Found, O!Named, O!Peered, O!Loaded, O!Mount, O!Unmount, O!OtherLine, O!Typed,
         O!ChatTimer, O!ListTimer, O!Load
<1>2. WireTypes' /\ SnapsCurrent' /\ DotCurrent'
  BY <1>1 DEF PresenceInv, WireTypes, Paired, SnapsCurrent, DotCurrent
<1>3. HeaderCurrent'
  <2>1. CASE Loading BY <2>1, LoadStep
  <2>2. CASE ~Loading
    <3>1. header' = TRUE /\ whose' = "theirs" /\ "header" \notin odd'
            => header = TRUE /\ whose = "theirs" /\ "header" \notin odd
      BY <2>2, PresenceNumbers
         DEF O!Open, O!Mount, O!Unmount, O!Fresh, O!OtherLine, O!Typed, O!ChatTimer, O!ListTimer,
             O!Load, O!views
    <3>2. QED BY <1>1, <3>1 DEF PresenceInv, HeaderCurrent
  <2>3. QED BY <2>1, <2>2
<1>4. used' \in [DOMAIN O!Bounds -> Nat] /\ listTimers' \in Nat
      /\ listTimers' <= used'["typed"] /\ used'["typed"] <= MaxTyped
  <2>1. used \in [DOMAIN O!Bounds -> Nat] /\ listTimers \in Nat /\ listTimers <= used["typed"]
        /\ used["typed"] <= MaxTyped /\ used["typed"] \in Nat
    BY PresenceNumbers DEF PresenceInv, PresenceTypes, O!TypeOK, O!Bounds
  <2>2. CASE O!Typed
    <3>1. used' = [used EXCEPT !["typed"] = @ + 1] /\ used["typed"] < MaxTyped
          /\ listTimers' \in {listTimers, listTimers + 1}
      BY <2>2 DEF O!Typed, O!Once, O!Bounds
    <3>2. used'["typed"] = used["typed"] + 1 /\ used' \in [DOMAIN O!Bounds -> Nat]
      BY <2>1, <3>1 DEF O!Bounds
    <3>3. QED BY <2>1, <3>1, <3>2, PresenceNumbers
  <2>3. CASE O!Open \/ O!Mount
    <3>1. used'["typed"] = used["typed"] /\ used' \in [DOMAIN O!Bounds -> Nat]
          /\ listTimers' = listTimers
      BY <2>1, <2>3, Counted DEF O!Open, O!Mount, O!Once, O!marks
    <3>2. QED BY <2>1, <3>1
  <2>4. CASE Loading \/ O!Unmount \/ O!OtherLine \/ O!ChatTimer \/ O!ListTimer
    <3>1. /\ used' = used
          /\ listTimers' \in {listTimers, 0} \/ (listTimers > 0 /\ listTimers' = listTimers - 1)
      <4>1. CASE O!Unmount BY <4>1 DEF O!Unmount
      <4>2. CASE ~O!Unmount
        BY <2>4, <4>2 DEF O!Found, O!Named, O!Peered, O!Loaded, O!OtherLine, O!ChatTimer, O!ListTimer, O!marks
      <4>3. QED BY <4>1, <4>2
    <3>2. QED BY <2>1, <3>1
  <2>5. QED BY <2>2, <2>3, <2>4
<1>5. O!TypeOK'
  <2>0. O!TypeOK BY DEF PresenceInv, PresenceTypes
  <2>1. listTimers' \in 0..MaxTyped
    BY <1>4, PresenceNumbers DEF PresenceInv, PresenceTypes, O!Bounds
  <2>2. header' \in BOOLEAN \cup {None} /\ {presenceTimer', listTyping'} \subseteq BOOLEAN
        /\ {presenceChat', head', whose', ref', typing'} \subseteq O!ChatKinds \cup {None}
    <3>1. CASE Loading BY <3>1, LoadStep DEF O!TypeOK
    <3>2. CASE O!Open BY <3>2, <2>0 DEF O!Open, O!TypeOK
    <3>3. CASE O!Mount BY <3>3, <2>0 DEF O!Mount, O!marks, O!TypeOK
    <3>4. CASE O!Unmount BY <3>4, <2>0 DEF O!Unmount, O!Fresh, O!TypeOK
    <3>5. CASE O!OtherLine BY <3>5, <2>0 DEF O!OtherLine, O!marks, O!TypeOK
    <3>6. CASE O!Typed BY <3>6, <2>0 DEF O!Typed, O!views, O!TypeOK
    <3>7. CASE O!ChatTimer \/ O!ListTimer
      BY <3>7, <2>0 DEF O!ChatTimer, O!ListTimer, O!views, O!TypeOK
    <3>8. QED BY <3>1, <3>2, <3>3, <3>4, <3>5, <3>6, <3>7
  <2>3. owner' \in {"chat", "list", "none"} /\ mounted' \subseteq {"chat", "list"}
        /\ (owner' # "none" => owner' \in mounted')
    <3>1. CASE Loading BY <3>1, LoadStep DEF O!TypeOK
    <3>2. CASE O!Open BY <2>0, <3>2 DEF O!Open, O!TypeOK
    <3>3. CASE O!Mount BY <2>0, <3>3 DEF O!Mount, O!TypeOK
    <3>4. CASE O!Unmount BY <2>0, <3>4 DEF O!Unmount, O!TypeOK
    <3>5. CASE O!OtherLine \/ Watching
      BY <2>0, <3>5 DEF O!OtherLine, O!Typed, O!ChatTimer, O!ListTimer, O!views, O!TypeOK
    <3>6. QED BY <3>1, <3>2, <3>3, <3>4, <3>5
  <2>4. loads' \subseteq O!ChatKinds \X {"asked", "found", "named", "peered"}
        /\ odd' \subseteq {"list", "header", "mixed"}
    <3>1. CASE Loading BY <3>1, LoadStep DEF O!TypeOK
    <3>2. CASE O!Open \/ O!Mount
      <4>1. \/ UNCHANGED <<loads, odd>>
            \/ \E c \in O!ChatKinds : O!Load(c)
        BY <2>0, <2>2, <3>2 DEF O!Open, O!Mount, O!TypeOK
      <4>2. ASSUME NEW c \in O!ChatKinds, O!Load(c)
            PROVE  loads' \subseteq O!ChatKinds \X {"asked", "found", "named", "peered"}
                   /\ odd' \subseteq {"list", "header", "mixed"}
        <5>1. <<c, "asked">> \in O!ChatKinds \X {"asked", "found", "named", "peered"}
          OBVIOUS
        <5>2. loads' = loads \cup {<<c, "asked">>} /\ odd' \in {odd \ {"mixed"}, odd \cup {"mixed"}}
          BY <4>2 DEF O!Load
        <5>3. QED BY <2>0, <5>1, <5>2 DEF O!TypeOK
      <4>3. QED BY <2>0, <4>1, <4>2 DEF O!TypeOK
    <3>3. CASE O!Unmount \/ O!OtherLine \/ Watching
      BY <2>0, <3>3 DEF O!Unmount, O!OtherLine, O!Typed, O!ChatTimer, O!ListTimer, O!views, O!TypeOK
    <3>4. QED BY <3>1, <3>2, <3>3
  <2>5. QED BY <1>1, <2>0, <2>1, <2>2, <2>3, <2>4 DEF O!TypeOK
<1>6. loads' # {} => "chat" \in mounted'
  <2>1. loads # {} => "chat" \in mounted BY DEF PresenceInv, PresenceTypes
  <2>2. CASE O!Open \/ Loading
    BY <2>1, <2>2 DEF O!Open, O!Found, O!Named, O!Peered, O!Loaded, O!Load
  <2>3. CASE O!Mount \/ O!Unmount BY <2>1, <2>3 DEF O!Mount, O!Unmount, O!Load
  <2>4. CASE O!OtherLine \/ Watching
    BY <2>1, <2>4 DEF O!OtherLine, O!Typed, O!ChatTimer, O!ListTimer, O!views
  <2>5. QED BY <2>2, <2>3, <2>4
<1>7. LoadsKept'
  <2>1. CASE Loading BY <2>1, LoadStep
  <2>2. CASE O!Open
    <3>1. UNCHANGED <<header, whose>> BY <2>2 DEF O!Open
    <3>2. CASE head' = None /\ UNCHANGED <<loads, odd>>
      BY <3>1, <3>2 DEF PresenceInv, LoadsKept, Agrees
    <3>3. CASE O!Load(presenceChat') /\ UNCHANGED head
      BY <3>1, <3>3, LoadsMore DEF PresenceInv
    <3>4. QED BY <2>2, <3>2, <3>3 DEF O!Open
  <2>3. CASE O!Mount
    <3>1. UNCHANGED <<head, header, whose>> BY <2>3 DEF O!Mount
    <3>2. CASE O!Load(presenceChat) BY <3>1, <3>2, LoadsMore DEF PresenceInv
    <3>3. CASE UNCHANGED <<loads, odd>> BY <3>1, <3>3, LoadsSame DEF PresenceInv
    <3>4. QED BY <2>3, <3>2, <3>3 DEF O!Mount
  <2>4. CASE O!Unmount
    <3>1. CASE O!Fresh /\ loads' = {} BY <3>1 DEF O!Fresh, LoadsKept, Agrees
    <3>2. CASE UNCHANGED <<loads, head, header, whose>>
      BY <2>4, <3>2, LoadsSame DEF PresenceInv, O!Unmount
    <3>3. QED BY <2>4, <3>1, <3>2 DEF O!Unmount
  <2>5. CASE O!OtherLine
    <3>1. header # None /\ UNCHANGED <<loads, head, whose>> /\ ("mixed" \in odd' <=> "mixed" \in odd)
      BY <2>5 DEF O!OtherLine
    <3>2. QED BY <3>1 DEF PresenceInv, LoadsKept, Agrees
  <2>6. CASE Watching
    BY <2>6, LoadsSame DEF PresenceInv, O!Typed, O!ChatTimer, O!ListTimer, O!views
  <2>7. QED BY <2>1, <2>2, <2>3, <2>4, <2>5, <2>6
<1>8. QED BY <1>2, <1>3, <1>4, <1>5, <1>6, <1>7 DEF PresenceInv, PresenceTypes

LEMMA PresenceStep == ASSUME PresenceInv, O!Next PROVE PresenceInv'
BY FlipStep, CutStep, SnapsStep, EventStep, ViewStep DEF O!Next

(* What holds of the part that is about presence. *)
PresencePart == only = "presence" => PresenceInv

LEMMA PresenceAlways == PartsSpec => []PresencePart
<1>1. PartsInit => PresencePart BY PresenceInit DEF PartsInit, PresencePart
<1>2. PresencePart /\ [PartsNext]_<<only, vars, timelineVars, presenceVars>> => PresencePart'
  <2>1. SUFFICES ASSUME PresencePart, only' = "presence",
                        [PartsNext]_<<only, vars, timelineVars, presenceVars>>
                 PROVE  PresenceInv'
    BY DEF PresencePart
  <2>2. only = "presence" /\ (O!Next \/ UNCHANGED presenceVars)
    BY <2>1 DEF PartsNext, Only
  <2>3. CASE O!Next BY <2>1, <2>2, <2>3, PresenceStep DEF PresencePart
  <2>4. CASE UNCHANGED presenceVars
    <3>1. PresenceInv BY <2>1, <2>2 DEF PresencePart
    <3>2. UNCHANGED <<presencePeer, link, presenceWire, snaps, listed, loads, header, odd, used>>
          /\ UNCHANGED <<owner, mounted, typing, presenceTimer, listTyping, listTimers>>
          /\ UNCHANGED <<presenceChat, head, whose, ref>>
      BY <2>4 DEF presenceVars
    <3>3. PresenceTypes' BY <3>1, <3>2 DEF PresenceInv, PresenceTypes, O!TypeOK
    <3>4. WireTypes' /\ SnapsCurrent'
      BY <3>1, <3>2 DEF PresenceInv, WireTypes, Paired, SnapsCurrent
    <3>5. DotCurrent' /\ HeaderCurrent'
      BY <3>1, <3>2 DEF PresenceInv, DotCurrent, HeaderCurrent
    <3>7. LoadsKept' BY <3>1, <3>2, LoadsSame DEF PresenceInv
    <3>6. QED BY <3>3, <3>4, <3>5, <3>7 DEF PresenceInv
  <2>5. QED BY <2>2, <2>3, <2>4
<1>3. QED BY <1>1, <1>2, PTL DEF PartsSpec

(* The dot and the header of a peer: with the link there and nothing on its way they are what  *)
(* the hub knows, but for lost events and older lists, and the header is of its own chat once   *)
(* that is loaded, but for loads that were mixed (store/index.ts, DialogList.tsx,               *)
(* ChatView.tsx).                                                                              *)
THEOREM PresenceIsShown == PartsSpec => []PresenceShown
<1>1. PresencePart => PresenceShown
  <2>1. SUFFICES ASSUME PresenceInv PROVE O!TypeOK /\ O!PresenceShown
    BY DEF PresencePart, PresenceShown
  <2>2. listed \in BOOLEAN /\ presencePeer \in BOOLEAN
    BY <2>1 DEF PresenceInv, PresenceTypes, O!TypeOK
  <2>3. ASSUME link, presenceWire = <<>>, snaps = {}
        PROVE  /\ "list" \notin odd => listed = presencePeer
               /\ "header" \notin odd /\ head = "theirs" /\ whose = "theirs" /\ header = TRUE => presencePeer
    <3>1. "list" \notin odd => listed = presencePeer
      BY <2>1, <2>2, <2>3 DEF PresenceInv, DotCurrent
    <3>2. "header" \notin odd /\ whose = "theirs" /\ header = TRUE => presencePeer
      BY <2>1, <2>2, <2>3 DEF PresenceInv, HeaderCurrent
    <3>3. QED BY <3>1, <3>2
  <2>4. loads = {} /\ "mixed" \notin odd /\ head # None /\ header # None => whose = head
    BY <2>1 DEF PresenceInv, LoadsKept, Agrees
  <2>5. QED BY <2>1, <2>3, <2>4 DEF PresenceInv, PresenceTypes, O!PresenceShown
<1>2. QED BY <1>1, PresenceAlways, PTL

-----------------------------------------------------------------------------
(* The messages of a chat.  The names of Timeline's types, and the invariant: what the         *)
(* requests are about, what a page holds, what the events say, and what the list holds.        *)
Rows == [chat : Chats, mine : BOOLEAN, gone : BOOLEAN]
Events == [t : {"new", "read"}, chat : Chats, id : T!Ids]
Tasks == [n : T!Slots, op : {"load", "older", "send", "delete", "batch"},
          chat : Chats, ids : SUBSET (T!Ids \cup T!PendingIds), here : BOOLEAN,
          mounted : BOOLEAN, served : BOOLEAN, got : SUBSET T!Ids, at : 0..MaxLog]

TaskKept(t) ==
  /\ t.mounted => t.chat = timelineChat
  /\ t.here => t.mounted
  /\ ~t.served => t.got = {}
  /\ t.got \subseteq DOMAIN log /\ t.at <= Len(log)
  /\ \A id \in t.got : log[id].chat = t.chat
  /\ t.op = "load" => t.ids = {}
  /\ t.op = "older" => \A x, y \in t.ids : x = y
  /\ t.op = "send" => t.ids \cap T!Ids = {} /\ \A x, y \in t.got : x = y
  /\ t.op \in {"delete", "batch"} => t.ids \subseteq DOMAIN log

(* What the server looked at for a page, and that the page leaves out nothing newer than its   *)
(* oldest message.                                                                             *)
Before(t) == {id \in T!Live(t.chat) : id <= t.at /\ \A b \in t.ids : id < b}
PageWhole(t) ==
  t.served /\ t.op \in {"load", "older"} =>
    /\ \A y \in t.got, id \in Before(t) : y <= id => id \in t.got
    /\ t.got = {} => Before(t) = {}
TasksKept == \A t \in tasks : TaskKept(t) /\ PageWhole(t)

EventTrue(e) ==
  /\ e.id \in DOMAIN log
  /\ e.t = "new" => log[e.id].chat = e.chat
  /\ e.t = "read" /\ log[e.id].chat = e.chat => e.id <= seen[e.chat]
EventsTrue == \A i \in DOMAIN inbox : EventTrue(inbox[i])

ListKept ==
  /\ T!Shown \cap T!Ids \subseteq DOMAIN log
  /\ ~stale => \A id \in T!Shown \cap T!Ids : log[id].chat = timelineChat
  /\ \A p \in T!Shown \ T!Ids : \E t \in tasks : t.op = "send" /\ t.ids = {p}
  /\ timelineTimer => timelineChat # None

(* Unless a loading is due or under way, every message since the oldest shown, every one since *)
(* the message an older page was asked for, and when there is no older page every one at all   *)
(* is shown, due or among the lost.                                                            *)
Here == T!Live(timelineChat)
Covered == T!Shown \cup lost \cup T!Due
Since(t, id) == (\E b \in t.ids : b <= id) \/ (t.served /\ id > t.at)
Wanted(id) == \/ \E y \in T!Shown : y <= id
              \/ \E t \in tasks : t.op = "older" /\ t.here /\ Since(t, id)
              \/ endHere
Covers == \A id \in Here : Wanted(id) => id \in Covered
Excused == \/ ~timelineUp \/ timelineTimer \/ stale \/ timelineChat = None
           \/ \E t \in tasks : t.op = "load"
Complete == Excused \/ Covers

TimelineInv == T!TypeOK /\ TasksKept /\ EventsTrue /\ ListKept /\ Complete
               /\ T!ShownOnce /\ T!ReadExplained

LEMMA TimelineNumbers ==
  /\ {Page, OlderPage, MaxLog} \subseteq Nat \ {0} /\ {MaxTasks, MaxAsked, MaxCuts, MaxMarks} \subseteq Nat
  /\ None \notin Chats
BY TimelineAssumption DEF T!TimelineConstants

(* Timeline counts as FiniteSets does. *)
LEMMA SameCount == \A S : T!Cardinality(S) = Cardinality(S)
BY DEF T!Cardinality, Cardinality

(* Ids of the log and those of pending messages. *)
LEMMA IdFacts ==
  /\ T!Ids = 1..MaxLog /\ T!Ids \subseteq Nat \ {0} /\ T!PendingIds \subseteq Nat
  /\ \A p \in T!PendingIds : p > MaxLog /\ p \notin T!Ids /\ p \in Nat
  /\ \A n \in T!Slots : T!Pending(n) \in T!PendingIds
BY TimelineNumbers DEF T!Ids, T!PendingIds, T!Slots, T!Pending

LEMMA TypesAre ==
  T!TypeOK <=> /\ log \in Seq(Rows) /\ Len(log) <= MaxLog
               /\ {timelineUp, timelineTimer, loading, done, stale, endHere} \subseteq BOOLEAN
               /\ inbox \in Seq(Events)
               /\ timelineChat \in Chats \cup {None}
               /\ T!Shown \subseteq T!Ids \cup T!PendingIds /\ list \in [T!Shown -> Nat \ {0}]
               /\ marked \subseteq T!Shown
               /\ tasks \subseteq Tasks
               /\ seen \in [Chats -> 0..MaxLog]
               /\ guessed \subseteq T!Ids \cup T!PendingIds /\ lost \subseteq T!Ids
BY DEF T!TypeOK, Rows, Events, Tasks

LEMMA LogFacts ==
  ASSUME log \in Seq(Rows), Len(log) <= MaxLog
  PROVE  /\ Len(log) \in Nat /\ DOMAIN log = 1..Len(log) /\ DOMAIN log \subseteq T!Ids
         /\ \A id \in DOMAIN log : log[id] \in Rows
<1>1. Len(log) \in Nat /\ DOMAIN log = 1..Len(log) /\ log \in [1..Len(log) -> Rows]
  BY LenProperties
<1> QED BY <1>1, TimelineNumbers DEF T!Ids

(* A message is written, or some are deleted. *)
LEMMA LogAppend ==
  ASSUME log \in Seq(Rows), Len(log) < MaxLog, NEW r \in Rows, log' = Append(log, r)
  PROVE  /\ log' \in Seq(Rows) /\ Len(log') = Len(log) + 1 /\ Len(log') <= MaxLog
         /\ Len(log) \in Nat /\ DOMAIN log' = DOMAIN log \cup {Len(log')}
         /\ Len(log') \in T!Ids \ DOMAIN log
         /\ \A id \in DOMAIN log : log'[id] = log[id]
         /\ log'[Len(log')] = r
<1>1. /\ log' \in Seq(Rows) /\ Len(log') = Len(log) + 1
      /\ \A id \in 1..Len(log) : log'[id] = log[id]
      /\ log'[Len(log) + 1] = r
  BY AppendProperties
<1>2. Len(log) \in Nat /\ DOMAIN log = 1..Len(log) /\ DOMAIN log' = 1..Len(log')
  BY <1>1, LenProperties
<1> QED BY <1>1, <1>2, TimelineNumbers DEF T!Ids

LEMMA LogDelete ==
  ASSUME log \in Seq(Rows), Len(log) <= MaxLog, NEW D,
         log' = [id \in DOMAIN log |-> [log[id] EXCEPT !.gone = @ \/ id \in D]]
  PROVE  /\ log' \in Seq(Rows) /\ Len(log') = Len(log) /\ DOMAIN log' = DOMAIN log
         /\ \A id \in DOMAIN log : log'[id].chat = log[id].chat /\ (log[id].gone => log'[id].gone)
<1>1. Len(log) \in Nat /\ DOMAIN log = 1..Len(log) /\ \A id \in DOMAIN log : log[id] \in Rows
  BY LogFacts
<1>2. \A id \in DOMAIN log : /\ log'[id] \in Rows /\ log'[id].chat = log[id].chat
                             /\ (log[id].gone => log'[id].gone)
  BY <1>1 DEF Rows
<1>3. log' \in [1..Len(log) -> Rows]
  BY <1>1, <1>2
<1>4. log' \in Seq(Rows)
  BY <1>1, <1>3, SeqDef
<1>5. Len(log') \in Nat /\ DOMAIN log' = 1..Len(log') /\ DOMAIN log' = 1..Len(log)
  BY <1>3, <1>4, LenProperties
<1>6. Len(log') = Len(log)
  BY <1>1, <1>5
<1> QED BY <1>1, <1>2, <1>4, <1>5, <1>6

LEMMA LogMark ==
  ASSUME log \in Seq(Rows), Len(log) <= MaxLog, NEW d \in DOMAIN log,
         log' = [log EXCEPT ![d].gone = TRUE]
  PROVE  /\ log' \in Seq(Rows) /\ Len(log') = Len(log) /\ DOMAIN log' = DOMAIN log
         /\ \A id \in DOMAIN log : log'[id].chat = log[id].chat /\ (log[id].gone => log'[id].gone)
<1>1. Len(log) \in Nat /\ DOMAIN log = 1..Len(log) /\ \A id \in DOMAIN log : log[id] \in Rows
  BY LogFacts
<1>2. DOMAIN log' = DOMAIN log
  OBVIOUS
<1>3. \A id \in DOMAIN log : /\ log'[id] \in Rows /\ log'[id].chat = log[id].chat
                             /\ (log[id].gone => log'[id].gone)
  BY <1>1 DEF Rows
<1>4. log' \in [1..Len(log) -> Rows]
  BY <1>1, <1>3
<1>5. log' \in Seq(Rows)
  BY <1>1, <1>4, SeqDef
<1>6. Len(log') \in Nat /\ DOMAIN log' = 1..Len(log')
  BY <1>5, LenProperties
<1>7. Len(log') = Len(log)
  BY <1>1, <1>2, <1>6
<1> QED BY <1>2, <1>3, <1>5, <1>7

(* The log only grows, and what is deleted stays so. *)
LogGrown ==
  /\ log \in Seq(Rows) /\ Len(log) <= MaxLog
  /\ log' \in Seq(Rows) /\ Len(log') <= MaxLog
  /\ Len(log) \in Nat /\ Len(log') \in Nat /\ Len(log) <= Len(log')
  /\ DOMAIN log = 1..Len(log) /\ DOMAIN log' = 1..Len(log')
  /\ \A id \in DOMAIN log : /\ id \in DOMAIN log' /\ log'[id].chat = log[id].chat
                            /\ log[id].gone => log'[id].gone

LEMMA LogStep == ASSUME T!TypeOK, T!Next PROVE LogGrown
<1>1. log \in Seq(Rows) /\ Len(log) <= MaxLog /\ tasks \subseteq Tasks
  BY TypesAre
<1> DEFINE Goal == /\ log' \in Seq(Rows) /\ Len(log') <= MaxLog /\ Len(log) <= Len(log')
                   /\ \A id \in DOMAIN log :
                        /\ id \in DOMAIN log' /\ log'[id].chat = log[id].chat
                        /\ log[id].gone => log'[id].gone
<1>2. SUFFICES Goal
  BY <1>1, LenProperties DEF LogGrown
<1>3. Len(log) \in Nat
  BY <1>1, LogFacts
<1>4. CASE UNCHANGED log
  BY <1>1, <1>3, <1>4
<1>5. ASSUME NEW c \in Chats, T!PeerWrites(c)
      PROVE  Goal
  <2>1. [chat |-> c, mine |-> FALSE, gone |-> FALSE] \in Rows
    BY DEF Rows
  <2> QED BY <1>1, <1>5, <2>1, LogAppend DEF T!PeerWrites
<1>6. ASSUME NEW id \in DOMAIN log, T!PeerDeletes(id)
      PROVE  Goal
  <2>1. log' = [log EXCEPT ![id].gone = TRUE]
    BY <1>6 DEF T!PeerDeletes
  <2>2. /\ log' \in Seq(Rows) /\ Len(log') = Len(log) /\ DOMAIN log' = DOMAIN log
        /\ \A d \in DOMAIN log : log'[d].chat = log[d].chat /\ (log[d].gone => log'[d].gone)
    BY <1>1, <2>1, LogMark, Zenon
  <2> QED BY <1>1, <1>3, <2>2
<1>7. ASSUME NEW t \in tasks, T!Serve(t)
      PROVE  Goal
  <2>1. CASE log' = Append(log, [chat |-> t.chat, mine |-> TRUE, gone |-> FALSE]) /\ Len(log) < MaxLog
    <3>1. [chat |-> t.chat, mine |-> TRUE, gone |-> FALSE] \in Rows
      BY <1>1 DEF Rows, Tasks
    <3> QED BY <1>1, <2>1, <3>1, LogAppend
  <2>2. ASSUME NEW D, log' = [id \in DOMAIN log |-> [log[id] EXCEPT !.gone = @ \/ id \in D]]
        PROVE  Goal
    <3>1. /\ log' \in Seq(Rows) /\ Len(log') = Len(log) /\ DOMAIN log' = DOMAIN log
          /\ \A d \in DOMAIN log : log'[d].chat = log[d].chat /\ (log[d].gone => log'[d].gone)
      BY <1>1, <2>2, LogDelete, Zenon
    <3> QED BY <1>1, <1>3, <3>1
  <2> QED BY <1>4, <1>7, <2>1, <2>2 DEF T!Serve
<1> QED
  BY <1>4, <1>5, <1>6, <1>7
  DEF T!Next, T!PeerReads, T!Open, T!Cut, T!Reconnect, T!Reload, T!Close, T!OnNewMessage, T!OnRead,
      T!LoadOlder, T!StartSend, T!StartDelete, T!Loaded, T!LoadFails, T!OlderLoaded, T!OlderFails,
      T!Sent, T!SendFails, T!Deleted, T!DeleteFails

-----------------------------------------------------------------------------
(* What an event in the inbox is about. *)
LEMMA ComingAppend ==
  ASSUME inbox \in Seq(Events), NEW e \in Events, inbox' = Append(inbox, e)
  PROVE  /\ inbox' \in Seq(Events)
         /\ T!Coming' = T!Coming \cup (IF e.t = "new" THEN {e.id} ELSE {})
         /\ \A i \in DOMAIN inbox' : inbox'[i] = e \/ \E j \in DOMAIN inbox : inbox'[i] = inbox[j]
<1>1. /\ inbox' \in Seq(Events) /\ Len(inbox') = Len(inbox) + 1 /\ Len(inbox) \in Nat
      /\ \A i \in 1..Len(inbox) : inbox'[i] = inbox[i]
      /\ inbox'[Len(inbox) + 1] = e
  BY AppendProperties, LenProperties
<1>2. DOMAIN inbox = 1..Len(inbox) /\ DOMAIN inbox' = 1..(Len(inbox) + 1)
  BY <1>1, LenProperties
<1>3. \A i \in DOMAIN inbox : i \in DOMAIN inbox' /\ inbox'[i] = inbox[i]
  BY <1>1, <1>2
<1>4. \A i \in DOMAIN inbox' : i = Len(inbox) + 1 \/ i \in DOMAIN inbox
  BY <1>1, <1>2
<1>5. Len(inbox) + 1 \in DOMAIN inbox'
  BY <1>1, <1>2
<1>6. T!Coming' = T!Coming \cup (IF e.t = "new" THEN {e.id} ELSE {})
  BY <1>1, <1>3, <1>4, <1>5 DEF T!Coming
<1> QED BY <1>1, <1>3, <1>4, <1>6

LEMMA ComingTail ==
  ASSUME inbox \in Seq(Events), inbox # <<>>, inbox' = Tail(inbox)
  PROVE  /\ inbox' \in Seq(Events) /\ Head(inbox) \in Events
         /\ T!Coming \subseteq T!Coming' \cup {Head(inbox).id}
         /\ Head(inbox).t = "read" => T!Coming \subseteq T!Coming'
         /\ \A i \in DOMAIN inbox' : \E j \in DOMAIN inbox : inbox'[i] = inbox[j]
         /\ \E j \in DOMAIN inbox : Head(inbox) = inbox[j]
<1>1. /\ inbox' \in Seq(Events) /\ Head(inbox) \in Events /\ Len(inbox') = Len(inbox) - 1
      /\ Len(inbox) \in Nat /\ Len(inbox') \in Nat
      /\ \A i \in 1..Len(inbox') : inbox'[i] = inbox[i + 1]
  BY HeadTailProperties, LenProperties
<1>2. DOMAIN inbox = 1..Len(inbox) /\ DOMAIN inbox' = 1..Len(inbox')
  BY <1>1, LenProperties
<1>3. Head(inbox) = inbox[1]
  OBVIOUS
<1>4. Len(inbox) # 0
  BY EmptySeq
<1>5. \A i \in DOMAIN inbox : i # 1 => i - 1 \in DOMAIN inbox' /\ inbox'[i - 1] = inbox[i]
  BY <1>1, <1>2
<1>6. \A i \in DOMAIN inbox' : i + 1 \in DOMAIN inbox /\ inbox'[i] = inbox[i + 1]
  BY <1>1, <1>2
<1>7. 1 \in DOMAIN inbox
  BY <1>1, <1>2, <1>4
<1>8. ASSUME NEW x \in T!Coming
      PROVE  x \in T!Coming' \/ (x = Head(inbox).id /\ Head(inbox).t = "new")
  <2>1. PICK i \in DOMAIN inbox : inbox[i].t = "new" /\ x = inbox[i].id
    BY <1>8 DEF T!Coming
  <2>2. CASE i = 1
    BY <1>3, <2>1, <2>2
  <2>3. CASE i # 1
    BY <1>5, <2>1, <2>3 DEF T!Coming
  <2> QED BY <2>2, <2>3
<1> QED BY <1>1, <1>3, <1>6, <1>7, <1>8

(* What was true of an event stays true. *)
LEMMA EventStays ==
  ASSUME LogGrown, seen \in [Chats -> 0..MaxLog], seen' \in [Chats -> 0..MaxLog],
         \A c \in Chats : seen[c] <= seen'[c],
         NEW e \in Events, EventTrue(e)
  PROVE  EventTrue(e)'
BY TimelineNumbers DEF LogGrown, EventTrue, Events, T!Ids

LEMMA EventsStep == ASSUME TimelineInv, T!Next PROVE EventsTrue' /\ inbox' \in Seq(Events)
                                                     /\ seen' \in [Chats -> 0..MaxLog]
<1>1. LogGrown /\ inbox \in Seq(Events) /\ seen \in [Chats -> 0..MaxLog] /\ EventsTrue
      /\ tasks \subseteq Tasks
  BY LogStep, TypesAre DEF TimelineInv
<1>2. \A i \in DOMAIN inbox : inbox[i] \in Events
  BY <1>1, LenProperties
<1>3. ASSUME UNCHANGED <<inbox, seen>>
      PROVE  EventsTrue' /\ inbox' \in Seq(Events) /\ seen' \in [Chats -> 0..MaxLog]
  <2>1. \A c \in Chats : seen[c] <= seen'[c]
    BY <1>1, <1>3, TimelineNumbers
  <2> QED BY <1>1, <1>2, <1>3, <2>1, EventStays DEF EventsTrue
<1>4. ASSUME NEW e \in Events, EventTrue(e)', T!Tell(e),
             seen' \in [Chats -> 0..MaxLog], \A c \in Chats : seen[c] <= seen'[c]
      PROVE  EventsTrue' /\ inbox' \in Seq(Events)
  <2>1. ASSUME NEW j \in DOMAIN inbox, NEW x, x = inbox[j] PROVE EventTrue(x)'
    BY <1>1, <1>2, <1>4, <2>1, EventStays DEF EventsTrue
  <2>2. CASE inbox' = Append(inbox, e)
    <3>1. /\ inbox' \in Seq(Events)
          /\ \A i \in DOMAIN inbox' : inbox'[i] = e \/ \E j \in DOMAIN inbox : inbox'[i] = inbox[j]
      BY <1>1, <2>2, ComingAppend
    <3>2. ASSUME NEW i \in DOMAIN inbox', NEW x, x = inbox'[i] PROVE EventTrue(x)'
      BY <1>4, <2>1, <3>1, <3>2
    <3>3. EventsTrue'
      BY <3>2 DEF EventsTrue
    <3> QED BY <3>1, <3>3
  <2>3. CASE UNCHANGED inbox
    <3>1. ASSUME NEW i \in DOMAIN inbox', NEW x, x = inbox'[i] PROVE EventTrue(x)'
      BY <2>1, <2>3, <3>1
    <3>2. EventsTrue'
      BY <3>1 DEF EventsTrue
    <3> QED BY <1>1, <2>3, <3>2
  <2> QED BY <1>4, <2>2, <2>3 DEF T!Tell
<1>5. ASSUME NEW r \in Rows, Len(log) < MaxLog, log' = Append(log, r),
             T!Tell(T!NewMessage(Len(log'))) \/ UNCHANGED inbox, UNCHANGED seen
      PROVE  EventsTrue' /\ inbox' \in Seq(Events)
  <2>1. /\ Len(log') \in T!Ids \ DOMAIN log /\ log'[Len(log')] = r /\ Len(log') \in DOMAIN log'
    BY <1>1, <1>5, LogAppend DEF LogGrown
  <2>2. PICK e : e = [t |-> "new", chat |-> r.chat, id |-> Len(log')]
    OBVIOUS
  <2>3. e \in Events /\ e = T!NewMessage(Len(log'))
    BY <2>1, <2>2 DEF Events, Rows, T!NewMessage
  <2>4. EventTrue(e)'
    BY <2>1, <2>2 DEF EventTrue
  <2>5. seen' \in [Chats -> 0..MaxLog] /\ \A c \in Chats : seen[c] <= seen'[c]
    BY <1>1, <1>5, TimelineNumbers
  <2>6. CASE T!Tell(T!NewMessage(Len(log')))
    <3>1. T!Tell(e)
      BY <2>3, <2>6
    <3> QED BY <1>4, <2>3, <2>4, <2>5, <3>1
  <2> QED BY <1>3, <1>5, <2>6
<1>6. ASSUME NEW c \in Chats, T!PeerWrites(c)
      PROVE  EventsTrue' /\ inbox' \in Seq(Events) /\ UNCHANGED seen
  <2>1. [chat |-> c, mine |-> FALSE, gone |-> FALSE] \in Rows
    BY DEF Rows
  <2>2. UNCHANGED seen
    BY <1>6 DEF T!PeerWrites, T!past
  <2> QED BY <1>5, <1>6, <2>1, <2>2 DEF T!PeerWrites
<1>7. ASSUME NEW c \in Chats, NEW id \in DOMAIN log, T!PeerReads(c, id)
      PROVE  EventsTrue' /\ inbox' \in Seq(Events) /\ seen' \in [Chats -> 0..MaxLog]
  <2>1. PICK e : e = [t |-> "read", chat |-> c, id |-> id]
    OBVIOUS
  <2>2. id \in T!Ids /\ id \in 1..MaxLog
    BY <1>1, TimelineNumbers DEF LogGrown, T!Ids
  <2>3. e \in Events /\ T!Tell(e)
    BY <1>7, <2>1, <2>2 DEF Events, T!PeerReads
  <2>4. /\ seen' \in [Chats -> 0..MaxLog] /\ \A d \in Chats : seen[d] <= seen'[d]
        /\ log[id].chat = c => id <= seen'[c]
    <3>1. /\ seen' = IF log[id].chat = c /\ id > seen[c] THEN [seen EXCEPT ![c] = id] ELSE seen
          /\ \A d \in Chats : seen[d] \in 0..MaxLog
      BY <1>1, <1>7 DEF T!PeerReads
    <3>2. CASE log[id].chat = c /\ id > seen[c]
      <4>1. /\ seen' \in [Chats -> 0..MaxLog] /\ seen'[c] = id
            /\ \A d \in Chats : d # c => seen'[d] = seen[d]
        BY <1>1, <2>2, <3>1, <3>2, TimelineNumbers
      <4> QED BY <2>2, <3>1, <3>2, <4>1, TimelineNumbers
    <3>3. CASE ~(log[id].chat = c /\ id > seen[c])
      BY <1>1, <2>2, <3>1, <3>3, TimelineNumbers
    <3> QED BY <3>2, <3>3
  <2>5. log' = log
    BY <1>7 DEF T!PeerReads
  <2>6. EventTrue(e)'
    BY <2>1, <2>4, <2>5 DEF EventTrue
  <2> QED BY <1>4, <2>3, <2>4, <2>6
<1>8. ASSUME NEW t \in tasks, T!Serve(t)
      PROVE  EventsTrue' /\ inbox' \in Seq(Events) /\ UNCHANGED seen
  <2>1. UNCHANGED seen
    BY <1>8 DEF T!Serve, T!past
  <2>2. CASE UNCHANGED inbox
    BY <1>3, <2>1, <2>2
  <2>3. CASE t.op = "send" /\ ~UNCHANGED inbox
    <3>1. [chat |-> t.chat, mine |-> TRUE, gone |-> FALSE] \in Rows
      BY <1>1 DEF Rows, Tasks
    <3>2. Len(log) < MaxLog /\ log' = Append(log, [chat |-> t.chat, mine |-> TRUE, gone |-> FALSE])
          /\ T!Tell(T!NewMessage(Len(log')))
      BY <1>8, <2>3 DEF T!Serve
    <3> QED BY <1>5, <2>1, <3>1, <3>2
  <2> QED BY <1>8, <2>1, <2>2, <2>3 DEF T!Serve
<1>9. ASSUME inbox # <<>>, inbox' = Tail(inbox), UNCHANGED seen
      PROVE  EventsTrue' /\ inbox' \in Seq(Events)
  <2>1. /\ inbox' \in Seq(Events)
        /\ \A i \in DOMAIN inbox' : \E j \in DOMAIN inbox : inbox'[i] = inbox[j]
    BY <1>1, <1>9, ComingTail
  <2>2. \A c \in Chats : seen[c] <= seen'[c]
    BY <1>1, <1>9, TimelineNumbers
  <2>3. ASSUME NEW i \in DOMAIN inbox', NEW x, x = inbox'[i] PROVE EventTrue(x)'
    BY <1>1, <1>2, <1>9, <2>1, <2>2, <2>3, EventStays DEF EventsTrue
  <2>4. EventsTrue'
    BY <2>3 DEF EventsTrue
  <2> QED BY <2>1, <2>4
<1>10. CASE T!Cut
  <2>1. inbox' = <<>> /\ UNCHANGED seen
    BY <1>10 DEF T!Cut, T!past
  <2> QED BY <1>1, <2>1 DEF EventsTrue
<1>11. CASE T!OnNewMessage \/ T!OnRead
  BY <1>1, <1>9, <1>11 DEF T!OnNewMessage, T!OnRead
<1>12. UNCHANGED <<inbox, seen>> \/ T!Cut \/ T!OnNewMessage \/ T!OnRead
       \/ (\E c \in Chats : T!PeerWrites(c)) \/ (\E t \in tasks : T!Serve(t))
       \/ (\E c \in Chats, id \in DOMAIN log : T!PeerReads(c, id))
  BY DEF T!Next, T!PeerDeletes, T!Open, T!Reconnect, T!Reload, T!Close, T!LoadOlder, T!StartSend,
         T!StartDelete, T!Loaded, T!LoadFails, T!OlderLoaded, T!OlderFails, T!Sent, T!SendFails,
         T!Deleted, T!DeleteFails, T!past
<1> QED BY <1>1, <1>3, <1>6, <1>7, <1>8, <1>10, <1>11, <1>12

-----------------------------------------------------------------------------
(* A request that goes on, with the list and the MessageList it was made for or without. *)
GoesOn(u, t) ==
  /\ u \in Tasks
  /\ u.op = t.op /\ u.chat = t.chat /\ u.ids = t.ids
  /\ u.served = t.served /\ u.got = t.got /\ u.at = t.at
  /\ u.here => t.here /\ u.mounted
  /\ u.mounted => t.mounted /\ UNCHANGED timelineChat

LEMMA LiveStays ==
  ASSUME LogGrown, NEW c, NEW id \in T!Live(c)'
  PROVE  id \in DOMAIN log' /\ (id \in DOMAIN log => id \in T!Live(c))
BY DEF LogGrown, T!Live

LEMMA TaskStays ==
  ASSUME LogGrown, NEW t \in Tasks, TaskKept(t), PageWhole(t), NEW u, GoesOn(u, t)
  PROVE  TaskKept(u)' /\ PageWhole(u)'
<1>1. TaskKept(u)'
  BY TimelineNumbers DEF LogGrown, GoesOn, TaskKept, Tasks
<1>2. ASSUME NEW id \in Before(u)' PROVE id \in Before(t)
  <2>1. id \in T!Live(u.chat)' /\ id <= u.at /\ \A b \in u.ids : id < b
    BY <1>2 DEF Before
  <2>2. id \in DOMAIN log' /\ (id \in DOMAIN log => id \in T!Live(u.chat))
    BY <2>1, LiveStays
  <2>3. id \in DOMAIN log
    BY <2>1, <2>2, TimelineNumbers DEF LogGrown, GoesOn, TaskKept, Tasks
  <2> QED BY <2>1, <2>2, <2>3 DEF Before, GoesOn
<1>3. PageWhole(u)'
  BY <1>2 DEF PageWhole, GoesOn
<1> QED BY <1>1, <1>3

LEMMA TaskLeft ==
  ASSUME NEW t \in Tasks, TaskKept(t)
  PROVE  /\ GoesOn([t EXCEPT !.here = FALSE, !.mounted = FALSE], t)
         /\ UNCHANGED timelineChat => GoesOn(t, t) /\ GoesOn([t EXCEPT !.here = FALSE], t)
BY DEF Tasks, GoesOn, TaskKept

(* A request that is made. *)
LEMMA TaskNew ==
  ASSUME LogGrown, NEW n \in T!Slots, NEW c \in Chats, timelineChat' = c,
         NEW op \in {"load", "older", "send", "delete", "batch"},
         NEW S \in SUBSET (T!Ids \cup T!PendingIds),
         op = "load" => S = {},
         op = "older" => \A x, y \in S : x = y,
         op = "send" => S \cap T!Ids = {},
         op \in {"delete", "batch"} => S \subseteq DOMAIN log',
         NEW u, u = T!Request(n, op, c, S)
  PROVE  u \in Tasks /\ TaskKept(u)' /\ PageWhole(u)'
<1>1. /\ u.n = n /\ u.op = op /\ u.chat = c /\ u.ids = S /\ u.here /\ u.mounted /\ ~u.served
      /\ u.got = {} /\ u.at = 0
  BY DEF T!Request
<1>2. u \in Tasks
  BY TimelineNumbers DEF T!Request, Tasks
<1> QED BY <1>1, <1>2, TimelineNumbers DEF LogGrown, TaskKept, PageWhole

(* A request that the server has handled. *)
LEMMA TaskServed ==
  ASSUME LogGrown, UNCHANGED timelineChat, NEW t \in Tasks, TaskKept(t), ~t.served,
         NEW G \in SUBSET DOMAIN log', \A id \in G : log'[id].chat = t.chat,
         t.op = "send" => \A x, y \in G : x = y,
         t.op \in {"load", "older"} =>
           \A S : S = {id \in T!Live(t.chat)' : \A b \in t.ids : id < b} =>
             /\ \A y \in G, id \in S : y <= id => id \in G
             /\ G = {} => S = {},
         NEW u, u = [t EXCEPT !.served = TRUE, !.got = G, !.at = Len(log')]
  PROVE  u \in Tasks /\ TaskKept(u)' /\ PageWhole(u)'
<1>1. /\ u.op = t.op /\ u.chat = t.chat /\ u.ids = t.ids /\ u.here = t.here
      /\ u.mounted = t.mounted /\ u.served /\ u.got = G /\ u.at = Len(log')
  BY DEF Tasks
<1>2. u \in Tasks
  <2>1. G \in SUBSET T!Ids /\ Len(log') \in 0..MaxLog
    BY TimelineNumbers DEF LogGrown, T!Ids
  <2> QED BY <2>1 DEF Tasks
<1>3. TaskKept(u)'
  BY <1>1, TimelineNumbers DEF LogGrown, TaskKept, Tasks
<1>4. PageWhole(u)'
  <2> DEFINE S == {id \in T!Live(t.chat)' : \A b \in t.ids : id < b}
  <2>1. \A id \in T!Live(t.chat)' : id <= Len(log')
    BY DEF LogGrown, T!Live
  <2>2. Before(u)' = S
    BY <1>1, <2>1 DEF Before
  <2>3. t.op \in {"load", "older"} =>
          /\ \A y \in G, id \in S : y <= id => id \in G
          /\ G = {} => S = {}
    OBVIOUS
  <2> QED BY <1>1, <2>2, <2>3 DEF PageWhole
<1> QED BY <1>2, <1>3, <1>4

LEMMA TasksStep == ASSUME TimelineInv, T!Next PROVE TasksKept' /\ tasks' \subseteq Tasks
<1>1. LogGrown /\ tasks \subseteq Tasks /\ timelineChat \in Chats \cup {None}
      /\ \A t \in tasks : TaskKept(t) /\ PageWhole(t)
  BY LogStep, TypesAre DEF TimelineInv, TasksKept
<1> DEFINE Fine(u) == u \in Tasks /\ TaskKept(u)' /\ PageWhole(u)'
<1>2. SUFFICES ASSUME NEW u \in tasks' PROVE Fine(u)
  BY DEF TasksKept
<1>3. ASSUME NEW t \in tasks, GoesOn(u, t) PROVE Fine(u)
  BY <1>1, <1>3, TaskStays DEF GoesOn
<1>4. ASSUME UNCHANGED timelineChat, u \in tasks \cup T!Elsewhere(tasks) PROVE Fine(u)
  BY <1>1, <1>3, <1>4, TaskLeft DEF T!Elsewhere
<1>5. ASSUME u \in T!Unmounted(tasks) PROVE Fine(u)
  BY <1>1, <1>3, <1>5, TaskLeft DEF T!Unmounted
<1>6. CASE T!Reload
  <2>1. timelineChat \in Chats
    BY <1>1, <1>6 DEF T!Reload, TimelineInv, ListKept
  <2>2. u \in tasks \/ \E n \in T!Slots : u = T!Request(n, "load", timelineChat, {})
    BY <1>6 DEF T!Reload, T!Load, T!Ask
  <2>3. UNCHANGED timelineChat
    BY <1>6 DEF T!Reload
  <2> QED BY <1>1, <1>4, <2>1, <2>2, <2>3, TaskNew
<1>7. ASSUME NEW c \in Chats, T!Open(c) PROVE Fine(u)
  <2>1. u \in T!Unmounted(tasks) \/ \E n \in T!Slots : u = T!Request(n, "load", c, {})
    BY <1>7 DEF T!Open, T!Load, T!Ask
  <2>2. timelineChat' = c
    BY <1>7 DEF T!Open
  <2> QED BY <1>1, <1>5, <2>1, <2>2, TaskNew
<1>8. CASE T!Close
  BY <1>5, <1>8 DEF T!Close
<1>9. CASE T!LoadOlder
  <2>1. timelineChat \in Chats /\ UNCHANGED timelineChat
    BY <1>1, <1>9 DEF T!LoadOlder
  <2>2. u \in tasks \/ \E n \in T!Slots, id \in T!Shown : u = T!Request(n, "older", timelineChat, {id})
    BY <1>9 DEF T!LoadOlder, T!Ask
  <2>3. T!Shown \subseteq T!Ids \cup T!PendingIds
    BY TypesAre DEF TimelineInv
  <2>4. ASSUME NEW n \in T!Slots, NEW id \in T!Shown, u = T!Request(n, "older", timelineChat, {id})
        PROVE  Fine(u)
    BY <1>1, <2>1, <2>3, <2>4, TaskNew
  <2> QED BY <1>4, <2>1, <2>2, <2>4
<1>10. CASE T!StartSend
  <2>1. timelineChat \in Chats /\ UNCHANGED timelineChat
    BY <1>1, <1>10 DEF T!StartSend
  <2>2. u \in tasks \/ \E n \in T!Slots : u = T!Request(n, "send", timelineChat, {T!Pending(n)})
    BY <1>10 DEF T!StartSend
  <2>3. ASSUME NEW n \in T!Slots, u = T!Request(n, "send", timelineChat, {T!Pending(n)})
        PROVE  Fine(u)
    BY <1>1, <2>1, <2>3, IdFacts, TaskNew
  <2> QED BY <1>4, <2>1, <2>2, <2>3
<1>11. ASSUME NEW op \in {"delete", "batch"}, NEW S \in SUBSET T!Shown, T!StartDelete(op, S)
       PROVE  Fine(u)
  <2>1. timelineChat \in Chats /\ UNCHANGED <<timelineChat, log>>
    BY <1>1, <1>11 DEF T!StartDelete
  <2>2. u \in tasks \/ \E n \in T!Slots : u = T!Request(n, op, timelineChat, S)
    BY <1>11 DEF T!StartDelete, T!Ask
  <2>3. S \subseteq T!Ids /\ S \subseteq DOMAIN log
    BY <1>11 DEF T!StartDelete, TimelineInv, ListKept
  <2>4. ASSUME NEW n \in T!Slots, u = T!Request(n, op, timelineChat, S)
        PROVE  Fine(u)
    BY <1>1, <2>1, <2>3, <2>4, TaskNew
  <2> QED BY <1>4, <2>1, <2>2, <2>4
<1>12. ASSUME NEW t \in tasks, T!Serve(t) PROVE Fine(u)
  <2> DEFINE Rest(G) == u = [t EXCEPT !.served = TRUE, !.got = G, !.at = Len(log')]
  <2>1. UNCHANGED timelineChat /\ ~t.served /\ t \in Tasks /\ TaskKept(t)
    BY <1>1, <1>12 DEF T!Serve
  <2>2. CASE u \in tasks
    BY <1>4, <2>1, <2>2
  <2>3. ASSUME t.op \in {"load", "older"}, UNCHANGED log, NEW b, NEW m \in Nat \ {0},
               {id \in T!Live(t.chat) : \A x \in t.ids : id < x}
                 = {id \in T!Live(t.chat) : id < b},
               NEW G \in T!Newest(t.chat, b, m), Rest(G)
        PROVE  Fine(u)
    <3> DEFINE S == {id \in T!Live(t.chat) : id < b}
    <3>1. /\ G \subseteq S /\ Cardinality(G) <= m /\ (G # S => Cardinality(G) = m)
          /\ \A x \in G, y \in S \ G : y < x
      BY <2>3, SameCount DEF T!Newest
    <3>2. S \subseteq DOMAIN log /\ S \subseteq Nat /\ \A id \in S : log[id].chat = t.chat
      BY <1>1 DEF LogGrown, T!Live
    <3>3. \A y \in G, id \in S : y <= id => id \in G
      BY <3>1, <3>2
    <3>4. G = {} => S = {}
      BY <2>3, <3>1, FS_EmptySet
    <3>5. T!Live(t.chat)' = T!Live(t.chat)
      BY <2>3 DEF T!Live
    <3>6. G \in SUBSET DOMAIN log' /\ \A id \in G : log'[id].chat = t.chat
      BY <2>3, <3>1, <3>2
    <3> HIDE DEF S
    <3>7. {id \in T!Live(t.chat)' : \A x \in t.ids : id < x} = S
      BY <2>3, <3>5 DEF S
    <3> QED BY <1>1, <2>1, <2>3, <3>3, <3>4, <3>6, <3>7, TaskServed
  <2>4. CASE t.op = "load" /\ UNCHANGED log /\ \E G \in T!Newest(t.chat, MaxLog + 1, Page) : Rest(G)
    <3>1. t.ids = {} /\ Page \in Nat \ {0}
      BY <2>1, <2>4, TimelineNumbers DEF TaskKept
    <3>2. \A id \in T!Live(t.chat) : id < MaxLog + 1
      BY <1>1, TimelineNumbers DEF LogGrown, T!Live
    <3>3. {id \in T!Live(t.chat) : \A x \in t.ids : id < x} = {id \in T!Live(t.chat) : id < MaxLog + 1}
      BY <3>1, <3>2
    <3> QED BY <2>3, <2>4, <3>1, <3>3
  <2>7. CASE t.op = "older" /\ UNCHANGED log
             /\ \E b \in t.ids : \E G \in T!Newest(t.chat, b, OlderPage) : Rest(G)
    <3>1. PICK b \in t.ids : \E G \in T!Newest(t.chat, b, OlderPage) : Rest(G)
      BY <2>7
    <3>2. t.ids = {b} /\ OlderPage \in Nat \ {0}
      BY <2>1, <2>7, TimelineNumbers DEF TaskKept
    <3>3. {id \in T!Live(t.chat) : \A x \in t.ids : id < x} = {id \in T!Live(t.chat) : id < b}
      BY <3>2
    <3> QED BY <2>3, <2>7, <3>1, <3>2, <3>3
  <2>5. CASE t.op = "send" /\ Rest({Len(log')}) /\ Len(log) < MaxLog
             /\ log' = Append(log, [chat |-> t.chat, mine |-> TRUE, gone |-> FALSE])
    <3>1. [chat |-> t.chat, mine |-> TRUE, gone |-> FALSE] \in Rows
      BY <2>1 DEF Rows, Tasks
    <3>2. Len(log') \in DOMAIN log' /\ log'[Len(log')].chat = t.chat
      BY <1>1, <2>5, <3>1, LogAppend DEF LogGrown
    <3> QED BY <1>1, <2>1, <2>5, <3>2, TaskServed
  <2>6. CASE t.op \in {"delete", "batch"} /\ Rest({})
    BY <1>1, <2>1, <2>6, TaskServed
  <2> QED BY <1>12, <2>2, <2>4, <2>5, <2>6, <2>7 DEF T!Serve, T!Answered
<1>13. UNCHANGED <<tasks, timelineChat>> \/ T!Reload \/ T!Close \/ T!LoadOlder \/ T!StartSend
       \/ (\E c \in Chats : T!Open(c)) \/ (\E t \in tasks : T!Serve(t))
       \/ (\E op \in {"delete", "batch"}, S \in SUBSET T!Shown : T!StartDelete(op, S))
       \/ (u \in tasks \cup T!Elsewhere(tasks) /\ UNCHANGED timelineChat)
  BY DEF T!Next, T!PeerWrites, T!PeerDeletes, T!PeerReads, T!Cut, T!Reconnect, T!OnNewMessage,
         T!OnRead, T!Loaded, T!LoadFails, T!OlderLoaded, T!OlderFails, T!Sent, T!SendFails,
         T!Deleted, T!DeleteFails, T!Elsewhere
<1> QED BY <1>4, <1>6, <1>7, <1>8, <1>9, <1>10, <1>11, <1>12, <1>13

-----------------------------------------------------------------------------
(* What is added to a list and taken from it. *)
LEMMA ListFacts ==
  ASSUME NEW D, NEW l \in [D -> {1}], NEW S
  PROVE  /\ T!Added(S, l) \in [D \cup S -> {1}]
         /\ DOMAIN T!Added(S, l) = D \cup S
BY DEF T!Added

LEMMA WithoutFacts ==
  ASSUME list \in [T!Shown -> {1}], NEW S
  PROVE  T!Without(S) \in [T!Shown \ S -> {1}] /\ DOMAIN T!Without(S) = T!Shown \ S
BY DEF T!Without

LEMMA EmptyFacts == T!Empty \in [{} -> {1}] /\ DOMAIN T!Empty = {}
BY DEF T!Empty

(* The types of the list, with each message once. *)
ListOnce == /\ list \in [T!Shown -> {1}] /\ marked \subseteq T!Shown
            /\ T!Shown \subseteq T!Ids \cup T!PendingIds

LEMMA OnceIs == T!TypeOK /\ T!ShownOnce => ListOnce
BY DEF T!TypeOK, T!ShownOnce, ListOnce

(* The list after a step that leaves it alone, or takes something from it or puts A into it. *)
LEMMA ListAfter ==
  ASSUME TimelineInv, LogGrown, NEW A \in SUBSET DOMAIN log',
         T!Shown' \subseteq T!Shown \cup A,
         ~stale' => /\ \A id \in A : log'[id].chat = timelineChat'
                    /\ T!Shown' \subseteq A \/ (~stale /\ UNCHANGED timelineChat),
         \A t \in tasks : t.op = "send" /\ (\E p \in T!Shown' \ T!Ids : t.ids = {p}) =>
           \E u \in tasks' : u.op = "send" /\ u.ids = t.ids,
         timelineTimer' => timelineChat' # None
  PROVE  ListKept' /\ T!Shown' \subseteq T!Ids \cup T!PendingIds
<1>1. A \subseteq T!Ids
  BY TimelineNumbers DEF LogGrown, T!Ids
<1>2. ListKept
  BY DEF TimelineInv
<1>3. (T!Shown \cap T!Ids \subseteq DOMAIN log)'
  BY <1>2 DEF ListKept, LogGrown, T!Ids
<1>4. (~stale => \A id \in T!Shown \cap T!Ids : log[id].chat = timelineChat)'
  <2>1. SUFFICES ASSUME ~stale', NEW id \in T!Shown' \cap T!Ids, id \notin A
                 PROVE  log'[id].chat = timelineChat'
    BY DEF T!Ids
  <2>2. id \in T!Shown \cap T!Ids /\ ~stale /\ UNCHANGED timelineChat
    BY <2>1
  <2> QED BY <1>2, <2>2 DEF ListKept, LogGrown
<1>5. (\A p \in T!Shown \ T!Ids : \E t \in tasks : t.op = "send" /\ t.ids = {p})'
  <2>1. SUFFICES ASSUME NEW p \in T!Shown' \ T!Ids
                 PROVE  \E u \in tasks' : u.op = "send" /\ u.ids = {p}
    BY DEF T!Ids
  <2>2. p \in T!Shown \ T!Ids
    BY <1>1, <2>1
  <2>3. PICK t \in tasks : t.op = "send" /\ t.ids = {p}
    BY <1>2, <2>2 DEF ListKept
  <2> QED BY <2>1, <2>3
<1>6. T!Shown' \subseteq T!Ids \cup T!PendingIds
  BY <1>1, TypesAre DEF TimelineInv
<1> QED BY <1>3, <1>4, <1>5, <1>6 DEF ListKept

(* The requests that go on. *)
LEMMA SendsLeft ==
  ASSUME tasks \subseteq Tasks, NEW R, R \subseteq tasks,
         \/ R \subseteq tasks'
         \/ tasks' \cap T!Elsewhere(R) = T!Elsewhere(R)
         \/ tasks' \cap T!Unmounted(R) = T!Unmounted(R)
  PROVE  \A t \in R : \E u \in tasks' : u.op = t.op /\ u.ids = t.ids /\ u.got = t.got
<1> SUFFICES ASSUME NEW t \in R
             PROVE  \E u \in tasks' : u.op = t.op /\ u.ids = t.ids /\ u.got = t.got
  OBVIOUS
<1>1. t \in Tasks
  OBVIOUS
<1>2. CASE tasks' \cap T!Elsewhere(R) = T!Elsewhere(R)
  <2>1. [t EXCEPT !.here = FALSE] \in tasks'
    BY <1>2 DEF T!Elsewhere
  <2>2. [t EXCEPT !.here = FALSE].op = t.op /\ [t EXCEPT !.here = FALSE].ids = t.ids
        /\ [t EXCEPT !.here = FALSE].got = t.got
    BY <1>1 DEF Tasks
  <2> QED BY <2>1, <2>2
<1>3. CASE tasks' \cap T!Unmounted(R) = T!Unmounted(R)
  <2>1. [t EXCEPT !.here = FALSE, !.mounted = FALSE] \in tasks'
    BY <1>3 DEF T!Unmounted
  <2>2. /\ [t EXCEPT !.here = FALSE, !.mounted = FALSE].op = t.op
        /\ [t EXCEPT !.here = FALSE, !.mounted = FALSE].ids = t.ids
        /\ [t EXCEPT !.here = FALSE, !.mounted = FALSE].got = t.got
    BY <1>1 DEF Tasks
  <2> QED BY <2>1, <2>2
<1>4. CASE R \subseteq tasks'
  BY <1>4
<1> QED BY <1>2, <1>3, <1>4

(* A sending goes on, or what it showed as pending is no more and what the server made of it is *)
(* shown or lost.                                                                              *)
LEMMA SendsStay ==
  ASSUME TimelineInv, T!Next, NEW t \in tasks, t.op = "send"
  PROVE  \/ \E u \in tasks' : u.op = "send" /\ u.ids = t.ids /\ t.got \subseteq u.got
         \/ T!Shown' \cap t.ids = {} /\ t.got \subseteq T!Shown' \cup lost'
<1>1. tasks \subseteq Tasks /\ ListOnce /\ TaskKept(t)
  BY TypesAre, OnceIs DEF TimelineInv, TasksKept
<1> DEFINE Stays == \E u \in tasks' : u.op = "send" /\ u.ids = t.ids /\ t.got \subseteq u.got
           Ends == T!Shown' \cap t.ids = {} /\ t.got \subseteq T!Shown' \cup lost'
<1>2. ASSUME NEW R \in SUBSET tasks, t \in R,
             \/ R \subseteq tasks' \/ T!Elsewhere(R) \subseteq tasks' \/ T!Unmounted(R) \subseteq tasks'
      PROVE  Stays
  BY <1>1, <1>2, SendsLeft
<1>3. ASSUME NEW s \in tasks, T!Serve(s) PROVE Stays
  <2>1. CASE s # t
    <3>1. t \in tasks'
      BY <1>3, <2>1 DEF T!Serve, T!Answered
    <3> QED BY <3>1
  <2>2. CASE s = t
    <3>1. [t EXCEPT !.served = TRUE, !.got = {Len(log')}, !.at = Len(log')] \in tasks' /\ ~t.served
      BY <1>3, <2>2 DEF T!Serve, T!Answered
    <3>2. PICK u \in tasks' : u = [t EXCEPT !.served = TRUE, !.got = {Len(log')}, !.at = Len(log')]
      BY <3>1
    <3>3. u.op = t.op /\ u.ids = t.ids /\ t.got = {}
      BY <1>1, <3>1, <3>2 DEF Tasks, TaskKept
    <3> QED BY <3>2, <3>3
  <2> QED BY <2>1, <2>2
<1>4. ASSUME NEW s \in tasks, T!Sent(s) PROVE Stays \/ Ends
  <2>1. CASE s # t
    BY <1>4, <2>1 DEF T!Sent
  <2>2. CASE s = t
    <3>1. PICK id \in t.got : list' = T!Added({id}, T!Without(t.ids))
      BY <1>4, <2>2 DEF T!Sent
    <3>2. T!Shown' = (T!Shown \ t.ids) \cup {id}
      BY <1>1, <3>1, WithoutFacts, ListFacts DEF T!Shown, ListOnce
    <3>3. t.got = {id} /\ id \in T!Ids /\ t.ids \cap T!Ids = {}
      BY <1>1 DEF TaskKept, Tasks
    <3> QED BY <3>2, <3>3
  <2> QED BY <2>1, <2>2
<1>5. ASSUME NEW s \in tasks, T!SendFails(s) PROVE Stays \/ Ends
  <2>1. CASE s # t
    BY <1>5, <2>1 DEF T!SendFails
  <2>2. CASE s = t
    <3>1. T!Shown' = T!Shown \ t.ids /\ lost' = lost \cup t.got
      BY <1>1, <1>5, <2>2, WithoutFacts DEF T!Shown, T!SendFails, ListOnce
    <3> QED BY <3>1
  <2> QED BY <2>1, <2>2
<1>6. ASSUME NEW s \in tasks, s # t,
             \/ T!Loaded(s) \/ T!LoadFails(s) \/ T!OlderLoaded(s)
             \/ T!OlderFails(s) \/ T!Deleted(s) \/ T!DeleteFails(s)
      PROVE  Stays
  <2>1. tasks \ {s} \subseteq tasks' \/ T!Elsewhere(tasks \ {s}) \subseteq tasks'
    BY <1>6 DEF T!Loaded, T!LoadFails, T!OlderLoaded, T!OlderFails, T!Deleted, T!DeleteFails
  <2> QED BY <1>2, <1>6, <2>1
<1>7. ASSUME NEW s \in tasks,
             \/ T!Loaded(s) \/ T!LoadFails(s) \/ T!OlderLoaded(s)
             \/ T!OlderFails(s) \/ T!Deleted(s) \/ T!DeleteFails(s)
      PROVE  s # t
  BY <1>7 DEF T!Loaded, T!LoadFails, T!OlderLoaded, T!OlderFails, T!Deleted, T!DeleteFails
<1>8. CASE tasks \subseteq tasks' \/ T!Unmounted(tasks) \subseteq tasks'
  BY <1>2, <1>8
<1>9. \/ tasks \subseteq tasks' \/ T!Unmounted(tasks) \subseteq tasks'
      \/ \E s \in tasks : T!Serve(s) \/ T!Sent(s) \/ T!SendFails(s)
      \/ \E s \in tasks : \/ T!Loaded(s) \/ T!LoadFails(s) \/ T!OlderLoaded(s)
                          \/ T!OlderFails(s) \/ T!Deleted(s) \/ T!DeleteFails(s)
  BY DEF T!Next, T!PeerWrites, T!PeerDeletes, T!PeerReads, T!Cut, T!Reconnect, T!Reload, T!Load,
         T!Ask, T!Open, T!Close, T!OnNewMessage, T!OnRead, T!LoadOlder, T!StartSend, T!StartDelete
<1> QED BY <1>3, <1>4, <1>5, <1>6, <1>7, <1>8, <1>9

LEMMA ListStep == ASSUME TimelineInv, T!Next PROVE ListOnce' /\ ListKept'
<1>1. LogGrown /\ tasks \subseteq Tasks /\ ListOnce /\ ListKept /\ TasksKept /\ EventsTrue
      /\ {timelineUp, timelineTimer, loading, done, stale, endHere} \subseteq BOOLEAN
      /\ inbox \in Seq(Events)
  BY LogStep, TypesAre, OnceIs DEF TimelineInv
<1>2. \A t \in tasks : t.op = "send" /\ (\E p \in T!Shown' \ T!Ids : t.ids = {p}) =>
        \E u \in tasks' : u.op = "send" /\ u.ids = t.ids
  BY SendsStay
<1>3. ASSUME NEW A \in SUBSET DOMAIN log', T!Shown' \subseteq T!Shown \cup A,
             ~stale' => /\ \A id \in A : log'[id].chat = timelineChat'
                        /\ T!Shown' \subseteq A \/ (~stale /\ UNCHANGED timelineChat),
             timelineTimer' => timelineChat' # None,
             list' \in [T!Shown' -> {1}], marked' \subseteq T!Shown'
      PROVE  ListOnce' /\ ListKept'
  <2>1. ListKept' /\ T!Shown' \subseteq T!Ids \cup T!PendingIds
    BY <1>1, <1>2, <1>3, ListAfter
  <2> QED BY <1>3, <2>1 DEF ListOnce, T!Ids, T!PendingIds, T!Slots, T!Pending
<1>4. ASSUME UNCHANGED list, marked' \subseteq T!Shown', timelineTimer' => timelineChat' # None,
             stale' \/ UNCHANGED <<stale, timelineChat>>
      PROVE  ListOnce' /\ ListKept'
  <2>1. {} \in SUBSET DOMAIN log' /\ T!Shown' \subseteq T!Shown \cup {} /\ T!Shown' = T!Shown
    BY <1>4 DEF T!Shown
  <2>2. ~stale' => /\ \A id \in {} : log'[id].chat = timelineChat'
                   /\ T!Shown' \subseteq {} \/ (~stale /\ UNCHANGED timelineChat)
    BY <1>1, <1>4
  <2>3. list' \in [T!Shown' -> {1}]
    BY <1>1, <1>4, <2>1 DEF ListOnce
  <2> QED BY <1>3, <1>4, <2>1, <2>2, <2>3
<1>5. \/ UNCHANGED <<list, marked>> /\ (timelineTimer' => timelineChat' # None)
         /\ (stale' \/ UNCHANGED <<stale, timelineChat>>)
      \/ T!Close \/ T!OnNewMessage \/ T!OnRead \/ T!StartSend
      \/ \E t \in tasks : \/ T!Loaded(t) \/ T!LoadFails(t) \/ T!OlderLoaded(t) \/ T!Sent(t)
                          \/ T!SendFails(t) \/ T!Deleted(t)
  BY <1>1
  DEF ListKept, T!Next, T!PeerWrites, T!PeerDeletes, T!PeerReads, T!Cut, T!Reconnect, T!Armed,
      T!Reload, T!Open, T!LoadOlder, T!StartDelete, T!Serve, T!OlderFails, T!DeleteFails, T!rows, T!past
<1>15. ASSUME UNCHANGED <<list, marked>> PROVE marked' \subseteq T!Shown'
  BY <1>1, <1>15 DEF ListOnce, T!Shown
<1>6. ASSUME T!Close PROVE ListOnce' /\ ListKept'
  <2>1. list' = T!Empty /\ marked' = {} /\ timelineTimer' = FALSE
    BY <1>6 DEF T!Close
  <2>2. T!Shown' = {} /\ list' \in [{} -> {1}]
    BY <2>1, EmptyFacts DEF T!Shown
  <2>3. {} \in SUBSET DOMAIN log' /\ T!Shown' \subseteq T!Shown \cup {}
        /\ (~stale' => /\ \A id \in {} : log'[id].chat = timelineChat'
                       /\ T!Shown' \subseteq {} \/ (~stale /\ UNCHANGED timelineChat))
    BY <2>2
  <2> QED BY <1>3, <2>1, <2>2, <2>3
<1>7. ASSUME T!OnNewMessage PROVE ListOnce' /\ ListKept'
  <2> DEFINE e == Head(inbox)
  <2>1. UNCHANGED <<log, stale, timelineChat, timelineTimer>> /\ e.t = "new" /\ inbox # <<>>
        /\ inbox' = Tail(inbox)
    BY <1>7 DEF T!OnNewMessage
  <2>2. e.id \in DOMAIN log /\ log[e.id].chat = e.chat
    <3>1. \E j \in DOMAIN inbox : e = inbox[j]
      BY <1>1, <2>1, ComingTail
    <3> QED BY <1>1, <2>1, <3>1 DEF EventsTrue, EventTrue
  <2>3. CASE UNCHANGED <<list, marked>>
    BY <1>1, <1>4, <1>15, <2>1, <2>3 DEF ListKept
  <2>4. CASE /\ e.chat = timelineChat /\ marked' = marked \cap T!Shown'
             /\ \E D : list' = T!Added({e.id}, T!Without(D))
    <3>1. PICK D : list' = T!Added({e.id}, T!Without(D))
      BY <2>4
    <3>2. T!Shown' = (T!Shown \ D) \cup {e.id} /\ list' \in [T!Shown' -> {1}]
      BY <1>1, <3>1, WithoutFacts, ListFacts DEF T!Shown, ListOnce
    <3> DEFINE A == {e.id}
    <3>3. A \in SUBSET DOMAIN log' /\ T!Shown' \subseteq T!Shown \cup A
          /\ \A id \in A : log'[id].chat = timelineChat'
      BY <2>1, <2>2, <2>4, <3>2
    <3>4. marked' \subseteq T!Shown'
      BY <2>4
    <3> HIDE DEF A
    <3> QED BY <1>1, <1>3, <2>1, <3>2, <3>3, <3>4 DEF ListKept
  <2>5. CASE /\ e.chat = timelineChat /\ marked' = marked \cap T!Shown'
             /\ list' = T!Added({e.id}, list)
    <3>1. T!Shown' = T!Shown \cup {e.id} /\ list' \in [T!Shown' -> {1}]
      BY <1>1, <2>5, ListFacts DEF T!Shown, ListOnce
    <3> DEFINE A == {e.id}
    <3>2. A \in SUBSET DOMAIN log' /\ T!Shown' \subseteq T!Shown \cup A
          /\ \A id \in A : log'[id].chat = timelineChat'
      BY <2>1, <2>2, <2>5, <3>1
    <3>3. marked' \subseteq T!Shown'
      BY <2>5
    <3> HIDE DEF A
    <3> QED BY <1>1, <1>3, <2>1, <3>1, <3>2, <3>3 DEF ListKept
  <2> QED BY <1>7, <2>3, <2>4, <2>5 DEF T!OnNewMessage, T!ForThisChat, T!MarksAfter, T!rows, T!Shown
<1>8. ASSUME T!OnRead PROVE ListOnce' /\ ListKept'
  <2>1. UNCHANGED <<list, stale, timelineChat, timelineTimer>>
        /\ marked' \subseteq marked \cup T!Shown
    BY <1>8 DEF T!OnRead, T!past
  <2>2. marked' \subseteq T!Shown'
    BY <1>1, <2>1 DEF ListOnce, T!Shown
  <2> QED BY <1>1, <1>4, <2>1, <2>2 DEF ListKept
<1>9. ASSUME T!StartSend PROVE ListOnce' /\ ListKept'
  <2>1. PICK n \in T!Slots : /\ tasks' = tasks \cup {T!Request(n, "send", timelineChat, {T!Pending(n)})}
                             /\ list' = T!Added({T!Pending(n)}, list)
    BY <1>9 DEF T!StartSend
  <2>2. UNCHANGED <<log, timelineChat, timelineTimer, marked, stale>>
    BY <1>9 DEF T!StartSend, T!past
  <2>3. T!Shown' = T!Shown \cup {T!Pending(n)} /\ list' \in [T!Shown' -> {1}]
    BY <1>1, <2>1, ListFacts DEF T!Shown, ListOnce
  <2>4. T!Pending(n) \in T!PendingIds /\ T!Pending(n) \notin T!Ids
    BY IdFacts
  <2>5. ListOnce'
    BY <1>1, <2>2, <2>3, <2>4 DEF ListOnce, T!Ids, T!PendingIds, T!Slots, T!Pending
  <2>6. \E t \in tasks' : t.op = "send" /\ t.ids = {T!Pending(n)}
    <3>1. PICK t : t = T!Request(n, "send", timelineChat, {T!Pending(n)})
      OBVIOUS
    <3>2. t.op = "send" /\ t.ids = {T!Pending(n)}
      BY <3>1 DEF T!Request
    <3> QED BY <2>1, <3>1, <3>2
  <2>7. (\A p \in T!Shown \ T!Ids : \E t \in tasks : t.op = "send" /\ t.ids = {p})'
    <3>1. SUFFICES ASSUME NEW p \in T!Shown' \ T!Ids
                   PROVE  \E t \in tasks' : t.op = "send" /\ t.ids = {p}
      BY DEF T!Ids
    <3>2. CASE p = T!Pending(n)
      BY <2>6, <3>2
    <3>3. CASE p \in T!Shown
      BY <1>1, <2>1, <3>1, <3>3 DEF ListKept
    <3> QED BY <2>3, <3>1, <3>2, <3>3
  <2>8. T!Shown' \cap T!Ids = T!Shown \cap T!Ids
    BY <2>3, <2>4
  <2> QED BY <1>1, <2>2, <2>5, <2>7, <2>8 DEF ListKept, T!Ids
<1>10. ASSUME NEW t \in tasks, T!Loaded(t) PROVE ListOnce' /\ ListKept'
  <2>1. /\ list' = T!Added(t.got, T!Empty) /\ marked' = {} /\ stale' = (t.chat # timelineChat)
        /\ UNCHANGED <<log, timelineChat, timelineTimer>>
    BY <1>10 DEF T!Loaded
  <2>2. T!Shown' = t.got /\ list' \in [T!Shown' -> {1}]
    <3>1. list' \in [{} \cup t.got -> {1}] /\ DOMAIN list' = {} \cup t.got
      BY <2>1, EmptyFacts, ListFacts
    <3> QED BY <3>1 DEF T!Shown
  <2>3. t.got \in SUBSET DOMAIN log' /\ \A id \in t.got : log'[id].chat = t.chat
    BY <1>1, <2>1 DEF TasksKept, TaskKept
  <2> QED BY <1>1, <1>3, <2>1, <2>2, <2>3 DEF ListKept
<1>11. ASSUME NEW t \in tasks, T!LoadFails(t) PROVE ListOnce' /\ ListKept'
  <2>1. /\ list' = T!Empty /\ marked' = {} /\ UNCHANGED <<timelineChat, timelineTimer>>
    BY <1>11 DEF T!LoadFails
  <2>2. T!Shown' = {} /\ list' \in [T!Shown' -> {1}]
    BY <2>1, EmptyFacts DEF T!Shown
  <2>3. {} \in SUBSET DOMAIN log' /\ T!Shown' \subseteq T!Shown \cup {}
        /\ (~stale' => /\ \A id \in {} : log'[id].chat = timelineChat'
                       /\ T!Shown' \subseteq {} \/ (~stale /\ UNCHANGED timelineChat))
    BY <2>2
  <2> QED BY <1>1, <1>3, <2>1, <2>2, <2>3 DEF ListKept
<1>12. ASSUME NEW t \in tasks, T!OlderLoaded(t) PROVE ListOnce' /\ ListKept'
  <2>1. /\ list' = T!Added(t.got, list) /\ stale' = (stale \/ ~t.here)
        /\ UNCHANGED <<log, timelineChat, timelineTimer, marked>>
    BY <1>12 DEF T!OlderLoaded
  <2>2. T!Shown' = T!Shown \cup t.got /\ list' \in [T!Shown' -> {1}]
    BY <1>1, <2>1, ListFacts DEF T!Shown, ListOnce
  <2>3. t.got \in SUBSET DOMAIN log' /\ (t.here => \A id \in t.got : log'[id].chat = timelineChat')
    BY <1>1, <2>1 DEF TasksKept, TaskKept
  <2>4. marked' \subseteq T!Shown'
    BY <1>1, <2>1, <2>2 DEF ListOnce
  <2> QED BY <1>1, <1>3, <2>1, <2>2, <2>3, <2>4 DEF ListKept
<1>13. ASSUME NEW t \in tasks, T!Sent(t) PROVE ListOnce' /\ ListKept'
  <2>1. /\ stale' = (stale \/ t.chat # timelineChat) /\ marked' = marked \cap T!Shown'
        /\ UNCHANGED <<log, timelineChat, timelineTimer>>
    BY <1>13 DEF T!Sent, T!MarksAfter, T!Shown
  <2>2. PICK id \in t.got : list' = T!Added({id}, T!Without(t.ids))
    BY <1>13 DEF T!Sent
  <2>3. T!Shown' = (T!Shown \ t.ids) \cup {id} /\ list' \in [T!Shown' -> {1}]
    <3> DEFINE l == T!Without(t.ids)
    <3>1. l \in [T!Shown \ t.ids -> {1}]
      BY <1>1, WithoutFacts DEF ListOnce
    <3> HIDE DEF l
    <3>2. T!Added({id}, l) \in [(T!Shown \ t.ids) \cup {id} -> {1}]
          /\ DOMAIN T!Added({id}, l) = (T!Shown \ t.ids) \cup {id}
      BY <3>1, ListFacts
    <3> QED BY <2>2, <3>2 DEF l, T!Shown
  <2> DEFINE A == {id}
  <2>4. A \in SUBSET DOMAIN log' /\ T!Shown' \subseteq T!Shown \cup A
        /\ \A x \in A : log'[x].chat = t.chat
    BY <1>1, <2>1, <2>3 DEF TasksKept, TaskKept
  <2>5. marked' \subseteq T!Shown'
    BY <2>1
  <2> HIDE DEF A
  <2> QED BY <1>1, <1>3, <2>1, <2>3, <2>4, <2>5 DEF ListKept
<1>14. ASSUME NEW t \in tasks, T!SendFails(t) \/ T!Deleted(t) PROVE ListOnce' /\ ListKept'
  <2>1. /\ list' = T!Without(t.ids) /\ marked' = marked \cap T!Shown'
        /\ UNCHANGED <<timelineChat, timelineTimer, stale>>
    BY <1>14 DEF T!SendFails, T!Deleted, T!MarksAfter, T!Shown
  <2>2. T!Shown' = T!Shown \ t.ids /\ list' \in [T!Shown' -> {1}]
    BY <1>1, <2>1, WithoutFacts DEF T!Shown, ListOnce
  <2>3. {} \in SUBSET DOMAIN log' /\ T!Shown' \subseteq T!Shown \cup {}
        /\ (~stale' => /\ \A id \in {} : log'[id].chat = timelineChat'
                       /\ T!Shown' \subseteq {} \/ (~stale /\ UNCHANGED timelineChat))
    BY <1>1, <2>1, <2>2
  <2>4. marked' \subseteq T!Shown'
    BY <2>1
  <2> QED BY <1>1, <1>3, <2>1, <2>2, <2>3, <2>4 DEF ListKept
<1> QED BY <1>4, <1>5, <1>6, <1>7, <1>8, <1>9, <1>10, <1>11, <1>12, <1>13, <1>14, <1>15

LEMMA FlagsStep ==
  ASSUME TimelineInv, T!Next
  PROVE  /\ {timelineUp', timelineTimer', loading', done', stale', endHere'} \subseteq BOOLEAN
         /\ timelineChat' \in Chats \cup {None}
<1>1. /\ tasks \subseteq Tasks /\ timelineChat \in Chats \cup {None}
      /\ {timelineUp, timelineTimer, loading, done, stale, endHere} \subseteq BOOLEAN
  BY TypesAre DEF TimelineInv
<1>2. \A t \in tasks : {t.here, t.mounted} \subseteq BOOLEAN
  BY <1>1 DEF Tasks
<1>3. timelineChat' \in Chats \cup {None}
  BY <1>1
  DEF T!Next, T!PeerWrites, T!PeerDeletes, T!PeerReads, T!Cut, T!Reconnect, T!Reload, T!Open, T!Close,
      T!OnNewMessage, T!OnRead, T!LoadOlder, T!StartSend, T!StartDelete, T!Serve, T!Loaded,
      T!LoadFails, T!OlderLoaded, T!OlderFails, T!Sent, T!SendFails, T!Deleted, T!DeleteFails
<1>4. {timelineUp', timelineTimer'} \subseteq BOOLEAN
  BY <1>1
  DEF T!Next, T!PeerWrites, T!PeerDeletes, T!PeerReads, T!Cut, T!Reconnect, T!Armed, T!Reload, T!Open,
      T!Close, T!OnNewMessage, T!OnRead, T!LoadOlder, T!StartSend, T!StartDelete, T!Serve, T!Loaded,
      T!LoadFails, T!OlderLoaded, T!OlderFails, T!Sent, T!SendFails, T!Deleted, T!DeleteFails
<1>5. {loading', done', endHere'} \subseteq BOOLEAN
  BY <1>1, <1>2
  DEF T!Next, T!PeerWrites, T!PeerDeletes, T!PeerReads, T!Cut, T!Reconnect, T!Reload, T!Open,
      T!Close, T!OnNewMessage, T!OnRead, T!LoadOlder, T!StartSend, T!StartDelete, T!Serve, T!Loaded,
      T!LoadFails, T!OlderLoaded, T!OlderFails, T!Sent, T!SendFails, T!Deleted, T!DeleteFails,
      T!ends, T!EndAfter, T!NoMore
<1>6. stale' \in BOOLEAN
  BY <1>1, <1>2
  DEF T!Next, T!PeerWrites, T!PeerDeletes, T!PeerReads, T!Cut, T!Reconnect, T!Reload, T!Open,
      T!Close, T!OnNewMessage, T!OnRead, T!LoadOlder, T!StartSend, T!StartDelete, T!Serve, T!Loaded,
      T!LoadFails, T!OlderLoaded, T!OlderFails, T!Sent, T!SendFails, T!Deleted, T!DeleteFails,
      T!past
<1> QED BY <1>3, <1>4, <1>5, <1>6

LEMMA PastStep ==
  ASSUME TimelineInv, T!Next
  PROVE  guessed' \subseteq T!Ids \cup T!PendingIds /\ lost' \subseteq T!Ids
<1>1. /\ tasks \subseteq Tasks /\ T!Shown \subseteq T!Ids \cup T!PendingIds
      /\ guessed \subseteq T!Ids \cup T!PendingIds /\ lost \subseteq T!Ids
      /\ log \in Seq(Rows) /\ Len(log) <= MaxLog
  BY TypesAre DEF TimelineInv
<1>2. Len(log) \in Nat /\ DOMAIN log = 1..Len(log) /\ DOMAIN log \subseteq T!Ids
  BY <1>1, LogFacts
<1>3. ASSUME NEW t \in tasks
      PROVE  /\ t.got \subseteq T!Ids /\ (t.at + 1..Len(log)) \subseteq T!Ids
             /\ t.op \in {"delete", "batch"} => t.ids \subseteq T!Ids
  <2>1. t.at \in Nat /\ t.got \subseteq T!Ids
    BY <1>1, TimelineNumbers DEF Tasks
  <2>2. TaskKept(t)
    BY DEF TimelineInv, TasksKept
  <2> QED BY <1>1, <1>2, <2>1, <2>2, TimelineNumbers DEF TaskKept, T!Ids
<1>4. \A id : T!Between(id) \subseteq T!Ids
  BY <1>2 DEF T!Between
<1>5. guessed' \subseteq T!Ids \cup T!PendingIds
  BY <1>1
  DEF T!Next, T!PeerWrites, T!PeerDeletes, T!PeerReads, T!Cut, T!Reconnect, T!Reload, T!Open, T!Close,
      T!OnNewMessage, T!OnRead, T!LoadOlder, T!StartSend, T!StartDelete, T!Serve, T!Loaded,
      T!LoadFails, T!OlderLoaded, T!OlderFails, T!Sent, T!SendFails, T!Deleted, T!DeleteFails, T!past
<1>6. \/ UNCHANGED lost \/ T!Close \/ T!OnNewMessage
      \/ \E t \in tasks : T!Loaded(t) \/ T!LoadFails(t) \/ T!Sent(t) \/ T!SendFails(t) \/ T!Deleted(t)
  BY DEF T!Next, T!PeerWrites, T!PeerDeletes, T!PeerReads, T!Cut, T!Reconnect, T!Reload, T!Open,
         T!OnRead, T!LoadOlder, T!StartSend, T!StartDelete, T!Serve, T!OlderLoaded, T!OlderFails,
         T!DeleteFails, T!past
<1>7. CASE T!Close \/ T!OnNewMessage
  BY <1>1, <1>4, <1>7 DEF T!Close, T!OnNewMessage
<1>8. ASSUME NEW t \in tasks,
             T!Loaded(t) \/ T!LoadFails(t) \/ T!Sent(t) \/ T!SendFails(t) \/ T!Deleted(t)
      PROVE  lost' \subseteq T!Ids
  <2>1. \/ lost' \subseteq (t.at + 1..Len(log)) \/ lost' \subseteq DOMAIN log
        \/ lost' \subseteq lost \cup t.got \/ \E id : lost' \subseteq lost \cup T!Between(id)
        \/ t.op \in {"delete", "batch"} /\ lost' \subseteq lost \cup t.ids
    BY <1>8 DEF T!Loaded, T!LoadFails, T!Sent, T!SendFails, T!Deleted
  <2> QED BY <1>1, <1>2, <1>3, <1>4, <2>1
<1> QED BY <1>1, <1>5, <1>6, <1>7, <1>8

LEMMA TypesStep == ASSUME TimelineInv, T!Next PROVE T!TypeOK' /\ T!ShownOnce'
<1>1. ListOnce' /\ LogGrown /\ inbox' \in Seq(Events) /\ seen' \in [Chats -> 0..MaxLog]
      /\ tasks' \subseteq Tasks
  BY ListStep, LogStep, EventsStep, TasksStep, TypesAre DEF TimelineInv
<1>2. list' \in [T!Shown' -> {1}] /\ list' \in [T!Shown' -> Nat \ {0}]
  BY <1>1 DEF ListOnce
<1>3. T!ShownOnce'
  BY <1>2 DEF T!ShownOnce
<1>4. T!TypeOK'
  BY <1>1, <1>2, FlagsStep, PastStep
  DEF T!TypeOK, ListOnce, LogGrown, Rows, Events, Tasks, T!Ids, T!Slots, T!PendingIds, T!Pending
<1> QED BY <1>3, <1>4

-----------------------------------------------------------------------------
(* What is shown as read: a mark names a message the list holds, or its readers are guessed. *)
LEMMA ReadStep == ASSUME TimelineInv, T!Next PROVE T!ReadExplained'
<1>1. /\ LogGrown /\ ListOnce /\ ListKept /\ T!ReadExplained /\ inbox \in Seq(Events)
      /\ \A i \in DOMAIN inbox : EventTrue(inbox[i])
      /\ seen \in [Chats -> 0..MaxLog] /\ \A id \in DOMAIN log : log[id] \in Rows
  BY LogStep, LogFacts, TypesAre, OnceIs DEF TimelineInv, EventsTrue
<1>2. \A id \in marked \cap T!Ids : id \in DOMAIN log /\ id \in Nat
  BY <1>1, IdFacts DEF ListOnce, ListKept
<1>3. \A c \in Chats : seen[c] <= seen'[c] /\ seen[c] \in Nat /\ seen'[c] \in Nat
  <2>1. seen' \in [Chats -> 0..MaxLog]
    BY EventsStep
  <2>2. \A c \in Chats : seen[c] \in Nat /\ seen'[c] \in Nat
    BY <1>1, <2>1, TimelineNumbers
  <2>3. ASSUME NEW c \in Chats, NEW id \in DOMAIN log, T!PeerReads(c, id)
        PROVE  \A d \in Chats : seen[d] <= seen'[d]
    <3>1. seen' = IF log[id].chat = c /\ id > seen[c] THEN [seen EXCEPT ![c] = id] ELSE seen
      BY <2>3 DEF T!PeerReads
    <3>2. id \in Nat
      BY <1>1 DEF LogGrown
    <3>3. CASE log[id].chat = c /\ id > seen[c]
      <4>1. seen'[c] = id /\ \A d \in Chats : d # c => seen'[d] = seen[d]
        BY <1>1, <3>1, <3>3
      <4> QED BY <2>2, <3>2, <3>3, <4>1
    <3>4. CASE ~(log[id].chat = c /\ id > seen[c])
      BY <2>2, <3>1, <3>4
    <3> QED BY <3>3, <3>4
  <2>4. UNCHANGED seen \/ \E c \in Chats, id \in DOMAIN log : T!PeerReads(c, id)
    BY DEF T!Next, T!PeerWrites, T!PeerDeletes, T!Cut, T!Reconnect, T!Reload, T!Open, T!Close,
           T!OnNewMessage, T!OnRead, T!LoadOlder, T!StartSend, T!StartDelete, T!Serve, T!Loaded,
           T!LoadFails, T!OlderLoaded, T!OlderFails, T!Sent, T!SendFails, T!Deleted, T!DeleteFails,
           T!past
  <2> QED BY <2>2, <2>3, <2>4
<1>4. ASSUME marked' \subseteq marked, guessed \subseteq guessed' PROVE T!ReadExplained'
  <2>1. SUFFICES ASSUME NEW id \in marked' \cap T!Ids, id \notin guessed
                 PROVE  id <= seen'[log'[id].chat]
    BY <1>4 DEF T!ReadExplained, T!Ids
  <2>2. id \in DOMAIN log /\ id \in Nat /\ id <= seen[log[id].chat]
    BY <1>1, <1>2, <1>4, <2>1 DEF T!ReadExplained
  <2>3. log[id].chat \in Chats /\ log'[id].chat = log[id].chat
    BY <1>1, <2>2 DEF LogGrown, Rows
  <2> QED BY <1>3, <2>2, <2>3
<1>5. ASSUME marked' = {} PROVE T!ReadExplained'
  BY <1>5 DEF T!ReadExplained
<1>6. ASSUME T!OnRead PROVE T!ReadExplained'
  <2> DEFINE e == Head(inbox)
  <2>1. UNCHANGED <<log, seen>> /\ e.t = "read" /\ inbox # <<>> /\ inbox' = Tail(inbox)
    BY <1>6 DEF T!OnRead
  <2>2. e \in Events /\ EventTrue(e)
    <3>1. e \in Events /\ \E j \in DOMAIN inbox : e = inbox[j]
      BY <1>1, <2>1, ComingTail
    <3> QED BY <1>1, <3>1
  <2>3. CASE UNCHANGED <<marked, guessed>>
    BY <1>4, <2>3
  <2>4. CASE /\ e.chat = timelineChat
             /\ marked' = marked \cup {x \in T!Shown : x <= T!Reaches(e.id)}
             /\ guessed' = guessed \cup T!Shown
    BY <1>1, <2>1, <2>4 DEF T!ReadExplained, T!Ids, ListOnce
  <2>5. CASE /\ e.chat = timelineChat /\ e.id \in T!Shown /\ log[e.id].chat = timelineChat
             /\ marked' = marked \cup {x \in T!Shown : x <= T!Reaches(e.id)}
             /\ guessed' = guessed \cup {x \in T!Shown \ T!PendingIds : log[x].chat # timelineChat}
    <3>1. SUFFICES ASSUME NEW x \in marked' \cap T!Ids, x \notin guessed'
                   PROVE  x <= seen[log[x].chat]
      BY <2>1 DEF T!ReadExplained, T!Ids
    <3>2. CASE x \in marked
      BY <1>1, <2>5, <3>1, <3>2 DEF T!ReadExplained
    <3>3. CASE x \in T!Shown /\ x <= e.id
      <4>1. x \notin T!PendingIds /\ x \in Nat
        BY <3>1, IdFacts
      <4>2. log[x].chat = timelineChat
        BY <2>5, <3>1, <3>3, <4>1
      <4>3. e.id <= seen[timelineChat] /\ timelineChat \in Chats /\ e.id \in Nat
        BY <2>1, <2>2, <2>5, IdFacts DEF EventTrue, Events
      <4>4. seen[timelineChat] \in Nat
        BY <1>3, <4>3
      <4> QED BY <3>3, <4>1, <4>2, <4>3, <4>4
    <3> QED BY <2>5, <3>1, <3>2, <3>3 DEF T!Reaches
  <2> QED BY <1>6, <2>3, <2>4, <2>5 DEF T!OnRead
<1>7. \/ marked' \subseteq marked /\ guessed \subseteq guessed'
      \/ marked' = {} \/ T!OnRead
  BY DEF T!Next, T!PeerWrites, T!PeerDeletes, T!PeerReads, T!Cut, T!Reconnect, T!Reload, T!Open, T!Close,
         T!OnNewMessage, T!LoadOlder, T!StartSend, T!StartDelete, T!Serve, T!Loaded,
         T!LoadFails, T!OlderLoaded, T!OlderFails, T!Sent, T!SendFails, T!Deleted, T!DeleteFails,
         T!MarksAfter, T!rows, T!past
<1> QED BY <1>4, <1>5, <1>6, <1>7

-----------------------------------------------------------------------------
(* What is Excused stays so, but for a loading that ends. *)
LEMMA ExcusedStep ==
  ASSUME TimelineInv, T!Next, ~Excused', NEW L, L = \E t \in tasks : T!Loaded(t) \/ T!LoadFails(t), ~L
  PROVE  ~Excused /\ UNCHANGED timelineChat
<1>1. tasks \subseteq Tasks
  BY TypesAre DEF TimelineInv
<1>2. ~T!Cut /\ ~T!Close
  BY DEF T!Cut, T!Close, Excused
<1>3. T!Reload => FALSE
  <2>1. SUFFICES ASSUME T!Reload PROVE FALSE
    OBVIOUS
  <2>2. PICK n \in T!Slots : T!Request(n, "load", timelineChat, {}) \in tasks'
    BY <2>1 DEF T!Reload, T!Load, T!Ask
  <2> QED BY <2>2 DEF Excused, T!Request
<1>4. ASSUME NEW c \in Chats, T!Open(c) PROVE FALSE
  BY <1>4 DEF T!Open, Excused
<1>5. ASSUME T!Reconnect PROVE FALSE
  BY <1>5 DEF T!Reconnect, T!Armed, Excused
<1>6. ASSUME UNCHANGED <<timelineUp, timelineTimer, timelineChat>>, stale => stale',
             \A t \in tasks : t.op = "load" => \E u \in tasks' : u.op = "load"
      PROVE  ~Excused /\ UNCHANGED timelineChat
  BY <1>6 DEF Excused
<1>7. ASSUME NEW t \in tasks, T!Serve(t) PROVE ~Excused /\ UNCHANGED timelineChat
  <2>1. UNCHANGED <<timelineUp, timelineTimer, timelineChat>> /\ UNCHANGED stale
        /\ \E got : tasks' = (tasks \ {t}) \cup {[t EXCEPT !.served = TRUE, !.got = got, !.at = Len(log')]}
    BY <1>7 DEF T!Serve, T!Answered, T!past
  <2>2. \E u \in tasks' : u.op = t.op
    <3>1. PICK got : tasks' = (tasks \ {t}) \cup {[t EXCEPT !.served = TRUE, !.got = got, !.at = Len(log')]}
      BY <2>1
    <3>2. [t EXCEPT !.served = TRUE, !.got = got, !.at = Len(log')].op = t.op
      BY <1>1 DEF Tasks
    <3> QED BY <3>1, <3>2
  <2>3. \A s \in tasks : s # t => s \in tasks'
    BY <2>1
  <2> QED BY <1>6, <2>1, <2>2, <2>3
<1>8. CASE \/ \E c \in Chats : T!PeerWrites(c)
           \/ \E id \in DOMAIN log : T!PeerDeletes(id) \/ \E c \in Chats : T!PeerReads(c, id)
           \/ T!OnNewMessage \/ T!OnRead \/ T!LoadOlder \/ T!StartSend
           \/ \E op \in {"delete", "batch"}, S \in SUBSET T!Shown : T!StartDelete(op, S)
  <2>1. UNCHANGED <<timelineUp, timelineTimer, timelineChat>> /\ UNCHANGED stale /\ tasks \subseteq tasks'
    BY <1>8 DEF T!PeerWrites, T!PeerDeletes, T!PeerReads, T!OnNewMessage, T!OnRead, T!LoadOlder,
       T!StartSend, T!StartDelete, T!Ask, T!past
  <2> QED BY <1>6, <2>1
<1>9. ASSUME NEW t \in tasks, \/ T!OlderLoaded(t) \/ T!OlderFails(t) \/ T!Sent(t) \/ T!SendFails(t)
                              \/ T!Deleted(t) \/ T!DeleteFails(t)
      PROVE  ~Excused /\ UNCHANGED timelineChat
  <2>1. UNCHANGED <<timelineUp, timelineTimer, timelineChat>> /\ t.op # "load" /\ tasks' = tasks \ {t}
    BY <1>9 DEF T!OlderLoaded, T!OlderFails, T!Sent, T!SendFails, T!Deleted, T!DeleteFails
  <2>2. stale => stale'
    BY <1>9 DEF T!OlderLoaded, T!OlderFails, T!Sent, T!SendFails, T!Deleted, T!DeleteFails, T!past
  <2> QED BY <1>6, <2>1, <2>2
<1> QED BY <1>2, <1>3, <1>4, <1>5, <1>7, <1>8, <1>9 DEF T!Next

(* What a pending message is not: older than one of the log. *)
LEMMA HereFacts ==
  ASSUME TimelineInv, LogGrown
  PROVE  /\ Here \subseteq DOMAIN log /\ Here' \subseteq DOMAIN log'
         /\ DOMAIN log \subseteq T!Ids /\ DOMAIN log' \subseteq T!Ids /\ T!Ids \subseteq Nat
         /\ T!Shown \subseteq Nat
         /\ \A p \in T!PendingIds : p \in Nat /\ p \notin T!Ids /\ \A id \in T!Ids : id < p
         /\ UNCHANGED timelineChat => Here' \cap DOMAIN log \subseteq Here
<1>1. T!Shown \subseteq T!Ids \cup T!PendingIds
  BY TypesAre DEF TimelineInv
<1>2. DOMAIN log \subseteq T!Ids /\ DOMAIN log' \subseteq T!Ids
  BY IdFacts, TimelineNumbers DEF LogGrown
<1>3. \A p \in T!PendingIds : \A id \in T!Ids : id < p
  BY IdFacts, TimelineNumbers
<1>4. Here \subseteq DOMAIN log /\ Here' \subseteq DOMAIN log'
  BY DEF Here, T!Live
<1>5. UNCHANGED timelineChat => Here' \cap DOMAIN log \subseteq Here
  BY DEF Here, T!Live, LogGrown
<1> QED BY <1>1, <1>2, <1>3, <1>4, <1>5, IdFacts

(* What is due stays so until it is shown. *)
LEMMA ComingStays ==
  ASSUME TimelineInv, T!Next, ~T!Cut, UNCHANGED timelineChat, NEW id \in T!Coming, id \in Here'
  PROVE  id \in T!Coming' \/ id \in T!Shown'
<1>1. LogGrown /\ tasks \subseteq Tasks /\ ListOnce /\ inbox \in Seq(Events) /\ EventsTrue
  BY LogStep, TypesAre, OnceIs DEF TimelineInv
<1>2. CASE UNCHANGED inbox
  BY <1>2 DEF T!Coming
<1>3. ASSUME NEW e \in Events, T!Tell(e) PROVE id \in T!Coming'
  <2>2. CASE UNCHANGED inbox
    BY <2>2 DEF T!Coming
  <2>1. CASE inbox' = Append(inbox, e)
    BY <1>1, <2>1, ComingAppend
  <2> QED BY <1>3, <2>1, <2>2 DEF T!Tell
<1>4. ASSUME NEW r \in Rows, Len(log) < MaxLog, log' = Append(log, r), T!Tell(T!NewMessage(Len(log')))
      PROVE  id \in T!Coming'
  <2>1. Len(log') \in T!Ids \ DOMAIN log /\ log'[Len(log')] = r
    BY <1>1, <1>4, LogAppend DEF LogGrown
  <2>2. T!NewMessage(Len(log')) \in Events
    BY <2>1 DEF T!NewMessage, Events, Rows
  <2> QED BY <1>3, <1>4, <2>2
<1>5. ASSUME NEW c \in Chats, T!PeerWrites(c) PROVE id \in T!Coming'
  <2>1. [chat |-> c, mine |-> FALSE, gone |-> FALSE] \in Rows
    BY DEF Rows
  <2> QED BY <1>4, <1>5, <2>1 DEF T!PeerWrites
<1>6. ASSUME NEW c \in Chats, NEW d \in DOMAIN log, T!PeerReads(c, d) PROVE id \in T!Coming'
  <2>1. [t |-> "read", chat |-> c, id |-> d] \in Events
    BY <1>1, HereFacts DEF Events
  <2> QED BY <1>3, <1>6, <2>1 DEF T!PeerReads
<1>7. ASSUME NEW t \in tasks, T!Serve(t), ~UNCHANGED inbox PROVE id \in T!Coming'
  <2>1. [chat |-> t.chat, mine |-> TRUE, gone |-> FALSE] \in Rows
    BY <1>1 DEF Rows, Tasks
  <2>2. Len(log) < MaxLog /\ log' = Append(log, [chat |-> t.chat, mine |-> TRUE, gone |-> FALSE])
        /\ T!Tell(T!NewMessage(Len(log')))
    BY <1>7 DEF T!Serve
  <2> QED BY <1>4, <2>1, <2>2
<1>8. CASE T!OnRead
  BY <1>1, <1>8, ComingTail DEF T!OnRead
<1>9. CASE T!OnNewMessage
  <2> DEFINE e == Head(inbox)
  <2>1. /\ inbox # <<>> /\ inbox' = Tail(inbox) /\ e.t = "new" /\ UNCHANGED log
        /\ T!Coming \subseteq T!Coming' \cup {e.id}
        /\ \E j \in DOMAIN inbox : e = inbox[j]
    BY <1>1, <1>9, ComingTail DEF T!OnNewMessage
  <2>2. log[e.id].chat = e.chat
    BY <1>1, <2>1 DEF EventsTrue, EventTrue
  <2>3. CASE e.id = id
    <3>1. e.chat = timelineChat
      BY <2>1, <2>2, <2>3 DEF Here, T!Live
    <3>2. CASE e.id \in T!Shown
      BY <1>9, <2>1, <2>3, <3>2 DEF T!OnNewMessage, T!rows, T!Shown
    <3>3. CASE e.id \notin T!Shown
      <4>1. list' = T!Added({e.id}, T!Without(T!PendingIds)) \/ list' = T!Added({e.id}, list)
        BY <1>9, <3>1, <3>3 DEF T!OnNewMessage, T!ForThisChat
      <4>2. e.id \in DOMAIN list'
        BY <4>1 DEF T!Added
      <4> QED BY <2>3, <4>2 DEF T!Shown
    <3> QED BY <3>2, <3>3
  <2> QED BY <2>1, <2>3
<1>10. UNCHANGED inbox \/ T!OnNewMessage \/ T!OnRead
       \/ (\E c \in Chats : T!PeerWrites(c)) \/ (\E t \in tasks : T!Serve(t))
       \/ (\E c \in Chats, d \in DOMAIN log : T!PeerReads(c, d))
  BY DEF T!Next, T!PeerDeletes, T!Open, T!Reconnect, T!Reload, T!Close, T!LoadOlder, T!StartSend,
         T!StartDelete, T!Loaded, T!LoadFails, T!OlderLoaded, T!OlderFails, T!Sent, T!SendFails,
         T!Deleted, T!DeleteFails
<1> QED BY <1>2, <1>5, <1>6, <1>7, <1>8, <1>9, <1>10

(* What a step takes from the list, and what it adds. *)
LEMMA ShownStep ==
  ASSUME TimelineInv, T!Next, ~T!Close, NEW L, L = \E t \in tasks : T!Loaded(t) \/ T!LoadFails(t), ~L
  PROVE  /\ \A id \in T!Shown \cap Here' : id \in T!Shown' \cup lost'
         /\ \A y \in T!Shown' \ T!Shown :
              \/ T!OnNewMessage /\ y = Head(inbox).id /\ T!Between(y) \subseteq lost'
              \/ \E t \in tasks : T!Sent(t) /\ y \in t.got /\ T!Between(y) \subseteq lost'
              \/ T!StartSend /\ y \in T!PendingIds
              \/ \E t \in tasks : T!OlderLoaded(t) /\ y \in t.got
<1>1. ListOnce /\ LogGrown /\ TasksKept
  BY OnceIs, LogStep DEF TimelineInv
<1>2. Here' \subseteq T!Ids /\ Here' \cap T!PendingIds = {}
  BY <1>1, HereFacts
<1> DEFINE Stays == \A id \in T!Shown \cap Here' : id \in T!Shown' \cup lost'
<1>3. CASE UNCHANGED list
  BY <1>3 DEF T!Shown
<1>4. CASE T!OnNewMessage /\ ~UNCHANGED list
  <2> DEFINE e == Head(inbox)
  <2>1. /\ T!Between(e.id) \subseteq lost'
        /\ list' = T!Added({e.id}, T!Without(T!PendingIds)) \/ list' = T!Added({e.id}, list)
    BY <1>4 DEF T!OnNewMessage, T!rows
  <2>2. T!Shown' = (T!Shown \ T!PendingIds) \cup {e.id} \/ T!Shown' = T!Shown \cup {e.id}
    <3> DEFINE l == T!Without(T!PendingIds)
    <3>1. l \in [T!Shown \ T!PendingIds -> {1}]
      BY <1>1, WithoutFacts DEF ListOnce
    <3> HIDE DEF l
    <3>2. /\ DOMAIN T!Added({e.id}, l) = (T!Shown \ T!PendingIds) \cup {e.id}
          /\ DOMAIN T!Added({e.id}, list) = T!Shown \cup {e.id}
      BY <1>1, <3>1, ListFacts DEF ListOnce
    <3> QED BY <2>1, <3>2 DEF l, T!Shown
  <2>3. Stays
    BY <1>2, <2>2
  <2> QED BY <1>4, <2>1, <2>2, <2>3
<1>5. CASE T!StartSend
  <2>1. PICK n \in T!Slots : list' = T!Added({T!Pending(n)}, list)
    BY <1>5 DEF T!StartSend
  <2>2. T!Shown' = T!Shown \cup {T!Pending(n)}
    BY <1>1, <2>1, ListFacts DEF T!Shown, ListOnce
  <2> QED BY <1>5, <2>2, IdFacts
<1>6. ASSUME NEW t \in tasks, T!OlderLoaded(t)
      PROVE  Stays /\ T!Shown' = T!Shown \cup t.got
  <2>1. list' = T!Added(t.got, list)
    BY <1>6 DEF T!OlderLoaded
  <2>2. T!Shown' = T!Shown \cup t.got
    BY <1>1, <2>1, ListFacts DEF T!Shown, ListOnce
  <2> QED BY <2>2
<1>7. ASSUME NEW t \in tasks, T!Sent(t)
      PROVE  Stays /\ \A y \in T!Shown' \ T!Shown : y \in t.got /\ T!Between(y) \subseteq lost'
  <2>1. PICK id \in t.got : list' = T!Added({id}, T!Without(t.ids)) /\ T!Between(id) \subseteq lost'
    BY <1>7 DEF T!Sent
  <2>2. T!Shown' = (T!Shown \ t.ids) \cup {id}
    <3> DEFINE l == T!Without(t.ids)
    <3>1. l \in [T!Shown \ t.ids -> {1}]
      BY <1>1, WithoutFacts DEF ListOnce
    <3> HIDE DEF l
    <3>2. DOMAIN T!Added({id}, l) = (T!Shown \ t.ids) \cup {id}
      BY <3>1, ListFacts
    <3> QED BY <2>1, <3>2 DEF l, T!Shown
  <2>3. t.ids \cap T!Ids = {}
    BY <1>1, <1>7 DEF T!Sent, TasksKept, TaskKept
  <2> QED BY <1>2, <2>1, <2>2, <2>3
<1>8. ASSUME NEW t \in tasks, T!SendFails(t) \/ T!Deleted(t)
      PROVE  Stays /\ T!Shown' \subseteq T!Shown
  <2>1. list' = T!Without(t.ids)
    BY <1>8 DEF T!SendFails, T!Deleted
  <2>2. T!Shown' = T!Shown \ t.ids
    BY <1>1, <2>1, WithoutFacts DEF T!Shown, ListOnce
  <2>3. CASE T!SendFails(t)
    <3>1. t.ids \cap T!Ids = {}
      BY <1>1, <2>3 DEF T!SendFails, TasksKept, TaskKept
    <3> QED BY <1>2, <2>2, <3>1
  <2>4. CASE T!Deleted(t)
    <3>1. {id \in t.ids : ~log[id].gone} \subseteq lost' /\ UNCHANGED log
      BY <2>4 DEF T!Deleted
    <3>2. \A id \in Here' : ~log[id].gone
      BY <3>1 DEF Here, T!Live
    <3> QED BY <2>2, <3>1, <3>2
  <2> QED BY <1>8, <2>2, <2>3, <2>4
<1>9. \/ UNCHANGED list \/ T!OnNewMessage \/ T!StartSend
      \/ \E t \in tasks : T!OlderLoaded(t) \/ T!Sent(t) \/ T!SendFails(t) \/ T!Deleted(t)
  BY DEF T!Next, T!PeerWrites, T!PeerDeletes, T!PeerReads, T!Cut, T!Reconnect, T!Reload, T!Open,
         T!OnRead, T!LoadOlder, T!StartDelete, T!Serve, T!OlderFails, T!DeleteFails, T!rows
<1> QED BY <1>3, <1>4, <1>5, <1>6, <1>7, <1>8, <1>9

(* What was covered stays so, and what is new is due. *)
LEMMA CoveredStep ==
  ASSUME TimelineInv, T!Next, ~T!Cut, timelineUp, ~T!Close, UNCHANGED timelineChat,
         NEW L, L = \E t \in tasks : T!Loaded(t) \/ T!LoadFails(t), ~L,
         NEW id \in Here', id \in Here => id \in Covered
  PROVE  id \in Covered'
<1>1. LogGrown /\ tasks \subseteq Tasks /\ ListOnce /\ TasksKept
  BY LogStep, TypesAre, OnceIs DEF TimelineInv
<1>2. CASE id \in T!Shown
  BY <1>2, ShownStep DEF Covered
<1>3. CASE id \in T!Coming
  BY <1>3, ComingStays DEF Covered, T!Due
<1>4. ASSUME NEW t \in tasks, t.op = "send", id \in t.got PROVE id \in Covered'
  BY <1>4, SendsStay DEF Covered, T!Due
<1>5. CASE id \in lost
  <2>1. CASE lost \subseteq lost'
    BY <1>5, <2>1 DEF Covered
  <2>2. CASE T!OnNewMessage /\ ~UNCHANGED lost
    <3>1. PICK l : lost \ {Head(inbox).id} \subseteq lost' /\ list' = T!Added({Head(inbox).id}, l)
      BY <2>2 DEF T!OnNewMessage, T!rows
    <3>2. Head(inbox).id \in T!Shown'
      BY <3>1 DEF T!Shown, T!Added
    <3> QED BY <1>5, <3>1, <3>2 DEF Covered
  <2>3. ASSUME NEW t \in tasks, T!Sent(t) PROVE id \in Covered'
    <3>1. PICK d : lost \ {d} \subseteq lost' /\ list' = T!Added({d}, T!Without(t.ids))
      BY <2>3 DEF T!Sent
    <3>2. d \in T!Shown'
      BY <3>1 DEF T!Shown, T!Added
    <3> QED BY <1>5, <3>1, <3>2 DEF Covered
  <2>4. lost \subseteq lost' \/ T!OnNewMessage \/ \E t \in tasks : T!Sent(t)
    BY DEF T!Next, T!PeerWrites, T!PeerDeletes, T!PeerReads, T!Cut, T!Reconnect, T!Reload, T!Open,
           T!OnRead, T!LoadOlder, T!StartSend, T!StartDelete, T!Serve, T!OlderLoaded, T!OlderFails,
           T!SendFails, T!Deleted, T!DeleteFails, T!past
  <2> QED BY <2>1, <2>2, <2>3, <2>4
<1>6. CASE id \notin Here
  <2>1. id \in DOMAIN log' \ DOMAIN log
    BY <1>1, <1>6, HereFacts
  <2>2. ASSUME NEW r \in Rows, Len(log) < MaxLog, log' = Append(log, r)
        PROVE  id = Len(log')
    BY <1>1, <2>1, <2>2, LogAppend DEF LogGrown
  <2>3. ASSUME NEW c \in Chats, T!PeerWrites(c) PROVE id \in Covered'
    <3>1. [chat |-> c, mine |-> FALSE, gone |-> FALSE] \in Rows
      BY DEF Rows
    <3>2. id = Len(log') /\ inbox' = Append(inbox, T!NewMessage(id))
      BY <2>2, <2>3, <3>1 DEF T!PeerWrites, T!Tell
    <3>3. T!NewMessage(id) \in Events /\ T!NewMessage(id).t = "new" /\ T!NewMessage(id).id = id
      <4>1. id \in T!Ids /\ log' = Append(log, [chat |-> c, mine |-> FALSE, gone |-> FALSE])
            /\ Len(log) < MaxLog
        BY <1>1, <2>1, <2>3, HereFacts DEF T!PeerWrites
      <4>2. log'[id] = [chat |-> c, mine |-> FALSE, gone |-> FALSE]
        BY <1>1, <3>1, <3>2, <4>1, LogAppend DEF LogGrown
      <4>3. T!NewMessage(id) = [t |-> "new", chat |-> c, id |-> id]
        BY <4>2 DEF T!NewMessage
      <4> QED BY <4>1, <4>3 DEF Events
    <3>4. id \in T!Coming'
      <4>1. inbox \in Seq(Events)
        BY TypesAre DEF TimelineInv
      <4> QED BY <3>2, <3>3, <4>1, ComingAppend
    <3> QED BY <3>4 DEF Covered, T!Due
  <2>4. ASSUME NEW t \in tasks, T!Serve(t) PROVE id \in Covered'
    <3>1. [chat |-> t.chat, mine |-> TRUE, gone |-> FALSE] \in Rows
      BY <1>1 DEF Rows, Tasks
    <3>2. CASE t.op = "send"
      <4>1. /\ Len(log) < MaxLog /\ log' = Append(log, [chat |-> t.chat, mine |-> TRUE, gone |-> FALSE])
            /\ [t EXCEPT !.served = TRUE, !.got = {Len(log')}, !.at = Len(log')] \in tasks'
        BY <2>4, <3>2 DEF T!Serve, T!Answered
      <4>2. id = Len(log')
        BY <2>2, <3>1, <4>1
      <4>3. PICK u \in tasks' : u = [t EXCEPT !.served = TRUE, !.got = {Len(log')}, !.at = Len(log')]
        BY <4>1
      <4>4. u.op = "send" /\ u.got = {id}
        BY <1>1, <3>2, <4>2, <4>3 DEF Tasks
      <4> QED BY <4>4 DEF Covered, T!Due
    <3>3. CASE t.op # "send"
      BY <2>1, <2>4, <3>3 DEF T!Serve
    <3> QED BY <3>2, <3>3
  <2>5. DOMAIN log' = DOMAIN log \/ (\E c \in Chats : T!PeerWrites(c)) \/ \E t \in tasks : T!Serve(t)
    BY DEF T!Next, T!PeerDeletes, T!PeerReads, T!Cut, T!Reconnect, T!Reload, T!Open, T!Close,
           T!OnNewMessage, T!OnRead, T!LoadOlder, T!StartSend, T!StartDelete, T!OlderLoaded,
           T!OlderFails, T!Sent, T!SendFails, T!Deleted, T!DeleteFails
  <2> QED BY <2>1, <2>3, <2>4, <2>5
<1> QED BY <1>2, <1>3, <1>4, <1>5, <1>6 DEF Covered, T!Due

(* What is looked for after a step was looked for before it, or is covered. *)
LEMMA WantedStep ==
  ASSUME TimelineInv, T!Next, ~T!Cut, timelineUp, ~stale', ~T!Close, UNCHANGED timelineChat,
         NEW L, L = \E t \in tasks : T!Loaded(t) \/ T!LoadFails(t), ~L,
         ~\E c \in Chats : T!Open(c),
         NEW id \in Here' \cap Here, Wanted(id)'
  PROVE  Wanted(id) \/ id \in Covered'
<1>1. LogGrown /\ tasks \subseteq Tasks /\ ListOnce /\ TasksKept
  BY LogStep, TypesAre, OnceIs DEF TimelineInv
<1>2. id \in DOMAIN log /\ id \in T!Ids /\ id \in Nat /\ T!Shown \subseteq Nat
  BY <1>1, HereFacts
<1>3. ASSUME NEW y \in T!Ids, y <= id, y \in T!Shown', T!Between(y) \subseteq lost', ~Wanted(id)
      PROVE  id \in Covered'
  <2>1. \A z \in T!Shown : id < z
    BY <1>2, <1>3 DEF Wanted
  <2>2. y \in Nat
    BY <1>1, HereFacts
  <2>3. CASE y = id
    BY <1>3, <2>3 DEF Covered
  <2>4. CASE id \in T!Due
    BY <2>4, CoveredStep DEF Covered
  <2>5. CASE y # id /\ id \notin T!Due
    <3>1. id \in T!Between(y)
      BY <1>2, <1>3, <2>1, <2>2, <2>5 DEF T!Between
    <3> QED BY <1>3, <3>1 DEF Covered
  <2> QED BY <2>3, <2>4, <2>5
<1>4. ASSUME NEW t \in tasks, T!OlderLoaded(t)
      PROVE  /\ t.here /\ t.op = "older"
             /\ Before(t) = {id2 \in Here : id2 <= t.at /\ \A b \in t.ids : id2 < b}
             /\ ~Wanted(id) => id \in Before(t)
  <2>1. t.here /\ t.op = "older" /\ t.served
    BY <1>1, <1>4 DEF T!OlderLoaded, Tasks
  <2>2. t.chat = timelineChat /\ t.at \in Nat /\ t.ids \subseteq Nat
    <3>1. TaskKept(t) /\ t \in Tasks
      BY <1>1 DEF TasksKept
    <3>2. t.chat = timelineChat
      BY <2>1, <3>1 DEF TaskKept
    <3>3. t.at \in Nat /\ t.ids \subseteq T!Ids \cup T!PendingIds
      BY <3>1, TimelineNumbers DEF Tasks
    <3> QED BY <3>2, <3>3, IdFacts
  <2>3. Before(t) = {id2 \in Here : id2 <= t.at /\ \A b \in t.ids : id2 < b}
    BY <2>2 DEF Before, Here
  <2>4. ASSUME ~Wanted(id) PROVE id <= t.at /\ \A b \in t.ids : id < b
    <3>1. ~Since(t, id)
      BY <2>1, <2>4 DEF Wanted
    <3> QED BY <1>2, <2>1, <2>2, <3>1 DEF Since
  <2> QED BY <2>1, <2>3, <2>4
<1>5. ASSUME NEW y \in T!Shown', y <= id PROVE Wanted(id) \/ id \in Covered'
  <2>1. CASE y \in T!Shown
    BY <1>5, <2>1 DEF Wanted
  <2>2. CASE T!OnNewMessage /\ y = Head(inbox).id /\ T!Between(y) \subseteq lost'
    <3>1. Head(inbox) \in Events
      BY <2>2, ComingTail, TypesAre DEF TimelineInv, T!OnNewMessage
    <3>2. y \in T!Ids
      BY <2>2, <3>1 DEF Events
    <3> QED BY <1>3, <1>5, <2>2, <3>2
  <2>3. ASSUME NEW t \in tasks, y \in t.got, T!Between(y) \subseteq lost'
        PROVE  Wanted(id) \/ id \in Covered'
    <3>1. y \in T!Ids
      BY <1>1, <2>3 DEF Tasks
    <3> QED BY <1>3, <1>5, <2>3, <3>1
  <2>4. CASE y \in T!PendingIds
    <3>1. id < y /\ y \in Nat
      BY <1>1, <1>2, <2>4, HereFacts
    <3> QED BY <1>2, <1>5, <3>1
  <2>5. ASSUME NEW t \in tasks, T!OlderLoaded(t), y \in t.got, ~Wanted(id)
        PROVE  id \in Covered'
    <3>1. id \in Before(t) /\ PageWhole(t) /\ t.served /\ t.op = "older"
      BY <1>1, <1>4, <2>5 DEF TasksKept, T!OlderLoaded
    <3>2. id \in t.got
      BY <1>5, <2>5, <3>1 DEF PageWhole
    <3>3. list' = T!Added(t.got, list)
      BY <2>5 DEF T!OlderLoaded
    <3>4. id \in T!Shown'
      BY <3>2, <3>3 DEF T!Shown, T!Added
    <3> QED BY <3>4 DEF Covered
  <2> QED BY <1>5, <2>1, <2>2, <2>3, <2>4, <2>5, ShownStep
<1>6. CASE endHere'
  <2>1. CASE endHere
    BY <2>1 DEF Wanted
  <2>2. ASSUME NEW t \in tasks, T!OlderLoaded(t), ~endHere
        PROVE  Wanted(id)
    <3>1. t.got = {} /\ t.served /\ PageWhole(t)
      BY <1>1, <1>6, <2>2 DEF T!OlderLoaded, T!NoMore, T!ends, TasksKept
    <3>2. Before(t) = {}
      BY <1>4, <2>2, <3>1 DEF PageWhole
    <3> QED BY <1>4, <2>2, <3>2
  <2>3. (endHere' => endHere) \/ \E t \in tasks : T!OlderLoaded(t)
    BY DEF T!Next, T!PeerWrites, T!PeerDeletes, T!PeerReads, T!Cut, T!Reconnect, T!Reload, T!Open,
           T!Close, T!OnNewMessage, T!OnRead, T!LoadOlder, T!StartSend, T!StartDelete, T!Serve,
           T!OlderFails, T!Sent, T!SendFails, T!Deleted, T!DeleteFails, T!ends
  <2> QED BY <1>6, <2>1, <2>2, <2>3
<1>7. ASSUME NEW u \in tasks', u.op = "older", u.here, Since(u, id) PROVE Wanted(id)
  <2>1. CASE u \in tasks
    BY <1>7, <2>1 DEF Wanted
  <2>2. CASE T!LoadOlder /\ u \notin tasks
    <3>1. PICK n \in T!Slots, b \in T!Shown : u = T!Request(n, "older", timelineChat, {b})
      BY <2>2 DEF T!LoadOlder, T!Ask
    <3>2. u.ids = {b} /\ ~u.served
      BY <3>1 DEF T!Request
    <3>3. b <= id
      BY <1>7, <3>2 DEF Since
    <3> QED BY <3>3 DEF Wanted
  <2>3. ASSUME NEW t \in tasks, T!Serve(t), u \notin tasks PROVE Wanted(id)
    <3>1. PICK got : u = [t EXCEPT !.served = TRUE, !.got = got, !.at = Len(log')]
      BY <2>3 DEF T!Serve, T!Answered
    <3>2. u.op = t.op /\ u.here = t.here /\ u.ids = t.ids /\ u.at = Len(log')
      BY <1>1, <3>1 DEF Tasks
    <3>3. ~(id > u.at)
      BY <1>2, <3>2, <1>1 DEF LogGrown
    <3>4. Since(t, id)
      BY <1>7, <3>2, <3>3 DEF Since
    <3> QED BY <1>7, <3>2, <3>4 DEF Wanted
  <2>4. ASSUME NEW n, NEW op, op # "older", NEW c, NEW S, u = T!Request(n, op, c, S) PROVE FALSE
    BY <1>7, <2>4 DEF T!Request
  <2>5. \/ u \in tasks \/ T!LoadOlder \/ (\E t \in tasks : T!Serve(t))
        \/ \E n, c, S : \E op \in {"load", "send", "delete", "batch"} : u = T!Request(n, op, c, S)
    <3>1. CASE T!Reload
      BY <3>1 DEF T!Reload, T!Load, T!Ask
    <3>3. CASE T!StartSend
      BY <3>3 DEF T!StartSend
    <3>4. ASSUME NEW op \in {"delete", "batch"}, NEW S, T!StartDelete(op, S), u \notin tasks
          PROVE  \E n, c : u = T!Request(n, op, c, S)
      <4>1. \E n \in T!Slots : tasks' = tasks \cup {T!Request(n, op, timelineChat, S)}
        BY <3>4 DEF T!StartDelete, T!Ask
      <4> QED BY <3>4, <4>1
    <3>2. T!Reload \/ T!StartSend \/ T!LoadOlder \/ (\E t \in tasks : T!Serve(t))
          \/ (\E op \in {"delete", "batch"}, S \in SUBSET T!Shown : T!StartDelete(op, S))
          \/ tasks' \subseteq tasks
      BY DEF T!Next, T!PeerWrites, T!PeerDeletes, T!PeerReads, T!Cut, T!Reconnect,
             T!OnNewMessage, T!OnRead, T!OlderLoaded,
             T!OlderFails, T!Sent, T!SendFails, T!Deleted, T!DeleteFails
    <3> QED BY <3>1, <3>2, <3>3, <3>4
  <2> QED BY <2>1, <2>2, <2>3, <2>4, <2>5
<1> QED BY <1>5, <1>6, <1>7 DEF Wanted

LEMMA CompleteStep == ASSUME TimelineInv, T!Next PROVE Complete'
<1>1. LogGrown /\ tasks \subseteq Tasks /\ ListOnce /\ TasksKept
      /\ {timelineUp, timelineTimer, stale} \subseteq BOOLEAN
  BY LogStep, TypesAre, OnceIs DEF TimelineInv
<1>2. SUFFICES ASSUME ~Excused' PROVE Covers'
  BY DEF Complete
<1>3. Here' \subseteq DOMAIN log' /\ DOMAIN log' = 1..Len(log') /\ Len(log') \in Nat
  BY <1>1, HereFacts DEF LogGrown
<1>4. ASSUME NEW t \in tasks, T!Loaded(t) \/ T!LoadFails(t)
      PROVE  /\ UNCHANGED log /\ T!Due' = T!Due /\ endHere' = FALSE
             /\ \A u \in tasks' : ~u.here
  <2>1. /\ UNCHANGED <<log, inbox>> /\ endHere' = FALSE /\ t.op = "load"
        /\ tasks' = T!Elsewhere(tasks \ {t})
    BY <1>4 DEF T!Loaded, T!LoadFails
  <2>2. \A u \in tasks : /\ [u EXCEPT !.here = FALSE].here = FALSE
                          /\ [u EXCEPT !.here = FALSE].op = u.op /\ [u EXCEPT !.here = FALSE].got = u.got
    BY <1>1 DEF Tasks
  <2>3. ASSUME NEW u \in tasks'
        PROVE  \E v \in tasks : v # t /\ ~u.here /\ u.op = v.op /\ u.got = v.got
    <3>1. PICK v \in tasks \ {t} : u = [v EXCEPT !.here = FALSE]
      BY <2>1 DEF T!Elsewhere
    <3> QED BY <2>2, <3>1
  <2>4. ASSUME NEW v \in tasks, v # t PROVE \E u \in tasks' : u.op = v.op /\ u.got = v.got
    <3>1. [v EXCEPT !.here = FALSE] \in tasks'
      BY <2>1, <2>4 DEF T!Elsewhere
    <3> QED BY <2>2, <3>1
  <2>5. T!Coming' = T!Coming
    BY <2>1 DEF T!Coming
  <2>6. T!Due' = T!Due
    <3>1. ASSUME NEW x, NEW u \in tasks', u.op = "send", x \in u.got
          PROVE  \E v \in tasks : v.op = "send" /\ x \in v.got
      BY <2>3, <3>1
    <3>2. ASSUME NEW x, NEW v \in tasks, v.op = "send", x \in v.got
          PROVE  \E u \in tasks' : u.op = "send" /\ x \in u.got
      BY <2>1, <2>4, <3>2
    <3>3. UNION {u.got : u \in {v \in tasks' : v.op = "send"}} = UNION {u.got : u \in {v \in tasks : v.op = "send"}}
      BY <3>1, <3>2
    <3> QED BY <2>5, <3>3 DEF T!Due
  <2> QED BY <2>1, <2>3, <2>6
<1>5. ASSUME NEW t \in tasks, T!LoadFails(t) PROVE Covers'
  <2>1. lost' = DOMAIN log \ T!Due
    BY <1>5 DEF T!LoadFails
  <2> QED BY <1>3, <1>4, <1>5, <2>1 DEF Covers, Covered
<1>6. ASSUME NEW t \in tasks, T!Loaded(t) PROVE Covers'
  <2>1. /\ t.op = "load" /\ t.served /\ UNCHANGED <<log, timelineChat>>
        /\ list' = T!Added(t.got, T!Empty) /\ stale' = (t.chat # timelineChat)
        /\ lost' = (t.at + 1..Len(log)) \ T!Due
    BY <1>6 DEF T!Loaded
  <2>2. t.chat = timelineChat
    BY <1>2, <2>1 DEF Excused
  <2>3. T!Shown' = t.got
    <3>1. DOMAIN list' = {} \cup t.got
      BY <2>1, EmptyFacts, ListFacts
    <3> QED BY <3>1 DEF T!Shown
  <2>4. TaskKept(t) /\ PageWhole(t) /\ t.at \in Nat
    BY <1>1, TimelineNumbers DEF TasksKept, Tasks
  <2>5. ASSUME NEW id \in Here', NEW y \in T!Shown', y <= id, id \notin lost', id \notin T!Due'
        PROVE  id \in T!Shown'
    <3>1. id \in T!Live(t.chat) /\ id \in 1..Len(log)
      BY <1>3, <2>1, <2>2 DEF Here, T!Live
    <3>2. id <= t.at
      <4>1. id \notin t.at + 1..Len(log)
        BY <1>4, <1>6, <2>1, <2>5
      <4>2. Len(log) \in Nat /\ id \in Nat /\ id <= Len(log)
        BY <1>1, <3>1 DEF LogGrown
      <4> QED BY <2>4, <4>1, <4>2
    <3>3. id \in Before(t)
      BY <2>1, <2>4, <3>1, <3>2 DEF Before, TaskKept
    <3> QED BY <2>1, <2>3, <2>4, <2>5, <3>3 DEF PageWhole
  <2> QED BY <1>4, <1>6, <2>5 DEF Covers, Covered, Wanted
<1>7. CASE ~\E t \in tasks : T!Loaded(t) \/ T!LoadFails(t)
  <2>1. ~Excused /\ UNCHANGED timelineChat
    BY <1>2, <1>7, ExcusedStep
  <2>2. Covers
    BY <2>1 DEF TimelineInv, Complete
  <2>3. ~T!Cut /\ ~T!Close /\ (~\E c \in Chats : T!Open(c)) /\ ~stale' /\ timelineUp
    BY <1>2, <2>1 DEF T!Cut, T!Close, T!Open, Excused
  <2>4. ASSUME NEW id \in Here', Wanted(id)' PROVE id \in Covered'
    <3>1. CASE id \notin Here \/ Wanted(id)
      <4>1. id \in Here => id \in Covered
        BY <2>2, <3>1 DEF Covers
      <4> QED BY <1>7, <2>1, <2>3, <4>1, CoveredStep
    <3>2. CASE id \in Here /\ ~Wanted(id)
      BY <1>7, <2>1, <2>3, <2>4, <3>2, WantedStep
    <3> QED BY <3>1, <3>2
  <2> QED BY <2>4 DEF Covers
<1> QED BY <1>5, <1>6, <1>7

LEMMA TimelineStep == ASSUME TimelineInv, T!Next PROVE TimelineInv'
BY TypesStep, TasksStep, EventsStep, ListStep, CompleteStep, ReadStep DEF TimelineInv

LEMMA TimelineInit == ASSUME T!Init PROVE TimelineInv
<1>1. /\ log = <<>> /\ timelineUp = TRUE /\ inbox = <<>> /\ timelineChat = None /\ list = T!Empty
      /\ marked = {} /\ tasks = {} /\ timelineTimer = FALSE /\ loading = FALSE /\ done = FALSE
      /\ endHere = FALSE /\ seen = [c \in Chats |-> 0] /\ guessed = {} /\ lost = {} /\ stale = FALSE
  BY DEF T!Init
<1>2. T!Shown = {} /\ list \in [T!Shown -> {1}]
  BY <1>1, EmptyFacts DEF T!Shown
<1>3. T!ShownOnce
  BY <1>2 DEF T!ShownOnce
<1>4. T!TypeOK
  <2>1. log \in Seq(Rows) /\ Len(log) <= MaxLog /\ inbox \in Seq(Events)
    BY <1>1, TimelineNumbers
  <2>2. seen \in [Chats -> 0..MaxLog]
    BY <1>1, TimelineNumbers
  <2>3. list \in [T!Shown -> Nat \ {0}]
    BY <1>2
  <2> QED BY <1>1, <1>2, <2>1, <2>2, <2>3, TypesAre
<1>5. TasksKept /\ EventsTrue /\ T!ReadExplained
  BY <1>1 DEF TasksKept, EventsTrue, T!ReadExplained
<1>6. ListKept
  BY <1>1, <1>2 DEF ListKept
<1>7. Complete
  BY <1>1 DEF Complete, Excused
<1> QED BY <1>3, <1>4, <1>5, <1>6, <1>7 DEF TimelineInv

(* What holds of the part that is about the messages of a chat. *)
TimelinePart == only = "timeline" => TimelineInv

LEMMA TimelineAlways == PartsSpec => []TimelinePart
<1>1. PartsInit => TimelinePart BY TimelineInit DEF PartsInit, TimelinePart
<1>2. TimelinePart /\ [PartsNext]_<<only, vars, timelineVars, presenceVars>> => TimelinePart'
  <2>1. SUFFICES ASSUME TimelinePart, only' = "timeline",
                        [PartsNext]_<<only, vars, timelineVars, presenceVars>>
                 PROVE  TimelineInv'
    BY DEF TimelinePart
  <2>2. only = "timeline" /\ (T!Next \/ UNCHANGED timelineVars)
    BY <2>1 DEF PartsNext, Only
  <2>3. TimelineInv BY <2>1, <2>2 DEF TimelinePart
  <2>4. CASE T!Next BY <2>3, <2>4, TimelineStep
  <2>5. CASE UNCHANGED timelineVars
    <3>1. /\ UNCHANGED <<log, timelineUp, inbox, spent, timelineChat, list, marked, tasks>>
          /\ UNCHANGED <<timelineTimer, loading, done, seen, guessed, lost, stale, endHere>>
      BY <2>5 DEF timelineVars
    <3>2. T!TypeOK' /\ T!ShownOnce' /\ T!ReadExplained'
      BY <2>3, <3>1 DEF TimelineInv, T!TypeOK, T!Shown, T!Ids, T!Slots, T!PendingIds, T!Pending,
         T!ShownOnce, T!ReadExplained
    <3>3. \A t : T!Live(t)' = T!Live(t)
      BY <3>1 DEF T!Live
    <3>4. TasksKept'
      BY <2>3, <3>1, <3>3 DEF TimelineInv, TasksKept, TaskKept, PageWhole, Before, T!Ids
    <3>5. EventsTrue' /\ ListKept'
      BY <2>3, <3>1 DEF TimelineInv, EventsTrue, EventTrue, ListKept, T!Shown, T!Ids
    <3>6. Covered' = Covered /\ Here' = Here
      BY <3>1, <3>3 DEF Covered, T!Due, T!Coming, T!Shown, Here
    <3>7. Complete'
      BY <2>3, <3>1, <3>6 DEF TimelineInv, Complete, Excused, Covers, Wanted, Since, T!Shown
    <3> QED BY <3>2, <3>4, <3>5, <3>7 DEF TimelineInv
  <2>6. QED BY <2>2, <2>4, <2>5
<1>3. QED BY <1>1, <1>2, PTL DEF PartsSpec

(* No message is shown twice, by whatever of the answer to its sending, its event, a page and a *)
(* loading it came, and at rest none of another chat but for an answer asked for there          *)
(* (handleNewMessage, handleSendMessage, handleLoadOlder, loadChat, ChatView.tsx).             *)
THEOREM ShownAtMostOnce == PartsSpec => []ShownOnce
<1>1. TimelinePart => ShownOnce
  <2>1. SUFFICES ASSUME TimelineInv PROVE T!TypeOK /\ T!ShownOnce /\ T!OwnMessages
    BY DEF TimelinePart, ShownOnce
  <2>2. ASSUME tasks = {}, ~stale, NEW id \in T!Shown PROVE log[id].chat = timelineChat
    BY <2>1, <2>2 DEF TimelineInv, ListKept
  <2>3. T!OwnMessages
    BY <2>2 DEF T!OwnMessages, T!AtRest
  <2> QED BY <2>1, <2>3 DEF TimelineInv
<1>2. QED BY <1>1, TimelineAlways, PTL

(* At rest every message since the oldest one shown is shown, and when no older page will be   *)
(* asked for there is none, but for those that an older answer or one of another chat took     *)
(* from the list (loadChat, handleLoadOlder, handleNewMessage, ChatView.tsx, MessageList.tsx). *)
THEOREM NoneIsMissing == PartsSpec => []NothingMissing
<1>1. TimelinePart => NothingMissing
  <2>1. SUFFICES ASSUME TimelineInv, T!AtRest, ~stale
                 PROVE  /\ \A id \in T!Live(timelineChat), y \in T!Shown :
                             y <= id => id \in T!Shown \cup lost
                        /\ endHere => T!Live(timelineChat) \subseteq T!Shown \cup lost
    BY DEF TimelinePart, NothingMissing, T!NothingMissing, T!EndTrue, T!AtRest
  <2>2. Covers
    BY <2>1 DEF TimelineInv, Complete, Excused, T!AtRest
  <2>3. T!Due = {}
    BY <2>1 DEF T!AtRest, T!Due, T!Coming
  <2> QED BY <2>2, <2>3 DEF Covers, Covered, Wanted, Here
<1>2. QED BY <1>1, TimelineAlways, PTL

(* A message is shown as read only if the peer has read that far in its chat, or his mark named *)
(* one the list did not hold (handleReadReceipt, ChatView.tsx).                                 *)
THEOREM ReadIsExplained == PartsSpec => []ReadExplained
<1>1. TimelinePart => ReadExplained BY DEF TimelinePart, TimelineInv, ReadExplained
<1>2. QED BY <1>1, TimelineAlways, PTL
=============================================================================
