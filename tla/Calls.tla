------------------------------- MODULE Calls --------------------------------
(***************************************************************************)
(* Calls: the signalling of CallModal.tsx, with the part of ChatView that  *)
(* starts a call, the call messages of ws.ts and the cases call_* of the   *)
(* server, which relays them.  A call of two uses one RTCPeerConnection    *)
(* (pcRef); a group call one for each other member (pcMapRef).  Every      *)
(* await -- the media of the user, the descriptions of WebRTC -- is a      *)
(* point at which other events are handled: a task is the rest of an async *)
(* function that waits there.  Messages of one user to another arrive in   *)
(* order (the module Fanout) or are lost; WebRTC is taken to connect two   *)
(* ends as soon as each has the description of the other.                  *)
(***************************************************************************)
EXTENDS Naturals, Sequences, FiniteSets

CONSTANTS Users,   \* the users' ids, which the code compares with <
          Calls,   \* the calls the users may start, each once
          Group,   \* those of them that are group calls
          Caller,  \* who starts a call
          Callees, \* whom it is for
          Chat,    \* the chat it is started in
          Gathers, \* bound for TLC: the users whose browsers find a candidate
          None

CallsConstants ==
  /\ Users \subseteq Nat /\ Group \subseteq Calls
  /\ Caller \in [Calls -> Users] /\ Callees \in [Calls -> SUBSET Users]
  /\ \A c \in Calls : /\ Caller[c] \notin Callees[c] /\ Callees[c] # {}
                      /\ c \notin Group => \E v \in Users : Callees[c] = {v}
  /\ None \notin Calls \cup Users

VARIABLES
  active,   \* activeCall, a call or None
  incoming, \* incomingCall, the invite on the card that rings, or None
  pc,       \* pcRef, the connection of a call of two, or None
  mesh,     \* pcMapRef: per user and peer, a connection or None
  stream,   \* the call localStreamRef was captured for, or None
  peerRef,  \* peerUserIdRef, which no cleanup resets
  outgoing, \* startedOutgoingRef
  party,    \* the group call of meshParticipantIdsRef and meshInitiatorIdRef, or None
  joined,   \* meshCalleeConnectedRef
  waiting,  \* pendingMeshInvitesRef
  upgraded, \* activeCall.isVideo of a call begun without
  pend,     \* pendingIceByPeerRef: per user and peer, the connections whose candidate waits
  tasks,    \* the async functions that wait at an await
  net,      \* net[u][v]: the messages of u on their way to v
  begun,    \* the calls that were started
  odd,      \* history: what befell a call that its ends may not agree on
  apart,    \* history: pairs of users one of whom ignored or rejected the other's offer or left
  dropped   \* history: <<u, v, c>>: the candidate of v's connection in c was lost on its way to
            \* u, or u threw it away

course == <<outgoing, upgraded, party, joined>>
local == <<active, incoming, pc, mesh, stream, peerRef, course, waiting, pend>>
vars == <<local, tasks, net, begun, odd, apart, dropped>>

Invites == [call : Calls, from : Users]
(* A connection: its call, the other end, what it has of descriptions, whose offer the last    *)
(* agreement was about, whether its candidate was sent and whether it was given the other's.   *)
States == {"new", "offer", "stable", "broken", "reoffer"}
Connections == [call : Calls, peer : Users, st : States, by : Users \cup {None},
                ice : BOOLEAN, got : BOOLEAN]
Messages == [t : {"invite", "answer", "ended", "ice", "reoffer", "reanswer"}, call : Calls]
(* Media and the offers of the caller; media and the answer of who accepts the card; the       *)
(* answer to another member's offer; the offers of a member to the others; the camera.          *)
Waits == {"startMedia", "startOffer", "acceptMedia", "acceptAnswer", "peerAnswer", "meshOffer",
          "upgrade"}
Tasks == [wait : Waits, call : Calls, peer : Users, rest : SUBSET Users, ok : BOOLEAN]
Oddities == {"late", "over", "cut", "failed", "unheard", "glare", "crossed", "lost"}

NoneYet == [v \in Users |-> None]
NewPc(c, v) == [call |-> c, peer |-> v, st |-> "new", by |-> None, ice |-> FALSE, got |-> FALSE]
Msg(t, c) == [t |-> t, call |-> c]
Callee(c) == CHOOSE v \in Users : v \in Callees[c]
Participants(c) == {Caller[c]} \cup Callees[c]

InGroup(u) == active[u] \in Group
(* The connection that a signal of v is for, or None. *)
Link(u, v) == IF InGroup(u) THEN mesh[u][v] ELSE pc[u]
HasRemote(k) == k # None /\ k.by # None

(* send: net after u sent m to each user of to. *)
Post(n, u, to, m) ==
  [n EXCEPT ![u] = [v \in Users |-> IF v \in to THEN Append(@[v], m) ELSE @[v]]]
Popped(v, u) == [net EXCEPT ![v][u] = Tail(@)]

Mark(o, cs, what) == [c \in Calls |-> IF c \in cs THEN o[c] \cup {what} ELSE o[c]]

Init ==
  /\ active = [u \in Users |-> None] /\ incoming = [u \in Users |-> None]
  /\ pc = [u \in Users |-> None] /\ mesh = [u \in Users |-> NoneYet]
  /\ stream = [u \in Users |-> None] /\ peerRef = [u \in Users |-> None]
  /\ outgoing = [u \in Users |-> FALSE] /\ party = [u \in Users |-> None]
  /\ joined = [u \in Users |-> FALSE] /\ waiting = [u \in Users |-> {}]
  /\ upgraded = [u \in Users |-> FALSE]
  /\ pend = [u \in Users |-> [v \in Users |-> {}]]
  /\ tasks = [u \in Users |-> {}]
  /\ net = [u \in Users |-> [v \in Users |-> <<>>]]
  /\ begun = {} /\ odd = [c \in Calls |-> {}] /\ apart = {} /\ dropped = {}

----------------------------------------------------------------------------
(* Which of two members makes the offer. *)

(* Mutant: whoever learns of the other makes the offer. *)
EachInitiates(u, v, initiator) == u # v /\ v # initiator

ShouldInitiate(u, v, initiator) ==
  u # v /\ (u = initiator \/ (v # initiator /\ u < v))

----------------------------------------------------------------------------
(* Candidates. *)

(* Mutant: the connection is given a candidate before its description, and throws it away. *)
AddAnyway(u, v, k, c) ==
  IF k = None THEN /\ pend' = [pend EXCEPT ![u][v] = @ \cup {c}]
                   /\ UNCHANGED <<pc, mesh>>
  ELSE UNCHANGED <<pend, pc, mesh>>

(* queueOrAddIce: the candidate of v's connection of c, for the connection k. *)
QueueOrAddIce(u, v, k, c) ==
  IF HasRemote(k)
    THEN LET given == [k EXCEPT !.got = @ \/ c = k.call] IN
         /\ IF InGroup(u) THEN mesh' = [mesh EXCEPT ![u][v] = given] /\ UNCHANGED pc
                          ELSE pc' = [pc EXCEPT ![u] = given] /\ UNCHANGED mesh
         /\ UNCHANGED pend
    ELSE /\ pend' = [pend EXCEPT ![u][v] = @ \cup {c}]
         /\ UNCHANGED <<pc, mesh>>

(* flushPendingIce, after the description d of v was set: the connection and what waits then. *)
Described(u, v, k, d, by) ==
  [k EXCEPT !.st = IF d = k.call THEN "stable" ELSE "broken", !.by = by,
            !.got = @ \/ k.call \in pend[u][v]]

Flushed(u, v) == pend' = [pend EXCEPT ![u][v] = {}]

----------------------------------------------------------------------------
(* Tasks, streams, clean-up. *)

Task(w, c, v, rest) == [wait |-> w, call |-> c, peer |-> v, rest |-> rest, ok |-> TRUE]

(* A closed connection: the task that uses it will find it closed. *)
Broken(u, ps) == {IF t.peer \in ps THEN [t EXCEPT !.ok = FALSE] ELSE t : t \in tasks[u]}

(* localStreamRef = stream, when the user has granted the media for c. *)
Captured(u, c) == stream' = [stream EXCEPT ![u] = c]

(* cleanup. peerUserIdRef stays, and what awaits goes on. *)
Cleanup(u) ==
  /\ active' = [active EXCEPT ![u] = None] /\ incoming' = [incoming EXCEPT ![u] = None]
  /\ pc' = [pc EXCEPT ![u] = None] /\ mesh' = [mesh EXCEPT ![u] = NoneYet]
  /\ stream' = [stream EXCEPT ![u] = None] /\ outgoing' = [outgoing EXCEPT ![u] = FALSE]
  /\ party' = [party EXCEPT ![u] = None] /\ joined' = [joined EXCEPT ![u] = FALSE]
  /\ waiting' = [waiting EXCEPT ![u] = {}] /\ upgraded' = [upgraded EXCEPT ![u] = FALSE]
  /\ pend' = [pend EXCEPT ![u] = [v \in Users |-> {}]]
  /\ tasks' = [tasks EXCEPT ![u] = Broken(u, Users)]
  /\ UNCHANGED <<peerRef, begun>>

(* History: the calls whose media or offers u still awaits, and which go on after the end. *)
Late(u) == {t.call : t \in {t \in tasks[u] : t.wait \notin {"peerAnswer", "upgrade"}}}

----------------------------------------------------------------------------
(* The caller. *)

(* startCall of ChatView and the effect that begins an outgoing call: setActiveCall, also over *)
(* a minimised call; with startedOutgoingRef set nothing more happens.                         *)
StartCall(u, c) ==
  /\ c \notin begun /\ Caller[c] = u /\ incoming[u] = None
  /\ begun' = begun \cup {c}
  /\ active' = [active EXCEPT ![u] = c]
  /\ odd' = Mark(odd, IF active[u] = None THEN {} ELSE {active[u], c}, "over")
  /\ outgoing' = [outgoing EXCEPT ![u] = TRUE]
  /\ IF outgoing[u]
       THEN UNCHANGED <<party, joined, pend, tasks>>
       ELSE /\ pend' = [pend EXCEPT ![u] = [v \in Users |-> {}]]
            /\ tasks' = [tasks EXCEPT ![u] = @ \cup {Task("startMedia", c, u, Callees[c])}]
            /\ IF c \in Group THEN /\ party' = [party EXCEPT ![u] = c]
                                   /\ joined' = [joined EXCEPT ![u] = FALSE]
                              ELSE UNCHANGED <<party, joined>>
  /\ upgraded' = [upgraded EXCEPT ![u] = FALSE]
  /\ UNCHANGED <<incoming, pc, mesh, stream, peerRef, waiting, net, apart, dropped>>

(* A turn of the loop of startMeshOutbound or establishMeshAsCallee: the connection for the    *)
(* next of rest (the latter skips those it has one for) and the wait for its offer; m is       *)
(* pcMapRef so far, o the other tasks.                                                         *)
NextOffer(u, w, c, m, o, rest) ==
  LET todo == IF w = "meshOffer" THEN {v \in rest : m[u][v] = None} ELSE rest IN
  \/ /\ todo = {}
     /\ mesh' = m /\ tasks' = [tasks EXCEPT ![u] = o]
  \/ \E v \in todo :
       /\ \A x \in todo : v <= x
       /\ mesh' = [m EXCEPT ![u][v] = NewPc(c, v)]
       /\ tasks' = [tasks EXCEPT ![u] = o \cup {Task(w, c, v, {x \in rest : x > v})}]

(* History: media that come when the call they were for is not the active one. *)
LateMedia(u, c) == Mark(odd, IF active[u] = c THEN {} ELSE {c, active[u]} \cap Calls, "late")

(* acquireCallMediaStream answers startCall or startMeshOutbound. *)
StartMedia(u, t) ==
  /\ t.wait = "startMedia"
  /\ Captured(u, t.call)
  /\ odd' = LateMedia(u, t.call)
  /\ IF t.call \in Group
       THEN /\ NextOffer(u, "startOffer", t.call, mesh, tasks[u] \ {t}, t.rest)
            /\ UNCHANGED <<pc, peerRef>>
       ELSE LET v == Callee(t.call) IN
            /\ pc' = [pc EXCEPT ![u] = NewPc(t.call, v)]
            /\ peerRef' = [peerRef EXCEPT ![u] = v]
            /\ tasks' = [tasks EXCEPT ![u] = (@ \ {t}) \cup {Task("startOffer", t.call, v, {})}]
            /\ UNCHANGED mesh
  /\ UNCHANGED <<active, incoming, course, waiting, pend, net, begun, apart, dropped>>

(* The connection of t, if it is still the one held. *)
HeldIn(k, t) == t.ok /\ k # None /\ k.call = t.call /\ k.peer = t.peer

(* setLocalDescription of the offer, and the invite; on a closed connection createOffer        *)
(* throws, which ends startMeshOutbound, and establishMeshAsCallee goes on with the next.      *)
Offer(u, t) ==
  LET v == t.peer
      group == t.wait = "meshOffer" \/ t.call \in Group
      m == IF group /\ HeldIn(mesh[u][v], t) THEN [mesh EXCEPT ![u][v].st = "offer"] ELSE mesh
      goesOn == group /\ (t.ok \/ t.wait = "meshOffer") IN
  /\ t.wait \in {"startOffer", "meshOffer"}
  /\ net' = IF t.ok THEN Post(net, u, {v}, Msg("invite", t.call)) ELSE net
  /\ NextOffer(u, t.wait, t.call, m, tasks[u] \ {t}, IF goesOn THEN t.rest ELSE {})
  /\ pc' = IF ~group /\ HeldIn(pc[u], t) THEN [pc EXCEPT ![u].st = "offer"] ELSE pc
  /\ UNCHANGED <<active, incoming, stream, peerRef, course, waiting, pend, begun, odd, apart,
                 dropped>>

----------------------------------------------------------------------------
(* The callee. *)

(* acceptCall up to its await; it does not look at the call there may be. *)
Accept(u) ==
  LET i == incoming[u] IN
  /\ i # None
  /\ incoming' = [incoming EXCEPT ![u] = None]
  /\ active' = [active EXCEPT ![u] = i.call]
  /\ odd' = Mark(odd, IF active[u] = None THEN {} ELSE {active[u], i.call}, "over")
  /\ peerRef' = [peerRef EXCEPT ![u] = i.from]
  /\ tasks' = [tasks EXCEPT ![u] = @ \cup {Task("acceptMedia", i.call, i.from, {})}]
  /\ IF i.call \in Group THEN /\ party' = [party EXCEPT ![u] = i.call]
                              /\ joined' = [joined EXCEPT ![u] = FALSE]
                         ELSE UNCHANGED <<party, joined>>
  /\ upgraded' = [upgraded EXCEPT ![u] = FALSE]
  /\ UNCHANGED <<pc, mesh, stream, outgoing, waiting, pend, net, begun, apart, dropped>>

(* rejectCall. *)
Reject(u) ==
  LET i == incoming[u] IN
  /\ i # None
  /\ net' = Post(net, u, {i.from}, Msg("ended", i.call))
  /\ pend' = [pend EXCEPT ![u][i.from] = {}]
  /\ incoming' = [incoming EXCEPT ![u] = None]
  /\ apart' = apart \cup {{u, i.from}}
  /\ UNCHANGED <<active, pc, mesh, stream, peerRef, course, waiting, tasks, begun, odd, dropped>>

AcceptMedia(u, t) ==
  /\ t.wait = "acceptMedia"
  /\ Captured(u, t.call)
  /\ odd' = LateMedia(u, t.call)
  /\ IF t.call \in Group
       THEN mesh' = [mesh EXCEPT ![u][t.peer] = NewPc(t.call, t.peer)] /\ UNCHANGED pc
       ELSE pc' = [pc EXCEPT ![u] = NewPc(t.call, t.peer)] /\ UNCHANGED mesh
  /\ tasks' = [tasks EXCEPT ![u] = (@ \ {t}) \cup {Task("acceptAnswer", t.call, t.peer, {})}]
  /\ UNCHANGED <<active, incoming, peerRef, course, waiting, pend, net, begun, apart, dropped>>

(* The media are refused: the caller stays in a call that does not begin, the callee in one it *)
(* rejects; neither cleans up.                                                                 *)
MediaFails(u, t) ==
  /\ t.wait \in {"startMedia", "acceptMedia"}
  /\ tasks' = [tasks EXCEPT ![u] = @ \ {t}]
  /\ odd' = Mark(odd, {t.call}, "failed")
  /\ net' = IF t.wait = "startMedia" THEN net ELSE Post(net, u, {t.peer}, Msg("ended", t.call))
  /\ UNCHANGED <<local, begun, apart, dropped>>

(* acceptMeshPeerInvite up to its await, for the offers is of other members: m and o are       *)
(* pcMapRef and the tasks after it.                                                            *)
Answerable(u, is, m) ==
  {i \in is : /\ stream[u] # None /\ m[u][i.from] = None
              /\ i = CHOOSE j \in is : j.from = i.from}
PeerPcs(u, is, m) ==
  [m EXCEPT ![u] = [v \in Users |->
     IF \E i \in Answerable(u, is, m) : i.from = v
       THEN NewPc((CHOOSE i \in is : i.from = v).call, v) ELSE @[v]]]
PeerTasks(u, is, m) ==
  {Task("peerAnswer", i.call, i.from, {}) : i \in Answerable(u, is, m)}

(* flushPendingMeshInvites. *)
FlushWaiting(u, m, o) ==
  /\ mesh' = PeerPcs(u, waiting[u], m)
  /\ tasks' = [tasks EXCEPT ![u] = o \cup PeerTasks(u, waiting[u], m)]
  /\ waiting' = [waiting EXCEPT ![u] = {}]

(* The answer: setRemoteDescription, the candidates kept aside, setLocalDescription; on a      *)
(* closed connection an exception: acceptCall rejects, the other takes it out of pcMapRef.     *)
Answer(u, t) ==
  LET v == t.peer
      o == tasks[u] \ {t}
      group == t.wait = "peerAnswer" \/ t.call \in Group
      m == IF group /\ HeldIn(mesh[u][v], t)
             THEN [mesh EXCEPT ![u][v] = Described(u, v, @, t.call, v)]
           ELSE IF ~t.ok /\ t.wait = "peerAnswer" THEN [mesh EXCEPT ![u][v] = None]
           ELSE mesh IN
  /\ t.wait \in {"acceptAnswer", "peerAnswer"}
  /\ IF t.ok THEN Flushed(u, v) ELSE UNCHANGED pend
  /\ pc' = IF ~group /\ HeldIn(pc[u], t)
             THEN [pc EXCEPT ![u] = Described(u, v, @, t.call, v)] ELSE pc
  /\ net' = IF t.ok THEN Post(net, u, {v}, Msg("answer", t.call))
             ELSE IF t.wait = "acceptAnswer" THEN Post(net, u, {v}, Msg("ended", t.call))
             ELSE net
  /\ IF t.ok /\ t.wait = "acceptAnswer" /\ group
       THEN FlushWaiting(u, m, o)
       ELSE mesh' = m /\ tasks' = [tasks EXCEPT ![u] = o] /\ UNCHANGED waiting
  /\ UNCHANGED <<active, incoming, stream, peerRef, course, begun, odd, apart, dropped>>

(* onconnectionstatechange of the connection that acceptCall made: establishMeshAsCallee.      *)
Linked(u, v) ==
  LET k == mesh[u][v]  l == mesh[v][u] IN
  /\ k # None /\ l # None
  /\ k.st = "stable" /\ l.st = "stable" /\ k.call = l.call

Connected(u) ==
  LET v == peerRef[u]
      p == party[u]
      others == {o \in Participants(p) \ {u, Caller[p]} : ShouldInitiate(u, o, Caller[p])} IN
  /\ v # None /\ Linked(u, v) /\ Caller[mesh[u][v].call] # u /\ ~joined[u]
  /\ joined' = [joined EXCEPT ![u] = TRUE]
  /\ IF InGroup(u) /\ p # None /\ Caller[p] # u /\ stream[u] # None
       THEN NextOffer(u, "meshOffer", p, mesh, tasks[u], others)
       ELSE UNCHANGED <<mesh, tasks>>
  /\ UNCHANGED <<active, incoming, pc, stream, peerRef, outgoing, upgraded, party, waiting, pend,
                 net, begun, odd, apart, dropped>>

----------------------------------------------------------------------------
(* Video in a call of two begun without. *)

(* upgradeToVideo up to the camera. *)
Upgrade(u) ==
  /\ pc[u] # None /\ peerRef[u] # None /\ active[u] # None /\ ~InGroup(u) /\ ~upgraded[u]
  /\ ~\E t \in tasks[u] : t.wait = "upgrade" /\ t.ok
  /\ tasks' = [tasks EXCEPT ![u] = @ \cup {Task("upgrade", active[u], peerRef[u], {})}]
  /\ UNCHANGED <<local, net, begun, odd, apart, dropped>>

(* The offer, once what the connection is busy with is over, and the call made active as it was *)
(* when the button was pressed. An offer before the answer to the invite spoils that answer.    *)
Reoffer(u, t) ==
  /\ t.wait = "upgrade" /\ t.ok
  /\ HeldIn(pc[u], t) => pc[u].st # "new"
  /\ pc' = IF HeldIn(pc[u], t) /\ pc[u].st # "broken" THEN [pc EXCEPT ![u].st = "reoffer"] ELSE pc
  /\ odd' = IF HeldIn(pc[u], t) /\ ~HasRemote(pc[u]) THEN Mark(odd, {t.call}, "glare") ELSE odd
  /\ net' = Post(net, u, {t.peer}, Msg("reoffer", t.call))
  /\ upgraded' = [upgraded EXCEPT ![u] = TRUE]
  /\ active' = [active EXCEPT ![u] = t.call]
  /\ tasks' = [tasks EXCEPT ![u] = @ \ {t}]
  /\ UNCHANGED <<incoming, mesh, stream, peerRef, outgoing, party, joined, waiting, pend, begun,
                 apart, dropped>>

(* An operation on a connection that was closed may throw, as above, or never settle. *)
NeverSettles(u, t) ==
  /\ ~t.ok /\ t.wait \notin {"startMedia", "acceptMedia"}
  /\ tasks' = [tasks EXCEPT ![u] = @ \ {t}]
  /\ UNCHANGED <<local, net, begun, odd, apart, dropped>>

----------------------------------------------------------------------------
(* The end. *)

(* Whom hangup tells. *)
Told(u) ==
  LET peers == {v \in Users : mesh[u][v] # None} IN
  IF InGroup(u) /\ peers # {} THEN peers ELSE {peerRef[u]} \cap Users

(* hangup: its button is shown when there is a call and no card. *)
Hangup(u) ==
  /\ active[u] # None /\ incoming[u] = None
  /\ net' = Post(net, u, Told(u), Msg("ended", active[u]))
  /\ odd' = Mark(odd, Late(u), "late")
  /\ Cleanup(u)
  /\ apart' = apart \cup {{u, v} : v \in Told(u)}
  /\ UNCHANGED dropped

----------------------------------------------------------------------------
(* Messages: from v to u, of the kind t. *)

Arrives(v, u, t) == net[v][u] # <<>> /\ Head(net[v][u]).t = t

(* onCallIncoming. *)
OnIncoming(v, u) ==
  LET c == Head(net[v][u]).call
      inChat == InGroup(u) /\ Chat[active[u]] = Chat[c]
      ignored == (active[u] # None /\ ~InGroup(u)) \/ incoming[u] # None
      i == [call |-> c, from |-> v] IN
  /\ Arrives(v, u, "invite")
  /\ net' = Popped(v, u)
  /\ apart' = IF ignored \/ (inChat /\ mesh[u][v] # None) THEN apart \cup {{u, v}} ELSE apart
  /\ IF ignored \/ (inChat /\ mesh[u][v] # None)
       THEN UNCHANGED <<incoming, waiting, mesh, tasks>>
     ELSE IF inChat /\ stream[u] = None
       THEN /\ waiting' = [waiting EXCEPT ![u] = @ \cup {i}]
            /\ UNCHANGED <<incoming, mesh, tasks>>
     ELSE IF inChat
       THEN /\ mesh' = PeerPcs(u, {i}, mesh)
            /\ tasks' = [tasks EXCEPT ![u] = @ \cup PeerTasks(u, {i}, mesh)]
            /\ UNCHANGED <<incoming, waiting>>
     ELSE /\ incoming' = [incoming EXCEPT ![u] = i]
          /\ UNCHANGED <<waiting, mesh, tasks>>
  /\ UNCHANGED <<active, pc, stream, peerRef, course, pend, begun, odd, dropped>>

(* onAccepted: the answer is set on a connection that has an offer; on another it throws.  Of   *)
(* which call it is, it does not say.                                                          *)
OnAccepted(v, u) ==
  LET c == Head(net[v][u]).call
      k == Link(u, v)
      set == k # None /\ k.st = "offer" /\ (InGroup(u) \/ peerRef[u] = v) IN
  /\ Arrives(v, u, "answer")
  /\ net' = Popped(v, u)
  /\ mesh' = IF set /\ InGroup(u) THEN [mesh EXCEPT ![u][v] = Described(u, v, @, c, u)] ELSE mesh
  /\ pc' = IF set /\ ~InGroup(u) THEN [pc EXCEPT ![u] = Described(u, v, @, c, u)] ELSE pc
  /\ IF set THEN Flushed(u, v) ELSE UNCHANGED pend
  /\ odd' = IF set /\ k.call # c THEN Mark(odd, {k.call, c}, "crossed") ELSE odd
  /\ UNCHANGED <<active, incoming, stream, peerRef, course, waiting, tasks, begun, apart, dropped>>

(* onEnded: in a group call one connection, and the call with the last; else all, whoever it   *)
(* comes from.                                                                                 *)
OnEnded(v, u) ==
  LET c == Head(net[v][u]).call
      card == incoming[u]
      stays == InGroup(u) /\ \E w \in Users \ {v} : mesh[u][w] # None
      ends == IF stays THEN (IF mesh[u][v] = None THEN {} ELSE {mesh[u][v].call})
              ELSE {active[u]} \cup (IF card = None THEN {} ELSE {card.call})
      cut == (ends \cap Calls) \ {c}
      unheard == IF stays /\ card # None /\ card.call = c THEN {c} ELSE {}
      late == IF stays THEN {} ELSE Late(u) IN
  /\ Arrives(v, u, "ended")
  /\ net' = Popped(v, u)
  /\ odd' = Mark(Mark(Mark(odd, cut, "cut"), unheard, "unheard"), late, "late")
  /\ IF stays
       THEN /\ mesh' = [mesh EXCEPT ![u][v] = None]
            /\ tasks' = [tasks EXCEPT ![u] = Broken(u, {v})]
            /\ UNCHANGED <<active, incoming, pc, stream, peerRef, course, waiting, pend, begun>>
       ELSE Cleanup(u)
  /\ UNCHANGED <<apart, dropped>>

(* onIce. *)
OnIce(v, u) ==
  LET c == Head(net[v][u]).call
      ours == \/ InGroup(u) \/ peerRef[u] = v
              \/ incoming[u] # None /\ incoming[u].from = v IN
  /\ Arrives(v, u, "ice")
  /\ net' = Popped(v, u)
  /\ IF ours THEN QueueOrAddIce(u, v, Link(u, v), c) /\ UNCHANGED dropped
             ELSE dropped' = dropped \cup {<<u, v, c>>} /\ UNCHANGED <<pc, mesh, pend>>
  /\ UNCHANGED <<active, incoming, stream, peerRef, course, waiting, tasks, begun, odd, apart>>

(* onRenegotiate. An offer that finds one of the connection's own takes that back (an implicit  *)
(* rollback), and the answer to the latter then throws.                                         *)
Renegotiates(v, u, t) ==
  Arrives(v, u, t) /\ Link(u, v) # None /\ (InGroup(u) \/ peerRef[u] = v)

(* Mutant: an answer is not set. *)
ForgetsAnswer(u, v, c, by) ==
  /\ pc' = IF by = v THEN [pc EXCEPT ![u] = Described(u, v, @, c, by)] ELSE pc
  /\ UNCHANGED <<mesh, pend>>

Agrees(u, v, c, by) ==
  /\ IF InGroup(u) THEN mesh' = [mesh EXCEPT ![u][v] = Described(u, v, @, c, by)] /\ UNCHANGED pc
                   ELSE pc' = [pc EXCEPT ![u] = Described(u, v, @, c, by)] /\ UNCHANGED mesh
  /\ Flushed(u, v)

OnReoffer(v, u) ==
  LET c == Head(net[v][u]).call  k == Link(u, v) IN
  /\ Renegotiates(v, u, "reoffer") /\ k.st # "new"
  /\ Agrees(u, v, c, v)
  /\ net' = Post(Popped(v, u), u, {v}, Msg("reanswer", c))
  /\ odd' = IF k.st \in {"offer", "reoffer"} THEN Mark(odd, {k.call, c}, "glare") ELSE odd
  /\ UNCHANGED <<active, incoming, stream, peerRef, course, waiting, tasks, begun, apart,
                 dropped>>

OnReanswer(v, u) ==
  /\ Renegotiates(v, u, "reanswer")
  /\ net' = Popped(v, u)
  /\ IF Link(u, v).st = "reoffer" THEN Agrees(u, v, Head(net[v][u]).call, u)
                                   ELSE UNCHANGED <<pc, mesh, pend>>
  /\ UNCHANGED <<active, incoming, stream, peerRef, course, waiting, tasks, begun, odd, apart,
                 dropped>>

(* No connection, or that of another: the early returns. *)
IgnoresDescription(v, u) ==
  /\ \E t \in {"reoffer", "reanswer"} : Arrives(v, u, t) /\ ~Renegotiates(v, u, t)
  /\ net' = Popped(v, u)
  /\ UNCHANGED <<local, tasks, begun, odd, apart, dropped>>

(* send drops a message while the socket is not open, and SendToUser one for a user without a  *)
(* session or with a full channel; nobody is told.                                             *)
Lose(v, u) ==
  LET m == Head(net[v][u]) IN
  /\ net[v][u] # <<>>
  /\ net' = Popped(v, u)
  /\ IF m.t = "ice" THEN dropped' = dropped \cup {<<u, v, m.call>>} /\ UNCHANGED odd
                    ELSE odd' = Mark(odd, {m.call}, "lost") /\ UNCHANGED dropped
  /\ UNCHANGED <<local, tasks, begun, apart>>

(* onicecandidate, for a connection with a local description. *)
SendIce(u, v) ==
  /\ u \in Gathers
  /\ \/ /\ mesh[u][v] # None /\ mesh[u][v].st # "new" /\ ~mesh[u][v].ice
        /\ mesh' = [mesh EXCEPT ![u][v].ice = TRUE]
        /\ net' = Post(net, u, {v}, Msg("ice", mesh[u][v].call))
        /\ UNCHANGED pc
     \/ /\ pc[u] # None /\ pc[u].peer = v /\ pc[u].st # "new" /\ ~pc[u].ice
        /\ pc' = [pc EXCEPT ![u].ice = TRUE]
        /\ net' = Post(net, u, {v}, Msg("ice", pc[u].call))
        /\ UNCHANGED mesh
  /\ UNCHANGED <<active, incoming, stream, peerRef, course, waiting, pend, tasks, begun, odd,
                 apart, dropped>>

----------------------------------------------------------------------------
Next ==
  \/ \E u \in Users, c \in Calls : StartCall(u, c)
  \/ \E u \in Users : Accept(u) \/ Reject(u) \/ Hangup(u) \/ Connected(u) \/ Upgrade(u)
  \/ \E u \in Users : \E t \in tasks[u] :
        \/ StartMedia(u, t) \/ AcceptMedia(u, t) \/ MediaFails(u, t)
        \/ Offer(u, t) \/ Answer(u, t) \/ Reoffer(u, t) \/ NeverSettles(u, t)
  \/ \E v, u \in Users :
        \/ OnIncoming(v, u) \/ OnAccepted(v, u) \/ OnEnded(v, u)
        \/ OnReoffer(v, u) \/ OnReanswer(v, u) \/ IgnoresDescription(v, u)
        \/ OnIce(v, u) \/ SendIce(v, u) \/ Lose(v, u)

Spec == Init /\ [][Next]_vars

----------------------------------------------------------------------------
(* The variables hold what their comments say: a card, a connection, a task is of a call there *)
(* is; messages are those the code sends.                                                      *)
TypeOK ==
  /\ active \in [Users -> Calls \cup {None}]
  /\ incoming \in [Users -> Invites \cup {None}]
  /\ pc \in [Users -> Connections \cup {None}]
  /\ mesh \in [Users -> [Users -> Connections \cup {None}]]
  /\ stream \in [Users -> Calls \cup {None}] /\ peerRef \in [Users -> Users \cup {None}]
  /\ outgoing \in [Users -> BOOLEAN] /\ party \in [Users -> Group \cup {None}]
  /\ joined \in [Users -> BOOLEAN] /\ upgraded \in [Users -> BOOLEAN]
  /\ waiting \in [Users -> SUBSET Invites]
  /\ pend \in [Users -> [Users -> SUBSET Calls]]
  /\ tasks \in [Users -> SUBSET Tasks]
  /\ net \in [Users -> [Users -> Seq(Messages)]]
  /\ begun \in SUBSET Calls /\ odd \in [Calls -> SUBSET Oddities]
  /\ apart \in SUBSET (SUBSET Users) /\ dropped \in SUBSET (Users \X Users \X Calls)

(* Two members of a group call never both wait for the other's answer, however the events that *)
(* tell them of each other cross (shouldInitiateMeshPeer, groupCallPeers.ts).                  *)
OneOfferer ==
  \A u, v \in Users :
    LET k == mesh[u][v]  l == mesh[v][u] IN
    k # None /\ l # None /\ k.call = l.call => ~(k.st = "offer" /\ l.st = "offer")

InFlight(v, u, c) == \E i \in DOMAIN net[v][u] : net[v][u][i] = Msg("ice", c)

(* A candidate sent reaches the connection it is for once that has a description: it is on its *)
(* way or was added, unless it was lost on that way or came when the receiver knew nothing of  *)
(* the sender (onIce), or the call was disturbed, which losing another of its signals is.  In  *)
(* particular none is left among those kept aside (pendingIceByPeerRef).                       *)
CandidateReaches(k, l, u, v) ==
  /\ k # None /\ l # None /\ k.call = l.call /\ k.peer = v /\ l.peer = u
  /\ k.st = "stable" /\ l.ice /\ odd[k.call] = {}
  => k.got \/ InFlight(v, u, k.call) \/ <<u, v, k.call>> \in dropped

CandidatesKept ==
  \A u, v \in Users : /\ CandidateReaches(mesh[u][v], mesh[v][u], u, v)
                      /\ CandidateReaches(pc[u], pc[v], u, v)

(* The microphone is live without a call only for a call that ended while its media or its     *)
(* description were awaited, or that another one replaced (acquireCallMediaStream's            *)
(* continuations do not look whether there still is a call).                                   *)
MicExplained ==
  \A u \in Users : stream[u] # None /\ active[u] # stream[u]
    => odd[stream[u]] \cap {"late", "over"} # {}

AtRest == \A u, v \in Users : net[u][v] = <<>> /\ tasks[u] = {}

(* When nothing is under way: who rings or talks in a call of two does so with the other end   *)
(* still in it, and both follow the offer of the same one, unless the call was disturbed.      *)
TogetherAtRest ==
  AtRest => \A c \in Calls \ Group :
    LET u == Caller[c]  v == Callee(c) IN
    odd[c] # {} \/ ( /\ active[v] = c \/ (incoming[v] # None /\ incoming[v].call = c)
                        => active[u] = c
                     /\ active[u] = c /\ HasRemote(pc[u]) => active[v] = c
                     /\ active[u] = c /\ active[v] = c /\ HasRemote(pc[u])
                        => pc[u].st = "stable" /\ pc[v].st = "stable" /\ pc[u].by = pc[v].by )

(* When nothing is under way: two members of a group call that reached it are connected unless  *)
(* one ignored the other's offer because a card rang or it was busy, or did not want it, or    *)
(* the call was disturbed.                                                                     *)
InMesh(u, c) == active[u] = c /\ (u = Caller[c] \/ joined[u])
MeshAtRest ==
  AtRest => \A c \in Group : \A u, v \in Users :
    /\ u # v /\ InMesh(u, c) /\ InMesh(v, c) /\ odd[c] = {} /\ {u, v} \notin apart
    => Linked(u, v)
=============================================================================
