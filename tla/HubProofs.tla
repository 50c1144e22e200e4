----------------------------- MODULE HubProofs -----------------------------
(***************************************************************************)
(* The inductive invariant of the hub and the theorems that follow from it *)
(* for every set of accounts, sessions and chats and every channel         *)
(* capacity.                                                               *)
(***************************************************************************)
EXTENDS Hub, TLAPS

(* A session is on its way out: its removal is queued, under way or done. *)
Leaving(c) == InChannel(c, unregister) \/ closing = c \/ c \in closed

(* The turn of the hub under way will close a closed channel. *)
Doomed == closing # NoClient /\ closing \in closed

Once(c, ch) == \A i, j \in DOMAIN ch : ch[i] = c /\ ch[j] = c => i = j

(* A session is registered once: queued, then in the map. *)
RegisteredOnce ==
  /\ \A c \in Clients : Once(c, register)
  /\ \A c \in Clients : InChannel(c, register) => rp[c] # "new" /\ c \notin clients
  /\ \A c \in clients \cup dropped : rp[c] # "new"
  /\ \A c \in Clients : rp[c] # "new" =>
       c \in clients \/ InChannel(c, register) \/ closing = c \/ c \in closed

(* A session the hub did not drop leaves once, after its ReadPump ended. *)
LeavesOnce ==
  \A c \in Clients \ dropped :
    /\ Leaving(c) <=> rp[c] = "done"
    /\ Once(c, unregister)
    /\ InChannel(c, unregister) => closing # c /\ c \notin closed
    /\ closing = c => c \notin closed

(* Only an overtaken registration brings a closed channel into the map. *)
ClosedMeansGone ==
  \A c \in Clients :
    (c \in clients \/ InChannel(c, register)) /\ (closing = c \/ c \in closed) => c \in overtaken

PushesToRegistered ==
  \A p \in todo : p.to \in clients /\ (p.what # Data => UserOf[p.to] # p.what.user)

NotYetTold ==
  \A c \in Clients :
    /\ told[c][UserOf[c]] = "none"
    /\ rp[c] = "new" \/ InChannel(c, register) => \A u \in Users : told[c][u] = "none"

Pending(c, u) == \E p \in todo : p.to = c /\ p.what # Data /\ p.what.user = u

(* The claims still to be pushed are true, and so is every claim without a later one. *)
ClaimsTrue ==
  overtaken = {} /\ ~Doomed =>
    /\ \A p \in todo : p.what # Data => (p.what.state = "on" <=> IsOnline(p.what.user))
    /\ \A c \in clients \ dropped, u \in Users : ~Pending(c, u) =>
         /\ told[c][u] = "on" => IsOnline(u)
         /\ told[c][u] = "off" => ~IsOnline(u)

RegistryInv == TypeOK /\ RegisteredOnce /\ LeavesOnce /\ ClosedMeansGone
PushInv == PushesToRegistered /\ PanicExplained
ToldInv == NotYetTold /\ ClaimsTrue

----------------------------------------------------------------------------
(* What sending to a channel and receiving from it does to its contents. *)
LEMMA SendFacts ==
  ASSUME NEW S, NEW s \in Seq(S), NEW e \in S
  PROVE  /\ Append(s, e) \in Seq(S)
         /\ Len(Append(s, e)) = Len(s) + 1
         /\ DOMAIN s = 1..Len(s) /\ DOMAIN Append(s, e) = 1..(Len(s) + 1)
         /\ \A i \in 1..Len(s) : Append(s, e)[i] = s[i]
         /\ Append(s, e)[Len(s) + 1] = e
         /\ Len(s) \in Nat
OBVIOUS

LEMMA ReceiveFacts ==
  ASSUME NEW S, NEW s \in Seq(S), s # <<>>
  PROVE  /\ Head(s) = s[1] /\ Head(s) \in S
         /\ Tail(s) \in Seq(S)
         /\ Len(Tail(s)) = Len(s) - 1 /\ Len(s) \in Nat \ {0}
         /\ DOMAIN s = 1..Len(s) /\ DOMAIN Tail(s) = 1..(Len(s) - 1)
         /\ \A i \in 1..(Len(s) - 1) : Tail(s)[i] = s[i + 1]
OBVIOUS

LEMMA SentIsIn ==
  ASSUME NEW S, NEW s \in Seq(S), NEW e \in S, NEW c
  PROVE  InChannel(c, Append(s, e)) <=> InChannel(c, s) \/ c = e
BY SendFacts DEF InChannel

LEMMA ReceivedWasIn ==
  ASSUME NEW S, NEW s \in Seq(S), s # <<>>, NEW c
  PROVE  /\ InChannel(Head(s), s)
         /\ InChannel(c, Tail(s)) => InChannel(c, s)
         /\ InChannel(c, s) => c = Head(s) \/ InChannel(c, Tail(s))
<1>1. InChannel(Head(s), s)
  BY ReceiveFacts DEF InChannel
<1>2. InChannel(c, Tail(s)) => InChannel(c, s)
  BY ReceiveFacts DEF InChannel
<1>3. ASSUME NEW i \in DOMAIN s, s[i] = c, c # Head(s)
      PROVE  InChannel(c, Tail(s))
  <2>1. i \in 2..Len(s) /\ i - 1 \in DOMAIN Tail(s)
    BY <1>3, ReceiveFacts
  <2>2. Tail(s)[i - 1] = c
    BY <1>3, <2>1, ReceiveFacts
  <2> QED BY <2>1, <2>2 DEF InChannel
<1> QED BY <1>1, <1>2, <1>3 DEF InChannel

LEMMA SentOnce ==
  ASSUME NEW S, NEW s \in Seq(S), NEW e \in S, NEW c, Once(c, s), c = e => ~InChannel(c, s)
  PROVE  Once(c, Append(s, e))
BY SendFacts DEF InChannel, Once

LEMMA ReceivedOnce ==
  ASSUME NEW S, NEW s \in Seq(S), s # <<>>, NEW c, Once(c, s)
  PROVE  /\ Once(c, Tail(s))
         /\ c = Head(s) => ~InChannel(c, Tail(s))
<1>1. Once(c, Tail(s))
  <2> SUFFICES ASSUME NEW i \in DOMAIN Tail(s), NEW j \in DOMAIN Tail(s),
                      Tail(s)[i] = c, Tail(s)[j] = c
               PROVE  i = j
    BY DEF Once
  <2>1. i + 1 \in DOMAIN s /\ j + 1 \in DOMAIN s /\ s[i + 1] = c /\ s[j + 1] = c
    BY ReceiveFacts
  <2>2. i + 1 = j + 1
    BY <2>1 DEF Once
  <2> QED BY <2>2, ReceiveFacts
<1>2. ASSUME c = Head(s), NEW i \in DOMAIN Tail(s), Tail(s)[i] = c PROVE FALSE
  <2>1. i + 1 \in DOMAIN s /\ s[i + 1] = c /\ 1 \in DOMAIN s /\ s[1] = c /\ i \in Nat \ {0}
    BY <1>2, ReceiveFacts
  <2>2. i + 1 = 1
    BY <2>1 DEF Once
  <2> QED BY <2>1, <2>2
<1> QED BY <1>1, <1>2 DEF InChannel

----------------------------------------------------------------------------
LEMMA ClaimPushesType ==
  ASSUME NEW u \in Users, NEW s \in {"on", "off"}, NEW cs \in SUBSET Clients
  PROVE  ClaimPushes(u, s, cs) \in SUBSET Push
BY DEF ClaimPushes, Push, Payload, Claim

LEMMA ClaimPushesFacts ==
  ASSUME NEW u \in Users, NEW s \in {"on", "off"}, NEW cs \in SUBSET Clients
  PROVE  /\ \A p \in ClaimPushes(u, s, cs) :
              /\ p.to \in cs /\ UserOf[p.to] # u
              /\ p.what # Data /\ p.what.user = u /\ p.what.state = s
         /\ \A c \in cs : UserOf[c] # u =>
              [pass |-> 1, to |-> c, what |-> [user |-> u, state |-> s]] \in ClaimPushes(u, s, cs)
<1>1. [user |-> u, state |-> s] # Data
  BY HubAssumption DEF Claim
<1> QED BY <1>1 DEF ClaimPushes

(* The initial state has the types. *)
LEMMA TypeInit == Init => TypeOK
BY HubAssumption
DEF Init, TypeOK, RegistryTypes, ChannelTypes, SendTypes, PumpTypes, TurnTypes, HistoryTypes

(* A group of variables that a step leaves alone keeps its types. *)
LEMMA TypesKept ==
  /\ RegistryTypes /\ UNCHANGED <<clients, chatMembers>> => RegistryTypes'
  /\ ChannelTypes /\ UNCHANGED channels => ChannelTypes'
  /\ SendTypes /\ UNCHANGED <<buffered, closed>> => SendTypes'
  /\ PumpTypes /\ UNCHANGED pumps => PumpTypes'
  /\ TurnTypes /\ UNCHANGED <<todo, closing, fate>> => TurnTypes'
  /\ HistoryTypes /\ UNCHANGED history => HistoryTypes'
<1>1. RegistryTypes /\ UNCHANGED <<clients, chatMembers>> => RegistryTypes'
  BY DEF RegistryTypes
<1>2. ChannelTypes /\ UNCHANGED channels => ChannelTypes'
  BY DEF ChannelTypes, channels
<1>3. SendTypes /\ UNCHANGED <<buffered, closed>> => SendTypes'
  BY DEF SendTypes
<1>4. PumpTypes /\ UNCHANGED pumps => PumpTypes'
  BY DEF PumpTypes, pumps
<1>5. TurnTypes /\ UNCHANGED <<todo, closing, fate>> => TurnTypes'
  BY DEF TurnTypes
<1>6. HistoryTypes /\ UNCHANGED history => HistoryTypes'
  BY DEF HistoryTypes, history
<1> QED BY <1>1, <1>2, <1>3, <1>4, <1>5, <1>6

(* A payload put in a Send channel with room leaves it within its capacity. *)
LEMMA OneMore ==
  ASSUME SendTypes, NEW c \in Clients, HasRoom(c)
  PROVE  [buffered EXCEPT ![c] = @ + 1] \in [Clients -> 0..SendCap]
<1>1. buffered[c] + 1 \in 0..SendCap
  BY HubAssumption DEF SendTypes, HasRoom
<1> QED BY <1>1 DEF SendTypes

LEMMA TypeSession ==
  ASSUME TypeOK, NEW c \in Clients, Session(c)
  PROVE  TypeOK'
<1>1. CASE Connect(c)
  <2>0. register \in Seq(Clients)
    BY DEF TypeOK, ChannelTypes
  <2>1. ChannelTypes'
    BY <1>1, <2>0, SendFacts, HubAssumption DEF Connect, TypeOK, ChannelTypes
  <2>2. PumpTypes'
    BY <1>1 DEF Connect, TypeOK, PumpTypes
  <2> QED BY <1>1, <2>1, <2>2, TypesKept DEF Connect, TypeOK
<1>2. CASE StartPumps(c)
  <2>1. PumpTypes'
    BY <1>2 DEF StartPumps, TypeOK, PumpTypes
  <2> QED BY <1>2, <2>1, TypesKept DEF StartPumps, TypeOK
<1>3. CASE PeerGone(c)
  <2>1. PumpTypes'
    BY <1>3 DEF PeerGone, TypeOK, PumpTypes
  <2> QED BY <1>3, <2>1, TypesKept DEF PeerGone, TypeOK
<1>4. CASE AnswerPing(c)
  <2>1. SendTypes'
    BY <1>4, OneMore DEF AnswerPing, TypeOK, SendTypes
  <2>2. TurnTypes'
    BY <1>4 DEF AnswerPing, TypeOK, TurnTypes
  <2> QED BY <1>4, <2>1, <2>2, TypesKept DEF AnswerPing, TypeOK
<1>5. CASE ReadPumpExit(c)
  <2>0. unregister \in Seq(Clients)
    BY DEF TypeOK, ChannelTypes
  <2>1. ChannelTypes'
    BY <1>5, <2>0, SendFacts, HubAssumption DEF ReadPumpExit, TypeOK, ChannelTypes
  <2>2. PumpTypes'
    BY <1>5 DEF ReadPumpExit, TypeOK, PumpTypes
  <2> QED BY <1>5, <2>1, <2>2, TypesKept DEF ReadPumpExit, TypeOK
<1>6. CASE WriteBatch(c)
  <2>1. SendTypes'
    BY <1>6, HubAssumption DEF WriteBatch, TypeOK, SendTypes
  <2> QED BY <1>6, <2>1, TypesKept DEF WriteBatch, TypeOK
<1>7. CASE WritePumpEnd(c)
  <2>1. PumpTypes'
    BY <1>7 DEF WritePumpEnd, WritePumpReturn, TypeOK, PumpTypes
  <2>2. UNCHANGED channels
    BY <1>7 DEF WritePumpEnd, WritePumpReturn, channels
  <2> QED BY <1>7, <2>1, <2>2, TypesKept DEF WritePumpEnd, TypeOK
<1> QED BY <1>1, <1>2, <1>3, <1>4, <1>5, <1>6, <1>7 DEF Session

LEMMA TypePushOne ==
  ASSUME TypeOK, NEW p \in todo, PushOne(p)
  PROVE  TypeOK'
<1>0. /\ p \in Push /\ p.to \in Clients
      /\ p.what # Data => p.what.user \in Users /\ p.what.state \in {"on", "off"}
  BY DEF TypeOK, TurnTypes, Push, Payload, Claim
<1>1. RegistryTypes' /\ PumpTypes'
  BY TypesKept DEF PushOne, TypeOK
<1>2. TurnTypes'
  BY DEF PushOne, TypeOK, TurnTypes
<1>3. SendTypes'
  BY <1>0, OneMore DEF PushOne, TypeOK, SendTypes
<1>4. ChannelTypes'
  <2>1. unregister \in Seq(Clients) /\ Len(unregister) <= UnregCap
    BY DEF TypeOK, ChannelTypes
  <2>2. \/ unregister' = unregister
        \/ unregister' = Append(unregister, p.to) /\ Len(unregister) < UnregCap
    BY DEF PushOne
  <2>3. unregister' \in Seq(Clients) /\ Len(unregister') <= UnregCap
    <3>1. Len(Append(unregister, p.to)) = Len(unregister) + 1 /\ Len(unregister) \in Nat
      BY <1>0, <2>1, SendFacts
    <3>2. Append(unregister, p.to) \in Seq(Clients)
      BY <1>0, <2>1, SendFacts
    <3> QED BY <2>1, <2>2, <3>1, <3>2, HubAssumption
  <2> QED BY <2>3 DEF PushOne, TypeOK, ChannelTypes
<1>5. HistoryTypes'
  <2>1. told' \in [Clients -> [Users -> {"none", "on", "off"}]]
    <3>1. CASE told' = told
      BY <3>1 DEF TypeOK, HistoryTypes
    <3>2. CASE told' # told
      <4>1. p.what # Data /\ told' = [told EXCEPT ![p.to][p.what.user] = p.what.state]
        BY <3>2 DEF PushOne
      <4> QED BY <1>0, <4>1 DEF TypeOK, HistoryTypes
    <3> QED BY <3>1, <3>2
  <2> QED BY <1>0, <2>1 DEF PushOne, TypeOK, HistoryTypes
<1> QED BY <1>1, <1>2, <1>3, <1>4, <1>5 DEF TypeOK

LEMMA TypeHub ==
  ASSUME TypeOK, HubStep
  PROVE  TypeOK'
<1>1. CASE HandleRegister
  <2>1. register \in Seq(Clients) /\ register # <<>>
    BY <1>1 DEF HandleRegister, TypeOK, ChannelTypes
  <2>2. Head(register) \in Clients /\ ChannelTypes'
    BY <1>1, <2>1, ReceiveFacts, HubAssumption DEF HandleRegister, TypeOK, ChannelTypes
  <2>3. RegistryTypes'
    BY <1>1, <2>2 DEF HandleRegister, TypeOK, RegistryTypes
  <2>4. TurnTypes'
    <3>1. ClaimPushes(UserOf[Head(register)], "on", clients) \in SUBSET Push
      BY <2>2, ClaimPushesType, HubAssumption DEF TypeOK, RegistryTypes
    <3> QED BY <1>1, <3>1 DEF HandleRegister, TypeOK, TurnTypes
  <2> QED BY <1>1, <2>2, <2>3, <2>4, TypesKept DEF HandleRegister, TypeOK
<1>2. CASE HandleUnregister
  <2>1. unregister \in Seq(Clients) /\ unregister # <<>>
    BY <1>2 DEF HandleUnregister, TypeOK, ChannelTypes
  <2>2. Head(unregister) \in Clients /\ ChannelTypes'
    BY <1>2, <2>1, ReceiveFacts, HubAssumption DEF HandleUnregister, TypeOK, ChannelTypes
  <2>3. RegistryTypes'
    BY <1>2, <2>2 DEF HandleUnregister, Forget, TypeOK, RegistryTypes
  <2>4. TurnTypes'
    <3>1. ClaimPushes(UserOf[Head(unregister)], "off", Forget(Head(unregister))) \in SUBSET Push
      BY <2>2, ClaimPushesType, HubAssumption DEF TypeOK, RegistryTypes, Forget
    <3> QED BY <1>2, <2>2, <3>1 DEF HandleUnregister, TypeOK, TurnTypes
  <2>5. HistoryTypes'
    BY <1>2, <2>2 DEF HandleUnregister, TypeOK, HistoryTypes
  <2> QED BY <1>2, <2>2, <2>3, <2>4, <2>5, TypesKept DEF HandleUnregister, TypeOK
<1>3. CASE CloseSend
  <2>1. SendTypes' /\ TurnTypes'
    BY <1>3 DEF CloseSend, TypeOK, SendTypes, TurnTypes
  <2> QED BY <1>3, <2>1, TypesKept DEF CloseSend, TypeOK
<1>4. CASE HandleBroadcast
  <2>1. broadcast \in Seq(Event) /\ broadcast # <<>>
    BY <1>4 DEF HandleBroadcast, TypeOK, ChannelTypes
  <2>2. ChannelTypes'
    BY <1>4, <2>1, ReceiveFacts, HubAssumption DEF HandleBroadcast, TypeOK, ChannelTypes
  <2>3. TurnTypes'
    <3>1. \A c \in clients : [pass |-> 1, to |-> c, what |-> Data] \in Push
      BY DEF TypeOK, RegistryTypes, Push, Payload
    <3> QED BY <1>4, <3>1 DEF HandleBroadcast, TypeOK, TurnTypes
  <2> QED BY <1>4, <2>2, <2>3, TypesKept DEF HandleBroadcast, TypeOK
<1>5. CASE \E p \in todo : PushOne(p)
  BY <1>5, TypePushOne
<1> QED BY <1>1, <1>2, <1>3, <1>4, <1>5 DEF HubStep

LEMMA TypeStep == TypeOK /\ [Next]_vars => TypeOK'
<1> SUFFICES ASSUME TypeOK, [Next]_vars PROVE TypeOK'
  OBVIOUS
<1>1. CASE \E c \in Clients : Session(c)
  BY <1>1, TypeSession
<1>2. CASE HubStep
  BY <1>2, TypeHub
<1>3. ASSUME NEW e \in Event, Publish(e) PROVE TypeOK'
  <2>0. broadcast \in Seq(Event)
    BY DEF TypeOK, ChannelTypes
  <2>1. ChannelTypes'
    BY <1>3, <2>0, SendFacts, HubAssumption DEF Publish, TypeOK, ChannelTypes
  <2> QED BY <1>3, <2>1, TypesKept DEF Publish, TypeOK
<1>4. ASSUME NEW h \in Chats, NEW us \in Lists, UpdateChatMembers(h, us) PROVE TypeOK'
  <2>1. RegistryTypes'
    BY <1>4 DEF UpdateChatMembers, TypeOK, RegistryTypes
  <2> QED BY <1>4, <2>1, TypesKept DEF UpdateChatMembers, TypeOK
<1>5. CASE UNCHANGED vars
  BY <1>5, TypesKept DEF vars, TypeOK
<1> QED BY <1>1, <1>2, <1>3, <1>4, <1>5 DEF Next

(* In every reachable state each variable has its type and no channel exceeds its capacity. *)
THEOREM TypeCorrect == Spec => []TypeOK
BY TypeInit, TypeStep, PTL DEF Spec

----------------------------------------------------------------------------
LEMMA RegistryInit == Init => RegisteredOnce /\ LeavesOnce /\ ClosedMeansGone
BY HubAssumption
DEF Init, RegisteredOnce, LeavesOnce, ClosedMeansGone, Leaving, InChannel, Once

(* Steps that touch neither the registry, the two channels of sessions nor the ReadPumps. *)
LEMMA RegistryKept ==
  RegisteredOnce /\ LeavesOnce /\ ClosedMeansGone
  /\ UNCHANGED <<clients, register, unregister, closed, closing, rp, dropped, overtaken>>
  => (RegisteredOnce /\ LeavesOnce /\ ClosedMeansGone)'
BY DEF RegisteredOnce, LeavesOnce, ClosedMeansGone, Leaving, InChannel, Once

LEMMA RegistryConnect ==
  ASSUME RegistryInv, NEW c \in Clients, Connect(c)
  PROVE  (RegisteredOnce /\ LeavesOnce /\ ClosedMeansGone)'
<1>1. register \in Seq(Clients) /\ register' = Append(register, c)
  BY DEF Connect, RegistryInv, TypeOK, ChannelTypes
<1>2. \A d \in Clients : InChannel(d, register') <=> InChannel(d, register) \/ d = c
  BY <1>1, SentIsIn
<1>3. rp[c] = "new" /\ rp' = [rp EXCEPT ![c] = "filling"] /\ rp \in [Clients -> {"new", "filling", "run", "done"}]
  BY DEF Connect, RegistryInv, TypeOK, PumpTypes
<1>4. ~InChannel(c, register) /\ c \notin clients /\ c \notin dropped
  BY <1>3 DEF RegistryInv, RegisteredOnce
<1>5. ~Leaving(c)
  BY <1>3, <1>4 DEF RegistryInv, LeavesOnce
<1>6. \A d \in Clients : Once(d, register')
  BY <1>1, <1>4, SentOnce DEF RegistryInv, RegisteredOnce
<1>7. UNCHANGED <<clients, unregister, closed, closing, dropped, overtaken>>
  BY DEF Connect, history
<1>8. clients \in SUBSET Clients /\ dropped \in SUBSET Clients
  BY DEF RegistryInv, TypeOK, RegistryTypes, HistoryTypes
<1>9. RegisteredOnce'
  BY <1>2, <1>3, <1>4, <1>6, <1>7, <1>8 DEF RegistryInv, RegisteredOnce
<1>10. LeavesOnce'
  BY <1>3, <1>5, <1>7 DEF RegistryInv, LeavesOnce, Leaving
<1>11. ClosedMeansGone'
  BY <1>2, <1>5, <1>7 DEF RegistryInv, ClosedMeansGone, Leaving
<1> QED BY <1>9, <1>10, <1>11

LEMMA RegistryStartPumps ==
  ASSUME RegistryInv, NEW c \in Clients, StartPumps(c)
  PROVE  (RegisteredOnce /\ LeavesOnce /\ ClosedMeansGone)'
<1>1. rp[c] = "filling" /\ rp' = [rp EXCEPT ![c] = "run"] /\ rp \in [Clients -> {"new", "filling", "run", "done"}]
  BY DEF StartPumps, RegistryInv, TypeOK, PumpTypes
<1>2. UNCHANGED <<clients, register, unregister, closed, closing, dropped, overtaken>>
  BY DEF StartPumps, history, channels
<1>3. clients \in SUBSET Clients /\ dropped \in SUBSET Clients
  BY DEF RegistryInv, TypeOK, RegistryTypes, HistoryTypes
<1> QED BY <1>1, <1>2, <1>3
        DEF RegistryInv, RegisteredOnce, LeavesOnce, ClosedMeansGone, Leaving, InChannel, Once

LEMMA RegistryReadPumpExit ==
  ASSUME RegistryInv, NEW c \in Clients, ReadPumpExit(c)
  PROVE  (RegisteredOnce /\ LeavesOnce /\ ClosedMeansGone)'
<1>1. unregister \in Seq(Clients) /\ unregister' = Append(unregister, c)
  BY DEF ReadPumpExit, RegistryInv, TypeOK, ChannelTypes
<1>2. \A d \in Clients : InChannel(d, unregister') <=> InChannel(d, unregister) \/ d = c
  BY <1>1, SentIsIn
<1>3. rp[c] = "run" /\ rp' = [rp EXCEPT ![c] = "done"] /\ rp \in [Clients -> {"new", "filling", "run", "done"}]
  BY DEF ReadPumpExit, RegistryInv, TypeOK, PumpTypes
<1>4. c \notin dropped => ~Leaving(c)
  BY <1>3 DEF RegistryInv, LeavesOnce
<1>5. \A d \in Clients \ dropped : Once(d, unregister')
  BY <1>1, <1>4, SentOnce DEF RegistryInv, LeavesOnce, Leaving
<1>6. UNCHANGED <<clients, register, closed, closing, dropped, overtaken>>
  BY DEF ReadPumpExit, history
<1>7. clients \in SUBSET Clients /\ dropped \in SUBSET Clients
  BY DEF RegistryInv, TypeOK, RegistryTypes, HistoryTypes
<1>8. RegisteredOnce'
  BY <1>3, <1>6, <1>7 DEF RegistryInv, RegisteredOnce, InChannel, Once
<1>9. LeavesOnce'
  BY <1>2, <1>3, <1>4, <1>5, <1>6 DEF RegistryInv, LeavesOnce, Leaving
<1>10. ClosedMeansGone'
  BY <1>6 DEF RegistryInv, ClosedMeansGone, InChannel
<1> QED BY <1>8, <1>9, <1>10

LEMMA RegistryPushOne ==
  ASSUME RegistryInv, PushesToRegistered, NEW p \in todo, PushOne(p)
  PROVE  (RegisteredOnce /\ LeavesOnce /\ ClosedMeansGone)'
<1>1. UNCHANGED <<clients, register, closed, closing, rp, overtaken>>
  BY DEF PushOne, pumps
<1>2. CASE UNCHANGED <<unregister, dropped>>
  BY <1>1, <1>2, RegistryKept DEF RegistryInv
<1>3. CASE unregister' = Append(unregister, p.to) /\ dropped' = dropped \cup {p.to}
  <2>1. unregister \in Seq(Clients) /\ p.to \in Clients /\ p.to \in clients
    BY DEF RegistryInv, TypeOK, ChannelTypes, RegistryTypes, PushesToRegistered
  <2>2. \A d \in Clients : d # p.to => (InChannel(d, unregister') <=> InChannel(d, unregister))
    BY <1>3, <2>1, SentIsIn
  <2>3. \A d \in Clients \ dropped' : d # p.to /\ d \notin dropped /\ Once(d, unregister')
    BY <1>3, <2>1, SentOnce DEF RegistryInv, LeavesOnce
  <2>4. RegisteredOnce'
    BY <1>1, <1>3, <2>1 DEF RegistryInv, RegisteredOnce, InChannel, Once
  <2>5. LeavesOnce'
    BY <1>1, <2>2, <2>3 DEF RegistryInv, LeavesOnce, Leaving
  <2>6. ClosedMeansGone'
    BY <1>1 DEF RegistryInv, ClosedMeansGone, InChannel
  <2> QED BY <2>4, <2>5, <2>6
<1> QED BY <1>2, <1>3 DEF PushOne

LEMMA RegistryHandleRegister ==
  ASSUME RegistryInv, HandleRegister
  PROVE  (RegisteredOnce /\ LeavesOnce /\ ClosedMeansGone)'
<1> DEFINE c == Head(register)
<1>1. register \in Seq(Clients) /\ register # <<>> /\ register' = Tail(register) /\ c \in Clients
  BY ReceiveFacts DEF HandleRegister, RegistryInv, TypeOK, ChannelTypes
<1>2. \A d \in Clients : InChannel(d, register) <=> d = c \/ InChannel(d, register')
  BY <1>1, ReceivedWasIn
<1>3. \A d \in Clients : Once(d, register')
  BY <1>1, ReceivedOnce DEF RegistryInv, RegisteredOnce
<1>4. ~InChannel(c, register')
  BY <1>1, ReceivedOnce DEF RegistryInv, RegisteredOnce
<1>5. clients' = clients \cup {c} /\ closing = NoClient
      /\ UNCHANGED <<unregister, closed, closing, rp, dropped, overtaken>>
  BY DEF HandleRegister, HubTurn, HubIdle, pumps, history
<1>6. clients \in SUBSET Clients /\ dropped \in SUBSET Clients
  BY DEF RegistryInv, TypeOK, RegistryTypes, HistoryTypes
<1> HIDE DEF c
<1>7. RegisteredOnce'
  BY <1>1, <1>2, <1>3, <1>4, <1>5, <1>6 DEF RegistryInv, RegisteredOnce
<1>8. LeavesOnce'
  BY <1>5 DEF RegistryInv, LeavesOnce, Leaving, InChannel, Once
<1>9. ClosedMeansGone'
  BY <1>2, <1>5 DEF RegistryInv, ClosedMeansGone
<1> QED BY <1>7, <1>8, <1>9

LEMMA RegistryHandleUnregister ==
  ASSUME RegistryInv, HandleUnregister
  PROVE  (RegisteredOnce /\ LeavesOnce /\ ClosedMeansGone)'
<1> DEFINE c == Head(unregister)
<1>1. unregister \in Seq(Clients) /\ unregister # <<>> /\ unregister' = Tail(unregister) /\ c \in Clients
  BY ReceiveFacts DEF HandleUnregister, RegistryInv, TypeOK, ChannelTypes
<1>2. \A d \in Clients : InChannel(d, unregister) <=> d = c \/ InChannel(d, unregister')
  BY <1>1, ReceivedWasIn
<1>3. \A d \in Clients \ dropped : Once(d, unregister')
  BY <1>1, ReceivedOnce DEF RegistryInv, LeavesOnce
<1>4. c \notin dropped => ~InChannel(c, unregister')
  BY <1>1, ReceivedOnce DEF RegistryInv, LeavesOnce
<1>5. /\ clients' = clients \ {c} /\ closing = NoClient /\ closing' = c
      /\ UNCHANGED <<register, closed, rp, dropped>>
      /\ overtaken' = IF InChannel(c, register) THEN overtaken \cup {c} ELSE overtaken
  BY DEF HandleUnregister, Forget, HubTurn, HubIdle, pumps
<1>6. clients \in SUBSET Clients /\ dropped \in SUBSET Clients
  BY DEF RegistryInv, TypeOK, RegistryTypes, HistoryTypes
<1>7. NoClient \notin Clients
  BY HubAssumption
<1>8. \A d \in Clients : InChannel(d, register') <=> InChannel(d, register)
  BY <1>5 DEF InChannel
<1> HIDE DEF c
<1>9. RegisteredOnce'
  <2>1. \A d \in Clients : Once(d, register')
    BY <1>5 DEF RegistryInv, RegisteredOnce, Once
  <2> QED BY <1>1, <1>5, <1>6, <1>7, <1>8, <2>1 DEF RegistryInv, RegisteredOnce
<1>10. LeavesOnce'
  BY <1>1, <1>2, <1>3, <1>4, <1>5, <1>7 DEF RegistryInv, LeavesOnce, Leaving
<1>11. ClosedMeansGone'
  BY <1>1, <1>5, <1>7, <1>8 DEF RegistryInv, ClosedMeansGone
<1> QED BY <1>9, <1>10, <1>11

LEMMA RegistryCloseSend ==
  ASSUME RegistryInv, CloseSend
  PROVE  (RegisteredOnce /\ LeavesOnce /\ ClosedMeansGone)'
<1>1. UNCHANGED <<clients, register, unregister, rp, dropped, overtaken>>
  BY DEF CloseSend, channels, pumps, history
<1>2. CASE closing \in closed
  BY <1>1, <1>2, RegistryKept DEF CloseSend, RegistryInv
<1>3. CASE closing \notin closed
  <2>1. closed' = closed \cup {closing} /\ closing' = NoClient /\ closing \in Clients
    BY <1>3 DEF CloseSend, RegistryInv, TypeOK, TurnTypes
  <2>2. NoClient \notin Clients
    BY HubAssumption
  <2>3. clients \in SUBSET Clients /\ dropped \in SUBSET Clients
    BY DEF RegistryInv, TypeOK, RegistryTypes, HistoryTypes
  <2> QED BY <1>1, <2>1, <2>2, <2>3
          DEF RegistryInv, RegisteredOnce, LeavesOnce, ClosedMeansGone, Leaving, InChannel, Once
<1> QED BY <1>2, <1>3

LEMMA RegistryStep ==
  ASSUME RegistryInv, PushesToRegistered, [Next]_vars
  PROVE  RegistryInv'
<1>1. TypeOK'
  BY TypeStep DEF RegistryInv
<1>2. (RegisteredOnce /\ LeavesOnce /\ ClosedMeansGone)'
  <2>1. ASSUME NEW c \in Clients, Session(c)
        PROVE  (RegisteredOnce /\ LeavesOnce /\ ClosedMeansGone)'
    <3>1. CASE PeerGone(c) \/ AnswerPing(c) \/ WriteBatch(c) \/ WritePumpEnd(c)
      BY <3>1, RegistryKept
      DEF RegistryInv, PeerGone, AnswerPing, WriteBatch, WritePumpEnd, WritePumpReturn,
          channels, pumps, history
    <3> QED BY <2>1, <3>1, RegistryConnect, RegistryStartPumps, RegistryReadPumpExit DEF Session
  <2>2. CASE HubStep
    <3>1. CASE HandleBroadcast
      BY <3>1, RegistryKept DEF RegistryInv, HandleBroadcast, pumps, history
    <3> QED BY <2>2, <3>1, RegistryHandleRegister, RegistryHandleUnregister, RegistryCloseSend,
               RegistryPushOne DEF HubStep
  <2>3. CASE \/ \E e \in Event : Publish(e)
             \/ \E h \in Chats, us \in Lists : UpdateChatMembers(h, us)
             \/ UNCHANGED vars
    BY <2>3, RegistryKept DEF RegistryInv, Publish, UpdateChatMembers, vars, channels, pumps, history
  <2> QED BY <2>1, <2>2, <2>3 DEF Next
<1> QED BY <1>1, <1>2 DEF RegistryInv

----------------------------------------------------------------------------
LEMMA PushInit == Init => PushInv
BY HubAssumption DEF Init, PushInv, PushesToRegistered, PanicExplained

LEMMA PushStep ==
  ASSUME RegistryInv, PushInv, [Next]_vars
  PROVE  PushInv'
<1>1. CASE UNCHANGED <<clients, todo, fate, closing, dropped, overtaken>>
  BY <1>1 DEF PushInv, PushesToRegistered, PanicExplained
<1>2. ASSUME NEW c \in Clients, AnswerPing(c)
      PROVE  PushInv'
  <2>1. c \in closed => c \in dropped
    BY <1>2 DEF AnswerPing, RegistryInv, LeavesOnce, Leaving
  <2>2. UNCHANGED <<clients, todo, closing, dropped, overtaken>>
    BY <1>2 DEF AnswerPing, history
  <2> QED BY <1>2, <2>1, <2>2 DEF AnswerPing, PushInv, PushesToRegistered, PanicExplained
<1>3. ASSUME NEW c \in Clients, Session(c), ~AnswerPing(c)
      PROVE  PushInv'
  BY <1>1, <1>3 DEF Session, Connect, StartPumps, PeerGone, ReadPumpExit, WriteBatch,
                    WritePumpEnd, history
<1>4. CASE HandleRegister
  <2>1. Head(register) \in Clients
    BY <1>4, ReceiveFacts DEF HandleRegister, RegistryInv, TypeOK, ChannelTypes
  <2>2. \A p \in todo' : p.to \in clients /\ UserOf[p.to] # p.what.user
    BY <1>4, <2>1, ClaimPushesFacts, HubAssumption DEF HandleRegister, RegistryInv, TypeOK, RegistryTypes
  <2> QED BY <1>4, <2>2 DEF HandleRegister, HubTurn, PushInv, PushesToRegistered, PanicExplained
<1>5. CASE HandleUnregister
  <2>1. Head(unregister) \in Clients /\ clients' \in SUBSET Clients /\ clients' = Forget(Head(unregister))
    BY <1>5, ReceiveFacts DEF HandleUnregister, Forget, RegistryInv, TypeOK, ChannelTypes, RegistryTypes
  <2>2. \A p \in todo' : p.to \in clients' /\ UserOf[p.to] # p.what.user
    BY <1>5, <2>1, ClaimPushesFacts, HubAssumption DEF HandleUnregister
  <2> QED BY <1>5, <2>2 DEF HandleUnregister, HubTurn, PushInv, PushesToRegistered, PanicExplained
<1>6. CASE CloseSend
  <2>1. closing \in closed => closing \in dropped
    BY <1>6, HubAssumption DEF CloseSend, RegistryInv, LeavesOnce, TypeOK, TurnTypes
  <2>2. UNCHANGED <<clients, todo, dropped, overtaken>>
    BY <1>6 DEF CloseSend, history
  <2> QED BY <1>6, <2>1, <2>2 DEF CloseSend, PushInv, PushesToRegistered, PanicExplained
<1>7. CASE HandleBroadcast
  BY <1>7 DEF HandleBroadcast, HubTurn, PushInv, PushesToRegistered, PanicExplained, history
<1>8. ASSUME NEW p \in todo, PushOne(p)
      PROVE  PushInv'
  <2>1. p.to \in closed => overtaken # {}
    BY DEF RegistryInv, ClosedMeansGone, PushInv, PushesToRegistered, TypeOK, RegistryTypes
  <2>2. UNCHANGED <<clients, closing, overtaken>> /\ todo' \subseteq todo /\ dropped \subseteq dropped'
    BY <1>8 DEF PushOne
  <2>3. PushesToRegistered'
    BY <2>2 DEF PushInv, PushesToRegistered
  <2>4. fate = "up" /\ fate' # "close of closed" /\ (fate' = "send on closed" => p.to \in closed)
    BY <1>8 DEF PushOne
  <2>5. PanicExplained'
    BY <2>1, <2>2, <2>4 DEF PanicExplained
  <2> QED BY <2>3, <2>5 DEF PushInv
<1>9. CASE \E e \in Event : Publish(e)
  BY <1>1, <1>9 DEF Publish, history
<1>10. CASE \E h \in Chats, us \in Lists : UpdateChatMembers(h, us)
  BY <1>1, <1>10 DEF UpdateChatMembers, history
<1>11. CASE UNCHANGED vars
  BY <1>1, <1>11 DEF vars, history
<1> QED BY <1>2, <1>3, <1>4, <1>5, <1>6, <1>7, <1>8, <1>9, <1>10, <1>11 DEF Next, HubStep

(* The process panics only after the hub dropped a session for a full Send channel or handled
   a removal before the registration. *)
THEOREM PanicsExplained == Spec => []PanicExplained
<1>1. Init => RegistryInv /\ PushInv
  BY TypeInit, RegistryInit, PushInit DEF RegistryInv
<1>2. RegistryInv /\ PushInv /\ [Next]_vars => (RegistryInv /\ PushInv)'
  BY RegistryStep, PushStep DEF PushInv
<1>3. RegistryInv /\ PushInv => PanicExplained
  BY DEF PushInv
<1> QED BY <1>1, <1>2, <1>3, PTL DEF Spec

(* A hub that caught up holds exactly the sessions whose ReadPump has not ended. *)
THEOREM RegistryIsAccurate == Spec => []RegistryAccurate
<1>1. Init => RegistryInv /\ PushInv
  BY TypeInit, RegistryInit, PushInit DEF RegistryInv
<1>2. RegistryInv /\ PushInv /\ [Next]_vars => (RegistryInv /\ PushInv)'
  BY RegistryStep, PushStep DEF PushInv
<1>3. RegistryInv => RegistryAccurate
  <2> SUFFICES ASSUME RegistryInv, HubIdle, register = <<>>, unregister = <<>>, overtaken = {},
                      NEW c \in Clients \ dropped
               PROVE  c \in clients <=> rp[c] \in {"filling", "run"}
    BY DEF RegistryAccurate
  <2>1. ~InChannel(c, register) /\ ~InChannel(c, unregister) /\ closing # c
    BY HubAssumption DEF InChannel, HubIdle
  <2>2. c \in closed <=> rp[c] = "done"
    BY <2>1 DEF RegistryInv, LeavesOnce, Leaving
  <2>3. c \in clients => rp[c] # "new" /\ c \notin closed
    BY DEF RegistryInv, RegisteredOnce, ClosedMeansGone
  <2>4. rp[c] # "new" => c \in clients \/ c \in closed
    BY <2>1 DEF RegistryInv, RegisteredOnce
  <2>5. rp[c] \in {"new", "filling", "run", "done"}
    BY DEF RegistryInv, TypeOK, PumpTypes
  <2> QED BY <2>2, <2>3, <2>4, <2>5
<1> QED BY <1>1, <1>2, <1>3, PTL DEF Spec

----------------------------------------------------------------------------
LEMMA ToldInit == Init => ToldInv
BY HubAssumption DEF Init, ToldInv, NotYetTold, ClaimsTrue, InChannel

(* Steps that leave the hub's turn and what was told alone. *)
LEMMA ClaimsKept ==
  ClaimsTrue /\ UNCHANGED <<clients, todo, closing, closed, told, dropped, overtaken>> => ClaimsTrue'
BY DEF ClaimsTrue, Doomed, Pending, IsOnline, Conns

(* A presence broadcast has a push for every session of the others. *)
LEMMA ClaimsPending ==
  ASSUME NEW u \in Users, NEW s \in {"on", "off"}, NEW cs \in SUBSET Clients,
         todo' = ClaimPushes(u, s, cs)
  PROVE  /\ \A p \in todo' : p.what.user = u /\ p.what.state = s
         /\ \A d \in cs : UserOf[d] # u => Pending(d, u)'
<1>1. \A p \in todo' : p.what # Data /\ p.what.user = u /\ p.what.state = s
  BY ClaimPushesFacts
<1>2. ASSUME NEW d \in cs, UserOf[d] # u PROVE Pending(d, u)'
  <2> DEFINE q == [pass |-> 1, to |-> d, what |-> [user |-> u, state |-> s]]
  <2>1. q \in todo'
    BY <1>2, ClaimPushesFacts
  <2>2. q.to = d /\ q.what # Data /\ q.what.user = u
    BY <1>1, <2>1
  <2> QED BY <2>1, <2>2 DEF Pending
<1> QED BY <1>1, <1>2

LEMMA ToldSession ==
  ASSUME TypeOK, ToldInv, NEW c \in Clients, Session(c)
  PROVE  ToldInv'
<1>1. UNCHANGED <<clients, todo, closing, closed, told, dropped, overtaken>>
  BY DEF Session, Connect, StartPumps, PeerGone, AnswerPing, ReadPumpExit, WriteBatch,
         WritePumpEnd, pumps, history
<1>2. ClaimsTrue'
  BY <1>1, ClaimsKept DEF ToldInv
<1>3. CASE Connect(c)
  <2>1. register \in Seq(Clients) /\ register' = Append(register, c) /\ rp[c] = "new"
        /\ rp' = [rp EXCEPT ![c] = "filling"] /\ rp \in [Clients -> {"new", "filling", "run", "done"}]
    BY <1>3 DEF Connect, TypeOK, ChannelTypes, PumpTypes
  <2>2. \A d \in Clients : InChannel(d, register') <=> InChannel(d, register) \/ d = c
    BY <2>1, SentIsIn
  <2> QED BY <1>1, <1>2, <2>1, <2>2 DEF ToldInv, NotYetTold
<1>4. CASE ~Connect(c)
  <2>1. register' = register /\ \A d \in Clients : rp'[d] = "new" => rp[d] = "new"
    BY <1>4 DEF Session, StartPumps, PeerGone, AnswerPing, ReadPumpExit, WriteBatch,
                WritePumpEnd, pumps, channels, TypeOK, PumpTypes
  <2> QED BY <1>1, <1>2, <2>1 DEF ToldInv, NotYetTold, InChannel
<1> QED BY <1>3, <1>4

LEMMA ToldHandleRegister ==
  ASSUME RegistryInv, PushInv, ToldInv, HandleRegister
  PROVE  ToldInv'
<1>0. /\ register \in Seq(Clients) /\ register # <<>> /\ register' = Tail(register)
      /\ Head(register) \in Clients /\ UserOf[Head(register)] \in Users
  BY ReceiveFacts, HubAssumption DEF HandleRegister, RegistryInv, TypeOK, ChannelTypes
<1>1. PICK c \in Clients, v \in Users : c = Head(register) /\ v = UserOf[c]
  BY <1>0
<1>2. InChannel(c, register) /\ \A d \in Clients : InChannel(d, register') => InChannel(d, register)
  BY <1>0, <1>1, ReceivedWasIn
<1>3. /\ clients' = clients \cup {c} /\ todo = {} /\ closing = NoClient
      /\ UNCHANGED <<closed, closing, rp, told, dropped, overtaken>>
      /\ todo' = IF IsOnline(v) THEN {} ELSE ClaimPushes(v, "on", clients)
  BY <1>1 DEF HandleRegister, HubTurn, HubIdle, pumps, history
<1>4. clients \in SUBSET Clients
  BY DEF RegistryInv, TypeOK, RegistryTypes
<1>5. NotYetTold'
  BY <1>2, <1>3 DEF ToldInv, NotYetTold
<1>6. \A u \in Users : IsOnline(u)' <=> IsOnline(u) \/ u = v
  BY <1>1, <1>3, <1>4 DEF IsOnline, Conns
<1>7. ClaimsTrue'
  <2> SUFFICES ASSUME overtaken = {}
               PROVE  /\ \A p \in todo' : p.what # Data => (p.what.state = "on" <=> IsOnline(p.what.user)')
                      /\ \A d \in clients' \ dropped, u \in Users : ~Pending(d, u)' =>
                           /\ told[d][u] = "on" => IsOnline(u)'
                           /\ told[d][u] = "off" => ~IsOnline(u)'
    BY <1>3 DEF ClaimsTrue
  <2>1. \A d \in clients \ dropped, u \in Users :
          /\ told[d][u] = "on" => IsOnline(u)
          /\ told[d][u] = "off" => ~IsOnline(u)
    BY <1>3 DEF ToldInv, ClaimsTrue, Doomed, Pending
  <2>2. \A u \in Users : told[c][u] = "none"
    BY <1>1, <1>2 DEF ToldInv, NotYetTold
  <2>3. CASE IsOnline(v)
    BY <1>3, <1>4, <1>6, <2>1, <2>2, <2>3
  <2>4. CASE ~IsOnline(v)
    <3>0. todo' = ClaimPushes(v, "on", clients)
      BY <1>3, <2>4
    <3>1. /\ \A p \in todo' : p.what.user = v /\ p.what.state = "on"
          /\ \A d \in clients : UserOf[d] # v => Pending(d, v)'
      BY <1>1, <1>4, <3>0, ClaimsPending
    <3>2. \A d \in clients : UserOf[d] = v => told[d][v] = "none"
      BY <1>4 DEF ToldInv, NotYetTold
    <3>3. v \in Users /\ UserOf[c] = v
      BY <1>1
    <3>4. IsOnline(v)'
      BY <1>6, <3>3
    <3>5. \A p \in todo' : p.what # Data => (p.what.state = "on" <=> IsOnline(p.what.user)')
      BY <3>1, <3>4
    <3>6. ASSUME NEW d \in clients' \ dropped, NEW u \in Users, ~Pending(d, u)'
          PROVE  (told[d][u] = "on" => IsOnline(u)') /\ (told[d][u] = "off" => ~IsOnline(u)')
      <4>1. CASE u = v
        BY <1>3, <2>2, <3>1, <3>2, <3>3, <3>6, <4>1
      <4>2. CASE u # v
        BY <1>3, <1>6, <2>1, <2>2, <4>2
      <4> QED BY <4>1, <4>2
    <3> QED BY <3>5, <3>6
  <2> QED BY <2>3, <2>4
<1> QED BY <1>5, <1>7 DEF ToldInv

LEMMA ToldHandleUnregister ==
  ASSUME RegistryInv, PushInv, ToldInv, HandleUnregister
  PROVE  ToldInv'
<1>0. /\ unregister \in Seq(Clients) /\ unregister # <<>>
      /\ Head(unregister) \in Clients /\ UserOf[Head(unregister)] \in Users
  BY ReceiveFacts, HubAssumption DEF HandleUnregister, RegistryInv, TypeOK, ChannelTypes
<1>1. PICK c \in Clients, v \in Users : c = Head(unregister) /\ v = UserOf[c]
  BY <1>0
<1>2. InChannel(c, unregister)
  BY <1>0, <1>1, ReceivedWasIn
<1>3. /\ clients' = clients \ {c} /\ todo = {} /\ closing = NoClient /\ closing' = c
      /\ UNCHANGED <<register, closed, rp, told, dropped>>
      /\ todo' = IF NowOffline(c) THEN ClaimPushes(v, "off", Forget(c)) ELSE {}
      /\ overtaken' = IF InChannel(c, register) THEN overtaken \cup {c} ELSE overtaken
  BY <1>1 DEF HandleUnregister, Forget, HubTurn, HubIdle, pumps
<1>4. clients \in SUBSET Clients /\ NoClient \notin Clients
  BY HubAssumption DEF RegistryInv, TypeOK, RegistryTypes
<1>5. rp[c] # "new"
  BY <1>1, <1>2, HubAssumption DEF RegistryInv, LeavesOnce, Leaving, RegisteredOnce
<1>6. NotYetTold'
  BY <1>3 DEF ToldInv, NotYetTold, InChannel
<1>7. ClaimsTrue'
  <2> SUFFICES ASSUME overtaken' = {}, ~Doomed'
               PROVE  /\ \A p \in todo' : p.what # Data => (p.what.state = "on" <=> IsOnline(p.what.user)')
                      /\ \A d \in clients' \ dropped, u \in Users : ~Pending(d, u)' =>
                           /\ told[d][u] = "on" => IsOnline(u)'
                           /\ told[d][u] = "off" => ~IsOnline(u)'
    BY <1>3 DEF ClaimsTrue
  <2>1. overtaken = {} /\ ~InChannel(c, register) /\ c \notin closed
    BY <1>1, <1>3, <1>4 DEF Doomed
  <2>2. c \in clients
    BY <1>1, <1>3, <1>4, <1>5, <2>1 DEF RegistryInv, RegisteredOnce
  <2>3. \A d \in clients \ dropped, u \in Users :
          /\ told[d][u] = "on" => IsOnline(u)
          /\ told[d][u] = "off" => ~IsOnline(u)
    BY <1>3, <2>1 DEF ToldInv, ClaimsTrue, Doomed, Pending
  <2>4. \A u \in Users : u # v => (IsOnline(u)' <=> IsOnline(u))
    BY <1>1, <1>3, <1>4 DEF IsOnline, Conns
  <2>5. CASE NowOffline(c)
    <3>0. todo' = ClaimPushes(v, "off", Forget(c)) /\ Forget(c) = clients'
      BY <1>3, <2>5 DEF Forget
    <3>1. ~IsOnline(v)'
      <4>1. PICK e \in clients : Conns(v) = {e}
        BY <1>1, <2>5 DEF NowOffline
      <4>2. c = e
        BY <1>1, <2>2, <4>1 DEF Conns
      <4> QED BY <1>3, <4>1, <4>2 DEF IsOnline, Conns
    <3>2. /\ \A p \in todo' : p.what.user = v /\ p.what.state = "off"
          /\ \A d \in clients' : UserOf[d] # v => Pending(d, v)'
      <4>1. clients' \in SUBSET Clients /\ UserOf[c] \in Users
        BY <1>1, <1>3, <1>4
      <4> QED BY <3>0, <4>1, ClaimsPending
    <3>3. \A d \in clients : UserOf[d] = v => told[d][v] = "none"
      BY <1>4 DEF ToldInv, NotYetTold
    <3>4. v \in Users
      BY <1>1
    <3>5. \A p \in todo' : p.what # Data => (p.what.state = "on" <=> IsOnline(p.what.user)')
      BY <3>1, <3>2
    <3>6. ASSUME NEW d \in clients' \ dropped, NEW u \in Users, ~Pending(d, u)'
          PROVE  (told[d][u] = "on" => IsOnline(u)') /\ (told[d][u] = "off" => ~IsOnline(u)')
      <4>1. CASE u = v
        BY <1>3, <3>1, <3>2, <3>3, <3>6, <4>1
      <4>2. CASE u # v
        BY <1>3, <2>3, <2>4, <4>2
      <4> QED BY <4>1, <4>2
    <3> QED BY <3>5, <3>6
  <2>6. CASE ~NowOffline(c)
    <3>1. IsOnline(v)' /\ IsOnline(v)
      <4>1. c \in Conns(v) /\ Conns(v) # {c}
        BY <1>1, <2>2, <2>6 DEF NowOffline, Conns
      <4>2. PICK e \in Conns(v) : e # c
        BY <4>1
      <4>3. e \in clients' /\ UserOf[e] = v
        BY <1>3, <4>2 DEF Conns
      <4> QED BY <4>2, <4>3 DEF IsOnline, Conns
    <3>2. todo' = {}
      BY <1>3, <2>6
    <3>3. \A u \in Users : IsOnline(u)' <=> IsOnline(u)
      BY <2>4, <3>1
    <3> QED BY <1>3, <2>3, <3>2, <3>3
  <2> QED BY <2>5, <2>6
<1> QED BY <1>6, <1>7 DEF ToldInv

LEMMA ToldCloseSend ==
  ASSUME RegistryInv, ToldInv, CloseSend
  PROVE  ToldInv'
<1>1. UNCHANGED <<clients, register, rp, todo, told, dropped, overtaken>>
  BY DEF CloseSend, channels, pumps, history
<1>2. NotYetTold'
  BY <1>1 DEF ToldInv, NotYetTold, InChannel
<1>3. Doomed => Doomed'
  <2>1. CASE closing \in closed
    <3>1. closing' = closing /\ closed' = closed
      BY <2>1 DEF CloseSend
    <3> QED BY <3>1 DEF Doomed
  <2>2. CASE closing \notin closed
    BY <2>2 DEF Doomed
  <2> QED BY <2>1, <2>2
<1>4. ClaimsTrue'
  BY <1>1, <1>3 DEF ToldInv, ClaimsTrue, Pending, IsOnline, Conns
<1> QED BY <1>2, <1>4 DEF ToldInv

LEMMA ToldPushOne ==
  ASSUME RegistryInv, PushInv, ToldInv, NEW p \in todo, PushOne(p)
  PROVE  ToldInv'
<1>1. UNCHANGED <<clients, register, closed, closing, rp, overtaken>>
      /\ todo' \subseteq todo /\ dropped \subseteq dropped'
  BY DEF PushOne, pumps
<1>2. p \in Push /\ p.to \in clients /\ p.to \in Clients /\ rp[p.to] # "new"
      /\ ~InChannel(p.to, register)
      /\ (p.what # Data => p.what.user \in Users /\ UserOf[p.to] # p.what.user)
  BY DEF RegistryInv, TypeOK, TurnTypes, RegistryTypes, Push, Payload, Claim, RegisteredOnce,
         PushInv, PushesToRegistered
<1>3. told \in [Clients -> [Users -> {"none", "on", "off"}]] /\ clients \in SUBSET Clients
  BY DEF RegistryInv, TypeOK, HistoryTypes, RegistryTypes
<1>4. CASE told' = told /\ (todo' = todo \/ (todo' = todo \ {p} /\ (p.what = Data \/ p.to \in dropped')))
  <2>1. NotYetTold'
    BY <1>1, <1>4 DEF ToldInv, NotYetTold, InChannel
  <2>2. ClaimsTrue'
    <3>1. \A d \in clients \ dropped', u \in Users : Pending(d, u) => Pending(d, u)'
      BY <1>4 DEF Pending
    <3>2. \A u : IsOnline(u)' <=> IsOnline(u)
      BY <1>1 DEF IsOnline, Conns
    <3> QED BY <1>1, <1>4, <3>1, <3>2 DEF ToldInv, ClaimsTrue, Doomed
  <2> QED BY <2>1, <2>2 DEF ToldInv
<1>5. CASE p.what # Data /\ told' = [told EXCEPT ![p.to][p.what.user] = p.what.state]
           /\ todo' = todo \ {p} /\ dropped' = dropped
  <2>2. NotYetTold'
    BY <1>1, <1>2, <1>3, <1>5 DEF ToldInv, NotYetTold, InChannel
  <2>3. ClaimsTrue'
    <3>1. \A d \in clients, u \in Users : d # p.to \/ u # p.what.user =>
            /\ Pending(d, u) => Pending(d, u)'
            /\ told'[d][u] = told[d][u]
      BY <1>2, <1>3, <1>5 DEF Pending
    <3>2. told'[p.to][p.what.user] = p.what.state
      BY <1>2, <1>3, <1>5
    <3>3. \A u : IsOnline(u)' <=> IsOnline(u)
      BY <1>1 DEF IsOnline, Conns
    <3>4. overtaken' = {} /\ ~Doomed' =>
            \A q \in todo : q.what # Data => (q.what.state = "on" <=> IsOnline(q.what.user))
      BY <1>1 DEF ToldInv, ClaimsTrue, Doomed
    <3>5. p.what.state \in {"on", "off"}
      BY <1>5 DEF RegistryInv, TypeOK, TurnTypes, Push, Payload, Claim
    <3> QED BY <1>1, <1>2, <1>5, <3>1, <3>2, <3>3, <3>4, <3>5 DEF ToldInv, ClaimsTrue, Doomed
  <2> QED BY <2>2, <2>3 DEF ToldInv
<1> QED BY <1>4, <1>5 DEF PushOne

LEMMA ToldStep ==
  ASSUME RegistryInv, PushInv, ToldInv, [Next]_vars
  PROVE  ToldInv'
<1>1. ASSUME UNCHANGED <<clients, register, rp, closing, closed, told, dropped, overtaken>>,
             todo = todo' \/ (todo = {} /\ \A p \in todo' : p.what = Data)
      PROVE  ToldInv'
  <2>1. NotYetTold'
    BY <1>1 DEF ToldInv, NotYetTold, InChannel
  <2>2. ClaimsTrue'
    BY <1>1 DEF ToldInv, ClaimsTrue, Doomed, Pending, IsOnline, Conns
  <2> QED BY <2>1, <2>2 DEF ToldInv
<1>2. CASE \E c \in Clients : Session(c)
  BY <1>2, ToldSession DEF RegistryInv
<1>3. CASE HandleBroadcast
  BY <1>1, <1>3 DEF HandleBroadcast, HubTurn, HubIdle, pumps, history
<1>4. CASE \/ \E e \in Event : Publish(e)
           \/ \E h \in Chats, us \in Lists : UpdateChatMembers(h, us)
           \/ UNCHANGED vars
  BY <1>1, <1>4 DEF Publish, UpdateChatMembers, vars, channels, pumps, history
<1> QED BY <1>2, <1>3, <1>4, ToldHandleRegister, ToldHandleUnregister, ToldCloseSend, ToldPushOne
        DEF Next, HubStep

(* Between two turns of the hub, what a session was last told of a user is what the registry
   says, unless a removal overtook a registration. *)
THEOREM ToldIsTrue == Spec => []PresenceTold
<1> DEFINE IInv == RegistryInv /\ PushInv /\ ToldInv
<1>1. Init => IInv
  BY TypeInit, RegistryInit, PushInit, ToldInit DEF RegistryInv
<1>2. IInv /\ [Next]_vars => IInv'
  BY RegistryStep, PushStep, ToldStep DEF PushInv
<1>3. IInv => PresenceTold
  BY DEF ToldInv, ClaimsTrue, PresenceTold, HubIdle, Doomed, Pending
<1> QED BY <1>1, <1>2, <1>3, PTL DEF Spec

(* Sessions are registered and removed once, but for the causes named. *)
THEOREM SessionsRemovedOnce == Spec => []RemovedOnce
<1>1. PanicExplained /\ RegistryAccurate => RemovedOnce
  BY DEF RemovedOnce
<1> QED BY <1>1, PanicsExplained, RegistryIsAccurate, PTL
============================================================================
