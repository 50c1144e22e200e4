---------------------------- MODULE FanoutProofs ----------------------------
(***************************************************************************)
(* What broadcastNewMessage guarantees although its events are shared with *)
(* the hub, for any users, messages and capacity of the channel.           *)
(***************************************************************************)
EXTENDS Fanout, FunctionTheorems, FiniteSetTheorems, TLAPS

Begun(m) == pc[m] \notin {"new", "stored"}

(* The handler's bookkeeping: before it read the members it addressed nobody, afterwards the
   users it addressed, the last of them last. *)
Bookkeeping ==
  \A m \in Messages :
    /\ ~Begun(m) => told[m] = {} /\ ~known[m]
    /\ told[m] # {} => current[m] \in told[m]
    /\ told[m] = {} => address[m] = Nobody /\ pc[m] \notin {"write", "send", "check"}
    /\ told[m] # {} /\ pc[m] # "write" => address[m] = current[m]
    /\ address[m] \in told[m] \cup {Nobody}

(* The entry that the last SendToUser made is in flight, or was routed to the last address. *)
LastInFlight ==
  \A m \in Messages :
    told[m] # {} /\ pc[m] \in {"check", "loop", "done"} => InFlight(m) \/ address[m] \in Range(got[m])

(* A sender who is not a member is addressed after all members, and before the end. *)
SenderLast ==
  \A m \in Messages :
    /\ known[m] /\ Sender[m] \notin members[m] /\ Sender[m] \in told[m] =>
         members[m] \subseteq told[m] /\ current[m] = Sender[m]
    /\ known[m] /\ pc[m] = "done" => Sender[m] \in told[m]

(* Who has been sent to is around or was pushed to, but for the sender and the user whose send is
   under way; the others are still to come until the end. *)
PushedSoFar ==
  \A m \in Messages :
    /\ ~Begun(m) => members[m] = {}
    /\ pc[m] # "new" => online \subseteq around[m]
    /\ pc[m] = "done" => members[m] \subseteq told[m]
    /\ \A u \in told[m] : \/ pc[m] \in {"write", "send", "check"} /\ u = current[m]
                          \/ u \in around[m] \cup {Sender[m]} \cup pushed[m]

(* m was enqueued at least once. *)
Sent(m) == InFlight(m) \/ got[m] # <<>>

Queued(m) == \E i \in DOMAIN broadcast : broadcast[i] = m

(* A message starts after the end of the one it follows, and its entries are behind the entries
   of that one. *)
Fifo ==
  \A m \in Messages :
    /\ pc[m] = "new" => ~Sent(m)
    /\ Follows(m) =>
         /\ pc[m] # "new" => pc[Previous[m]] = "done"
         /\ \A i, j \in DOMAIN broadcast :
              broadcast[i] = m /\ broadcast[j] = Previous[m] => j < i
         /\ taken = m => ~Queued(Previous[m])
         /\ got[m] # <<>> => ~InFlight(Previous[m])

(* Every send has been routed or is in flight, and there are as many as users addressed. *)
Accounted(m) == IsFiniteSet(told[m]) /\ Len(got[m]) + Waiting(m) = Sends(m)
Routed == \A m \in Messages : Accounted(m)

IInv == TypeOK /\ OnlyAudience /\ Bookkeeping /\ LastInFlight /\ SenderLast

----------------------------------------------------------------------------
LEMMA QueueFacts ==
  ASSUME NEW s \in Seq(Messages), NEW m \in Messages
  PROVE  /\ Append(s, m) \in Seq(Messages) /\ Len(Append(s, m)) = Len(s) + 1 /\ Len(s) \in Nat
         /\ \A i \in DOMAIN s : i \in DOMAIN Append(s, m) /\ Append(s, m)[i] = s[i]
         /\ \E i \in DOMAIN Append(s, m) : Append(s, m)[i] = m
<1>1. DOMAIN s = 1..Len(s) /\ DOMAIN Append(s, m) = 1..(Len(s) + 1) /\ Len(s) \in Nat
  OBVIOUS
<1>2. Append(s, m)[Len(s) + 1] = m /\ Len(s) + 1 \in DOMAIN Append(s, m)
  BY <1>1
<1> QED BY <1>1, <1>2

LEMMA HeadFacts ==
  ASSUME NEW s \in Seq(Messages), s # <<>>
  PROVE  /\ Head(s) \in Messages /\ Tail(s) \in Seq(Messages)
         /\ Len(Tail(s)) = Len(s) - 1 /\ Len(s) \in Nat
         /\ \A m : (\E i \in DOMAIN s : s[i] = m) =>
              m = Head(s) \/ \E i \in DOMAIN Tail(s) : Tail(s)[i] = m
<1>1. /\ Head(s) = s[1] /\ Head(s) \in Messages /\ Tail(s) \in Seq(Messages)
      /\ Len(Tail(s)) = Len(s) - 1 /\ Len(s) \in Nat \ {0}
      /\ DOMAIN s = 1..Len(s) /\ DOMAIN Tail(s) = 1..(Len(s) - 1)
      /\ \A i \in 1..(Len(s) - 1) : Tail(s)[i] = s[i + 1]
  OBVIOUS
<1>2. ASSUME NEW i \in DOMAIN s, s[i] # Head(s)
      PROVE  \E j \in DOMAIN Tail(s) : Tail(s)[j] = s[i]
  <2>1. i - 1 \in 1..(Len(s) - 1) /\ Tail(s)[i - 1] = s[i]
    BY <1>1, <1>2
  <2> QED BY <1>1, <2>1
<1> QED BY <1>1, <1>2

(* What the hub has routed, after one more. *)
LEMMA RoutedFacts ==
  ASSUME NEW S, NEW s \in Seq(S), NEW u \in S
  PROVE  /\ Append(s, u) \in Seq(S) /\ Len(Append(s, u)) = Len(s) + 1 /\ Len(s) \in Nat
         /\ Range(Append(s, u)) = Range(s) \cup {u}
<1>1. /\ Append(s, u) \in Seq(S) /\ Len(Append(s, u)) = Len(s) + 1 /\ Len(s) \in Nat
      /\ DOMAIN s = 1..Len(s) /\ DOMAIN Append(s, u) = 1..(Len(s) + 1)
      /\ \A i \in 1..Len(s) : Append(s, u)[i] = s[i]
      /\ Append(s, u)[Len(s) + 1] = u
  OBVIOUS
<1>2. Range(Append(s, u)) = Range(s) \cup {u}
  <2>1. ASSUME NEW x \in Range(Append(s, u)) PROVE x \in Range(s) \cup {u}
    BY <1>1, <2>1 DEF Range
  <2>2. ASSUME NEW x \in Range(s) PROVE x \in Range(Append(s, u))
    BY <1>1, <2>2 DEF Range
  <2>3. u \in Range(Append(s, u))
    BY <1>1 DEF Range
  <2> QED BY <2>1, <2>2, <2>3
<1> QED BY <1>1, <1>2

(* The initial state. *)
LEMMA FanoutInit == Init => IInv
BY FanoutAssumption
DEF Init, IInv, TypeOK, OnlyAudience, Bookkeeping, LastInFlight, SenderLast, Begun, Range

LEMMA TypeStep == TypeOK /\ Bookkeeping /\ [Next]_vars => TypeOK'
<1> SUFFICES ASSUME TypeOK, Bookkeeping, [Next]_vars PROVE TypeOK'
  OBVIOUS
<1> USE FanoutAssumption
<1>1. CASE UNCHANGED vars
  BY <1>1 DEF TypeOK, vars, handler, history
<1>2. ASSUME NEW m \in Messages, SendMessage(m), UNCHANGED inSession PROVE TypeOK'
  BY <1>2 DEF TypeOK, SendMessage
<1>3. ASSUME NEW m \in Messages, NEW us \in SUBSET Users, NEW found \in BOOLEAN,
             ReadMembers(m, us, found), UNCHANGED inSession
      PROVE  TypeOK'
  BY <1>3 DEF TypeOK, ReadMembers, history
<1>4. ASSUME NEW m \in Messages, StartSend(m), UNCHANGED inSession PROVE TypeOK'
  <2>1. NextUsers(m) \subseteq Users
    BY DEF NextUsers, ToSender, TypeOK
  <2>2. PICK u \in Users : /\ current' = [current EXCEPT ![m] = u]
                           /\ told' = [told EXCEPT ![m] = @ \cup {u}]
    BY <1>4, <2>1 DEF StartSend
  <2>3. current' \in [Messages -> Users \cup {Nobody}] /\ told' \in [Messages -> SUBSET Users]
    BY <2>2 DEF TypeOK
  <2> QED BY <1>4, <2>3 DEF TypeOK, StartSend, history
<1>5. ASSUME NEW m \in Messages, Finish(m), UNCHANGED inSession PROVE TypeOK'
  BY <1>5 DEF TypeOK, Finish, history
<1>6. ASSUME NEW m \in Messages, WriteAddress(m), UNCHANGED inSession PROVE TypeOK'
  BY <1>6 DEF TypeOK, WriteAddress, Addressed, history
<1>7. ASSUME NEW m \in Messages, Enqueue(m), UNCHANGED inSession PROVE TypeOK'
  <2>1. broadcast' \in Seq(Messages) /\ Len(broadcast') <= BcastCap
    BY <1>7, QueueFacts DEF TypeOK, Enqueue, Enqueued
  <2> QED BY <1>7, <2>1 DEF TypeOK, Enqueue, history
<1>8. ASSUME NEW m \in Messages, CheckOnline(m), UNCHANGED inSession PROVE TypeOK'
  <2>1. Away(m) \subseteq Users
    BY <1>8 DEF TypeOK, Bookkeeping, CheckOnline, Away
  <2> QED BY <1>8, <2>1 DEF TypeOK, CheckOnline
<1>9. ASSUME Take, UNCHANGED inSession PROVE TypeOK'
  <2>1. Head(broadcast) \in Messages /\ Tail(broadcast) \in Seq(Messages)
        /\ Len(Tail(broadcast)) <= BcastCap
    BY <1>9, HeadFacts DEF TypeOK, Take
  <2> QED BY <1>9, <2>1 DEF TypeOK, Take, handler, history
<1>10. ASSUME Route, UNCHANGED inSession PROVE TypeOK'
  <2>1. taken \in Messages
    BY <1>10 DEF Route, TypeOK
  <2>2. PICK u \in Seen(taken) : got' = [got EXCEPT ![taken] = Append(@, u)]
    BY <1>10 DEF Route
  <2>3. u \in Users \cup {Nobody}
    BY <2>1, <2>2 DEF Seen, TypeOK
  <2>4. got' \in [Messages -> Seq(Users \cup {Nobody})]
    <3> DEFINE row == Append(got[taken], u)
    <3>1. row \in Seq(Users \cup {Nobody})
      BY <2>1, <2>3 DEF TypeOK
    <3>2. got' = [got EXCEPT ![taken] = row]
      BY <2>2
    <3> QED BY <3>1, <3>2 DEF TypeOK
  <2> QED BY <1>10, <2>4 DEF TypeOK, Route, handler
<1>11. ASSUME NEW u \in Movers, TogglePresence(u), UNCHANGED inSession PROVE TypeOK'
  BY <1>11 DEF TypeOK, TogglePresence, handler
<1> QED BY <1>1, <1>2, <1>3, <1>4, <1>5, <1>6, <1>7, <1>8, <1>9, <1>10, <1>11 DEF Next, Handle, Hub

(* What the hub and the other users do leaves the handlers alone, a handler the others. *)
LEMMA BookkeepingStep == TypeOK /\ Bookkeeping /\ SenderLast /\ [Next]_vars => (Bookkeeping /\ SenderLast)'
<1> SUFFICES ASSUME TypeOK, Bookkeeping, SenderLast, [Next]_vars
             PROVE  (Bookkeeping /\ SenderLast)'
  OBVIOUS
<1> USE FanoutAssumption DEF TypeOK, Bookkeeping, SenderLast, Begun
<1>1. CASE UNCHANGED <<handler, address>>
  BY <1>1 DEF handler
<1>2. ASSUME NEW m \in Messages, SendMessage(m) PROVE (Bookkeeping /\ SenderLast)'
  <2>1. PICK to \in {"stored", "done"} : pc' = [pc EXCEPT ![m] = to]
    BY <1>2 DEF SendMessage
  <2>2. pc[m] = "new" /\ UNCHANGED <<members, current, told, known, address>>
    BY <1>2 DEF SendMessage, Turn
  <2>3. Bookkeeping'
    BY <2>1, <2>2
  <2>4. SenderLast'
    BY <2>1, <2>2
  <2> QED BY <2>3, <2>4
<1>3. ASSUME NEW m \in Messages, NEW us \in SUBSET Users, NEW found \in BOOLEAN,
             ReadMembers(m, us, found)
      PROVE  (Bookkeeping /\ SenderLast)'
  <2>1. /\ pc[m] = "stored" /\ pc' = [pc EXCEPT ![m] = "loop"]
        /\ members' = [members EXCEPT ![m] = us] /\ known' = [known EXCEPT ![m] = found]
        /\ UNCHANGED <<current, told, address>>
    BY <1>3 DEF ReadMembers
  <2>2. Bookkeeping'
    BY <2>1
  <2>3. SenderLast'
    BY <2>1
  <2> QED BY <2>2, <2>3
<1>4. ASSUME NEW m \in Messages, StartSend(m) PROVE (Bookkeeping /\ SenderLast)'
  <2>1. PICK u \in NextUsers(m) : /\ current' = [current EXCEPT ![m] = u]
                                  /\ told' = [told EXCEPT ![m] = @ \cup {u}]
    BY <1>4 DEF StartSend
  <2>2. /\ u \in Users /\ u \notin told[m]
        /\ u \in members[m] \/ (members[m] \subseteq told[m] /\ u = Sender[m])
        /\ Sender[m] \in told[m] /\ known[m] => u \in members[m]
    BY <2>1 DEF NextUsers, ToSender
  <2>3. /\ UNCHANGED <<members, known, address>> /\ pc[m] = "loop"
        /\ pc' = [pc EXCEPT ![m] = "write"]
    BY <1>4 DEF StartSend
  <2>4. Bookkeeping'
    BY <2>1, <2>2, <2>3
  <2>5. SenderLast'
    BY <2>1, <2>2, <2>3
  <2> QED BY <2>4, <2>5
<1>5. ASSUME NEW m \in Messages, Finish(m) PROVE (Bookkeeping /\ SenderLast)'
  <2>1. known[m] => Sender[m] \in told[m]
    BY <1>5 DEF Finish, NextUsers, ToSender
  <2>2. /\ pc[m] = "loop" /\ pc' = [pc EXCEPT ![m] = "done"]
        /\ UNCHANGED <<members, current, told, known, address>>
    BY <1>5 DEF Finish
  <2>3. Bookkeeping'
    BY <2>2
  <2>4. SenderLast'
    BY <2>1, <2>2
  <2> QED BY <2>3, <2>4
<1>6. ASSUME NEW m \in Messages, WriteAddress(m) PROVE (Bookkeeping /\ SenderLast)'
  <2>1. /\ pc[m] = "write" /\ pc' = [pc EXCEPT ![m] = "send"]
        /\ address' = [address EXCEPT ![m] = current[m]]
        /\ UNCHANGED <<members, current, told, known>>
    BY <1>6 DEF WriteAddress, Addressed
  <2>2. Bookkeeping'
    BY <2>1
  <2>3. SenderLast'
    BY <2>1
  <2> QED BY <2>2, <2>3
<1>7. ASSUME NEW m \in Messages, Enqueue(m) PROVE (Bookkeeping /\ SenderLast)'
  <2>1. /\ pc[m] = "send" /\ pc' = [pc EXCEPT ![m] = "check"]
        /\ UNCHANGED <<members, current, told, known, address>>
    BY <1>7 DEF Enqueue
  <2>2. Bookkeeping'
    BY <2>1
  <2>3. SenderLast'
    BY <2>1
  <2> QED BY <2>2, <2>3
<1>8. ASSUME NEW m \in Messages, CheckOnline(m) PROVE (Bookkeeping /\ SenderLast)'
  <2>1. /\ pc[m] = "check" /\ pc' = [pc EXCEPT ![m] = "loop"]
        /\ UNCHANGED <<members, current, told, known, address>>
    BY <1>8 DEF CheckOnline
  <2>2. Bookkeeping'
    BY <2>1
  <2>3. SenderLast'
    BY <2>1
  <2> QED BY <2>2, <2>3
<1>9. CASE Hub \/ (\E u \in Movers : TogglePresence(u)) \/ UNCHANGED vars
  BY <1>1, <1>9 DEF Hub, Take, Route, TogglePresence, vars
<1> HIDE DEF TypeOK, Bookkeeping, SenderLast
<1>10. ASSUME NEW m \in Messages, Handle(m) PROVE (Bookkeeping /\ SenderLast)'
  BY <1>2, <1>3, <1>4, <1>5, <1>6, <1>7, <1>8, <1>10 DEF Handle
<1> QED BY <1>9, <1>10 DEF Next

LEMMA AudienceStep == TypeOK /\ Bookkeeping /\ OnlyAudience /\ [Next]_vars => OnlyAudience'
<1> SUFFICES ASSUME TypeOK, Bookkeeping, OnlyAudience, [Next]_vars PROVE OnlyAudience'
  OBVIOUS
<1>1. CASE Route
  <2>1. taken \in Messages /\ told' = told
    BY <1>1 DEF Route, TypeOK, handler
  <2>2. PICK a \in Seen(taken) : got' = [got EXCEPT ![taken] = Append(@, a)]
    BY <1>1 DEF Route
  <2>3. a \in told[taken] \cup {Nobody}
    BY <2>1, <2>2 DEF Seen, Bookkeeping, TypeOK
  <2>4. ASSUME NEW m \in Messages PROVE Range(got'[m]) \subseteq told[m] \cup {Nobody}
    <3>1. CASE m = taken
      <4>1. got[m] \in Seq(Users \cup {Nobody}) /\ a \in Users \cup {Nobody}
        BY <2>3, <3>1 DEF TypeOK
      <4>2. got'[m] = Append(got[m], a)
        BY <2>2, <3>1 DEF TypeOK
      <4>3. Range(got'[m]) = Range(got[m]) \cup {a}
        BY <4>1, <4>2, RoutedFacts
      <4> QED BY <2>3, <3>1, <4>3 DEF OnlyAudience
    <3>2. CASE m # taken
      BY <2>2, <3>2 DEF TypeOK, OnlyAudience
    <3> QED BY <3>1, <3>2
  <2> QED BY <2>1, <2>4 DEF OnlyAudience
<1>2. CASE UNCHANGED got /\ \A m \in Messages : told[m] \subseteq told'[m]
  BY <1>2 DEF OnlyAudience
<1>3. ~Route => UNCHANGED got
  BY DEF Next, Handle, Hub, SendMessage, ReadMembers, StartSend, Finish, WriteAddress, Enqueue,
         CheckOnline, Take, TogglePresence, vars, history
<1>4. \A m \in Messages : told[m] \subseteq told'[m]
  <2>1. ASSUME NEW n \in Messages, StartSend(n), NEW m \in Messages
        PROVE  told[m] \subseteq told'[m]
    BY <2>1 DEF StartSend, TypeOK
  <2>2. (\A n \in Messages : ~StartSend(n)) => UNCHANGED told
    BY DEF Next, Handle, Hub, SendMessage, ReadMembers, Finish, WriteAddress, Enqueue,
           CheckOnline, Take, Route, TogglePresence, vars, handler
  <2> QED BY <2>1, <2>2
<1> QED BY <1>1, <1>2, <1>3, <1>4
LEMMA InFlightStep ==
  ASSUME TypeOK, Bookkeeping, LastInFlight, [Next]_vars
  PROVE  LastInFlight'
<1> USE FanoutAssumption
<1>1. ASSUME NEW m \in Messages, Enqueue(m) PROVE LastInFlight'
  <2>1. broadcast' = Append(broadcast, m) /\ broadcast \in Seq(Messages)
        /\ UNCHANGED <<told, address, taken, got>> /\ pc' = [pc EXCEPT ![m] = "check"]
    BY <1>1 DEF Enqueue, Enqueued, TypeOK, history
  <2>2. InFlight(m)' /\ \A n \in Messages : InFlight(n) => InFlight(n)'
    BY <2>1, QueueFacts DEF InFlight
  <2> QED BY <2>1, <2>2 DEF LastInFlight, TypeOK
<1>2. ASSUME Take PROVE LastInFlight'
  <2>1. /\ broadcast \in Seq(Messages) /\ broadcast # <<>> /\ taken = NoMessage
        /\ taken' = Head(broadcast) /\ broadcast' = Tail(broadcast)
        /\ UNCHANGED <<told, address, pc, got>>
    BY <1>2 DEF Take, TypeOK, handler, history
  <2>2. \A n \in Messages : InFlight(n) => InFlight(n)'
    <3> SUFFICES ASSUME NEW n \in Messages, InFlight(n) PROVE InFlight(n)'
      OBVIOUS
    <3>1. \E i \in DOMAIN broadcast : broadcast[i] = n
      BY <2>1 DEF InFlight
    <3>2. n = Head(broadcast) \/ \E i \in DOMAIN Tail(broadcast) : Tail(broadcast)[i] = n
      BY <2>1, <3>1, HeadFacts
    <3> QED BY <2>1, <3>2 DEF InFlight
  <2> QED BY <2>1, <2>2 DEF LastInFlight
<1>3. ASSUME Route PROVE LastInFlight'
  <2>1. /\ taken \in Messages /\ UNCHANGED <<told, address, pc, broadcast>> /\ taken' = NoMessage
    BY <1>3 DEF Route, TypeOK, handler
  <2>2. PICK a \in Seen(taken) : got' = [got EXCEPT ![taken] = Append(@, a)]
    BY <1>3 DEF Route
  <2>3. a \in Users \cup {Nobody}
    BY <2>1, <2>2 DEF Seen, TypeOK
  <2>4. ASSUME NEW n \in Messages, told[n] # {}, pc[n] \in {"check", "loop", "done"}
        PROVE  InFlight(n)' \/ address[n] \in Range(got'[n])
    <3>1. CASE n = taken
      <4>1. a = address[n]
        BY <2>2, <2>4, <3>1 DEF Seen
      <4>2. got'[n] = Append(got[n], a) /\ got[n] \in Seq(Users \cup {Nobody})
        BY <2>1, <2>2, <3>1 DEF TypeOK
      <4> QED BY <2>3, <4>1, <4>2, RoutedFacts
    <3>2. CASE n # taken
      <4>1. got'[n] = got[n]
        BY <2>1, <2>2, <3>2 DEF TypeOK
      <4>2. InFlight(n) => InFlight(n)'
        BY <2>1, <3>2 DEF InFlight
      <4> QED BY <2>4, <4>1, <4>2 DEF LastInFlight
    <3> QED BY <3>1, <3>2
  <2> QED BY <2>1, <2>4 DEF LastInFlight
<1>4. ASSUME UNCHANGED <<taken, broadcast, got>>,
             \A n \in Messages :
               told'[n] # {} /\ pc'[n] \in {"check", "loop", "done"} =>
                 /\ told[n] # {} /\ pc[n] \in {"check", "loop", "done"}
                 /\ address'[n] = address[n]
      PROVE  LastInFlight'
  BY <1>4 DEF LastInFlight, InFlight
<1>5. ASSUME NEW m \in Messages, Handle(m), ~Enqueue(m) PROVE LastInFlight'
  <2>1. CASE SendMessage(m)
    BY <2>1, <1>4 DEF SendMessage, Turn, TypeOK, Bookkeeping, Begun, history
  <2>2. CASE \E us \in SUBSET Users, found \in BOOLEAN : ReadMembers(m, us, found)
    BY <2>2, <1>4 DEF ReadMembers, TypeOK, Bookkeeping, Begun, history
  <2>3. CASE StartSend(m)
    BY <2>3, <1>4 DEF StartSend, TypeOK, history
  <2>4. CASE Finish(m)
    BY <2>4, <1>4 DEF Finish, TypeOK, history
  <2>5. CASE WriteAddress(m)
    BY <2>5, <1>4 DEF WriteAddress, Addressed, TypeOK, history
  <2>6. CASE CheckOnline(m)
    BY <2>6, <1>4 DEF CheckOnline, TypeOK, history
  <2> QED BY <1>5, <2>1, <2>2, <2>3, <2>4, <2>5, <2>6 DEF Handle
<1>6. CASE (\E u \in Movers : TogglePresence(u)) \/ UNCHANGED vars
  BY <1>4, <1>6 DEF TogglePresence, vars, handler, history
<1> QED BY <1>1, <1>2, <1>3, <1>5, <1>6 DEF Next, Hub

LEMMA FanoutStep == IInv /\ [Next]_vars => IInv'
BY TypeStep, BookkeepingStep, AudienceStep, InFlightStep DEF IInv

----------------------------------------------------------------------------
(* How many entries of a message the channel holds: Append adds one of its own, and Tail takes
   one of the head's away. *)
Where(s, n) == {i \in DOMAIN s : s[i] = n}

LEMMA WhereFinite ==
  ASSUME NEW s \in Seq(Messages), NEW n
  PROVE  IsFiniteSet(Where(s, n)) /\ Cardinality(Where(s, n)) \in Nat
<1>1. Len(s) \in Nat /\ DOMAIN s = 1..Len(s)
  OBVIOUS
<1>2. IsFiniteSet(1..Len(s))
  BY <1>1, FS_Interval
<1>3. Where(s, n) \in SUBSET (1..Len(s))
  BY <1>1 DEF Where
<1>4. IsFiniteSet(Where(s, n))
  BY <1>2, <1>3, FS_Subset
<1> QED BY <1>4, FS_CardinalityType

LEMMA WhereAppend ==
  ASSUME NEW s \in Seq(Messages), NEW m \in Messages, NEW n
  PROVE  Cardinality(Where(Append(s, m), n)) =
           Cardinality(Where(s, n)) + (IF n = m THEN 1 ELSE 0)
<1>1. /\ Len(s) \in Nat /\ DOMAIN s = 1..Len(s) /\ DOMAIN Append(s, m) = 1..(Len(s) + 1)
      /\ \A i \in 1..Len(s) : Append(s, m)[i] = s[i]
      /\ Append(s, m)[Len(s) + 1] = m
  OBVIOUS
<1>2. IsFiniteSet(Where(s, n)) /\ Cardinality(Where(s, n)) \in Nat
  BY WhereFinite
<1>3. CASE n = m
  <2>1. Where(Append(s, m), n) = Where(s, n) \cup {Len(s) + 1} /\ Len(s) + 1 \notin Where(s, n)
    BY <1>1, <1>3 DEF Where
  <2> QED BY <1>2, <1>3, <2>1, FS_AddElement
<1>4. CASE n # m
  <2>1. Where(Append(s, m), n) = Where(s, n)
    BY <1>1, <1>4 DEF Where
  <2> QED BY <1>2, <1>4, <2>1
<1> QED BY <1>3, <1>4

LEMMA WhereTail ==
  ASSUME NEW s \in Seq(Messages), s # <<>>, NEW n
  PROVE  Cardinality(Where(s, n)) =
           Cardinality(Where(Tail(s), n)) + (IF n = Head(s) THEN 1 ELSE 0)
<1>1. /\ Head(s) = s[1] /\ Tail(s) \in Seq(Messages) /\ Len(s) \in Nat \ {0}
      /\ DOMAIN s = 1..Len(s) /\ DOMAIN Tail(s) = 1..(Len(s) - 1)
      /\ \A i \in 1..(Len(s) - 1) : Tail(s)[i] = s[i + 1]
  OBVIOUS
<1> DEFINE W == Where(Tail(s), n)  V == Where(s, n) \ {1}  f == [i \in W |-> i + 1]
<1>2. IsFiniteSet(W) /\ IsFiniteSet(Where(s, n))
  BY <1>1, WhereFinite
<1>3. f \in Bijection(W, V)
  <2>1. \A i \in W : i + 1 \in V
    BY <1>1 DEF Where
  <2>2. f \in [W -> V]
    BY <2>1
  <2>3. \A i, j \in W : f[i] = f[j] => i = j
    BY <1>1 DEF Where
  <2>4. ASSUME NEW j \in V PROVE \E i \in W : f[i] = j
    <3>1. j - 1 \in W /\ f[j - 1] = j
      BY <1>1 DEF Where
    <3> QED BY <3>1
  <2> QED BY <2>2, <2>3, <2>4, Fun_IsBij
<1>4. Cardinality(V) = Cardinality(W)
  <2>1. ExistsBijection(W, V)
    BY <1>3 DEF ExistsBijection
  <2> QED BY <1>2, <2>1, FS_Bijection
<1>5. Cardinality(V) = IF 1 \in Where(s, n) THEN Cardinality(Where(s, n)) - 1
                                            ELSE Cardinality(Where(s, n))
  BY <1>2, FS_RemoveElement
<1>6. 1 \in Where(s, n) <=> n = Head(s)
  BY <1>1 DEF Where
<1>7. Cardinality(W) \in Nat /\ Cardinality(Where(s, n)) \in Nat
  BY <1>1, WhereFinite
<1> QED BY <1>4, <1>5, <1>6, <1>7

LEMMA WaitingIs ==
  ASSUME NEW n
  PROVE  Waiting(n) = Cardinality(Where(broadcast, n)) + (IF taken = n THEN 1 ELSE 0)
BY DEF Waiting, Where

LEMMA RoutedInit == Init => Routed
<1> SUFFICES ASSUME Init, NEW m \in Messages
             PROVE  Accounted(m)
  BY DEF Routed
<1>1. told[m] = {} /\ got[m] = <<>> /\ pc[m] = "new" /\ broadcast = <<>> /\ taken # m
  BY FanoutAssumption DEF Init
<1>2. {i \in DOMAIN broadcast : broadcast[i] = m} = {}
  BY <1>1
<1>3. Waiting(m) = 0
  BY <1>1, <1>2, FS_EmptySet DEF Waiting
<1>4. Sends(m) = 0
  BY <1>1, FS_EmptySet DEF Sends
<1> QED BY <1>1, <1>3, <1>4, FS_EmptySet DEF Accounted

LEMMA RoutedStep == TypeOK /\ Bookkeeping /\ Routed /\ [Next]_vars => Routed'
<1> SUFFICES ASSUME TypeOK, Bookkeeping, Routed, [Next]_vars, NEW n \in Messages
             PROVE  Accounted(n)'
  BY DEF Routed
<1> USE FanoutAssumption
<1>1. IsFiniteSet(told[n]) /\ Cardinality(told[n]) \in Nat /\ Len(got[n]) + Waiting(n) = Sends(n)
  BY FS_CardinalityType DEF Routed, Accounted
<1>11. got[n] \in Seq(Users \cup {Nobody}) /\ Len(got[n]) \in Nat
  BY DEF TypeOK
<1>12. broadcast \in Seq(Messages) /\ Cardinality(Where(broadcast, n)) \in Nat
  BY WhereFinite DEF TypeOK
<1>13. /\ Waiting(n) = Cardinality(Where(broadcast, n)) + (IF taken = n THEN 1 ELSE 0)
       /\ Waiting(n)' = Cardinality(Where(broadcast', n)) + (IF taken' = n THEN 1 ELSE 0)
  BY DEF Waiting, Where
<1>14. Waiting(n) \in Nat
  BY <1>12, <1>13
<1>2. ASSUME UNCHANGED <<told, broadcast, taken, got>>,
             pc'[n] \in {"write", "send"} <=> pc[n] \in {"write", "send"}
      PROVE  Accounted(n)'
  BY <1>1, <1>2 DEF Accounted, Waiting, Sends
<1>3. ASSUME NEW m \in Messages, StartSend(m) PROVE Accounted(n)'
  <2>1. PICK u : u \in NextUsers(m) /\ told' = [told EXCEPT ![m] = @ \cup {u}]
    BY <1>3 DEF StartSend
  <2>2. /\ pc[m] = "loop" /\ pc' = [pc EXCEPT ![m] = "write"]
        /\ UNCHANGED <<broadcast, taken, got>>
    BY <1>3 DEF StartSend, history
  <2>3. u \notin told[m]
    BY <2>1 DEF NextUsers
  <2>4. CASE m = n
    <3>1. told'[n] = told[n] \cup {u} /\ pc'[n] = "write" /\ pc[n] = "loop"
      BY <2>1, <2>2, <2>4 DEF TypeOK
    <3>2. IsFiniteSet(told'[n]) /\ Cardinality(told'[n]) = Cardinality(told[n]) + 1
      <4>1. u \notin told[n]
        BY <2>3, <2>4
      <4>2. /\ IsFiniteSet(told[n] \cup {u})
            /\ Cardinality(told[n] \cup {u}) = Cardinality(told[n]) + 1
        BY <1>1, <4>1, FS_AddElement
      <4> QED BY <3>1, <4>2
    <3>3. Sends(n)' = Sends(n)
      BY <1>1, <3>1, <3>2 DEF Sends
    <3> QED BY <1>1, <2>2, <3>2, <3>3 DEF Accounted, Waiting
  <2>5. CASE m # n
    <3>1. told'[n] = told[n] /\ pc'[n] = pc[n]
      BY <2>1, <2>2, <2>5 DEF TypeOK
    <3> QED BY <1>1, <2>2, <3>1 DEF Accounted, Waiting, Sends
  <2> QED BY <2>4, <2>5
<1>4. ASSUME NEW m \in Messages, Enqueue(m) PROVE Accounted(n)'
  <2>1. /\ pc[m] = "send" /\ pc' = [pc EXCEPT ![m] = "check"]
        /\ broadcast' = Append(broadcast, m) /\ UNCHANGED <<told, taken, got>>
    BY <1>4 DEF Enqueue, Enqueued, history
  <2>2. Waiting(n)' = Waiting(n) + (IF n = m THEN 1 ELSE 0)
    BY <1>12, <1>13, <2>1, WhereAppend
  <2>3. Sends(n)' = Sends(n) + (IF n = m THEN 1 ELSE 0)
    <3>1. CASE n = m
      BY <1>1, <2>1, <3>1 DEF Sends, TypeOK
    <3>2. CASE n # m
      <4>1. pc'[n] = pc[n] /\ told'[n] = told[n]
        BY <2>1, <3>2 DEF TypeOK
      <4> QED BY <1>1, <3>2, <4>1 DEF Sends
    <3> QED BY <3>1, <3>2
  <2>4. Waiting(n) \in Nat /\ Sends(n) \in Int
    BY <1>1, <1>11, <1>14
  <2> QED BY <1>1, <1>11, <2>1, <2>2, <2>3, <2>4 DEF Accounted
<1>5. ASSUME Take PROVE Accounted(n)'
  <2>1. /\ broadcast # <<>> /\ taken = NoMessage /\ taken' = Head(broadcast)
        /\ broadcast' = Tail(broadcast) /\ UNCHANGED <<pc, told, got>>
    BY <1>5 DEF Take, handler, history
  <2>2. Cardinality(Where(broadcast, n)) =
          Cardinality(Where(broadcast', n)) + (IF n = Head(broadcast) THEN 1 ELSE 0)
    BY <1>12, <2>1, WhereTail
  <2>3. broadcast' \in Seq(Messages) /\ taken # n
    BY <1>12, <2>1, HeadFacts
  <2>4. Cardinality(Where(broadcast', n)) \in Nat
    BY <2>3, WhereFinite
  <2>5. Waiting(n)' = Waiting(n)
    BY <1>13, <2>1, <2>2, <2>3, <2>4
  <2> QED BY <1>1, <2>1, <2>5 DEF Accounted, Sends
<1>6. ASSUME Route PROVE Accounted(n)'
  <2>1. taken \in Messages /\ taken' = NoMessage /\ UNCHANGED <<pc, told, broadcast>>
    BY <1>6 DEF Route, TypeOK, handler
  <2>2. PICK a \in Seen(taken) : got' = [got EXCEPT ![taken] = Append(@, a)]
    BY <1>6 DEF Route
  <2>3. a \in Users \cup {Nobody}
    BY <2>1, <2>2 DEF Seen, TypeOK
  <2>4. Sends(n)' = Sends(n) /\ taken' # n
    BY <2>1 DEF Sends
  <2>5. CASE n = taken
    <3>1. got'[n] = Append(got[n], a)
      BY <2>2, <2>5 DEF TypeOK
    <3>2. Len(got'[n]) = Len(got[n]) + 1
      BY <1>11, <2>3, <3>1, RoutedFacts
    <3>3. Waiting(n) = Waiting(n)' + 1
      BY <1>12, <1>13, <2>1, <2>4, <2>5
    <3>4. Waiting(n)' \in Nat
      BY <1>12, <1>13, <2>1, <2>4
    <3> QED BY <1>1, <1>11, <1>14, <2>1, <2>4, <3>2, <3>3, <3>4 DEF Accounted
  <2>6. CASE n # taken
    <3>1. got'[n] = got[n]
      BY <2>1, <2>2, <2>6 DEF TypeOK
    <3>2. Waiting(n)' = Waiting(n)
      BY <1>13, <2>1, <2>4, <2>6
    <3> QED BY <1>1, <2>1, <2>4, <3>1, <3>2 DEF Accounted
  <2> QED BY <2>5, <2>6
<1>7. ASSUME NEW m \in Messages, Handle(m), ~StartSend(m), ~Enqueue(m) PROVE Accounted(n)'
  <2>1. CASE SendMessage(m)
    BY <2>1, <1>2 DEF SendMessage, Turn, TypeOK
  <2>2. CASE \E us \in SUBSET Users, found \in BOOLEAN : ReadMembers(m, us, found)
    BY <2>2, <1>2 DEF ReadMembers, TypeOK, history
  <2>3. CASE Finish(m)
    BY <2>3, <1>2 DEF Finish, TypeOK, history
  <2>4. CASE WriteAddress(m)
    BY <2>4, <1>2 DEF WriteAddress, TypeOK, history
  <2>5. CASE CheckOnline(m)
    BY <2>5, <1>2 DEF CheckOnline, TypeOK, history
  <2> QED BY <1>7, <2>1, <2>2, <2>3, <2>4, <2>5 DEF Handle
<1>8. CASE (\E u \in Movers : TogglePresence(u)) \/ UNCHANGED vars
  BY <1>2, <1>8 DEF TogglePresence, vars, handler, history
<1> QED BY <1>3, <1>4, <1>5, <1>6, <1>7, <1>8 DEF Next, Hub

----------------------------------------------------------------------------
LEMMA PushInit == Init => PushedSoFar
BY FanoutAssumption DEF Init, PushedSoFar, Begun

LEMMA PushStep == TypeOK /\ Bookkeeping /\ PushedSoFar /\ [Next]_vars => PushedSoFar'
<1> SUFFICES ASSUME TypeOK, Bookkeeping, PushedSoFar, [Next]_vars PROVE PushedSoFar'
  OBVIOUS
<1> USE FanoutAssumption DEF TypeOK, PushedSoFar, Begun
<1>1. CASE UNCHANGED vars \/ Hub
  BY <1>1 DEF vars, handler, history, Hub, Take, Route
<1>2. ASSUME NEW m \in Messages, SendMessage(m) PROVE PushedSoFar'
  <2>1. /\ pc[m] = "new" /\ members[m] = {} /\ told[m] = {}
        /\ around' = [around EXCEPT ![m] = online]
        /\ UNCHANGED <<members, current, told, online, pushed>>
    BY <1>2 DEF SendMessage, Turn, Bookkeeping
  <2>2. PICK to \in {"stored", "done"} : pc' = [pc EXCEPT ![m] = to]
    BY <1>2 DEF SendMessage
  <2> QED BY <2>1, <2>2
<1>3. ASSUME NEW m \in Messages, NEW us \in SUBSET Users, NEW found \in BOOLEAN,
             ReadMembers(m, us, found)
      PROVE  PushedSoFar'
  <2>1. /\ pc[m] = "stored" /\ pc' = [pc EXCEPT ![m] = "loop"] /\ told[m] = {}
        /\ members' = [members EXCEPT ![m] = us]
        /\ UNCHANGED <<current, told, online, pushed, around>>
    BY <1>3 DEF ReadMembers, Bookkeeping, history
  <2> QED BY <2>1
<1>4. ASSUME NEW m \in Messages, StartSend(m) PROVE PushedSoFar'
  <2>1. PICK u : /\ current' = [current EXCEPT ![m] = u]
                 /\ told' = [told EXCEPT ![m] = @ \cup {u}]
    BY <1>4 DEF StartSend
  <2>2. /\ pc[m] = "loop" /\ pc' = [pc EXCEPT ![m] = "write"]
        /\ UNCHANGED <<members, online, pushed, around>>
    BY <1>4 DEF StartSend, history
  <2> QED BY <2>1, <2>2
<1>5. ASSUME NEW m \in Messages, Finish(m) PROVE PushedSoFar'
  <2>1. members[m] \subseteq told[m]
    BY <1>5 DEF Finish, NextUsers
  <2>2. /\ pc[m] = "loop" /\ pc' = [pc EXCEPT ![m] = "done"]
        /\ UNCHANGED <<members, current, told, online, pushed, around>>
    BY <1>5 DEF Finish, history
  <2> QED BY <2>1, <2>2
<1>6. ASSUME NEW m \in Messages, WriteAddress(m) \/ Enqueue(m) PROVE PushedSoFar'
  <2>1. /\ pc[m] \in {"write", "send"}
        /\ \E to \in {"send", "check"} : pc' = [pc EXCEPT ![m] = to]
        /\ UNCHANGED <<members, current, told, online, pushed, around>>
    BY <1>6 DEF WriteAddress, Enqueue, history
  <2> QED BY <2>1
<1>7. ASSUME NEW m \in Messages, CheckOnline(m) PROVE PushedSoFar'
  <2>1. /\ pc[m] = "check" /\ pc' = [pc EXCEPT ![m] = "loop"]
        /\ pushed' = [pushed EXCEPT ![m] = @ \cup Away(m)]
        /\ UNCHANGED <<members, current, told, online, around>>
    BY <1>7 DEF CheckOnline
  <2>2. current[m] \in around[m] \cup {Sender[m]} \cup pushed'[m]
    BY <2>1 DEF Away, ToSender
  <2> QED BY <2>1, <2>2
<1>8. ASSUME NEW u \in Movers, TogglePresence(u) PROVE PushedSoFar'
  <2>1. /\ online' \subseteq online \cup {u}
        /\ around' = [m \in Messages |-> around[m] \cup {u}]
        /\ UNCHANGED <<pc, members, current, told, pushed>>
    BY <1>8 DEF TogglePresence, handler
  <2> QED BY <2>1
<1> HIDE DEF TypeOK, PushedSoFar
<1>9. ASSUME NEW m \in Messages, Handle(m) PROVE PushedSoFar'
  BY <1>2, <1>3, <1>4, <1>5, <1>6, <1>7, <1>9 DEF Handle
<1> QED BY <1>1, <1>8, <1>9 DEF Next

LEMMA FifoInit == Init => Fifo
BY FanoutAssumption DEF Init, Fifo, Sent, InFlight, Queued, Follows

(* Whom a message follows does not change. *)
LEMMA FollowsStep ==
  ASSUME TypeOK, [Next]_vars, NEW m \in Messages
  PROVE  (Follows(m)' <=> Follows(m)) /\ (Follows(m) => Previous[m] \in Messages)
BY FanoutAssumption
DEF TypeOK, Follows, Next, Handle, Hub, vars

(* Enqueue: the entry of m comes last, and none of a message that follows m is there. *)
LEMMA FifoEnqueue ==
  ASSUME TypeOK, Fifo, [Next]_vars, NEW m \in Messages, Enqueue(m)
  PROVE  Fifo'
<1> USE FanoutAssumption
<1>1. /\ pc[m] = "send" /\ broadcast' = Append(broadcast, m) /\ broadcast \in Seq(Messages)
      /\ \A n \in Messages : pc'[n] = IF n = m THEN "check" ELSE pc[n]
      /\ UNCHANGED <<taken, got>>
  BY DEF Enqueue, Enqueued, TypeOK, history
<1>2. /\ Len(broadcast) \in Nat /\ DOMAIN broadcast = 1..Len(broadcast)
      /\ DOMAIN broadcast' = 1..(Len(broadcast) + 1)
      /\ \A i \in DOMAIN broadcast : broadcast'[i] = broadcast[i]
      /\ broadcast'[Len(broadcast) + 1] = m
  BY <1>1
<1>3. ASSUME NEW n \in Messages PROVE InFlight(n)' => InFlight(n) \/ n = m
  BY <1>1, <1>2 DEF InFlight
<1>4. ASSUME NEW n \in Messages PROVE Queued(n)' => Queued(n) \/ n = m
  BY <1>1, <1>2 DEF Queued
<1>5. ASSUME NEW n \in Messages, pc'[n] = "new" PROVE ~Sent(n)'
  BY <1>1, <1>3, <1>5 DEF Fifo, Sent
<1>6. ASSUME NEW n \in Messages, Follows(n), pc'[n] # "new" PROVE pc'[Previous[n]] = "done"
  <2>1. Previous[n] \in Messages
    BY <1>6, FollowsStep
  <2>2. pc[n] # "new"
    BY <1>1, <1>6
  <2>3. pc[Previous[n]] = "done"
    BY <1>6, <2>2 DEF Fifo
  <2> QED BY <1>1, <2>1, <2>3
<1>7. ASSUME NEW n \in Messages, Follows(n), Previous[n] = m PROVE pc[n] = "new"
  BY <1>1, <1>7 DEF Fifo
<1>8. ASSUME NEW n \in Messages, Follows(n), NEW i \in DOMAIN broadcast',
             NEW j \in DOMAIN broadcast', broadcast'[i] = n, broadcast'[j] = Previous[n]
      PROVE  j < i
  <2>1. CASE j = Len(broadcast) + 1
    <3>1. Previous[n] = m
      BY <1>2, <1>8, <2>1
    <3>2. pc[n] = "new"
      BY <1>7, <1>8, <3>1
    <3>3. n # m /\ ~Sent(n)
      BY <1>1, <1>8, <3>2 DEF Fifo
    <3>4. i \in DOMAIN broadcast /\ broadcast[i] = n
      BY <1>2, <1>8, <3>3
    <3> QED BY <3>3, <3>4 DEF Sent, InFlight
  <2>2. CASE j # Len(broadcast) + 1 /\ i = Len(broadcast) + 1
    BY <1>2, <1>8, <2>2
  <2>3. CASE j # Len(broadcast) + 1 /\ i # Len(broadcast) + 1
    BY <1>2, <1>8, <2>3 DEF Fifo
  <2> QED BY <2>1, <2>2, <2>3
<1>9. ASSUME NEW n \in Messages, Follows(n), taken' = n PROVE ~Queued(Previous[n])'
  <2>1. Previous[n] # m
    BY <1>1, <1>7, <1>9 DEF Fifo, Sent, InFlight
  <2> QED BY <1>1, <1>4, <1>9, <2>1, FollowsStep DEF Fifo
<1>10. ASSUME NEW n \in Messages, Follows(n), got'[n] # <<>>
       PROVE  ~InFlight(Previous[n])'
  <2>1. Previous[n] # m
    BY <1>1, <1>7, <1>10 DEF Fifo, Sent
  <2> QED BY <1>1, <1>3, <1>10, <2>1, FollowsStep DEF Fifo
<1>11. \A n \in Messages : Follows(n)' <=> Follows(n)
  BY FollowsStep
<1> QED BY <1>5, <1>6, <1>8, <1>9, <1>10, <1>11 DEF Fifo

(* Take: the head was before all the others. *)
LEMMA FifoTake ==
  ASSUME TypeOK, Fifo, [Next]_vars, Take
  PROVE  Fifo'
<1> USE FanoutAssumption
<1>1. /\ broadcast \in Seq(Messages) /\ broadcast # <<>> /\ taken = NoMessage
      /\ taken' = Head(broadcast) /\ broadcast' = Tail(broadcast) /\ UNCHANGED <<pc, got>>
  BY DEF Take, TypeOK, handler, history
<1>2. /\ Len(broadcast) \in Nat \ {0} /\ DOMAIN broadcast = 1..Len(broadcast)
      /\ DOMAIN broadcast' = 1..(Len(broadcast) - 1) /\ taken' = broadcast[1]
      /\ \A i \in 1..(Len(broadcast) - 1) : broadcast'[i] = broadcast[i + 1]
  BY <1>1
<1>3. \A i \in DOMAIN broadcast' : i + 1 \in DOMAIN broadcast /\ broadcast'[i] = broadcast[i + 1]
  BY <1>2
<1>4. ASSUME NEW n PROVE InFlight(n)' => InFlight(n)
  BY <1>2, <1>3 DEF InFlight
<1>5. ASSUME NEW n \in Messages, pc'[n] = "new" PROVE ~Sent(n)'
  BY <1>1, <1>4, <1>5 DEF Fifo, Sent
<1>6. ASSUME NEW n \in Messages, Follows(n), NEW i \in DOMAIN broadcast',
             NEW j \in DOMAIN broadcast', broadcast'[i] = n, broadcast'[j] = Previous[n]
      PROVE  j < i
  <2>1. j + 1 < i + 1
    BY <1>3, <1>6 DEF Fifo
  <2> QED BY <1>2, <2>1
<1>7. ASSUME NEW n \in Messages, Follows(n), taken' = n PROVE ~Queued(Previous[n])'
  <2> SUFFICES ASSUME NEW j \in DOMAIN broadcast', broadcast'[j] = Previous[n] PROVE FALSE
    BY DEF Queued
  <2>1. 1 \in DOMAIN broadcast /\ broadcast[1] = n
    BY <1>2, <1>7
  <2>2. j + 1 \in DOMAIN broadcast /\ broadcast[j + 1] = Previous[n]
    BY <1>3
  <2>3. j + 1 < 1
    BY <1>7, <2>1, <2>2 DEF Fifo
  <2> QED BY <1>2, <2>3
<1>8. ASSUME NEW n \in Messages, Follows(n), got'[n] # <<>>
      PROVE  ~InFlight(Previous[n])'
  BY <1>1, <1>4, <1>8 DEF Fifo
<1>9. \A n \in Messages : Follows(n)' <=> Follows(n)
  BY FollowsStep
<1>10. \A n \in Messages : Follows(n) => (pc'[n] # "new" => pc'[Previous[n]] = "done")
  BY <1>1 DEF Fifo
<1> QED BY <1>5, <1>6, <1>7, <1>8, <1>9, <1>10 DEF Fifo

(* Route: what was taken had nothing of the message it follows behind it. *)
LEMMA FifoRoute ==
  ASSUME TypeOK, Fifo, [Next]_vars, Route
  PROVE  Fifo'
<1> USE FanoutAssumption
<1>1. taken \in Messages /\ taken' = NoMessage /\ UNCHANGED <<pc, broadcast>>
  BY DEF Route, TypeOK, handler
<1>2. PICK a \in Seen(taken) : got' = [got EXCEPT ![taken] = Append(@, a)]
  BY DEF Route
<1>3. ASSUME NEW n \in Messages, n # taken PROVE got'[n] = got[n]
  BY <1>1, <1>2, <1>3 DEF TypeOK
<1>4. ASSUME NEW n \in Messages PROVE /\ InFlight(n)' => InFlight(n)
                                      /\ InFlight(n)' <=> Queued(n)
                                      /\ Queued(n)' <=> Queued(n)
  BY <1>1 DEF InFlight, Queued
<1>5. ASSUME NEW n \in Messages, pc'[n] = "new" PROVE ~Sent(n)'
  <2>1. ~Sent(n) /\ n # taken
    BY <1>1, <1>5 DEF Fifo, Sent, InFlight
  <2> QED BY <1>3, <1>4, <2>1 DEF Sent
<1>6. ASSUME NEW n \in Messages, Follows(n), got'[n] # <<>>
      PROVE  ~InFlight(Previous[n])'
  <2>1. Previous[n] \in Messages
    BY <1>6, FollowsStep
  <2>2. CASE n = taken
    BY <1>4, <1>6, <2>1, <2>2 DEF Fifo
  <2>3. CASE n # taken
    BY <1>3, <1>4, <1>6, <2>1, <2>3 DEF Fifo
  <2> QED BY <2>2, <2>3
<1>7. \A n \in Messages : Follows(n)' <=> Follows(n)
  BY FollowsStep
<1>8. \A n \in Messages : taken' # n
  BY <1>1
<1>9. \A n \in Messages : Follows(n) =>
        /\ pc'[n] # "new" => pc'[Previous[n]] = "done"
        /\ \A i, j \in DOMAIN broadcast' :
             broadcast'[i] = n /\ broadcast'[j] = Previous[n] => j < i
  BY <1>1 DEF Fifo
<1> QED BY <1>5, <1>6, <1>7, <1>8, <1>9 DEF Fifo

LEMMA FifoStep == TypeOK /\ Fifo /\ [Next]_vars => Fifo'
<1> SUFFICES ASSUME TypeOK, Fifo, [Next]_vars PROVE Fifo'
  OBVIOUS
<1> USE FanoutAssumption
<1>1. ASSUME UNCHANGED <<broadcast, taken, got>>,
             \A n \in Messages : /\ pc'[n] = "new" => pc[n] = "new"
                                 /\ pc[n] = "done" => pc'[n] = "done"
                                 /\ pc[n] = "new" /\ pc'[n] # "new" /\ Follows(n) =>
                                      pc[Previous[n]] = "done"
      PROVE  Fifo'
  <2>1. \A n : (InFlight(n)' <=> InFlight(n)) /\ (Queued(n)' <=> Queued(n))
    BY <1>1 DEF InFlight, Queued
  <2>2. \A n \in Messages : Sent(n)' <=> Sent(n)
    BY <1>1, <2>1 DEF Sent
  <2>3. ASSUME NEW n \in Messages, Follows(n), pc'[n] # "new" PROVE pc'[Previous[n]] = "done"
    BY <1>1, <2>3, FollowsStep DEF Fifo
  <2>4. \A n \in Messages : Follows(n)' <=> Follows(n)
    BY FollowsStep
  <2> QED BY <1>1, <2>1, <2>2, <2>3, <2>4 DEF Fifo
<1>2. ASSUME NEW m \in Messages, Handle(m), ~Enqueue(m) PROVE Fifo'
  <2>1. CASE SendMessage(m)
    BY <2>1, <1>1 DEF SendMessage, Turn, TypeOK
  <2>2. CASE \E us \in SUBSET Users, found \in BOOLEAN : ReadMembers(m, us, found)
    BY <2>2, <1>1 DEF ReadMembers, TypeOK, history
  <2>3. CASE StartSend(m)
    BY <2>3, <1>1 DEF StartSend, TypeOK, history
  <2>4. CASE Finish(m)
    BY <2>4, <1>1 DEF Finish, TypeOK, history
  <2>5. CASE WriteAddress(m)
    BY <2>5, <1>1 DEF WriteAddress, TypeOK, history
  <2>6. CASE CheckOnline(m)
    BY <2>6, <1>1 DEF CheckOnline, TypeOK, history
  <2> QED BY <1>2, <2>1, <2>2, <2>3, <2>4, <2>5, <2>6 DEF Handle
<1>3. CASE (\E u \in Movers : TogglePresence(u)) \/ UNCHANGED vars
  BY <1>1, <1>3 DEF TogglePresence, vars, handler, history
<1> QED BY <1>2, <1>3, FifoEnqueue, FifoTake, FifoRoute DEF Next, Hub

----------------------------------------------------------------------------
(* The types of every variable. *)
THEOREM FanoutTypes == Spec => []TypeOK
<1>1. IInv => TypeOK
  BY DEF IInv
<1> QED BY <1>1, FanoutInit, FanoutStep, PTL DEF Spec

(* A message is only ever sent to users its own handler named. *)
THEOREM AudienceKept == Spec => []OnlyAudience
<1>1. IInv => OnlyAudience
  BY DEF IInv
<1> QED BY <1>1, FanoutInit, FanoutStep, PTL DEF Spec

(* The last user a message is addressed to gets it. *)
THEOREM LastIsServed == Spec => []LastServed
<1>1. IInv => LastServed
  BY DEF IInv, LastServed, LastInFlight, Drained
<1> QED BY <1>1, FanoutInit, FanoutStep, PTL DEF Spec

(* A sender who is not a member gets the message. *)
THEOREM AbsentSenderIsServed == Spec => []AbsentSenderServed
<1>1. IInv => AbsentSenderServed
  BY DEF IInv, AbsentSenderServed, LastInFlight, Bookkeeping, SenderLast, Drained
<1> QED BY <1>1, FanoutInit, FanoutStep, PTL DEF Spec

(* A member without a session is notified by push. *)
THEOREM AwayAreNotified == Spec => []AwayNotified
<1>1. IInv /\ PushedSoFar => AwayNotified
  BY DEF IInv, PushedSoFar, AwayNotified
<1> QED BY <1>1, FanoutInit, FanoutStep, PushInit, PushStep, PTL DEF Spec, IInv

(* What the race on the shared event leaves of the fan-out. *)
THEOREM FanoutIsKept == Spec => []FanoutKept
<1>1. OnlyAudience /\ LastServed /\ AbsentSenderServed /\ AwayNotified => FanoutKept
  BY DEF FanoutKept
<1> QED BY <1>1, AudienceKept, LastIsServed, AbsentSenderIsServed, AwayAreNotified, PTL

(* The messages of one session are routed in their order. *)
THEOREM OrderIsKept == Spec => []InOrder
<1>1. TypeOK /\ Fifo => InOrder
  <2> SUFFICES ASSUME TypeOK, Fifo, NEW m \in Messages, Follows(m),
                      got[m] # <<>>
               PROVE  Drained(Previous[m])
    BY DEF InOrder
  <2>1. pc[m] # "new" /\ ~InFlight(Previous[m])
    BY DEF Fifo, Sent
  <2>2. pc[Previous[m]] = "done"
    BY <2>1 DEF Fifo
  <2> QED BY <2>1, <2>2 DEF Drained
<1>2. IInv => TypeOK
  BY DEF IInv
<1> QED BY <1>1, <1>2, FanoutInit, FanoutStep, FifoInit, FifoStep, PTL DEF Spec

(* Every SendToUser is routed exactly once, however many users, messages and handlers there are
   (SendToUser, handleBroadcast). *)
THEOREM SendsAreRouted == Spec => []EachSendRouted
<1>1. Routed => EachSendRouted
  BY DEF Routed, Accounted, EachSendRouted
<1>2. IInv => TypeOK /\ Bookkeeping
  BY DEF IInv
<1> QED BY <1>1, <1>2, FanoutInit, FanoutStep, RoutedInit, RoutedStep, PTL DEF Spec
=============================================================================
