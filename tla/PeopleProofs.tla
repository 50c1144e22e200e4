---------------------------- MODULE PeopleProofs ----------------------------
(***************************************************************************)
(* What Friends says of the friendships table, FriendsPanel of the section *)
(* that shows it, Account of signing up, in and out, Calls of who offers   *)
(* and CallMedia of what is captured: for every set of users, e-mail       *)
(* addresses and calls, and any number of requests under way.              *)
(***************************************************************************)
EXTENDS People, FiniteSetTheorems, TLAPS

(* Two rows of a pair are remembered, both ways. *)
CrossedKnown ==
  /\ \A p \in Pairs : TwoRows(p) => p \in crossed
  /\ \A p \in Pairs : p \in crossed => Rev(p) \in crossed

(* A pending request was asked for, but for the pairs that had two rows. *)
PendingAsked == \A p \in Pairs : row[p] = "pending" /\ p \notin crossed => p \in asked

(* A call whose pair was blocked all along has a block to find. *)
WalledBlocked == \A c \in walled : BlockedPairs(pair[c]) # {}

(* What a SendRequest that nobody disturbed knows from the counts it has passed. *)
CountsHold ==
  \A c \in Calls \ disturbed :
    /\ pc[c] \in {"accepted", "outgoing", "insert"} => row[Rev(pair[c])] # "pending"
    /\ pc[c] \in {"outgoing", "insert"} => ~Accepted(pair[c])
    /\ pc[c] = "insert" => row[pair[c]] # "pending"

IInv ==
  /\ TypeOK
  /\ Consent
  /\ BlockRespected
  /\ CrossedKnown
  /\ PendingAsked
  /\ WalledBlocked
  /\ CountsHold

----------------------------------------------------------------------------
LEMMA PairFacts ==
  ASSUME NEW p \in Pairs
  PROVE  /\ Rev(p) \in Pairs /\ Rev(p) # p /\ Rev(Rev(p)) = p
         /\ Both(p) \subseteq Pairs /\ p \in Both(p) /\ Rev(p) \in Both(p)
         /\ \A q \in Pairs : q \in Both(p) <=> p \in Both(q)
         /\ \A q \in Both(p) : q = p \/ q = Rev(p)
         /\ \A q \in Both(p) : Both(q) = Both(p)
<1>1. PICK u \in Users, v \in Users : p = <<u, v>> /\ u # v BY DEF Pairs
<1>2. Rev(p) = <<v, u>> /\ Rev(Rev(p)) = <<u, v>> BY <1>1 DEF Rev
<1>3. Rev(p) \in Pairs /\ Rev(p) # p BY <1>1, <1>2 DEF Pairs
<1>4. \A q \in Pairs : q \in Both(p) <=> p \in Both(q)
  <2>1. TAKE q \in Pairs
  <2>2. PICK x \in Users, y \in Users : q = <<x, y>> BY DEF Pairs
  <2>3. Rev(q) = <<y, x>> BY <2>2 DEF Rev
  <2>4. QED BY <1>1, <1>2, <2>2, <2>3 DEF Both
<1>5. Both(Rev(p)) = Both(p) BY <1>1, <1>2 DEF Both
<1>6. QED BY <1>1, <1>2, <1>3, <1>4, <1>5 DEF Both

LEMMA InitHolds == ASSUME Init PROVE IInv
BY PairFacts
   DEF Init, IInv, TypeOK, Consent, BlockRespected, CrossedKnown, TwoRows, PendingAsked,
       WalledBlocked, CountsHold

----------------------------------------------------------------------------
(* What a statement that sets the row of p and asked must guarantee: an accepted row has both of
   the pair in asked, a pending one its requester, and only a pending request is ever taken out. *)
Justified(p, status, as) ==
  /\ status \in {"none", "pending", "accepted"} /\ as \subseteq Pairs
  /\ status = "accepted" /\ p \notin crossed => Both(p) \subseteq as
  /\ status = "pending" => p \in as
  /\ asked \subseteq as \/ (asked \ as = {p} /\ status = "none" /\ row[p] = "pending")

LEMMA RowSetKeepsTable ==
  ASSUME IInv, NEW p \in Pairs, NEW status, NEW own \in SUBSET Calls, NEW as,
         SetRow(p, status, own, as),
         Justified(p, status, as)
  PROVE  /\ row' \in [Pairs -> {"none", "pending", "accepted"}]
         /\ asked' \subseteq Pairs /\ crossed' \subseteq Pairs /\ disturbed' \subseteq Calls
         /\ Consent' /\ CrossedKnown' /\ PendingAsked'
<1>1. /\ row' = [row EXCEPT ![p] = status] /\ asked' = as
      /\ disturbed' \subseteq Calls /\ crossed \subseteq crossed'
  BY DEF SetRow, IInv, TypeOK
<1>. USE DEF Justified
<1>2. row' \in [Pairs -> {"none", "pending", "accepted"}] BY <1>1 DEF IInv, TypeOK
<1>3. /\ \A q \in Pairs : q # p => row'[q] = row[q]
      /\ row'[p] = status
  BY <1>1 DEF IInv, TypeOK
<1>4. /\ crossed' = crossed \/ crossed' = crossed \cup Both(p)
      /\ crossed' \subseteq Pairs
  BY PairFacts DEF SetRow, IInv, TypeOK
<1>5. CrossedKnown'
  <2>1. ASSUME NEW q \in Pairs, TwoRows(q)' PROVE q \in crossed'
    <3>1. row'[q] # "none" /\ row'[Rev(q)] # "none" BY <2>1 DEF TwoRows
    <3>2. CASE q \notin Both(p)
      <4>1. q # p /\ Rev(q) # p BY <3>2, PairFacts DEF Both
      <4>2. TwoRows(q) BY <3>1, <4>1, <1>3, PairFacts DEF TwoRows
      <4>3. QED BY <4>2, <1>1 DEF IInv, CrossedKnown
    <3>3. CASE q \in Both(p)
      <4>1. row'[p] # "none" /\ row'[Rev(p)] # "none" BY <3>1, <3>3, PairFacts
      <4>2. status # "none" /\ row[Rev(p)] # "none" BY <4>1, <1>3, PairFacts
      <4>3. crossed' = crossed \cup Both(p) BY <4>2 DEF SetRow
      <4>4. QED BY <3>3, <4>3
    <3>4. QED BY <3>2, <3>3
  <2>2. ASSUME NEW q \in Pairs, q \in crossed' PROVE Rev(q) \in crossed'
    <3>1. CASE q \in crossed BY <3>1, <1>1 DEF IInv, CrossedKnown
    <3>2. CASE q \notin crossed
      <4>1. crossed' = crossed \cup Both(p) /\ q \in Both(p) BY <1>4, <2>2, <3>2
      <4>2. Rev(q) \in Both(p) BY <4>1, PairFacts
      <4>3. QED BY <4>1, <4>2
    <3>3. QED BY <3>1, <3>2
  <2>3. QED BY <2>1, <2>2 DEF CrossedKnown
<1>6. PendingAsked'
  <2>1. SUFFICES ASSUME NEW q \in Pairs, row'[q] = "pending", q \notin crossed' PROVE q \in as
    BY <1>1 DEF PendingAsked
  <2>2. CASE q = p BY <2>1, <2>2, <1>3
  <2>3. CASE q # p
    <3>1. q \in asked BY <2>1, <2>3, <1>1, <1>3 DEF IInv, PendingAsked
    <3>2. QED BY <3>1, <2>3
  <2>4. QED BY <2>2, <2>3
<1>7. Consent'
  <2>1. SUFFICES ASSUME NEW q \in Pairs, row'[q] = "accepted", q \notin crossed'
                 PROVE  Both(q) \subseteq as
    BY <1>1 DEF Consent
  <2>2. CASE q = p BY <2>1, <2>2, <1>1, <1>3
  <2>3. CASE q # p
    <3>1. row[q] = "accepted" /\ q \notin crossed BY <2>1, <2>3, <1>1, <1>3
    <3>2. Both(q) \subseteq asked BY <3>1 DEF IInv, Consent
    <3>3. CASE asked \subseteq as BY <3>2, <3>3
    <3>4. CASE asked \ as = {p} /\ row[p] = "pending"
      <4>1. ASSUME p \in Both(q) PROVE FALSE
        <5>1. p = Rev(q) BY <4>1, <2>3, PairFacts
        <5>2. TwoRows(q) BY <5>1, <3>1, <3>4 DEF TwoRows
        <5>3. QED BY <5>2, <3>1 DEF IInv, CrossedKnown
      <4>2. QED BY <3>2, <4>1
    <3>5. QED BY <3>3, <3>4
  <2>4. QED BY <2>2, <2>3
<1>8. QED BY <1>1, <1>2, <1>4, <1>5, <1>6, <1>7

(* The counts of the calls that a change of the row of p did not disturb are of other pairs. *)
LEMMA OthersKnow ==
  ASSUME IInv, NEW p \in Pairs, NEW c \in Calls, pair[c] \notin Both(p),
         \A q \in Pairs : q \notin Both(p) => row'[q] = row[q], UNCHANGED pair
  PROVE  /\ row'[pair[c]] = row[pair[c]] /\ row'[Rev(pair[c])] = row[Rev(pair[c])]
         /\ Accepted(pair[c])' = Accepted(pair[c])
<1>1. pair[c] \in Pairs /\ Rev(pair[c]) \in Pairs BY PairFacts DEF IInv, TypeOK
<1>2. Rev(pair[c]) \notin Both(p) BY <1>1, PairFacts
<1>3. \A q \in Both(pair[c]) : row'[q] = row[q] BY <1>1, <1>2, PairFacts
<1>4. QED BY <1>1, <1>2, <1>3 DEF Accepted

(* A change of the rows of a pair disturbs every other call that relies on them. *)
LEMMA RowChangeKeepsCounts ==
  ASSUME IInv, NEW p \in Pairs, NEW own \in SUBSET Calls,
         \A q \in Pairs : q \notin Both(p) => row'[q] = row[q],
         disturbed' = disturbed \cup {d \in Calls \ own : Running(d) /\ pair[d] \in Both(p)},
         UNCHANGED pair,
         \A d \in Calls \ own : pc'[d] = pc[d],
         \A d \in own : pc'[d] = "idle"
  PROVE  CountsHold'
<1>1. SUFFICES ASSUME NEW d \in Calls, d \notin disturbed', pc'[d] # "idle"
               PROVE  /\ pc'[d] \in {"accepted", "outgoing", "insert"}
                            => row'[Rev(pair[d])] # "pending"
                      /\ pc'[d] \in {"outgoing", "insert"} => ~Accepted(pair[d])'
                      /\ pc'[d] = "insert" => row'[pair[d]] # "pending"
  BY DEF CountsHold
<1>2. d \notin own /\ d \notin disturbed /\ pc'[d] = pc[d] BY <1>1
<1>3. pair[d] \notin Both(p) BY <1>1, <1>2 DEF Running
<1>4. /\ row'[pair[d]] = row[pair[d]] /\ row'[Rev(pair[d])] = row[Rev(pair[d])]
      /\ Accepted(pair[d])' = Accepted(pair[d])
  BY <1>3, OthersKnow
<1>5. QED BY <1>2, <1>4 DEF IInv, CountsHold

(* A statement on one row keeps the whole invariant, if it changes no block and no walled call
   but to end it. *)
LEMMA SetRowKeeps ==
  ASSUME IInv, NEW p \in Pairs, NEW status, NEW own \in SUBSET Calls, NEW as,
         SetRow(p, status, own, as), UNCHANGED <<pair, blocked, walled>>,
         pc' \in
       [Calls -> {"idle", "blocked", "reciprocal", "autoaccept", "accepted", "outgoing", "insert"}],
         \A d \in Calls \ own : pc'[d] = pc[d],
         \A d \in own : pc'[d] = "idle",
         Justified(p, status, as)
  PROVE  IInv'
<1>1. /\ row' \in [Pairs -> {"none", "pending", "accepted"}]
      /\ asked' \subseteq Pairs /\ crossed' \subseteq Pairs /\ disturbed' \subseteq Calls
      /\ Consent' /\ CrossedKnown' /\ PendingAsked'
  BY RowSetKeepsTable
<1>2. TypeOK' BY <1>1 DEF IInv, TypeOK
<1>3. BlockRespected' BY DEF IInv, BlockRespected, TypeOK
<1>4. WalledBlocked' BY DEF IInv, WalledBlocked, BlockedPairs
<1>5. CountsHold'
  <2>1. \A q \in Pairs : q \notin Both(p) => row'[q] = row[q]
    BY PairFacts DEF SetRow, IInv, TypeOK
  <2>2. disturbed' = disturbed \cup {d \in Calls \ own : Running(d) /\ pair[d] \in Both(p)}
    BY DEF SetRow
  <2>3. QED BY <2>1, <2>2, RowChangeKeepsCounts
<1>6. QED BY <1>1, <1>2, <1>3, <1>4, <1>5 DEF IInv

(* A statement that only reads keeps the table; where the call goes must agree with what it read. *)
LEMMA ReadKeeps ==
  ASSUME IInv, NEW c \in Calls,
         NEW to \in {"idle", "reciprocal", "autoaccept", "accepted", "outgoing", "insert"},
         Go(c, to), UNCHANGED <<row, blocked, pair, asked, crossed, walled>>,
         disturbed \subseteq disturbed', disturbed' \subseteq Calls,
         c \in walled => to = "idle",
         c \notin disturbed' =>
           /\ to \in {"accepted", "outgoing", "insert"} => row[Rev(pair[c])] # "pending"
           /\ to \in {"outgoing", "insert"} => ~Accepted(pair[c])
           /\ to = "insert" => row[pair[c]] # "pending"
  PROVE  IInv'
<1>1. /\ pc' \in
          [Calls -> {"idle", "blocked", "reciprocal", "autoaccept", "accepted", "outgoing", "insert"}]
      /\ pc'[c] = to /\ \A d \in Calls : d # c => pc'[d] = pc[d]
  BY DEF Go, IInv, TypeOK
<1>2. TypeOK' BY <1>1 DEF IInv, TypeOK
<1>3. Consent' /\ CrossedKnown' /\ PendingAsked'
  BY DEF IInv, Consent, CrossedKnown, TwoRows, PendingAsked
<1>4. BlockRespected'
  <2>1. SUFFICES ASSUME NEW d \in walled PROVE pc'[d] \in {"idle", "blocked"}
    BY DEF BlockRespected
  <2>2. d \in Calls BY DEF IInv, TypeOK
  <2>3. QED BY <1>1, <2>2 DEF IInv, BlockRespected
<1>5. WalledBlocked' BY DEF IInv, WalledBlocked, BlockedPairs
<1>6. CountsHold'
  <2>1. SUFFICES ASSUME NEW d \in Calls, d \notin disturbed'
                 PROVE  /\ pc'[d] \in {"accepted", "outgoing", "insert"}
                              => row[Rev(pair[d])] # "pending"
                        /\ pc'[d] \in {"outgoing", "insert"} => ~Accepted(pair[d])
                        /\ pc'[d] = "insert" => row[pair[d]] # "pending"
    BY DEF CountsHold, Accepted
  <2>2. CASE d = c BY <2>1, <2>2, <1>1
  <2>3. CASE d # c BY <2>1, <2>3, <1>1 DEF IInv, CountsHold
  <2>4. QED BY <2>2, <2>3
<1>7. QED BY <1>2, <1>3, <1>4, <1>5, <1>6 DEF IInv

----------------------------------------------------------------------------
LEMMA RequestKeeps ==
  ASSUME IInv, NEW c \in Calls, NEW p \in Requests, SendRequest(c, p) PROVE IInv'
<1>1. p \in Pairs BY DEF Requests, Pairs
<1>2. /\ pair' = [pair EXCEPT ![c] = p] /\ pc' = [pc EXCEPT ![c] = "blocked"]
      /\ disturbed' = disturbed \ {c}
      /\ walled' = IF BlockedPairs(p) # {} THEN walled \cup {c} ELSE walled \ {c}
      /\ UNCHANGED <<row, blocked, asked, crossed>>
  BY DEF SendRequest, Go
<1>3. TypeOK' BY <1>1, <1>2 DEF IInv, TypeOK
<1>4. Consent' /\ CrossedKnown' /\ PendingAsked'
  BY <1>2 DEF IInv, Consent, CrossedKnown, TwoRows, PendingAsked
<1>5. BlockRespected' BY <1>2 DEF IInv, BlockRespected, TypeOK
<1>6. WalledBlocked'
  <2>1. SUFFICES ASSUME NEW d \in walled' PROVE Both(pair'[d]) \cap blocked # {}
    BY <1>2 DEF WalledBlocked, BlockedPairs
  <2>2. d \in Calls BY <1>2, <2>1 DEF IInv, TypeOK
  <2>3. CASE d = c BY <1>2, <2>1, <2>3 DEF BlockedPairs, IInv, TypeOK
  <2>4. CASE d # c
    <3>1. d \in walled /\ pair'[d] = pair[d] BY <1>2, <2>1, <2>2, <2>4 DEF IInv, TypeOK
    <3>2. QED BY <3>1 DEF IInv, WalledBlocked, BlockedPairs
  <2>5. QED BY <2>3, <2>4
<1>7. CountsHold' BY <1>2 DEF IInv, CountsHold, Accepted, TypeOK
<1>8. QED BY <1>3, <1>4, <1>5, <1>6, <1>7 DEF IInv

LEMMA CallKeeps == ASSUME IInv, NEW c \in Calls, Step(c) PROVE IInv'
<1>0. pair[c] \in Pairs /\ Rev(pair[c]) \in Pairs BY PairFacts DEF IInv, TypeOK
<1>1. CASE CheckBlocked(c)
  <2>1. c \in walled => BlockSeen(c) BY DEF IInv, WalledBlocked, BlockSeen
  <2>2. PICK to \in {"idle", "reciprocal"} : Go(c, to) /\ (c \in walled => to = "idle")
    BY <1>1, <2>1 DEF CheckBlocked
  <2>3. UNCHANGED <<row, blocked, pair, asked, crossed, walled, disturbed>>
    BY <1>1 DEF CheckBlocked, NoChange, history
  <2>4. QED BY <2>2, <2>3, ReadKeeps DEF IInv, TypeOK
<1>2. CASE CountReciprocal(c)
  <2>1. c \notin walled BY <1>2 DEF IInv, BlockRespected, CountReciprocal
  <2>2. UNCHANGED <<row, blocked, pair, asked, crossed, walled, disturbed>>
    BY <1>2 DEF CountReciprocal, NoChange, history
  <2>3. CASE row[Rev(pair[c])] = "pending"
    <3>1. Go(c, "autoaccept") BY <1>2, <2>3 DEF CountReciprocal
    <3>2. QED BY <2>1, <2>2, <3>1, ReadKeeps DEF IInv, TypeOK
  <2>4. CASE row[Rev(pair[c])] # "pending"
    <3>1. Go(c, "accepted") BY <1>2, <2>4 DEF CountReciprocal
    <3>2. QED BY <2>1, <2>2, <2>4, <3>1, ReadKeeps DEF IInv, TypeOK
  <2>5. QED BY <2>3, <2>4
<1>3. CASE AutoAccept(c)
  <2>1. Go(c, "idle") /\ UNCHANGED <<blocked, pair, walled>> BY <1>3 DEF AutoAccept
  <2>2. CASE StillPending(Rev(pair[c]))
    <3>1. SetRow(Rev(pair[c]), "accepted", {c}, asked \cup {pair[c]})
      BY <1>3, <2>2 DEF AutoAccept
    <3>2. Rev(pair[c]) \notin crossed => Both(Rev(pair[c])) \subseteq asked \cup {pair[c]}
      <4>1. Both(Rev(pair[c])) = {Rev(pair[c]), pair[c]} BY <1>0, PairFacts DEF Both
      <4>2. QED BY <4>1, <1>0, <2>2 DEF StillPending, IInv, PendingAsked
    <3>3. asked \cup {pair[c]} \in SUBSET Pairs BY <1>0 DEF IInv, TypeOK
    <3>4. /\ pc' \in
              [Calls -> {"idle", "blocked", "reciprocal", "autoaccept", "accepted", "outgoing", "insert"}]
          /\ \A d \in Calls \ {c} : pc'[d] = pc[d]
          /\ pc'[c] = "idle"
      BY <2>1 DEF Go, IInv, TypeOK
    <3>5. Justified(Rev(pair[c]), "accepted", asked \cup {pair[c]})
      BY <3>2, <3>3 DEF Justified
    <3>6. QED BY <1>0, <2>1, <3>1, <3>4, <3>5, SetRowKeeps
  <2>3. CASE ~StillPending(Rev(pair[c]))
    <3>1. UNCHANGED <<row, asked, crossed, disturbed>> BY <1>3, <2>3 DEF AutoAccept
    <3>2. QED BY <2>1, <3>1, ReadKeeps DEF IInv, TypeOK
  <2>4. QED BY <2>2, <2>3
<1>4. CASE CountAccepted(c)
  <2>1. c \notin walled BY <1>4 DEF IInv, BlockRespected, CountAccepted
  <2>2. UNCHANGED <<row, blocked, pair, asked, crossed, walled>> BY <1>4 DEF CountAccepted
  <2>3. PICK to \in {"idle", "outgoing"} :
          /\ Go(c, to) /\ disturbed \subseteq disturbed' /\ disturbed' \subseteq Calls
          /\ c \notin disturbed' /\ to = "outgoing" => ~Accepted(pair[c])
    BY <1>4 DEF CountAccepted, CountOf, IInv, TypeOK
  <2>4. c \notin disturbed' => row[Rev(pair[c])] # "pending"
    BY <1>4, <2>3 DEF CountAccepted, IInv, CountsHold
  <2>5. QED BY <2>1, <2>2, <2>3, <2>4, ReadKeeps
<1>5. CASE CountOutgoing(c)
  <2>1. c \notin walled BY <1>5 DEF IInv, BlockRespected, CountOutgoing
  <2>2. UNCHANGED <<row, blocked, pair, asked, crossed, walled>> BY <1>5 DEF CountOutgoing
  <2>3. PICK to \in {"idle", "insert"} :
          /\ Go(c, to) /\ disturbed \subseteq disturbed' /\ disturbed' \subseteq Calls
          /\ c \notin disturbed' /\ to = "insert" => row[pair[c]] # "pending"
    BY <1>5 DEF CountOutgoing, CountOf, IInv, TypeOK
  <2>4. c \notin disturbed' => row[Rev(pair[c])] # "pending" /\ ~Accepted(pair[c])
    BY <1>5, <2>3 DEF CountOutgoing, IInv, CountsHold
  <2>5. QED BY <2>1, <2>2, <2>3, <2>4, ReadKeeps
<1>6. CASE Insert(c)
  <2>1. Go(c, "idle") /\ UNCHANGED <<blocked, pair, walled>> BY <1>6 DEF Insert
  <2>2. CASE row[pair[c]] = "none"
    <3>1. SetRow(pair[c], "pending", {c}, asked \cup {pair[c]}) BY <1>6, <2>2 DEF Insert
    <3>2. asked \cup {pair[c]} \in SUBSET Pairs BY <1>0 DEF IInv, TypeOK
    <3>3. /\ pc' \in
              [Calls -> {"idle", "blocked", "reciprocal", "autoaccept", "accepted", "outgoing", "insert"}]
          /\ \A d \in Calls \ {c} : pc'[d] = pc[d]
          /\ pc'[c] = "idle"
      BY <2>1 DEF Go, IInv, TypeOK
    <3>4. Justified(pair[c], "pending", asked \cup {pair[c]}) BY <3>2 DEF Justified
    <3>5. QED BY <1>0, <2>1, <3>1, <3>3, <3>4, SetRowKeeps
  <2>3. CASE row[pair[c]] # "none"
    <3>1. UNCHANGED <<row, asked, crossed, disturbed>> BY <1>6, <2>3 DEF Insert
    <3>2. QED BY <2>1, <3>1, ReadKeeps DEF IInv, TypeOK
  <2>4. QED BY <2>2, <2>3
<1>7. CASE Fail(c)
  <2>1. UNCHANGED <<row, blocked, pair, asked, crossed, walled, disturbed>>
    BY <1>7 DEF Fail, NoChange, history
  <2>2. Go(c, "idle") BY <1>7 DEF Fail
  <2>3. QED BY <2>1, <2>2, ReadKeeps DEF IInv, TypeOK
<1>8. QED BY <1>1, <1>2, <1>3, <1>4, <1>5, <1>6, <1>7 DEF Step

(* A statement of no SendRequest, on a pending row. *)
LEMMA AnswerKeeps ==
  ASSUME IInv, NEW p \in Pairs, NEW status, NEW as,
         SetRow(p, status, {}, as), UNCHANGED <<blocked, pc, pair, walled>>,
         Justified(p, status, as)
  PROVE  IInv'
<1>1. UNCHANGED <<pair, blocked, walled>> OBVIOUS
<1>2. pc' \in
        [Calls -> {"idle", "blocked", "reciprocal", "autoaccept", "accepted", "outgoing", "insert"}]
  BY DEF IInv, TypeOK
<1>3. /\ \A d \in Calls \ {} : pc'[d] = pc[d]
      /\ \A d \in {} : pc'[d] = "idle"
  OBVIOUS
<1>4. {} \in SUBSET Calls OBVIOUS
<1>5. QED BY <1>1, <1>2, <1>3, <1>4, SetRowKeeps

LEMMA RemoveKeeps == ASSUME IInv, NEW p \in Pairs, Remove(p) PROVE IInv'
<1>1. /\ row' = [q \in Pairs |-> IF q \in Both(p) /\ row[q] = "accepted" THEN "none" ELSE row[q]]
      /\ asked' = asked \ Both(p)
      /\ disturbed' = disturbed \cup {d \in Calls : Running(d) /\ pair[d] \in Both(p)}
      /\ UNCHANGED <<blocked, pc, pair, crossed, walled>>
  BY DEF Remove
<1>2. TypeOK' BY <1>1 DEF IInv, TypeOK
<1>3. \A q \in Pairs : row'[q] # "none" => row'[q] = row[q] BY <1>1
<1>4. CrossedKnown' BY <1>1, <1>3, PairFacts DEF IInv, CrossedKnown, TwoRows
<1>5. Consent'
  <2>1. SUFFICES ASSUME NEW q \in Pairs, row'[q] = "accepted", q \notin crossed
                 PROVE  Both(q) \subseteq asked \ Both(p)
    BY <1>1 DEF Consent
  <2>2. q \notin Both(p) /\ row[q] = "accepted" BY <1>1, <2>1
  <2>3. Both(q) \cap Both(p) = {} BY <2>2, PairFacts
  <2>4. QED BY <2>1, <2>2, <2>3 DEF IInv, Consent
<1>6. PendingAsked'
  <2>1. SUFFICES ASSUME NEW q \in Pairs, row'[q] = "pending", q \notin crossed
                 PROVE  q \in asked \ Both(p)
    BY <1>1 DEF PendingAsked
  <2>2. row[q] = "pending" BY <1>3, <2>1
  <2>3. q \notin Both(p)
    <3>1. SUFFICES ASSUME q \in Both(p) PROVE FALSE OBVIOUS
    <3>2. row[Rev(q)] = "accepted"
      <4>1. PICK r \in Both(p) : row[r] = "accepted" BY DEF Remove, Accepted
      <4>2. r # q BY <4>1, <2>2
      <4>3. r = Rev(q) BY <3>1, <4>1, <4>2, PairFacts
      <4>4. QED BY <4>1, <4>3
    <3>3. TwoRows(q) BY <2>2, <3>2 DEF TwoRows
    <3>4. QED BY <3>3, <2>1 DEF IInv, CrossedKnown
  <2>4. QED BY <2>1, <2>2, <2>3 DEF IInv, PendingAsked
<1>7. BlockRespected' BY <1>1 DEF IInv, BlockRespected
<1>8. WalledBlocked' BY <1>1 DEF IInv, WalledBlocked, BlockedPairs
<1>9. CountsHold'
  <2>1. \A q \in Pairs : q \notin Both(p) => row'[q] = row[q] BY <1>1
  <2>2. disturbed' = disturbed \cup {d \in Calls \ {} : Running(d) /\ pair[d] \in Both(p)}
    BY <1>1
  <2>3. \A d \in Calls \ {} : pc'[d] = pc[d] BY <1>1
  <2>4. \A d \in {} : pc'[d] = "idle" OBVIOUS
  <2>5. {} \in SUBSET Calls /\ UNCHANGED pair BY <1>1
  <2>6. QED BY <2>1, <2>2, <2>3, <2>4, <2>5, RowChangeKeepsCounts
<1>10. QED BY <1>2, <1>4, <1>5, <1>6, <1>7, <1>8, <1>9 DEF IInv

LEMMA PairKeeps ==
  ASSUME IInv, NEW p \in Pairs,
         Accept(p) \/ Decline(p) \/ CancelOutgoing(p) \/ Remove(p) \/ Block(p) \/ Unblock(p)
  PROVE  IInv'
<1>1. CASE Accept(p)
  <2>1. row[p] = "pending" /\ SetRow(p, "accepted", {}, asked \cup {Rev(p)})
    BY <1>1 DEF Accept
  <2>2. Justified(p, "accepted", asked \cup {Rev(p)})
    <3>1. p \notin crossed => Both(p) \subseteq asked \cup {Rev(p)}
      BY <2>1, PairFacts DEF IInv, PendingAsked, Both
    <3>2. QED BY <3>1, PairFacts DEF Justified, IInv, TypeOK
  <2>3. UNCHANGED <<blocked, pc, pair, walled>> BY <1>1 DEF Accept
  <2>4. QED BY <2>1, <2>2, <2>3, AnswerKeeps
<1>2. CASE Decline(p) \/ CancelOutgoing(p)
  <2>1. /\ row[p] = "pending" /\ SetRow(p, "none", {}, asked \ {p})
        /\ UNCHANGED <<blocked, pc, pair, walled>>
    BY <1>2 DEF Decline, CancelOutgoing
  <2>2. Justified(p, "none", asked \ {p})
    <3>1. CASE p \in asked
      <4>1. asked \ (asked \ {p}) = {p} BY <3>1
      <4>2. QED BY <4>1, <2>1 DEF Justified, IInv, TypeOK
    <3>2. CASE p \notin asked BY <3>2 DEF Justified, IInv, TypeOK
    <3>3. QED BY <3>1, <3>2
  <2>3. QED BY <2>1, <2>2, AnswerKeeps
<1>3. CASE Block(p)
  <2>1. blocked' = blocked \cup {p}
      /\ UNCHANGED <<row, pc, pair, asked, crossed, disturbed, walled>>
    BY <1>3 DEF Block, history
  <2>2. QED BY <2>1 DEF IInv, TypeOK, Consent, BlockRespected, CrossedKnown, TwoRows, PendingAsked,
                       WalledBlocked, BlockedPairs, CountsHold, Accepted
<1>4. CASE Unblock(p)
  <2>1. /\ blocked' = blocked \ {p}
        /\ walled' = {c \in walled : Both(pair[c]) \cap blocked' # {}}
        /\ UNCHANGED <<row, pc, pair, asked, crossed, disturbed>>
    BY <1>4 DEF Unblock
  <2>2. QED BY <2>1 DEF IInv, TypeOK, Consent, BlockRespected, CrossedKnown, TwoRows, PendingAsked,
                       WalledBlocked, BlockedPairs, CountsHold, Accepted
<1>5. QED BY <1>1, <1>2, <1>3, <1>4, RemoveKeeps

LEMMA StepKeeps == ASSUME IInv, [Next]_vars PROVE IInv'
<1>1. CASE UNCHANGED vars
  BY <1>1 DEF vars, history, IInv, TypeOK, Consent, BlockRespected, CrossedKnown, TwoRows,
              PendingAsked, WalledBlocked, BlockedPairs, CountsHold, Accepted
<1>2. QED BY <1>1, RequestKeeps, CallKeeps, PairKeeps DEF Next

(* A SendRequest that nobody disturbed inserts where no row of the pair is. *)
LEMMA SecondRowStep ==
  ASSUME IInv, [Next]_vars, NEW p \in Pairs, ~TwoRows(p), TwoRows(p)'
  PROVE  \E c \in Calls : pc[c] = "insert" /\ pair[c] \in Both(p) /\ c \in disturbed
<1>1. Rev(p) \in Pairs BY PairFacts
<1>2. PICK q \in Both(p) : row[q] = "none" /\ row'[q] # "none" /\ row'[Rev(q)] # "none"
  BY <1>1, PairFacts DEF TwoRows, Both
<1>3. q \in Pairs /\ Both(q) = Both(p) BY PairFacts
<1>4. ASSUME NEW c \in Calls, Step(c)
      PROVE  \E d \in Calls : pc[d] = "insert" /\ pair[d] \in Both(p) /\ d \in disturbed
  <2>1. pair[c] \in Pairs /\ Rev(pair[c]) \in Pairs BY PairFacts DEF IInv, TypeOK
  <2>2. CASE Insert(c)
    <3>1. row' = [row EXCEPT ![pair[c]] = "pending"] \/ row' = row
      BY <2>2 DEF Insert, SetRow
    <3>2. q = pair[c] BY <1>2, <1>3, <2>1, <3>1 DEF IInv, TypeOK
    <3>3. row'[Rev(q)] = row[Rev(q)] BY <1>3, <3>1, <3>2, PairFacts DEF IInv, TypeOK
    <3>4. row[Rev(q)] \in {"pending", "accepted"}
      BY <1>2, <1>3, <3>3, PairFacts DEF IInv, TypeOK
    <3>5. pc[c] = "insert" BY <2>2 DEF Insert
    <3>6. c \in disturbed
      <4>1. SUFFICES ASSUME c \notin disturbed PROVE FALSE OBVIOUS
      <4>2. row[Rev(pair[c])] # "pending" /\ ~Accepted(pair[c])
        BY <4>1, <3>5 DEF IInv, CountsHold
      <4>3. row[Rev(pair[c])] # "accepted" BY <4>2, <2>1, PairFacts DEF Accepted
      <4>4. QED BY <4>2, <4>3, <3>2, <3>4
    <3>7. QED BY <3>2, <3>5, <3>6
  <2>3. CASE AutoAccept(c)
    <3>1. \/ row' = row
          \/ row' = [row EXCEPT ![Rev(pair[c])] = "accepted"] /\ row[Rev(pair[c])] = "pending"
      BY <2>3 DEF AutoAccept, SetRow, StillPending
    <3>2. row'[q] = row[q] \/ row[q] = "pending" BY <3>1, <1>3, <2>1 DEF IInv, TypeOK
    <3>3. QED BY <3>2, <1>2
  <2>4. CASE UNCHANGED row BY <2>4, <1>2
  <2>5. QED
    BY <1>4, <2>2, <2>3, <2>4
    DEF Step, CheckBlocked, CountReciprocal, CountAccepted, CountOutgoing, Fail, NoChange
<1>5. ASSUME NEW r \in Pairs, Accept(r) PROVE row'[q] = row[q] \/ row[q] = "pending"
  BY <1>3, <1>5 DEF Accept, SetRow, IInv, TypeOK
<1>6. ASSUME NEW r \in Pairs, Decline(r) \/ CancelOutgoing(r)
      PROVE  row'[q] = row[q] \/ row'[q] = "none"
  BY <1>3, <1>6 DEF Decline, CancelOutgoing, SetRow, IInv, TypeOK
<1>7. ASSUME NEW r \in Pairs, Remove(r) PROVE row'[q] = row[q] \/ row'[q] = "none"
  BY <1>3, <1>7 DEF Remove
<1>8. ASSUME NEW c \in Calls, NEW r \in Requests, SendRequest(c, r) PROVE UNCHANGED row
  BY <1>8 DEF SendRequest
<1>9. ASSUME NEW r \in Pairs, Block(r) \/ Unblock(r) PROVE UNCHANGED row
  BY <1>9 DEF Block, Unblock
<1>10. CASE UNCHANGED vars BY <1>10, <1>2 DEF vars
<1>11. QED BY <1>2, <1>4, <1>5, <1>6, <1>7, <1>8, <1>9, <1>10 DEF Next

(* The strengthened invariant holds throughout. *)
THEOREM FriendsInvariant == Spec => []IInv
<1>1. Init => IInv BY InitHolds
<1>2. IInv /\ [Next]_vars => IInv' BY StepKeeps
<1>3. QED BY <1>1, <1>2, PTL DEF Spec

(* The tables and the calls keep their types. *)
THEOREM FriendsTypes == Spec => []TypeOK
<1>1. IInv => TypeOK BY DEF IInv
<1>2. QED BY <1>1, FriendsInvariant, PTL

(* Nobody has a friend that did not ask for or accept it, but for pairs that had two rows. *)
THEOREM FriendsConsent == Spec => []Consent
<1>1. IInv => Consent BY DEF IInv
<1>2. QED BY <1>1, FriendsInvariant, PTL

(* No request gets past a block that was there from its start. *)
THEOREM BlocksAreRespected == Spec => []BlockRespected
<1>1. IInv => BlockRespected BY DEF IInv
<1>2. QED BY <1>1, FriendsInvariant, PTL

(* A pair gets a second row only by a SendRequest that was disturbed, or missed a count. *)
THEOREM OnlyRacesCross == Spec => SecondRowRaced
<1>1. IInv /\ [Next]_vars =>
        [\A p \in Pairs : ~TwoRows(p) /\ TwoRows(p)' =>
           \E c \in Calls : pc[c] = "insert" /\ pair[c] \in Both(p) /\ c \in disturbed]_vars
  BY SecondRowStep
<1>2. QED BY <1>1, FriendsInvariant, PTL DEF Spec, SecondRowRaced

(* Friends have both agreed, and only crossing requests leave two rows. *)
THEOREM FriendsAgreed == Spec => AgreedByBoth
BY FriendsConsent, OnlyRacesCross DEF AgreedByBoth

-----------------------------------------------------------------------------
(* The section of the settings: what its loads have read is what the server has, unless one of *)
(* the reasons is noted.                                                                       *)
PanelLoads ==
  [n : Nat, op : P!Operations \cup {None}, on : Contacts \cup {None},
   got : [P!Lists -> (SUBSET Contacts) \cup {None}]]
PanelTypes ==
  /\ panelRow \in [Contacts -> P!Lists \cup {None}] /\ shown \in [P!Lists -> SUBSET Contacts]
  /\ loads \subseteq PanelLoads /\ {clicks, others} \subseteq Nat
  /\ \A l \in loads : /\ l.op = None => l.on = None
                      /\ l.on # None => l.got = P!Unread
Doubted == panelOdd \cap {"others", "overlap", "failed"} # {}
AllShown == \A k \in P!Lists : shown[k] = P!Of(k)
(* One load, of what is there, and before its operation is served nothing has changed. *)
LoadsCurrent ==
  ~Doubted =>
    /\ \A l1, l2 \in loads : l1 = l2
    /\ \A l \in loads : \A k \in P!Lists : l.got[k] \in {None, P!Of(k)}
    /\ open /\ (\A l \in loads : l.on # None) => AllShown
HitsCurrent ==
  "late" \notin panelOdd /\ hits \notin {0, query}
    => query # 0 /\ (timer \/ query \in asking \/ ~open)
PanelInv == PanelTypes /\ LoadsCurrent /\ HitsCurrent

LEMMA PanelNames == None \notin Contacts /\ None \notin P!Operations
BY PanelAssumption DEF P!FriendsPanelConstants

LEMMA PanelInit == ASSUME P!Init PROVE PanelInv
BY DEF P!Init, PanelInv, PanelTypes, LoadsCurrent, HitsCurrent, AllShown, Doubted, P!Empty, P!Lists

(* A new load: it has read nothing, and is the only one or noted. *)
LEMMA PanelBegins ==
  ASSUME PanelInv, NEW op \in P!Operations \cup {None}, NEW u \in Contacts \cup {None},
         op = None <=> u = None, P!Begin(P!Load(op, u, clicks)), clicks' = clicks + 1,
         open' = TRUE, op # None => open,
         UNCHANGED <<panelRow, shown, others>>
  PROVE  PanelTypes' /\ LoadsCurrent'
<1> DEFINE l == P!Load(op, u, clicks)
<1>1. clicks \in Nat BY DEF PanelInv, PanelTypes
<1>2. l \in PanelLoads /\ l.op = op /\ l.on = u /\ l.got = P!Unread
      /\ \A k \in P!Lists : l.got[k] = None
  BY <1>1 DEF P!Load, PanelLoads, P!Unread
<1>3. loads' = loads \cup {l}
      /\ panelOdd' = IF loads = {} /\ op = None THEN panelOdd \cap {"late"}
                     ELSE panelOdd \cup IF loads = {} THEN {} ELSE {"overlap"}
  BY DEF P!Begin, P!Load
<1> HIDE DEF l
<1>4. PanelTypes' BY <1>1, <1>2, <1>3 DEF PanelInv, PanelTypes
<1>5. LoadsCurrent'
  <2>1. SUFFICES ASSUME ~Doubted' PROVE loads = {} /\ (open' /\ op # None => AllShown')
    BY <1>2, <1>3 DEF LoadsCurrent
  <2>2. loads = {} BY <1>3, <2>1 DEF Doubted
  <2>3. ASSUME op # None PROVE AllShown'
    <3>1. ~Doubted BY <1>3, <2>1, <2>2, <2>3 DEF Doubted
    <3>2. AllShown BY <2>2, <2>3, <3>1 DEF PanelInv, LoadsCurrent
    <3>3. QED BY <3>2 DEF AllShown, P!Of
  <2>4. QED BY <2>2, <2>3
<1>6. QED BY <1>4, <1>5

LEMMA PanelServes == ASSUME PanelInv, NEW l \in loads, P!Serve(l) PROVE PanelInv'
<1>1. l.op # None /\ l.on # None /\ l.on \in Contacts /\ l \in PanelLoads /\ l.got = P!Unread
  BY DEF P!Serve, PanelInv, PanelTypes, PanelLoads
<1>2. HitsCurrent' BY DEF P!Serve, P!search, PanelInv, HitsCurrent
<1>3. CASE loads' = loads \ {l} /\ UNCHANGED <<panelRow, panelOdd>>
  <2>1. PanelTypes' BY <1>3 DEF P!Serve, PanelInv, PanelTypes
  <2>2. LoadsCurrent'
    BY <1>1, <1>3 DEF P!Serve, PanelInv, LoadsCurrent, Doubted, AllShown, P!Of
  <2>3. QED BY <1>2, <2>1, <2>2 DEF PanelInv
<1>4. ASSUME NEW to \in P!Becomes(l.op, panelRow[l.on]),
             panelRow' = [panelRow EXCEPT ![l.on] = to], P!With(l, [l EXCEPT !.on = None]),
             panelOdd' = IF loads = {l} THEN panelOdd \cap {"late"} ELSE panelOdd
      PROVE  PanelInv'
  <2> DEFINE m == [l EXCEPT !.on = None]
  <2>1. m \in PanelLoads /\ m.op = l.op /\ m.on = None /\ m.got = P!Unread
        /\ \A k \in P!Lists : m.got[k] = None
    BY <1>1 DEF PanelLoads, P!Unread
  <2>2. loads' = (loads \ {l}) \cup {m} BY <1>4 DEF P!With
  <2> HIDE DEF m
  <2>3. to \in P!Lists \cup {None}
    BY <1>4 DEF P!Becomes, P!Lists
  <2>4. PanelTypes' BY <1>1, <1>4, <2>1, <2>2, <2>3 DEF P!Serve, PanelInv, PanelTypes
  <2>5. LoadsCurrent'
    <3>1. CASE loads = {l} BY <2>1, <2>2, <3>1 DEF LoadsCurrent
    <3>2. CASE loads # {l} BY <1>4, <3>2 DEF PanelInv, LoadsCurrent, Doubted
    <3>3. QED BY <3>1, <3>2
  <2>6. QED BY <1>2, <2>4, <2>5 DEF PanelInv
<1>5. QED BY <1>3, <1>4 DEF P!Serve

LEMMA PanelReads ==
  ASSUME PanelInv, NEW l \in loads, NEW k \in P!Lists, P!Read(l, k) PROVE PanelInv'
<1> DEFINE m == [l EXCEPT !.got[k] = P!Of(k)]
<1>1. l \in PanelLoads /\ l.on = None BY DEF P!Read, PanelInv, PanelTypes
<1>2. m \in PanelLoads /\ m.op = l.op /\ m.on = None
      /\ \A j \in P!Lists : m.got[j] = IF j = k THEN P!Of(k) ELSE l.got[j]
  <2>1. P!Of(k) \in SUBSET Contacts BY DEF P!Of
  <2>2. QED BY <1>1, <2>1 DEF PanelLoads
<1>3. loads' = (loads \ {l}) \cup {m} BY DEF P!Read, P!With
<1> HIDE DEF m
<1>4. PanelTypes' BY <1>2, <1>3 DEF P!Read, PanelInv, PanelTypes
<1>5. LoadsCurrent'
  <2>1. \A j \in P!Lists : P!Of(j)' = P!Of(j) BY DEF P!Read, P!Of
  <2>2. (~Doubted)' => ~Doubted BY DEF P!Read, Doubted
  <2>3. AllShown' <=> AllShown BY <2>1 DEF P!Read, AllShown
  <2>4. QED BY <1>1, <1>2, <1>3, <2>1, <2>2, <2>3 DEF P!Read, PanelInv, LoadsCurrent
<1>6. HitsCurrent' BY DEF P!Read, P!search, PanelInv, HitsCurrent
<1>7. QED BY <1>4, <1>5, <1>6 DEF PanelInv

LEMMA PanelLoaded == ASSUME PanelInv, NEW l \in loads, P!Loaded(l) PROVE PanelInv'
<1>1. l \in PanelLoads /\ \A k \in P!Lists : l.got[k] # None
  BY DEF P!Loaded, PanelInv, PanelTypes
<1>2. loads' = loads \ {l} /\ shown' = l.got /\ panelOdd' = panelOdd
  BY DEF P!Loaded, P!Applied
<1>3. PanelTypes' BY <1>1, <1>2 DEF P!Loaded, PanelInv, PanelTypes, PanelLoads
<1>4. LoadsCurrent'
  BY <1>1, <1>2 DEF P!Loaded, PanelInv, LoadsCurrent, Doubted, AllShown, P!Of
<1>5. HitsCurrent' BY DEF P!Loaded, P!search, PanelInv, HitsCurrent
<1>6. QED BY <1>3, <1>4, <1>5 DEF PanelInv

LEMMA PanelOthers ==
  ASSUME PanelInv,
         P!LeaveSection \/ (\E u \in Contacts : P!Other(u)) \/ \E l \in loads : P!LoadFails(l)
  PROVE  PanelInv'
<1>1. CASE P!LeaveSection
  <2>1. PanelTypes' BY <1>1 DEF P!LeaveSection, PanelInv, PanelTypes
  <2>2. LoadsCurrent'
    BY <1>1 DEF P!LeaveSection, PanelInv, LoadsCurrent, Doubted, P!Of
  <2>3. HitsCurrent' BY <1>1 DEF P!LeaveSection, PanelInv, HitsCurrent
  <2>4. QED BY <2>1, <2>2, <2>3 DEF PanelInv
<1>2. ASSUME NEW u \in Contacts, P!Other(u) PROVE PanelInv'
  <2>1. PanelTypes' BY <1>2 DEF P!Other, P!OtherMay, P!Lists, PanelInv, PanelTypes
  <2>2. LoadsCurrent' BY <1>2 DEF P!Other, LoadsCurrent, Doubted
  <2>3. HitsCurrent' BY <1>2 DEF P!Other, P!search, PanelInv, HitsCurrent
  <2>4. QED BY <2>1, <2>2, <2>3 DEF PanelInv
<1>3. ASSUME NEW l \in loads, P!LoadFails(l) PROVE PanelInv'
  <2>1. PanelTypes' BY <1>3 DEF P!LoadFails, P!Empty, PanelInv, PanelTypes
  <2>2. LoadsCurrent' BY <1>3 DEF P!LoadFails, LoadsCurrent, Doubted
  <2>3. HitsCurrent' BY <1>3 DEF P!LoadFails, P!search, PanelInv, HitsCurrent
  <2>4. QED BY <2>1, <2>2, <2>3 DEF PanelInv
<1>4. QED BY <1>1, <1>2, <1>3

(* The field, its timer and its answers. *)
LEMMA PanelSearches ==
  ASSUME PanelInv, P!Elapse \/ \E q \in 0..MaxTyped : P!Type(q) \/ P!Found(q) PROVE PanelInv'
<1>1. UNCHANGED P!panel /\ panelOdd' \ {"late"} = panelOdd \ {"late"}
  BY DEF P!Elapse, P!Type, P!Found
<1>2. PanelTypes' BY <1>1 DEF PanelInv, PanelTypes, P!panel
<1>3. LoadsCurrent' BY <1>1 DEF PanelInv, LoadsCurrent, Doubted, AllShown, P!panel, P!Of
<1>4. HitsCurrent' BY DEF P!Elapse, P!Type, P!Found, P!panel, PanelInv, HitsCurrent
<1>5. QED BY <1>2, <1>3, <1>4 DEF PanelInv

LEMMA PanelStep == ASSUME PanelInv, P!Next PROVE PanelInv'
<1>1. CASE P!OpenSection
  <2>1. PanelTypes' /\ LoadsCurrent' BY <1>1, PanelBegins DEF P!OpenSection
  <2>2. HitsCurrent'
    BY <1>1 DEF P!OpenSection, P!Begin, P!Load, PanelInv, HitsCurrent
  <2>3. QED BY <2>1, <2>2 DEF PanelInv
<1>2. ASSUME NEW u \in Contacts, NEW op \in P!Operations, P!Click(op, u) PROVE PanelInv'
  <2>1. u # None /\ op # None BY PanelNames
  <2>2. PanelTypes' /\ LoadsCurrent' BY <1>2, <2>1, PanelBegins DEF P!Click
  <2>3. HitsCurrent'
    BY <1>2 DEF P!Click, P!Begin, P!Load, P!search, PanelInv, HitsCurrent
  <2>4. QED BY <2>2, <2>3 DEF PanelInv
<1>3. ASSUME NEW l \in loads, P!Serve(l) \/ P!Loaded(l) \/ \E k \in P!Lists : P!Read(l, k)
      PROVE  PanelInv'
  BY <1>3, PanelServes, PanelReads, PanelLoaded
<1>4. CASE P!LeaveSection \/ (\E u \in Contacts : P!Other(u)) \/ \E l \in loads : P!LoadFails(l)
  BY <1>4, PanelOthers
<1>5. CASE P!Elapse \/ \E q \in 0..MaxTyped : P!Type(q) \/ P!Found(q)
  BY <1>5, PanelSearches
<1>6. QED BY <1>1, <1>2, <1>3, <1>4, <1>5 DEF P!Next

(* What holds of the part that is about the section. *)
PanelPart == only = "panel" => PanelInv

LEMMA PanelAlways == PartsSpec => []PanelPart
<1>1. PartsInit => PanelPart BY PanelInit DEF PartsInit, PanelPart
<1>2. PanelPart /\ [PartsNext]_<<only, vars, panelVars, accountVars, callsVars, mediaVars>>
        => PanelPart'
  <2>1. SUFFICES ASSUME PanelPart, only' = "panel",
                        [PartsNext]_<<only, vars, panelVars, accountVars, callsVars, mediaVars>>
                 PROVE  PanelInv'
    BY DEF PanelPart
  <2>2. only = "panel" /\ (P!Next \/ UNCHANGED panelVars)
    BY <2>1 DEF PartsNext, Only
  <2>3. CASE P!Next BY <2>1, <2>2, <2>3, PanelStep DEF PanelPart
  <2>4. CASE UNCHANGED panelVars
    BY <2>1, <2>2, <2>4
       DEF PanelPart, panelVars, PanelInv, PanelTypes, LoadsCurrent, HitsCurrent, Doubted,
           AllShown, P!Of
  <2>5. QED BY <2>2, <2>3, <2>4
<1>3. QED BY <1>1, <1>2, PTL DEF PartsSpec

(* The section of friends: with nothing under way, an open one shows everybody under what they *)
(* are to the user, unless others acted, two loads crossed or one failed, and the hits are     *)
(* those of the query unless an answer came late (SettingsPanel.tsx, the section "friends").   *)
THEOREM SectionIsCurrent == PartsSpec => []ListsCurrent
<1>1. PanelPart => ListsCurrent
  BY DEF PanelPart, ListsCurrent, P!ListsCurrent, PanelInv, LoadsCurrent, HitsCurrent, Doubted,
         AllShown
<1>2. QED BY <1>1, PanelAlways, PTL

-----------------------------------------------------------------------------
(* Accounts.  The user shown is that of the token, the profile that is saved is the token's    *)
(* own, the last step of the form has a token, the password that is asked for can be checked,  *)
(* and wrong codes are counted: each because of what the requests under way know.              *)
Emailed == {"sendCode", "again", "forgot", "verify", "other", "verify2FA", "reset"}
Signing == {"verify", "verify2FA"}
Saving == {"upload", "put", "get"}
SignedIn == [tok : A!Tokens, user : A!StoredUsers]
Halfway == [tok : {None}, user : A!StoredUsers, temp : A!Tokens]
AccountRequests ==
  [op : Emailed \cup Saving \cup {"me"}, email : Emails \cup {None}, arg : Nat,
   from : A!Steps \cup {None}, for : A!StoredUsers \cup {None}, tok : A!Tokens \cup {None},
   temp : A!Tokens \cup {None}, at : {"sent", "read", "same", "ok", "fail"}, here : BOOLEAN,
   res : {None} \cup A!StoredUsers \cup SignedIn \cup Halfway]

ServerTypes ==
  /\ acct \in [Emails -> {None} \cup A!Accounts] /\ issued \in Nat
  /\ code \in [Emails -> Nat] /\ reset \in [Emails -> Nat]
  /\ tries \in [Emails -> Nat] /\ refused \in [Emails -> Nat] /\ slips \in [Emails -> Nat]
  /\ temps \subseteq A!Tokens /\ signed \subseteq A!Tokens /\ IsFiniteSet(signed)
ClientTypes ==
  /\ token \in A!Tokens \cup {None} /\ held \in A!Tokens \cup {None}
  /\ temp \in A!Tokens \cup {None} /\ user \in A!StoredUsers \cup {None}
  /\ step \in A!Steps \cup {None} /\ email \in Emails \cup {None}

(* What a request is about, and what its answer says. *)
WellAsked(t) ==
  /\ t.op \in Emailed => t.email \in Emails
  /\ t.op \in {"me", "other"} => t.from = None
  /\ t.op = "me" => t.tok # None
  /\ t.at \in {"read", "same"} => t.op \in {"verify", "other"}
WellAnswered(t) ==
  t.at = "ok" =>
    /\ t.op \in Signing => /\ t.res \in SignedIn => t.res.user.email = t.res.tok[1]
                           /\ t.res \in SignedIn \cup (IF t.op = "verify" THEN Halfway ELSE {})
    /\ t.op \in {"get", "me"} =>
         t.tok # None /\ t.res \in A!StoredUsers /\ t.res.email = t.tok[1]
RequestTypes ==
  /\ accountAsked \subseteq AccountRequests
  /\ \A t \in accountAsked : WellAsked(t) /\ WellAnswered(t)

(* A token is of an account that there is. *)
KnownTo(users, tok) == tok # None => users[tok[1]] # None
Known ==
  /\ \A x \in temps : KnownTo(acct, x)
  /\ KnownTo(acct, token) /\ KnownTo(acct, held)
  /\ \A t \in accountAsked : /\ KnownTo(acct, t.tok)
                             /\ t.at = "ok" /\ t.op \in Signing => KnownTo(acct, t.res.tok)

(* AuthScreen waits for one answer at a time; while it waits for that of a code or a password  *)
(* nobody is signed in, and the screen is not at its last step.                                *)
Unsaid == accountOdd \cap {"nameless", "late"} = {}
OneForm ==
  \A t1, t2 \in accountAsked : t1.from # None /\ t1.here /\ t2.from # None /\ t2.here => t1 = t2
OfForm == Emailed \ {"other"}
SigningIn ==
  \A t \in accountAsked :
    /\ t.op \in OfForm => t.from # None /\ (t.here => token = None)
    /\ t.op \in Signing => t.here /\ (Unsaid => step # "profile")
(* The screen of somebody signed in, and the token of the requests. *)
ScreenOfToken ==
  /\ token = None => step # None
  /\ token # None => step \in {None, "profile"} /\ held = token
  /\ A!Screen(token, user) = "main" => step = None
MeOfToken == \A t \in accountAsked : t.op = "me" /\ t.here => t.tok = token
(* OwnProfile, from the picture on. *)
SavesOwn ==
  \A t \in accountAsked : t.op \in {"upload", "put"} /\ t.tok # None /\ t.for # None =>
    t.for.email = t.tok[1] \/ accountOdd \cap {"moved", "late", "nameless"} # {}
(* The last step without a token. *)
LostToken ==
  step = "profile" /\ token = None /\ Unsaid
    => user = None /\ held = None /\ "dropped" \in accountOdd
(* The temporary token of the form. *)
TempLive ==
  /\ /\ temp # None /\ \A t \in accountAsked : t.op # "verify2FA"
     /\ step # "profile" \/ \E t \in accountAsked : t.op \in OfForm /\ t.here
     => temp \in temps \/ accountOdd \cap {"spent", "expired"} # {}
  /\ step = "password" /\ "detour" \notin accountOdd => temp # None
  /\ \A t \in accountAsked : t.op = "verify" /\ t.at = "ok" /\ t.res \in Halfway =>
       t.res.temp \in temps \/ "expired" \in accountOdd
(* The tries refused and the requests that have passed the look at them. *)
Trying(asks, e) == {t \in asks : t.at = "read" /\ t.email = e}
Own(asks) == {t \in asks : t.op # "me"}
TriesCounted ==
  /\ IsFiniteSet(accountAsked) /\ Cardinality(Own(accountAsked)) <= MaxAsked
  /\ \A e \in Emails :
       /\ refused[e] <= tries[e] + slips[e]
       /\ refused[e] + Cardinality(Trying(accountAsked, e))
            < MaxVerifyAttempts + MaxAsked + slips[e]
(* The codes that have signed somebody in, and CodeOnce. *)
Compared(t) == t.at = "same"
SpentOnce ==
  /\ \A e \in Emails : code[e] <= issued
  /\ \A t \in accountAsked : Compared(t) => t.arg <= issued
  /\ used \subseteq Emails \X (0..issued)
  /\ \A e \in Emails : \A c \in Nat \ {0} :
       <<e, c>> \in used \ excused =>
         code[e] # c /\ \A t \in accountAsked : Compared(t) => t.email # e \/ t.arg # c
Tried == TriesCounted /\ SpentOnce

AccountInv ==
  /\ ServerTypes /\ ClientTypes /\ RequestTypes /\ Known
  /\ OneForm /\ SigningIn /\ ScreenOfToken /\ MeOfToken /\ SavesOwn /\ LostToken /\ TempLive
  /\ A!UserOfToken
-----------------------------------------------------------------------------
LEMMA AbsentAccount ==
  /\ None \notin Emails /\ None \notin A!Accounts /\ None \notin A!StoredUsers
  /\ None \notin A!Tokens /\ None \notin A!Steps
BY AccountAssumption DEF A!AccountConstants

LEMMA AccountNumbers == MaxVerifyAttempts \in Nat \ {0} /\ MaxAsked \in Nat
BY AccountAssumption DEF A!AccountConstants

LEMMA AccountCardinality == \A S : A!Cardinality(S) = Cardinality(S)
BY DEF A!Cardinality, Cardinality

LEMMA AccountInit == ASSUME A!Init PROVE AccountInv /\ Tried
<1>1. Cardinality({}) = 0 /\ IsFiniteSet({}) BY FS_EmptySet
<1>2. AccountInv
  BY <1>1, AccountAssumption
     DEF A!Init, A!AccountConstants, A!Steps, A!Accounts, AccountInv, ServerTypes, ClientTypes,
         RequestTypes, Known, KnownTo, OneForm, SigningIn, ScreenOfToken, MeOfToken, SavesOwn,
         LostToken, TempLive, Unsaid, A!UserOfToken, A!Screen
<1>3. Own(accountAsked) = {} /\ \A e \in Emails : Trying(accountAsked, e) = {}
  BY DEF A!Init, Own, Trying
<1>4. accountAsked = {} /\ \A e \in Emails : tries[e] = 0 /\ refused[e] = 0 /\ slips[e] = 0
  BY DEF A!Init
<1>5. TriesCounted BY <1>1, <1>3, <1>4, AccountNumbers DEF TriesCounted
<1>6. SpentOnce BY DEF A!Init, SpentOnce
<1>7. QED BY <1>2, <1>5, <1>6 DEF Tried

(* A request is served: it is the same request, further on. *)
LEMMA Served ==
  ASSUME AccountInv, UNCHANGED <<token, user, held, step, email, temp>>,
         NEW t \in accountAsked, NEW at, NEW res, A!Becomes(t, at, res),
         at \in {"read", "same", "ok", "fail"}, t.at # "ok",
         [t EXCEPT !.at = at, !.res = res] \in AccountRequests,
         WellAsked([t EXCEPT !.at = at, !.res = res]),
         WellAnswered([t EXCEPT !.at = at, !.res = res])
  PROVE  /\ RequestTypes' /\ OneForm' /\ MeOfToken'
         /\ accountOdd' = accountOdd => SigningIn' /\ SavesOwn' /\ LostToken' /\ ScreenOfToken'
<1> DEFINE s == [t EXCEPT !.at = at, !.res = res]
<1>1. t \in AccountRequests BY DEF AccountInv, RequestTypes
<1>2. /\ s.op = t.op /\ s.email = t.email /\ s.from = t.from /\ s.for = t.for /\ s.tok = t.tok
      /\ s.here = t.here /\ s.at = at /\ s.res = res
  BY <1>1 DEF AccountRequests
<1>3. accountAsked' = (accountAsked \ {t}) \cup {s} BY DEF A!Becomes
<1>4. \A x \in accountAsked' : x = s \/ x \in accountAsked BY <1>3
<1> HIDE DEF s
<1>5. RequestTypes' BY <1>4 DEF AccountInv, RequestTypes, WellAsked, WellAnswered, s
<1>6. OneForm' BY <1>2, <1>3 DEF AccountInv, OneForm
<1>7. MeOfToken' BY <1>2, <1>4 DEF AccountInv, MeOfToken
<1>8. ASSUME accountOdd' = accountOdd
      PROVE  SigningIn' /\ SavesOwn' /\ LostToken' /\ ScreenOfToken'
  BY <1>2, <1>4, <1>8
     DEF AccountInv, SigningIn, SavesOwn, LostToken, ScreenOfToken, Unsaid
<1>9. QED BY <1>5, <1>6, <1>7, <1>8

(* What else holds after it, when the server forgets no account and no temporary token. *)
LEMMA ServedKnown ==
  ASSUME AccountInv, UNCHANGED <<token, user, held, step, email, temp, accountOdd>>,
         NEW t \in accountAsked, NEW at, NEW res, A!Becomes(t, at, res),
         at = "ok" /\ t.op \in Signing => KnownTo(acct', res.tok),
         at = "ok" /\ t.op = "verify" /\ res \in Halfway => res.temp \in temps',
         temps \subseteq temps' \/ t.op = "verify2FA",
         \A x \in temps' : KnownTo(acct', x),
         \A e \in Emails : acct[e] # None => acct'[e] # None
  PROVE  Known' /\ TempLive'
<1> DEFINE s == [t EXCEPT !.at = at, !.res = res]
<1>1. t \in AccountRequests BY DEF AccountInv, RequestTypes
<1>2. s.op = t.op /\ s.tok = t.tok /\ s.at = at /\ s.res = res /\ s.from = t.from /\ s.here = t.here
  BY <1>1 DEF AccountRequests
<1>3. accountAsked' = (accountAsked \ {t}) \cup {s} BY DEF A!Becomes
<1> HIDE DEF s
<1>4. Known'
  <2>1. ASSUME NEW tok \in A!Tokens \cup {None}, KnownTo(acct, tok) PROVE KnownTo(acct', tok)
    BY <2>1 DEF KnownTo, A!Tokens
  <2>2. \A x \in accountAsked : x.tok \in A!Tokens \cup {None}
    BY DEF AccountInv, RequestTypes, AccountRequests
  <2>3. \A x \in accountAsked :
          x.at = "ok" /\ x.op \in Signing => x.res.tok \in A!Tokens \cup {None}
    BY DEF AccountInv, RequestTypes, WellAnswered, SignedIn, Halfway
  <2>4. QED
    BY <1>2, <1>3, <2>1, <2>2, <2>3 DEF AccountInv, Known, ClientTypes
<1>5. TempLive'
  <2>1. CASE t.op = "verify2FA"
    <3>1. s \in accountAsked' /\ s.op = "verify2FA" BY <1>2, <1>3, <2>1
    <3>2. \A x \in accountAsked : x.op # "verify"
      BY <2>1 DEF AccountInv, SigningIn, OneForm, Signing, OfForm, Emailed
    <3>3. \A x \in accountAsked' : x.op # "verify" BY <1>2, <1>3, <2>1, <3>2
    <3>4. QED BY <3>1, <3>3 DEF AccountInv, TempLive
  <2>2. CASE temps \subseteq temps' /\ t.op # "verify2FA"
    BY <1>2, <1>3, <2>2 DEF AccountInv, TempLive
  <2>3. QED BY <2>1, <2>2
<1>6. QED BY <1>4, <1>5

LEMMA ServeTyped ==
  ASSUME AccountInv, NEW t \in accountAsked, NEW at \in {"read", "same", "ok", "fail"},
         t.op \in {"verify", "other"} \/ at \in {"ok", "fail"},
         at = "ok" => t.op \notin Signing \cup {"get", "me"}
  PROVE  /\ [t EXCEPT !.at = at, !.res = None] \in AccountRequests
         /\ WellAsked([t EXCEPT !.at = at, !.res = None])
         /\ WellAnswered([t EXCEPT !.at = at, !.res = None])
BY DEF AccountInv, RequestTypes, AccountRequests, WellAsked, WellAnswered

LEMMA CodeStep ==
  ASSUME AccountInv, NEW t \in accountAsked, t.at = "sent",
         UNCHANGED <<token, user, held, step, email, temp>>,
         A!SendCode(t) \/ A!SendPasswordResetCode(t) \/ A!ReadTries(t)
  PROVE  AccountInv'
<1>1. /\ ServerTypes' /\ UNCHANGED <<acct, temps, accountOdd>>
      /\ \E at \in {"read", "ok", "fail"} :
           /\ A!Becomes(t, at, None)
           /\ at = "ok" => t.op \notin Signing \cup {"get", "me"}
           /\ t.op \in {"verify", "other"} \/ at \in {"ok", "fail"}
  <2>1. t.op \in Emailed => t.email \in Emails BY DEF AccountInv, RequestTypes, WellAsked
  <2>2. CASE A!SendCode(t)
    BY <2>1, <2>2 DEF AccountInv, ServerTypes, A!SendCode, A!counts, A!marks, Emailed, Signing
  <2>3. CASE A!SendPasswordResetCode(t)
    BY <2>1, <2>3 DEF AccountInv, ServerTypes, A!SendPasswordResetCode, A!counts, A!marks, Emailed, Signing
  <2>4. CASE A!ReadTries(t)
    BY <2>4 DEF AccountInv, ServerTypes, A!ReadTries, A!Plus, A!marks, Signing
  <2>5. QED BY <2>2, <2>3, <2>4
<1>2. PICK at \in {"read", "ok", "fail"} :
        /\ A!Becomes(t, at, None)
        /\ at = "ok" => t.op \notin Signing \cup {"get", "me"}
        /\ t.op \in {"verify", "other"} \/ at \in {"ok", "fail"}
  BY <1>1
<1>3. RequestTypes' /\ OneForm' /\ MeOfToken' /\ SigningIn' /\ SavesOwn' /\ LostToken'
      /\ ScreenOfToken'
  BY <1>1, <1>2, ServeTyped, Served, Zenon
<1>4. Known' /\ TempLive'
  <2>1. \A x \in temps' : KnownTo(acct', x) BY <1>1 DEF AccountInv, Known, KnownTo
  <2>2. at = "ok" => t.op \notin Signing /\ t.op # "verify" BY <1>2 DEF Signing
  <2>3. QED BY <1>1, <1>2, <2>1, <2>2, ServedKnown
<1>5. QED BY <1>1, <1>3, <1>4 DEF AccountInv, ClientTypes, A!UserOfToken

LEMMA CompareStep ==
  ASSUME AccountInv, NEW t \in accountAsked, UNCHANGED <<token, user, held, step, email, temp>>,
         A!CompareCode(t)
  PROVE  AccountInv'
<1>1. t.op \in {"verify", "other"} /\ t.email \in Emails
  BY DEF AccountInv, RequestTypes, WellAsked, Emailed, A!CompareCode
<1>2. /\ ServerTypes' /\ UNCHANGED <<acct, temps, accountOdd>> /\ t.at # "ok"
      /\ \E at \in {"same", "fail"} : A!Becomes(t, at, None)
  BY <1>1 DEF AccountInv, ServerTypes, A!CompareCode, A!Plus, A!counts, A!marks
<1>3. PICK at \in {"same", "fail"} : A!Becomes(t, at, None) BY <1>2
<1>4. RequestTypes' /\ OneForm' /\ MeOfToken' /\ SigningIn' /\ SavesOwn' /\ LostToken'
      /\ ScreenOfToken'
  <2>1. /\ [t EXCEPT !.at = at, !.res = None] \in AccountRequests
        /\ WellAsked([t EXCEPT !.at = at, !.res = None])
        /\ WellAnswered([t EXCEPT !.at = at, !.res = None])
    BY <1>1, <1>3, ServeTyped
  <2>2. QED BY <1>2, <1>3, <2>1, Served, Zenon
<1>5. Known' /\ TempLive'
  <2>1. \A x \in temps' : KnownTo(acct', x) BY <1>2 DEF AccountInv, Known, KnownTo
  <2>2. QED BY <1>2, <1>3, <2>1, ServedKnown
<1>6. QED BY <1>2, <1>4, <1>5 DEF AccountInv, ClientTypes, A!UserOfToken

(* A code that is right: its counts and it are deleted or not. *)
LEMMA GrantDeletes ==
  ASSUME AccountInv, NEW t \in accountAsked, A!Grant(t)
  PROVE  /\ UNCHANGED <<issued, reset, accountOdd>> /\ code' \in [Emails -> Nat]
         /\ tries' \in [Emails -> Nat] /\ refused' \in [Emails -> Nat]
         /\ slips' \in [Emails -> Nat]
<1>1. /\ code \in [Emails -> Nat] /\ tries \in [Emails -> Nat]
      /\ refused \in [Emails -> Nat] /\ slips \in [Emails -> Nat]
  BY DEF AccountInv, ServerTypes
<1>2. UNCHANGED <<issued, reset, accountOdd>> /\ code' \in [Emails -> Nat]
  BY <1>1 DEF A!Grant, A!CodeDeleted
<1>3. CASE A!TriesDeleted(t.email) BY <1>1, <1>2, <1>3 DEF A!TriesDeleted
<1>4. CASE UNCHANGED A!counts BY <1>1, <1>2, <1>4 DEF A!counts
<1>5. QED BY <1>3, <1>4 DEF A!Grant

LEMMA GrantFails ==
  ASSUME AccountInv, NEW t \in accountAsked, UNCHANGED <<token, user, held, step, email, temp>>,
         A!Grant(t), A!Becomes(t, "fail", None), UNCHANGED <<acct, temps, signed>>
  PROVE  AccountInv'
<1>1. t.op \in {"verify", "other"} /\ t.at # "ok"
  BY DEF AccountInv, RequestTypes, WellAsked, A!Grant
<1>2. ServerTypes' /\ UNCHANGED accountOdd BY GrantDeletes DEF AccountInv, ServerTypes
<1>3. RequestTypes' /\ OneForm' /\ MeOfToken' /\ SigningIn' /\ SavesOwn' /\ LostToken'
      /\ ScreenOfToken'
  BY <1>1, <1>2, ServeTyped, Served
<1>4. Known' /\ TempLive'
  <2>1. \A x \in temps' : KnownTo(acct', x) BY DEF AccountInv, Known
  <2>2. QED BY <1>2, <2>1, ServedKnown
<1>5. QED BY <1>2, <1>3, <1>4 DEF AccountInv, ClientTypes, A!UserOfToken

LEMMA AdmitsStep ==
  ASSUME AccountInv, NEW t \in accountAsked, UNCHANGED <<token, user, held, step, email, temp>>,
         A!Grant(t), A!Admits(t)
  PROVE  AccountInv'
<1>1. t \in AccountRequests /\ t.op \in {"verify", "other"} /\ t.email \in Emails /\ t.arg \in Nat
  BY DEF AccountInv, RequestTypes, AccountRequests, WellAsked, Emailed, A!Grant
<1>2. /\ acct' \in [Emails -> {None} \cup A!Accounts] /\ acct'[t.email] \in A!Accounts
      /\ \A e \in Emails : acct[e] # None => acct'[e] # None
      /\ acct'[t.email] # None
  <2>1. [pw |-> FALSE, named |-> FALSE] \in A!Accounts BY DEF A!Accounts
  <2>2. acct \in [Emails -> {None} \cup A!Accounts] BY DEF AccountInv, ServerTypes
  <2>3. acct' = [acct EXCEPT ![t.email] =
                   IF acct[t.email] = None THEN [pw |-> FALSE, named |-> FALSE] ELSE acct[t.email]]
    BY DEF A!Admits
  <2>4. QED BY <1>1, <2>1, <2>2, <2>3, AbsentAccount
<1>3. A!UserOf(t.email) \in A!StoredUsers /\ A!UserOf(t.email).email = t.email
  BY <1>1, <1>2 DEF A!UserOf, A!StoredUsers, A!Accounts
<1>4. Cardinality(signed) \in Nat BY FS_CardinalityType DEF AccountInv, ServerTypes
<1>5. \E res \in SignedIn \cup Halfway :
        /\ A!Becomes(t, "ok", res)
        /\ res \in SignedIn => res.user.email = res.tok[1] /\ KnownTo(acct', res.tok)
        /\ res \in Halfway => res.temp \in temps' /\ res.tok = None
  <2>1. CASE A!Sign(t, t.email)
    <3>1. <<t.email, Cardinality(signed)>> \in A!Tokens BY <1>1, <1>4 DEF A!Tokens
    <3>2. [tok |-> <<t.email, Cardinality(signed)>>, user |-> A!UserOf(t.email)] \in SignedIn
      BY <1>3, <3>1 DEF SignedIn
    <3>3. [tok |-> <<t.email, Cardinality(signed)>>, user |-> A!UserOf(t.email)] \notin Halfway
      BY DEF Halfway
    <3>4. KnownTo(acct', <<t.email, Cardinality(signed)>>) BY <1>2 DEF KnownTo
    <3> DEFINE ans == [tok |-> <<t.email, Cardinality(signed)>>, user |-> A!UserOf(t.email)]
    <3>6. /\ A!Becomes(t, "ok", ans) /\ ans.tok = <<t.email, Cardinality(signed)>>
          /\ ans.user.email = ans.tok[1]
      BY <1>3, <2>1, AccountCardinality DEF A!Sign
    <3>7. KnownTo(acct', ans.tok) BY <3>4 DEF KnownTo
    <3>8. ans \in SignedIn /\ ans \notin Halfway BY <3>2, <3>3
    <3> HIDE DEF ans
    <3>9. QED BY <3>6, <3>7, <3>8
  <2>2. CASE /\ temps' = temps \cup {<<t.email, t.arg>>}
             /\ A!Becomes(t, "ok", [tok |-> None, user |-> A!UserOf(t.email),
                                     temp |-> <<t.email, t.arg>>])
    BY <1>1, <1>3, <2>2 DEF SignedIn, Halfway, A!Tokens
  <2>3. QED BY <2>1, <2>2 DEF A!Admits
<1>6. ServerTypes' /\ temps \subseteq temps' /\ temps' \subseteq temps \cup {<<t.email, t.arg>>}
  <2>1. <<t.email, Cardinality(signed)>> \in A!Tokens /\ <<t.email, t.arg>> \in A!Tokens
    BY <1>1, <1>4 DEF A!Tokens
  <2>2. IsFiniteSet(signed \cup {<<t.email, Cardinality(signed)>>})
    BY FS_AddElement DEF AccountInv, ServerTypes
  <2>3. signed' \in {signed, signed \cup {<<t.email, Cardinality(signed)>>}}
    BY AccountCardinality DEF A!Admits, A!Sign
  <2>4. temps' \in {temps, temps \cup {<<t.email, t.arg>>}} BY DEF A!Admits
  <2>5. QED BY <1>2, <2>1, <2>2, <2>3, <2>4, GrantDeletes DEF AccountInv, ServerTypes
<1>7. PICK res \in SignedIn \cup Halfway :
        /\ A!Becomes(t, "ok", res)
        /\ res \in SignedIn => res.user.email = res.tok[1] /\ KnownTo(acct', res.tok)
        /\ res \in Halfway => res.temp \in temps' /\ res.tok = None
  BY <1>5
<1>8. /\ [t EXCEPT !.at = "ok", !.res = res] \in AccountRequests
      /\ WellAsked([t EXCEPT !.at = "ok", !.res = res])
      /\ WellAnswered([t EXCEPT !.at = "ok", !.res = res])
  <2>1. [t EXCEPT !.at = "ok", !.res = res] \in AccountRequests BY <1>1 DEF AccountRequests
  <2>2. WellAsked(t) BY DEF AccountInv, RequestTypes
  <2>3. QED BY <1>1, <1>7, <2>1, <2>2 DEF AccountRequests, WellAsked, WellAnswered, Signing
<1>9. accountOdd' = accountOdd /\ t.at # "ok" BY DEF A!Grant
<1>10. RequestTypes' /\ OneForm' /\ MeOfToken' /\ SigningIn' /\ SavesOwn' /\ LostToken'
       /\ ScreenOfToken'
  BY <1>7, <1>8, <1>9, Served
<1>11. Known' /\ TempLive'
  <2>1. \A x \in temps' : KnownTo(acct', x)
    BY <1>1, <1>2, <1>6 DEF AccountInv, ServerTypes, Known, KnownTo, A!Tokens
  <2>2. KnownTo(acct', res.tok) BY <1>7 DEF KnownTo
  <2>3. QED BY <1>2, <1>6, <1>7, <1>9, <2>1, <2>2, ServedKnown
<1>12. QED BY <1>6, <1>9, <1>10, <1>11 DEF AccountInv, ClientTypes, A!UserOfToken

LEMMA GrantStep ==
  ASSUME AccountInv, NEW t \in accountAsked, UNCHANGED <<token, user, held, step, email, temp>>,
         A!Grant(t)
  PROVE  AccountInv'
BY AdmitsStep, GrantFails DEF A!Grant

LEMMA Verify2FAStep ==
  ASSUME AccountInv, NEW t \in accountAsked, UNCHANGED <<token, user, held, step, email, temp>>,
         t.at = "sent", A!Verify2FA(t)
  PROVE  AccountInv'
<1>1. t \in AccountRequests /\ t.op = "verify2FA" /\ UNCHANGED <<acct, accountOdd>>
  BY DEF AccountInv, RequestTypes, A!Verify2FA
<1>2. Cardinality(signed) \in Nat BY FS_CardinalityType DEF AccountInv, ServerTypes
<1>3. ServerTypes' /\ temps' \subseteq temps
  <2>1. ASSUME t.temp \in temps PROVE <<t.temp[1], Cardinality(signed)>> \in A!Tokens
    BY <1>2, <2>1 DEF AccountInv, ServerTypes, A!Tokens
  <2>2. IsFiniteSet(signed \cup {<<t.temp[1], Cardinality(signed)>>})
    BY FS_AddElement DEF AccountInv, ServerTypes
  <2>3. \/ signed' = signed
        \/ t.temp \in temps /\ signed' = signed \cup {<<t.temp[1], Cardinality(signed)>>}
    BY AccountCardinality DEF A!Verify2FA, A!Sign
  <2>4. UNCHANGED <<acct, issued, code, tries, refused, slips, reset>> /\ temps' \subseteq temps
    BY DEF A!Verify2FA, A!counts
  <2>5. QED BY <2>1, <2>2, <2>3, <2>4 DEF AccountInv, ServerTypes
<1>4. \E at \in {"ok", "fail"}, res \in SignedIn \cup {None} :
        /\ A!Becomes(t, at, res)
        /\ at = "ok" => res \in SignedIn /\ res.user.email = res.tok[1] /\ KnownTo(acct', res.tok)
  <2>1. CASE A!Becomes(t, "fail", None) BY <2>1
  <2>2. CASE t.temp \in temps /\ A!Sign(t, t.temp[1])
    <3>1. t.temp[1] \in Emails /\ acct[t.temp[1]] \in A!Accounts
      BY <2>2, AccountAssumption
         DEF AccountInv, ServerTypes, Known, KnownTo, A!Tokens, A!AccountConstants
    <3>2. /\ A!UserOf(t.temp[1]) \in A!StoredUsers /\ A!UserOf(t.temp[1]).email = t.temp[1]
      BY <1>1, <3>1 DEF A!UserOf, A!StoredUsers, A!Accounts
    <3>3. acct'[t.temp[1]] # None
      BY <1>1, <3>1, AccountAssumption DEF A!AccountConstants
    <3>4. <<t.temp[1], Cardinality(signed)>> \in A!Tokens BY <1>2, <3>1 DEF A!Tokens
    <3>5. [tok |-> <<t.temp[1], Cardinality(signed)>>, user |-> A!UserOf(t.temp[1])] \in SignedIn
      BY <3>2, <3>4 DEF SignedIn
    <3> DEFINE ans == [tok |-> <<t.temp[1], Cardinality(signed)>>, user |-> A!UserOf(t.temp[1])]
    <3>7. /\ A!Becomes(t, "ok", ans) /\ ans.user.email = ans.tok[1] /\ ans.tok[1] = t.temp[1]
      BY <2>2, <3>2, AccountCardinality DEF A!Sign
    <3>8. KnownTo(acct', ans.tok) BY <3>3, <3>7 DEF KnownTo
    <3>9. ans \in SignedIn BY <3>5
    <3> HIDE DEF ans
    <3>10. QED BY <3>7, <3>8, <3>9
  <2>3. QED BY <2>1, <2>2 DEF A!Verify2FA
<1>5. PICK at \in {"ok", "fail"}, res \in SignedIn \cup {None} :
        /\ A!Becomes(t, at, res)
        /\ at = "ok" => res \in SignedIn /\ res.user.email = res.tok[1] /\ KnownTo(acct', res.tok)
  BY <1>4
<1>6. /\ [t EXCEPT !.at = at, !.res = res] \in AccountRequests
      /\ WellAsked([t EXCEPT !.at = at, !.res = res])
      /\ WellAnswered([t EXCEPT !.at = at, !.res = res])
  <2>1. [t EXCEPT !.at = at, !.res = res] \in AccountRequests BY <1>1 DEF AccountRequests
  <2>2. WellAsked(t) BY DEF AccountInv, RequestTypes
  <2>3. QED BY <1>1, <1>5, <2>1, <2>2 DEF AccountRequests, WellAsked, WellAnswered, Signing
<1>7. RequestTypes' /\ OneForm' /\ MeOfToken' /\ SigningIn' /\ SavesOwn' /\ LostToken'
      /\ ScreenOfToken'
  BY <1>1, <1>5, <1>6, Served
<1>8. Known' /\ TempLive'
  <2>1. \A x \in temps' : KnownTo(acct', x) BY <1>1, <1>3 DEF AccountInv, Known, KnownTo
  <2>2. QED BY <1>1, <1>5, <2>1, ServedKnown
<1>9. QED BY <1>1, <1>3, <1>7, <1>8 DEF AccountInv, ClientTypes, A!UserOfToken

LEMMA ResetStep ==
  ASSUME AccountInv, NEW t \in accountAsked, UNCHANGED <<token, user, held, step, email, temp>>,
         t.at = "sent", A!ResetPassword(t)
  PROVE  AccountInv'
<1>1. t.op = "reset" /\ t.email \in Emails
  BY DEF AccountInv, RequestTypes, WellAsked, Emailed, A!ResetPassword
<1>2. /\ ServerTypes' /\ \A e \in Emails : acct[e] # None => acct'[e] # None
      /\ UNCHANGED <<temps, accountOdd>>
  <2>1. \A r \in A!Accounts : [r EXCEPT !.pw = TRUE] \in A!Accounts BY DEF A!Accounts
  <2>2. \/ acct' = acct
        \/ /\ acct[t.email] # None
           /\ acct' = [acct EXCEPT ![t.email] = [acct[t.email] EXCEPT !.pw = TRUE]]
    BY DEF A!ResetPassword
  <2>3. acct \in [Emails -> {None} \cup A!Accounts] BY DEF AccountInv, ServerTypes
  <2>4. /\ acct' \in [Emails -> {None} \cup A!Accounts]
        /\ \A e \in Emails : acct[e] # None => acct'[e] # None
    BY <1>1, <2>1, <2>2, <2>3, AbsentAccount
  <2>5. /\ UNCHANGED <<issued, code, tries, refused, slips, temps, signed, accountOdd>>
        /\ reset' \in [Emails -> Nat]
    BY <1>1 DEF AccountInv, ServerTypes, A!ResetPassword, A!counts
  <2>6. QED BY <2>4, <2>5 DEF AccountInv, ServerTypes
<1>3. PICK at \in {"ok", "fail"} : A!Becomes(t, at, None) BY DEF A!ResetPassword
<1>4. RequestTypes' /\ OneForm' /\ MeOfToken' /\ SigningIn' /\ SavesOwn' /\ LostToken'
      /\ ScreenOfToken'
  <2>1. /\ [t EXCEPT !.at = at, !.res = None] \in AccountRequests
        /\ WellAsked([t EXCEPT !.at = at, !.res = None])
        /\ WellAnswered([t EXCEPT !.at = at, !.res = None])
    BY <1>1, <1>3, ServeTyped DEF Signing
  <2>2. QED BY <1>2, <1>3, <2>1, Served
<1>5. Known' /\ TempLive'
  <2>1. \A x \in temps' : KnownTo(acct', x)
    BY <1>2 DEF AccountInv, ServerTypes, Known, KnownTo, A!Tokens
  <2>2. QED BY <1>1, <1>2, <1>3, <2>1, ServedKnown DEF Signing
<1>6. QED BY <1>2, <1>4, <1>5 DEF AccountInv, ClientTypes, A!UserOfToken

LEMMA AuthorisedStep ==
  ASSUME AccountInv, NEW t \in accountAsked, UNCHANGED <<token, user, held, step, email, temp>>,
         t.at = "sent", A!Authorised(t)
  PROVE  AccountInv'
<1>1. t \in AccountRequests /\ t.op \in {"put", "get", "me"}
  BY DEF AccountInv, RequestTypes, A!Authorised
<1>2. ASSUME t.tok # None PROVE t.tok[1] \in Emails /\ acct[t.tok[1]] \in A!Accounts
  BY <1>1, <1>2 DEF AccountInv, AccountRequests, ServerTypes, Known, KnownTo, A!Tokens
<1>3. /\ ServerTypes' /\ \A e \in Emails : acct[e] # None => acct'[e] # None
      /\ UNCHANGED <<temps, accountOdd>>
      /\ t.tok # None => acct'[t.tok[1]] \in A!Accounts
  <2>1. \A r \in A!Accounts, b \in BOOLEAN : [r EXCEPT !.named = b] \in A!Accounts
    BY DEF A!Accounts
  <2>2. \/ acct' = acct
        \/ /\ t.tok # None
           /\ acct' = [acct EXCEPT ![t.tok[1]] = [acct[t.tok[1]] EXCEPT !.named = (t.arg = 1)]]
    BY DEF A!Authorised
  <2>3. acct \in [Emails -> {None} \cup A!Accounts] BY DEF AccountInv, ServerTypes
  <2>4. (t.arg = 1) \in BOOLEAN OBVIOUS
  <2>5. /\ acct' \in [Emails -> {None} \cup A!Accounts]
        /\ \A e \in Emails : acct[e] # None => acct'[e] # None
        /\ t.tok # None => acct'[t.tok[1]] \in A!Accounts
    <3>1. CASE acct' = acct BY <1>2, <2>3, <3>1
    <3>2. CASE /\ t.tok # None
               /\ acct' = [acct EXCEPT ![t.tok[1]] = [acct[t.tok[1]] EXCEPT !.named = (t.arg = 1)]]
      <4>1. [acct[t.tok[1]] EXCEPT !.named = (t.arg = 1)] \in A!Accounts
        BY <1>2, <2>1, <2>4, <3>2
      <4>2. QED BY <1>2, <2>3, <3>2, <4>1, AbsentAccount
    <3>3. QED BY <2>2, <3>1, <3>2
  <2>6. UNCHANGED <<issued, code, tries, refused, slips, reset, temps, signed, accountOdd>>
    BY DEF A!Authorised, A!counts
  <2>7. QED BY <2>5, <2>6 DEF AccountInv, ServerTypes
<1>4. PICK at \in {"ok", "fail"}, res \in A!StoredUsers \cup {None} :
        /\ A!Becomes(t, at, res)
        /\ at = "ok" /\ t.op # "put" =>
             t.tok # None /\ res \in A!StoredUsers /\ res.email = t.tok[1]
  <2>1. ASSUME t.tok # None
        PROVE  A!UserOf(t.tok[1]) \in A!StoredUsers /\ A!UserOf(t.tok[1]).email = t.tok[1]
    BY <1>2, <1>3, <2>1 DEF A!UserOf, A!StoredUsers, A!Accounts
  <2>2. QED BY <2>1 DEF A!Authorised
<1>5. /\ [t EXCEPT !.at = at, !.res = res] \in AccountRequests
      /\ WellAsked([t EXCEPT !.at = at, !.res = res])
      /\ WellAnswered([t EXCEPT !.at = at, !.res = res])
  <2>1. [t EXCEPT !.at = at, !.res = res] \in AccountRequests BY <1>1 DEF AccountRequests
  <2>2. WellAsked(t) BY DEF AccountInv, RequestTypes
  <2>3. QED BY <1>1, <1>4, <2>1, <2>2 DEF AccountRequests, WellAsked, WellAnswered, Signing
<1>6. RequestTypes' /\ OneForm' /\ MeOfToken' /\ SigningIn' /\ SavesOwn' /\ LostToken'
      /\ ScreenOfToken'
  BY <1>3, <1>4, <1>5, Served
<1>7. Known' /\ TempLive'
  <2>1. \A x \in temps' : KnownTo(acct', x)
    BY <1>3 DEF AccountInv, ServerTypes, Known, KnownTo, A!Tokens
  <2>2. QED BY <1>1, <1>3, <1>4, <2>1, ServedKnown DEF Signing
<1>8. QED BY <1>3, <1>6, <1>7 DEF AccountInv, ClientTypes, A!UserOfToken

LEMMA ServerStep ==
  ASSUME AccountInv, NEW t \in accountAsked, UNCHANGED A!client,
         A!Serve(t) \/ A!CompareCode(t) \/ A!Grant(t)
  PROVE  AccountInv'
<1>1. UNCHANGED <<token, user, held, step, email, temp>> BY DEF A!client
<1>2. CASE t.at = "sent" /\ t.op = "upload" /\ A!Becomes(t, "ok", None)
           /\ UNCHANGED <<A!server, accountOdd>>
  <2>1. /\ [t EXCEPT !.at = "ok", !.res = None] \in AccountRequests
        /\ WellAsked([t EXCEPT !.at = "ok", !.res = None])
        /\ WellAnswered([t EXCEPT !.at = "ok", !.res = None])
    BY <1>2, ServeTyped DEF Signing
  <2>2. RequestTypes' /\ OneForm' /\ MeOfToken' /\ SigningIn' /\ SavesOwn' /\ LostToken'
        /\ ScreenOfToken'
    BY <1>1, <1>2, <2>1, Served
  <2>3. ServerTypes' BY <1>2 DEF AccountInv, ServerTypes, A!server, A!counts, A!marks
  <2>4. Known' /\ TempLive'
    <3>1. \A x \in temps' : KnownTo(acct', x) BY <1>2 DEF AccountInv, Known, KnownTo, A!server, A!counts, A!marks
    <3>2. QED BY <1>1, <1>2, <3>1, ServedKnown DEF Signing, A!server, A!counts, A!marks
  <2>5. QED BY <1>1, <1>2, <2>2, <2>3, <2>4 DEF AccountInv, ClientTypes, A!UserOfToken
<1>3. QED
  BY <1>1, <1>2, CodeStep, CompareStep, GrantStep, Verify2FAStep, ResetStep, AuthorisedStep
     DEF A!Serve
-----------------------------------------------------------------------------
LEMMA MeTyped ==
  ASSUME NEW tok \in A!Tokens
  PROVE  /\ A!Me(tok) \in AccountRequests /\ WellAsked(A!Me(tok)) /\ WellAnswered(A!Me(tok))
         /\ A!Me(tok).op = "me" /\ A!Me(tok).from = None /\ A!Me(tok).tok = tok
         /\ A!Me(tok).at = "sent" /\ A!Me(tok).here
BY AbsentAccount
   DEF A!Me, A!Call, A!Tokens, AccountRequests, WellAsked, WellAnswered, Emailed, Saving

(* What Set does with the requests: those it leaves are the same, some of them unheard now. *)
LEMMA SetRequests ==
  ASSUME AccountInv, NEW tok \in A!Tokens \cup {None}, NEW u, NEW st, NEW tmp,
         NEW T \in SUBSET accountAsked, A!Set(tok, u, st, tmp, T)
  PROVE  /\ \A x \in accountAsked' :
              \/ tok # None /\ tok # token /\ x = A!Me(tok)
              \/ \E y \in T, h \in BOOLEAN :
                   x = [y EXCEPT !.here = h] /\ (h => y.here /\ (y.op = "me" => tok = token))
         /\ step # None /\ A!Screen(tok, u) = "auth" /\ tok = token => accountAsked' = T
         /\ \E stays \in BOOLEAN :
              accountAsked' \subseteq
                {[y EXCEPT !.here = y.here /\ (stays \/ y.from = None)
                                    /\ (tok = token \/ y.op # "me")] : y \in T}
                \cup (IF tok = None \/ tok = token THEN {} ELSE {A!Me(tok)})
<1> DEFINE stays == step # None /\ A!Screen(tok, u) = "auth"
           left == {[y EXCEPT !.here = y.here /\ (stays \/ y.from = None)] : y \in T}
<1>1. \A y \in accountAsked : y \in AccountRequests BY DEF AccountInv, RequestTypes
<1>2. accountAsked' = IF tok = token THEN left
                      ELSE A!Cancelled(left) \cup IF tok = None THEN {} ELSE {A!Me(tok)}
  BY Zenon DEF A!Set
<1>3. \A x \in left : \E y \in T, h \in BOOLEAN : x = [y EXCEPT !.here = h] /\ (h => y.here)
  BY <1>1 DEF AccountRequests
<1>4. \A x \in A!Cancelled(left) : \E y \in T, h \in BOOLEAN :
         x = [y EXCEPT !.here = h] /\ (h => y.here /\ y.op # "me")
  <2>1. TAKE x \in A!Cancelled(left)
  <2>2. PICK z \in left : x = [z EXCEPT !.here = z.here /\ z.op # "me"] BY DEF A!Cancelled
  <2>3. PICK y \in T : z = [y EXCEPT !.here = y.here /\ (stays \/ y.from = None)] BY <2>2
  <2>4. /\ y \in AccountRequests /\ z.op = y.op
        /\ z.here = (y.here /\ (stays \/ y.from = None))
    BY <1>1, <2>3 DEF AccountRequests
  <2>5. x = [y EXCEPT !.here = z.here /\ z.op # "me"] BY <2>2, <2>3, <2>4 DEF AccountRequests
  <2>6. (z.here /\ z.op # "me") \in BOOLEAN /\ (z.here /\ z.op # "me" => y.here /\ y.op # "me")
    BY <2>4 DEF AccountRequests
  <2>7. QED BY <2>5, <2>6
<1>5. ASSUME stays PROVE left = T
  <2>1. \A y \in T : [y EXCEPT !.here = y.here /\ (stays \/ y.from = None)] = y
    BY <1>1, <1>5 DEF AccountRequests
  <2>2. QED BY <2>1
<1> HIDE DEF left
<1>6. ASSUME NEW x \in accountAsked'
      PROVE \/ tok # None /\ tok # token /\ x = A!Me(tok)
            \/ \E y \in T, h \in BOOLEAN :
                 x = [y EXCEPT !.here = h] /\ (h => y.here /\ (y.op = "me" => tok = token))
  BY <1>2, <1>3, <1>4
<1>7. accountAsked' \subseteq
        {[y EXCEPT !.here = y.here /\ (stays \/ y.from = None)
                            /\ (tok = token \/ y.op # "me")] : y \in T}
        \cup (IF tok = None \/ tok = token THEN {} ELSE {A!Me(tok)})
  <2>1. CASE tok = token
    <3>1. \A y \in T : [y EXCEPT !.here = y.here /\ (stays \/ y.from = None)
                                          /\ (tok = token \/ y.op # "me")]
                     = [y EXCEPT !.here = y.here /\ (stays \/ y.from = None)]
      BY <1>1, <2>1 DEF AccountRequests
    <3>2. QED BY <1>2, <2>1, <3>1 DEF left
  <2>2. CASE tok # token
    <3>1. \A x \in A!Cancelled(left) : \E y \in T :
            x = [y EXCEPT !.here = y.here /\ (stays \/ y.from = None)
                                  /\ (tok = token \/ y.op # "me")]
      <4>1. TAKE x \in A!Cancelled(left)
      <4>2. PICK z \in left : x = [z EXCEPT !.here = z.here /\ z.op # "me"] BY DEF A!Cancelled
      <4>3. PICK y \in T : z = [y EXCEPT !.here = y.here /\ (stays \/ y.from = None)]
        BY <4>2 DEF left
      <4>4. /\ y \in AccountRequests /\ z.op = y.op
            /\ z.here = (y.here /\ (stays \/ y.from = None))
        BY <1>1, <4>3 DEF AccountRequests
      <4>5. x = [y EXCEPT !.here = z.here /\ z.op # "me"] BY <4>2, <4>3, <4>4 DEF AccountRequests
      <4>6. (z.here /\ z.op # "me")
              <=> (y.here /\ (stays \/ y.from = None) /\ (tok = token \/ y.op # "me"))
        BY <2>2, <4>4
      <4>7. QED BY <4>5, <4>6
    <3>2. QED BY <1>2, <2>2, <3>1
  <2>3. QED BY <2>1, <2>2
<1>8. step # None /\ A!Screen(tok, u) = "auth" /\ tok = token => accountAsked' = T
  BY <1>2, <1>5
<1>9. stays \in BOOLEAN OBVIOUS
<1> HIDE DEF stays
<1>10. QED BY <1>6, <1>7, <1>8, <1>9

LEMMA SetScreen ==
  ASSUME NEW tok, NEW u, NEW st, NEW tmp, NEW T, A!Set(tok, u, st, tmp, T)
  PROVE  /\ token' = tok /\ user' = u
         /\ step' = IF A!Screen(tok, u) # "auth" THEN None
                    ELSE IF A!Needs(u) THEN "profile"
                    ELSE IF step # None /\ A!Screen(tok, u) = "auth" THEN st ELSE "email"
         /\ temp' = IF step # None /\ A!Screen(tok, u) = "auth" THEN tmp ELSE None
         /\ email' = IF step # None /\ A!Screen(tok, u) = "auth" THEN email ELSE None
BY Zenon DEF A!Set

(* The screen after it, and what holds when the token and the user belong together. *)
LEMMA SetInv ==
  ASSUME AccountInv, UNCHANGED A!server, NEW tok \in A!Tokens \cup {None},
         NEW u \in A!StoredUsers \cup {None}, NEW st \in A!Steps \cup {None},
         NEW tmp \in A!Tokens \cup {None}, NEW T \in SUBSET accountAsked, A!Set(tok, u, st, tmp, T),
         st = None => step = None,
         KnownTo(acct, tok), held' \in {held, tok}, tok # None => held' = tok,
         accountOdd \subseteq accountOdd',
         tok # None /\ u # None => u.email = tok[1] \/ "late" \in accountOdd'
  PROVE  /\ ServerTypes' /\ ClientTypes' /\ RequestTypes' /\ Known' /\ OneForm'
         /\ ScreenOfToken' /\ MeOfToken' /\ SavesOwn' /\ A!UserOfToken'
<1>1. /\ token' = tok /\ user' = u
      /\ step' = IF A!Screen(tok, u) # "auth" THEN None
                 ELSE IF A!Needs(u) THEN "profile"
                 ELSE IF step # None /\ A!Screen(tok, u) = "auth" THEN st ELSE "email"
      /\ temp' \in {tmp, None} /\ email' \in {email, None}
  BY SetScreen
<1>2. /\ token = None => step # None
      /\ token # None => step \in {None, "profile"} /\ held = token
  BY DEF AccountInv, ScreenOfToken
<1>3. \A x \in accountAsked' :
              \/ tok # None /\ tok # token /\ x = A!Me(tok)
              \/ \E y \in T, h \in BOOLEAN :
                   x = [y EXCEPT !.here = h] /\ (h => y.here /\ (y.op = "me" => tok = token))
  BY SetRequests
<1>4. \A y \in accountAsked : y \in AccountRequests /\ WellAsked(y) /\ WellAnswered(y)
  BY DEF AccountInv, RequestTypes
<1>5. ServerTypes' BY DEF AccountInv, ServerTypes, A!server, A!counts, A!marks
<1>6. step' \in A!Steps \cup {None} BY <1>1 DEF A!Steps
<1>7. ClientTypes' BY <1>1, <1>6 DEF AccountInv, ClientTypes
<1>8. ScreenOfToken'
  <2>1. CASE tok = None BY <1>1, <2>1, AbsentAccount DEF A!Screen, A!Steps, ScreenOfToken
  <2>2. CASE tok # None BY <1>1, <2>2 DEF A!Screen, ScreenOfToken
  <2>3. QED BY <2>1, <2>2
<1>9. A!UserOfToken' BY <1>1 DEF A!UserOfToken
<1>10. ASSUME NEW x \in accountAsked'
       PROVE  \/ tok # None /\ tok # token /\ x = A!Me(tok)
              \/ /\ x \in AccountRequests /\ WellAsked(x) /\ WellAnswered(x)
                 /\ \E y \in T :
                      /\ x.op = y.op /\ x.from = y.from /\ x.tok = y.tok /\ x.for = y.for
                      /\ x.at = y.at /\ x.res = y.res /\ [x EXCEPT !.here = y.here] = y
                      /\ x.here => y.here
                      /\ x.here /\ y.op = "me" => tok = token
  <2>1. CASE tok # None /\ tok # token /\ x = A!Me(tok) BY <2>1
  <2>2. CASE \E y \in T, h \in BOOLEAN :
               x = [y EXCEPT !.here = h] /\ (h => y.here /\ (y.op = "me" => tok = token))
    <3>1. PICK y \in T, h \in BOOLEAN :
            x = [y EXCEPT !.here = h] /\ (h => y.here /\ (y.op = "me" => tok = token))
      BY <2>2
    <3>2. /\ x.op = y.op /\ x.from = y.from /\ x.tok = y.tok /\ x.for = y.for /\ x.at = y.at
          /\ x.res = y.res /\ x.email = y.email /\ x.arg = y.arg /\ x.temp = y.temp /\ x.here = h
          /\ x \in AccountRequests /\ [x EXCEPT !.here = y.here] = y
      BY <1>4, <3>1 DEF AccountRequests
    <3>3. WellAsked(x) /\ WellAnswered(x) BY <1>4, <3>2 DEF WellAsked, WellAnswered
    <3>4. QED BY <3>1, <3>2, <3>3
  <2>3. QED BY <1>3, <2>1, <2>2
<1>11. RequestTypes'
  <2>1. ASSUME tok # None PROVE /\ A!Me(tok) \in AccountRequests
                               /\ WellAsked(A!Me(tok)) /\ WellAnswered(A!Me(tok))
    BY <2>1, MeTyped
  <2>2. QED BY <1>10, <2>1 DEF RequestTypes
<1>12. ASSUME tok # None PROVE /\ A!Me(tok).op = "me" /\ A!Me(tok).from = None
                              /\ A!Me(tok).tok = tok /\ A!Me(tok).at = "sent"
  BY <1>12, MeTyped
<1>13. Known'
  <2>1. KnownTo(acct, held') /\ acct' = acct /\ temps' = temps
    BY DEF AccountInv, Known, A!server, A!counts, A!marks
  <2>2. \A y \in T :
          /\ KnownTo(acct, y.tok)
          /\ y.at = "ok" /\ y.op \in Signing => KnownTo(acct, y.res.tok)
    BY DEF AccountInv, Known
  <2>3. \A x \in accountAsked' :
          /\ KnownTo(acct, x.tok)
          /\ x.at = "ok" /\ x.op \in Signing => KnownTo(acct, x.res.tok)
    BY <1>10, <1>12, <2>2
  <2>4. \A x \in temps : KnownTo(acct, x) BY DEF AccountInv, Known
  <2>5. KnownTo(acct', token') /\ KnownTo(acct', held') BY <1>1, <2>1
  <2>6. \A x \in temps' : KnownTo(acct', x) BY <2>1, <2>4
  <2>7. \A x \in accountAsked' :
          /\ KnownTo(acct', x.tok)
          /\ x.at = "ok" /\ x.op \in Signing => KnownTo(acct', x.res.tok)
    BY <2>1, <2>3
  <2>8. QED BY <2>5, <2>6, <2>7 DEF Known
<1>14. OneForm'
  <2>1. SUFFICES ASSUME NEW x1 \in accountAsked', NEW x2 \in accountAsked',
                        x1.from # None, x1.here, x2.from # None, x2.here
                 PROVE  x1 = x2
    BY DEF OneForm
  <2>2. PICK y1 \in T : /\ x1.from = y1.from /\ y1.here /\ [x1 EXCEPT !.here = y1.here] = y1
                        /\ x1 \in AccountRequests
    BY <1>10, <1>12, <2>1
  <2>3. PICK y2 \in T : /\ x2.from = y2.from /\ y2.here /\ [x2 EXCEPT !.here = y2.here] = y2
                        /\ x2 \in AccountRequests
    BY <1>10, <1>12, <2>1
  <2>4. y1 = y2 BY <2>1, <2>2, <2>3 DEF AccountInv, OneForm
  <2>5. x1 = y1
    <3>1. y1 \in AccountRequests BY <1>4
    <3>2. x1.here = y1.here BY <2>1, <2>2, <3>1 DEF AccountRequests
    <3>3. QED BY <2>2, <3>2 DEF AccountRequests
  <2>6. x2 = y2
    <3>1. y2 \in AccountRequests BY <1>4
    <3>2. x2.here = y2.here BY <2>1, <2>3, <3>1 DEF AccountRequests
    <3>3. QED BY <2>3, <3>2 DEF AccountRequests
  <2>7. QED BY <2>4, <2>5, <2>6
<1>15. MeOfToken'
  BY <1>1, <1>10, <1>12 DEF AccountInv, MeOfToken
<1>16. SavesOwn'
  BY <1>10, <1>12 DEF AccountInv, SavesOwn
<1>17. QED
  BY <1>5, <1>7, <1>8, <1>9, <1>11, <1>13, <1>14, <1>15, <1>16

(* The requests after Set, as far as the answers that are waited for go. *)
LEMMA SetOps ==
  ASSUME AccountInv, NEW tok \in A!Tokens \cup {None}, NEW u, NEW st, NEW tmp,
         NEW T \in SUBSET accountAsked, A!Set(tok, u, st, tmp, T)
  PROVE  \A x \in accountAsked' :
           x.op = "me" \/ \E y \in T : /\ x.op = y.op /\ x.from = y.from /\ x.at = y.at
                                      /\ x.res = y.res /\ (x.here => y.here)
<1>1. \A x \in accountAsked' :
              \/ tok # None /\ tok # token /\ x = A!Me(tok)
              \/ \E y \in T, h \in BOOLEAN :
                   x = [y EXCEPT !.here = h] /\ (h => y.here /\ (y.op = "me" => tok = token))
  BY SetRequests
<1>2. \A y \in accountAsked : y \in AccountRequests BY DEF AccountInv, RequestTypes
<1>3. ASSUME tok # None PROVE A!Me(tok).op = "me" BY <1>3, MeTyped
<1>4. TAKE x \in accountAsked'
<1>5. CASE tok # None /\ tok # token /\ x = A!Me(tok) BY <1>3, <1>5
<1>6. ASSUME NEW y \in T, NEW h \in BOOLEAN, x = [y EXCEPT !.here = h], h => y.here
      PROVE  /\ x.op = y.op /\ x.from = y.from /\ x.at = y.at
             /\ x.res = y.res /\ (x.here => y.here)
  BY <1>2, <1>6 DEF AccountRequests
<1>7. QED BY <1>1, <1>5, <1>6

LEMMA SignedOf ==
  ASSUME AccountInv, NEW t \in accountAsked, t.at = "ok", t.op \in Signing
  PROVE  /\ token = None /\ step # None
         /\ t.res \in SignedIn \cup Halfway /\ t.res.user \in A!StoredUsers
         /\ \A y \in accountAsked \ {t} : y.op \in OfForm => ~y.here /\ y.op \notin Signing
         /\ KnownTo(acct, t.res.tok)
         /\ t.res.tok = None =>
              /\ t.op = "verify" /\ t.res \in Halfway /\ t.res.temp \in A!Tokens
              /\ t.res.temp \in temps \/ "expired" \in accountOdd
         /\ t.res.tok # None => t.res.tok \in A!Tokens /\ t.res.user.email = t.res.tok[1]
<1>1. t.op \in OfForm /\ t.here /\ t.from # None /\ token = None
  BY DEF AccountInv, SigningIn, Signing, OfForm, Emailed
<1>2. step # None BY <1>1 DEF AccountInv, ScreenOfToken
<1>3. t.res \in SignedIn \cup (IF t.op = "verify" THEN Halfway ELSE {})
      /\ (t.res \in SignedIn => t.res.user.email = t.res.tok[1])
  BY DEF AccountInv, RequestTypes, WellAnswered
<1>4. t.res \in SignedIn \cup Halfway /\ t.res.user \in A!StoredUsers
  BY <1>3 DEF SignedIn, Halfway
<1>5. \A y \in accountAsked \ {t} : y.op \in OfForm => ~y.here /\ y.op \notin Signing
  BY <1>1 DEF AccountInv, OneForm, SigningIn, Signing, OfForm, Emailed
<1>6. KnownTo(acct, t.res.tok) BY DEF AccountInv, Known
<1>7. ASSUME t.res.tok = None
      PROVE  /\ t.op = "verify" /\ t.res \in Halfway /\ t.res.temp \in A!Tokens
             /\ t.res.temp \in temps \/ "expired" \in accountOdd
  <2>1. t.res \notin SignedIn BY <1>7, AbsentAccount DEF SignedIn
  <2>2. t.op = "verify" /\ t.res \in Halfway BY <1>3, <2>1
  <2>3. QED BY <2>2 DEF Halfway, AccountInv, TempLive
<1>8. ASSUME t.res.tok # None
      PROVE  t.res.tok \in A!Tokens /\ t.res.user.email = t.res.tok[1]
  <2>1. t.res \in SignedIn BY <1>3, <1>8 DEF Halfway
  <2>2. QED BY <1>3, <2>1 DEF SignedIn
<1>9. QED BY <1>1, <1>2, <1>4, <1>5, <1>6, <1>7, <1>8

LEMMA SignedInStep ==
  ASSUME AccountInv, UNCHANGED A!server, NEW t \in accountAsked, t.at = "ok", A!SignedIn(t)
  PROVE  AccountInv'
<1>1. t.op \in Signing /\ UNCHANGED <<acct, temps>> BY DEF A!SignedIn, Signing, A!server, A!counts, A!marks
<1>2. /\ token = None /\ step # None
      /\ t.res \in SignedIn \cup Halfway /\ t.res.user \in A!StoredUsers
      /\ \A y \in accountAsked \ {t} : y.op \in OfForm => ~y.here /\ y.op \notin Signing
      /\ KnownTo(acct, t.res.tok)
      /\ t.res.tok = None =>
           /\ t.op = "verify" /\ t.res \in Halfway /\ t.res.temp \in A!Tokens
           /\ t.res.temp \in temps \/ "expired" \in accountOdd
      /\ t.res.tok # None => t.res.tok \in A!Tokens /\ t.res.user.email = t.res.tok[1]
  BY <1>1, SignedOf
<1>3. A!Rest(t) = accountAsked \ {t} BY DEF A!Rest
<1>4. CASE t.res.tok = None
  <2>1. /\ A!Set(token, t.res.user, "password", t.res.temp, accountAsked \ {t})
        /\ held' = held
        /\ accountOdd' = accountOdd \cup IF A!Needs(t.res.user) THEN {"nameless"} ELSE {}
    BY <1>3, <1>4 DEF A!SignedIn
  <2>2. /\ ServerTypes' /\ ClientTypes' /\ RequestTypes' /\ Known' /\ OneForm'
        /\ ScreenOfToken' /\ MeOfToken' /\ SavesOwn' /\ A!UserOfToken'
    BY <1>2, <1>4, <2>1, SetInv, AbsentAccount DEF A!Steps, AccountInv, Known, ClientTypes
  <2>3. /\ token' = None /\ temp' = t.res.temp
        /\ step' = IF A!Needs(t.res.user) THEN "profile" ELSE "password"
        /\ accountAsked' = accountAsked \ {t}
    <3>1. A!Screen(token, t.res.user) = "auth" BY <1>2 DEF A!Screen
    <3>2. accountAsked' = accountAsked \ {t}
      BY <1>2, <2>1, <3>1, SetRequests DEF AccountInv, ClientTypes
    <3>3. QED BY <1>2, <2>1, <3>1, <3>2, SetScreen
  <2>4. SigningIn' BY <1>2, <2>3 DEF SigningIn, AccountInv, OfForm, Emailed, Signing
  <2>5. LostToken' BY <2>1, <2>3 DEF LostToken, Unsaid
  <2>6. TempLive'
    <3>1. t.res.temp # None BY <1>2, <1>4, AbsentAccount
    <3>2. QED BY <1>1, <1>2, <1>4, <2>1, <2>3, <3>1 DEF TempLive, AccountInv
  <2>7. QED BY <2>2, <2>4, <2>5, <2>6 DEF AccountInv
<1>5. CASE t.res.tok # None
  <2>1. /\ A!Set(t.res.tok, t.res.user, step, temp, accountAsked \ {t})
        /\ held' = t.res.tok /\ accountOdd' = accountOdd
    BY <1>3, <1>5 DEF A!SignedIn, A!Holds
  <2>2. /\ ServerTypes' /\ ClientTypes' /\ RequestTypes' /\ Known' /\ OneForm'
        /\ ScreenOfToken' /\ MeOfToken' /\ SavesOwn' /\ A!UserOfToken'
    BY <1>2, <1>5, <2>1, SetInv DEF AccountInv, ClientTypes
  <2>3. /\ token' = t.res.tok /\ step' \in {None, "profile"} /\ (step' = None => temp' = None)
    <3>1. t.res.user # None BY <1>2, AbsentAccount
    <3>2. QED BY <1>2, <1>5, <2>1, <3>1, SetScreen, AbsentAccount
         DEF A!Screen, A!Needs, A!Steps
  <2>4. \A x \in accountAsked' :
           x.op = "me" \/ \E y \in accountAsked \ {t} :
                            /\ x.op = y.op /\ x.from = y.from /\ x.at = y.at
                            /\ x.res = y.res /\ (x.here => y.here)
    BY <1>2, <1>5, <2>1, SetOps
  <2>5. SigningIn' BY <1>2, <2>4 DEF SigningIn, AccountInv, OfForm, Emailed, Signing
  <2>6. LostToken' BY <1>5, <2>3 DEF LostToken
  <2>7. TempLive'
    <3>1. \A x \in accountAsked' : x.op \in OfForm => ~x.here /\ x.op \notin Signing
      BY <1>2, <2>4 DEF OfForm, Emailed, Signing
    <3>2. step' # "password" /\ (temp' = None \/ step' = "profile")
      BY <2>3, AbsentAccount DEF A!Steps
    <3>3. QED BY <1>1, <2>1, <3>1, <3>2 DEF TempLive, AccountInv, Signing, OfForm, Emailed
  <2>8. QED BY <2>2, <2>5, <2>6, <2>7 DEF AccountInv
<1>6. QED BY <1>4, <1>5

LEMMA SetUserStep ==
  ASSUME AccountInv, UNCHANGED A!server, NEW t \in accountAsked, t.at = "ok",
         A!SetUser(t) \/ (A!GotMe(t) /\ t.here)
  PROVE  AccountInv'
<1>1. /\ t.op \in {"get", "me"} /\ UNCHANGED <<acct, temps, held>>
      /\ A!Set(token, t.res, step, temp, accountAsked \ {t})
      /\ accountOdd' = accountOdd \cup (IF token # t.tok THEN {"late"} ELSE {})
  <2>1. t.op = "me" /\ t.here => t.tok = token BY DEF AccountInv, MeOfToken
  <2>2. QED BY <2>1 DEF A!SetUser, A!GotMe, A!Rest, A!server, A!counts, A!marks
<1>2. t.tok # None /\ t.res \in A!StoredUsers /\ t.res.email = t.tok[1]
  BY <1>1 DEF AccountInv, RequestTypes, WellAnswered
<1>3. /\ token \in A!Tokens \cup {None} /\ step \in A!Steps \cup {None}
      /\ temp \in A!Tokens \cup {None} /\ KnownTo(acct, token)
      /\ token # None => held = token
  BY DEF AccountInv, ClientTypes, Known, ScreenOfToken
<1>4. /\ ServerTypes' /\ ClientTypes' /\ RequestTypes' /\ Known' /\ OneForm'
      /\ ScreenOfToken' /\ MeOfToken' /\ SavesOwn' /\ A!UserOfToken'
  BY <1>1, <1>2, <1>3, SetInv
<1>5. /\ token' = token
      /\ step' = IF A!Screen(token, t.res) # "auth" THEN None
                 ELSE IF A!Needs(t.res) THEN "profile"
                 ELSE IF step # None /\ A!Screen(token, t.res) = "auth" THEN step ELSE "email"
      /\ temp' = IF step # None /\ A!Screen(token, t.res) = "auth" THEN temp ELSE None
  BY <1>1, SetScreen
<1>6. CASE token = None
  <2>1. step # None /\ A!Screen(token, t.res) = "auth" /\ "late" \in accountOdd'
    BY <1>1, <1>2, <1>6 DEF AccountInv, ScreenOfToken, A!Screen
  <2>2. accountAsked' = accountAsked \ {t} BY <1>1, <1>3, <2>1, SetRequests
  <2>3. SigningIn' BY <1>5, <2>1, <2>2 DEF AccountInv, SigningIn, Unsaid
  <2>4. LostToken' BY <2>1 DEF LostToken, Unsaid
  <2>5. TempLive'
    <3>1. t.op # "verify2FA" /\ t.op \notin OfForm BY <1>1 DEF OfForm, Emailed
    <3>2. temp' = temp /\ step' \in {step, "profile"} BY <1>5, <2>1
    <3>3. QED BY <1>1, <2>2, <3>1, <3>2 DEF AccountInv, TempLive
  <2>6. QED BY <1>4, <2>3, <2>4, <2>5 DEF AccountInv
<1>7. CASE token # None
  <2>1. \A y \in accountAsked : y.op \in OfForm => ~y.here /\ y.op \notin Signing
    BY <1>7 DEF AccountInv, SigningIn, OfForm, Emailed, Signing
  <2>2. \A x \in accountAsked' : x.op \in OfForm => ~x.here /\ x.op \notin Signing
    <3>1. \A x \in accountAsked' :
             x.op = "me" \/ \E y \in accountAsked \ {t} :
                              /\ x.op = y.op /\ x.from = y.from /\ x.at = y.at
                              /\ x.res = y.res /\ (x.here => y.here)
      BY <1>1, <1>3, SetOps
    <3>2. QED BY <2>1, <3>1 DEF OfForm, Emailed, Signing
  <2>3. SigningIn'
    <3>1. \A x \in accountAsked' :
             x.op = "me" \/ \E y \in accountAsked \ {t} :
                              /\ x.op = y.op /\ x.from = y.from /\ x.at = y.at
                              /\ x.res = y.res /\ (x.here => y.here)
      BY <1>1, <1>3, SetOps
    <3>2. QED BY <2>2, <3>1 DEF SigningIn, AccountInv, OfForm, Emailed, Signing
  <2>4. LostToken' BY <1>5, <1>7 DEF LostToken
  <2>5. TempLive'
    <3>1. /\ step' \in {None, "profile"} /\ (step' = None => temp' = None)
          /\ None \notin {"profile", "password", "email"}
      <4>1. None \notin {"profile", "password", "email"} BY AbsentAccount DEF A!Steps
      <4>2. t.res # None BY <1>2, AbsentAccount
      <4>3. QED BY <1>5, <1>7, <4>1, <4>2 DEF A!Screen
    <3>2. QED BY <2>2, <3>1 DEF TempLive, Signing, OfForm, Emailed
  <2>6. QED BY <1>4, <2>3, <2>4, <2>5 DEF AccountInv
<1>8. QED BY <1>6, <1>7

LEMMA SignOutStep ==
  ASSUME AccountInv, UNCHANGED A!server,
         \/ A!Logout
         \/ \E t \in accountAsked :
              /\ t.op = "me" /\ t.here /\ A!Set(None, None, step, temp, A!Rest(t)) /\ held' = None
              /\ accountOdd' = accountOdd \cup {"dropped"}
  PROVE  AccountInv'
<1>1. token # None
  <2>1. CASE A!Logout BY <2>1 DEF A!Logout, A!Screen
  <2>2. CASE \E t \in accountAsked : t.op = "me" /\ t.here
    BY <2>2 DEF AccountInv, MeOfToken, RequestTypes, WellAsked
  <2>3. QED BY <2>1, <2>2
<1>2. PICK st \in {step, "email"}, tmp \in {temp, None}, T \in SUBSET accountAsked :
        /\ A!Set(None, None, st, tmp, T) /\ accountOdd \subseteq accountOdd'
        /\ \/ st = step /\ held' = None /\ "dropped" \in accountOdd'
           \/ st = "email" /\ tmp = None /\ held' = held
  BY DEF A!Logout, A!Rest
<1>3. /\ step \in A!Steps \cup {None} /\ temp \in A!Tokens \cup {None}
      /\ step \in {None, "profile"}
  BY <1>1 DEF AccountInv, ClientTypes, ScreenOfToken
<1>4. UNCHANGED A!server OBVIOUS
<1>5. None \notin {"profile", "password", "email"} BY AbsentAccount DEF A!Steps
<1>6. KnownTo(acct, None) BY DEF KnownTo
<1>7. st \in A!Steps \cup {None} /\ tmp \in A!Tokens \cup {None} /\ (st = None => step = None)
  BY <1>2, <1>3, <1>5 DEF A!Steps
<1>8. /\ ServerTypes' /\ ClientTypes' /\ RequestTypes' /\ Known' /\ OneForm'
      /\ ScreenOfToken' /\ MeOfToken' /\ SavesOwn' /\ A!UserOfToken'
  BY <1>2, <1>4, <1>6, <1>7, SetInv
<1>9. /\ token' = None /\ user' = None /\ step' = (IF step # None THEN st ELSE "email")
      /\ temp' = IF step # None THEN tmp ELSE None
  BY <1>2, SetScreen DEF A!Screen, A!Needs
<1>10. \A x \in accountAsked' :
         x.op = "me" \/ \E y \in T : /\ x.op = y.op /\ x.from = y.from /\ x.at = y.at
                                    /\ x.res = y.res /\ (x.here => y.here)
  BY <1>2, SetOps
<1>11. \A y \in accountAsked : y.op \in OfForm => ~y.here /\ y.op \notin Signing
  BY <1>1 DEF AccountInv, SigningIn, OfForm, Emailed, Signing
<1>12. \A x \in accountAsked' : x.op \in OfForm => ~x.here /\ x.op \notin Signing
  BY <1>10, <1>11 DEF OfForm, Emailed, Signing
<1>13. SigningIn' BY <1>10, <1>12 DEF SigningIn, AccountInv, OfForm, Emailed, Signing
<1>14. LostToken' BY <1>2, <1>3, <1>9 DEF LostToken
<1>15. TempLive'
  <2>1. CASE st = "email" /\ tmp = None
    BY <1>5, <1>9, <1>12, <2>1 DEF TempLive, Signing, OfForm, Emailed
  <2>2. CASE step' = "profile" \/ (temp' = None /\ step' = "email")
    BY <1>5, <1>12, <2>2 DEF TempLive, Signing, OfForm, Emailed
  <2>3. QED BY <1>2, <1>3, <1>9, <2>1, <2>2
<1>16. QED BY <1>8, <1>13, <1>14, <1>15 DEF AccountInv

(* A request is over and nobody hears of it. *)
LEMMA ToldStep ==
  ASSUME AccountInv, UNCHANGED A!server, NEW t \in accountAsked, A!Told(t),
         \/ UNCHANGED step
         \/ t.op \in {"sendCode", "forgot", "reset"} /\ t.here
            /\ step' \in {"code", "reset", "email"},
         accountOdd' = accountOdd \cup IF t.op = "verify2FA" THEN {"spent"} ELSE {}
  PROVE  AccountInv'
<1>1. /\ accountAsked' = accountAsked \ {t}
      /\ UNCHANGED <<acct, issued, code, tries, refused, slips, reset, temps, signed, token, user, held, email,
                     temp>>
  BY DEF A!Told, A!Rest, A!server, A!counts, A!marks
<1>2. step' # step => /\ token = None /\ step' \in {"code", "reset", "email"}
                      /\ t.op \in OfForm /\ t.here
  BY DEF AccountInv, SigningIn, OfForm, Emailed
<1>3. step' \in A!Steps \cup {None} /\ None \notin {"code", "reset", "email"}
  BY <1>2, AbsentAccount DEF AccountInv, ClientTypes, A!Steps
<1>4. /\ ServerTypes' /\ ClientTypes' /\ RequestTypes' /\ Known' /\ OneForm'
      /\ MeOfToken' /\ A!UserOfToken'
  BY <1>1, <1>3 DEF AccountInv, ServerTypes, ClientTypes, RequestTypes, Known, OneForm, MeOfToken,
                    A!UserOfToken
<1>5. SavesOwn' /\ SigningIn' /\ LostToken'
  BY <1>1, <1>2 DEF AccountInv, SavesOwn, SigningIn, LostToken, Unsaid
<1>6. ScreenOfToken' BY <1>1, <1>2, <1>3 DEF AccountInv, ScreenOfToken, A!Screen
<1>7. TempLive' BY <1>1, <1>2 DEF AccountInv, TempLive, OfForm, Emailed
<1>8. QED BY <1>4, <1>5, <1>6, <1>7 DEF AccountInv

LEMMA GoOnStep ==
  ASSUME AccountInv, UNCHANGED A!server, NEW t \in accountAsked, A!GoOn(t)
  PROVE  AccountInv'
<1> DEFINE s == [t EXCEPT !.op = IF t.op = "put" THEN "get" ELSE "put", !.at = "sent",
                         !.res = None, !.tok = held]
<1>1. /\ t.op \in {"upload", "put"} /\ accountAsked' = (accountAsked \ {t}) \cup {s}
      /\ accountOdd' = accountOdd \cup IF t.op = "upload" /\ held # t.tok THEN {"moved"} ELSE {}
      /\ UNCHANGED <<acct, issued, code, tries, refused, slips, reset, temps, signed, token, user, held, step,
                     email, temp>>
  BY DEF A!GoOn, A!server, A!counts, A!marks, A!client, A!Rest
<1>2. t \in AccountRequests /\ held \in A!Tokens \cup {None} /\ KnownTo(acct, held)
  BY DEF AccountInv, RequestTypes, ClientTypes, Known
<1>3. /\ s \in AccountRequests /\ s.op = (IF t.op = "put" THEN "get" ELSE "put") /\ s.from = t.from
      /\ s.here = t.here /\ s.for = t.for /\ s.tok = held /\ s.at = "sent"
  <2>1. (IF t.op = "put" THEN "get" ELSE "put") \in Saving BY DEF Saving
  <2>2. PICK op \in Saving : op = IF t.op = "put" THEN "get" ELSE "put" BY <2>1
  <2>3. s = [t EXCEPT !.op = op, !.at = "sent", !.res = None, !.tok = held] BY <2>2
  <2> HIDE DEF s
  <2>4. /\ s \in AccountRequests /\ s.op = op /\ s.from = t.from /\ s.here = t.here
        /\ s.for = t.for /\ s.tok = held /\ s.at = "sent"
    BY <1>2, <2>3 DEF AccountRequests
  <2>5. QED BY <2>2, <2>4
<1>4. WellAsked(s) /\ WellAnswered(s)
      /\ s.op \notin OfForm \cup Signing \cup {"me", "verify", "verify2FA"}
  BY <1>3 DEF WellAsked, WellAnswered, OfForm, Emailed, Signing
<1> HIDE DEF s
<1>5. RequestTypes' /\ Known'
  BY <1>1, <1>2, <1>3, <1>4 DEF AccountInv, RequestTypes, Known
<1>6. OneForm' /\ SigningIn' /\ MeOfToken' /\ LostToken' /\ ScreenOfToken' /\ A!UserOfToken'
  BY <1>1, <1>3, <1>4
     DEF AccountInv, OneForm, SigningIn, MeOfToken, LostToken, ScreenOfToken, Unsaid,
         A!UserOfToken, A!Screen
<1>7. SavesOwn'
  <2>1. s.op \in {"upload", "put"} /\ s.tok # None /\ s.for # None =>
           s.for.email = s.tok[1] \/ accountOdd' \cap {"moved", "late", "nameless"} # {}
    BY <1>1, <1>3 DEF AccountInv, SavesOwn
  <2>2. QED BY <1>1, <2>1 DEF AccountInv, SavesOwn
<1>8. TempLive'
  <2>1. t.op # "verify2FA" BY <1>1
  <2>2. QED BY <1>1, <1>4, <2>1 DEF AccountInv, TempLive
<1>9. QED BY <1>1, <1>5, <1>6, <1>7, <1>8 DEF AccountInv, ServerTypes, ClientTypes

LEMMA AnswerStep ==
  ASSUME AccountInv, NEW t \in accountAsked, A!Answer(t) \/ A!Fails(t)
  PROVE  AccountInv'
<1>1. UNCHANGED A!server BY DEF A!Answer, A!Fails
<1>2. CASE A!Answer(t)
  <2>1. t.at = "ok" BY <1>2 DEF A!Answer
  <2>2. CASE A!Moved(t)
    <3>1. /\ t.op \in {"sendCode", "forgot", "reset"} /\ A!Told(t) /\ accountOdd' = accountOdd
          /\ step' \in {"code", "reset", "email"} \/ step' = step
          /\ step' = step \/ t.here
      BY <2>2 DEF A!Moved, A!NextOf
    <3>2. QED BY <1>1, <3>1, ToldStep
  <2>3. CASE A!Heard(t) BY <1>1, <2>3, ToldStep DEF A!Heard
  <2>4. CASE A!SignedIn(t) BY <1>1, <2>1, <2>4, SignedInStep
  <2>5. CASE A!GoOn(t) BY <1>1, <2>5, GoOnStep
  <2>6. CASE A!SetUser(t)
    <3>1. A!SetUser(t) \/ (A!GotMe(t) /\ t.here) BY <2>6
    <3>2. QED BY <1>1, <2>1, <3>1, SetUserStep
  <2>7. CASE A!GotMe(t)
    <3>1. CASE t.here BY <1>1, <2>1, <2>7, <3>1, SetUserStep
    <3>2. CASE ~t.here BY <1>1, <2>7, <3>2, ToldStep DEF A!GotMe
    <3>3. QED BY <3>1, <3>2
  <2>8. QED BY <1>2, <2>2, <2>3, <2>4, <2>5, <2>6, <2>7 DEF A!Answer
<1>3. CASE A!Fails(t)
  <2>1. CASE /\ t.op = "me" /\ t.here /\ A!Set(None, None, step, temp, A!Rest(t)) /\ held' = None
             /\ accountOdd' = accountOdd \cup {"dropped"}
    BY <1>1, <2>1, SignOutStep
  <2>2. CASE A!GoOn(t) BY <1>1, <2>2, GoOnStep
  <2>3. CASE /\ A!Told(t) /\ UNCHANGED step
             /\ accountOdd' = accountOdd \cup IF t.op = "verify2FA" THEN {"spent"} ELSE {}
    BY <1>1, <2>3, ToldStep
  <2>4. QED BY <1>3, <2>1, <2>2, <2>3 DEF A!Fails
<1>4. QED BY <1>2, <1>3
-----------------------------------------------------------------------------
(* What the user does. *)
LEMMA AskStep ==
  ASSUME AccountInv, NEW op \in OfForm, NEW e, NEW arg \in Nat, NEW st \in SUBSET A!Steps,
         "profile" \notin st, e \in Emails \cup {None}, A!Ask(st, op, e, arg)
  PROVE  AccountInv'
<1> DEFINE s == A!Call(op, e, arg, held)
<1>1. /\ step \in st /\ e \in Emails /\ email' = e /\ accountAsked' = accountAsked \cup {s}
      /\ UNCHANGED <<acct, issued, code, tries, refused, slips, reset, temps, signed, token, user, held, step,
                     temp>>
      /\ accountOdd' = accountOdd /\ ~A!Busy
  BY DEF A!Ask, A!server, A!counts, A!marks
<1>2. step # None /\ token = None /\ step # "profile"
  BY <1>1, AbsentAccount DEF AccountInv, ScreenOfToken
<1>3. /\ s \in AccountRequests /\ s.op = op /\ s.from = step /\ s.here /\ s.at = "sent"
      /\ s.tok = held /\ s.email = e
  BY <1>1 DEF AccountInv, ClientTypes, AccountRequests, A!Call, OfForm
<1>4. WellAsked(s) /\ WellAnswered(s) /\ s.op \notin {"me", "other", "upload", "put"}
  BY <1>1, <1>3 DEF WellAsked, WellAnswered, OfForm, Emailed
<1> HIDE DEF s
<1>5. KnownTo(acct, held) BY DEF AccountInv, Known
<1>6. /\ ServerTypes' /\ ClientTypes' /\ RequestTypes' /\ Known'
  BY <1>1, <1>3, <1>4, <1>5
     DEF AccountInv, ServerTypes, ClientTypes, RequestTypes, Known
<1>7. OneForm'
  <2>1. \A x \in accountAsked : ~(x.from # None /\ x.here) BY <1>1 DEF A!Busy
  <2>2. QED BY <1>1, <2>1 DEF OneForm
<1>8. SigningIn' /\ ScreenOfToken' /\ MeOfToken' /\ SavesOwn' /\ LostToken' /\ A!UserOfToken'
  BY <1>1, <1>2, <1>3, <1>4
     DEF AccountInv, SigningIn, ScreenOfToken, MeOfToken, SavesOwn, LostToken, Unsaid,
         A!UserOfToken, A!Screen
<1>9. TempLive' BY <1>1, <1>2, <1>3 DEF AccountInv, TempLive
<1>10. QED BY <1>6, <1>7, <1>8, <1>9 DEF AccountInv

LEMMA ProfileStep ==
  ASSUME AccountInv, NEW pic \in BOOLEAN, NEW named \in {0, 1}, A!SubmitProfile(pic, named)
  PROVE  AccountInv'
<1> DEFINE s == A!Call(IF pic THEN "upload" ELSE "put", None, named, held)
<1>1. /\ \/ step = "profile" /\ ~A!Busy
         \/ A!Screen(token, user) = "main"
      /\ accountAsked' = accountAsked \cup {s}
      /\ UNCHANGED <<acct, issued, code, tries, refused, slips, reset, temps, signed, token, user, held, step,
                     email, temp>>
      /\ accountOdd' = accountOdd
  BY DEF A!SubmitProfile, A!server, A!counts, A!marks, A!client
<1>2. /\ s \in AccountRequests /\ s.op \in {"upload", "put"} /\ s.from = step /\ s.here
      /\ s.at = "sent" /\ s.tok = held /\ s.for = user
  BY DEF AccountInv, ClientTypes, AccountRequests, A!Call, Saving
<1>3. WellAsked(s) /\ WellAnswered(s) /\ s.op \notin OfForm \cup Signing \cup {"me"}
  BY <1>2 DEF WellAsked, WellAnswered, OfForm, Emailed, Signing
<1> HIDE DEF s
<1>4. KnownTo(acct, held) BY DEF AccountInv, Known
<1>5. /\ ServerTypes' /\ ClientTypes' /\ RequestTypes' /\ Known'
  BY <1>1, <1>2, <1>3, <1>4
     DEF AccountInv, ServerTypes, ClientTypes, RequestTypes, Known
<1>6. OneForm'
  <2>1. s.from = None \/ \A x \in accountAsked : ~(x.from # None /\ x.here)
    BY <1>1, <1>2 DEF A!Busy, AccountInv, ScreenOfToken
  <2>2. QED BY <1>1, <2>1 DEF AccountInv, OneForm
<1>7. SavesOwn'
  <2>1. ASSUME held # None, user # None
        PROVE  user.email = held[1] \/ accountOdd \cap {"moved", "late", "nameless"} # {}
    BY <1>1, <2>1
       DEF AccountInv, A!Screen, A!UserOfToken, LostToken, ScreenOfToken, Unsaid
  <2>2. QED BY <1>1, <1>2, <2>1 DEF AccountInv, SavesOwn
<1>8. SigningIn' /\ ScreenOfToken' /\ MeOfToken' /\ LostToken' /\ A!UserOfToken'
  BY <1>1, <1>3
     DEF AccountInv, SigningIn, ScreenOfToken, MeOfToken, LostToken, Unsaid, A!UserOfToken, A!Screen
<1>9. TempLive' BY <1>1, <1>2, <1>3 DEF AccountInv, TempLive
<1>10. QED BY <1>5, <1>6, <1>7, <1>8, <1>9 DEF AccountInv

LEMMA TurnStep ==
  ASSUME AccountInv, NEW to \in {"email", "code", "password", "forgot"}, A!Turn(to)
  PROVE  AccountInv'
<1>1. /\ step \in {"code", "password", "forgot", "reset"} /\ step' = to
      /\ temp' = (IF step = "password" /\ to = "code" THEN None ELSE temp)
      /\ accountOdd' = accountOdd \cup IF to = "password" /\ temp = None THEN {"detour"} ELSE {}
      /\ UNCHANGED <<acct, issued, code, tries, refused, slips, reset, temps, signed, token, user, held, email,
                     accountAsked>>
      /\ to = "password" => step # "password"
  BY DEF A!Turn, A!Links, A!BackOf, A!Kept, A!server, A!counts, A!marks
<1>2. token = None /\ step # None /\ to # None
  BY <1>1, AbsentAccount DEF AccountInv, ScreenOfToken, A!Steps
<1>3. /\ ServerTypes' /\ ClientTypes' /\ RequestTypes' /\ Known' /\ OneForm'
  BY <1>1 DEF AccountInv, ServerTypes, ClientTypes, RequestTypes, Known, OneForm, A!Steps
<1>4. SigningIn' /\ ScreenOfToken' /\ MeOfToken' /\ SavesOwn' /\ LostToken' /\ A!UserOfToken'
  BY <1>1, <1>2
     DEF AccountInv, SigningIn, ScreenOfToken, MeOfToken, SavesOwn, LostToken, Unsaid,
         A!UserOfToken, A!Screen
<1>5. TempLive' BY <1>1, <1>2 DEF AccountInv, TempLive
<1>6. QED BY <1>3, <1>4, <1>5 DEF AccountInv

LEMMA ReloadStep == ASSUME AccountInv, A!Reload PROVE AccountInv'
<1>1. /\ token' = token /\ user' = None /\ held' = token /\ email' = None /\ temp' = None
      /\ step' = (IF token = None THEN "email" ELSE None) /\ accountOdd' = accountOdd
      /\ UNCHANGED <<acct, issued, code, tries, refused, slips, reset, temps, signed>>
      /\ \A x \in accountAsked' :
           \/ x \in accountAsked /\ x.op = "other"
           \/ token # None /\ x = A!Me(token)
  <2>1. accountAsked' = {t \in accountAsked : t.op = "other"}
                         \cup (IF token = None THEN {} ELSE {A!Me(token)})
    BY DEF A!Reload
  <2>2. \A x \in accountAsked' :
           \/ x \in accountAsked /\ x.op = "other"
           \/ token # None /\ x = A!Me(token)
    BY <2>1
  <2>3. QED BY <2>2 DEF A!Reload, A!server, A!counts, A!marks
<1>2. ASSUME token # None
      PROVE  /\ A!Me(token) \in AccountRequests /\ WellAsked(A!Me(token))
             /\ WellAnswered(A!Me(token))
             /\ A!Me(token).op = "me" /\ A!Me(token).from = None /\ A!Me(token).tok = token
             /\ A!Me(token).at = "sent" /\ A!Me(token).here
  BY <1>2, MeTyped DEF AccountInv, ClientTypes
<1>3. None \notin {"email", "password", "profile"} BY AbsentAccount DEF A!Steps
<1>4. KnownTo(acct, token) BY DEF AccountInv, Known
<1>5. ServerTypes' /\ ClientTypes' /\ RequestTypes'
  BY <1>1, <1>2 DEF AccountInv, ServerTypes, ClientTypes, RequestTypes, A!Steps
<1>6. Known'
  <2>1. \A x \in accountAsked' : KnownTo(acct, x.tok) /\ x.op \notin Signing
    BY <1>1, <1>2, <1>4 DEF AccountInv, Known, Signing
  <2>2. QED BY <1>1, <1>4, <2>1 DEF AccountInv, Known
<1>7. OneForm' BY <1>1, <1>2 DEF AccountInv, OneForm, RequestTypes, WellAsked
<1>8. \A x \in accountAsked' : x.op \notin OfForm \cup Signing \cup {"upload", "put"}
  BY <1>1, <1>2 DEF OfForm, Emailed, Signing
<1>9. SigningIn' /\ SavesOwn' BY <1>8 DEF SigningIn, SavesOwn
<1>10. ScreenOfToken' /\ LostToken' /\ A!UserOfToken'
  BY <1>1, <1>3 DEF ScreenOfToken, LostToken, A!UserOfToken, A!Screen
<1>11. MeOfToken' BY <1>1, <1>2 DEF MeOfToken
<1>12. TempLive' BY <1>1, <1>3, <1>8 DEF TempLive, Signing
<1>13. QED BY <1>5, <1>6, <1>7, <1>9, <1>10, <1>11, <1>12 DEF AccountInv

LEMMA OtherStep ==
  ASSUME AccountInv, NEW e \in Emails, NEW c \in A!Codes, A!OtherVerify(e, c)
  PROVE  AccountInv'
<1> DEFINE s == [A!Call("other", e, c, None) EXCEPT !.from = None, !.for = None, !.temp = None]
<1>1. /\ accountAsked' = accountAsked \cup {s} /\ accountOdd' = accountOdd
      /\ UNCHANGED <<acct, issued, code, tries, refused, slips, reset, temps, signed, token, user, held, step,
                     email, temp>>
  BY DEF A!OtherVerify, A!server, A!counts, A!marks, A!client
<1>2. c \in Nat BY DEF A!Codes, AccountInv, ServerTypes
<1>3. /\ s \in AccountRequests /\ s.op = "other" /\ s.from = None /\ s.at = "sent" /\ s.tok = None
      /\ s.email = e
  BY <1>2 DEF AccountRequests, A!Call, Emailed
<1>4. WellAsked(s) /\ WellAnswered(s)
      /\ s.op \notin OfForm \cup Signing \cup {"me", "upload", "put"}
  BY <1>3 DEF WellAsked, WellAnswered, OfForm, Emailed, Signing
<1> HIDE DEF s
<1>5. KnownTo(acct, None) BY DEF KnownTo
<1>6. /\ ServerTypes' /\ ClientTypes' /\ RequestTypes' /\ Known' /\ OneForm'
  BY <1>1, <1>3, <1>4, <1>5
     DEF AccountInv, ServerTypes, ClientTypes, RequestTypes, Known, OneForm
<1>7. SigningIn' /\ ScreenOfToken' /\ MeOfToken' /\ SavesOwn' /\ LostToken' /\ A!UserOfToken'
  BY <1>1, <1>4
     DEF AccountInv, SigningIn, ScreenOfToken, MeOfToken, SavesOwn, LostToken, Unsaid,
         A!UserOfToken, A!Screen
<1>8. TempLive' BY <1>1, <1>3, <1>4 DEF AccountInv, TempLive
<1>9. QED BY <1>6, <1>7, <1>8 DEF AccountInv

LEMMA ExpireStep == ASSUME AccountInv, NEW e \in Emails, A!Expire(e) PROVE AccountInv'
<1>1. /\ UNCHANGED <<acct, issued, signed, token, user, held, step, email, temp, accountAsked>>
      /\ temps' \subseteq temps /\ accountOdd \subseteq accountOdd'
      /\ accountOdd' \subseteq accountOdd \cup {"expired"}
      /\ temps' = temps \/ "expired" \in accountOdd'
  BY DEF A!Expire, A!client
<1>2. /\ code' \in [Emails -> Nat] /\ reset' \in [Emails -> Nat]
      /\ tries' \in [Emails -> Nat] /\ refused' \in [Emails -> Nat] /\ slips' \in [Emails -> Nat]
  <2>1. /\ code \in [Emails -> Nat] /\ reset \in [Emails -> Nat]
        /\ tries \in [Emails -> Nat] /\ refused \in [Emails -> Nat] /\ slips \in [Emails -> Nat]
    BY DEF AccountInv, ServerTypes
  <2>2. CASE A!TriesDeleted(e) /\ UNCHANGED <<code, reset>> BY <2>1, <2>2 DEF A!TriesDeleted
  <2>3. CASE UNCHANGED A!counts
    <3>1. code' \in [Emails -> Nat] /\ reset' \in [Emails -> Nat]
      BY <2>1 DEF A!Expire, A!CodeDeleted
    <3>2. QED BY <2>1, <2>3, <3>1 DEF A!counts
  <2>4. QED BY <2>2, <2>3 DEF A!Expire
<1>3. ServerTypes' /\ ClientTypes' /\ RequestTypes' /\ Known' /\ OneForm'
  BY <1>1, <1>2 DEF AccountInv, ServerTypes, ClientTypes, RequestTypes, Known, OneForm
<1>4. SigningIn' /\ ScreenOfToken' /\ MeOfToken' /\ SavesOwn' /\ LostToken' /\ A!UserOfToken'
  BY <1>1
     DEF AccountInv, SigningIn, ScreenOfToken, MeOfToken, SavesOwn, LostToken, Unsaid,
         A!UserOfToken, A!Screen
<1>5. TempLive' BY <1>1 DEF AccountInv, TempLive
<1>6. QED BY <1>3, <1>4, <1>5 DEF AccountInv

LEMMA AccountUserStep == ASSUME AccountInv, A!UserStep PROVE AccountInv'
<1>1. \A c \in A!Codes : c \in Nat BY DEF A!Codes, AccountInv, ServerTypes
<1>2. email \in Emails \cup {None} BY DEF AccountInv, ClientTypes
<1>3. ASSUME NEW st \in SUBSET A!Steps, "profile" \notin st, NEW op \in OfForm,
             NEW e \in Emails \cup {None}, NEW arg \in Nat, A!Ask(st, op, e, arg)
      PROVE  AccountInv'
  BY <1>3, AskStep
<1>4. {"sendCode", "again", "verify", "verify2FA", "forgot", "reset"} \subseteq OfForm
  BY DEF OfForm, Emailed
<1>5. {"email", "code", "password", "forgot", "reset"} \subseteq A!Steps BY DEF A!Steps
<1>6. CASE \E e \in Emails : A!SubmitEmail(e) \/ A!SubmitForgot(e)
  BY <1>3, <1>4, <1>5, <1>6 DEF A!SubmitEmail, A!SubmitForgot
<1>7. CASE \E c \in A!Codes : A!SubmitCode(c) \/ A!SubmitReset(c)
  BY <1>1, <1>2, <1>3, <1>4, <1>5, <1>7 DEF A!SubmitCode, A!SubmitReset
<1>8. CASE \E n \in {0, 1} : A!SubmitPassword(n)
  BY <1>2, <1>3, <1>4, <1>5, <1>8 DEF A!SubmitPassword
<1>9. CASE A!Resend BY <1>2, <1>3, <1>4, <1>5, <1>9 DEF A!Resend
<1>10. CASE A!Logout BY <1>10, SignOutStep DEF A!Logout
<1>11. QED
  BY <1>6, <1>7, <1>8, <1>9, <1>10, OtherStep, ProfileStep, ReloadStep, TurnStep DEF A!UserStep

LEMMA AccountStep == ASSUME AccountInv, A!Next PROVE AccountInv'
BY AccountUserStep, ServerStep, AnswerStep, ExpireStep DEF A!Next
-----------------------------------------------------------------------------
(* The wrong codes and the requests that may still add one. *)
LEMMA FewerThan ==
  ASSUME NEW S, IsFiniteSet(S), NEW T, NEW f, \A x \in T : \E y \in S : x = f[y]
  PROVE  IsFiniteSet(T) /\ Cardinality(T) <= Cardinality(S)
         /\ Cardinality(T) \in Nat /\ Cardinality(S) \in Nat
<1> DEFINE g == [y \in S |-> f[y]]
           U == {g[y] : y \in S}
<1>1. g \in Surjection(S, U) BY DEF Surjection
<1>2. IsFiniteSet(U) /\ Cardinality(U) <= Cardinality(S) BY <1>1, FS_Surjection
<1>3. T \in SUBSET U OBVIOUS
<1> HIDE DEF U
<1>4. IsFiniteSet(T) /\ Cardinality(T) <= Cardinality(U) BY <1>2, <1>3, FS_Subset
<1>5. QED BY <1>2, <1>4, FS_CardinalityType

(* A request that is reading or has compared was so before; the counts of an email are as they *)
(* were or gone; no code is issued or used. *)
Follows(x, y) == x.at \in {"read", "same"} => y.at = x.at /\ y.email = x.email /\ y.arg = x.arg
NoWorse ==
  \A e \in Emails :
    \/ tries'[e] = tries[e] /\ refused'[e] = refused[e] /\ slips'[e] = slips[e]
    \/ refused'[e] = 0
NoneUsed ==
  UNCHANGED <<issued, used, excused>> /\ \A e \in Emails : code'[e] \in {code[e], 0}

LEMMA AllKept == ASSUME AccountInv, UNCHANGED A!server PROVE NoWorse /\ NoneUsed
BY DEF AccountInv, ServerTypes, NoWorse, NoneUsed, A!server, A!counts, A!marks

(* Every request is one there was before, further on or not, or a getMe. *)
LEMMA NoneNew ==
  ASSUME AccountInv, TriesCounted, ServerTypes', NEW f, NEW z, z.op = "me", z.at = "sent",
         \A x \in accountAsked' :
           \/ x = z
           \/ \E y \in accountAsked :
                /\ x = f[y] /\ (x.op # "me" => y.op # "me")
                /\ x.at = "read" => y.at = "read" /\ y.email = x.email,
         NoWorse
  PROVE  TriesCounted'
<1>1. IsFiniteSet(accountAsked')
  <2>1. \A x \in accountAsked' \ {z} : \E y \in accountAsked : x = f[y] OBVIOUS
  <2>2. IsFiniteSet(accountAsked' \ {z}) BY <2>1, FewerThan DEF TriesCounted
  <2>3. IsFiniteSet((accountAsked' \ {z}) \cup {z}) BY <2>2, FS_AddElement
  <2>4. accountAsked' \subseteq (accountAsked' \ {z}) \cup {z} OBVIOUS
  <2>5. QED BY <2>3, <2>4, FS_Subset
<1>2. Cardinality(Own(accountAsked')) <= MaxAsked
  <2>1. IsFiniteSet(Own(accountAsked)) BY FS_Subset DEF TriesCounted, Own
  <2>2. \A x \in Own(accountAsked') : \E y \in Own(accountAsked) : x = f[y] BY DEF Own
  <2>3. /\ Cardinality(Own(accountAsked')) <= Cardinality(Own(accountAsked))
        /\ Cardinality(Own(accountAsked')) \in Nat /\ Cardinality(Own(accountAsked)) \in Nat
    BY <2>1, <2>2, FewerThan
  <2>4. QED BY <2>3, AccountNumbers DEF TriesCounted
<1>3. ASSUME NEW e \in Emails
      PROVE  /\ refused'[e] <= tries'[e] + slips'[e]
             /\ refused'[e] + Cardinality(Trying(accountAsked', e))
                  < MaxVerifyAttempts + MaxAsked + slips'[e]
  <2>1. IsFiniteSet(Trying(accountAsked, e)) BY FS_Subset DEF TriesCounted, Trying
  <2>2. \A x \in Trying(accountAsked', e) : \E y \in Trying(accountAsked, e) : x = f[y]
    BY DEF Trying
  <2>3. Cardinality(Trying(accountAsked', e)) <= Cardinality(Trying(accountAsked, e))
        /\ Cardinality(Trying(accountAsked', e)) \in Nat
        /\ Cardinality(Trying(accountAsked, e)) \in Nat
    BY <2>1, <2>2, FewerThan
  <2>4. /\ tries[e] \in Nat /\ refused[e] \in Nat /\ slips[e] \in Nat
        /\ tries'[e] \in Nat /\ refused'[e] \in Nat /\ slips'[e] \in Nat
    BY DEF AccountInv, ServerTypes
  <2>5. Cardinality(Trying(accountAsked, e)) <= MaxAsked
    <3>1. Trying(accountAsked, e) \subseteq Own(accountAsked)
      BY DEF Trying, Own, AccountInv, RequestTypes, WellAsked
    <3>2. IsFiniteSet(Own(accountAsked)) BY FS_Subset DEF TriesCounted, Own
    <3>3. Cardinality(Trying(accountAsked, e)) <= Cardinality(Own(accountAsked))
          /\ Cardinality(Own(accountAsked)) \in Nat
      BY <3>1, <3>2, FS_Subset, FS_CardinalityType
    <3>4. QED BY <2>3, <3>3, AccountNumbers DEF TriesCounted
  <2>6. CASE tries'[e] = tries[e] /\ refused'[e] = refused[e] /\ slips'[e] = slips[e]
    BY <2>3, <2>4, <2>6, AccountNumbers DEF TriesCounted
  <2>7. CASE refused'[e] = 0 BY <2>3, <2>4, <2>5, <2>7, AccountNumbers
  <2>8. QED BY <2>6, <2>7 DEF NoWorse
<1>4. QED BY <1>1, <1>2, <1>3 DEF TriesCounted

LEMMA NoneSame ==
  ASSUME SpentOnce, NEW z, z.at = "sent",
         \A x \in accountAsked' : x = z \/ \E y \in accountAsked : Follows(x, y),
         NoneUsed, issued \in Nat
  PROVE  SpentOnce'
<1>1. \A x \in accountAsked' :
        Compared(x) => \E y \in accountAsked : Compared(y) /\ y.email = x.email /\ y.arg = x.arg
  BY DEF Follows, Compared
<1>2. \A e \in Emails : code'[e] <= issued' BY DEF SpentOnce, NoneUsed
<1>3. \A t \in accountAsked' : Compared(t) => t.arg <= issued' BY <1>1 DEF SpentOnce, NoneUsed
<1>4. QED BY <1>1, <1>2, <1>3 DEF SpentOnce, NoneUsed

(* A new request of a user. *)
LEMMA OneMore ==
  ASSUME AccountInv, Tried, A!MayAsk, UNCHANGED A!server, NEW s, s.at = "sent",
         accountAsked' = accountAsked \cup {s}
  PROVE  Tried'
<1>1. IsFiniteSet(accountAsked') BY FS_AddElement DEF Tried, TriesCounted
<1>2. Cardinality(Own(accountAsked')) <= MaxAsked
  <2>1. IsFiniteSet(Own(accountAsked))
        /\ Cardinality(Own(accountAsked)) <= Cardinality(accountAsked)
    BY FS_Subset DEF Tried, TriesCounted, Own
  <2>2. Own(accountAsked') \in {Own(accountAsked), Own(accountAsked) \cup {s}} BY DEF Own
  <2>3. Cardinality(Own(accountAsked')) <= Cardinality(Own(accountAsked)) + 1
    <3>1. CASE Own(accountAsked') = Own(accountAsked) BY <2>1, <3>1, FS_CardinalityType
    <3>2. CASE Own(accountAsked') = Own(accountAsked) \cup {s}
      <4>1. Cardinality(Own(accountAsked)) \in Nat BY <2>1, FS_CardinalityType
      <4> DEFINE both == Own(accountAsked) \cup {s}
      <4>2. Cardinality(both) <= Cardinality(Own(accountAsked)) + 1
        BY <2>1, <4>1, FS_AddElement
      <4>3. Own(accountAsked') = both BY <3>2
      <4> HIDE DEF both
      <4>4. QED BY <4>2, <4>3
    <3>3. QED BY <2>2, <3>1, <3>2
  <2>4. Cardinality(accountAsked) < MaxAsked BY AccountCardinality DEF A!MayAsk
  <2>5. /\ Cardinality(Own(accountAsked)) \in Nat /\ Cardinality(accountAsked) \in Nat
        /\ Cardinality(Own(accountAsked')) \in Nat
    BY <2>1, <2>2, FS_AddElement, FS_CardinalityType DEF Tried, TriesCounted
  <2>6. QED BY <2>1, <2>3, <2>4, <2>5, AccountNumbers
<1>3. \A e \in Emails : Trying(accountAsked', e) = Trying(accountAsked, e) BY DEF Trying
<1>4. TriesCounted'
  BY <1>1, <1>2, <1>3 DEF Tried, TriesCounted, A!server, A!counts
<1>5. SpentOnce'
  <2>1. \A x \in accountAsked' : x = s \/ \E y \in accountAsked : Follows(x, y) BY DEF Follows
  <2>2. issued \in Nat BY DEF AccountInv, ServerTypes
  <2>3. QED BY <2>1, <2>2, AllKept, NoneSame DEF Tried
<1>6. QED BY <1>4, <1>5 DEF Tried

(* A request is served. *)
LEMMA ServedCounted ==
  ASSUME AccountInv, TriesCounted, ServerTypes', NEW t \in accountAsked,
         A!Serve(t) \/ A!CompareCode(t) \/ A!Grant(t)
  PROVE  TriesCounted'
<1>1. PICK at, res :
        /\ A!Becomes(t, at, res)
        /\ at = "read" => /\ A!ReadTries(t)
                          /\ \/ A!MayTry(t.email) /\ UNCHANGED slips
                             \/ slips' = A!Plus(slips, t.email)
        /\ A!ReadTries(t) => at = "read" \/ UNCHANGED slips
  <2>1. CASE A!ReadTries(t)
    <3>1. CASE A!MayTry(t.email) /\ A!Becomes(t, "read", None) /\ UNCHANGED slips
      BY <2>1, <3>1
    <3>2. CASE A!Becomes(t, "fail", None) /\ UNCHANGED slips BY <3>2
    <3>3. CASE A!Becomes(t, "read", None) /\ slips' = A!Plus(slips, t.email) BY <2>1, <3>3
    <3>4. QED BY <2>1, <3>1, <3>2, <3>3 DEF A!ReadTries
  <2>2. CASE ~A!ReadTries(t)
    <3>1. \E at \in {"same", "ok", "fail"} : \E res : A!Becomes(t, at, res)
      BY <2>2
         DEF A!Serve, A!CompareCode, A!Grant, A!Admits, A!SendCode, A!SendPasswordResetCode,
             A!Verify2FA, A!ResetPassword, A!Authorised, A!Sign
    <3>2. QED BY <2>2, <3>1
  <2>3. QED BY <2>1, <2>2
<1> DEFINE s == [t EXCEPT !.at = at, !.res = res]
           f == [y \in accountAsked |-> IF y = t THEN s ELSE y]
           z == [op |-> "me", at |-> "sent"]
<1>2. t \in AccountRequests /\ s.op = t.op /\ s.at = at /\ s.email = t.email
  BY DEF AccountInv, RequestTypes, AccountRequests
<1>3. accountAsked' = (accountAsked \ {t}) \cup {s} BY <1>1 DEF A!Becomes
<1>4. f[t] = s /\ \A y \in accountAsked \ {t} : f[y] = y OBVIOUS
<1>5. \A x \in accountAsked' : \E y \in accountAsked : x = f[y] /\ x.op = y.op /\ x.email = y.email
  BY <1>2, <1>3, <1>4
<1>6. z.op = "me" /\ z.at = "sent" OBVIOUS
<1> HIDE DEF s, f, z
<1>7. CASE at # "read" /\ NoWorse
  <2>1. \A x \in accountAsked' :
          \/ x = z
          \/ \E y \in accountAsked :
               /\ x = f[y] /\ (x.op # "me" => y.op # "me")
               /\ x.at = "read" => y.at = "read" /\ y.email = x.email
    BY <1>2, <1>3, <1>4, <1>7
  <2>2. QED BY <1>6, <1>7, <2>1, NoneNew
<1>8. IsFiniteSet(accountAsked') BY <1>5, FewerThan DEF TriesCounted
<1>9. Cardinality(Own(accountAsked')) <= MaxAsked
  <2>1. IsFiniteSet(Own(accountAsked)) BY FS_Subset DEF TriesCounted, Own
  <2>2. \A x \in Own(accountAsked') : \E y \in Own(accountAsked) : x = f[y] BY <1>5 DEF Own
  <2>3. /\ Cardinality(Own(accountAsked')) <= Cardinality(Own(accountAsked))
        /\ Cardinality(Own(accountAsked')) \in Nat /\ Cardinality(Own(accountAsked)) \in Nat
    BY <2>1, <2>2, FewerThan
  <2>4. QED BY <2>3, AccountNumbers DEF TriesCounted
<1>10. ASSUME NEW e \in Emails
       PROVE  /\ IsFiniteSet(Trying(accountAsked, e)) /\ IsFiniteSet(Trying(accountAsked', e))
              /\ Cardinality(Trying(accountAsked, e)) \in Nat
              /\ Cardinality(Trying(accountAsked', e)) \in Nat
              /\ tries[e] \in Nat /\ refused[e] \in Nat /\ slips[e] \in Nat
              /\ refused[e] <= tries[e] + slips[e]
              /\ refused[e] + Cardinality(Trying(accountAsked, e))
                   < MaxVerifyAttempts + MaxAsked + slips[e]
  <2>1. IsFiniteSet(Trying(accountAsked, e)) /\ IsFiniteSet(Trying(accountAsked', e))
    BY <1>8, FS_Subset DEF TriesCounted, Trying
  <2>2. QED BY <2>1, FS_CardinalityType DEF AccountInv, ServerTypes, TriesCounted
<1>11. MaxVerifyAttempts \in Nat /\ MaxAsked \in Nat BY AccountNumbers
<1> DEFINE Counted(e) == /\ refused'[e] <= tries'[e] + slips'[e]
                         /\ refused'[e] + Cardinality(Trying(accountAsked', e))
                              < MaxVerifyAttempts + MaxAsked + slips'[e]
<1>16. ASSUME NEW e \in Emails, e # t.email,
              tries'[e] = tries[e] /\ refused'[e] = refused[e] /\ slips'[e] = slips[e]
       PROVE  Counted(e)
  <2>1. Trying(accountAsked', e) \subseteq Trying(accountAsked, e)
    BY <1>2, <1>3, <1>16 DEF Trying
  <2>2. Cardinality(Trying(accountAsked', e)) <= Cardinality(Trying(accountAsked, e))
    BY <1>10, <2>1, FS_Subset
  <2>3. QED BY <1>10, <1>11, <1>16, <2>2
<1>12. CASE at = "read"
  <2>1. /\ tries' = tries /\ refused' = refused
        /\ \A e \in Emails : slips'[e] = IF e = t.email /\ slips' # slips THEN slips[e] + 1 ELSE slips[e]
        /\ t.op # "me"
    BY <1>1, <1>12 DEF A!ReadTries, A!Plus, AccountInv, ServerTypes
  <2>2. ASSUME NEW e \in Emails, e = t.email PROVE Counted(e)
    <3>1. CASE A!MayTry(t.email) /\ UNCHANGED slips
      <4>1. tries[e] < MaxVerifyAttempts BY <2>2, <3>1 DEF A!MayTry
      <4>2. Trying(accountAsked', e) \subseteq Own(accountAsked')
        <5>1. \A x \in accountAsked' : x.op = "me" => x.at # "read"
          <6>1. \A y \in accountAsked : y.op = "me" => y.at # "read"
            BY DEF AccountInv, RequestTypes, WellAsked
          <6>2. QED BY <1>2, <1>3, <2>1, <6>1
        <5>2. QED BY <5>1 DEF Trying, Own
      <4>3. IsFiniteSet(Own(accountAsked')) BY <1>8, FS_Subset DEF Own
      <4>4. Cardinality(Trying(accountAsked', e)) <= Cardinality(Own(accountAsked'))
            /\ Cardinality(Own(accountAsked')) \in Nat
        BY <4>2, <4>3, FS_Subset, FS_CardinalityType
      <4>5. QED BY <1>9, <1>10, <1>11, <2>1, <3>1, <4>1, <4>4
    <3>2. CASE slips' = A!Plus(slips, t.email)
      <4>1. slips'[e] = slips[e] + 1 BY <2>2, <3>2 DEF A!Plus, AccountInv, ServerTypes
      <4>2. Trying(accountAsked', e) \subseteq Trying(accountAsked, e) \cup {s}
        BY <1>3 DEF Trying
      <4>3. /\ IsFiniteSet(Trying(accountAsked, e) \cup {s})
            /\ Cardinality(Trying(accountAsked, e) \cup {s})
                 <= Cardinality(Trying(accountAsked, e)) + 1
            /\ Cardinality(Trying(accountAsked, e) \cup {s}) \in Nat
        <5>1. /\ IsFiniteSet(Trying(accountAsked, e) \cup {s})
              /\ Cardinality(Trying(accountAsked, e) \cup {s})
                   \in {Cardinality(Trying(accountAsked, e)), Cardinality(Trying(accountAsked, e)) + 1}
          BY <1>10, FS_AddElement
        <5>2. QED BY <1>10, <5>1
      <4>4. Cardinality(Trying(accountAsked', e)) <= Cardinality(Trying(accountAsked, e)) + 1
        BY <1>10, <4>2, <4>3, FS_Subset
      <4>5. QED BY <1>10, <1>11, <2>1, <4>1, <4>4
    <3>3. QED BY <1>1, <1>12, <3>1, <3>2
  <2>3. ASSUME NEW e \in Emails, e # t.email PROVE Counted(e) BY <1>16, <2>1, <2>3
  <2>4. QED BY <1>8, <1>9, <2>2, <2>3 DEF TriesCounted
<1>13. CASE /\ A!CompareCode(t) /\ refused' = A!Plus(refused, t.email) /\ at # "read"
            /\ \/ tries' = A!Plus(tries, t.email) /\ UNCHANGED slips
               \/ slips' = A!Plus(slips, t.email) /\ UNCHANGED tries
  <2>1. t.at = "read" /\ t.email \in Emails
    BY <1>13 DEF A!CompareCode, AccountInv, RequestTypes, WellAsked, Emailed
  <2>2. ASSUME NEW e \in Emails, e = t.email PROVE Counted(e)
    <3>1. Trying(accountAsked', e) \subseteq Trying(accountAsked, e) \ {t}
          /\ t \in Trying(accountAsked, e)
      BY <1>2, <1>3, <1>13, <2>1, <2>2 DEF Trying
    <3>2. /\ IsFiniteSet(Trying(accountAsked, e) \ {t})
          /\ Cardinality(Trying(accountAsked, e) \ {t}) = Cardinality(Trying(accountAsked, e)) - 1
      BY <1>10, <3>1, FS_RemoveElement
    <3>3. Cardinality(Trying(accountAsked', e)) <= Cardinality(Trying(accountAsked, e)) - 1
      BY <3>1, <3>2, FS_Subset
    <3>4. /\ refused'[e] = refused[e] + 1
          /\ \/ tries'[e] = tries[e] + 1 /\ slips'[e] = slips[e]
             \/ slips'[e] = slips[e] + 1 /\ tries'[e] = tries[e]
      BY <1>13, <2>2 DEF A!Plus, AccountInv, ServerTypes
    <3>5. QED BY <1>10, <1>11, <3>3, <3>4
  <2>3. ASSUME NEW e \in Emails, e # t.email PROVE Counted(e)
    <3>1. tries'[e] = tries[e] /\ refused'[e] = refused[e] /\ slips'[e] = slips[e]
      BY <1>13, <2>3 DEF A!Plus, AccountInv, ServerTypes
    <3>2. QED BY <1>16, <2>3, <3>1
  <2>4. QED BY <1>8, <1>9, <2>2, <2>3 DEF TriesCounted
<1>14. \/ at = "read" \/ NoWorse
       \/ /\ A!CompareCode(t) /\ refused' = A!Plus(refused, t.email)
          /\ \/ tries' = A!Plus(tries, t.email) /\ UNCHANGED slips
             \/ slips' = A!Plus(slips, t.email) /\ UNCHANGED tries
  <2>1. CASE UNCHANGED <<tries, refused, slips>> BY <2>1 DEF NoWorse
  <2>2. CASE A!Grant(t)
    <3>1. CASE A!TriesDeleted(t.email)
      BY <3>1 DEF A!TriesDeleted, NoWorse, AccountInv, ServerTypes
    <3>2. CASE UNCHANGED A!counts BY <2>1, <3>2 DEF A!counts
    <3>3. QED BY <2>2, <3>1, <3>2 DEF A!Grant
  <2>3. CASE A!CompareCode(t) BY <2>1, <2>3 DEF A!CompareCode, A!counts
  <2>4. CASE A!Serve(t) /\ ~A!ReadTries(t)
    BY <2>1, <2>4
       DEF A!Serve, A!SendCode, A!SendPasswordResetCode, A!Verify2FA,
           A!ResetPassword, A!Authorised, A!server, A!counts
  <2>5. CASE A!ReadTries(t)
    <3>1. CASE UNCHANGED slips BY <2>1, <2>5, <3>1 DEF A!ReadTries
    <3>2. QED BY <1>1, <2>5, <3>1
  <2>6. QED BY <2>2, <2>3, <2>4, <2>5
<1>15. QED BY <1>1, <1>7, <1>12, <1>13, <1>14

(* And what becomes of the codes. *)
LEMMA ServedSpent ==
  ASSUME AccountInv, SpentOnce, ServerTypes', NEW t \in accountAsked,
         A!Serve(t) \/ A!CompareCode(t) \/ A!Grant(t)
  PROVE  SpentOnce'
<1>1. t \in AccountRequests /\ issued \in Nat /\ code \in [Emails -> Nat]
  BY DEF AccountInv, RequestTypes, ServerTypes
<1>2. ASSUME NEW at, NEW res, A!Becomes(t, at, res)
      PROVE  \A x \in accountAsked' :
               \/ x \in accountAsked \ {t}
               \/ x.at = at /\ x.email = t.email /\ x.arg = t.arg
  BY <1>1, <1>2 DEF A!Becomes, AccountRequests
<1>3. ASSUME UNCHANGED <<used, excused>>, issued' >= issued,
             \A e \in Emails : code'[e] \in {code[e], issued'} /\ (code'[e] = code[e] \/ issued' > issued),
             NEW at \in {"read", "ok", "fail"}, NEW res, A!Becomes(t, at, res), issued' \in Nat
      PROVE  SpentOnce'
  <2>1. \A x \in accountAsked' : Compared(x) => x \in accountAsked BY <1>2, <1>3 DEF Compared
  <2>2. \A x \in used : x[2] \in 0..issued BY DEF SpentOnce
  <2>3. ASSUME NEW e \in Emails, NEW c \in Nat, <<e, c>> \in used PROVE c <= issued
    BY <2>2, <2>3
  <2>4. \A e \in Emails : code'[e] <= issued' BY <1>1, <1>3 DEF SpentOnce
  <2>5. \A x \in accountAsked' : Compared(x) => x.arg <= issued'
    BY <1>1, <1>3, <2>1 DEF SpentOnce, AccountInv, RequestTypes, AccountRequests
  <2>6. used' \subseteq Emails \X (0..issued') BY <1>1, <1>3 DEF SpentOnce
  <2>7. ASSUME NEW e \in Emails, NEW c \in Nat \ {0}, <<e, c>> \in used' \ excused'
        PROVE  /\ code'[e] # c
               /\ \A x \in accountAsked' : Compared(x) => x.email # e \/ x.arg # c
    BY <1>1, <1>3, <2>1, <2>3, <2>7 DEF SpentOnce
  <2>8. QED BY <2>4, <2>5, <2>6, <2>7 DEF SpentOnce
<1>4. CASE A!Serve(t)
  <2>1. UNCHANGED <<used, excused>> /\ issued' >= issued /\ issued' \in Nat
        /\ (\A e \in Emails : code'[e] \in {code[e], issued'} /\ (code'[e] = code[e] \/ issued' > issued))
    BY <1>1, <1>4
       DEF A!Serve, A!SendCode, A!SendPasswordResetCode, A!ReadTries, A!Verify2FA,
           A!ResetPassword, A!Authorised, A!server, A!marks
  <2>2. \E at \in {"read", "ok", "fail"} : \E res : A!Becomes(t, at, res)
    BY <1>4
       DEF A!Serve, A!SendCode, A!SendPasswordResetCode, A!ReadTries, A!Verify2FA,
           A!ResetPassword, A!Authorised, A!Sign
  <2>3. QED BY <1>3, <2>1, <2>2
<1>5. CASE A!CompareCode(t)
  <2>1. UNCHANGED <<used, excused, code, issued>> BY <1>5 DEF A!CompareCode, A!marks
  <2>2. CASE A!Becomes(t, "fail", None) BY <1>1, <1>3, <2>1, <2>2
  <2>3. CASE code[t.email] = t.arg /\ A!Becomes(t, "same", None)
    <3>1. t.email \in Emails
      BY <1>5 DEF A!CompareCode, AccountInv, RequestTypes, WellAsked, Emailed
    <3>2. QED BY <1>1, <1>2, <2>1, <2>3, <3>1 DEF SpentOnce, Compared
  <2>4. QED BY <1>5, <2>2, <2>3 DEF A!CompareCode
<1>6. CASE A!Grant(t)
  <2>1. PICK at \in {"ok", "fail"} : \E res : A!Becomes(t, at, res)
    BY <1>6 DEF A!Grant, A!Admits, A!Sign
  <2>2. /\ issued' = issued /\ Compared(t) /\ t.email \in Emails /\ t.arg \in Nat
        /\ used' \in {used, used \cup {<<t.email, t.arg>>}} /\ excused \subseteq excused'
    <3>1. t.op \in {"verify", "other"} /\ t.at = "same" /\ t.email \in Emails /\ t.arg \in Nat
      BY <1>1, <1>6 DEF A!Grant, AccountInv, RequestTypes, AccountRequests, WellAsked, Emailed
    <3>2. /\ issued' = issued /\ excused \subseteq excused'
          /\ used' \in {used, used \cup {<<t.email, t.arg>>}}
      BY <1>6 DEF A!Grant, A!Admits
    <3>3. QED BY <3>1, <3>2 DEF Compared
  <2>3. \A x \in accountAsked' : Compared(x) => x \in accountAsked \ {t}
    BY <1>2, <2>1 DEF Compared
  <2>4. \A e \in Emails : code'[e] \in {code[e], 0}
    BY <1>1, <1>6 DEF A!Grant, A!CodeDeleted
  <2>5. ASSUME <<t.email, t.arg>> \notin excused', t.arg # 0
        PROVE  /\ code'[t.email] # t.arg
               /\ \A x \in accountAsked' :
                    Compared(x) => x.email # t.email \/ x.arg # t.arg
    <3>1. ~A!Overlapped(t) /\ code' # code BY <1>6, <2>5 DEF A!Grant
    <3>2. code'[t.email] = 0 BY <1>1, <1>6, <2>2, <3>1 DEF A!Grant, A!CodeDeleted
    <3>3. QED BY <2>3, <2>5, <3>1, <3>2 DEF A!Overlapped, Compared
  <2>6. \A e \in Emails : code'[e] <= issued' BY <1>1, <2>2, <2>4 DEF SpentOnce
  <2>7. \A x \in accountAsked' : Compared(x) => x.arg <= issued'
    BY <2>2, <2>3 DEF SpentOnce
  <2>8. used' \subseteq Emails \X (0..issued') BY <1>1, <2>2 DEF SpentOnce
  <2>9. ASSUME NEW e \in Emails, NEW c \in Nat \ {0}, <<e, c>> \in used' \ excused'
        PROVE  /\ code'[e] # c
               /\ \A x \in accountAsked' : Compared(x) => x.email # e \/ x.arg # c
    <3>1. CASE e = t.email /\ c = t.arg BY <2>5, <2>9, <3>1
    <3>2. CASE ~(e = t.email /\ c = t.arg)
      <4>1. <<e, c>> \in used \ excused BY <2>2, <2>9, <3>2
      <4>2. QED BY <2>3, <2>4, <2>9, <4>1 DEF SpentOnce
    <3>3. QED BY <3>1, <3>2
  <2>10. QED BY <2>6, <2>7, <2>8, <2>9 DEF SpentOnce
<1>7. QED BY <1>4, <1>5, <1>6

(* The token and the user are set. *)
LEMMA SetCounted ==
  ASSUME AccountInv, Tried, ServerTypes', UNCHANGED A!server,
         NEW tok \in A!Tokens \cup {None}, NEW u, NEW st, NEW tmp,
         NEW T \in SUBSET accountAsked, A!Set(tok, u, st, tmp, T)
  PROVE  Tried'
<1>1. PICK stays \in BOOLEAN :
        accountAsked' \subseteq
          {[y EXCEPT !.here = y.here /\ (stays \/ y.from = None)
                              /\ (tok = token \/ y.op # "me")] : y \in T}
          \cup (IF tok = None \/ tok = token THEN {} ELSE {A!Me(tok)})
  BY SetRequests
<1> DEFINE f == [y \in accountAsked |-> [y EXCEPT !.here = y.here /\ (stays \/ y.from = None)
                                                  /\ (tok = token \/ y.op # "me")]]
           z == IF tok = None THEN [op |-> "me", at |-> "sent"] ELSE A!Me(tok)
<1>2. z.op = "me" /\ z.at = "sent"
  <2>1. CASE tok = None BY <2>1
  <2>2. CASE tok # None BY <2>2, MeTyped
  <2>3. QED BY <2>1, <2>2
<1>3. \A y \in accountAsked : f[y].op = y.op /\ f[y].at = y.at /\ f[y].email = y.email /\ f[y].arg = y.arg
  BY DEF AccountInv, RequestTypes, AccountRequests
<1>4. \A x \in accountAsked' : x = z \/ \E y \in accountAsked : x = f[y] BY <1>1
<1> HIDE DEF f, z
<1>5. \A x \in accountAsked' :
        \/ x = z
        \/ \E y \in accountAsked :
             /\ x = f[y] /\ (x.op # "me" => y.op # "me")
             /\ Follows(x, y)
  BY <1>3, <1>4 DEF Follows
<1>6. NoWorse /\ NoneUsed BY AllKept
<1>7. TriesCounted'
  <2>1. \A x \in accountAsked' :
          \/ x = z
          \/ \E y \in accountAsked :
               /\ x = f[y] /\ (x.op # "me" => y.op # "me")
               /\ x.at = "read" => y.at = "read" /\ y.email = x.email
    BY <1>5 DEF Follows
  <2>2. QED BY <1>2, <1>6, <2>1, NoneNew DEF Tried
<1>8. SpentOnce'
  <2>1. \A x \in accountAsked' : x = z \/ \E y \in accountAsked : Follows(x, y) BY <1>5
  <2>2. issued \in Nat /\ z.at = "sent" BY <1>2 DEF AccountInv, ServerTypes
  <2>3. QED BY <1>6, <2>1, <2>2, NoneSame DEF Tried
<1>9. QED BY <1>7, <1>8 DEF Tried

(* Requests are over, or asked once more. *)
LEMMA LeftCounted ==
  ASSUME AccountInv, Tried, ServerTypes', NEW z, z.op = "me", z.at = "sent",
         accountAsked' \subseteq accountAsked \cup {z},
         NoWorse, NoneUsed
  PROVE  Tried'
<1> DEFINE f == [y \in accountAsked |-> y]
<1>1. \A x \in accountAsked' :
        \/ x = z
        \/ \E y \in accountAsked :
             /\ x = f[y] /\ (x.op # "me" => y.op # "me")
             /\ Follows(x, y)
  BY DEF Follows
<1> HIDE DEF f
<1>2. QED BY <1>1, NoneNew, NoneSame DEF Follows, Tried, AccountInv, ServerTypes

LEMMA AnswerCounted ==
  ASSUME AccountInv, Tried, ServerTypes', NEW t \in accountAsked,
         A!Answer(t) \/ A!Fails(t)
  PROVE  Tried'
<1>1. UNCHANGED A!server BY DEF A!Answer, A!Fails
<1>2. NoWorse /\ NoneUsed BY <1>1, AllKept
<1>3. A!Rest(t) \in SUBSET accountAsked BY DEF A!Rest
<1>4. CASE A!Told(t)
  <2> DEFINE z == [op |-> "me", at |-> "sent"]
  <2>1. z.op = "me" /\ z.at = "sent" OBVIOUS
  <2>2. accountAsked' \subseteq accountAsked \cup {z} BY <1>4 DEF A!Told, A!Rest
  <2> HIDE DEF z
  <2>3. QED BY <1>2, <2>1, <2>2, LeftCounted
<1>5. CASE A!GoOn(t)
  <2> DEFINE s == [t EXCEPT !.op = IF t.op = "put" THEN "get" ELSE "put", !.at = "sent",
                           !.res = None, !.tok = held]
             f == [y \in accountAsked |-> IF y = t THEN s ELSE y]
             z == [op |-> "me", at |-> "sent"]
  <2>1. z.op = "me" /\ z.at = "sent" OBVIOUS
  <2>2. t \in AccountRequests /\ t.op # "me" BY <1>5 DEF A!GoOn, AccountInv, RequestTypes
  <2>3. s.at = "sent" BY <2>2 DEF AccountRequests
  <2>4. accountAsked' = (accountAsked \ {t}) \cup {s} BY <1>5 DEF A!GoOn, A!Rest
  <2>5. f[t] = s /\ \A y \in accountAsked \ {t} : f[y] = y OBVIOUS
  <2> HIDE DEF f, s, z
  <2>6. \A x \in accountAsked' :
          \/ x = z
          \/ \E y \in accountAsked :
               /\ x = f[y] /\ (x.op # "me" => y.op # "me")
               /\ Follows(x, y)
    BY <2>2, <2>3, <2>4, <2>5 DEF Follows
  <2>7. TriesCounted'
    <3>1. \A x \in accountAsked' :
            \/ x = z
            \/ \E y \in accountAsked :
                 /\ x = f[y] /\ (x.op # "me" => y.op # "me")
                 /\ x.at = "read" => y.at = "read" /\ y.email = x.email
      BY <2>6 DEF Follows
    <3>2. QED BY <1>2, <2>1, <3>1, NoneNew DEF Tried
  <2>8. SpentOnce'
    <3>1. \A x \in accountAsked' : x = z \/ \E y \in accountAsked : Follows(x, y) BY <2>6
    <3>2. issued \in Nat BY DEF AccountInv, ServerTypes
    <3>3. QED BY <1>2, <2>1, <3>1, <3>2, NoneSame DEF Tried
  <2>9. QED BY <2>7, <2>8 DEF Tried
<1>6. CASE \E tok, u, st, tmp : tok \in A!Tokens \cup {None} /\ A!Set(tok, u, st, tmp, A!Rest(t))
  BY <1>1, <1>3, <1>6, SetCounted
<1>7. QED
  <2>1. token \in A!Tokens \cup {None} BY DEF AccountInv, ClientTypes
  <2>2. CASE A!Answer(t) /\ A!SignedIn(t)
    <3>1. t.op \in Signing /\ t.at = "ok" BY <2>2 DEF A!Answer, A!SignedIn, Signing
    <3>2. t.res.tok # None => t.res.tok \in A!Tokens BY <3>1, SignedOf
    <3>3. QED BY <1>6, <2>1, <2>2, <3>2 DEF A!SignedIn
  <2>3. CASE A!Answer(t) /\ ~A!SignedIn(t)
    BY <1>4, <1>5, <1>6, <2>1, <2>3
       DEF A!Answer, A!Moved, A!Heard, A!SetUser, A!GotMe
  <2>4. CASE A!Fails(t) BY <1>4, <1>5, <1>6, <2>4 DEF A!Fails
  <2>5. QED BY <2>2, <2>3, <2>4

LEMMA UserCounted ==
  ASSUME AccountInv, Tried, ServerTypes', A!UserStep
  PROVE  Tried'
<1>1. ASSUME NEW st, NEW op, NEW e, NEW arg, A!Ask(st, op, e, arg) PROVE Tried'
  <2>1. A!Call(op, e, arg, held).at = "sent" BY DEF A!Call
  <2>2. QED BY <1>1, <2>1, OneMore DEF A!Ask
<1>2. CASE A!Logout
  <2>1. accountAsked \in SUBSET accountAsked /\ None \in A!Tokens \cup {None} OBVIOUS
  <2>2. QED BY <1>2, <2>1, SetCounted DEF A!Logout
<1>3. CASE A!Reload
  <2> DEFINE z == IF token = None THEN [op |-> "me", at |-> "sent"] ELSE A!Me(token)
  <2>1. z.op = "me" /\ z.at = "sent"
    <3>1. token # None => token \in A!Tokens BY DEF AccountInv, ClientTypes
    <3>2. CASE token = None BY <3>2
    <3>3. CASE token # None BY <3>1, <3>3, MeTyped
    <3>4. QED BY <3>2, <3>3
  <2>2. accountAsked' = {t \in accountAsked : t.op = "other"}
                         \cup (IF token = None THEN {} ELSE {A!Me(token)})
    BY <1>3 DEF A!Reload
  <2>3. accountAsked' \subseteq accountAsked \cup {z} BY <2>2
  <2>4. NoWorse /\ NoneUsed BY <1>3, AllKept DEF A!Reload
  <2> HIDE DEF z
  <2>5. QED BY <2>1, <2>3, <2>4, LeftCounted
<1>4. CASE \E to : A!Turn(to)
  BY <1>4 DEF A!Turn, A!server, A!counts, A!marks, Tried, TriesCounted, SpentOnce
<1>5. ASSUME NEW e, NEW c, A!OtherVerify(e, c) PROVE Tried'
  <2> DEFINE s == [A!Call("other", e, c, None) EXCEPT !.from = None, !.for = None, !.temp = None]
  <2>1. s.at = "sent" BY DEF A!Call
  <2>2. accountAsked' = accountAsked \cup {s} /\ A!MayAsk /\ UNCHANGED A!server
    BY <1>5 DEF A!OtherVerify
  <2> HIDE DEF s
  <2>3. QED BY <2>1, <2>2, OneMore
<1>6. ASSUME NEW pic, NEW n, A!SubmitProfile(pic, n) PROVE Tried'
  <2> DEFINE s == A!Call(IF pic THEN "upload" ELSE "put", None, n, held)
  <2>1. s.at = "sent" BY DEF A!Call
  <2>2. accountAsked' = accountAsked \cup {s} /\ A!MayAsk /\ UNCHANGED A!server
    BY <1>6 DEF A!SubmitProfile
  <2> HIDE DEF s
  <2>3. QED BY <2>1, <2>2, OneMore
<1>7. QED
  BY <1>1, <1>2, <1>3, <1>4, <1>5, <1>6
     DEF A!UserStep, A!SubmitEmail, A!SubmitForgot, A!SubmitCode, A!SubmitReset, A!SubmitPassword,
         A!Resend

LEMMA TriesStep ==
  ASSUME AccountInv, Tried, A!Next
  PROVE  Tried'
<1>1. ServerTypes' BY AccountStep DEF AccountInv
<1>2. ASSUME NEW e \in Emails, A!Expire(e) PROVE Tried'
  <2>1. accountAsked' = accountAsked BY <1>2 DEF A!Expire, A!client
  <2>2. NoWorse /\ NoneUsed
    <3>1. CASE A!TriesDeleted(e) /\ UNCHANGED code
      BY <1>2, <3>1 DEF A!Expire, A!TriesDeleted, A!marks, NoWorse, NoneUsed, AccountInv, ServerTypes
    <3>2. CASE UNCHANGED A!counts /\ (A!CodeDeleted(e) \/ UNCHANGED code)
      BY <1>2, <3>2
         DEF A!Expire, A!CodeDeleted, A!counts, A!marks, NoWorse, NoneUsed, AccountInv, ServerTypes
    <3>3. QED BY <1>2, <3>1, <3>2 DEF A!Expire
  <2> DEFINE z == [op |-> "me", at |-> "sent"]
  <2>3. z.op = "me" /\ z.at = "sent" OBVIOUS
  <2> HIDE DEF z
  <2>4. QED BY <1>1, <2>1, <2>2, <2>3, LeftCounted
<1>3. QED
  BY <1>1, <1>2, UserCounted, ServedCounted, ServedSpent, AnswerCounted DEF A!Next, Tried
-----------------------------------------------------------------------------
(* Of the properties. *)
LEMMA AccountProperties ==
  ASSUME AccountInv, Tried
  PROVE  A!UserOfToken /\ A!OwnProfile /\ A!ProfileHasToken /\ A!PasswordLive /\ A!TriesBounded
         /\ A!CodeOnce
<1>1. A!UserOfToken BY DEF AccountInv
<1>2. A!OwnProfile BY DEF AccountInv, SavesOwn, A!OwnProfile
<1>3. A!ProfileHasToken BY DEF AccountInv, LostToken, Unsaid, A!ProfileHasToken
<1>4. A!PasswordLive
  <2>1. ~A!Busy => \A t \in accountAsked : t.op # "verify2FA"
    BY DEF AccountInv, SigningIn, Signing, OfForm, Emailed, A!Busy
  <2>2. QED BY <2>1 DEF AccountInv, TempLive, A!PasswordLive
<1>5. A!TriesBounded
  <2>1. ASSUME NEW e \in Emails
        PROVE  refused[e] < MaxVerifyAttempts + MaxAsked + slips[e]
    <3>1. IsFiniteSet(Trying(accountAsked, e)) BY FS_Subset DEF Tried, TriesCounted, Trying
    <3>2. Cardinality(Trying(accountAsked, e)) \in Nat BY <3>1, FS_CardinalityType
    <3>3. refused[e] \in Nat /\ slips[e] \in Nat BY DEF AccountInv, ServerTypes
    <3>4. QED BY <3>2, <3>3, AccountNumbers DEF Tried, TriesCounted
  <2>2. QED BY <2>1 DEF A!TriesBounded
<1>6. A!CodeOnce BY DEF Tried, SpentOnce, Compared, A!CodeOnce, AccountInv, ServerTypes
<1>7. QED BY <1>1, <1>2, <1>3, <1>4, <1>5, <1>6

(* What holds of the part that is about accounts. *)
AccountPart == only = "account" => AccountInv /\ Tried

LEMMA AccountAlways == PartsSpec => []AccountPart
<1>1. PartsInit => AccountPart BY AccountInit DEF PartsInit, AccountPart
<1>2. AccountPart /\ [PartsNext]_<<only, vars, panelVars, accountVars, callsVars, mediaVars>>
        => AccountPart'
  <2>1. SUFFICES ASSUME AccountPart, only' = "account",
                        [PartsNext]_<<only, vars, panelVars, accountVars, callsVars, mediaVars>>
                 PROVE  (AccountInv /\ Tried)'
    BY DEF AccountPart
  <2>2. only = "account" /\ (A!Next \/ UNCHANGED accountVars)
    BY <2>1 DEF PartsNext, Only
  <2>3. CASE A!Next BY <2>1, <2>2, <2>3, AccountStep, TriesStep DEF AccountPart
  <2>4. CASE UNCHANGED accountVars
    BY <2>1, <2>2, <2>4
       DEF AccountPart, accountVars, AccountInv, Tried, TriesCounted, SpentOnce, ServerTypes, ClientTypes,
           RequestTypes, Known, OneForm, SigningIn, ScreenOfToken, MeOfToken, SavesOwn, LostToken,
           TempLive, Unsaid,
           A!UserOfToken, A!Screen, A!Needs
  <2>5. QED BY <2>2, <2>3, <2>4
<1>3. QED BY <1>1, <1>2, PTL DEF PartsSpec

(* UserOfToken, OwnProfile and ProfileHasToken of Account: the user shown, the profile saved    *)
(* and the last step of the form are those of the token, but for the answers that come late,    *)
(* for any accounts, tokens and requests under way (App.tsx, AuthScreen.tsx, SettingsPanel.tsx).*)
THEOREM TokenAndUser == PartsSpec => []UserOfToken
<1>1. AccountPart => UserOfToken BY AccountProperties DEF AccountPart, UserOfToken
<1>2. QED BY <1>1, AccountAlways, PTL

(* TriesBounded, CodeOnce and PasswordLive of Account: no more tries are refused than the limit, *)
(* those already under way and one for each error of Redis; a code signs in once, unless it was  *)
(* not deleted or compared with twice before it was; and a password that is asked for can be     *)
(* checked, unless its token ran out, was spent, or the form was left (auth/service.go,          *)
(* VerifyCode and Verify2FA).                                                                    *)
THEOREM CodesCounted == PartsSpec => []TriesBounded
<1>1. AccountPart => TriesBounded BY AccountProperties DEF AccountPart, TriesBounded
<1>2. QED BY <1>1, AccountAlways, PTL

-----------------------------------------------------------------------------
(* Calls: a task of a member that makes offers knows that it is its turn; an offer that waits  *)
(* for its answer was made in turn; and a call upgraded to video while another took its place  *)
(* is known to have been replaced.                                                             *)
Meshes == [Parties -> [Parties -> K!Connections \cup {None}]]
Nets == [Parties -> [Parties -> Seq(K!Messages)]]
Oddness == [Rings -> SUBSET K!Oddities]

InTurn(t, u) ==
  /\ t.wait = "startMedia" => Caller[t.call] = u /\ t.rest = Callees[t.call]
  /\ t.wait = "startOffer" /\ t.call \in GroupRings =>
       Caller[t.call] = u /\ t.peer # u /\ u \notin t.rest
  /\ t.wait = "meshOffer" =>
       /\ t.call \in GroupRings
       /\ \A x \in {t.peer} \cup t.rest : K!ShouldInitiate(u, x, Caller[t.call])
OfferedInTurn(k, u, v) ==
  k # None /\ k.st = "offer" => k.call \in GroupRings /\ K!ShouldInitiate(u, v, Caller[k.call])
Replaced(t, a, o) == a # None /\ (t.call = a \/ ("over" \in o[t.call] /\ "over" \in o[a]))

Turns ==
  /\ \A u \in Parties : \A t \in callsTasks[u] : InTurn(t, u)
  /\ \A u, v \in Parties : OfferedInTurn(mesh[u][v], u, v)
Upgrades ==
  \A u \in Parties : \A t \in callsTasks[u] :
    t.wait = "upgrade" /\ t.ok => Replaced(t, active[u], callsOdd)
CallsInv == K!TypeOK /\ Turns /\ Upgrades /\ K!MicExplained

LEMMA CallsFacts ==
  /\ Parties \subseteq Nat /\ GroupRings \subseteq Rings /\ None \notin Rings /\ None \notin Parties
  /\ Caller \in [Rings -> Parties] /\ Callees \in [Rings -> SUBSET Parties]
  /\ \A c \in Rings : Caller[c] \notin Callees[c]
  /\ \A c \in Rings \ GroupRings : K!Callee(c) \in Parties
<1>1. \A c \in Rings \ GroupRings : \E v \in Parties : v \in Callees[c]
  BY CallsAssumption DEF K!CallsConstants
<1>2. QED BY <1>1, CallsAssumption DEF K!CallsConstants, K!Callee

(* What the operators of Calls give is of the types of its variables. *)
LEMMA PostTyped ==
  ASSUME NEW n \in Nets, NEW u \in Parties, NEW to, NEW m \in K!Messages
  PROVE  K!Post(n, u, to, m) \in Nets
<1>1. \A v \in Parties : Append(n[u][v], m) \in Seq(K!Messages) BY DEF Nets
<1>2. [v \in Parties |-> IF v \in to THEN Append(n[u][v], m) ELSE n[u][v]]
        \in [Parties -> Seq(K!Messages)]
  BY <1>1 DEF Nets
<1>3. QED BY <1>2 DEF K!Post, Nets

LEMMA ArrivedTyped ==
  ASSUME K!TypeOK, NEW u \in Parties, NEW v \in Parties, NEW x, K!Arrives(v, u, x)
  PROVE  /\ K!Popped(v, u) \in Nets /\ Head(net[v][u]) \in K!Messages
         /\ Head(net[v][u]).call \in Rings
<1>1. net \in Nets BY DEF K!TypeOK, Nets
<1>2. net[v][u] \in Seq(K!Messages) /\ net[v][u] # <<>> BY <1>1 DEF Nets, K!Arrives
<1>3. Head(net[v][u]) \in K!Messages /\ Tail(net[v][u]) \in Seq(K!Messages) BY <1>2
<1>4. QED BY <1>1, <1>3 DEF K!Popped, Nets, K!Messages

LEMMA MarkTyped ==
  ASSUME NEW o \in Oddness, NEW cs, NEW w \in K!Oddities
  PROVE  /\ K!Mark(o, cs, w) \in Oddness
         /\ \A c \in Rings : o[c] \subseteq K!Mark(o, cs, w)[c]
         /\ \A c \in Rings \cap cs : w \in K!Mark(o, cs, w)[c]
BY DEF K!Mark, Oddness

LEMMA MsgTyped ==
  ASSUME NEW c \in Rings
  PROVE  \A x \in {"invite", "answer", "ended", "ice", "reoffer", "reanswer"} :
           K!Msg(x, c) \in K!Messages
BY DEF K!Msg, K!Messages

LEMMA NewPcTyped ==
  ASSUME NEW c \in Rings, NEW v \in Parties
  PROVE  K!NewPc(c, v) \in K!Connections /\ K!NewPc(c, v).st = "new"
BY DEF K!NewPc, K!Connections, K!States

LEMMA TaskTyped ==
  ASSUME NEW w \in K!Waits, NEW c \in Rings, NEW v \in Parties, NEW rest \in SUBSET Parties
  PROVE  /\ K!Task(w, c, v, rest) \in K!Tasks
         /\ K!Task(w, c, v, rest).wait = w /\ K!Task(w, c, v, rest).call = c
         /\ K!Task(w, c, v, rest).peer = v /\ K!Task(w, c, v, rest).rest = rest
BY DEF K!Task, K!Tasks

LEMMA DescribedTyped ==
  ASSUME NEW k \in K!Connections, NEW u \in Parties, NEW v \in Parties, NEW d, NEW x \in Parties
  PROVE  /\ K!Described(u, v, k, d, x) \in K!Connections
         /\ K!Described(u, v, k, d, x).st \in {"stable", "broken"}
<1> DEFINE st == IF d = k.call THEN "stable" ELSE "broken"
           got == k.got \/ k.call \in pend[u][v]
<1>1. k.got \in BOOLEAN /\ got \in BOOLEAN BY DEF K!Connections
<1>2. K!Described(u, v, k, d, x) = [k EXCEPT !.st = st, !.by = x, !.got = got]
  BY DEF K!Described
<1>3. st \in {"stable", "broken"} OBVIOUS
<1> HIDE DEF st, got
<1>4. QED BY <1>1, <1>2, <1>3 DEF K!Connections, K!States

LEMMA BrokenTyped ==
  ASSUME K!TypeOK, NEW u \in Parties, NEW ps
  PROVE  /\ K!Broken(u, ps) \in SUBSET K!Tasks
         /\ \A s \in K!Broken(u, ps) : \E t \in callsTasks[u] :
              /\ s.wait = t.wait /\ s.call = t.call /\ s.peer = t.peer /\ s.rest = t.rest
              /\ s.ok => t.ok /\ t.peer \notin ps
<1>1. callsTasks[u] \subseteq K!Tasks BY DEF K!TypeOK
<1>2. ASSUME NEW s \in K!Broken(u, ps)
      PROVE  /\ s \in K!Tasks
             /\ \E t \in callsTasks[u] :
                  /\ s.wait = t.wait /\ s.call = t.call /\ s.peer = t.peer /\ s.rest = t.rest
                  /\ s.ok => t.ok /\ t.peer \notin ps
  <2>1. PICK t \in callsTasks[u] : s = IF t.peer \in ps THEN [t EXCEPT !.ok = FALSE] ELSE t
    BY <1>2 DEF K!Broken
  <2>2. t \in K!Tasks BY <1>1
  <2>3. CASE s = t /\ t.peer \notin ps BY <2>2, <2>3
  <2>4. CASE s = [t EXCEPT !.ok = FALSE]
    <3>1. s \in K!Tasks /\ s.wait = t.wait /\ s.call = t.call /\ s.peer = t.peer
          /\ s.rest = t.rest /\ s.ok = FALSE
      BY <2>2, <2>4 DEF K!Tasks
    <3>2. QED BY <3>1
  <2>5. QED BY <2>1, <2>3, <2>4
<1>3. QED BY <1>2

(* A turn of the loop that makes offers. *)
Turned(u, w, c, m, o, rest) ==
  /\ mesh' \in Meshes /\ callsTasks' \in [Parties -> SUBSET K!Tasks]
  /\ \A x, v \in Parties : mesh'[x][v] = m[x][v] \/ mesh'[x][v].st = "new"
  /\ \A x \in Parties \ {u} : callsTasks'[x] = callsTasks[x]
  /\ \A t \in callsTasks'[u] :
       \/ t \in o
       \/ t.wait = w /\ t.call = c /\ t.peer \in rest /\ t.rest \subseteq rest

LEMMA NextOfferTyped ==
  ASSUME NEW u \in Parties, NEW w \in K!Waits, NEW c \in Rings, NEW STATE m, NEW STATE o,
         NEW rest \in SUBSET Parties, m \in Meshes, o \in SUBSET K!Tasks,
         callsTasks \in [Parties -> SUBSET K!Tasks], K!NextOffer(u, w, c, m, o, rest)
  PROVE  Turned(u, w, c, m, o, rest)
<1>1. ASSUME NEW v, v \in (IF w = "meshOffer" THEN {x \in rest : m[u][x] = None} ELSE rest)
      PROVE  v \in rest /\ {x \in rest : x > v} \in SUBSET rest
  BY <1>1
<1>2. \/ /\ mesh' = m /\ callsTasks' = [callsTasks EXCEPT ![u] = o]
      \/ \E v \in rest, more \in SUBSET rest :
           /\ mesh' = [m EXCEPT ![u][v] = K!NewPc(c, v)]
           /\ callsTasks' = [callsTasks EXCEPT ![u] = o \cup {K!Task(w, c, v, more)}]
  BY <1>1 DEF K!NextOffer
<1>3. CASE mesh' = m /\ callsTasks' = [callsTasks EXCEPT ![u] = o] BY <1>3 DEF Turned
<1>4. ASSUME NEW v \in rest, NEW more \in SUBSET rest, mesh' = [m EXCEPT ![u][v] = K!NewPc(c, v)],
             callsTasks' = [callsTasks EXCEPT ![u] = o \cup {K!Task(w, c, v, more)}]
      PROVE  Turned(u, w, c, m, o, rest)
  <2> DEFINE s == K!Task(w, c, v, more)
             k == K!NewPc(c, v)
  <2>1. v \in Parties /\ more \in SUBSET Parties OBVIOUS
  <2>2. k \in K!Connections /\ k.st = "new" BY <2>1, NewPcTyped
  <2>4. s \in K!Tasks /\ s.wait = w /\ s.call = c /\ s.peer = v /\ s.rest = more
    BY <2>1, TaskTyped
  <2>5. mesh' = [m EXCEPT ![u][v] = k] /\ callsTasks' = [callsTasks EXCEPT ![u] = o \cup {s}]
    BY <1>4
  <2> HIDE DEF s, k
  <2>6. mesh' \in Meshes /\ \A x, y \in Parties : mesh'[x][y] = m[x][y] \/ mesh'[x][y].st = "new"
    BY <2>1, <2>2, <2>5 DEF Meshes
  <2>7. QED BY <2>1, <2>4, <2>5, <2>6 DEF Turned
<1>5. QED BY <1>2, <1>3, <1>4

(* The offers of other members that are answered. *)
LEMMA PeersTyped ==
  ASSUME NEW u \in Parties, NEW is \in SUBSET K!Invites, NEW m \in Meshes
  PROVE  /\ K!PeerPcs(u, is, m) \in Meshes
         /\ \A x, v \in Parties :
              K!PeerPcs(u, is, m)[x][v] = m[x][v] \/ K!PeerPcs(u, is, m)[x][v].st = "new"
         /\ K!PeerTasks(u, is, m) \in SUBSET K!Tasks
         /\ \A t \in K!PeerTasks(u, is, m) : t.wait = "peerAnswer"
<1> DEFINE f == [v \in Parties |->
                   IF \E i \in K!Answerable(u, is, m) : i.from = v
                     THEN K!NewPc((CHOOSE i \in is : i.from = v).call, v) ELSE m[u][v]]
<1>1. K!PeerPcs(u, is, m) = [m EXCEPT ![u] = f] BY DEF K!PeerPcs
<1>2. K!Answerable(u, is, m) \subseteq is BY DEF K!Answerable
<1>3. ASSUME NEW v \in Parties
      PROVE  f[v] \in K!Connections \cup {None} /\ (f[v] = m[u][v] \/ f[v].st = "new")
  <2>1. CASE \E i \in K!Answerable(u, is, m) : i.from = v
    <3>1. (CHOOSE i \in is : i.from = v) \in K!Invites BY <1>2, <2>1
    <3>2. (CHOOSE i \in is : i.from = v).call \in Rings BY <3>1 DEF K!Invites
    <3>3. f[v] = K!NewPc((CHOOSE i \in is : i.from = v).call, v) BY <2>1
    <3> HIDE DEF f
    <3>4. QED BY <3>2, <3>3, NewPcTyped
  <2>2. CASE ~\E i \in K!Answerable(u, is, m) : i.from = v BY <2>2 DEF Meshes
  <2>3. QED BY <2>1, <2>2
<1>4. DOMAIN f = Parties /\ f = [v \in Parties |-> f[v]] OBVIOUS
<1> HIDE DEF f
<1>5. f \in [Parties -> K!Connections \cup {None}] BY <1>3, <1>4
<1>6. ASSUME NEW i \in K!Answerable(u, is, m)
      PROVE  /\ K!Task("peerAnswer", i.call, i.from, {}) \in K!Tasks
             /\ K!Task("peerAnswer", i.call, i.from, {}).wait = "peerAnswer"
  <2>1. i.call \in Rings /\ i.from \in Parties BY <1>2 DEF K!Invites
  <2>2. "peerAnswer" \in K!Waits BY DEF K!Waits
  <2>3. QED BY <2>1, <2>2, TaskTyped
<1>7. QED BY <1>1, <1>3, <1>5, <1>6 DEF Meshes, K!PeerTasks

(* What keeps each part of the invariant. *)
OddGrows == \A c \in Rings : callsOdd[c] \subseteq callsOdd'[c]
OfTask(s, t) ==
  s.wait = t.wait /\ s.call = t.call /\ s.peer = t.peer /\ s.rest = t.rest /\ (s.ok => t.ok)
Plain(s) == s.wait \notin {"startMedia", "startOffer", "meshOffer", "upgrade"}

LEMMA TurnsKept ==
  ASSUME Turns,
         \A x \in Parties : \A s \in callsTasks'[x] :
           InTurn(s, x) \/ Plain(s) \/ \E t \in callsTasks[x] : OfTask(s, t),
         \A x, y \in Parties :
           \/ mesh'[x][y] = mesh[x][y] \/ OfferedInTurn(mesh'[x][y], x, y)
           \/ mesh'[x][y].st # "offer"
           \/ mesh[x][y] # None /\ mesh'[x][y].st = mesh[x][y].st
              /\ mesh'[x][y].call = mesh[x][y].call
  PROVE  Turns'
<1>1. ASSUME NEW x \in Parties, NEW s \in callsTasks'[x] PROVE InTurn(s, x)
  <2>1. CASE Plain(s) BY <2>1 DEF Plain, InTurn
  <2>2. ASSUME NEW t \in callsTasks[x], OfTask(s, t) PROVE InTurn(s, x)
    <3>1. InTurn(t, x) BY DEF Turns
    <3>2. s.wait = t.wait /\ s.call = t.call /\ s.peer = t.peer /\ s.rest = t.rest
      BY <2>2 DEF OfTask
    <3>3. QED BY <3>1, <3>2 DEF InTurn
  <2>3. QED BY <2>1, <2>2
<1>2. \A x, y \in Parties : OfferedInTurn(mesh'[x][y], x, y)
  BY DEF Turns, OfferedInTurn
<1>3. QED BY <1>1, <1>2 DEF Turns

LEMMA UpgradesKept ==
  ASSUME CallsInv, OddGrows, active' = active,
         \A x \in Parties : \A s \in callsTasks'[x] :
           s.wait # "upgrade" \/ \E t \in callsTasks[x] : OfTask(s, t)
  PROVE  Upgrades'
<1>1. ASSUME NEW x \in Parties, NEW s \in callsTasks'[x], s.wait = "upgrade", s.ok
      PROVE  Replaced(s, active'[x], callsOdd')
  <2>1. PICK t \in callsTasks[x] : OfTask(s, t) BY <1>1
  <2>2. Replaced(t, active[x], callsOdd) BY <1>1, <2>1 DEF CallsInv, Upgrades, OfTask
  <2>3. t.call \in Rings /\ active[x] \in Rings \cup {None}
    BY DEF CallsInv, K!TypeOK, K!Tasks
  <2>4. QED BY <2>1, <2>2, <2>3 DEF Replaced, OfTask, OddGrows
<1>2. QED BY <1>1 DEF Upgrades

LEMMA MicKept ==
  ASSUME CallsInv, OddGrows,
         \A x \in Parties :
           \/ callsStream'[x] = None \/ active'[x] = callsStream'[x]
           \/ callsOdd'[callsStream'[x]] \cap {"late", "over"} # {}
           \/ callsStream'[x] = callsStream[x] /\ active'[x] = active[x]
  PROVE  K!MicExplained'
<1>1. ASSUME NEW x \in Parties, callsStream'[x] # None, active'[x] # callsStream'[x]
      PROVE  callsOdd'[callsStream'[x]] \cap {"late", "over"} # {}
  <2>1. CASE callsStream'[x] = callsStream[x] /\ active'[x] = active[x]
    <3>1. callsOdd[callsStream[x]] \cap {"late", "over"} # {}
      BY <1>1, <2>1 DEF CallsInv, K!MicExplained
    <3>2. callsStream[x] \in Rings BY <1>1, <2>1 DEF CallsInv, K!TypeOK
    <3>3. QED BY <2>1, <3>1, <3>2 DEF OddGrows
  <2>2. QED BY <1>1, <2>1
<1>2. QED BY <1>1 DEF K!MicExplained

LEMMA OddSame == ASSUME callsOdd' = callsOdd PROVE OddGrows
BY DEF OddGrows

LEMMA CallsInit == ASSUME K!Init PROVE CallsInv
<1>1. K!TypeOK
  <2>1. mesh \in [Parties -> [Parties -> K!Connections \cup {None}]]
        /\ net \in [Parties -> [Parties -> Seq(K!Messages)]]
    <3>1. <<>> \in Seq(K!Messages) OBVIOUS
    <3>2. QED BY <3>1 DEF K!Init, K!NoneYet
  <2>2. QED BY <2>1 DEF K!Init, K!TypeOK
<1>2. Turns BY DEF K!Init, K!NoneYet, Turns, OfferedInTurn
<1>3. QED BY <1>1, <1>2 DEF K!Init, CallsInv, Upgrades, K!MicExplained

(* The caller. *)
LEMMA StartCallStep ==
  ASSUME CallsInv, NEW u \in Parties, NEW c \in Rings, K!StartCall(u, c) PROVE CallsInv'
<1> DEFINE s == K!Task("startMedia", c, u, Callees[c])
           over == IF active[u] = None THEN {} ELSE {active[u], c}
<1>1. K!TypeOK BY DEF CallsInv
<1>2. s \in K!Tasks /\ s.wait = "startMedia" /\ s.call = c /\ s.rest = Callees[c]
  BY CallsFacts, TaskTyped DEF K!Waits
<1>3. InTurn(s, u) BY <1>2 DEF InTurn, K!StartCall
<1>4. callsTasks' \in [Parties -> SUBSET K!Tasks]
      /\ \A x \in Parties : \A r \in callsTasks'[x] : r \in callsTasks[x] \/ (r = s /\ x = u)
  <2>1. callsTasks \in [Parties -> SUBSET K!Tasks] BY <1>1 DEF K!TypeOK
  <2>2. callsTasks' = callsTasks \/ callsTasks' = [callsTasks EXCEPT ![u] = @ \cup {s}]
    BY DEF K!StartCall
  <2> HIDE DEF s
  <2>3. CASE callsTasks' = callsTasks BY <2>1, <2>3
  <2>4. CASE callsTasks' = [callsTasks EXCEPT ![u] = @ \cup {s}] BY <1>2, <2>1, <2>4
  <2>5. QED BY <2>2, <2>3, <2>4
<1> HIDE DEF s
<1>5. callsOdd' \in Oddness /\ OddGrows /\ \A d \in Rings \cap over : "over" \in callsOdd'[d]
  <2>1. callsOdd \in Oddness /\ "over" \in K!Oddities BY <1>1 DEF K!TypeOK, Oddness, K!Oddities
  <2>2. callsOdd' = K!Mark(callsOdd, over, "over") BY DEF K!StartCall
  <2> HIDE DEF over
  <2>3. QED BY <2>1, <2>2, MarkTyped DEF OddGrows
<1>6. active[u] \in Rings \cup {None} /\ c # None BY <1>1, CallsFacts DEF K!TypeOK
<1>7. active' = [active EXCEPT ![u] = c] /\ active \in [Parties -> Rings \cup {None}]
  BY <1>1 DEF K!StartCall, K!TypeOK
<1>8. K!TypeOK'
  <2>1. pend' \in [Parties -> [Parties -> SUBSET Rings]]
        /\ party' \in [Parties -> GroupRings \cup {None}] /\ joined' \in [Parties -> BOOLEAN]
        /\ outgoing' \in [Parties -> BOOLEAN] /\ upgraded' \in [Parties -> BOOLEAN]
    <3>1. pend \in [Parties -> [Parties -> SUBSET Rings]]
          /\ party \in [Parties -> GroupRings \cup {None}] /\ joined \in [Parties -> BOOLEAN]
          /\ outgoing \in [Parties -> BOOLEAN] /\ upgraded \in [Parties -> BOOLEAN]
      BY <1>1 DEF K!TypeOK
    <3>2. \/ pend' = pend /\ party' = party /\ joined' = joined
          \/ /\ pend' = [pend EXCEPT ![u] = [v \in Parties |-> {}]]
             /\ \/ /\ c \in GroupRings /\ party' = [party EXCEPT ![u] = c]
                   /\ joined' = [joined EXCEPT ![u] = FALSE]
                \/ party' = party /\ joined' = joined
      BY DEF K!StartCall
    <3>3. outgoing' = [outgoing EXCEPT ![u] = TRUE] /\ upgraded' = [upgraded EXCEPT ![u] = FALSE]
      BY DEF K!StartCall
    <3>4. pend' \in [Parties -> [Parties -> SUBSET Rings]] BY <3>1, <3>2
    <3>5. QED BY <3>1, <3>2, <3>3, <3>4
  <2>2. begun' \in SUBSET Rings BY <1>1 DEF K!StartCall, K!TypeOK
  <2>3. UNCHANGED <<incoming, callsPc, mesh, callsStream, peerRef, waiting, net, apart, dropped>>
    BY DEF K!StartCall
  <2>4. QED BY <1>1, <1>4, <1>5, <1>7, <2>1, <2>2, <2>3 DEF K!TypeOK, Oddness
<1>9. Turns'
  <2>1. \A x \in Parties : \A r \in callsTasks'[x] :
          InTurn(r, x) \/ Plain(r) \/ \E t \in callsTasks[x] : OfTask(r, t)
    BY <1>3, <1>4 DEF OfTask
  <2>2. mesh' = mesh BY DEF K!StartCall
  <2>3. QED BY <2>1, <2>2, TurnsKept DEF CallsInv
<1>10. Upgrades'
  <2>1. ASSUME NEW x \in Parties, NEW t \in callsTasks'[x], t.wait = "upgrade", t.ok
        PROVE  Replaced(t, active'[x], callsOdd')
    <3>1. t \in callsTasks[x] BY <1>2, <1>4, <2>1
    <3>2. Replaced(t, active[x], callsOdd) /\ t.call \in Rings
      BY <1>1, <2>1, <3>1 DEF CallsInv, Upgrades, K!TypeOK, K!Tasks
    <3>3. CASE x = u BY <1>5, <1>6, <1>7, <3>2, <3>3 DEF Replaced, OddGrows
    <3>4. CASE x # u
      <4>1. active'[x] = active[x] /\ active[x] \in Rings \cup {None} BY <1>7, <3>4
      <4>2. QED BY <1>5, <3>2, <4>1 DEF Replaced, OddGrows
    <3>5. QED BY <3>3, <3>4
  <2>2. QED BY <2>1 DEF Upgrades
<1>11. K!MicExplained'
  <2>1. callsStream' = callsStream BY DEF K!StartCall
  <2>2. callsStream[u] = active[u] /\ active[u] # None => "over" \in callsOdd'[callsStream[u]]
    BY <1>5, <1>6
  <2>3. callsStream[u] # None /\ callsStream[u] # active[u] =>
          callsOdd'[callsStream[u]] \cap {"late", "over"} # {}
    <3>1. callsStream[u] \in Rings \cup {None} BY <1>1 DEF K!TypeOK
    <3>2. QED BY <1>5, <3>1 DEF CallsInv, K!MicExplained, OddGrows
  <2>4. QED BY <1>5, <1>7, <2>1, <2>2, <2>3, MicKept
<1>12. QED BY <1>8, <1>9, <1>10, <1>11 DEF CallsInv

(* What a task knows of itself. *)
LEMMA TaskFacts ==
  ASSUME K!TypeOK, NEW u \in Parties, NEW t \in callsTasks[u]
  PROVE  t \in K!Tasks /\ t.call \in Rings /\ t.peer \in Parties /\ t.rest \in SUBSET Parties
         /\ t.ok \in BOOLEAN
BY DEF K!TypeOK, K!Tasks

LEMMA LateMediaFacts ==
  ASSUME K!TypeOK, NEW u \in Parties, NEW c \in Rings, callsOdd' = K!LateMedia(u, c)
  PROVE  callsOdd' \in Oddness /\ OddGrows /\ (active[u] # c => "late" \in callsOdd'[c])
<1> DEFINE cs == IF active[u] = c THEN {} ELSE {c, active[u]} \cap Rings
<1>1. callsOdd \in Oddness /\ "late" \in K!Oddities BY DEF K!TypeOK, Oddness, K!Oddities
<1>2. callsOdd' = K!Mark(callsOdd, cs, "late") BY DEF K!LateMedia
<1>3. active[u] # c => c \in Rings \cap cs OBVIOUS
<1> HIDE DEF cs
<1>4. QED BY <1>1, <1>2, <1>3, MarkTyped DEF OddGrows

LEMMA StartMediaStep ==
  ASSUME CallsInv, NEW u \in Parties, NEW t \in callsTasks[u], K!StartMedia(u, t)
  PROVE  CallsInv'
<1>1. K!TypeOK /\ mesh \in Meshes /\ callsTasks \in [Parties -> SUBSET K!Tasks]
  BY DEF CallsInv, K!TypeOK, Meshes
<1>2. t \in K!Tasks /\ t.call \in Rings /\ t.rest \in SUBSET Parties BY <1>1, TaskFacts
<1>3. t.wait = "startMedia" /\ Caller[t.call] = u /\ t.rest = Callees[t.call]
  BY DEF K!StartMedia, CallsInv, Turns, InTurn
<1>4. callsStream' = [callsStream EXCEPT ![u] = t.call] /\ callsOdd' = K!LateMedia(u, t.call)
      /\ UNCHANGED <<active, incoming, outgoing, upgraded, party, joined, waiting, pend, net, begun,
                     apart, dropped>>
  BY DEF K!StartMedia, K!Captured, K!course
<1>5. callsOdd' \in Oddness /\ OddGrows /\ (active[u] # t.call => "late" \in callsOdd'[t.call])
  BY <1>1, <1>2, <1>4, LateMediaFacts
<1>6. /\ mesh' \in Meshes /\ callsTasks' \in [Parties -> SUBSET K!Tasks]
      /\ callsPc' \in [Parties -> K!Connections \cup {None}]
      /\ peerRef' \in [Parties -> Parties \cup {None}]
      /\ \A x, y \in Parties : mesh'[x][y] = mesh[x][y] \/ mesh'[x][y].st = "new"
      /\ \A x \in Parties : \A s \in callsTasks'[x] :
           s \in callsTasks[x] \/ (InTurn(s, x) /\ s.wait = "startOffer")
  <2>1. CASE t.call \in GroupRings
    <3>1. K!NextOffer(u, "startOffer", t.call, mesh, callsTasks[u] \ {t}, t.rest)
          /\ UNCHANGED <<callsPc, peerRef>>
      BY <2>1 DEF K!StartMedia
    <3>2. Turned(u, "startOffer", t.call, mesh, callsTasks[u] \ {t}, t.rest)
      <4>1. callsTasks[u] \ {t} \in SUBSET K!Tasks BY <1>1
      <4>2. "startOffer" \in K!Waits BY DEF K!Waits
      <4>3. QED BY <1>1, <1>2, <3>1, <4>1, <4>2, NextOfferTyped
    <3>3. u \notin t.rest BY <1>2, <1>3, CallsFacts
    <3>4. \A s \in callsTasks'[u] : s \in callsTasks[u] \/ (InTurn(s, u) /\ s.wait = "startOffer")
      BY <1>3, <3>2, <3>3 DEF InTurn, Turned
    <3>5. QED BY <1>1, <3>1, <3>2, <3>4 DEF K!TypeOK, Turned
  <2>2. CASE t.call \notin GroupRings
    <3> DEFINE v == K!Callee(t.call)
               k == K!NewPc(t.call, v)
               s == K!Task("startOffer", t.call, v, {})
    <3>1. callsPc' = [callsPc EXCEPT ![u] = k] /\ peerRef' = [peerRef EXCEPT ![u] = v]
          /\ callsTasks' = [callsTasks EXCEPT ![u] = (@ \ {t}) \cup {s}] /\ mesh' = mesh
      BY <2>2 DEF K!StartMedia
    <3>2. v \in Parties BY <1>2, <2>2, CallsFacts
    <3> HIDE DEF v
    <3>3. k \in K!Connections BY <1>2, <3>2, NewPcTyped
    <3>4. s \in K!Tasks /\ s.wait = "startOffer" /\ s.call = t.call
      BY <1>2, <3>2, TaskTyped DEF K!Waits
    <3> HIDE DEF k, s
    <3>5. InTurn(s, u) BY <2>2, <3>4 DEF InTurn
    <3>6. QED BY <1>1, <3>1, <3>2, <3>3, <3>4, <3>5 DEF K!TypeOK
  <2>3. QED BY <2>1, <2>2
<1>7. K!TypeOK'
  <2>1. callsStream' \in [Parties -> Rings \cup {None}] BY <1>1, <1>2, <1>4 DEF K!TypeOK
  <2>2. QED BY <1>1, <1>4, <1>5, <1>6, <2>1 DEF K!TypeOK, Oddness, Meshes
<1>8. Turns' BY <1>6, TurnsKept DEF CallsInv, OfTask
<1>9. Upgrades' BY <1>4, <1>5, <1>6, UpgradesKept DEF OfTask
<1>10. K!MicExplained'
  <2>1. \A x \in Parties : callsStream'[x] = IF x = u THEN t.call ELSE callsStream[x]
    BY <1>1, <1>4 DEF K!TypeOK
  <2>2. QED BY <1>4, <1>5, <2>1, MicKept
<1>11. QED BY <1>7, <1>8, <1>9, <1>10 DEF CallsInv

LEMMA OfferStep ==
  ASSUME CallsInv, NEW u \in Parties, NEW t \in callsTasks[u], K!Offer(u, t)
  PROVE  CallsInv'
<1> DEFINE v == t.peer
           group == t.wait = "meshOffer" \/ t.call \in GroupRings
           m == IF group /\ K!HeldIn(mesh[u][v], t) THEN [mesh EXCEPT ![u][v].st = "offer"]
                ELSE mesh
           goesOn == group /\ (t.ok \/ t.wait = "meshOffer")
           rest == IF goesOn THEN t.rest ELSE {}
           o == callsTasks[u] \ {t}
<1>1. K!TypeOK /\ mesh \in Meshes /\ callsTasks \in [Parties -> SUBSET K!Tasks]
  BY DEF CallsInv, K!TypeOK, Meshes
<1>2. t \in K!Tasks /\ t.call \in Rings /\ v \in Parties /\ t.rest \in SUBSET Parties
      /\ t.wait \in K!Waits /\ o \in SUBSET K!Tasks
  BY <1>1, TaskFacts DEF K!Tasks
<1>3. t.wait \in {"startOffer", "meshOffer"} /\ InTurn(t, u)
  BY DEF K!Offer, CallsInv, Turns
<1>4. K!NextOffer(u, t.wait, t.call, m, o, rest) BY DEF K!Offer
<1>5. net' = IF t.ok THEN K!Post(net, u, {v}, K!Msg("invite", t.call)) ELSE net
  BY DEF K!Offer
<1>6. callsPc' = callsPc \/ /\ callsPc[u] # None
                            /\ callsPc' = [callsPc EXCEPT ![u].st = "offer"]
  BY DEF K!Offer, K!HeldIn
<1>7. UNCHANGED <<active, incoming, callsStream, peerRef, outgoing, upgraded, party, joined,
                  waiting, pend, begun, callsOdd, apart, dropped>>
  BY DEF K!Offer, K!course
<1>8. \A k \in K!Connections : [k EXCEPT !.st = "offer"] \in K!Connections
  BY DEF K!Connections, K!States
<1>9. /\ m \in Meshes
      /\ \A x, y \in Parties : m[x][y] = mesh[x][y] \/ OfferedInTurn(m[x][y], x, y)
  <2>1. CASE ~(group /\ K!HeldIn(mesh[u][v], t)) BY <1>1, <2>1
  <2>2. CASE group /\ K!HeldIn(mesh[u][v], t)
    <3> DEFINE k == mesh[u][v]
               l == [k EXCEPT !.st = "offer"]
    <3>1. k \in K!Connections /\ k.call = t.call BY <1>1, <1>2, <2>2 DEF K!HeldIn, Meshes
    <3>2. l \in K!Connections /\ l.call = t.call BY <1>8, <3>1 DEF K!Connections
    <3>3. m = [mesh EXCEPT ![u][v] = l] BY <2>2
    <3>4. t.call \in GroupRings /\ K!ShouldInitiate(u, v, Caller[t.call])
      BY <1>3, <2>2 DEF InTurn, K!ShouldInitiate
    <3>5. OfferedInTurn(l, u, v) BY <3>2, <3>4 DEF OfferedInTurn
    <3> HIDE DEF k, l, m
    <3>6. QED BY <1>1, <1>2, <3>2, <3>3, <3>5 DEF Meshes
  <2>3. QED BY <2>1, <2>2
<1>10. rest \in SUBSET Parties /\ rest \subseteq t.rest /\ (rest # {} => group) BY <1>2
<1>11. group => t.call \in GroupRings /\ \A x \in {t.peer} \cup t.rest :
                  K!ShouldInitiate(u, x, Caller[t.call])
  BY <1>3 DEF InTurn, K!ShouldInitiate
<1>12. callsPc' \in [Parties -> K!Connections \cup {None}]
  <2>1. callsPc \in [Parties -> K!Connections \cup {None}] BY <1>1 DEF K!TypeOK
  <2>2. CASE callsPc[u] # None /\ callsPc' = [callsPc EXCEPT ![u].st = "offer"]
    <3> DEFINE l == [callsPc[u] EXCEPT !.st = "offer"]
    <3>1. l \in K!Connections BY <1>8, <2>1, <2>2
    <3>2. callsPc' = [callsPc EXCEPT ![u] = l] BY <2>2
    <3> HIDE DEF l
    <3>3. QED BY <2>1, <3>1, <3>2
  <2>3. QED BY <1>6, <2>1, <2>2
<1>13. net' \in Nets
  <2>1. net \in Nets /\ K!Msg("invite", t.call) \in K!Messages
    BY <1>1, <1>2, MsgTyped DEF K!TypeOK, Nets
  <2>2. K!Post(net, u, {v}, K!Msg("invite", t.call)) \in Nets BY <2>1, PostTyped
  <2>3. QED BY <1>5, <2>1, <2>2
<1> HIDE DEF m, rest, group, goesOn, o
<1>14. Turned(u, t.wait, t.call, m, o, rest)
  BY <1>1, <1>2, <1>4, <1>9, <1>10, NextOfferTyped
<1>15. \A x \in Parties : \A s \in callsTasks'[x] :
         s \in callsTasks[x] \/ (InTurn(s, x) /\ s.wait # "upgrade")
  <2>1. ASSUME NEW s \in callsTasks'[u], s.wait = t.wait, s.call = t.call, s.peer \in rest,
               s.rest \subseteq rest
        PROVE  InTurn(s, u) /\ s.wait # "upgrade"
    <3>1. group /\ t.call \in GroupRings /\ \A x \in rest : x \in t.rest
      BY <1>10, <1>11, <2>1
    <3>2. QED BY <1>3, <1>11, <2>1, <3>1 DEF InTurn
  <2>2. QED BY <1>14, <2>1 DEF Turned, o
<1>16. K!TypeOK'
  BY <1>1, <1>7, <1>12, <1>13, <1>14 DEF K!TypeOK, Nets, Meshes, Turned
<1>17. Turns'
  <2>1. ASSUME NEW x \in Parties, NEW y \in Parties
        PROVE  mesh'[x][y] = mesh[x][y] \/ OfferedInTurn(mesh'[x][y], x, y)
               \/ mesh'[x][y].st # "offer"
    <3>1. mesh'[x][y] = m[x][y] \/ mesh'[x][y].st = "new" BY <1>14 DEF Turned
    <3>2. m[x][y] = mesh[x][y] \/ OfferedInTurn(m[x][y], x, y) BY <1>9
    <3>3. QED BY <3>1, <3>2
  <2>2. QED BY <1>15, <2>1, TurnsKept DEF CallsInv, OfTask
<1>18. Upgrades' BY <1>7, <1>15, OddSame, UpgradesKept DEF OfTask
<1>19. K!MicExplained' BY <1>7, OddSame, MicKept
<1>20. QED BY <1>16, <1>17, <1>18, <1>19 DEF CallsInv

(* What most actions do with the invariant: the active call stays, a task is an older one or   *)
(* is in turn, a connection keeps its state or leaves that of the offer.                       *)
SameOffer(k, l) == l # None /\ k.st = l.st /\ k.call = l.call
LEMMA CallsKept ==
  ASSUME CallsInv, K!TypeOK', OddGrows, active' = active,
         \A x \in Parties : \A s \in callsTasks'[x] :
           \/ InTurn(s, x) /\ s.wait # "upgrade"
           \/ Plain(s)
           \/ \E t \in callsTasks[x] : OfTask(s, t),
         \A x, y \in Parties :
           \/ mesh'[x][y] = mesh[x][y] \/ mesh'[x][y] = None \/ mesh'[x][y].st # "offer"
           \/ SameOffer(mesh'[x][y], mesh[x][y]),
         \A x \in Parties :
           \/ callsStream'[x] = callsStream[x] \/ callsStream'[x] = active[x]
           \/ "late" \in callsOdd'[callsStream'[x]]
  PROVE  CallsInv'
<1>1. Turns' BY TurnsKept DEF CallsInv, OfferedInTurn, SameOffer
<1>2. Upgrades' BY UpgradesKept DEF CallsInv, Plain
<1>3. K!MicExplained' BY MicKept
<1>4. QED BY <1>1, <1>2, <1>3 DEF CallsInv

LEMMA Untouched ==
  ASSUME CallsInv, K!TypeOK', OddGrows, UNCHANGED <<active, mesh, callsTasks, callsStream>>
  PROVE  CallsInv'
<1>1. \A x \in Parties : \A s \in callsTasks'[x] : \E t \in callsTasks[x] : OfTask(s, t)
  BY DEF OfTask
<1>2. QED BY <1>1, CallsKept

LEMMA Fewer ==
  ASSUME CallsInv, K!TypeOK', OddGrows, UNCHANGED <<active, mesh, callsStream>>,
         NEW u \in Parties, NEW t, callsTasks' = [callsTasks EXCEPT ![u] = @ \ {t}]
  PROVE  CallsInv'
<1>1. \A x \in Parties : \A s \in callsTasks'[x] : s \in callsTasks[x]
  BY DEF CallsInv, K!TypeOK
<1>2. \A x \in Parties : \A s \in callsTasks'[x] : \E r \in callsTasks[x] : OfTask(s, r)
  BY <1>1 DEF OfTask
<1>3. QED BY <1>2, CallsKept

(* A call that replaces the one there is. *)
LEMMA Overtaken ==
  ASSUME CallsInv, NEW u \in Parties, NEW c \in Rings,
         active' = [active EXCEPT ![u] = c], callsStream' = callsStream,
         callsOdd' = K!Mark(callsOdd, IF active[u] = None THEN {} ELSE {active[u], c}, "over"),
         \A x \in Parties : \A s \in callsTasks'[x] : s.wait = "upgrade" => s \in callsTasks[x]
  PROVE  callsOdd' \in Oddness /\ OddGrows /\ Upgrades' /\ K!MicExplained'
<1> DEFINE over == IF active[u] = None THEN {} ELSE {active[u], c}
<1>1. K!TypeOK BY DEF CallsInv
<1>2. callsOdd' \in Oddness /\ OddGrows /\ \A d \in Rings \cap over : "over" \in callsOdd'[d]
  <2>1. callsOdd \in Oddness /\ "over" \in K!Oddities BY <1>1 DEF K!TypeOK, Oddness, K!Oddities
  <2>2. callsOdd' = K!Mark(callsOdd, over, "over") OBVIOUS
  <2> HIDE DEF over
  <2>3. QED BY <2>1, <2>2, MarkTyped DEF OddGrows
<1>3. active[u] \in Rings \cup {None} /\ c # None BY <1>1, CallsFacts DEF K!TypeOK
<1>4. active \in [Parties -> Rings \cup {None}] BY <1>1 DEF K!TypeOK
<1>5. Upgrades'
  <2>1. ASSUME NEW x \in Parties, NEW t \in callsTasks'[x], t.wait = "upgrade", t.ok
        PROVE  Replaced(t, active'[x], callsOdd')
    <3>1. t \in callsTasks[x] BY <2>1
    <3>2. Replaced(t, active[x], callsOdd) /\ t.call \in Rings
      BY <1>1, <2>1, <3>1 DEF CallsInv, Upgrades, K!TypeOK, K!Tasks
    <3>3. CASE x = u BY <1>2, <1>3, <1>4, <3>2, <3>3 DEF Replaced, OddGrows
    <3>4. CASE x # u
      <4>1. active'[x] = active[x] /\ active[x] \in Rings \cup {None} BY <1>4, <3>4
      <4>2. QED BY <1>2, <3>2, <4>1 DEF Replaced, OddGrows
    <3>5. QED BY <3>3, <3>4
  <2>2. QED BY <2>1 DEF Upgrades
<1>6. K!MicExplained'
  <2>1. callsStream[u] = active[u] /\ active[u] # None => "over" \in callsOdd'[callsStream[u]]
    BY <1>2, <1>3
  <2>2. callsStream[u] # None /\ callsStream[u] # active[u] =>
          callsOdd'[callsStream[u]] \cap {"late", "over"} # {}
    <3>1. callsStream[u] \in Rings \cup {None} BY <1>1 DEF K!TypeOK
    <3>2. QED BY <1>2, <3>1 DEF CallsInv, K!MicExplained, OddGrows
  <2>3. QED BY <1>2, <1>4, <2>1, <2>2, MicKept
<1>7. QED BY <1>2, <1>5, <1>6

(* The callee. *)
LEMMA AcceptStep == ASSUME CallsInv, NEW u \in Parties, K!Accept(u) PROVE CallsInv'
<1> DEFINE i == incoming[u]
           s == K!Task("acceptMedia", i.call, i.from, {})
<1>1. K!TypeOK BY DEF CallsInv
<1>2. i.call \in Rings /\ i.from \in Parties
  <2>1. i \in K!Invites BY <1>1 DEF K!Accept, K!TypeOK
  <2>2. QED BY <2>1 DEF K!Invites
<1>3. /\ active' = [active EXCEPT ![u] = i.call] /\ peerRef' = [peerRef EXCEPT ![u] = i.from]
      /\ incoming' = [incoming EXCEPT ![u] = None]
      /\ callsTasks' = [callsTasks EXCEPT ![u] = @ \cup {s}]
      /\ upgraded' = [upgraded EXCEPT ![u] = FALSE]
      /\ callsOdd' = K!Mark(callsOdd, IF active[u] = None THEN {} ELSE {active[u], i.call}, "over")
      /\ \/ /\ i.call \in GroupRings /\ party' = [party EXCEPT ![u] = i.call]
            /\ joined' = [joined EXCEPT ![u] = FALSE]
         \/ party' = party /\ joined' = joined
  BY DEF K!Accept
<1>4. UNCHANGED <<callsPc, mesh, callsStream, outgoing, waiting, pend, net, begun, apart, dropped>>
  BY DEF K!Accept
<1> HIDE DEF i
<1>5. s \in K!Tasks /\ s.wait = "acceptMedia" BY <1>2, TaskTyped DEF K!Waits
<1> HIDE DEF s
<1>6. callsTasks' \in [Parties -> SUBSET K!Tasks]
      /\ \A x \in Parties : \A r \in callsTasks'[x] : r \in callsTasks[x] \/ r.wait = "acceptMedia"
  BY <1>1, <1>3, <1>5 DEF K!TypeOK
<1>7. callsOdd' \in Oddness /\ OddGrows /\ Upgrades' /\ K!MicExplained'
  <2>1. \A x \in Parties : \A r \in callsTasks'[x] : r.wait = "upgrade" => r \in callsTasks[x]
    BY <1>6
  <2>2. QED BY <1>2, <1>3, <1>4, <2>1, Overtaken
<1>8. party' \in [Parties -> GroupRings \cup {None}] /\ joined' \in [Parties -> BOOLEAN]
  BY <1>1, <1>3 DEF K!TypeOK
<1>9. K!TypeOK' BY <1>1, <1>2, <1>3, <1>4, <1>6, <1>7, <1>8 DEF K!TypeOK, Oddness
<1>10. Turns'
  <2>1. \A x \in Parties : \A r \in callsTasks'[x] :
          InTurn(r, x) \/ Plain(r) \/ \E t \in callsTasks[x] : OfTask(r, t)
    BY <1>6 DEF OfTask, Plain
  <2>2. QED BY <1>4, <2>1, TurnsKept DEF CallsInv
<1>11. QED BY <1>7, <1>9, <1>10 DEF CallsInv

LEMMA RejectStep == ASSUME CallsInv, NEW u \in Parties, K!Reject(u) PROVE CallsInv'
<1> DEFINE i == incoming[u]
<1>1. K!TypeOK /\ net \in Nets BY DEF CallsInv, K!TypeOK, Nets
<1>2. i.call \in Rings /\ i.from \in Parties
  <2>1. i \in K!Invites BY <1>1 DEF K!Reject, K!TypeOK
  <2>2. QED BY <2>1 DEF K!Invites
<1>3. /\ net' = K!Post(net, u, {i.from}, K!Msg("ended", i.call))
      /\ pend' = [pend EXCEPT ![u][i.from] = {}] /\ incoming' = [incoming EXCEPT ![u] = None]
      /\ apart' = apart \cup {{u, i.from}}
  BY DEF K!Reject
<1>4. UNCHANGED <<active, callsPc, mesh, callsStream, peerRef, outgoing, upgraded, party, joined,
                  waiting, callsTasks, begun, callsOdd, dropped>>
  BY DEF K!Reject, K!course
<1> HIDE DEF i
<1>5. net' \in Nets BY <1>1, <1>2, <1>3, MsgTyped, PostTyped
<1>6. K!TypeOK'
  <2>1. pend' \in [Parties -> [Parties -> SUBSET Rings]] BY <1>1, <1>3 DEF K!TypeOK
  <2>2. apart' \in SUBSET (SUBSET Parties)
    <3>1. apart \in SUBSET (SUBSET Parties) BY <1>1 DEF K!TypeOK
    <3>2. {u, i.from} \in SUBSET Parties BY <1>2
    <3>3. QED BY <1>3, <3>1, <3>2
  <2>3. QED BY <1>1, <1>3, <1>4, <1>5, <2>1, <2>2 DEF K!TypeOK, Nets
<1>7. QED BY <1>4, <1>6, OddSame, Untouched

LEMMA AcceptMediaStep ==
  ASSUME CallsInv, NEW u \in Parties, NEW t \in callsTasks[u], K!AcceptMedia(u, t)
  PROVE  CallsInv'
<1> DEFINE k == K!NewPc(t.call, t.peer)
           s == K!Task("acceptAnswer", t.call, t.peer, {})
<1>1. K!TypeOK /\ mesh \in Meshes BY DEF CallsInv, K!TypeOK, Meshes
<1>2. t.call \in Rings /\ t.peer \in Parties BY <1>1, TaskFacts
<1>3. /\ callsStream' = [callsStream EXCEPT ![u] = t.call]
      /\ callsOdd' = K!LateMedia(u, t.call)
      /\ \/ mesh' = [mesh EXCEPT ![u][t.peer] = k] /\ callsPc' = callsPc
         \/ callsPc' = [callsPc EXCEPT ![u] = k] /\ mesh' = mesh
      /\ callsTasks' = [callsTasks EXCEPT ![u] = (@ \ {t}) \cup {s}]
  BY DEF K!AcceptMedia, K!Captured
<1>4. UNCHANGED <<active, incoming, peerRef, outgoing, upgraded, party, joined, waiting, pend, net,
                  begun, apart, dropped>>
  BY DEF K!AcceptMedia, K!course
<1>5. k \in K!Connections /\ k.st = "new" BY <1>2, NewPcTyped
<1>6. s \in K!Tasks /\ s.wait = "acceptAnswer" BY <1>2, TaskTyped DEF K!Waits
<1>7. callsOdd' \in Oddness /\ OddGrows /\ (active[u] # t.call => "late" \in callsOdd'[t.call])
  BY <1>1, <1>2, <1>3, LateMediaFacts
<1> HIDE DEF k, s
<1>8. callsTasks' \in [Parties -> SUBSET K!Tasks]
      /\ \A x \in Parties : \A r \in callsTasks'[x] : r \in callsTasks[x] \/ Plain(r)
  BY <1>1, <1>3, <1>6 DEF K!TypeOK, Plain
<1>9. mesh' \in Meshes /\ callsPc' \in [Parties -> K!Connections \cup {None}]
      /\ \A x, y \in Parties : mesh'[x][y] = mesh[x][y] \/ mesh'[x][y].st # "offer"
  <2>1. callsPc \in [Parties -> K!Connections \cup {None}] BY <1>1 DEF K!TypeOK
  <2>2. CASE mesh' = [mesh EXCEPT ![u][t.peer] = k] /\ callsPc' = callsPc
    BY <1>1, <1>2, <1>5, <2>1, <2>2 DEF Meshes
  <2>3. CASE callsPc' = [callsPc EXCEPT ![u] = k] /\ mesh' = mesh BY <1>1, <1>5, <2>1, <2>3
  <2>4. QED BY <1>3, <2>2, <2>3
<1>10. K!TypeOK'
  <2>1. callsStream' \in [Parties -> Rings \cup {None}] BY <1>1, <1>2, <1>3 DEF K!TypeOK
  <2>2. QED BY <1>1, <1>4, <1>7, <1>8, <1>9, <2>1 DEF K!TypeOK, Oddness, Meshes
<1>11. \A x \in Parties : callsStream'[x] = IF x = u THEN t.call ELSE callsStream[x]
  BY <1>1, <1>3 DEF K!TypeOK
<1>12. \A x \in Parties : \A r \in callsTasks'[x] :
         Plain(r) \/ \E o \in callsTasks[x] : OfTask(r, o)
  BY <1>8 DEF OfTask
<1>13. QED BY <1>4, <1>7, <1>9, <1>10, <1>11, <1>12, CallsKept

LEMMA MediaFailsStep ==
  ASSUME CallsInv, NEW u \in Parties, NEW t \in callsTasks[u], K!MediaFails(u, t)
  PROVE  CallsInv'
<1>1. K!TypeOK /\ net \in Nets BY DEF CallsInv, K!TypeOK, Nets
<1>2. t.call \in Rings /\ t.peer \in Parties BY <1>1, TaskFacts
<1>3. /\ callsTasks' = [callsTasks EXCEPT ![u] = @ \ {t}]
      /\ callsOdd' = K!Mark(callsOdd, {t.call}, "failed")
      /\ net' = net \/ net' = K!Post(net, u, {t.peer}, K!Msg("ended", t.call))
  BY DEF K!MediaFails
<1>4. UNCHANGED <<active, incoming, callsPc, mesh, callsStream, peerRef, outgoing, upgraded, party,
                  joined, waiting, pend, begun, apart, dropped>>
  BY DEF K!MediaFails, K!local, K!course
<1>5. callsOdd' \in Oddness /\ OddGrows
  <2>1. callsOdd \in Oddness /\ "failed" \in K!Oddities BY <1>1 DEF K!TypeOK, Oddness, K!Oddities
  <2>2. QED BY <1>3, <2>1, MarkTyped DEF OddGrows
<1>6. net' \in Nets
  <2>1. K!Post(net, u, {t.peer}, K!Msg("ended", t.call)) \in Nets
    BY <1>1, <1>2, MsgTyped, PostTyped
  <2>2. QED BY <1>1, <1>3, <2>1
<1>7. K!TypeOK'
  <2>1. callsTasks' \in [Parties -> SUBSET K!Tasks] BY <1>1, <1>3 DEF K!TypeOK
  <2>2. QED BY <1>1, <1>4, <1>5, <1>6, <2>1 DEF K!TypeOK, Oddness, Nets
<1>8. QED BY <1>3, <1>4, <1>5, <1>7, Fewer

(* The answer: what it does to the connections. *)
AnswersGroup(t) == t.wait = "peerAnswer" \/ t.call \in GroupRings
AnsweredMesh(u, t) ==
  IF AnswersGroup(t) /\ K!HeldIn(mesh[u][t.peer], t)
    THEN [mesh EXCEPT ![u][t.peer] = K!Described(u, t.peer, @, t.call, t.peer)]
  ELSE IF ~t.ok /\ t.wait = "peerAnswer" THEN [mesh EXCEPT ![u][t.peer] = None]
  ELSE mesh

LEMMA AnsweredTyped ==
  ASSUME K!TypeOK, NEW u \in Parties, NEW t \in callsTasks[u]
  PROVE  /\ AnsweredMesh(u, t) \in Meshes
         /\ \A x, y \in Parties :
              \/ AnsweredMesh(u, t)[x][y] = mesh[x][y] \/ AnsweredMesh(u, t)[x][y] = None
              \/ AnsweredMesh(u, t)[x][y].st # "offer"
<1>1. mesh \in Meshes /\ t.peer \in Parties BY TaskFacts DEF K!TypeOK, Meshes
<1>2. CASE AnswersGroup(t) /\ K!HeldIn(mesh[u][t.peer], t)
  <2> DEFINE k == mesh[u][t.peer]
             l == K!Described(u, t.peer, k, t.call, t.peer)
  <2>1. k \in K!Connections BY <1>1, <1>2 DEF K!HeldIn, Meshes
  <2>2. l \in K!Connections /\ l.st # "offer" BY <1>1, <2>1, DescribedTyped
  <2>3. AnsweredMesh(u, t) = [mesh EXCEPT ![u][t.peer] = l] BY <1>2 DEF AnsweredMesh
  <2> HIDE DEF l, k
  <2>4. QED BY <1>1, <2>2, <2>3 DEF Meshes
<1>3. CASE AnsweredMesh(u, t) = [mesh EXCEPT ![u][t.peer] = None] BY <1>1, <1>3 DEF Meshes
<1>4. CASE AnsweredMesh(u, t) = mesh BY <1>1, <1>4
<1>5. QED BY <1>2, <1>3, <1>4 DEF AnsweredMesh

LEMMA CallAnswerStep ==
  ASSUME CallsInv, NEW u \in Parties, NEW t \in callsTasks[u], K!Answer(u, t)
  PROVE  CallsInv'
<1> DEFINE v == t.peer
           m == AnsweredMesh(u, t)
           o == callsTasks[u] \ {t}
           l == K!Described(u, v, callsPc[u], t.call, v)
<1>1. K!TypeOK /\ mesh \in Meshes /\ net \in Nets
      /\ callsTasks \in [Parties -> SUBSET K!Tasks] /\ waiting \in [Parties -> SUBSET K!Invites]
      /\ callsPc \in [Parties -> K!Connections \cup {None}]
      /\ pend \in [Parties -> [Parties -> SUBSET Rings]]
  BY DEF CallsInv, K!TypeOK, Meshes, Nets
<1>2. t.call \in Rings /\ v \in Parties /\ o \in SUBSET K!Tasks BY <1>1, TaskFacts
<1>3. pend' = pend \/ pend' = [pend EXCEPT ![u][v] = {}] BY DEF K!Answer, K!Flushed
<1>4. callsPc' = callsPc \/ (callsPc[u] # None /\ callsPc' = [callsPc EXCEPT ![u] = l])
  BY DEF K!Answer, K!HeldIn
<1>5. \/ net' = net \/ net' = K!Post(net, u, {v}, K!Msg("answer", t.call))
      \/ net' = K!Post(net, u, {v}, K!Msg("ended", t.call))
  BY DEF K!Answer
<1>6. \/ /\ mesh' = K!PeerPcs(u, waiting[u], m)
         /\ callsTasks' = [callsTasks EXCEPT ![u] = o \cup K!PeerTasks(u, waiting[u], m)]
         /\ waiting' = [waiting EXCEPT ![u] = {}]
      \/ mesh' = m /\ callsTasks' = [callsTasks EXCEPT ![u] = o] /\ waiting' = waiting
  BY DEF K!Answer, K!FlushWaiting, AnsweredMesh, AnswersGroup
<1>7. UNCHANGED <<active, incoming, callsStream, peerRef, outgoing, upgraded, party, joined,
                  begun, callsOdd, apart, dropped>>
  BY DEF K!Answer, K!course
<1>8. /\ m \in Meshes
      /\ \A x, y \in Parties : \/ m[x][y] = mesh[x][y] \/ m[x][y] = None
                               \/ m[x][y].st # "offer"
  BY <1>1, AnsweredTyped
<1> HIDE DEF m, o
<1>9. pend' \in [Parties -> [Parties -> SUBSET Rings]]
  <2>1. [pend EXCEPT ![u][v] = {}] \in [Parties -> [Parties -> SUBSET Rings]] BY <1>1, <1>2
  <2>2. QED BY <1>1, <1>3, <2>1
<1>10. callsPc' \in [Parties -> K!Connections \cup {None}]
  <2>1. callsPc[u] # None => l \in K!Connections BY <1>1, <1>2, DescribedTyped
  <2> HIDE DEF l
  <2>2. QED BY <1>1, <1>4, <2>1
<1>11. net' \in Nets
  <2>1. K!Post(net, u, {v}, K!Msg("answer", t.call)) \in Nets
        /\ K!Post(net, u, {v}, K!Msg("ended", t.call)) \in Nets
    BY <1>1, <1>2, MsgTyped, PostTyped
  <2>2. QED BY <1>1, <1>5, <2>1
<1>12. /\ mesh' \in Meshes /\ callsTasks' \in [Parties -> SUBSET K!Tasks]
       /\ waiting' \in [Parties -> SUBSET K!Invites]
       /\ \A x, y \in Parties : mesh'[x][y] = m[x][y] \/ mesh'[x][y].st = "new"
       /\ \A x \in Parties : \A s \in callsTasks'[x] : s \in callsTasks[x] \/ Plain(s)
  <2> DEFINE m2 == K!PeerPcs(u, waiting[u], m)
             ts == K!PeerTasks(u, waiting[u], m)
  <2>1. CASE /\ mesh' = m2 /\ callsTasks' = [callsTasks EXCEPT ![u] = o \cup ts]
             /\ waiting' = [waiting EXCEPT ![u] = {}]
    <3>1. waiting[u] \in SUBSET K!Invites BY <1>1
    <3>2. /\ m2 \in Meshes /\ ts \in SUBSET K!Tasks
          /\ \A x, y \in Parties : m2[x][y] = m[x][y] \/ m2[x][y].st = "new"
          /\ \A s \in ts : Plain(s)
      BY <1>8, <3>1, PeersTyped DEF Plain
    <3> HIDE DEF m2, ts
    <3>3. QED BY <1>1, <1>2, <2>1, <3>2 DEF o
  <2>2. CASE mesh' = m /\ callsTasks' = [callsTasks EXCEPT ![u] = o] /\ waiting' = waiting
    BY <1>1, <1>2, <1>8, <2>2 DEF o
  <2>3. QED BY <1>6, <2>1, <2>2
<1>13. K!TypeOK'
  BY <1>1, <1>7, <1>9, <1>10, <1>11, <1>12 DEF K!TypeOK, Nets, Meshes
<1>14. \A x, y \in Parties : \/ mesh'[x][y] = mesh[x][y] \/ mesh'[x][y] = None
                             \/ mesh'[x][y].st # "offer"
  <2>1. ASSUME NEW x \in Parties, NEW y \in Parties
        PROVE  mesh'[x][y] = mesh[x][y] \/ mesh'[x][y] = None \/ mesh'[x][y].st # "offer"
    <3>1. m[x][y] = mesh[x][y] \/ m[x][y] = None \/ m[x][y].st # "offer" BY <1>8
    <3>2. mesh'[x][y] = m[x][y] \/ mesh'[x][y].st = "new" BY <1>12
    <3>3. QED BY <3>1, <3>2
  <2>2. QED BY <2>1
<1>15. \A x \in Parties : \A s \in callsTasks'[x] :
         Plain(s) \/ \E r \in callsTasks[x] : OfTask(s, r)
  BY <1>12 DEF OfTask
<1>16. QED BY <1>7, <1>13, <1>14, <1>15, OddSame, CallsKept

(* establishMeshAsCallee: the members it calls are those that shouldInitiateMeshPeer names. *)
LEMMA ConnectedStep == ASSUME CallsInv, NEW u \in Parties, K!Connected(u) PROVE CallsInv'
<1> DEFINE p == party[u]
           those == {o \in K!Participants(p) \ {u, Caller[p]} : K!ShouldInitiate(u, o, Caller[p])}
<1>1. K!TypeOK /\ mesh \in Meshes /\ callsTasks \in [Parties -> SUBSET K!Tasks]
  BY DEF CallsInv, K!TypeOK, Meshes
<1>2. UNCHANGED <<active, incoming, callsPc, callsStream, peerRef, outgoing, upgraded, party,
                  waiting, pend, net, begun, callsOdd, apart, dropped>>
      /\ joined' = [joined EXCEPT ![u] = TRUE]
  BY DEF K!Connected
<1>3. \/ mesh' = mesh /\ callsTasks' = callsTasks
      \/ /\ p # None
         /\ K!NextOffer(u, "meshOffer", p, mesh, callsTasks[u], those)
  BY DEF K!Connected
<1>4. /\ mesh' \in Meshes /\ callsTasks' \in [Parties -> SUBSET K!Tasks]
      /\ \A x, y \in Parties : mesh'[x][y] = mesh[x][y] \/ mesh'[x][y].st = "new"
      /\ \A x \in Parties : \A s \in callsTasks'[x] :
           s \in callsTasks[x] \/ (InTurn(s, x) /\ s.wait # "upgrade")
  <2>1. CASE mesh' = mesh /\ callsTasks' = callsTasks BY <1>1, <2>1
  <2>2. CASE p # None /\ K!NextOffer(u, "meshOffer", p, mesh, callsTasks[u], those)
    <3>1. p \in GroupRings BY <1>1, <2>2 DEF K!TypeOK
    <3>2. p \in Rings /\ those \in SUBSET Parties BY <3>1, CallsFacts DEF K!Participants
    <3>3. \A x \in those : K!ShouldInitiate(u, x, Caller[p]) OBVIOUS
    <3> HIDE DEF p, those
    <3>4. "meshOffer" \in K!Waits /\ callsTasks[u] \in SUBSET K!Tasks BY <1>1 DEF K!Waits
    <3>5. Turned(u, "meshOffer", p, mesh, callsTasks[u], those)
      BY <1>1, <2>2, <3>2, <3>4, NextOfferTyped
    <3>6. \A s \in callsTasks'[u] :
            s \in callsTasks[u] \/ (InTurn(s, u) /\ s.wait # "upgrade")
      BY <3>1, <3>3, <3>5 DEF Turned, InTurn
    <3>7. QED BY <3>5, <3>6 DEF Turned
  <2>3. QED BY <1>3, <2>1, <2>2
<1>5. K!TypeOK' BY <1>1, <1>2, <1>4 DEF K!TypeOK, Meshes
<1>6. \A x \in Parties : \A s \in callsTasks'[x] :
        (InTurn(s, x) /\ s.wait # "upgrade") \/ \E r \in callsTasks[x] : OfTask(s, r)
  BY <1>4 DEF OfTask
<1>7. \A x, y \in Parties : mesh'[x][y] = mesh[x][y] \/ mesh'[x][y].st # "offer" BY <1>4
<1>8. QED BY <1>2, <1>5, <1>6, <1>7, OddSame, CallsKept

LEMMA NeverSettlesStep ==
  ASSUME CallsInv, NEW u \in Parties, NEW t \in callsTasks[u], K!NeverSettles(u, t)
  PROVE  CallsInv'
<1>1. K!TypeOK BY DEF CallsInv
<1>2. callsTasks' = [callsTasks EXCEPT ![u] = @ \ {t}] BY DEF K!NeverSettles
<1>3. UNCHANGED <<active, incoming, callsPc, mesh, callsStream, peerRef, outgoing, upgraded, party,
                  joined, waiting, pend, net, begun, callsOdd, apart, dropped>>
  BY DEF K!NeverSettles, K!local, K!course
<1>4. callsTasks' \in [Parties -> SUBSET K!Tasks] BY <1>1, <1>2 DEF K!TypeOK
<1>5. K!TypeOK' BY <1>1, <1>3, <1>4 DEF K!TypeOK
<1>6. QED BY <1>2, <1>3, <1>5, OddSame, Fewer

(* Video in a call begun without. *)
LEMMA UpgradeStep == ASSUME CallsInv, NEW u \in Parties, K!Upgrade(u) PROVE CallsInv'
<1> DEFINE s == K!Task("upgrade", active[u], peerRef[u], {})
<1>1. K!TypeOK BY DEF CallsInv
<1>2. active[u] # None /\ peerRef[u] # None /\ callsTasks' = [callsTasks EXCEPT ![u] = @ \cup {s}]
  BY DEF K!Upgrade
<1>3. UNCHANGED <<active, incoming, callsPc, mesh, callsStream, peerRef, outgoing, upgraded, party,
                  joined, waiting, pend, net, begun, callsOdd, apart, dropped>>
  BY DEF K!Upgrade, K!local, K!course
<1>4. active[u] \in Rings /\ peerRef[u] \in Parties BY <1>1, <1>2 DEF K!TypeOK
<1>5. s \in K!Tasks /\ s.wait = "upgrade" /\ s.call = active[u]
  BY <1>4, TaskTyped DEF K!Waits
<1> HIDE DEF s
<1>6. callsTasks' \in [Parties -> SUBSET K!Tasks]
      /\ \A x \in Parties : \A r \in callsTasks'[x] : r \in callsTasks[x] \/ (r = s /\ x = u)
  BY <1>1, <1>2, <1>5 DEF K!TypeOK
<1>7. K!TypeOK' BY <1>1, <1>3, <1>6 DEF K!TypeOK
<1>8. Turns'
  <2>1. \A x \in Parties : \A r \in callsTasks'[x] :
          InTurn(r, x) \/ \E t \in callsTasks[x] : OfTask(r, t)
    BY <1>5, <1>6 DEF OfTask, InTurn
  <2>2. QED BY <1>3, <2>1, TurnsKept DEF CallsInv
<1>9. Upgrades'
  <2>1. Replaced(s, active[u], callsOdd) BY <1>2, <1>5 DEF Replaced
  <2>2. QED BY <1>3, <1>6, <2>1 DEF CallsInv, Upgrades
<1>10. K!MicExplained' BY <1>3, OddSame, MicKept
<1>11. QED BY <1>7, <1>8, <1>9, <1>10 DEF CallsInv

LEMMA ReofferStep ==
  ASSUME CallsInv, NEW u \in Parties, NEW t \in callsTasks[u], K!Reoffer(u, t)
  PROVE  CallsInv'
<1>1. K!TypeOK /\ net \in Nets BY DEF CallsInv, K!TypeOK, Nets
<1>2. t.call \in Rings /\ t.peer \in Parties BY <1>1, TaskFacts
<1>3. /\ callsPc' = callsPc
         \/ (callsPc[u] # None /\ callsPc' = [callsPc EXCEPT ![u].st = "reoffer"])
      /\ callsOdd' = callsOdd \/ callsOdd' = K!Mark(callsOdd, {t.call}, "glare")
      /\ net' = K!Post(net, u, {t.peer}, K!Msg("reoffer", t.call))
      /\ upgraded' = [upgraded EXCEPT ![u] = TRUE]
      /\ active' = [active EXCEPT ![u] = t.call]
      /\ callsTasks' = [callsTasks EXCEPT ![u] = @ \ {t}]
  BY DEF K!Reoffer, K!HeldIn
<1>4. UNCHANGED <<incoming, mesh, callsStream, peerRef, outgoing, party, joined, waiting, pend,
                  begun, apart, dropped>>
  BY DEF K!Reoffer
<1>5. callsOdd' \in Oddness /\ OddGrows
  <2>1. callsOdd \in Oddness /\ "glare" \in K!Oddities BY <1>1 DEF K!TypeOK, Oddness, K!Oddities
  <2>2. QED BY <1>3, <2>1, MarkTyped DEF OddGrows
<1>6. net' \in Nets BY <1>1, <1>2, <1>3, MsgTyped, PostTyped
<1>7. callsPc' \in [Parties -> K!Connections \cup {None}]
  <2>1. callsPc \in [Parties -> K!Connections \cup {None}] BY <1>1 DEF K!TypeOK
  <2>2. CASE callsPc[u] # None /\ callsPc' = [callsPc EXCEPT ![u].st = "reoffer"]
    <3> DEFINE l == [callsPc[u] EXCEPT !.st = "reoffer"]
    <3>1. callsPc[u] \in K!Connections BY <2>1, <2>2
    <3>2. l \in K!Connections BY <3>1 DEF K!Connections, K!States
    <3>3. callsPc' = [callsPc EXCEPT ![u] = l] BY <2>2
    <3> HIDE DEF l
    <3>4. QED BY <2>1, <3>2, <3>3
  <2>3. QED BY <1>3, <2>1, <2>2
<1>8. callsTasks' \in [Parties -> SUBSET K!Tasks]
      /\ \A x \in Parties : \A r \in callsTasks'[x] : r \in callsTasks[x]
  BY <1>1, <1>3 DEF K!TypeOK
<1>9. active \in [Parties -> Rings \cup {None}] /\ active' \in [Parties -> Rings \cup {None}]
  BY <1>1, <1>2, <1>3 DEF K!TypeOK
<1>10. K!TypeOK'
  <2>1. upgraded' \in [Parties -> BOOLEAN] BY <1>1, <1>3 DEF K!TypeOK
  <2>2. QED BY <1>1, <1>4, <1>5, <1>6, <1>7, <1>8, <1>9, <2>1 DEF K!TypeOK, Oddness, Nets
<1>11. Turns' BY <1>4, <1>8, TurnsKept DEF CallsInv, OfTask
<1>12. Replaced(t, active[u], callsOdd) BY DEF CallsInv, Upgrades, K!Reoffer
<1>13. Upgrades'
  <2>1. ASSUME NEW x \in Parties, NEW s \in callsTasks'[x], s.wait = "upgrade", s.ok
        PROVE  Replaced(s, active'[x], callsOdd')
    <3>1. Replaced(s, active[x], callsOdd) /\ s.call \in Rings
      BY <1>1, <1>8, <2>1 DEF CallsInv, Upgrades, K!TypeOK, K!Tasks
    <3>2. active'[x] = IF x = u THEN t.call ELSE active[x] BY <1>3, <1>9
    <3>3. t.call # None BY <1>2, CallsFacts
    <3>4. active[x] \in Rings \cup {None} BY <1>9
    <3>5. QED BY <1>2, <1>5, <1>12, <3>1, <3>2, <3>3, <3>4 DEF Replaced, OddGrows
  <2>2. QED BY <2>1 DEF Upgrades
<1>14. K!MicExplained'
  <2>1. ASSUME NEW x \in Parties, callsStream[x] # None, callsStream[x] # active'[x]
        PROVE  callsOdd'[callsStream[x]] \cap {"late", "over"} # {}
    <3>1. callsStream[x] \in Rings BY <1>1, <2>1 DEF K!TypeOK
    <3>2. active'[x] = IF x = u THEN t.call ELSE active[x] BY <1>3, <1>9
    <3>3. CASE callsStream[x] # active[x]
      BY <1>5, <2>1, <3>1, <3>3 DEF CallsInv, K!MicExplained, OddGrows
    <3>4. CASE callsStream[x] = active[x]
      <4>1. x = u /\ t.call # active[u] BY <2>1, <3>2, <3>4
      <4>2. "over" \in callsOdd[active[u]] BY <1>12, <4>1 DEF Replaced
      <4>3. QED BY <1>5, <3>1, <3>4, <4>1, <4>2 DEF OddGrows
    <3>5. QED BY <3>3, <3>4
  <2>2. QED BY <1>4, <2>1 DEF K!MicExplained
<1>15. QED BY <1>10, <1>11, <1>13, <1>14 DEF CallsInv

(* The end. *)
LEMMA CleanupKeeps ==
  ASSUME CallsInv, NEW u \in Parties, K!Cleanup(u), net' \in Nets, callsOdd' \in Oddness, OddGrows,
         apart' \in SUBSET (SUBSET Parties), dropped' = dropped
  PROVE  CallsInv'
<1>1. K!TypeOK BY DEF CallsInv
<1>2. /\ active' = [active EXCEPT ![u] = None] /\ incoming' = [incoming EXCEPT ![u] = None]
      /\ callsPc' = [callsPc EXCEPT ![u] = None] /\ mesh' = [mesh EXCEPT ![u] = K!NoneYet]
      /\ callsStream' = [callsStream EXCEPT ![u] = None]
      /\ outgoing' = [outgoing EXCEPT ![u] = FALSE] /\ party' = [party EXCEPT ![u] = None]
      /\ joined' = [joined EXCEPT ![u] = FALSE] /\ waiting' = [waiting EXCEPT ![u] = {}]
      /\ upgraded' = [upgraded EXCEPT ![u] = FALSE]
      /\ pend' = [pend EXCEPT ![u] = [v \in Parties |-> {}]]
      /\ callsTasks' = [callsTasks EXCEPT ![u] = K!Broken(u, Parties)]
      /\ peerRef' = peerRef /\ begun' = begun
  BY DEF K!Cleanup
<1>3. /\ K!Broken(u, Parties) \in SUBSET K!Tasks
      /\ \A s \in K!Broken(u, Parties) : ~s.ok /\ \E t \in callsTasks[u] : OfTask(s, t)
  <2>1. \A t \in callsTasks[u] : t.peer \in Parties BY <1>1, TaskFacts
  <2>2. QED BY <1>1, <2>1, BrokenTyped DEF OfTask, K!Tasks
<1>4. /\ callsTasks' \in [Parties -> SUBSET K!Tasks]
      /\ \A s \in callsTasks'[u] : ~s.ok /\ \E t \in callsTasks[u] : OfTask(s, t)
      /\ \A x \in Parties \ {u} : callsTasks'[x] = callsTasks[x]
  BY <1>1, <1>2, <1>3 DEF K!TypeOK
<1>5. mesh' \in Meshes /\ \A x, y \in Parties : mesh'[x][y] = mesh[x][y] \/ mesh'[x][y] = None
  BY <1>1, <1>2 DEF K!TypeOK, K!NoneYet, Meshes
<1>6. K!TypeOK'
  <2>1. /\ active' \in [Parties -> Rings \cup {None}]
        /\ incoming' \in [Parties -> K!Invites \cup {None}]
        /\ callsPc' \in [Parties -> K!Connections \cup {None}]
        /\ callsStream' \in [Parties -> Rings \cup {None}]
        /\ outgoing' \in [Parties -> BOOLEAN] /\ party' \in [Parties -> GroupRings \cup {None}]
    BY <1>1, <1>2 DEF K!TypeOK
  <2>2. /\ joined' \in [Parties -> BOOLEAN] /\ upgraded' \in [Parties -> BOOLEAN]
        /\ waiting' \in [Parties -> SUBSET K!Invites]
        /\ pend' \in [Parties -> [Parties -> SUBSET Rings]]
    BY <1>1, <1>2 DEF K!TypeOK
  <2>3. QED BY <1>1, <1>2, <1>4, <1>5, <2>1, <2>2 DEF K!TypeOK, Meshes, Nets, Oddness
<1>7. \A x \in Parties : \A s \in callsTasks'[x] : \E t \in callsTasks[x] : OfTask(s, t)
  BY <1>4 DEF OfTask
<1>8. Turns' BY <1>5, <1>7, TurnsKept DEF CallsInv, OfferedInTurn
<1>9. \A x \in Parties : /\ active'[x] = IF x = u THEN None ELSE active[x]
                         /\ callsStream'[x] = IF x = u THEN None ELSE callsStream[x]
  BY <1>1, <1>2 DEF K!TypeOK
<1>10. Upgrades'
  <2>1. ASSUME NEW x \in Parties, NEW s \in callsTasks'[x], s.wait = "upgrade", s.ok
        PROVE  Replaced(s, active'[x], callsOdd')
    <3>1. x # u /\ s \in callsTasks[x] BY <1>4, <2>1
    <3>2. Replaced(s, active[x], callsOdd) /\ s.call \in Rings /\ active[x] \in Rings \cup {None}
      BY <1>1, <2>1, <3>1 DEF CallsInv, Upgrades, K!TypeOK, K!Tasks
    <3>3. QED BY <1>9, <3>1, <3>2 DEF Replaced, OddGrows
  <2>2. QED BY <2>1 DEF Upgrades
<1>11. K!MicExplained' BY <1>9, MicKept
<1>12. QED BY <1>6, <1>8, <1>10, <1>11 DEF CallsInv

LEMMA HangupStep == ASSUME CallsInv, NEW u \in Parties, K!Hangup(u) PROVE CallsInv'
<1>1. K!TypeOK /\ net \in Nets BY DEF CallsInv, K!TypeOK, Nets
<1>2. active[u] \in Rings BY <1>1 DEF K!TypeOK, K!Hangup
<1>3. /\ net' = K!Post(net, u, K!Told(u), K!Msg("ended", active[u]))
      /\ callsOdd' = K!Mark(callsOdd, K!Late(u), "late") /\ K!Cleanup(u)
      /\ apart' = apart \cup {{u, v} : v \in K!Told(u)} /\ dropped' = dropped
  BY DEF K!Hangup
<1>4. net' \in Nets BY <1>1, <1>2, <1>3, MsgTyped, PostTyped
<1>5. callsOdd' \in Oddness /\ OddGrows
  <2>1. callsOdd \in Oddness /\ "late" \in K!Oddities BY <1>1 DEF K!TypeOK, Oddness, K!Oddities
  <2>2. QED BY <1>3, <2>1, MarkTyped DEF OddGrows
<1>6. apart' \in SUBSET (SUBSET Parties)
  <2>1. apart \in SUBSET (SUBSET Parties) BY <1>1 DEF K!TypeOK
  <2>2. K!Told(u) \subseteq Parties BY DEF K!Told
  <2>3. {{u, v} : v \in K!Told(u)} \in SUBSET (SUBSET Parties) BY <2>2
  <2>4. QED BY <1>3, <2>1, <2>3
<1>7. QED BY <1>3, <1>4, <1>5, <1>6, CleanupKeeps

(* Messages. *)
LEMMA IncomingStep ==
  ASSUME CallsInv, NEW u \in Parties, NEW v \in Parties, K!OnIncoming(v, u) PROVE CallsInv'
<1> DEFINE c == Head(net[v][u]).call
           i == [call |-> c, from |-> v]
           m == K!PeerPcs(u, {i}, mesh)
           ts == K!PeerTasks(u, {i}, mesh)
<1>1. K!TypeOK /\ K!Arrives(v, u, "invite") BY DEF CallsInv, K!OnIncoming
<1>2. K!Popped(v, u) \in Nets /\ c \in Rings BY <1>1, ArrivedTyped
<1>3. net' = K!Popped(v, u) /\ (apart' = apart \/ apart' = apart \cup {{u, v}})
  BY DEF K!OnIncoming
<1>4. \/ UNCHANGED <<incoming, waiting, mesh, callsTasks>>
      \/ waiting' = [waiting EXCEPT ![u] = @ \cup {i}] /\ UNCHANGED <<incoming, mesh, callsTasks>>
      \/ /\ mesh' = m /\ callsTasks' = [callsTasks EXCEPT ![u] = @ \cup ts]
         /\ UNCHANGED <<incoming, waiting>>
      \/ incoming' = [incoming EXCEPT ![u] = i] /\ UNCHANGED <<waiting, mesh, callsTasks>>
  BY DEF K!OnIncoming
<1>5. UNCHANGED <<active, callsPc, callsStream, peerRef, outgoing, upgraded, party, joined, pend,
                  begun, callsOdd, dropped>>
  BY DEF K!OnIncoming, K!course
<1>6. i \in K!Invites BY <1>2 DEF K!Invites
<1> HIDE DEF i, c
<1>7. /\ m \in Meshes /\ ts \in SUBSET K!Tasks
      /\ \A x, y \in Parties : m[x][y] = mesh[x][y] \/ m[x][y].st = "new"
      /\ \A s \in ts : Plain(s)
  <2>1. mesh \in Meshes /\ {i} \in SUBSET K!Invites BY <1>1, <1>6 DEF K!TypeOK, Meshes
  <2>2. QED BY <2>1, PeersTyped DEF Plain
<1> HIDE DEF m, ts
<1>8. /\ incoming' \in [Parties -> K!Invites \cup {None}]
      /\ waiting' \in [Parties -> SUBSET K!Invites]
      /\ mesh' \in Meshes /\ callsTasks' \in [Parties -> SUBSET K!Tasks]
      /\ \A x, y \in Parties : mesh'[x][y] = mesh[x][y] \/ mesh'[x][y].st = "new"
      /\ \A x \in Parties : \A s \in callsTasks'[x] : s \in callsTasks[x] \/ Plain(s)
  <2>1. /\ incoming \in [Parties -> K!Invites \cup {None}]
        /\ waiting \in [Parties -> SUBSET K!Invites]
        /\ mesh \in Meshes /\ callsTasks \in [Parties -> SUBSET K!Tasks]
    BY <1>1 DEF K!TypeOK, Meshes
  <2>2. CASE UNCHANGED <<incoming, waiting, mesh, callsTasks>> BY <2>1, <2>2
  <2>3. CASE waiting' = [waiting EXCEPT ![u] = @ \cup {i}]
             /\ UNCHANGED <<incoming, mesh, callsTasks>>
    BY <1>6, <2>1, <2>3
  <2>4. CASE /\ mesh' = m /\ callsTasks' = [callsTasks EXCEPT ![u] = @ \cup ts]
             /\ UNCHANGED <<incoming, waiting>>
    BY <1>7, <2>1, <2>4
  <2>5. CASE incoming' = [incoming EXCEPT ![u] = i] /\ UNCHANGED <<waiting, mesh, callsTasks>>
    BY <1>6, <2>1, <2>5
  <2>6. QED BY <1>4, <2>2, <2>3, <2>4, <2>5
<1>9. K!TypeOK'
  <2>1. apart' \in SUBSET (SUBSET Parties)
    <3>1. apart \in SUBSET (SUBSET Parties) BY <1>1 DEF K!TypeOK
    <3>2. {u, v} \in SUBSET Parties OBVIOUS
    <3>3. QED BY <1>3, <3>1, <3>2
  <2>2. QED BY <1>1, <1>2, <1>3, <1>5, <1>8, <2>1 DEF K!TypeOK, Meshes, Nets
<1>10. \A x \in Parties : \A s \in callsTasks'[x] :
         Plain(s) \/ \E t \in callsTasks[x] : OfTask(s, t)
  BY <1>8 DEF OfTask
<1>11. \A x, y \in Parties : mesh'[x][y] = mesh[x][y] \/ mesh'[x][y].st # "offer" BY <1>8
<1>12. QED BY <1>5, <1>9, <1>10, <1>11, OddSame, CallsKept

(* A connection that is changed, in pcMapRef or in pcRef. *)
Placed(u, v, k) ==
  \/ mesh' = [mesh EXCEPT ![u][v] = k] /\ callsPc' = callsPc
  \/ callsPc' = [callsPc EXCEPT ![u] = k] /\ mesh' = mesh
Flushes(u, v) == pend' = pend \/ pend' = [pend EXCEPT ![u][v] = {}]

LEMMA PlacedKeeps ==
  ASSUME CallsInv, NEW u \in Parties, NEW v \in Parties, NEW k \in K!Connections,
         \/ Placed(u, v, k) /\ (k.st # "offer" \/ SameOffer(k, mesh[u][v]) \/ mesh' = mesh)
         \/ UNCHANGED <<mesh, callsPc>>,
         pend' \in [Parties -> [Parties -> SUBSET Rings]],
         net' \in Nets, callsOdd' \in Oddness, OddGrows,
              dropped' \in SUBSET (Parties \X Parties \X Rings),
         UNCHANGED <<active, incoming, callsStream, peerRef, outgoing, upgraded, party, joined,
                     waiting, callsTasks, begun, apart>>
  PROVE  CallsInv'
<1>1. K!TypeOK /\ mesh \in Meshes BY DEF CallsInv, K!TypeOK, Meshes
<1>2. /\ mesh' \in Meshes /\ callsPc' \in [Parties -> K!Connections \cup {None}]
      /\ \A x, y \in Parties : \/ mesh'[x][y] = mesh[x][y] \/ mesh'[x][y].st # "offer"
                               \/ SameOffer(mesh'[x][y], mesh[x][y])
  <2>1. callsPc \in [Parties -> K!Connections \cup {None}] BY <1>1 DEF K!TypeOK
  <2>2. CASE mesh' = [mesh EXCEPT ![u][v] = k] /\ callsPc' = callsPc
    <3>1. CASE mesh' = mesh BY <1>1, <2>1, <2>2, <3>1
    <3>2. CASE k.st # "offer" \/ SameOffer(k, mesh[u][v])
      BY <1>1, <2>1, <2>2, <3>2 DEF Meshes
    <3>3. CASE UNCHANGED <<mesh, callsPc>> BY <1>1, <2>1, <3>3
    <3>4. QED BY <2>2, <3>1, <3>2, <3>3
  <2>3. CASE callsPc' = [callsPc EXCEPT ![u] = k] /\ mesh' = mesh BY <1>1, <2>1, <2>3
  <2>4. CASE UNCHANGED <<mesh, callsPc>> BY <1>1, <2>1, <2>4
  <2>5. QED BY <2>2, <2>3, <2>4 DEF Placed
<1>3. K!TypeOK' BY <1>1, <1>2 DEF K!TypeOK, Meshes, Nets, Oddness
<1>4. \A x \in Parties : \A s \in callsTasks'[x] : \E t \in callsTasks[x] : OfTask(s, t)
  BY DEF OfTask
<1>5. QED BY <1>2, <1>3, <1>4, CallsKept

LEMMA LinkTyped ==
  ASSUME K!TypeOK, NEW u \in Parties, NEW v \in Parties, K!Link(u, v) # None
  PROVE  K!Link(u, v) \in K!Connections
BY DEF K!TypeOK, K!Link

LEMMA FlushedTyped ==
  ASSUME K!TypeOK, NEW u \in Parties, NEW v \in Parties, Flushes(u, v)
  PROVE  pend' \in [Parties -> [Parties -> SUBSET Rings]]
<1>1. pend \in [Parties -> [Parties -> SUBSET Rings]] BY DEF K!TypeOK
<1>2. [pend EXCEPT ![u][v] = {}] \in [Parties -> [Parties -> SUBSET Rings]] BY <1>1
<1>3. QED BY <1>1, <1>2 DEF Flushes

LEMMA AcceptedStep ==
  ASSUME CallsInv, NEW u \in Parties, NEW v \in Parties, K!OnAccepted(v, u) PROVE CallsInv'
<1> DEFINE c == Head(net[v][u]).call
           k == K!Link(u, v)
           l == K!Described(u, v, k, c, u)
           set == k # None /\ k.st = "offer" /\ (K!InGroup(u) \/ peerRef[u] = v)
<1>1. K!TypeOK /\ K!Arrives(v, u, "answer") /\ net' = K!Popped(v, u)
      /\ UNCHANGED <<active, incoming, callsStream, peerRef, outgoing, upgraded, party, joined,
                     waiting, callsTasks, begun, apart, dropped>>
      /\ (callsOdd' = callsOdd \/ callsOdd' = K!Mark(callsOdd, {k.call, c}, "crossed"))
  BY DEF CallsInv, K!OnAccepted, K!course
<1>2. net' \in Nets BY <1>1, ArrivedTyped
<1>3. pend' \in [Parties -> [Parties -> SUBSET Rings]]
  <2>1. Flushes(u, v) BY DEF K!OnAccepted, K!Flushed, Flushes
  <2>2. QED BY <1>1, <2>1, FlushedTyped
<1>4. callsOdd' \in Oddness /\ OddGrows /\ dropped' \in SUBSET (Parties \X Parties \X Rings)
  <2> HIDE DEF c, k
  <2>1. callsOdd \in Oddness /\ "crossed" \in K!Oddities BY <1>1 DEF K!TypeOK, Oddness, K!Oddities
  <2>2. callsOdd' \in Oddness /\ OddGrows BY <1>1, <2>1, MarkTyped DEF OddGrows
  <2>3. QED BY <1>1, <2>2 DEF K!TypeOK
<1>5. CASE set
  <2>1. Placed(u, v, l)
    BY <1>5 DEF K!OnAccepted, K!Link, Placed
  <2>2. l \in K!Connections /\ l.st # "offer" BY <1>1, <1>5, LinkTyped, DescribedTyped
  <2> HIDE DEF l, set
  <2>3. QED BY <1>1, <1>2, <1>3, <1>4, <2>1, <2>2, PlacedKeeps
<1>6. CASE ~set
  <2>1. UNCHANGED <<mesh, callsPc>> BY <1>6 DEF K!OnAccepted
  <2> HIDE DEF set
  <2>2. K!TypeOK' BY <1>1, <1>2, <1>3, <1>4, <2>1 DEF K!TypeOK, Nets, Oddness
  <2>3. QED BY <1>1, <1>4, <2>1, <2>2, Untouched
<1>7. QED BY <1>5, <1>6

LEMMA EndedStep ==
  ASSUME CallsInv, NEW u \in Parties, NEW v \in Parties, K!OnEnded(v, u) PROVE CallsInv'
<1>1. K!TypeOK /\ K!Arrives(v, u, "ended") /\ net' = K!Popped(v, u)
      /\ UNCHANGED <<apart, dropped>>
  BY DEF CallsInv, K!OnEnded
<1>2. net' \in Nets BY <1>1, ArrivedTyped
<1>3. callsOdd' \in Oddness /\ OddGrows
  <2>1. PICK cut, unheard, late :
          callsOdd' = K!Mark(K!Mark(K!Mark(callsOdd, cut, "cut"), unheard, "unheard"), late, "late")
    BY DEF K!OnEnded
  <2> DEFINE o == K!Mark(callsOdd, cut, "cut")
             p == K!Mark(o, unheard, "unheard")
  <2>2. callsOdd \in Oddness /\ {"cut", "unheard", "late"} \subseteq K!Oddities
    BY <1>1 DEF K!TypeOK, Oddness, K!Oddities
  <2>3. o \in Oddness /\ \A d \in Rings : callsOdd[d] \subseteq o[d] BY <2>2, MarkTyped
  <2>4. callsOdd' = K!Mark(p, late, "late") BY <2>1
  <2> HIDE DEF o
  <2>5. p \in Oddness /\ \A d \in Rings : o[d] \subseteq p[d] BY <2>2, <2>3, MarkTyped
  <2> HIDE DEF p
  <2>6. callsOdd' \in Oddness /\ \A d \in Rings : p[d] \subseteq callsOdd'[d]
    BY <2>2, <2>4, <2>5, MarkTyped
  <2>7. QED BY <2>3, <2>5, <2>6 DEF OddGrows
<1>4. \/ /\ mesh' = [mesh EXCEPT ![u][v] = None]
         /\ callsTasks' = [callsTasks EXCEPT ![u] = K!Broken(u, {v})]
         /\ UNCHANGED <<active, incoming, callsPc, callsStream, peerRef, outgoing, upgraded, party,
                        joined, waiting, pend, begun>>
      \/ K!Cleanup(u)
  BY DEF K!OnEnded, K!course
<1>5. CASE K!Cleanup(u)
  <2>1. apart' \in SUBSET (SUBSET Parties) BY <1>1 DEF K!TypeOK
  <2>2. QED BY <1>1, <1>2, <1>3, <1>5, <2>1, CleanupKeeps
<1>6. CASE /\ mesh' = [mesh EXCEPT ![u][v] = None]
           /\ callsTasks' = [callsTasks EXCEPT ![u] = K!Broken(u, {v})]
           /\ UNCHANGED <<active, incoming, callsPc, callsStream, peerRef, outgoing, upgraded,
                          party, joined, waiting, pend, begun>>
  <2>1. mesh' \in Meshes /\ \A x, y \in Parties : mesh'[x][y] = mesh[x][y] \/ mesh'[x][y] = None
    BY <1>1, <1>6 DEF K!TypeOK, Meshes
  <2>2. /\ K!Broken(u, {v}) \in SUBSET K!Tasks
        /\ \A s \in K!Broken(u, {v}) : \E t \in callsTasks[u] : OfTask(s, t)
    BY <1>1, BrokenTyped DEF OfTask
  <2>3. callsTasks \in [Parties -> SUBSET K!Tasks] BY <1>1 DEF K!TypeOK
  <2>4. callsTasks' \in [Parties -> SUBSET K!Tasks]
        /\ \A x \in Parties : callsTasks'[x] = IF x = u THEN K!Broken(u, {v}) ELSE callsTasks[x]
    BY <1>6, <2>2, <2>3
  <2>5. \A x \in Parties : \A s \in callsTasks'[x] : \E t \in callsTasks[x] : OfTask(s, t)
    BY <2>2, <2>4 DEF OfTask
  <2>6. K!TypeOK' BY <1>1, <1>2, <1>3, <1>6, <2>1, <2>4 DEF K!TypeOK, Nets, Meshes, Oddness
  <2>7. QED BY <1>3, <1>6, <2>1, <2>5, <2>6, CallsKept
<1>7. QED BY <1>4, <1>5, <1>6

LEMMA IceStep ==
  ASSUME CallsInv, NEW u \in Parties, NEW v \in Parties, K!OnIce(v, u) PROVE CallsInv'
<1> DEFINE c == Head(net[v][u]).call
           k == K!Link(u, v)
           got == k.got \/ c = k.call
           l == [k EXCEPT !.got = got]
<1>1. K!TypeOK /\ K!Arrives(v, u, "ice") /\ net' = K!Popped(v, u)
      /\ UNCHANGED <<active, incoming, callsStream, peerRef, outgoing, upgraded, party, joined,
                     waiting, callsTasks, begun, callsOdd, apart>>
  BY DEF CallsInv, K!OnIce, K!course
<1>2. net' \in Nets /\ c \in Rings BY <1>1, ArrivedTyped
<1>3. callsOdd' \in Oddness /\ OddGrows BY <1>1, OddSame DEF K!TypeOK, Oddness
<1>4. \/ K!QueueOrAddIce(u, v, k, c) /\ dropped' = dropped
      \/ dropped' = dropped \cup {<<u, v, c>>} /\ UNCHANGED <<callsPc, mesh, pend>>
  BY DEF K!OnIce
<1>5. pend \in [Parties -> [Parties -> SUBSET Rings]]
      /\ dropped \in SUBSET (Parties \X Parties \X Rings)
  BY <1>1 DEF K!TypeOK
<1>6. CASE K!QueueOrAddIce(u, v, k, c) /\ dropped' = dropped
  <2>1. CASE K!HasRemote(k)
    <3>1. k # None /\ Placed(u, v, l) /\ pend' = pend
          /\ (mesh' = [mesh EXCEPT ![u][v] = l] => k = mesh[u][v] \/ mesh' = mesh)
      BY <1>6, <2>1 DEF K!QueueOrAddIce, K!HasRemote, Placed, K!Link
    <3>2. k \in K!Connections BY <1>1, <3>1, LinkTyped
    <3>3. got \in BOOLEAN BY <3>2 DEF K!Connections
    <3> HIDE DEF got
    <3>4. l \in K!Connections /\ l.st = k.st /\ l.call = k.call BY <3>2, <3>3 DEF K!Connections
    <3>5. SameOffer(l, mesh[u][v]) \/ mesh' = mesh
      BY <1>1, <3>1, <3>4 DEF SameOffer, Placed
    <3> HIDE DEF k, l, c
    <3>6. pend' \in [Parties -> [Parties -> SUBSET Rings]]
          /\ dropped' \in SUBSET (Parties \X Parties \X Rings)
      BY <1>5, <1>6, <3>1
    <3>7. QED BY <1>1, <1>2, <1>3, <3>1, <3>4, <3>5, <3>6, PlacedKeeps
  <2>2. CASE ~K!HasRemote(k)
    <3>1. pend' = [pend EXCEPT ![u][v] = @ \cup {c}] /\ UNCHANGED <<callsPc, mesh>>
      BY <1>6, <2>2 DEF K!QueueOrAddIce
    <3> HIDE DEF k, c
    <3>2. pend' \in [Parties -> [Parties -> SUBSET Rings]] BY <1>2, <1>5, <3>1
    <3>3. K!TypeOK' BY <1>1, <1>2, <1>3, <1>6, <3>1, <3>2 DEF K!TypeOK, Nets, Oddness
    <3>4. QED BY <1>1, <1>3, <3>1, <3>3, Untouched
  <2>3. QED BY <2>1, <2>2
<1>7. CASE dropped' = dropped \cup {<<u, v, c>>} /\ UNCHANGED <<callsPc, mesh, pend>>
  <2> HIDE DEF c
  <2>1. dropped' \in SUBSET (Parties \X Parties \X Rings) BY <1>2, <1>5, <1>7
  <2>2. K!TypeOK' BY <1>1, <1>2, <1>3, <1>7, <2>1 DEF K!TypeOK, Nets, Oddness
  <2>3. QED BY <1>1, <1>3, <1>7, <2>2, Untouched
<1>8. QED BY <1>4, <1>6, <1>7

LEMMA OnReofferStep ==
  ASSUME CallsInv, NEW u \in Parties, NEW v \in Parties, K!OnReoffer(v, u) PROVE CallsInv'
<1> DEFINE c == Head(net[v][u]).call
           k == K!Link(u, v)
           l == K!Described(u, v, k, c, v)
<1>1. K!TypeOK /\ K!Arrives(v, u, "reoffer") /\ k # None
      /\ net' = K!Post(K!Popped(v, u), u, {v}, K!Msg("reanswer", c))
      /\ UNCHANGED <<active, incoming, callsStream, peerRef, outgoing, upgraded, party, joined,
                     waiting, callsTasks, begun, apart, dropped>>
  BY DEF CallsInv, K!OnReoffer, K!course, K!Renegotiates
<1>2. K!Popped(v, u) \in Nets /\ c \in Rings BY <1>1, ArrivedTyped
<1>3. Placed(u, v, l) /\ Flushes(u, v)
  BY DEF K!OnReoffer, K!Agrees, K!Link, K!Flushed, Placed, Flushes
<1>4. l \in K!Connections /\ l.st # "offer" BY <1>1, LinkTyped, DescribedTyped
<1>5. callsOdd' = callsOdd \/ callsOdd' = K!Mark(callsOdd, {k.call, c}, "glare")
  BY DEF K!OnReoffer
<1> HIDE DEF c, k, l
<1>6. net' \in Nets BY <1>1, <1>2, MsgTyped, PostTyped
<1>7. callsOdd' \in Oddness /\ OddGrows
  <2>1. callsOdd \in Oddness /\ "glare" \in K!Oddities BY <1>1 DEF K!TypeOK, Oddness, K!Oddities
  <2>2. QED BY <1>5, <2>1, MarkTyped DEF OddGrows
<1>8. pend' \in [Parties -> [Parties -> SUBSET Rings]] BY <1>1, <1>3, FlushedTyped
<1>9. dropped' \in SUBSET (Parties \X Parties \X Rings) BY <1>1 DEF K!TypeOK
<1>10. QED BY <1>1, <1>3, <1>4, <1>6, <1>7, <1>8, <1>9, PlacedKeeps

LEMMA OnReanswerStep ==
  ASSUME CallsInv, NEW u \in Parties, NEW v \in Parties, K!OnReanswer(v, u) PROVE CallsInv'
<1> DEFINE c == Head(net[v][u]).call
           k == K!Link(u, v)
           l == K!Described(u, v, k, c, u)
<1>1. K!TypeOK /\ K!Arrives(v, u, "reanswer") /\ k # None /\ net' = K!Popped(v, u)
      /\ UNCHANGED <<active, incoming, callsStream, peerRef, outgoing, upgraded, party, joined,
                     waiting, callsTasks, begun, callsOdd, apart, dropped>>
  BY DEF CallsInv, K!OnReanswer, K!course, K!Renegotiates
<1>2. net' \in Nets /\ c \in Rings BY <1>1, ArrivedTyped
<1>3. \/ Placed(u, v, l) /\ Flushes(u, v)
      \/ UNCHANGED <<callsPc, mesh, pend>>
  BY DEF K!OnReanswer, K!Agrees, K!Link, K!Flushed, Placed, Flushes
<1>4. l \in K!Connections /\ l.st # "offer" BY <1>1, LinkTyped, DescribedTyped
<1> HIDE DEF c, k, l
<1>5. callsOdd' \in Oddness /\ OddGrows /\ dropped' \in SUBSET (Parties \X Parties \X Rings)
  BY <1>1, OddSame DEF K!TypeOK, Oddness
<1>6. CASE Placed(u, v, l) /\ Flushes(u, v)
  <2>1. pend' \in [Parties -> [Parties -> SUBSET Rings]] BY <1>1, <1>6, FlushedTyped
  <2>2. QED BY <1>1, <1>2, <1>4, <1>5, <1>6, <2>1, PlacedKeeps
<1>7. CASE UNCHANGED <<callsPc, mesh, pend>>
  <2>1. K!TypeOK' BY <1>1, <1>2, <1>5, <1>7 DEF K!TypeOK, Nets, Oddness
  <2>2. QED BY <1>1, <1>5, <1>7, <2>1, Untouched
<1>8. QED BY <1>3, <1>6, <1>7

LEMMA IgnoresStep ==
  ASSUME CallsInv, NEW u \in Parties, NEW v \in Parties, K!IgnoresDescription(v, u)
  PROVE  CallsInv'
<1>1. K!TypeOK BY DEF CallsInv
<1>2. PICK x : K!Arrives(v, u, x) BY DEF K!IgnoresDescription
<1>3. net' = K!Popped(v, u)
      /\ UNCHANGED <<active, incoming, callsPc, mesh, callsStream, peerRef, outgoing, upgraded,
                     party, joined, waiting, pend, callsTasks, begun, callsOdd, apart, dropped>>
  BY DEF K!IgnoresDescription, K!local, K!course
<1>4. net' \in Nets BY <1>1, <1>2, <1>3, ArrivedTyped
<1>5. K!TypeOK' BY <1>1, <1>3, <1>4 DEF K!TypeOK, Nets
<1>6. QED BY <1>3, <1>5, OddSame, Untouched

LEMMA LoseStep ==
  ASSUME CallsInv, NEW u \in Parties, NEW v \in Parties, K!Lose(v, u) PROVE CallsInv'
<1> DEFINE m == Head(net[v][u])
<1>1. K!TypeOK /\ K!Arrives(v, u, m.t) /\ net' = K!Popped(v, u)
      /\ UNCHANGED <<active, incoming, callsPc, mesh, callsStream, peerRef, outgoing, upgraded,
                     party, joined, waiting, pend, callsTasks, begun, apart>>
  BY DEF CallsInv, K!Lose, K!Arrives, K!local, K!course
<1>2. net' \in Nets /\ m.call \in Rings BY <1>1, ArrivedTyped
<1>3. \/ dropped' = dropped \cup {<<u, v, m.call>>} /\ callsOdd' = callsOdd
      \/ dropped' = dropped /\ callsOdd' = K!Mark(callsOdd, {m.call}, "lost")
  BY DEF K!Lose
<1> HIDE DEF m
<1>4. callsOdd \in Oddness /\ "lost" \in K!Oddities BY <1>1 DEF K!TypeOK, Oddness, K!Oddities
<1>5. callsOdd' \in Oddness /\ OddGrows BY <1>3, <1>4, MarkTyped DEF OddGrows
<1>6. dropped' \in SUBSET (Parties \X Parties \X Rings) BY <1>1, <1>2, <1>3 DEF K!TypeOK
<1>7. K!TypeOK' BY <1>1, <1>2, <1>5, <1>6 DEF K!TypeOK, Nets, Oddness
<1>8. QED BY <1>1, <1>5, <1>7, Untouched

LEMMA SendIceStep ==
  ASSUME CallsInv, NEW u \in Parties, NEW v \in Parties, K!SendIce(u, v) PROVE CallsInv'
<1> DEFINE k == mesh[u][v]
           p == callsPc[u]
<1>1. K!TypeOK /\ net \in Nets
      /\ UNCHANGED <<active, incoming, callsStream, peerRef, outgoing, upgraded, party, joined,
                     waiting, pend, callsTasks, begun, callsOdd, apart, dropped>>
  BY DEF CallsInv, K!SendIce, K!course, K!TypeOK, Nets
<1>2. \/ /\ k # None /\ mesh' = [mesh EXCEPT ![u][v] = [k EXCEPT !.ice = TRUE]]
         /\ net' = K!Post(net, u, {v}, K!Msg("ice", k.call)) /\ callsPc' = callsPc
      \/ /\ p # None /\ callsPc' = [callsPc EXCEPT ![u] = [p EXCEPT !.ice = TRUE]]
         /\ net' = K!Post(net, u, {v}, K!Msg("ice", p.call)) /\ mesh' = mesh
  BY DEF K!SendIce
<1>3. callsOdd' \in Oddness /\ OddGrows /\ dropped' \in SUBSET (Parties \X Parties \X Rings)
      /\ pend' \in [Parties -> [Parties -> SUBSET Rings]]
  BY <1>1, OddSame DEF K!TypeOK, Oddness
<1>4. ASSUME NEW l \in K!Connections, l # None
      PROVE  /\ [l EXCEPT !.ice = TRUE] \in K!Connections /\ l.call \in Rings
             /\ SameOffer([l EXCEPT !.ice = TRUE], l)
  BY <1>4 DEF K!Connections, SameOffer
<1>5. CASE /\ k # None /\ mesh' = [mesh EXCEPT ![u][v] = [k EXCEPT !.ice = TRUE]]
           /\ net' = K!Post(net, u, {v}, K!Msg("ice", k.call)) /\ callsPc' = callsPc
  <2> DEFINE l == [k EXCEPT !.ice = TRUE]
  <2>1. k \in K!Connections BY <1>1, <1>5 DEF K!TypeOK
  <2>2. l \in K!Connections /\ k.call \in Rings /\ SameOffer(l, mesh[u][v]) BY <1>4, <1>5, <2>1
  <2>3. Placed(u, v, l) BY <1>5 DEF Placed
  <2> HIDE DEF k, l
  <2>4. net' \in Nets BY <1>1, <1>5, <2>2, MsgTyped, PostTyped
  <2>5. QED BY <1>1, <1>3, <2>2, <2>3, <2>4, PlacedKeeps
<1>6. CASE /\ p # None /\ callsPc' = [callsPc EXCEPT ![u] = [p EXCEPT !.ice = TRUE]]
           /\ net' = K!Post(net, u, {v}, K!Msg("ice", p.call)) /\ mesh' = mesh
  <2> DEFINE l == [p EXCEPT !.ice = TRUE]
  <2>1. p \in K!Connections BY <1>1, <1>6 DEF K!TypeOK
  <2>2. l \in K!Connections /\ p.call \in Rings BY <1>4, <1>6, <2>1
  <2>3. Placed(u, v, l) BY <1>6 DEF Placed
  <2> HIDE DEF p, l
  <2>4. net' \in Nets BY <1>1, <1>6, <2>2, MsgTyped, PostTyped
  <2>5. QED BY <1>1, <1>3, <1>6, <2>2, <2>3, <2>4, PlacedKeeps
<1>7. QED BY <1>2, <1>5, <1>6

LEMMA CallsStep == ASSUME CallsInv, K!Next PROVE CallsInv'
<1>1. CASE \E u \in Parties, c \in Rings : K!StartCall(u, c) BY <1>1, StartCallStep
<1>2. CASE \E u \in Parties :
             K!Accept(u) \/ K!Reject(u) \/ K!Hangup(u) \/ K!Connected(u) \/ K!Upgrade(u)
  BY <1>2, AcceptStep, RejectStep, HangupStep, ConnectedStep, UpgradeStep
<1>3. CASE \E u \in Parties : \E t \in callsTasks[u] :
             \/ K!StartMedia(u, t) \/ K!AcceptMedia(u, t) \/ K!MediaFails(u, t)
             \/ K!Offer(u, t) \/ K!Answer(u, t) \/ K!Reoffer(u, t) \/ K!NeverSettles(u, t)
  BY <1>3, StartMediaStep, AcceptMediaStep, MediaFailsStep, OfferStep, CallAnswerStep, ReofferStep,
     NeverSettlesStep
<1>4. CASE \E v, u \in Parties :
             \/ K!OnIncoming(v, u) \/ K!OnAccepted(v, u) \/ K!OnEnded(v, u)
             \/ K!OnReoffer(v, u) \/ K!OnReanswer(v, u) \/ K!IgnoresDescription(v, u)
             \/ K!OnIce(v, u) \/ K!SendIce(v, u) \/ K!Lose(v, u)
  BY <1>4, IncomingStep, AcceptedStep, EndedStep, OnReofferStep, OnReanswerStep, IgnoresStep,
     IceStep, SendIceStep, LoseStep
<1>5. QED BY <1>1, <1>2, <1>3, <1>4 DEF K!Next

LEMMA CallsAlways == PartsSpec => [](only = "calls" => CallsInv)
<1>1. PartsInit => (only = "calls" => CallsInv) BY CallsInit DEF PartsInit
<1>2. ASSUME only = "calls" => CallsInv,
             [PartsNext]_<<only, vars, panelVars, accountVars, callsVars, mediaVars>>
      PROVE  (only = "calls" => CallsInv)'
  <2>1. SUFFICES ASSUME only' = "calls" PROVE CallsInv' OBVIOUS
  <2>2. CASE only = "calls" /\ K!Next BY <1>2, <2>2, CallsStep
  <2>3. CASE UNCHANGED callsVars /\ only' = only
    <3>1. UNCHANGED <<active, incoming, callsPc, mesh, callsStream, peerRef, outgoing, party,
                      joined, waiting, upgraded, pend, callsTasks, net, begun, callsOdd, apart,
                      dropped>> /\ CallsInv
      BY <1>2, <2>1, <2>3 DEF callsVars
    <3>2. K!TypeOK' BY <3>1 DEF CallsInv, K!TypeOK
    <3>3. QED BY <3>1, <3>2, OddSame, Untouched
  <2>4. QED BY <1>2, <2>1, <2>2, <2>3 DEF PartsNext, Only
<1>3. QED BY <1>1, <1>2, PTL DEF PartsSpec

(* OneOfferer of Calls with its types: of two members of a group call whose connections are of  *)
(* the same call, at most one waits for the other's answer, for any users, calls and group      *)
(* calls (shouldInitiateMeshPeer).                                                              *)
THEOREM AtMostOneOffers == PartsSpec => []OneOfferer
<1>1. ASSUME NEW u \in Parties, NEW v \in Parties, NEW c \in Rings,
             K!ShouldInitiate(u, v, Caller[c]), K!ShouldInitiate(v, u, Caller[c])
      PROVE  FALSE
  BY <1>1, CallsFacts DEF K!ShouldInitiate
<1>2. CallsInv => K!TypeOK /\ K!OneOfferer
  BY <1>1, CallsFacts DEF CallsInv, Turns, OfferedInTurn, K!OneOfferer
<1>3. (only = "calls" => CallsInv) => OneOfferer BY <1>2 DEF OneOfferer
<1>4. QED BY <1>3, CallsAlways, PTL

-----------------------------------------------------------------------------
(* The media of calls.  A task that may change the tracks of a call, or the share of a screen, *)
(* knows of the others: that no capture crosses it, or that the share it belongs to is one of  *)
(* a call with video; while a screen is shown nothing else is under way.                       *)
TasksOf(T) ==
  [wait : M!Waits, call : Talks \cup {None}, sw : BOOLEAN, track : T \cup {None},
   ok : BOOLEAN, alone : BOOLEAN, id : M!Ids]
Like(s, t) ==
  s.wait = t.wait /\ s.call = t.call /\ s.sw = t.sw /\ s.track = t.track /\ s.ok = t.ok
    /\ (s.alone => t.alone)
Newly(s, w, sw, tr) ==
  s.wait = w /\ s.call = call /\ s.sw = sw /\ s.track = tr /\ s.ok = TRUE

AsButton(t, e, o, v) == "cam" \in e \/ (t \in o <=> v)
Pending(w) == \E t \in mediaTasks : t.wait = w
Replacing == \E t \in mediaTasks : t.wait = "replace" /\ t.ok
Undisturbed == call # None /\ ~mediaCrossed /\ M!InStream \cap loose = {}
SendsCam ==
  mediaPc # None /\ mediaPc.sender # None /\ mediaPc.sender \in live
    /\ kind[mediaPc.sender] = "cam"

(* Of two captures that wait neither counts as alone, and one upgrades the call at most. *)
Upgrading(t) == t.wait = "upgrade" /\ t.ok
Alone ==
  \A s, t \in mediaTasks :
    s.wait \in M!Captures /\ t.wait \in M!Captures /\ s # t
      => ~s.alone /\ ~(Upgrading(s) /\ Upgrading(t))
(* What a task knows of its call. *)
CallKnown ==
  \A t \in mediaTasks :
    /\ t.call # None => t.call <= last
    /\ t.ok => t.call \in {call, None}
    /\ ~t.ok => call = None \/ t.call # call
    /\ t.wait \in {"media", "replace", "upgrade", "restore"} => t.call # None
    /\ t.wait = "replace" => t.track \in DOMAIN kind /\ kind[t.track] = "screen"
    /\ t.wait = "restore" => t.track \in DOMAIN kind /\ kind[t.track] = "cam"
    /\ t.wait = "upgrade" /\ t.ok => mediaPc # None /\ ~video
    /\ t.wait \in {"replace", "restore"} /\ t.ok => video
    /\ t.wait = "reset" /\ t.alone /\ t.call = call /\ call # None => (t.sw <=> video)
(* What the refs have to do with each other. *)
Refs ==
  /\ call = None \/ call = last
  /\ mediaPc # None => mediaStream # None
  /\ screen # None => kind[screen] = "screen" /\ video
  /\ pip # None => kind[pip] = "cam" /\ screen # None
  /\ sharing => video
  /\ video => call # None
  /\ call = None /\ mediaPc # None => M!InStream \cap loose # {}
(* The stream that a capture is to replace has no live track but loose ones. *)
Released ==
  call = None \/ (\E t \in mediaTasks : t.wait \in {"media", "reset"} /\ t.alone)
    => M!InStream \cap live \subseteq loose
(* A screen is shown, or about to be; and nothing else is under way then. *)
Shown == ~mediaCrossed => (screen # None <=> sharing \/ Replacing)
Quiet ==
  ~mediaCrossed /\ screen # None =>
    \A t \in mediaTasks : t.wait \notin {"media", "reset", "camera", "restore"}
(* The microphones are as their button says. *)
Mics == \A t \in M!Of(M!InStream, "mic") : "mic" \in early \/ (t \in on <=> audioOn)
(* The camera that is set aside for the time of the share, or about to be sent again. *)
PipHeld == ~mediaCrossed /\ pip # None => pip \in M!InStream
RestoreHeld ==
  ~mediaCrossed => \A t \in mediaTasks : t.wait = "restore" /\ t.ok =>
    /\ t.track \in live => t.track \in M!InStream
    /\ ~Pending("media") /\ (Pending("reset") => t.track \notin live)
(* Without video, a camera that is sent was never switched off. *)
VoiceSender ==
  ~video /\ mediaPc # None /\ mediaPc.sender # None /\ kind[mediaPc.sender] = "cam"
    => mediaPc.sender \in on
(* The cameras that are sent, or may be, are as their button says. *)
SenderSeen == Undisturbed /\ SendsCam =>
  AsButton(mediaPc.sender, early, on, videoOn) /\ (video => mediaPc.sender \in M!InStream)
PipSeen == Undisturbed /\ pip # None /\ pip \in live => AsButton(pip, early, on, videoOn)
RestoreSeen == Undisturbed => \A t \in mediaTasks :
  t.wait = "restore" /\ t.ok /\ t.track \in live => AsButton(t.track, early, on, videoOn)
FirstSeen == Undisturbed => \A t \in M!FirstCam :
  AsButton(t, early, on, videoOn) /\ (screen # None => pip = t)
SharedSender == ~mediaCrossed /\ sharing => ~SendsCam

Held == Alone /\ CallKnown /\ Refs /\ Released /\ M!TracksHeld
Shares == Shown /\ Quiet /\ PipHeld /\ RestoreHeld /\ SharedSender
Buttons == Mics /\ VoiceSender /\ SenderSeen /\ PipSeen /\ RestoreSeen /\ FirstSeen
MediaInv == M!TypeOK /\ Held /\ Shares /\ Buttons

LEMMA MediaFacts ==
  /\ Talks \subseteq Nat \ {0} /\ None \notin Nat /\ None \notin Talks /\ MaxTasks \in Nat
  /\ None \notin [call : Talks, sender : Nat \cup {None}]
  /\ MaxTracks \in Nat /\ \A ts \in SUBSET (1 .. MaxTracks) : ts # None
BY MediaAssumption DEF M!MediaConstants

(* The tasks after one begins. *)
LEMMA TaskIs ==
  ASSUME NEW T, NEW STATE ts, M!Free(ts) # {}, NEW w \in M!Waits, NEW sw \in BOOLEAN,
         NEW STATE tr, tr \in T \cup {None}, call \in Talks \cup {None}
  PROVE  /\ M!Task(ts, w, sw, tr) \in TasksOf(T) /\ Newly(M!Task(ts, w, sw, tr), w, sw, tr)
         /\ M!Task(ts, w, sw, tr).alone => \A x \in ts : x.wait \notin M!Captures
<1> DEFINE i == CHOOSE i \in M!Ids : i \in M!Free(ts)
           a == \A x \in ts : x.wait \notin M!Captures
<1>1. i \in M!Ids BY DEF M!Free
<1>2. M!Task(ts, w, sw, tr) = [wait |-> w, call |-> call, sw |-> sw, track |-> tr, ok |-> TRUE,
                               alone |-> a, id |-> i]
  BY DEF M!Task
<1>3. a \in BOOLEAN OBVIOUS
<1>4. a => \A x \in ts : x.wait \notin M!Captures OBVIOUS
<1> HIDE DEF i, a
<1>5. QED BY <1>1, <1>2, <1>3, <1>4 DEF TasksOf, Newly

LEMMA WaitingIs ==
  ASSUME NEW T, mediaTasks \subseteq TasksOf(T), NEW STATE ts, ts \subseteq mediaTasks,
         NEW w \in M!Waits \ M!Captures, NEW sw \in BOOLEAN, NEW STATE tr, tr \in T \cup {None},
         call \in Talks \cup {None}, M!Waiting(ts, M!Task(ts, w, sw, tr)), Alone
  PROVE  /\ mediaTasks' \subseteq TasksOf(T) /\ ts \subseteq mediaTasks'
         /\ \A s \in mediaTasks' : s \in ts \/ Newly(s, w, sw, tr)
         /\ \E s \in mediaTasks' : Newly(s, w, sw, tr)
         /\ Alone'
<1> DEFINE n == M!Task(ts, w, sw, tr)
<1>1. n \in TasksOf(T) /\ Newly(n, w, sw, tr) BY TaskIs DEF M!Waiting
<1>2. mediaTasks' = ts \cup {n} BY DEF M!Waiting
<1> HIDE DEF n
<1>3. n.wait \notin M!Captures BY <1>1 DEF Newly
<1>4. Alone' BY <1>2, <1>3 DEF Alone
<1>5. QED BY <1>1, <1>2, <1>4

LEMMA BegunIs ==
  ASSUME NEW T, mediaTasks \subseteq TasksOf(T), NEW STATE ts, ts \subseteq mediaTasks,
         NEW n \in TasksOf(T), n.alone => \A x \in ts : x.wait \notin M!Captures, M!Begun(ts, n),
         Alone, Upgrading(n) => \A x \in ts : ~Upgrading(x)
  PROVE  /\ mediaTasks' \subseteq TasksOf(T) /\ n \in mediaTasks'
         /\ \A s \in mediaTasks' : s = n \/ (~s.alone /\ \E r \in ts : Like(s, r))
         /\ \A r \in ts : \E s \in mediaTasks' : Like(s, r)
         /\ Alone'
<1>1. mediaTasks' = {[x EXCEPT !.alone = FALSE] : x \in ts} \cup {n} BY DEF M!Begun
<1>2. ASSUME NEW r \in ts
      PROVE  /\ [r EXCEPT !.alone = FALSE] \in TasksOf(T) /\ ~[r EXCEPT !.alone = FALSE].alone
             /\ Like([r EXCEPT !.alone = FALSE], r)
  <2>1. r \in TasksOf(T) OBVIOUS
  <2>2. QED BY <2>1 DEF TasksOf, Like
<1>3. \A s \in mediaTasks' : s = n \/ (~s.alone /\ \E r \in ts : Like(s, r)) BY <1>1, <1>2
<1>4. Alone'
  <2>1. ASSUME NEW s \in mediaTasks', NEW t \in mediaTasks', s.wait \in M!Captures,
               t.wait \in M!Captures, s # t
        PROVE  ~s.alone /\ ~(Upgrading(s) /\ Upgrading(t))
    <3>1. CASE s = n
      <4>1. PICK r \in ts : Like(t, r) BY <1>3, <2>1, <3>1
      <4>2. QED BY <2>1, <3>1, <4>1 DEF Like, Upgrading
    <3>2. CASE t = n
      <4>1. PICK r \in ts : Like(s, r) BY <1>3, <2>1, <3>2
      <4>2. QED BY <1>3, <2>1, <3>2, <4>1 DEF Like, Upgrading
    <3>3. CASE s # n /\ t # n
      <4>1. PICK q, r \in ts : s = [q EXCEPT !.alone = FALSE] /\ t = [r EXCEPT !.alone = FALSE]
        BY <1>1, <3>3
      <4>2. q # r /\ Like(s, q) /\ Like(t, r) /\ ~s.alone BY <1>2, <2>1, <4>1
      <4>3. QED BY <2>1, <4>2 DEF Alone, Like, Upgrading
    <3>4. QED BY <3>1, <3>2, <3>3
  <2>2. QED BY <2>1 DEF Alone
<1>5. QED BY <1>1, <1>2, <1>3, <1>4

(* The tracks after a capture: the older ones are as they were. *)
Grown ==
  /\ kind' \in Seq(M!Kinds) /\ DOMAIN kind \subseteq DOMAIN kind' /\ on' \subseteq DOMAIN kind'
  /\ \A i \in DOMAIN kind : kind'[i] = kind[i] /\ (i \in on' <=> i \in on)
  /\ \A ts \in SUBSET DOMAIN kind' : ts # None

LEMMA CaughtIs ==
  ASSUME M!TypeOK, NEW ks \in {<<"screen">>, <<"cam">>, <<"mic">>, <<"mic", "cam">>}, M!Caught(ks)
  PROVE  /\ Grown
         /\ \A i \in M!Fresh(ks) : i \in DOMAIN kind' /\ i \notin DOMAIN kind /\ i # None
         /\ on' = on \cup M!Fresh(ks)
<1>1. kind \in Seq(M!Kinds) /\ Len(kind) \in Nat /\ DOMAIN kind = 1 .. Len(kind)
      /\ on \subseteq DOMAIN kind
  BY DEF M!TypeOK
<1>2. ks \in Seq(M!Kinds) /\ Len(ks) \in Nat /\ DOMAIN ks = 1 .. Len(ks)
  <2>1. \A x, y \in M!Kinds : <<x>> \in Seq(M!Kinds) /\ <<x, y>> \in Seq(M!Kinds) OBVIOUS
  <2>2. ks \in Seq(M!Kinds) BY <2>1 DEF M!Kinds
  <2>3. QED BY <2>2
<1>3. kind' = kind \o ks /\ on' = on \cup M!Fresh(ks) /\ Len(kind) + Len(ks) <= MaxTracks
  BY DEF M!Caught
<1>4. kind' \in Seq(M!Kinds) /\ DOMAIN kind' = 1 .. (Len(kind) + Len(ks))
      /\ \A i \in DOMAIN kind : kind'[i] = kind[i]
  BY <1>1, <1>2, <1>3
<1>5. \A i \in M!Fresh(ks) : i \in DOMAIN kind' /\ i \notin DOMAIN kind /\ i # None
  BY <1>1, <1>2, <1>4, MediaFacts DEF M!Fresh
<1>6. DOMAIN kind \subseteq DOMAIN kind' BY <1>1, <1>2, <1>4
<1>7. DOMAIN kind' \subseteq 1 .. MaxTracks BY <1>1, <1>2, <1>3, <1>4, MediaFacts
<1>8. Grown BY <1>1, <1>3, <1>4, <1>5, <1>6, <1>7, MediaFacts DEF Grown
<1>9. QED BY <1>3, <1>5, <1>8

LEMMA FreshOne ==
  ASSUME M!TypeOK, NEW k \in {"screen", "cam"}, M!Caught(<<k>>)
  PROVE  M!Fresh(<<k>>) = {Len(kind) + 1} /\ kind'[Len(kind) + 1] = k
<1>1. kind \in Seq(M!Kinds) /\ Len(kind) \in Nat BY DEF M!TypeOK
<1>2. M!Fresh(<<k>>) = {Len(kind) + 1} BY <1>1 DEF M!Fresh
<1>3. kind' = Append(kind, k) BY <1>1 DEF M!Caught, M!Kinds
<1>4. QED BY <1>1, <1>2, <1>3 DEF M!Kinds

LEMMA FreshMedia ==
  ASSUME M!TypeOK, NEW v \in BOOLEAN, M!Caught(M!Media(v))
  PROVE  /\ M!Fresh(M!Media(v)) = {Len(kind) + 1} \cup (IF v THEN {Len(kind) + 2} ELSE {})
         /\ kind'[Len(kind) + 1] = "mic" /\ (v => kind'[Len(kind) + 2] = "cam")
         /\ M!NewCam(v) = IF v THEN Len(kind) + 2 ELSE None
<1>1. kind \in Seq(M!Kinds) /\ Len(kind) \in Nat BY DEF M!TypeOK
<1>2. CASE v
  <2>1. M!Media(v) = <<"mic", "cam">> BY <1>2 DEF M!Media
  <2>2. M!Fresh(M!Media(v)) = {Len(kind) + 1} \cup {Len(kind) + 2}
    <3>1. DOMAIN <<"mic", "cam">> = 1 .. 2 OBVIOUS
    <3>2. QED BY <1>1, <2>1, <3>1 DEF M!Fresh
  <2>3. kind'[Len(kind) + 1] = "mic" /\ kind'[Len(kind) + 2] = "cam"
    <3>1. kind' = kind \o <<"mic", "cam">> BY <2>1 DEF M!Caught
    <3>2. QED BY <1>1, <3>1 DEF M!Kinds
  <2>4. QED BY <1>2, <2>2, <2>3 DEF M!NewCam
<1>3. CASE ~v
  <2>1. M!Media(v) = <<"mic">> BY <1>3 DEF M!Media
  <2>2. M!Fresh(M!Media(v)) = {Len(kind) + 1} BY <1>1, <2>1 DEF M!Fresh
  <2>3. kind'[Len(kind) + 1] = "mic" BY <1>1, <2>1 DEF M!Caught, M!Kinds
  <2>4. QED BY <1>3, <2>2, <2>3 DEF M!NewCam
<1>4. QED BY <1>2, <1>3

(* What of the tasks most of the invariant asks: a task is an older one, or is new.            *)
LEMMA MediaTyped ==
  ASSUME M!TypeOK
  PROVE  /\ mediaTasks \subseteq TasksOf(DOMAIN kind) /\ live \subseteq DOMAIN kind
         /\ call \in Talks \cup {None} /\ DOMAIN kind \subseteq Nat /\ None \notin DOMAIN kind
         /\ last \in Nat /\ (call # None => call \in Nat)
         /\ M!InStream \subseteq DOMAIN kind
         /\ \A t \in mediaTasks : /\ t.call \in Talks \cup {None} /\ t.wait \in M!Waits
                                  /\ t.ok \in BOOLEAN /\ t.alone \in BOOLEAN /\ t.sw \in BOOLEAN
                                  /\ t.track \in DOMAIN kind \cup {None}
<1>1. kind \in Seq(M!Kinds) BY DEF M!TypeOK
<1>2. DOMAIN kind \subseteq Nat BY <1>1
<1>3. mediaTasks \subseteq TasksOf(DOMAIN kind) BY DEF M!TypeOK, TasksOf
<1>4. \A t \in TasksOf(DOMAIN kind) :
        /\ t.call \in Talks \cup {None} /\ t.wait \in M!Waits
        /\ t.ok \in BOOLEAN /\ t.alone \in BOOLEAN /\ t.sw \in BOOLEAN
        /\ t.track \in DOMAIN kind \cup {None}
  BY DEF TasksOf
<1>5. M!InStream \subseteq DOMAIN kind BY DEF M!TypeOK, M!InStream
<1>6. live \subseteq DOMAIN kind /\ call \in Talks \cup {None} /\ last \in Nat
  BY MediaFacts DEF M!TypeOK
<1>7. QED BY <1>2, <1>3, <1>4, <1>5, <1>6, MediaFacts

(* An action that changes no more than the live screens, the picker and the tasks that look    *)
(* for a screen.                                                                               *)
LEMMA Lesser ==
  ASSUME MediaInv, live' \subseteq live, picker' \in {"start", "switch", None},
         mediaTasks' \subseteq TasksOf(DOMAIN kind), Alone',
         UNCHANGED <<desktop, call, video, mediaPc, kind, on, mediaStream, screen, pip, sharing,
                     audioOn, videoOn, last, loose, mediaCrossed, early>>,
         \A s \in mediaTasks' :
           s \in mediaTasks \/ (s.wait \in M!Sources /\ s.call = call /\ s.ok),
         \A t \in mediaTasks : t.wait = "replace" /\ t.ok => t \in mediaTasks'
  PROVE  MediaInv'
<1>1. M!TypeOK /\ Held /\ Shares /\ Buttons BY DEF MediaInv
<1>2. M!InStream' = M!InStream BY DEF M!InStream
<1>3. \A s \in mediaTasks' : s \in mediaTasks \/ s.wait \notin
        {"media", "reset", "camera", "upgrade", "restore", "replace"}
  BY DEF M!Sources
<1>4. Held'
  <2>1. CallKnown'
    <3>1. ASSUME NEW s \in mediaTasks', s \notin mediaTasks
          PROVE  /\ s.call = call /\ s.ok /\ (call # None => call <= last)
                 /\ s.wait \notin {"media", "replace", "upgrade", "restore", "reset"}
      BY <1>1, <1>3, <3>1, MediaTyped DEF Held, Refs
    <3>2. QED BY <1>1, <3>1 DEF Held, CallKnown
  <2>2. Refs' BY <1>1, <1>2 DEF Held, Refs
  <2>3. Released' BY <1>1, <1>2, <1>3 DEF Held, Released
  <2>4. M!TracksHeld' BY <1>1, <1>2 DEF Held, M!TracksHeld
  <2>5. QED BY <2>1, <2>2, <2>3, <2>4 DEF Held
<1>5. Shares'
  <2>1. Replacing' <=> Replacing BY <1>3 DEF Replacing
  <2>2. Shown' /\ Quiet' BY <1>1, <1>3, <2>1 DEF Shares, Shown, Quiet
  <2>3. PipHeld' /\ SharedSender' BY <1>1, <1>2 DEF Shares, PipHeld, SharedSender, SendsCam
  <2>4. RestoreHeld' BY <1>1, <1>2, <1>3 DEF Shares, RestoreHeld, Pending
  <2>5. QED BY <2>2, <2>3, <2>4 DEF Shares
<1>6. Buttons'
  <2>1. Undisturbed' <=> Undisturbed BY <1>2 DEF Undisturbed
  <2>2. Mics' /\ VoiceSender' BY <1>1, <1>2 DEF Buttons, Mics, VoiceSender, M!Of
  <2>3. SenderSeen' /\ PipSeen' /\ RestoreSeen'
    BY <1>1, <1>2, <1>3, <2>1 DEF Buttons, SenderSeen, SendsCam, PipSeen, RestoreSeen
  <2>4. M!FirstCam' \subseteq M!FirstCam BY <1>2 DEF M!FirstCam, M!Of
  <2>5. FirstSeen' BY <1>1, <2>1, <2>4 DEF Buttons, FirstSeen
  <2>6. QED BY <2>2, <2>3, <2>5 DEF Buttons
<1>7. M!TypeOK' BY <1>1 DEF M!TypeOK, TasksOf
<1>8. QED BY <1>4, <1>5, <1>6, <1>7 DEF MediaInv

(* The tasks when the camera is to be sent again. *)
LEMMA SendsCameraIs ==
  ASSUME M!TypeOK, Alone, NEW STATE ts, ts \subseteq mediaTasks, M!SendsCamera(ts)
  PROVE  /\ Alone' /\ mediaTasks' \subseteq TasksOf(DOMAIN kind)
         /\ \A s \in mediaTasks' :
              \/ \E r \in ts : Like(s, r)
              \/ Newly(s, "restore", FALSE, pip) /\ pip \in live
              \/ Newly(s, "camera", FALSE, None)
<1> DEFINE T == DOMAIN kind
<1>1. mediaTasks \subseteq TasksOf(T) /\ call \in Talks \cup {None} BY MediaTyped
<1>2. pip \in T \cup {None} BY DEF M!TypeOK
<1>3. \A r \in ts : Like(r, r) BY DEF Like
<1> HIDE DEF T
<1>4. T = DOMAIN kind BY DEF T
<1>5. CASE mediaTasks' = ts BY <1>1, <1>3, <1>4, <1>5 DEF Alone
<1>6. CASE pip \in live /\ M!Waiting(ts, M!Task(ts, "restore", FALSE, pip))
  <2>1. "restore" \in M!Waits \ M!Captures BY DEF M!Waits, M!Captures, M!Sources
  <2>2. QED BY <1>1, <1>2, <1>3, <1>4, <1>6, <2>1, WaitingIs
<1>7. CASE M!Begun(ts, M!Task(ts, "camera", FALSE, None))
  <2> DEFINE n == M!Task(ts, "camera", FALSE, None)
  <2>1. "camera" \in M!Waits BY DEF M!Waits, M!Captures
  <2>2. M!Free(ts) # {} BY <1>7 DEF M!Begun
  <2>3. n \in TasksOf(T) /\ Newly(n, "camera", FALSE, None)
        /\ (n.alone => \A x \in ts : x.wait \notin M!Captures)
    BY <1>1, <2>1, <2>2, TaskIs
  <2> HIDE DEF n
  <2>4. M!Begun(ts, n) BY <1>7 DEF n
  <2>5. ~Upgrading(n) BY <2>3 DEF Newly, Upgrading
  <2>6. QED BY <1>1, <1>4, <2>3, <2>4, <2>5, BegunIs
<1>8. QED BY <1>5, <1>6, <1>7 DEF M!SendsCamera

(* The end of the share. *)
LEMMA ShareStops ==
  ASSUME MediaInv, NEW STATE ts, ts \subseteq mediaTasks, M!SendsCamera(ts),
         live' \subseteq live, screen \notin live', screen' = None, sharing' = FALSE, pip' = None,
         mediaCrossed' = (mediaCrossed \/ \E t \in ts : t.wait \in M!Showing),
         UNCHANGED <<desktop, call, video, mediaPc, kind, on, mediaStream, picker, audioOn,
                     videoOn, last, loose, early>>
  PROVE  MediaInv'
<1>1. M!TypeOK /\ Held /\ Shares /\ Buttons BY DEF MediaInv
<1>2. M!InStream' = M!InStream BY DEF M!InStream
<1>3. /\ Alone' /\ mediaTasks' \subseteq TasksOf(DOMAIN kind)
      /\ \A s \in mediaTasks' :
           \/ \E r \in ts : Like(s, r)
           \/ Newly(s, "restore", FALSE, pip) /\ pip \in live
           \/ Newly(s, "camera", FALSE, None)
  BY <1>1, SendsCameraIs DEF Held
<1>4. pip \in live => pip # None /\ kind[pip] = "cam" /\ screen # None /\ video /\ call # None
                      /\ pip \in DOMAIN kind
  BY <1>1, MediaTyped DEF Held, Refs
<1>5. \A s \in mediaTasks' : s.wait \in {"media", "reset", "upgrade", "replace"} =>
        \E r \in ts : Like(s, r)
  BY <1>3 DEF Newly
<1>6. Held'
  <2>1. CallKnown'
    <3>1. ASSUME NEW s \in mediaTasks', NEW r \in ts, Like(s, r)
          PROVE  /\ s.wait = r.wait /\ s.call = r.call /\ s.sw = r.sw /\ s.track = r.track
                 /\ s.ok = r.ok /\ (s.alone => r.alone) /\ r \in mediaTasks
      BY <3>1 DEF Like
    <3>2. call # None => call <= last BY <1>1, MediaTyped DEF Held, Refs
    <3>3. QED BY <1>1, <1>3, <1>4, <3>1, <3>2 DEF Held, CallKnown, Newly
  <2>2. Refs' BY <1>1, <1>2 DEF Held, Refs
  <2>3. Released' BY <1>1, <1>2, <1>5 DEF Held, Released, Like
  <2>4. M!TracksHeld' BY <1>1, <1>2 DEF Held, M!TracksHeld
  <2>5. QED BY <1>3, <2>1, <2>2, <2>3, <2>4 DEF Held
<1>7. Shares'
  <2>1. ~mediaCrossed' => ~Replacing'
    <3>1. "replace" \in M!Showing BY DEF M!Showing
    <3>2. ASSUME ~mediaCrossed', NEW s \in mediaTasks', s.wait = "replace" PROVE FALSE
      <4>1. PICK r \in ts : Like(s, r) BY <1>5, <3>2
      <4>2. r.wait \in M!Showing BY <3>1, <3>2, <4>1 DEF Like
      <4>3. QED BY <3>2, <4>2
    <3>3. QED BY <3>2 DEF Replacing
  <2>2. Shown' /\ Quiet' /\ PipHeld' /\ SharedSender'
    BY <2>1 DEF Shown, Quiet, PipHeld, SharedSender
  <2>3. RestoreHeld'
    <3>1. ASSUME ~mediaCrossed', NEW s \in mediaTasks', s.wait = "restore", s.ok
          PROVE  /\ s.track \in live' => s.track \in M!InStream'
                 /\ ~Pending("media")' /\ (Pending("reset")' => s.track \notin live')
      <4>1. Pending("media")' => Pending("media") BY <1>5 DEF Pending, Like
      <4>2. Pending("reset")' => Pending("reset") BY <1>5 DEF Pending, Like
      <4>3. CASE \E r \in ts : Like(s, r)
        BY <1>1, <1>2, <3>1, <4>1, <4>2, <4>3 DEF Shares, RestoreHeld, Like
      <4>4. CASE Newly(s, "restore", FALSE, pip) /\ pip \in live
        BY <1>1, <1>2, <1>4, <3>1, <4>1, <4>2, <4>4 DEF Shares, PipHeld, Quiet, Pending, Newly
      <4>5. QED BY <1>3, <3>1, <4>3, <4>4 DEF Newly
    <3>2. QED BY <3>1 DEF RestoreHeld
  <2>4. QED BY <2>2, <2>3 DEF Shares
<1>8. Buttons'
  <2>1. Undisturbed' => Undisturbed BY <1>2 DEF Undisturbed
  <2>2. Mics' /\ VoiceSender' BY <1>1, <1>2 DEF Buttons, Mics, VoiceSender, M!Of
  <2>3. SenderSeen' /\ PipSeen' BY <1>1, <1>2, <2>1 DEF Buttons, SenderSeen, SendsCam, PipSeen
  <2>4. RestoreSeen'
    <3>1. ASSUME Undisturbed', NEW s \in mediaTasks', s.wait = "restore", s.ok, s.track \in live'
          PROVE  AsButton(s.track, early, on, videoOn)
      <4>1. CASE \E r \in ts : Like(s, r)
        BY <1>1, <2>1, <3>1, <4>1 DEF Buttons, RestoreSeen, Like
      <4>2. CASE Newly(s, "restore", FALSE, pip) /\ pip \in live
        BY <1>1, <1>4, <2>1, <4>2, <3>1 DEF Buttons, PipSeen, Newly
      <4>3. QED BY <1>3, <3>1, <4>1, <4>2 DEF Newly
    <3>2. QED BY <3>1 DEF RestoreSeen
  <2>5. M!FirstCam' \subseteq M!FirstCam BY <1>2 DEF M!FirstCam, M!Of
  <2>6. FirstSeen' BY <1>1, <2>1, <2>5 DEF Buttons, FirstSeen
  <2>7. QED BY <2>2, <2>3, <2>4, <2>6 DEF Buttons
<1>9. M!TypeOK' BY <1>1, <1>3 DEF M!TypeOK, TasksOf
<1>10. QED BY <1>6, <1>7, <1>8, <1>9 DEF MediaInv

(* A function that looks for a screen begins to wait. *)
LEMMA LooksIs ==
  ASSUME M!TypeOK, Alone, NEW w \in M!Sources, NEW sw \in BOOLEAN,
         M!Waiting(mediaTasks, M!Task(mediaTasks, w, sw, None))
  PROVE  /\ Alone' /\ mediaTasks' \subseteq TasksOf(DOMAIN kind)
         /\ \A s \in mediaTasks' :
              s \in mediaTasks \/ (s.wait \in M!Sources /\ s.call = call /\ s.ok)
         /\ \A t \in mediaTasks : t \in mediaTasks'
<1>1. w \in M!Waits \ M!Captures BY DEF M!Waits, M!Captures, M!Sources
<1>2. mediaTasks \subseteq TasksOf(DOMAIN kind) /\ call \in Talks \cup {None} BY MediaTyped
<1> DEFINE T == DOMAIN kind
<1>3. T = DOMAIN kind /\ None \in T \cup {None} OBVIOUS
<1> HIDE DEF T
<1>4. /\ mediaTasks' \subseteq TasksOf(T) /\ mediaTasks \subseteq mediaTasks' /\ Alone'
      /\ \A s \in mediaTasks' : s \in mediaTasks \/ Newly(s, w, sw, None)
  BY <1>1, <1>2, <1>3, WaitingIs
<1>5. QED BY <1>3, <1>4 DEF Newly

LEMMA SwitchSourceStep == ASSUME MediaInv, M!SwitchSource PROVE MediaInv'
<1>1. M!TypeOK /\ Alone /\ mediaTasks \subseteq TasksOf(DOMAIN kind)
  BY MediaTyped DEF MediaInv, Held
<1>2. UNCHANGED <<desktop, call, video, mediaPc, kind, on, mediaStream, screen, pip, sharing,
                  audioOn, videoOn, last, loose, mediaCrossed, early>>
  BY DEF M!SwitchSource, M!refs, M!history
<1>3. CASE desktop
  <2>1. picker' = "switch" /\ UNCHANGED <<mediaTasks, live>> BY <1>3 DEF M!SwitchSource
  <2>2. Alone' BY <1>1, <2>1 DEF Alone
  <2>3. QED BY <1>1, <1>2, <2>1, <2>2, Lesser
<1>4. CASE ~desktop
  <2>1. /\ live' \subseteq live /\ picker' = picker
        /\ M!Waiting(mediaTasks, M!Task(mediaTasks, "display", TRUE, None))
    BY <1>4 DEF M!SwitchSource
  <2>2. "display" \in M!Sources /\ picker' \in {"start", "switch", None}
    BY <1>1, <2>1 DEF M!Sources, M!TypeOK
  <2>3. QED BY <1>1, <1>2, <2>1, <2>2, LooksIs, Lesser
<1>5. QED BY <1>3, <1>4

LEMMA PickStep ==
  ASSUME MediaInv, NEW w \in {"source", "system", None}, M!Pick(w) PROVE MediaInv'
<1>1. M!TypeOK /\ Alone /\ mediaTasks \subseteq TasksOf(DOMAIN kind)
  BY MediaTyped DEF MediaInv, Held
<1>2. picker' = None /\ live' = live
      /\ UNCHANGED <<desktop, call, video, mediaPc, kind, on, mediaStream, screen, pip, sharing,
                     audioOn, videoOn, last, loose, mediaCrossed, early>>
  BY DEF M!Pick, M!refs, M!history
<1>3. CASE w = None
  <2>1. mediaTasks' = mediaTasks BY <1>3 DEF M!Pick
  <2>2. Alone' BY <1>1, <2>1 DEF Alone
  <2>3. QED BY <1>1, <1>2, <2>1, <2>2, Lesser
<1>4. CASE w # None
  <2>1. M!Waiting(mediaTasks, M!Task(mediaTasks, w, picker = "switch", None))
    BY <1>4 DEF M!Pick
  <2>2. w \in M!Sources /\ (picker = "switch") \in BOOLEAN BY <1>4 DEF M!Sources
  <2>3. QED BY <1>1, <1>2, <2>1, <2>2, LooksIs, Lesser
<1>5. QED BY <1>3, <1>4

LEMMA ToggleShareStep == ASSUME MediaInv, M!ToggleShare PROVE MediaInv'
<1>1. M!TypeOK /\ Alone /\ mediaTasks \subseteq TasksOf(DOMAIN kind)
      /\ screen \in DOMAIN kind \cup {None}
  BY MediaTyped DEF MediaInv, Held, M!TypeOK
<1>2. UNCHANGED <<desktop, call, video, mediaPc, kind, on, mediaStream, audioOn, videoOn, last,
                  loose, early>>
  BY DEF M!ToggleShare
<1>3. CASE sharing
  <2>1. M!StopShare(mediaTasks) /\ picker' = picker BY <1>3 DEF M!ToggleShare
  <2>2. QED BY <1>2, <2>1, ShareStops DEF M!StopShare
<1>4. CASE ~sharing
  <2>1. UNCHANGED <<live, screen, sharing, pip, mediaCrossed>> BY <1>4 DEF M!ToggleShare
  <2>2. CASE desktop
    <3>1. picker' = "start" /\ mediaTasks' = mediaTasks BY <1>4, <2>2 DEF M!ToggleShare
    <3>2. Alone' BY <1>1, <3>1 DEF Alone
    <3>3. QED BY <1>1, <1>2, <2>1, <3>1, <3>2, Lesser
  <2>3. CASE ~desktop
    <3>1. picker' = picker /\ M!Waiting(mediaTasks, M!Task(mediaTasks, "display", FALSE, None))
      BY <1>4, <2>3 DEF M!ToggleShare
    <3>2. "display" \in M!Sources /\ picker' \in {"start", "switch", None}
      BY <1>1, <3>1 DEF M!Sources, M!TypeOK
    <3>3. QED BY <1>1, <1>2, <2>1, <3>1, <3>2, LooksIs, Lesser
  <2>4. QED BY <2>2, <2>3
<1>5. QED BY <1>3, <1>4

(* A task that is neither a capture nor a sender ends. *)
LEMMA OneLess ==
  ASSUME MediaInv, NEW t \in mediaTasks, ~(t.wait = "replace" /\ t.ok),
         mediaTasks' = mediaTasks \ {t},
         UNCHANGED <<desktop, call, video, mediaPc, kind, live, on, mediaStream, screen, pip,
                     sharing, picker, audioOn, videoOn, last, loose, mediaCrossed, early>>
  PROVE  MediaInv'
<1>1. M!TypeOK /\ Alone /\ mediaTasks \subseteq TasksOf(DOMAIN kind)
  BY MediaTyped DEF MediaInv, Held
<1>2. Alone' BY <1>1 DEF Alone
<1>3. picker' \in {"start", "switch", None} BY <1>1 DEF M!TypeOK
<1>4. QED BY <1>1, <1>2, <1>3, Lesser

LEMMA FailsStep ==
  ASSUME MediaInv, NEW t \in mediaTasks, M!Fails(t) PROVE MediaInv'
<1>1. ~(t.wait = "replace" /\ t.ok) BY DEF M!Fails, M!Captures
<1>2. QED BY <1>1, OneLess DEF M!Fails, M!refs, M!history

LEMMA NoScreenStep ==
  ASSUME MediaInv, NEW t \in mediaTasks, M!NoScreen(t) PROVE MediaInv'
<1>1. UNCHANGED <<desktop, call, video, mediaPc, kind, on, mediaStream, picker, audioOn, videoOn,
                  last, loose, early>> /\ t.wait # "replace"
  BY DEF M!NoScreen, M!Sources
<1>2. CASE M!StopShare(mediaTasks \ {t}) BY <1>1, <1>2, ShareStops DEF M!StopShare
<1>3. CASE mediaTasks' = mediaTasks \ {t} /\ UNCHANGED <<live, screen, sharing, pip, mediaCrossed>>
  BY <1>1, <1>3, OneLess
<1>4. QED BY <1>2, <1>3 DEF M!NoScreen

LEMMA ScreenEndsStep ==
  ASSUME MediaInv, NEW t \in live, M!ScreenEnds(t) PROVE MediaInv'
<1>1. UNCHANGED <<desktop, call, video, mediaPc, kind, on, mediaStream, picker, audioOn, videoOn,
                  last, loose, early>>
      /\ live' \subseteq live /\ screen \notin live' /\ screen' = None /\ sharing' = FALSE
      /\ pip' = None /\ M!SendsCamera(mediaTasks)
      /\ mediaCrossed' = (mediaCrossed \/ \E x \in mediaTasks : x.wait \in M!Showing)
  BY DEF M!ScreenEnds
<1>2. QED BY <1>1, ShareStops

(* The tasks when the connection closes. *)
LEMMA ClosedIs ==
  ASSUME M!TypeOK, Alone, mediaTasks' = M!Closed(mediaTasks)
  PROVE  /\ mediaTasks' \subseteq TasksOf(DOMAIN kind) /\ Alone'
         /\ \A s \in mediaTasks' : ~s.ok /\ \E r \in mediaTasks :
              s.wait = r.wait /\ s.call = r.call /\ s.track = r.track /\ s.alone = r.alone
<1> DEFINE c(t) == [t EXCEPT !.ok = FALSE]
<1>1. ASSUME NEW t \in mediaTasks
      PROVE  /\ c(t) \in TasksOf(DOMAIN kind) /\ ~c(t).ok /\ c(t).wait = t.wait
             /\ c(t).call = t.call /\ c(t).track = t.track /\ c(t).alone = t.alone
  <2>1. t \in TasksOf(DOMAIN kind) BY MediaTyped
  <2>2. QED BY <2>1 DEF TasksOf
<1>2. mediaTasks' = {c(t) : t \in mediaTasks} BY DEF M!Closed
<1> HIDE DEF c
<1>3. Alone'
  <2>1. ASSUME NEW s \in mediaTasks', NEW t \in mediaTasks', s.wait \in M!Captures,
               t.wait \in M!Captures, s # t
        PROVE  ~s.alone /\ ~s.ok
    <3>1. PICK a, b \in mediaTasks : s = c(a) /\ t = c(b) BY <1>2
    <3>2. a # b /\ a.wait \in M!Captures /\ b.wait \in M!Captures BY <1>1, <2>1, <3>1
    <3>3. QED BY <1>1, <3>1, <3>2 DEF Alone
  <2>2. QED BY <2>1 DEF Alone, Upgrading
<1>4. QED BY <1>1, <1>2, <1>3

LEMMA EndStep == ASSUME MediaInv, M!End PROVE MediaInv'
<1>1. M!TypeOK /\ Held BY DEF MediaInv
<1>2. /\ live' = live \ (M!InStream \cup {screen}) /\ mediaPc' = None /\ mediaStream' = None
      /\ screen' = None /\ pip' = None /\ sharing' = FALSE /\ picker' = None /\ call' = None
      /\ video' = FALSE /\ mediaTasks' = M!Closed(mediaTasks)
      /\ UNCHANGED <<desktop, kind, on, audioOn, videoOn, last, loose, mediaCrossed, early>>
  BY DEF M!End, M!Cleanup, M!history
<1>3. /\ mediaTasks' \subseteq TasksOf(DOMAIN kind) /\ Alone'
      /\ \A s \in mediaTasks' : ~s.ok /\ \E r \in mediaTasks :
           s.wait = r.wait /\ s.call = r.call /\ s.track = r.track /\ s.alone = r.alone
  BY <1>1, <1>2, ClosedIs DEF Held
<1>4. M!InStream' = {} BY <1>2 DEF M!InStream
<1>5. Held'
  <2>1. CallKnown' BY <1>1, <1>2, <1>3 DEF Held, CallKnown
  <2>2. Refs' BY <1>2 DEF Refs
  <2>3. Released' /\ M!TracksHeld' BY <1>1, <1>2, <1>4 DEF Held, Released, M!TracksHeld
  <2>4. QED BY <1>3, <2>1, <2>2, <2>3 DEF Held
<1>6. Shares'
  <2>1. ~Replacing' BY <1>3 DEF Replacing
  <2>2. Shown' /\ Quiet' /\ PipHeld' /\ RestoreHeld' /\ SharedSender'
    BY <1>2, <1>3, <2>1 DEF Shown, Quiet, PipHeld, RestoreHeld, SharedSender
  <2>3. QED BY <2>2 DEF Shares
<1>7. Buttons'
  <2>1. ~Undisturbed' BY <1>2 DEF Undisturbed
  <2>2. Mics' /\ VoiceSender' BY <1>2, <1>4 DEF Mics, VoiceSender, M!Of
  <2>3. SenderSeen' /\ PipSeen' /\ RestoreSeen' /\ FirstSeen'
    BY <2>1 DEF SenderSeen, PipSeen, RestoreSeen, FirstSeen
  <2>4. QED BY <2>2, <2>3 DEF Buttons
<1>8. M!TypeOK' BY <1>1, <1>2, <1>3 DEF M!TypeOK, TasksOf
<1>9. QED BY <1>5, <1>6, <1>7, <1>8 DEF MediaInv

(* A capture begins. *)
LEMMA CaptureIs ==
  ASSUME M!TypeOK, NEW w \in M!Captures, NEW sw \in BOOLEAN,
         M!Begun(mediaTasks, M!Task(mediaTasks, w, sw, None)), Alone,
         w = "upgrade" => \A x \in mediaTasks : ~Upgrading(x)
  PROVE  /\ mediaTasks' \subseteq TasksOf(DOMAIN kind) /\ Alone'
         /\ \A s \in mediaTasks' :
              Newly(s, w, sw, None) \/ (~s.alone /\ \E r \in mediaTasks : Like(s, r))
         /\ \A r \in mediaTasks : \E s \in mediaTasks' : Like(s, r)
<1> DEFINE n == M!Task(mediaTasks, w, sw, None)
           T == DOMAIN kind
<1>1. mediaTasks \subseteq TasksOf(T) /\ call \in Talks \cup {None} BY MediaTyped
<1>2. w \in M!Waits /\ M!Free(mediaTasks) # {} BY DEF M!Waits, M!Begun
<1>3. T = DOMAIN kind /\ None \in T \cup {None} OBVIOUS
<1> HIDE DEF T
<1>4. n \in TasksOf(T) /\ Newly(n, w, sw, None)
      /\ (n.alone => \A x \in mediaTasks : x.wait \notin M!Captures)
  BY <1>1, <1>2, <1>3, TaskIs
<1>5. M!Begun(mediaTasks, n) OBVIOUS
<1> HIDE DEF n
<1>6. Upgrading(n) => w = "upgrade" BY <1>4 DEF Upgrading, Newly
<1>7. QED BY <1>1, <1>3, <1>4, <1>5, <1>6, BegunIs

LEMMA CallResetStep == ASSUME MediaInv, M!Reset PROVE MediaInv'
<1>1. M!TypeOK /\ Held /\ Shares /\ Buttons BY DEF MediaInv
<1>2. /\ call # None /\ live' = live \ (M!InStream \cup {screen}) /\ screen' = None
      /\ pip' = None /\ sharing' = FALSE
      /\ mediaCrossed' = (mediaCrossed \/ \E t \in mediaTasks : t.wait \in M!Showing)
      /\ UNCHANGED <<desktop, call, video, mediaPc, kind, on, mediaStream, picker, audioOn,
                     videoOn, last, loose, early>>
  BY DEF M!Reset
<1>3. /\ mediaTasks' \subseteq TasksOf(DOMAIN kind) /\ Alone'
      /\ \A s \in mediaTasks' :
           Newly(s, "reset", video, None) \/ (~s.alone /\ \E r \in mediaTasks : Like(s, r))
  <2>1. "reset" \in M!Captures /\ video \in BOOLEAN /\ Alone
    BY <1>1 DEF M!Captures, M!TypeOK, Held
  <2>2. QED BY <1>1, <2>1, CaptureIs DEF M!Reset
<1>4. M!InStream' = M!InStream BY <1>2 DEF M!InStream
<1>5. ASSUME NEW s \in mediaTasks', s.wait # "reset"
      PROVE  \E r \in mediaTasks : Like(s, r)
  BY <1>3, <1>5 DEF Newly
<1>6. Held'
  <2>1. CallKnown'
    <3>1. ASSUME NEW s \in mediaTasks', NEW r \in mediaTasks, Like(s, r)
          PROVE  /\ s.wait = r.wait /\ s.call = r.call /\ s.sw = r.sw /\ s.track = r.track
                 /\ s.ok = r.ok /\ (s.alone => r.alone)
      BY <3>1 DEF Like
    <3>2. call # None => call <= last BY <1>1, MediaTyped DEF Held, Refs
    <3>3. QED BY <1>1, <1>2, <1>3, <3>1, <3>2 DEF Held, CallKnown, Newly
  <2>2. Refs' BY <1>1, <1>2, <1>4 DEF Held, Refs
  <2>3. Released' /\ M!TracksHeld' BY <1>1, <1>2, <1>4 DEF Held, Released, M!TracksHeld
  <2>4. QED BY <1>3, <2>1, <2>2, <2>3 DEF Held
<1>7. Shares'
  <2>1. ~mediaCrossed' => ~Replacing'
    <3>1. "replace" \in M!Showing BY DEF M!Showing
    <3>2. ASSUME ~mediaCrossed', NEW s \in mediaTasks', s.wait = "replace" PROVE FALSE
      <4>1. PICK r \in mediaTasks : Like(s, r) BY <1>5, <3>2
      <4>2. r.wait \in M!Showing BY <3>1, <3>2, <4>1 DEF Like
      <4>3. QED BY <1>2, <3>2, <4>2
    <3>3. QED BY <3>2 DEF Replacing
  <2>2. Shown' /\ Quiet' /\ PipHeld' /\ SharedSender'
    BY <1>2, <2>1 DEF Shown, Quiet, PipHeld, SharedSender
  <2>3. RestoreHeld'
    <3>1. ASSUME ~mediaCrossed', NEW s \in mediaTasks', s.wait = "restore", s.ok
          PROVE  s.track \notin live' /\ ~Pending("media")'
      <4>1. PICK r \in mediaTasks : Like(s, r) BY <1>5, <3>1
      <4>2. r.wait = "restore" /\ r.ok /\ r.track = s.track /\ ~mediaCrossed
        BY <1>2, <3>1, <4>1 DEF Like
      <4>3. Pending("media")' => Pending("media") BY <1>5 DEF Pending, Like
      <4>4. QED BY <1>1, <1>2, <4>2, <4>3 DEF Shares, RestoreHeld
    <3>2. QED BY <3>1 DEF RestoreHeld
  <2>4. QED BY <2>2, <2>3 DEF Shares
<1>8. Buttons'
  <2>1. Undisturbed' => Undisturbed BY <1>2, <1>4 DEF Undisturbed
  <2>2. Mics' /\ VoiceSender' BY <1>1, <1>2, <1>4 DEF Buttons, Mics, VoiceSender, M!Of
  <2>3. SenderSeen' /\ PipSeen'
    BY <1>1, <1>2, <1>4, <2>1 DEF Buttons, SenderSeen, SendsCam, PipSeen
  <2>4. RestoreSeen'
    <3>1. ASSUME Undisturbed', NEW s \in mediaTasks', s.wait = "restore", s.ok, s.track \in live'
          PROVE  AsButton(s.track, early, on, videoOn)
      <4>1. PICK r \in mediaTasks : Like(s, r) BY <1>5, <3>1
      <4>2. QED BY <1>1, <1>2, <2>1, <3>1, <4>1 DEF Buttons, RestoreSeen, Like
    <3>2. QED BY <1>2, <3>1 DEF RestoreSeen
  <2>5. M!FirstCam' = {} BY <1>2, <1>4 DEF M!FirstCam, M!Of
  <2>6. FirstSeen' BY <2>5 DEF FirstSeen
  <2>7. QED BY <2>2, <2>3, <2>4, <2>6 DEF Buttons
<1>9. M!TypeOK' BY <1>1, <1>2, <1>3 DEF M!TypeOK, TasksOf
<1>10. QED BY <1>6, <1>7, <1>8, <1>9 DEF MediaInv

LEMMA UpgradeMediaStep == ASSUME MediaInv, M!Upgrade PROVE MediaInv'
<1>1. M!TypeOK /\ Held /\ Shares /\ Buttons BY DEF MediaInv
<1>2. /\ call # None /\ mediaPc # None /\ ~video
      /\ UNCHANGED <<desktop, call, video, mediaPc, kind, live, on, mediaStream, screen, pip,
                     sharing, picker, audioOn, videoOn, last, loose, mediaCrossed, early>>
  BY DEF M!Upgrade, M!refs, M!history
<1>3. /\ mediaTasks' \subseteq TasksOf(DOMAIN kind) /\ Alone'
      /\ \A s \in mediaTasks' :
           Newly(s, "upgrade", FALSE, None) \/ (~s.alone /\ \E r \in mediaTasks : Like(s, r))
      /\ \A r \in mediaTasks : \E s \in mediaTasks' : Like(s, r)
  <2>1. "upgrade" \in M!Captures /\ Alone /\ \A x \in mediaTasks : ~Upgrading(x)
    BY <1>1 DEF M!Captures, Held, M!Upgrade, Upgrading
  <2>2. QED BY <1>1, <2>1, CaptureIs DEF M!Upgrade
<1>4. M!InStream' = M!InStream /\ M!FirstCam' = M!FirstCam
  BY <1>2 DEF M!InStream, M!FirstCam, M!Of
<1>5. ASSUME NEW s \in mediaTasks', s.wait # "upgrade"
      PROVE  ~s.alone /\ \E r \in mediaTasks : Like(s, r)
  BY <1>3, <1>5 DEF Newly
<1>6. \A w \in {"media", "reset", "camera", "restore"} : Pending(w)' => Pending(w)
  BY <1>5 DEF Pending, Like
<1>7. Held'
  <2>1. CallKnown'
    <3>1. ASSUME NEW s \in mediaTasks', NEW r \in mediaTasks, Like(s, r)
          PROVE  /\ s.wait = r.wait /\ s.call = r.call /\ s.sw = r.sw /\ s.track = r.track
                 /\ s.ok = r.ok /\ (s.alone => r.alone)
      BY <3>1 DEF Like
    <3>2. call # None => call <= last BY <1>1, MediaTyped DEF Held, Refs
    <3>3. QED BY <1>1, <1>2, <1>3, <3>1, <3>2 DEF Held, CallKnown, Newly
  <2>2. Refs' BY <1>1, <1>2, <1>4 DEF Held, Refs
  <2>3. Released' /\ M!TracksHeld'
    BY <1>1, <1>2, <1>4, <1>5 DEF Held, Released, M!TracksHeld
  <2>4. QED BY <1>3, <2>1, <2>2, <2>3 DEF Held
<1>8. Shares'
  <2>1. Replacing' <=> Replacing
    <3>1. Replacing' => Replacing BY <1>5 DEF Replacing, Like
    <3>2. Replacing => Replacing' BY <1>3 DEF Replacing, Like
    <3>3. QED BY <3>1, <3>2
  <2>2. Shown' /\ PipHeld' /\ SharedSender'
    BY <1>1, <1>2, <1>4, <2>1 DEF Shares, Shown, PipHeld, SharedSender, SendsCam
  <2>3. Quiet'
    <3>1. Quiet <=> (~mediaCrossed /\ screen # None =>
                       \A w \in {"media", "reset", "camera", "restore"} : ~Pending(w))
      BY DEF Quiet, Pending
    <3>2. Quiet' <=> (~mediaCrossed /\ screen # None =>
                       \A w \in {"media", "reset", "camera", "restore"} : ~Pending(w)')
      BY <1>2 DEF Quiet, Pending
    <3>3. QED BY <1>1, <1>6, <3>1, <3>2 DEF Shares
  <2>4. RestoreHeld'
    <3>1. ASSUME ~mediaCrossed', NEW s \in mediaTasks', s.wait = "restore", s.ok
          PROVE  /\ s.track \in live' => s.track \in M!InStream'
                 /\ ~Pending("media")' /\ (Pending("reset")' => s.track \notin live')
      <4>1. PICK r \in mediaTasks : Like(s, r) BY <1>5, <3>1
      <4>2. r.wait = "restore" /\ r.ok /\ r.track = s.track /\ ~mediaCrossed
        BY <1>2, <3>1, <4>1 DEF Like
      <4>3. QED BY <1>1, <1>2, <1>4, <1>6, <4>2 DEF Shares, RestoreHeld
    <3>2. QED BY <3>1 DEF RestoreHeld
  <2>5. QED BY <2>2, <2>3, <2>4 DEF Shares
<1>9. Buttons'
  <2>1. Undisturbed' <=> Undisturbed BY <1>2, <1>4 DEF Undisturbed
  <2>2. Mics' /\ VoiceSender' BY <1>1, <1>2, <1>4 DEF Buttons, Mics, VoiceSender, M!Of
  <2>3. SenderSeen' /\ PipSeen' /\ FirstSeen'
    BY <1>1, <1>2, <1>4, <2>1 DEF Buttons, SenderSeen, SendsCam, PipSeen, FirstSeen
  <2>4. RestoreSeen'
    <3>1. ASSUME Undisturbed', NEW s \in mediaTasks', s.wait = "restore", s.ok, s.track \in live'
          PROVE  AsButton(s.track, early, on, videoOn)
      <4>1. PICK r \in mediaTasks : Like(s, r) BY <1>5, <3>1
      <4>2. QED BY <1>1, <1>2, <2>1, <3>1, <4>1 DEF Buttons, RestoreSeen, Like
    <3>2. QED BY <1>2, <3>1 DEF RestoreSeen
  <2>5. QED BY <2>2, <2>3, <2>4 DEF Buttons
<1>10. M!TypeOK' BY <1>1, <1>2, <1>3 DEF M!TypeOK, TasksOf
<1>11. QED BY <1>7, <1>8, <1>9, <1>10 DEF MediaInv

LEMMA BeginStep == ASSUME MediaInv, M!Begin PROVE MediaInv'
<1>1. M!TypeOK /\ Held /\ Shares /\ Buttons BY DEF MediaInv
<1>2. /\ call = None /\ last' = last + 1 /\ last' \in Talks /\ call' = last'
      /\ video' = (last' \in VideoTalks) /\ mediaCrossed' = FALSE
      /\ UNCHANGED <<desktop, mediaPc, kind, live, on, mediaStream, screen, pip, sharing, picker,
                     audioOn, videoOn, loose, early>>
  BY DEF M!Begin, M!refs
<1>3. /\ last \in Nat /\ last' \in Nat /\ last < last' /\ call' # None
      /\ ~video /\ screen = None /\ pip = None /\ ~sharing
  BY <1>1, <1>2, MediaFacts, MediaTyped DEF Held, Refs
<1>4. M!InStream' = M!InStream BY <1>2 DEF M!InStream
<1>5. ASSUME NEW r \in mediaTasks, r.ok
      PROVE  r.wait \notin {"media", "replace", "upgrade", "restore"}
  BY <1>1, <1>2, <1>5 DEF Held, CallKnown
<1>6. /\ mediaTasks' \subseteq TasksOf(DOMAIN kind) /\ Alone'
      /\ \A s \in mediaTasks' :
           \/ s.wait = "media" /\ s.call = call' /\ s.ok
           \/ ~s.alone /\ \E r \in mediaTasks : Like(s, r)
      /\ \E s \in mediaTasks' : s.wait = "media"
  <2> DEFINE T == DOMAIN kind
             m == M!Task(mediaTasks, "media", video', None)
             n == [m EXCEPT !.call = last']
  <2>1. mediaTasks \subseteq TasksOf(T) /\ call \in Talks \cup {None} BY <1>1, MediaTyped
  <2>2. "media" \in M!Waits /\ M!Free(mediaTasks) # {} /\ M!Begun(mediaTasks, n)
    BY DEF M!Begin, M!Begun, M!Waits, M!Captures
  <2>3. T = DOMAIN kind /\ None \in T \cup {None} /\ video' \in BOOLEAN BY <1>2
  <2> HIDE DEF T
  <2>4. m \in TasksOf(T) /\ Newly(m, "media", video', None)
        /\ (m.alone => \A x \in mediaTasks : x.wait \notin M!Captures)
    BY <2>1, <2>2, <2>3, TaskIs
  <2> HIDE DEF m
  <2>5. n \in TasksOf(T) /\ n.wait = "media" /\ n.call = last' /\ n.ok = TRUE
        /\ n.alone = m.alone
    BY <1>2, <2>4 DEF TasksOf, Newly
  <2> HIDE DEF n
  <2>6. Alone /\ ~Upgrading(n) BY <1>1, <2>5 DEF Held, Upgrading
  <2>7. QED BY <1>2, <2>1, <2>2, <2>3, <2>4, <2>5, <2>6, BegunIs
<1>7. Held'
  <2>1. CallKnown'
    <3>1. ASSUME NEW s \in mediaTasks', NEW r \in mediaTasks, Like(s, r)
          PROVE  /\ s.wait = r.wait /\ s.call = r.call /\ s.sw = r.sw /\ s.track = r.track
                 /\ s.ok = r.ok /\ (s.alone => r.alone) /\ (s.call # None => s.call <= last)
                 /\ (s.ok => s.call = None /\
                             s.wait \notin {"media", "replace", "upgrade", "restore"})
      BY <1>1, <1>2, <1>5, <3>1 DEF Held, CallKnown, Like
    <3>2. ASSUME NEW s \in mediaTasks', NEW r \in mediaTasks, Like(s, r)
          PROVE  (s.call # None => s.call <= last') /\ s.call # call'
      <4>1. r.call \in Talks \cup {None} BY <1>1, MediaTyped
      <4>2. CASE s.call = None BY <1>3, <4>2
      <4>3. CASE s.call # None
        <5>1. s.call \in Nat /\ s.call <= last BY <3>1, <3>2, <4>1, <4>3, MediaFacts
        <5>2. QED BY <1>2, <1>3, <5>1
      <4>4. QED BY <4>2, <4>3
    <3>3. ASSUME NEW s \in mediaTasks', s.wait = "media" /\ s.call = call' /\ s.ok
          PROVE  s.call <= last'
      BY <1>2, <1>3, <3>3
    <3>4. QED BY <1>1, <1>2, <1>3, <1>6, <3>1, <3>2, <3>3 DEF Held, CallKnown
  <2>2. Refs' BY <1>1, <1>2, <1>3, <1>4 DEF Held, Refs
  <2>3. Released' BY <1>1, <1>2, <1>4 DEF Held, Released
  <2>4. M!TracksHeld' BY <1>1, <1>2, <1>4 DEF Held, M!TracksHeld
  <2>5. QED BY <1>6, <2>1, <2>2, <2>3, <2>4 DEF Held
<1>8. ASSUME NEW s \in mediaTasks', s.ok PROVE s.wait \notin {"replace", "restore"}
  BY <1>5, <1>6, <1>8 DEF Like
<1>9. Shares'
  <2>1. ~Replacing' BY <1>8 DEF Replacing
  <2>2. QED BY <1>2, <1>3, <1>8, <2>1 DEF Shares, Shown, Quiet, PipHeld, RestoreHeld, SharedSender
<1>10. Buttons'
  <2>1. Mics' /\ VoiceSender' BY <1>1, <1>2, <1>3, <1>4 DEF Buttons, Mics, VoiceSender, M!Of
  <2>2. Undisturbed' => mediaPc' = None BY <1>1, <1>2, <1>4 DEF Held, Refs, Undisturbed
  <2>3. SenderSeen' /\ PipSeen' /\ RestoreSeen'
    BY <1>2, <1>3, <1>8, <2>2 DEF SenderSeen, SendsCam, PipSeen, RestoreSeen
  <2>4. Undisturbed' => M!FirstCam' = {}
    <3>1. M!InStream' \cap live' \subseteq loose BY <1>1, <1>2, <1>4 DEF Held, Released
    <3>2. QED BY <1>2, <3>1 DEF Undisturbed, M!FirstCam, M!Of
  <2>5. FirstSeen' BY <2>4 DEF FirstSeen
  <2>6. QED BY <2>1, <2>3, <2>5 DEF Buttons
<1>11. M!TypeOK'
  <2>1. video' \in BOOLEAN
    <3>1. CASE last' \in VideoTalks BY <1>2, <3>1
    <3>2. CASE last' \notin VideoTalks BY <1>2, <3>2
    <3>3. QED BY <3>1, <3>2
  <2>2. UNCHANGED <<desktop, mediaPc, kind, live, on, mediaStream, screen, pip, sharing, picker,
                    audioOn, videoOn, loose, early>>
          /\ call' \in Talks /\ last' \in Talks /\ mediaCrossed' = FALSE
    BY <1>2
  <2>3. QED BY <1>1, <1>6, <2>1, <2>2 DEF M!TypeOK, TasksOf
<1>12. QED BY <1>7, <1>9, <1>10, <1>11 DEF MediaInv

(* An action that changes no more than a button and what is enabled. *)
LEMMA ButtonIs ==
  ASSUME MediaInv, on' \subseteq DOMAIN kind, audioOn' \in BOOLEAN, videoOn' \in BOOLEAN,
         early' \subseteq early, Buttons',
         UNCHANGED <<desktop, call, video, mediaPc, kind, live, mediaStream, screen, pip, sharing,
                     picker, mediaTasks, last, loose, mediaCrossed>>
  PROVE  MediaInv'
<1>1. M!TypeOK /\ Held /\ Shares BY DEF MediaInv
<1>2. M!InStream' = M!InStream BY DEF M!InStream
<1>3. Held'
  <2>1. Alone' /\ Refs' /\ Released' /\ M!TracksHeld'
    BY <1>1, <1>2 DEF Held, Alone, Refs, Released, M!TracksHeld
  <2>2. CallKnown' BY <1>1 DEF Held, CallKnown
  <2>3. QED BY <2>1, <2>2 DEF Held
<1>4. Shares'
  <2>1. Shown' /\ Quiet' /\ PipHeld' /\ SharedSender'
    BY <1>1, <1>2 DEF Shares, Shown, Replacing, Quiet, PipHeld, SharedSender, SendsCam
  <2>2. RestoreHeld' BY <1>1, <1>2 DEF Shares, RestoreHeld, Pending
  <2>3. QED BY <2>1, <2>2 DEF Shares
<1>5. M!TypeOK' BY <1>1 DEF M!TypeOK
<1>6. QED BY <1>3, <1>4, <1>5 DEF MediaInv

LEMMA ToggleMicStep == ASSUME MediaInv, M!ToggleMic PROVE MediaInv'
<1>1. M!TypeOK /\ Held /\ Shares /\ Buttons BY DEF MediaInv
<1>2. /\ audioOn' = ~audioOn /\ early' = early \ {"mic"}
      /\ on' = IF audioOn' THEN on \cup M!Of(M!InStream, "mic") ELSE on \ M!Of(M!InStream, "mic")
      /\ UNCHANGED <<desktop, call, video, mediaPc, kind, live, mediaStream, screen, pip, sharing,
                     picker, videoOn, mediaTasks, last, loose, mediaCrossed>>
  BY DEF M!ToggleMic, M!refs, M!Switched
<1>3. M!InStream' = M!InStream /\ M!FirstCam' = M!FirstCam
      /\ M!Of(M!InStream, "mic")' = M!Of(M!InStream, "mic")
  BY <1>2 DEF M!InStream, M!FirstCam, M!Of
<1>4. ASSUME NEW t, kind[t] = "cam"
      PROVE  (t \in on' <=> t \in on) /\ (AsButton(t, early', on', videoOn')
                                            <=> AsButton(t, early, on, videoOn))
  BY <1>2, <1>4 DEF AsButton, M!Of
<1>5. Buttons'
  <2>1. Mics' BY <1>2, <1>3 DEF Mics
  <2>2. VoiceSender' BY <1>1, <1>2, <1>4 DEF Buttons, VoiceSender
  <2>3. Undisturbed' <=> Undisturbed BY <1>2, <1>3 DEF Undisturbed
  <2>4. SenderSeen' BY <1>1, <1>2, <1>3, <1>4, <2>3 DEF Buttons, SenderSeen, SendsCam
  <2>5. PipSeen' BY <1>1, <1>2, <1>4, <2>3 DEF Buttons, PipSeen, Held, Refs
  <2>6. RestoreSeen' BY <1>1, <1>2, <1>4, <2>3 DEF Buttons, RestoreSeen, Held, CallKnown
  <2>7. FirstSeen' BY <1>1, <1>2, <1>3, <1>4, <2>3 DEF Buttons, FirstSeen, M!FirstCam, M!Of
  <2>8. QED BY <2>1, <2>2, <2>4, <2>5, <2>6, <2>7 DEF Buttons
<1>6. on' \subseteq DOMAIN kind /\ audioOn' \in BOOLEAN /\ videoOn' \in BOOLEAN
      /\ early' \subseteq early
  BY <1>1, <1>2, MediaTyped DEF M!TypeOK, M!Of
<1>7. QED BY <1>2, <1>5, <1>6, ButtonIs

LEMMA ToggleCamStep == ASSUME MediaInv, M!ToggleCam PROVE MediaInv'
<1>1. M!TypeOK /\ Held /\ Shares /\ Buttons BY DEF MediaInv
<1>2. /\ video /\ videoOn' = ~videoOn
      /\ UNCHANGED <<desktop, call, video, mediaPc, kind, live, mediaStream, screen, pip, sharing,
                     picker, audioOn, mediaTasks, last, loose, mediaCrossed>>
  BY DEF M!ToggleCam, M!refs
<1>3. M!InStream' = M!InStream /\ M!FirstCam' = M!FirstCam
      /\ M!Of(M!InStream, "mic")' = M!Of(M!InStream, "mic")
  BY <1>2 DEF M!InStream, M!FirstCam, M!Of
<1>4. Undisturbed' <=> Undisturbed BY <1>2, <1>3 DEF Undisturbed
<1>5. VoiceSender' BY <1>2 DEF VoiceSender
<1>6. M!FirstCam \subseteq M!Of(M!InStream, "cam") BY DEF M!FirstCam, M!Of
<1>7. CASE sharing
  <2>1. early' = early
        /\ on' = IF pip = None THEN on ELSE IF pip \notin on THEN on \cup {pip} ELSE on \ {pip}
    BY <1>7 DEF M!ToggleCam, M!Switched
  <2>2. Mics' BY <1>1, <1>2, <1>3, <2>1 DEF Buttons, Mics, Held, Refs, M!Of
  <2>3. SenderSeen' BY <1>1, <1>2, <1>4, <1>7 DEF Shares, SharedSender, SenderSeen, SendsCam,
                                                  Undisturbed
  <2>4. PipSeen' BY <1>1, <1>2, <1>4, <2>1 DEF Buttons, PipSeen, AsButton
  <2>5. Undisturbed => screen # None BY <1>1, <1>7 DEF Undisturbed, Shares, Shown
  <2>6. RestoreSeen' BY <1>1, <1>2, <1>4, <2>5 DEF RestoreSeen, Shares, Quiet, Undisturbed
  <2>7. FirstSeen'
    <3>1. ASSUME Undisturbed, NEW t \in M!FirstCam
          PROVE  pip = t /\ pip # None /\ pip \in live
      BY <1>1, <2>5, <3>1, MediaTyped DEF Buttons, FirstSeen, M!FirstCam, M!Of
    <3>2. QED BY <1>2, <1>3, <1>4, <2>4, <3>1 DEF FirstSeen, PipSeen
  <2>8. on' \subseteq DOMAIN kind /\ videoOn' \in BOOLEAN /\ audioOn' \in BOOLEAN
    BY <1>1, <1>2, <2>1 DEF M!TypeOK
  <2>9. Buttons' BY <1>5, <2>2, <2>3, <2>4, <2>6, <2>7 DEF Buttons
  <2>10. QED BY <1>2, <2>1, <2>8, <2>9, ButtonIs
<1>8. CASE ~sharing
  <2>1. /\ early' = early \ {"cam"}
        /\ on' = IF videoOn' THEN on \cup M!Of(M!InStream, "cam")
                             ELSE on \ M!Of(M!InStream, "cam")
    BY <1>8 DEF M!ToggleCam, M!Switched
  <2>2. ASSUME NEW t \in M!InStream, kind[t] = "cam"
        PROVE  AsButton(t, early', on', videoOn')
    BY <2>1, <2>2 DEF AsButton, M!Of
  <2>3. Mics' BY <1>1, <1>2, <1>3, <2>1 DEF Buttons, Mics, M!Of
  <2>4. SenderSeen' BY <1>1, <1>2, <1>3, <1>4, <2>2 DEF Buttons, SenderSeen, SendsCam
  <2>5. PipSeen'
    BY <1>1, <1>2, <1>4, <2>2 DEF PipSeen, Held, Refs, Shares, PipHeld, Undisturbed
  <2>6. RestoreSeen'
    BY <1>1, <1>2, <1>4, <2>2 DEF RestoreSeen, Held, CallKnown, Shares, RestoreHeld, Undisturbed
  <2>7. FirstSeen' BY <1>1, <1>2, <1>3, <1>4, <1>6, <2>2 DEF FirstSeen, Buttons, M!Of
  <2>8. on' \subseteq DOMAIN kind /\ videoOn' \in BOOLEAN /\ audioOn' \in BOOLEAN
        /\ early' \subseteq early
    BY <1>1, <1>2, <2>1, MediaTyped DEF M!TypeOK, M!Of
  <2>9. Buttons' BY <1>5, <2>3, <2>4, <2>5, <2>6, <2>7 DEF Buttons
  <2>10. QED BY <1>2, <2>8, <2>9, ButtonIs
<1>9. QED BY <1>1, <1>7, <1>8 DEF M!TypeOK

(* What the connection sends, when it is to send the track t. *)
LEMMA SendsIs ==
  ASSUME M!TypeOK, NEW T, DOMAIN kind \subseteq T, T \subseteq Nat, NEW t \in T,
         mediaPc' = M!Sends(t)
  PROVE  /\ mediaPc' \in [call : Talks, sender : T \cup {None}] \cup {None}
         /\ mediaPc' = None <=> mediaPc = None
         /\ mediaPc' # None => mediaPc'.sender \in {t, None}
         /\ mediaPc' = mediaPc \/ (mediaPc' # None /\ mediaPc'.sender = t)
<1> DEFINE D == T \cup {None}
<1>1. mediaPc \in [call : Talks, sender : D] \cup {None} BY DEF M!TypeOK
<1>2. None \notin [call : Talks, sender : D] BY MediaFacts
<1>3. t \in D OBVIOUS
<1>4. CASE mediaPc = None \/ mediaPc.sender = None BY <1>1, <1>4 DEF M!Sends
<1>5. CASE ~(mediaPc = None \/ mediaPc.sender = None)
  <2>1. mediaPc \in [call : Talks, sender : D] /\ mediaPc' = [mediaPc EXCEPT !.sender = t]
    BY <1>1, <1>5 DEF M!Sends
  <2> HIDE DEF D
  <2>2. mediaPc' \in [call : Talks, sender : D] /\ mediaPc'.sender = t BY <1>3, <2>1
  <2>3. mediaPc' # None BY <1>2, <2>2
  <2>4. QED BY <1>5, <2>2, <2>3 DEF D
<1>6. QED BY <1>4, <1>5

LEMMA ScreenSentStep ==
  ASSUME MediaInv, NEW t \in mediaTasks, M!ScreenSent(t) PROVE MediaInv'
<1>1. M!TypeOK /\ Held /\ Shares /\ Buttons BY DEF MediaInv
<1>2. t.wait = "replace"
      /\ UNCHANGED <<desktop, call, video, kind, on, mediaStream, picker, audioOn, videoOn, last,
                     loose, early>>
  BY DEF M!ScreenSent
<1>3. CASE ~t.ok
  <2>1. CASE M!StopShare(mediaTasks \ {t}) /\ mediaPc' = mediaPc
    BY <1>2, <2>1, ShareStops DEF M!StopShare
  <2>2. CASE /\ mediaTasks' = mediaTasks \ {t}
             /\ UNCHANGED <<mediaPc, live, screen, sharing, pip, mediaCrossed>>
    BY <1>2, <1>3, <2>2, OneLess
  <2>3. QED BY <1>3, <2>1, <2>2 DEF M!ScreenSent
<1>4. CASE t.ok
  <2>1. /\ mediaPc' = M!Sends(t.track) /\ sharing' = TRUE /\ mediaTasks' = mediaTasks \ {t}
        /\ UNCHANGED <<live, screen, pip, mediaCrossed>>
    BY <1>4 DEF M!ScreenSent
  <2>2. t.track \in DOMAIN kind /\ kind[t.track] = "screen" /\ video /\ call # None
    BY <1>1, <1>2, <1>4 DEF Held, CallKnown, Refs
  <2>3. /\ mediaPc' \in [call : Talks, sender : DOMAIN kind \cup {None}] \cup {None}
        /\ mediaPc' = None <=> mediaPc = None
        /\ mediaPc' # None => mediaPc'.sender \in {t.track, None}
    BY <1>1, <2>1, <2>2, SendsIs, MediaTyped
  <2>4. M!InStream' = M!InStream /\ M!FirstCam' = M!FirstCam
    BY <1>2, <2>1 DEF M!InStream, M!FirstCam, M!Of
  <2>5. ~SendsCam' BY <1>2, <2>2, <2>3 DEF SendsCam
  <2>6. Held'
    <3>1. Alone' /\ Released' /\ M!TracksHeld'
      BY <1>1, <1>2, <2>1, <2>4 DEF Held, Alone, Released, M!TracksHeld
    <3>2. CallKnown' BY <1>1, <1>2, <2>1, <2>3 DEF Held, CallKnown
    <3>3. Refs' BY <1>1, <1>2, <2>1, <2>2, <2>3, <2>4 DEF Held, Refs
    <3>4. QED BY <3>1, <3>2, <3>3 DEF Held
  <2>7. Shares'
    <3>1. ~mediaCrossed => screen # None BY <1>1, <1>2, <1>4 DEF Shares, Shown, Replacing
    <3>2. Shown' /\ Quiet' /\ PipHeld' /\ SharedSender'
      BY <1>1, <2>1, <2>4, <2>5, <3>1 DEF Shares, Shown, Quiet, PipHeld, SharedSender
    <3>3. RestoreHeld' BY <1>1, <2>1, <2>4 DEF Shares, RestoreHeld, Pending
    <3>4. QED BY <3>2, <3>3 DEF Shares
  <2>8. Buttons'
    <3>1. Undisturbed' <=> Undisturbed BY <1>2, <2>1, <2>4 DEF Undisturbed
    <3>2. Mics' /\ VoiceSender' BY <1>1, <1>2, <2>2, <2>4 DEF Buttons, Mics, VoiceSender, M!Of
    <3>3. SenderSeen' /\ PipSeen' /\ RestoreSeen' /\ FirstSeen'
      BY <1>1, <1>2, <2>1, <2>4, <2>5, <3>1 DEF Buttons, SenderSeen, PipSeen, RestoreSeen,
                                                FirstSeen
    <3>4. QED BY <3>2, <3>3 DEF Buttons
  <2>9. M!TypeOK' BY <1>1, <1>2, <2>1, <2>3 DEF M!TypeOK
  <2>10. QED BY <2>6, <2>7, <2>8, <2>9 DEF MediaInv
<1>5. QED BY <1>3, <1>4

LEMMA RestoredStep ==
  ASSUME MediaInv, NEW t \in mediaTasks, M!Restored(t) PROVE MediaInv'
<1>1. M!TypeOK /\ Held /\ Shares /\ Buttons BY DEF MediaInv
<1>2. /\ t.wait = "restore" /\ mediaTasks' = mediaTasks \ {t}
      /\ mediaPc' = IF t.ok THEN M!Sends(t.track) ELSE mediaPc
      /\ UNCHANGED <<desktop, call, video, kind, live, on, mediaStream, screen, pip, sharing,
                     picker, audioOn, videoOn, last, loose, mediaCrossed, early>>
  BY DEF M!Restored, M!refs, M!history
<1>3. CASE ~t.ok BY <1>2, <1>3, OneLess
<1>4. CASE t.ok
  <2>1. t.track \in DOMAIN kind /\ kind[t.track] = "cam" /\ video
    BY <1>1, <1>2, <1>4 DEF Held, CallKnown
  <2>2. /\ mediaPc' \in [call : Talks, sender : DOMAIN kind \cup {None}] \cup {None}
        /\ mediaPc' = None <=> mediaPc = None
        /\ mediaPc' = mediaPc \/ (mediaPc' # None /\ mediaPc'.sender = t.track)
    BY <1>1, <1>2, <1>4, <2>1, SendsIs, MediaTyped
  <2>3. M!InStream' = M!InStream /\ M!FirstCam' = M!FirstCam
    BY <1>2 DEF M!InStream, M!FirstCam, M!Of
  <2>4. ~mediaCrossed => screen = None /\ ~sharing
    BY <1>1, <1>2 DEF Shares, Quiet, Shown
  <2>5. Held'
    <3>1. Alone' /\ Released' /\ M!TracksHeld'
      BY <1>1, <1>2, <2>3 DEF Held, Alone, Released, M!TracksHeld
    <3>2. CallKnown' BY <1>1, <1>2, <2>2 DEF Held, CallKnown
    <3>3. Refs' BY <1>1, <1>2, <2>1, <2>2, <2>3 DEF Held, Refs
    <3>4. QED BY <3>1, <3>2, <3>3 DEF Held
  <2>6. Shares'
    <3>1. Replacing' <=> Replacing BY <1>2 DEF Replacing
    <3>2. Shown' /\ Quiet' /\ PipHeld' /\ SharedSender'
      BY <1>1, <1>2, <2>3, <2>4, <3>1 DEF Shares, Shown, Quiet, PipHeld, SharedSender
    <3>3. RestoreHeld' BY <1>1, <1>2, <2>3 DEF Shares, RestoreHeld, Pending
    <3>4. QED BY <3>2, <3>3 DEF Shares
  <2>7. Buttons'
    <3>1. Undisturbed' <=> Undisturbed BY <1>2, <2>3 DEF Undisturbed
    <3>2. Mics' /\ VoiceSender' BY <1>1, <1>2, <2>1, <2>3 DEF Buttons, Mics, VoiceSender, M!Of
    <3>3. SenderSeen'
      <4>1. CASE mediaPc' = mediaPc
        BY <1>1, <1>2, <2>3, <3>1, <4>1 DEF Buttons, SenderSeen, SendsCam
      <4>2. CASE mediaPc' # None /\ mediaPc'.sender = t.track
        <5>1. ASSUME Undisturbed, t.track \in live
              PROVE  AsButton(t.track, early, on, videoOn) /\ t.track \in M!InStream
          BY <1>1, <1>2, <1>4, <5>1 DEF Buttons, RestoreSeen, Shares, RestoreHeld, Undisturbed
        <5>2. QED BY <1>2, <2>3, <3>1, <4>2, <5>1 DEF SenderSeen, SendsCam
      <4>3. QED BY <2>2, <4>1, <4>2
    <3>4. PipSeen' /\ RestoreSeen' /\ FirstSeen'
      BY <1>1, <1>2, <2>3, <3>1 DEF Buttons, PipSeen, RestoreSeen, FirstSeen
    <3>5. QED BY <3>2, <3>3, <3>4 DEF Buttons
  <2>8. M!TypeOK' BY <1>1, <1>2, <2>2 DEF M!TypeOK
  <2>9. QED BY <2>5, <2>6, <2>7, <2>8 DEF MediaInv
<1>5. QED BY <1>3, <1>4

(* A task ends in a capture of a track that is dropped, or is nobody's. *)
LEMMA Strays ==
  ASSUME MediaInv, Grown, NEW t \in mediaTasks, ~(t.wait = "replace" /\ t.ok),
         mediaTasks' = mediaTasks \ {t},
         NEW n, n \notin DOMAIN kind, n \in DOMAIN kind', kind'[n] # "mic",
         live' = live \/ (n \in loose' /\ live' = live \cup {n}),
         \/ mediaStream' = mediaStream
         \/ mediaStream # None /\ n \in loose' /\ mediaStream' = mediaStream \cup {n},
         loose \subseteq loose', loose' \subseteq DOMAIN kind',
         mediaCrossed' \in BOOLEAN, mediaCrossed => mediaCrossed',
         early \subseteq early', early' \subseteq M!Kinds,
         UNCHANGED <<desktop, call, video, mediaPc, screen, pip, sharing, picker, audioOn, videoOn,
                     last>>
  PROVE  MediaInv'
<1>1. M!TypeOK /\ Held /\ Shares /\ Buttons BY DEF MediaInv
<1>2. /\ M!InStream \subseteq DOMAIN kind /\ M!InStream \subseteq M!InStream'
      /\ M!InStream' \subseteq M!InStream \cup {n}
      /\ M!InStream' # M!InStream => n \in M!InStream' /\ n \in loose'
      /\ mediaStream' = None => mediaStream = None
      /\ mediaStream' = None \/ mediaStream' \subseteq DOMAIN kind'
  <2>1. M!InStream \subseteq DOMAIN kind BY <1>1, MediaTyped
  <2>2. CASE mediaStream' = mediaStream
    BY <1>1, <2>1, <2>2 DEF M!InStream, Grown, M!TypeOK
  <2>3. CASE mediaStream # None /\ n \in loose' /\ mediaStream' = mediaStream \cup {n}
    <3>1. M!InStream = mediaStream BY <2>3 DEF M!InStream
    <3>2. mediaStream' \in SUBSET DOMAIN kind' BY <2>1, <2>3, <3>1 DEF Grown
    <3>3. mediaStream' # None BY <3>2 DEF Grown
    <3>4. M!InStream' = mediaStream' BY <3>3 DEF M!InStream
    <3>5. QED BY <2>1, <2>3, <3>1, <3>2, <3>3, <3>4
  <2>4. QED BY <2>2, <2>3
<1>3. /\ live \subseteq DOMAIN kind /\ live \subseteq live' /\ live' \subseteq live \cup {n}
      /\ n \in live' => n \in loose'
  BY <1>1, MediaTyped
<1>4. \A i \in DOMAIN kind : i \in DOMAIN kind' /\ kind'[i] = kind[i] /\ (i \in on' <=> i \in on)
                             /\ (i \in live' <=> i \in live) /\ i # n
  BY <1>3 DEF Grown
<1>5. /\ mediaPc # None => mediaPc.sender \in DOMAIN kind \cup {None}
      /\ screen \in DOMAIN kind \cup {None} /\ pip \in DOMAIN kind \cup {None}
      /\ \A s \in mediaTasks' : s.track \in DOMAIN kind \cup {None}
  BY <1>1, MediaTyped DEF M!TypeOK
<1>6. Held'
  <2>1. Alone' BY <1>1 DEF Held, Alone
  <2>2. CallKnown' BY <1>1, <1>4 DEF Held, CallKnown
  <2>3. Refs' BY <1>1, <1>2, <1>4, <1>5 DEF Held, Refs
  <2>4. Released' BY <1>1, <1>2, <1>3, <1>4 DEF Held, Released
  <2>5. M!TracksHeld' BY <1>1, <1>2, <1>3 DEF Held, M!TracksHeld
  <2>6. QED BY <2>1, <2>2, <2>3, <2>4, <2>5 DEF Held
<1>7. SendsCam' <=> SendsCam BY <1>4, <1>5 DEF SendsCam
<1>8. Shares'
  <2>1. Replacing' <=> Replacing BY DEF Replacing
  <2>2. Shown' /\ Quiet' BY <1>1, <2>1 DEF Shares, Shown, Quiet
  <2>3. PipHeld' /\ SharedSender' BY <1>1, <1>2, <1>7 DEF Shares, PipHeld, SharedSender
  <2>4. RestoreHeld'
    <3>1. \A w \in {"media", "reset"} : Pending(w)' => Pending(w) BY DEF Pending
    <3>2. ASSUME NEW s \in mediaTasks', s.wait = "restore", s.ok, ~mediaCrossed'
          PROVE  /\ s.track \in DOMAIN kind /\ (s.track \in live => s.track \in M!InStream)
                 /\ ~Pending("media") /\ (Pending("reset") => s.track \notin live)
      BY <1>1, <3>2 DEF Held, CallKnown, Shares, RestoreHeld
    <3>3. QED BY <1>2, <1>4, <3>1, <3>2 DEF RestoreHeld
  <2>5. QED BY <2>2, <2>3, <2>4 DEF Shares
<1>9. Buttons'
  <2>1. Undisturbed' => Undisturbed /\ M!InStream' = M!InStream
    BY <1>2 DEF Undisturbed
  <2>2. Mics' BY <1>1, <1>2, <1>4 DEF Buttons, Mics, M!Of
  <2>3. VoiceSender' BY <1>1, <1>4, <1>5 DEF Buttons, VoiceSender
  <2>4. \A i \in DOMAIN kind : AsButton(i, early, on, videoOn) => AsButton(i, early', on', videoOn')
    BY <1>4 DEF AsButton
  <2>5. SenderSeen' BY <1>1, <1>5, <1>7, <2>1, <2>4 DEF Buttons, SenderSeen, SendsCam
  <2>6. PipSeen' BY <1>1, <1>4, <1>5, <2>1, <2>4 DEF Buttons, PipSeen
  <2>7. RestoreSeen'
    BY <1>1, <1>4, <2>1, <2>4 DEF Buttons, RestoreSeen, Held, CallKnown
  <2>8. FirstSeen'
    <3>1. ASSUME Undisturbed', NEW i \in M!FirstCam' PROVE i \in M!FirstCam /\ i \in DOMAIN kind
      BY <1>2, <1>4, <2>1, <3>1 DEF M!FirstCam, M!Of
    <3>2. QED BY <1>1, <2>1, <2>4, <3>1 DEF Buttons, FirstSeen
  <2>9. QED BY <2>2, <2>3, <2>5, <2>6, <2>7, <2>8 DEF Buttons
<1>10. M!TypeOK'
  <2>1. mediaTasks' \subseteq TasksOf(DOMAIN kind')
    <3>1. mediaTasks \subseteq TasksOf(DOMAIN kind) BY <1>1, MediaTyped
    <3>2. TasksOf(DOMAIN kind) \subseteq TasksOf(DOMAIN kind') BY DEF TasksOf, Grown
    <3>3. QED BY <3>1, <3>2
  <2>2. live' \subseteq DOMAIN kind' /\ on' \subseteq DOMAIN kind' /\ kind' \in Seq(M!Kinds)
    BY <1>3, <1>4 DEF Grown
  <2>3. mediaPc' \in [call : Talks, sender : DOMAIN kind' \cup {None}] \cup {None}
    <3>1. mediaPc \in [call : Talks, sender : DOMAIN kind \cup {None}] \cup {None}
      BY <1>1 DEF M!TypeOK
    <3>2. QED BY <1>4, <3>1
  <2>4. screen' \in DOMAIN kind' \cup {None} /\ pip' \in DOMAIN kind' \cup {None} BY <1>4, <1>5
  <2>5. QED BY <1>1, <1>2, <2>1, <2>2, <2>3, <2>4 DEF M!TypeOK, TasksOf
<1>11. QED BY <1>6, <1>8, <1>9, <1>10 DEF MediaInv

(* What is loose after a capture. *)
LEMMA AstrayIs ==
  ASSUME NEW t \in mediaTasks, NEW ks, loose' = loose \cup M!Astray(t, ks)
  PROVE  /\ loose \subseteq loose' /\ loose' \subseteq (loose \cup M!Fresh(ks)) \cup M!InStream
         /\ (call = None \/ t.call # call \/ ~t.alone) => M!Fresh(ks) \subseteq loose'
         /\ ~t.alone => M!InStream \subseteq loose'
BY DEF M!Astray

(* A capture of one track for a connection that was closed meanwhile. *)
LEMMA StraysFor ==
  ASSUME MediaInv, NEW t \in mediaTasks, ~t.ok, M!Caught(<<"cam">>),
         mediaTasks' = mediaTasks \ {t}, loose' = loose \cup M!Astray(t, <<"cam">>),
         live' = live \cup {Len(kind) + 1},
         \/ mediaStream' = mediaStream
         \/ mediaStream # None /\ mediaStream' = mediaStream \cup {Len(kind) + 1},
         early \subseteq early', early' \subseteq M!Kinds,
         UNCHANGED <<desktop, call, video, mediaPc, screen, pip, sharing, picker, audioOn, videoOn,
                     last, mediaCrossed>>
  PROVE  MediaInv'
<1> DEFINE n == Len(kind) + 1
<1>1. M!TypeOK /\ Held BY DEF MediaInv
<1>2. M!Fresh(<<"cam">>) = {n} /\ kind'[n] = "cam" BY <1>1, FreshOne
<1>3. Grown /\ n \notin DOMAIN kind /\ n \in DOMAIN kind' BY <1>1, <1>2, CaughtIs
<1>4. call = None \/ t.call # call BY <1>1 DEF Held, CallKnown
<1>5. n \in loose' /\ loose \subseteq loose' /\ loose' \subseteq (loose \cup {n}) \cup M!InStream
  BY <1>2, <1>4, AstrayIs
<1>6. loose' \subseteq DOMAIN kind' /\ mediaCrossed' \in BOOLEAN
  BY <1>1, <1>3, <1>5, MediaTyped DEF Grown, M!TypeOK
<1> HIDE DEF n
<1>7. /\ live' = live \cup {n}
      /\ \/ mediaStream' = mediaStream
         \/ mediaStream # None /\ mediaStream' = mediaStream \cup {n}
  BY DEF n
<1>8. QED BY <1>2, <1>3, <1>5, <1>6, <1>7, Strays

LEMMA CameraComesStep ==
  ASSUME MediaInv, NEW t \in mediaTasks, M!CameraComes(t) PROVE MediaInv'
<1> DEFINE n == Len(kind) + 1
<1>1. M!TypeOK /\ Held /\ Shares /\ Buttons BY DEF MediaInv
<1>2. /\ t.wait = "camera" /\ M!Caught(<<"cam">>) /\ mediaTasks' = mediaTasks \ {t}
      /\ loose' = loose \cup M!Astray(t, <<"cam">>)
      /\ UNCHANGED <<desktop, call, video, screen, pip, sharing, picker, audioOn, last,
                     mediaCrossed>>
  BY DEF M!CameraComes
<1>3. CASE ~t.ok
  <2>1. live' = live \cup {n} /\ UNCHANGED <<mediaPc, mediaStream, videoOn, early>>
    BY <1>3 DEF M!CameraComes
  <2>2. early' \subseteq M!Kinds BY <1>1, <2>1 DEF M!TypeOK
  <2>3. QED BY <1>2, <1>3, <2>1, <2>2, StraysFor
<1>4. CASE t.ok
  <2>1. /\ mediaPc' = M!Sends(n) /\ live' = (live \ M!Of(M!InStream, "cam")) \cup {n}
        /\ mediaStream' = M!InStream \cup {n} /\ videoOn' = TRUE /\ early' = early \ {"cam"}
    BY <1>4 DEF M!CameraComes
  <2>2. M!Fresh(<<"cam">>) = {n} /\ kind'[n] = "cam" BY <1>1, <1>2, FreshOne
  <2>3. Grown /\ n \notin DOMAIN kind /\ n \in DOMAIN kind' /\ n \in on'
    BY <1>1, <1>2, <2>2, CaughtIs
  <2>4. DOMAIN kind' \subseteq Nat
    <3>1. kind' \in Seq(M!Kinds) BY <2>3 DEF Grown
    <3>2. QED BY <3>1
  <2> HIDE DEF n
  <2>5. /\ mediaPc' \in [call : Talks, sender : DOMAIN kind' \cup {None}] \cup {None}
        /\ mediaPc' = None <=> mediaPc = None
        /\ mediaPc' # None => mediaPc'.sender \in {n, None}
        /\ mediaPc' = mediaPc \/ (mediaPc' # None /\ mediaPc'.sender = n)
    BY <1>1, <2>1, <2>3, <2>4, SendsIs DEF Grown
  <2>6. /\ M!InStream \subseteq DOMAIN kind /\ M!InStream' = M!InStream \cup {n}
        /\ mediaStream' # None /\ mediaStream' \subseteq DOMAIN kind'
    <3>1. M!InStream \subseteq DOMAIN kind BY <1>1, MediaTyped
    <3>2. mediaStream' \in SUBSET DOMAIN kind' BY <2>1, <2>3, <3>1 DEF Grown
    <3>3. mediaStream' # None BY <2>3, <3>2 DEF Grown
    <3>4. QED BY <2>1, <3>1, <3>2, <3>3 DEF M!InStream
  <2>7. \A i \in DOMAIN kind : i \in DOMAIN kind' /\ kind'[i] = kind[i]
                               /\ (i \in on' <=> i \in on) /\ (i \in live' => i \in live) /\ i # n
    BY <2>1, <2>3 DEF Grown
  <2>8. /\ loose \subseteq loose' /\ loose' \subseteq DOMAIN kind'
        /\ (call = None \/ t.call # call \/ ~t.alone) => n \in loose'
    <3>1. loose \subseteq DOMAIN kind BY <1>1 DEF M!TypeOK
    <3>2. QED BY <1>2, <2>2, <2>3, <2>6, <3>1, AstrayIs DEF Grown
  <2>9. ~mediaCrossed => screen = None /\ ~sharing /\ pip = None
    BY <1>1, <1>2 DEF Shares, Quiet, Shown, Held, Refs
  <2>10. ASSUME NEW s \in mediaTasks', ~mediaCrossed, s.wait = "restore", s.ok
         PROVE  s.track \notin live' /\ ~Pending("media")
    <3>1. s.track \in DOMAIN kind /\ kind[s.track] = "cam"
          /\ (s.track \in live => s.track \in M!InStream)
      BY <1>1, <1>2, <2>10 DEF Held, CallKnown, Shares, RestoreHeld
    <3>2. s.track \notin live' BY <2>1, <2>7, <3>1 DEF M!Of
    <3>3. QED BY <1>1, <1>2, <2>10, <3>2 DEF Shares, RestoreHeld
  <2>11. Held'
    <3>1. Alone' BY <1>1, <1>2 DEF Held, Alone
    <3>2. CallKnown' BY <1>1, <1>2, <2>5, <2>7 DEF Held, CallKnown
    <3>3. Refs'
      <4>1. screen \in DOMAIN kind \cup {None} /\ pip \in DOMAIN kind \cup {None}
        BY <1>1 DEF M!TypeOK
      <4>2. QED BY <1>1, <1>2, <2>6, <2>7, <2>8, <4>1 DEF Held, Refs
    <3>4. Released'
      <4>1. ASSUME NEW s \in mediaTasks', s.wait \in {"media", "reset"} PROVE ~s.alone
        BY <1>1, <1>2, <4>1 DEF Held, Alone, M!Captures
      <4>2. call = None => M!InStream \cap live \subseteq loose BY <1>1 DEF Held, Released
      <4>3. QED BY <1>2, <2>1, <2>6, <2>8, <4>1, <4>2 DEF Released
    <3>5. M!TracksHeld' BY <1>1, <1>2, <2>1, <2>6, <2>8 DEF Held, M!TracksHeld
    <3>6. QED BY <3>1, <3>2, <3>3, <3>4, <3>5 DEF Held
  <2>12. Shares'
    <3>1. Replacing' <=> Replacing BY <1>2 DEF Replacing
    <3>2. Shown' /\ Quiet' /\ PipHeld' /\ SharedSender'
      BY <1>1, <1>2, <2>9, <3>1 DEF Shares, Shown, Quiet, PipHeld, SharedSender
    <3>3. Pending("media")' => Pending("media") BY <1>2 DEF Pending
    <3>4. RestoreHeld' BY <1>2, <2>10, <3>3 DEF RestoreHeld
    <3>5. QED BY <3>2, <3>4 DEF Shares
  <2>13. Buttons'
    <3>1. Undisturbed' => ~mediaCrossed BY <1>2 DEF Undisturbed
    <3>2. Mics' BY <1>1, <1>2, <2>1, <2>2, <2>6, <2>7 DEF Buttons, Mics, M!Of
    <3>3. VoiceSender'
      <4>1. mediaPc # None => mediaPc.sender \in DOMAIN kind \cup {None} BY <1>1 DEF M!TypeOK
      <4>2. QED BY <1>1, <1>2, <2>3, <2>5, <2>7, <4>1 DEF Buttons, VoiceSender
    <3>4. AsButton(n, early', on', videoOn') BY <2>1, <2>3 DEF AsButton
    <3>5. SenderSeen' BY <2>5, <2>6, <3>4 DEF SenderSeen, SendsCam
    <3>6. PipSeen' /\ RestoreSeen' BY <1>2, <2>9, <2>10, <3>1 DEF PipSeen, RestoreSeen
    <3>7. M!FirstCam' \subseteq {n}
      <4>1. ASSUME NEW i \in M!InStream, i \in live', kind'[i] = "cam" PROVE i = n
        BY <2>1, <2>6, <2>7, <4>1 DEF M!Of
      <4>2. QED BY <2>6, <4>1 DEF M!FirstCam, M!Of
    <3>8. FirstSeen' BY <1>2, <2>9, <3>1, <3>4, <3>7 DEF FirstSeen
    <3>9. QED BY <3>2, <3>3, <3>5, <3>6, <3>8 DEF Buttons
  <2>14. M!TypeOK'
    <3>1. mediaTasks' \subseteq TasksOf(DOMAIN kind')
      <4>1. mediaTasks \subseteq TasksOf(DOMAIN kind) BY <1>1, MediaTyped
      <4>2. TasksOf(DOMAIN kind) \subseteq TasksOf(DOMAIN kind') BY <2>3 DEF TasksOf, Grown
      <4>3. QED BY <1>2, <4>1, <4>2
    <3>2. /\ live' \subseteq DOMAIN kind' /\ on' \subseteq DOMAIN kind' /\ kind' \in Seq(M!Kinds)
          /\ early' \subseteq M!Kinds
      BY <1>1, <2>1, <2>3 DEF Grown, M!TypeOK
    <3>3. screen' \in DOMAIN kind' \cup {None} /\ pip' \in DOMAIN kind' \cup {None}
      BY <1>1, <1>2, <2>7 DEF M!TypeOK
    <3>4. QED BY <1>1, <1>2, <2>1, <2>5, <2>6, <2>8, <3>1, <3>2, <3>3 DEF M!TypeOK, TasksOf
  <2>15. QED BY <2>11, <2>12, <2>13, <2>14 DEF MediaInv
<1>5. QED BY <1>3, <1>4

LEMMA UpgradeComesStep ==
  ASSUME MediaInv, NEW t \in mediaTasks, M!UpgradeComes(t) PROVE MediaInv'
<1> DEFINE n == Len(kind) + 1
<1>1. M!TypeOK /\ Held /\ Shares /\ Buttons BY DEF MediaInv
<1>2. /\ t.wait = "upgrade" /\ M!Caught(<<"cam">>) /\ mediaTasks' = mediaTasks \ {t}
      /\ live' = live \cup {n} /\ loose' = loose \cup M!Astray(t, <<"cam">>)
      /\ mediaStream' = IF mediaStream = None THEN None ELSE mediaStream \cup {n}
      /\ early' = early \cup (M!Unlike \cap {"cam"})
      /\ UNCHANGED <<desktop, call, screen, pip, sharing, picker, audioOn, videoOn, last,
                     mediaCrossed>>
  BY DEF M!UpgradeComes
<1>3. early \subseteq early' /\ early' \subseteq M!Kinds BY <1>1, <1>2 DEF M!TypeOK, M!Kinds
<1>4. CASE ~t.ok
  <2>1. UNCHANGED <<mediaPc, video>> BY <1>4 DEF M!UpgradeComes
  <2>2. QED BY <1>2, <1>3, <1>4, <2>1, StraysFor
<1>5. CASE t.ok
  <2>1. /\ mediaPc # None /\ ~video /\ t.call = call /\ call # None /\ mediaStream # None
        /\ screen = None /\ pip = None /\ ~sharing
    BY <1>1, <1>2, <1>5 DEF Held, CallKnown, Refs
  <2>2. mediaPc' = [mediaPc EXCEPT !.sender = n] /\ video' = TRUE BY <1>5 DEF M!UpgradeComes
  <2>3. M!Fresh(<<"cam">>) = {n} /\ kind'[n] = "cam" BY <1>1, <1>2, FreshOne
  <2>4. Grown /\ n \notin DOMAIN kind /\ n \in DOMAIN kind' /\ n \in on'
    BY <1>1, <1>2, <2>3, CaughtIs
  <2>5. DOMAIN kind' \subseteq Nat
    <3>1. kind' \in Seq(M!Kinds) BY <2>4 DEF Grown
    <3>2. QED BY <3>1
  <2>6. mediaStream' = mediaStream \cup {n} /\ live' = live \cup {n} BY <1>2, <2>1
  <2> HIDE DEF n
  <2>7. mediaPc' \in [call : Talks, sender : DOMAIN kind' \cup {None}] /\ mediaPc'.sender = n
        /\ mediaPc' # None
    <3> DEFINE D == DOMAIN kind' \cup {None}
    <3>1. mediaPc \in [call : Talks, sender : D] BY <1>1, <2>1, <2>4 DEF M!TypeOK, Grown
    <3>2. n \in D BY <2>4
    <3>3. None \notin [call : Talks, sender : D] BY <2>5, MediaFacts
    <3> HIDE DEF D
    <3>4. mediaPc' \in [call : Talks, sender : D] /\ mediaPc'.sender = n BY <2>2, <3>1, <3>2
    <3>5. QED BY <3>3, <3>4 DEF D
  <2>8. /\ M!InStream \subseteq DOMAIN kind /\ M!InStream' = M!InStream \cup {n}
        /\ mediaStream' # None /\ mediaStream' \subseteq DOMAIN kind'
    <3>1. M!InStream \subseteq DOMAIN kind /\ M!InStream = mediaStream
      BY <1>1, <2>1, MediaTyped DEF M!InStream
    <3>2. mediaStream' \in SUBSET DOMAIN kind' BY <2>4, <2>6, <3>1 DEF Grown
    <3>3. mediaStream' # None BY <2>4, <3>2 DEF Grown
    <3>4. QED BY <2>6, <3>1, <3>2, <3>3 DEF M!InStream
  <2>9. \A i \in DOMAIN kind : i \in DOMAIN kind' /\ kind'[i] = kind[i]
                               /\ (i \in on' <=> i \in on) /\ (i \in live' <=> i \in live) /\ i # n
    BY <2>4, <2>6 DEF Grown
  <2>10. loose \subseteq loose' /\ loose' \subseteq DOMAIN kind'
    <3>1. loose \subseteq DOMAIN kind BY <1>1 DEF M!TypeOK
    <3>2. QED BY <1>2, <2>3, <2>4, <2>8, <3>1, AstrayIs DEF Grown
  <2>11. ASSUME NEW s \in mediaTasks'
         PROVE  /\ s \in mediaTasks /\ ~(s.wait \in {"replace", "restore"} /\ s.ok)
                /\ s.wait \in {"media", "reset"} => ~s.alone
                /\ ~(s.wait = "upgrade" /\ s.ok)
    <3>1. s \in mediaTasks /\ s # t BY <1>2
    <3>2. ~(s.wait \in {"replace", "restore"} /\ s.ok) BY <1>1, <2>1, <3>1 DEF Held, CallKnown
    <3>3. QED BY <1>1, <1>2, <1>5, <3>1, <3>2 DEF Held, Alone, Upgrading, M!Captures
  <2>12. Held'
    <3>1. Alone' BY <1>1, <1>2 DEF Held, Alone
    <3>2. CallKnown'
      <4>1. \A s \in mediaTasks' : s.track \in DOMAIN kind => kind'[s.track] = kind[s.track]
        BY <2>9
      <4>2. QED BY <1>1, <1>2, <2>9, <2>11, <4>1 DEF Held, CallKnown
    <3>3. Refs' BY <1>1, <1>2, <2>1, <2>2, <2>8 DEF Held, Refs
    <3>4. Released' BY <1>2, <2>1, <2>11 DEF Released
    <3>5. M!TracksHeld' BY <1>1, <1>2, <2>6, <2>8, <2>10 DEF Held, M!TracksHeld
    <3>6. QED BY <3>1, <3>2, <3>3, <3>4, <3>5 DEF Held
  <2>13. Shares'
    <3>1. Replacing' <=> Replacing BY <1>2 DEF Replacing
    <3>2. Shown' /\ Quiet' /\ PipHeld' /\ SharedSender'
      BY <1>1, <1>2, <2>1, <3>1 DEF Shares, Shown, Quiet, PipHeld, SharedSender
    <3>3. RestoreHeld' BY <2>11 DEF RestoreHeld
    <3>4. QED BY <3>2, <3>3 DEF Shares
  <2>14. Buttons'
    <3>1. Undisturbed' => Undisturbed BY <1>2, <2>8, <2>10 DEF Undisturbed
    <3>2. Mics' BY <1>1, <1>2, <1>3, <2>3, <2>8, <2>9 DEF Buttons, Mics, M!Of
    <3>3. VoiceSender' BY <2>2 DEF VoiceSender
    <3>4. AsButton(n, early', on', videoOn') BY <1>1, <1>2, <2>4 DEF AsButton, M!Unlike, M!TypeOK
    <3>5. SenderSeen' BY <2>7, <2>8, <3>4 DEF SenderSeen, SendsCam
    <3>6. PipSeen' /\ RestoreSeen' BY <1>2, <2>1, <2>11 DEF PipSeen, RestoreSeen
    <3>7. ASSUME NEW i \in M!FirstCam', i # n PROVE i \in M!FirstCam /\ i \in DOMAIN kind
      BY <2>8, <2>9, <3>7 DEF M!FirstCam, M!Of
    <3>8. FirstSeen'
      <4>1. ASSUME Undisturbed', NEW i \in M!FirstCam' PROVE AsButton(i, early', on', videoOn')
        <5>1. CASE i = n BY <3>4, <5>1
        <5>2. CASE i # n
          BY <1>1, <1>2, <1>3, <2>9, <3>1, <3>7, <4>1, <5>2 DEF Buttons, FirstSeen, AsButton
        <5>3. QED BY <5>1, <5>2
      <4>2. QED BY <1>2, <2>1, <4>1 DEF FirstSeen
    <3>9. QED BY <3>2, <3>3, <3>5, <3>6, <3>8 DEF Buttons
  <2>15. M!TypeOK'
    <3>1. mediaTasks' \subseteq TasksOf(DOMAIN kind')
      <4>1. mediaTasks \subseteq TasksOf(DOMAIN kind) BY <1>1, MediaTyped
      <4>2. TasksOf(DOMAIN kind) \subseteq TasksOf(DOMAIN kind') BY <2>4 DEF TasksOf, Grown
      <4>3. QED BY <1>2, <4>1, <4>2
    <3>2. /\ live' \subseteq DOMAIN kind' /\ on' \subseteq DOMAIN kind' /\ kind' \in Seq(M!Kinds)
      BY <1>1, <2>4, <2>6 DEF Grown, M!TypeOK
    <3>3. screen' \in DOMAIN kind' \cup {None} /\ pip' \in DOMAIN kind' \cup {None}
          /\ video' \in BOOLEAN
      BY <1>2, <2>1, <2>2
    <3>4. QED BY <1>1, <1>2, <1>3, <2>7, <2>8, <2>10, <3>1, <3>2, <3>3 DEF M!TypeOK, TasksOf
  <2>16. QED BY <2>12, <2>13, <2>14, <2>15 DEF MediaInv
<1>6. QED BY <1>4, <1>5

LEMMA ScreenComesStep ==
  ASSUME MediaInv, NEW t \in mediaTasks, M!ScreenComes(t) PROVE MediaInv'
<1> DEFINE n == Len(kind) + 1
<1>1. M!TypeOK /\ Held /\ Shares /\ Buttons BY DEF MediaInv
<1>2. /\ t.wait \in M!Sources /\ M!Caught(<<"screen">>)
      /\ mediaCrossed' = (mediaCrossed \/ (t.sw /\ ~sharing)
           \/ \E x \in mediaTasks : x.wait \in {"reset", "camera", "media", "restore"})
      /\ UNCHANGED <<desktop, call, video, mediaPc, mediaStream, sharing, picker, audioOn, videoOn,
                     last, early>>
  BY DEF M!ScreenComes
<1>3. M!Fresh(<<"screen">>) = {n} /\ kind'[n] = "screen" BY <1>1, <1>2, FreshOne
<1>4. Grown /\ n \notin DOMAIN kind /\ n \in DOMAIN kind' /\ n # None /\ on' = on \cup {n}
  BY <1>1, <1>2, <1>3, CaughtIs
<1>5. t.wait # "replace" BY <1>2 DEF M!Sources
<1>6. mediaCrossed' \in BOOLEAN /\ (mediaCrossed => mediaCrossed')
  BY <1>1, <1>2, MediaTyped DEF M!TypeOK
<1> HIDE DEF n
<1>7. CASE ~video \/ mediaPc = None
  <2>1. mediaTasks' = mediaTasks \ {t} /\ UNCHANGED <<live, screen, pip, loose>>
    BY <1>7 DEF M!ScreenComes
  <2>2. loose' \subseteq DOMAIN kind' /\ early' \subseteq M!Kinds /\ early \subseteq early'
        /\ loose \subseteq loose'
    BY <1>1, <1>2, <1>4, <2>1 DEF Grown, M!TypeOK
  <2>3. QED BY <1>2, <1>3, <1>4, <1>5, <1>6, <2>1, <2>2, Strays
<1>8. CASE video /\ mediaPc # None
  <2>1. /\ live' = (IF t.sw THEN live \ {screen} ELSE live) \cup {n} /\ screen' = n
        /\ IF t.sw \/ M!FirstCam = {} THEN pip' = pip ELSE pip' \in M!FirstCam
        /\ M!Waiting(mediaTasks \ {t},
                     M!Task(mediaTasks \ {t}, "replace", t.sw /\ t.wait # "system", n))
        /\ loose' = IF t.sw \/ screen = None THEN loose ELSE loose \cup {screen}
    BY <1>8 DEF M!ScreenComes, n
  <2>2. /\ mediaTasks' \subseteq TasksOf(DOMAIN kind') /\ Alone'
        /\ \A s \in mediaTasks' : s \in mediaTasks \/ s.wait = "replace"
        /\ \A s \in mediaTasks' : s \in mediaTasks \/
             (s.wait = "replace" /\ s.call = call /\ s.track = n /\ s.ok)
        /\ \E s \in mediaTasks' : s.wait = "replace" /\ s.ok
    <3> DEFINE T == DOMAIN kind'
               ts == mediaTasks \ {t}
    <3>1. mediaTasks \subseteq TasksOf(T)
      <4>1. mediaTasks \subseteq TasksOf(DOMAIN kind) BY <1>1, MediaTyped
      <4>2. TasksOf(DOMAIN kind) \subseteq TasksOf(DOMAIN kind') BY <1>4 DEF TasksOf, Grown
      <4>3. QED BY <4>1, <4>2
    <3>2. "replace" \in M!Waits \ M!Captures BY DEF M!Waits, M!Captures, M!Sources
    <3>3. call \in Talks \cup {None} /\ Alone BY <1>1, MediaTyped DEF Held
    <3>4. /\ n \in T \cup {None} /\ ts \subseteq mediaTasks /\ T = DOMAIN kind'
          /\ \E w \in BOOLEAN : M!Waiting(ts, M!Task(ts, "replace", w, n))
      BY <1>4, <2>1
    <3> HIDE DEF T, ts
    <3> PICK w \in BOOLEAN : M!Waiting(ts, M!Task(ts, "replace", w, n)) BY <3>4
    <3>5. /\ mediaTasks' \subseteq TasksOf(T) /\ Alone'
          /\ \A s \in mediaTasks' : s \in ts \/ Newly(s, "replace", w, n)
          /\ \E s \in mediaTasks' : Newly(s, "replace", w, n)
      BY <3>1, <3>2, <3>3, <3>4, WaitingIs
    <3>6. QED BY <3>4, <3>5 DEF Newly
  <2>3. /\ M!InStream \subseteq DOMAIN kind /\ M!InStream' = M!InStream
        /\ M!FirstCam \subseteq M!InStream
    BY <1>1, <1>2, MediaTyped DEF M!InStream, M!FirstCam, M!Of
  <2>4. \A i \in DOMAIN kind : i \in DOMAIN kind' /\ kind'[i] = kind[i]
                               /\ (i \in on' <=> i \in on) /\ (i \in live' => i \in live) /\ i # n
    BY <1>4, <2>1 DEF Grown
  <2>5. /\ mediaPc.sender \in DOMAIN kind \cup {None} /\ live \subseteq DOMAIN kind
        /\ screen \in DOMAIN kind \cup {None} /\ pip \in DOMAIN kind \cup {None}
        /\ loose \subseteq DOMAIN kind /\ None \notin DOMAIN kind /\ DOMAIN kind \subseteq Nat
    BY <1>1, <1>8, MediaTyped DEF M!TypeOK
  <2>6. loose \subseteq loose' /\ loose' \subseteq DOMAIN kind' /\ live' \subseteq DOMAIN kind'
    BY <1>4, <2>1, <2>5 DEF Grown
  <2>7. \A i \in M!FirstCam : i \in DOMAIN kind /\ kind[i] = "cam" /\ i \in live
    BY <2>3 DEF M!FirstCam, M!Of
  <2>8. pip' = pip \/ (pip' \in M!FirstCam /\ ~t.sw) BY <2>1
  <2>9. ~mediaCrossed' => ~mediaCrossed /\ (t.sw => sharing)
          /\ \A s \in mediaTasks' : s.wait \notin {"reset", "camera", "media", "restore"}
    BY <1>2, <2>2
  <2>10. Held'
    <3>1. CallKnown'
      <4>1. call # None /\ call <= last BY <1>1, <1>8, MediaTyped DEF Held, Refs
      <4>2. QED BY <1>1, <1>2, <1>3, <1>4, <1>8, <2>2, <2>4, <4>1 DEF Held, CallKnown
    <3>2. Refs'
      <4>1. pip' # None => kind'[pip'] = "cam"
        BY <1>1, <2>4, <2>5, <2>7, <2>8 DEF Held, Refs
      <4>2. QED BY <1>1, <1>2, <1>3, <1>4, <1>8, <2>1, <2>3, <2>6, <4>1 DEF Held, Refs
    <3>3. Released'
      <4>1. M!InStream' \cap live' \subseteq M!InStream \cap live BY <2>3, <2>4
      <4>2. QED BY <1>1, <1>2, <2>2, <2>6, <4>1 DEF Held, Released
    <3>4. M!TracksHeld'
      <4>1. ASSUME NEW i \in live' PROVE i \in (M!InStream \cup {n}) \cup loose'
        <5>1. CASE i = n BY <5>1
        <5>2. CASE i # n
          <6>1. i \in live /\ (t.sw => i # screen) /\ i # None BY <2>1, <2>5, <5>2
          <6>2. i \in (M!InStream \cup {screen}) \cup loose BY <1>1, <6>1 DEF Held, M!TracksHeld
          <6>3. QED BY <2>1, <2>6, <6>1, <6>2
        <5>3. QED BY <5>1, <5>2
      <4>2. QED BY <2>1, <2>3, <4>1 DEF M!TracksHeld
    <3>5. QED BY <2>2, <3>1, <3>2, <3>3, <3>4 DEF Held
  <2>11. Shares'
    <3>1. Replacing' BY <2>2 DEF Replacing
    <3>2. Shown' BY <1>4, <2>1, <3>1 DEF Shown
    <3>3. Quiet' /\ RestoreHeld' BY <2>9 DEF Quiet, RestoreHeld
    <3>4. PipHeld' BY <1>1, <2>3, <2>8, <2>9 DEF Shares, PipHeld
    <3>5. SharedSender' BY <1>1, <1>2, <2>4, <2>5, <2>9 DEF Shares, SharedSender, SendsCam
    <3>6. QED BY <3>2, <3>3, <3>4, <3>5 DEF Shares
  <2>12. Buttons'
    <3>1. Undisturbed' => Undisturbed BY <1>2, <2>3, <2>6, <2>9 DEF Undisturbed
    <3>2. Mics' BY <1>1, <1>2, <2>3, <2>4 DEF Buttons, Mics, M!Of
    <3>3. VoiceSender' BY <1>2, <1>8 DEF VoiceSender
    <3>4. \A i \in DOMAIN kind :
            AsButton(i, early, on, videoOn) <=> AsButton(i, early', on', videoOn')
      BY <1>2, <2>4 DEF AsButton
    <3>5. SenderSeen'
      BY <1>1, <1>2, <2>3, <2>4, <2>5, <3>1, <3>4 DEF Buttons, SenderSeen, SendsCam
    <3>6. PipSeen'
      BY <1>1, <2>4, <2>5, <2>7, <2>8, <3>1, <3>4 DEF Buttons, PipSeen, FirstSeen
    <3>7. RestoreSeen' BY <2>9 DEF RestoreSeen, Undisturbed
    <3>8. M!FirstCam' \subseteq M!FirstCam BY <2>3, <2>4 DEF M!FirstCam, M!Of
    <3>9. ASSUME Undisturbed', NEW i \in M!FirstCam' PROVE pip' = i
      <4>1. i \in M!FirstCam BY <3>8, <3>9
      <4>2. CASE t.sw
        <5>1. sharing /\ ~mediaCrossed BY <2>9, <3>9, <4>2 DEF Undisturbed
        <5>2. screen # None BY <1>1, <5>1 DEF Shares, Shown
        <5>3. QED BY <1>1, <2>1, <3>1, <3>9, <4>1, <4>2, <5>2 DEF Buttons, FirstSeen
      <4>3. CASE ~t.sw
        <5>1. pip' \in M!FirstCam BY <2>1, <4>1, <4>3
        <5>2. i <= pip' /\ pip' <= i BY <4>1, <5>1 DEF M!FirstCam
        <5>3. QED BY <2>5, <2>7, <4>1, <5>1, <5>2
      <4>4. QED BY <4>2, <4>3
    <3>10. FirstSeen' BY <1>1, <2>7, <3>1, <3>4, <3>8, <3>9 DEF Buttons, FirstSeen
    <3>11. QED BY <3>2, <3>3, <3>5, <3>6, <3>7, <3>10 DEF Buttons
  <2>13. M!TypeOK'
    <3>1. mediaPc' \in [call : Talks, sender : DOMAIN kind' \cup {None}]
      <4>1. mediaPc \in [call : Talks, sender : DOMAIN kind \cup {None}]
        BY <1>1, <1>8 DEF M!TypeOK
      <4>2. QED BY <1>2, <2>4, <4>1
    <3>2. screen' \in DOMAIN kind' /\ pip' \in DOMAIN kind' \cup {None}
      BY <1>4, <2>1, <2>4, <2>5, <2>7, <2>8
    <3>3. on' \subseteq DOMAIN kind' /\ kind' \in Seq(M!Kinds)
          /\ (mediaStream' = None \/ mediaStream' \subseteq DOMAIN kind')
      BY <1>1, <1>2, <1>4 DEF Grown, M!TypeOK
    <3>4. QED BY <1>1, <1>2, <1>6, <2>2, <2>6, <3>1, <3>2, <3>3 DEF M!TypeOK, TasksOf
  <2>14. QED BY <2>10, <2>11, <2>12, <2>13 DEF MediaInv
<1>9. QED BY <1>7, <1>8

(* A new stream comes: what of the invariant does not depend on the buttons. *)
LEMMA StreamComes ==
  ASSUME MediaInv, NEW t \in mediaTasks, t.wait \in {"media", "reset"},
         NEW F, F # {}, Grown, \A i \in F : i \in DOMAIN kind' /\ i \notin DOMAIN kind,
         mediaTasks' = mediaTasks \ {t}, live' = live \cup F, mediaStream' = F,
         mediaPc' \in [call : Talks, sender : DOMAIN kind' \cup {None}] \cup {None},
         mediaPc # None => mediaPc' # None,
         loose \subseteq loose', loose' \subseteq (loose \cup F) \cup M!InStream,
         (call = None \/ t.call # call \/ ~t.alone) => F \subseteq loose',
         ~t.alone => M!InStream \subseteq loose',
         audioOn' \in BOOLEAN, videoOn' \in BOOLEAN, early' \subseteq M!Kinds,
         UNCHANGED <<desktop, call, video, screen, pip, sharing, picker, last, mediaCrossed>>
  PROVE  /\ Held' /\ Shares' /\ M!TypeOK' /\ M!InStream' = F
         /\ ~mediaCrossed => screen = None /\ pip = None /\ ~sharing
         /\ Undisturbed' => ~mediaCrossed /\ call # None /\ t.call = call /\ t.alone
         /\ \A s \in mediaTasks' : ~mediaCrossed /\ s.wait = "restore" /\ s.ok
              => s.track \notin live'
<1>1. M!TypeOK /\ Held /\ Shares BY DEF MediaInv
<1>2. M!InStream' = F /\ mediaStream' # None /\ mediaStream' \subseteq DOMAIN kind'
  <2>1. F \in SUBSET DOMAIN kind' OBVIOUS
  <2>2. F # None BY <2>1 DEF Grown
  <2>3. QED BY <2>1, <2>2 DEF M!InStream
<1>3. \A i \in DOMAIN kind : i \in DOMAIN kind' /\ kind'[i] = kind[i]
                             /\ (i \in live' <=> i \in live) /\ i \notin F
  BY DEF Grown
<1>4. ~mediaCrossed => screen = None /\ pip = None /\ ~sharing
  BY <1>1 DEF Shares, Quiet, Shown, Held, Refs
<1>5. ASSUME NEW s \in mediaTasks', ~mediaCrossed, s.wait = "restore", s.ok
      PROVE  s.track \notin live' /\ ~Pending("media")
  <2>1. s.track \in DOMAIN kind /\ ~Pending("media")
        /\ (Pending("reset") => s.track \notin live)
    BY <1>1, <1>5 DEF Held, CallKnown, Shares, RestoreHeld
  <2>2. QED BY <1>3, <2>1 DEF Pending
<1>6. Held'
  <2>1. Alone' BY <1>1 DEF Held, Alone
  <2>2. CallKnown' BY <1>1, <1>3 DEF Held, CallKnown
  <2>3. Refs'
    <3>1. screen \in DOMAIN kind \cup {None} /\ pip \in DOMAIN kind \cup {None}
      BY <1>1 DEF M!TypeOK
    <3>2. QED BY <1>1, <1>2, <1>3, <3>1 DEF Held, Refs
  <2>4. Released'
    <3>1. ASSUME NEW s \in mediaTasks', s.wait \in {"media", "reset"} PROVE ~s.alone
      BY <1>1, <3>1 DEF Held, Alone, M!Captures
    <3>2. QED BY <1>2, <3>1 DEF Released
  <2>5. M!TracksHeld'
    <3>1. M!InStream \cap live \subseteq loose' BY <1>1 DEF Held, Released
    <3>2. QED BY <1>1, <1>2, <3>1 DEF Held, M!TracksHeld
  <2>6. QED BY <2>1, <2>2, <2>3, <2>4, <2>5 DEF Held
<1>7. Shares'
  <2>1. Replacing' <=> Replacing BY DEF Replacing
  <2>2. Shown' /\ Quiet' /\ PipHeld' /\ SharedSender'
    BY <1>1, <1>4, <2>1 DEF Shares, Shown, Quiet, PipHeld, SharedSender
  <2>3. Pending("media")' => Pending("media") BY DEF Pending
  <2>4. RestoreHeld' BY <1>5, <2>3 DEF RestoreHeld
  <2>5. QED BY <2>2, <2>4 DEF Shares
<1>8. M!TypeOK'
  <2>1. mediaTasks' \subseteq TasksOf(DOMAIN kind')
    <3>1. mediaTasks \subseteq TasksOf(DOMAIN kind) BY <1>1, MediaTyped
    <3>2. TasksOf(DOMAIN kind) \subseteq TasksOf(DOMAIN kind') BY DEF TasksOf, Grown
    <3>3. QED BY <3>1, <3>2
  <2>2. /\ live' \subseteq DOMAIN kind' /\ on' \subseteq DOMAIN kind' /\ kind' \in Seq(M!Kinds)
    BY <1>1 DEF Grown, M!TypeOK
  <2>3. screen' \in DOMAIN kind' \cup {None} /\ pip' \in DOMAIN kind' \cup {None}
    BY <1>1, <1>3 DEF M!TypeOK
  <2>4. loose' \subseteq DOMAIN kind'
    <3>1. M!InStream \subseteq DOMAIN kind /\ loose \subseteq DOMAIN kind
      BY <1>1, MediaTyped DEF M!TypeOK
    <3>2. QED BY <3>1 DEF Grown
  <2>5. QED BY <1>1, <1>2, <2>1, <2>2, <2>3, <2>4 DEF M!TypeOK, TasksOf
<1>9. Undisturbed' => ~mediaCrossed /\ call # None /\ t.call = call /\ t.alone
  BY <1>2 DEF Undisturbed
<1>10. QED BY <1>2, <1>4, <1>5, <1>6, <1>7, <1>8, <1>9

(* The tracks of a new stream. *)
LEMMA StreamIs ==
  ASSUME M!TypeOK, NEW t \in mediaTasks, M!Caught(M!Media(t.sw))
  PROVE  LET n == Len(kind) + 1
             F == M!Fresh(M!Media(t.sw)) IN
         /\ Grown /\ F # {} /\ F \subseteq on'
         /\ \A i \in F : i \in DOMAIN kind' /\ i \notin DOMAIN kind
         /\ M!NewCam(t.sw) \in F \cup {None} /\ (t.sw => M!NewCam(t.sw) \in F)
         /\ DOMAIN kind' \subseteq Nat
<1>1. t.sw \in BOOLEAN BY MediaTyped
<1>2. M!Media(t.sw) \in {<<"screen">>, <<"cam">>, <<"mic">>, <<"mic", "cam">>} BY DEF M!Media
<1>3. Grown /\ M!Fresh(M!Media(t.sw)) \subseteq on'
      /\ \A i \in M!Fresh(M!Media(t.sw)) : i \in DOMAIN kind' /\ i \notin DOMAIN kind
  BY <1>2, CaughtIs
<1>4. DOMAIN kind' \subseteq Nat
  <2>1. kind' \in Seq(M!Kinds) BY <1>3 DEF Grown
  <2>2. QED BY <2>1
<1>5. QED BY <1>1, <1>3, <1>4, FreshMedia

LEMMA MediaComeStep ==
  ASSUME MediaInv, NEW t \in mediaTasks, M!MediaCome(t) PROVE MediaInv'
<1> DEFINE F == M!Fresh(M!Media(t.sw))
           c == M!NewCam(t.sw)
<1>1. M!TypeOK /\ Held /\ Shares /\ Buttons BY DEF MediaInv
<1>2. /\ t.wait = "media" /\ M!Caught(M!Media(t.sw)) /\ live' = live \cup F /\ mediaStream' = F
      /\ mediaPc' = [call |-> t.call, sender |-> c] /\ mediaTasks' = mediaTasks \ {t}
      /\ loose' = loose \cup M!Astray(t, M!Media(t.sw)) /\ early' = M!Unlike
      /\ UNCHANGED <<desktop, call, video, screen, pip, sharing, picker, audioOn, videoOn, last,
                     mediaCrossed>>
  BY DEF M!MediaCome
<1>3. /\ Grown /\ F # {} /\ F \subseteq on' /\ c \in F \cup {None} /\ DOMAIN kind' \subseteq Nat
      /\ \A i \in F : i \in DOMAIN kind' /\ i \notin DOMAIN kind
  BY <1>1, <1>2, StreamIs
<1>4. /\ loose \subseteq loose' /\ loose' \subseteq (loose \cup F) \cup M!InStream
      /\ (call = None \/ t.call # call \/ ~t.alone) => F \subseteq loose'
      /\ ~t.alone => M!InStream \subseteq loose'
  BY <1>2, AstrayIs
<1> HIDE DEF F, c
<1>5. mediaPc' \in [call : Talks, sender : DOMAIN kind' \cup {None}] /\ mediaPc' # None
      /\ mediaPc'.sender = c
  <2> DEFINE D == DOMAIN kind' \cup {None}
  <2>1. t.call \in Talks BY <1>1, <1>2, MediaTyped DEF Held, CallKnown
  <2>2. c \in D BY <1>3
  <2>3. None \notin [call : Talks, sender : D] BY <1>3, MediaFacts
  <2> HIDE DEF D
  <2>4. mediaPc' \in [call : Talks, sender : D] /\ mediaPc'.sender = c BY <1>2, <2>1, <2>2
  <2>5. QED BY <2>3, <2>4 DEF D
<1>6. audioOn' \in BOOLEAN /\ videoOn' \in BOOLEAN /\ early' \subseteq M!Kinds
  BY <1>1, <1>2 DEF M!TypeOK, M!Unlike, M!Kinds
<1>7. /\ Held' /\ Shares' /\ M!TypeOK' /\ M!InStream' = F
      /\ ~mediaCrossed => screen = None /\ pip = None /\ ~sharing
      /\ Undisturbed' => ~mediaCrossed
      /\ \A s \in mediaTasks' : ~mediaCrossed /\ s.wait = "restore" /\ s.ok
           => s.track \notin live'
  BY <1>2, <1>3, <1>4, <1>5, <1>6, StreamComes
<1>8. \A i \in F : AsButton(i, early', on', videoOn') BY <1>1, <1>2, <1>3 DEF AsButton, M!Unlike
<1>9. Buttons'
  <2>1. Mics' BY <1>1, <1>2, <1>3, <1>7 DEF Mics, M!Of, M!Unlike
  <2>2. VoiceSender' BY <1>3, <1>5 DEF VoiceSender
  <2>3. SenderSeen' BY <1>3, <1>5, <1>7, <1>8 DEF SenderSeen, SendsCam
  <2>4. PipSeen' /\ RestoreSeen' BY <1>2, <1>7 DEF PipSeen, RestoreSeen
  <2>5. M!FirstCam' \subseteq F BY <1>7 DEF M!FirstCam, M!Of
  <2>6. FirstSeen' BY <1>2, <1>7, <1>8, <2>5 DEF FirstSeen
  <2>7. QED BY <2>1, <2>2, <2>3, <2>4, <2>6 DEF Buttons
<1>10. QED BY <1>7, <1>9 DEF MediaInv

LEMMA ResetComesStep ==
  ASSUME MediaInv, NEW t \in mediaTasks, M!ResetComes(t) PROVE MediaInv'
<1> DEFINE F == M!Fresh(M!Media(t.sw))
           c == M!NewCam(t.sw)
<1>1. M!TypeOK /\ Held /\ Shares /\ Buttons BY DEF MediaInv
<1>2. /\ t.wait = "reset" /\ M!Caught(M!Media(t.sw)) /\ live' = live \cup F /\ mediaStream' = F
      /\ mediaPc' = IF t.sw THEN M!Sends(M!NewCam(TRUE)) ELSE mediaPc
      /\ mediaTasks' = mediaTasks \ {t} /\ loose' = loose \cup M!Astray(t, M!Media(t.sw))
      /\ audioOn' = TRUE /\ videoOn' = TRUE /\ early' = {}
      /\ UNCHANGED <<desktop, call, video, screen, pip, sharing, picker, last, mediaCrossed>>
  BY DEF M!ResetComes
<1>3. /\ Grown /\ F # {} /\ F \subseteq on' /\ (t.sw => c \in F) /\ DOMAIN kind' \subseteq Nat
      /\ \A i \in F : i \in DOMAIN kind' /\ i \notin DOMAIN kind
  BY <1>1, <1>2, StreamIs
<1>4. /\ loose \subseteq loose' /\ loose' \subseteq (loose \cup F) \cup M!InStream
      /\ (call = None \/ t.call # call \/ ~t.alone) => F \subseteq loose'
      /\ ~t.alone => M!InStream \subseteq loose'
  BY <1>2, AstrayIs
<1>5. t.sw => c = M!NewCam(TRUE) BY DEF M!NewCam
<1> HIDE DEF F, c
<1>6. /\ mediaPc' \in [call : Talks, sender : DOMAIN kind' \cup {None}] \cup {None}
      /\ mediaPc' = None <=> mediaPc = None
      /\ t.sw /\ mediaPc' # None => mediaPc'.sender \in {c, None}
      /\ mediaPc' = mediaPc \/ (mediaPc' # None /\ mediaPc'.sender = c /\ c \in F)
      /\ ~t.sw => mediaPc' = mediaPc
  <2>1. CASE t.sw
    <3>1. mediaPc' = M!Sends(c) /\ c \in DOMAIN kind' BY <1>2, <1>3, <1>5, <2>1
    <3>2. QED BY <1>1, <1>3, <2>1, <3>1, SendsIs DEF Grown
  <2>2. CASE ~t.sw
    <3>1. mediaPc \in [call : Talks, sender : DOMAIN kind \cup {None}] \cup {None}
      BY <1>1 DEF M!TypeOK
    <3>2. mediaPc' = mediaPc BY <1>2, <2>2
    <3>3. QED BY <1>3, <2>2, <3>1, <3>2 DEF Grown
  <2>3. QED BY <2>1, <2>2
<1>7. audioOn' \in BOOLEAN /\ videoOn' \in BOOLEAN /\ early' \subseteq M!Kinds BY <1>2
<1>8. /\ Held' /\ Shares' /\ M!TypeOK' /\ M!InStream' = F
      /\ ~mediaCrossed => screen = None /\ pip = None /\ ~sharing
      /\ Undisturbed' => ~mediaCrossed /\ call # None /\ t.call = call /\ t.alone
      /\ \A s \in mediaTasks' : ~mediaCrossed /\ s.wait = "restore" /\ s.ok
           => s.track \notin live'
  BY <1>2, <1>3, <1>4, <1>6, <1>7, StreamComes
<1>9. \A i \in on' : AsButton(i, early', on', videoOn') BY <1>2 DEF AsButton
<1>10. ASSUME ~video, mediaPc' # None, mediaPc'.sender # None, kind'[mediaPc'.sender] = "cam"
       PROVE  mediaPc'.sender \in on'
  <2>1. CASE mediaPc' = mediaPc
    <3>1. mediaPc.sender \in DOMAIN kind BY <1>1, <1>10, <2>1 DEF M!TypeOK
    <3>2. QED BY <1>1, <1>3, <1>10, <2>1, <3>1 DEF Buttons, VoiceSender, Grown
  <2>2. CASE mediaPc'.sender \in F BY <1>3, <2>2
  <2>3. QED BY <1>6, <2>1, <2>2
<1>11. Buttons'
  <2>1. Mics' BY <1>2, <1>3, <1>8 DEF Mics, M!Of
  <2>2. VoiceSender' BY <1>2, <1>10 DEF VoiceSender
  <2>3. SenderSeen'
    <3>1. ASSUME Undisturbed', SendsCam'
          PROVE  mediaPc'.sender \in on' /\ (video => mediaPc'.sender \in F)
      <4>1. t.sw <=> video BY <1>1, <1>2, <1>8, <3>1 DEF Held, CallKnown
      <4>2. mediaPc' # None /\ mediaPc'.sender # None /\ kind'[mediaPc'.sender] = "cam"
        BY <3>1 DEF SendsCam
      <4>3. CASE video BY <1>3, <1>6, <4>1, <4>2, <4>3
      <4>4. CASE ~video BY <1>10, <4>2, <4>4
      <4>5. QED BY <4>3, <4>4
    <3>2. QED BY <1>2, <1>8, <1>9, <3>1 DEF SenderSeen
  <2>4. PipSeen' /\ RestoreSeen' BY <1>2, <1>8 DEF PipSeen, RestoreSeen
  <2>5. M!FirstCam' \subseteq F BY <1>8 DEF M!FirstCam, M!Of
  <2>6. FirstSeen' BY <1>2, <1>3, <1>8, <1>9, <2>5 DEF FirstSeen
  <2>7. QED BY <2>1, <2>2, <2>3, <2>4, <2>6 DEF Buttons
<1>12. QED BY <1>8, <1>11 DEF MediaInv

LEMMA MediaInit == M!Init => MediaInv
<1>1. SUFFICES ASSUME M!Init PROVE MediaInv OBVIOUS
<1>2. /\ desktop \in BOOLEAN /\ call = None /\ video = FALSE /\ mediaPc = None /\ kind = <<>>
      /\ live = {} /\ on = {} /\ mediaStream = None /\ screen = None /\ pip = None
      /\ sharing = FALSE /\ picker = None /\ audioOn = TRUE /\ videoOn = TRUE /\ mediaTasks = {}
      /\ last = 0 /\ loose = {} /\ mediaCrossed = FALSE /\ early = {}
  BY <1>1 DEF M!Init
<1>3. M!InStream = {} BY <1>2 DEF M!InStream
<1>4. Held BY <1>2, <1>3 DEF Held, Alone, CallKnown, Refs, Released, M!TracksHeld
<1>5. Shares
  BY <1>2 DEF Shares, Shown, Replacing, Quiet, PipHeld, RestoreHeld, SharedSender
<1>6. Buttons
  BY <1>2, <1>3 DEF Buttons, Mics, VoiceSender, SenderSeen, PipSeen, RestoreSeen, FirstSeen,
                    Undisturbed, M!Of
<1>7. M!TypeOK
  <2>1. kind \in Seq(M!Kinds) BY <1>2
  <2>2. live \subseteq DOMAIN kind /\ on \subseteq DOMAIN kind /\ loose \subseteq DOMAIN kind
        /\ early \subseteq M!Kinds
    BY <1>2
  <2>3. mediaTasks \subseteq TasksOf(DOMAIN kind) BY <1>2
  <2>4. /\ video \in BOOLEAN /\ sharing \in BOOLEAN /\ audioOn \in BOOLEAN
        /\ videoOn \in BOOLEAN /\ mediaCrossed \in BOOLEAN
    BY <1>2
  <2>5. QED BY <1>2, <2>1, <2>2, <2>3, <2>4 DEF M!TypeOK, TasksOf
<1>8. QED BY <1>4, <1>5, <1>6, <1>7 DEF MediaInv

LEMMA MediaStep == ASSUME MediaInv, M!Next PROVE MediaInv'
<1>1. CASE \/ M!Begin \/ M!End \/ M!ToggleShare \/ M!SwitchSource \/ M!Reset \/ M!Upgrade
           \/ M!ToggleMic \/ M!ToggleCam
  BY <1>1, BeginStep, EndStep, ToggleShareStep, SwitchSourceStep, CallResetStep, UpgradeMediaStep,
     ToggleMicStep, ToggleCamStep
<1>2. CASE \E w \in {"source", "system", None} : M!Pick(w) BY <1>2, PickStep
<1>3. CASE \E t \in live : M!ScreenEnds(t) BY <1>3, ScreenEndsStep
<1>4. CASE \E t \in mediaTasks :
             \/ M!MediaCome(t) \/ M!ScreenComes(t) \/ M!NoScreen(t) \/ M!ScreenSent(t)
             \/ M!Restored(t) \/ M!CameraComes(t) \/ M!ResetComes(t) \/ M!UpgradeComes(t)
             \/ M!Fails(t)
  BY <1>4, MediaComeStep, ScreenComesStep, NoScreenStep, ScreenSentStep, RestoredStep,
     CameraComesStep, ResetComesStep, UpgradeComesStep, FailsStep
<1>5. QED BY <1>1, <1>2, <1>3, <1>4 DEF M!Next

LEMMA MediaAlways == PartsSpec => [](only = "media" => MediaInv)
<1>1. PartsInit => (only = "media" => MediaInv) BY MediaInit DEF PartsInit
<1>2. ASSUME only = "media" => MediaInv,
             [PartsNext]_<<only, vars, panelVars, accountVars, callsVars, mediaVars>>
      PROVE  (only = "media" => MediaInv)'
  <2>1. SUFFICES ASSUME only' = "media" PROVE MediaInv' OBVIOUS
  <2>2. CASE only = "media" /\ M!Next BY <1>2, <2>2, MediaStep
  <2>3. CASE UNCHANGED mediaVars /\ only' = only
    <3>1. UNCHANGED <<desktop, call, video, mediaPc, kind, live, on, mediaStream, screen, pip,
                      sharing, picker, audioOn, videoOn, mediaTasks, last, loose, mediaCrossed,
                      early>> /\ MediaInv
      BY <1>2, <2>1, <2>3 DEF mediaVars
    <3>2. M!TypeOK /\ Alone BY <3>1 DEF MediaInv, Held
    <3>3. mediaTasks' \subseteq TasksOf(DOMAIN kind) BY <3>1, <3>2, MediaTyped
    <3>4. Alone' /\ picker' \in {"start", "switch", None} BY <3>1, <3>2 DEF Alone, M!TypeOK
    <3>5. QED BY <3>1, <3>3, <3>4, Lesser
  <2>4. QED BY <1>2, <2>1, <2>2, <2>3 DEF PartsNext, Only
<1>3. QED BY <1>1, <1>2, PTL DEF PartsSpec

(* TracksHeld, BannerTrue and ButtonsTrue of CallMedia and MicExplained of Calls, with their    *)
(* types: a track that is captured is held where cleanup looks for it, and the banner and the   *)
(* buttons say what is sent, for any calls, tracks and functions that wait (CallModal.tsx).     *)
THEOREM CapturesHeld == PartsSpec => []TracksHeld
<1>1. MediaInv => M!TypeOK /\ M!TracksHeld BY DEF MediaInv, Held
<1>2. MediaInv => M!BannerTrue
  BY MediaTyped DEF MediaInv, Shares, Shown, Replacing, M!BannerTrue, M!TypeOK
<1>3. MediaInv => M!ButtonsTrue
  <2>1. SUFFICES ASSUME MediaInv, Undisturbed, NEW t \in M!Sent \cap live
                 PROVE  kind[t] \in early
                          \/ (t \in on <=> IF kind[t] = "mic" THEN audioOn ELSE videoOn)
    BY DEF M!ButtonsTrue, Undisturbed
  <2>2. M!TypeOK /\ Buttons BY <2>1 DEF MediaInv
  <2>3. CASE t \in M!Of(M!InStream, "mic") BY <2>2, <2>3 DEF Buttons, Mics, M!Of
  <2>4. CASE mediaPc # None /\ t = mediaPc.sender /\ t \in M!Of(DOMAIN kind, "cam")
    <3>1. kind[t] = "cam" /\ t # None BY <2>2, <2>4, MediaTyped DEF M!Of
    <3>2. AsButton(t, early, on, videoOn)
      BY <2>1, <2>2, <2>4, <3>1 DEF Buttons, SenderSeen, SendsCam
    <3>3. QED BY <3>1, <3>2 DEF AsButton
  <2>5. QED BY <2>3, <2>4 DEF M!Sent
<1>4. CallsInv => K!MicExplained BY DEF CallsInv
<1>5. (only = "media" => MediaInv) /\ (only = "calls" => CallsInv) => TracksHeld
  BY <1>1, <1>2, <1>3, <1>4 DEF TracksHeld
<1>6. QED BY <1>5, MediaAlways, CallsAlways, PTL
==============================================================================
