------------------------------ MODULE Friends ------------------------------
(***************************************************************************)
(* The friendships table and the service over it.  A friendship is a row   *)
(* <<requester, addressee>>, unique, pending or accepted.  Every operation *)
(* is one SQL statement but SendRequest, which is up to six of them and no *)
(* transaction: whatever the other calls do happens between its reads and  *)
(* its write.                                                              *)
(***************************************************************************)
EXTENDS Naturals, FiniteSets

CONSTANTS Users,
          Calls   \* the SendRequests there may be under way at a time

VARIABLES
  row,       \* the friendships table
  blocked,   \* the blocked_users table, <<blocker, blocked>>
  pc,        \* the next statement of a SendRequest, "idle" when it returned
  pair,      \* its <<me, other>>
  asked,     \* history: <<u, v>> when u asked or accepted v, and nobody undid it since
  crossed,   \* history: the pairs that had two rows
  disturbed, \* history: calls whose pair changed under way, or that ignored a failed count
  walled     \* history: calls whose pair has been blocked all along

history == <<asked, crossed, disturbed, walled>>
vars == <<row, blocked, pc, pair, history>>

Pairs == {p \in Users \X Users : p[1] # p[2]}
Rev(p) == <<p[2], p[1]>>
Both(p) == {p, Rev(p)}

Init ==
  /\ row = [p \in Pairs |-> "none"]
  /\ blocked = {}
  /\ pc = [c \in Calls |-> "idle"]
  /\ pair \in [Calls -> Pairs]
  /\ asked = {} /\ crossed = {} /\ disturbed = {} /\ walled = {}

----------------------------------------------------------------------------
Running(c) == pc[c] # "idle"

(* isBlocked looks for a block of either by the other. *)
BlockedPairs(p) == Both(p) \cap blocked

(* A statement of the calls in own sets a row, and asked to as; other calls on the pair do not know. *)
SetRow(p, status, own, as) ==
  /\ row' = [row EXCEPT ![p] = status]
  /\ asked' = as
  /\ disturbed' = disturbed \cup {d \in Calls \ own : Running(d) /\ pair[d] \in Both(p)}
  /\ crossed' = IF status # "none" /\ row[Rev(p)] # "none" THEN crossed \cup Both(p) ELSE crossed

Go(c, to) == pc' = [pc EXCEPT ![c] = to]
NoChange == UNCHANGED <<row, blocked, pair, history>>

(* The requests to oneself return ErrSelf. *)
Requests == {p \in Users \X Users : p[1] # p[2]}

SendRequest(c, p) ==
  /\ ~Running(c)
  /\ pair' = [pair EXCEPT ![c] = p]
  /\ Go(c, "blocked")
  /\ disturbed' = disturbed \ {c}
  /\ walled' = IF BlockedPairs(p) # {} THEN walled \cup {c} ELSE walled \ {c}
  /\ UNCHANGED <<row, blocked, asked, crossed>>

(* Mutant: only the blocks by the caller are looked for. *)
BlockSeenOneWay(c) == pair[c] \in blocked

BlockSeen(c) == BlockedPairs(pair[c]) # {}

CheckBlocked(c) ==
  /\ pc[c] = "blocked"
  /\ Go(c, IF BlockSeen(c) THEN "idle" ELSE "reciprocal")
  /\ NoChange

CountReciprocal(c) ==
  /\ pc[c] = "reciprocal"
  /\ Go(c, IF row[Rev(pair[c])] = "pending" THEN "autoaccept" ELSE "accepted")
  /\ NoChange

(* WHERE ... status = 0 *)
StillPending(p) == row[p] = "pending"

(* The other's request is accepted instead of a new one; it may be gone, ErrNotFound. *)
AutoAccept(c) ==
  LET p == Rev(pair[c]) IN
    /\ pc[c] = "autoaccept"
    /\ IF StillPending(p)
       THEN SetRow(p, "accepted", {c}, asked \cup {pair[c]})
       ELSE UNCHANGED <<row, asked, crossed, disturbed>>
    /\ Go(c, "idle")
    /\ UNCHANGED <<blocked, pair, walled>>

(* Mutant: only one's own row is looked at. *)
AcceptedOneWay(p) == row[p] = "accepted"

Accepted(p) == \E q \in Both(p) : row[q] = "accepted"

(* The error of a count is ignored, and then the count is 0. *)
CountOf(c, found, next) ==
  \/ Go(c, IF found THEN "idle" ELSE next) /\ UNCHANGED disturbed
  \/ Go(c, next) /\ disturbed' = disturbed \cup {c}

CountAccepted(c) ==
  /\ pc[c] = "accepted"
  /\ CountOf(c, Accepted(pair[c]), "outgoing")
  /\ UNCHANGED <<row, blocked, pair, asked, crossed, walled>>

CountOutgoing(c) ==
  /\ pc[c] = "outgoing"
  /\ CountOf(c, row[pair[c]] = "pending", "insert")
  /\ UNCHANGED <<row, blocked, pair, asked, crossed, walled>>

(* The insert; the unique key makes a second row of that requester ErrExists. *)
Insert(c) ==
  /\ pc[c] = "insert"
  /\ IF row[pair[c]] = "none"
     THEN SetRow(pair[c], "pending", {c}, asked \cup {pair[c]})
     ELSE UNCHANGED <<row, asked, crossed, disturbed>>
  /\ Go(c, "idle")
  /\ UNCHANGED <<blocked, pair, walled>>

(* The error of any other statement is returned. *)
Fail(c) ==
  /\ pc[c] \in {"blocked", "reciprocal", "autoaccept", "insert"}
  /\ Go(c, "idle")
  /\ NoChange

----------------------------------------------------------------------------
(* me accepts or declines the request of p[1], or p[1] takes it back. *)
Accept(p) ==
  /\ row[p] = "pending"
  /\ SetRow(p, "accepted", {}, asked \cup {Rev(p)})
  /\ UNCHANGED <<blocked, pc, pair, walled>>

Decline(p) ==
  /\ row[p] = "pending"
  /\ SetRow(p, "none", {}, asked \ {p})
  /\ UNCHANGED <<blocked, pc, pair, walled>>

CancelOutgoing(p) ==
  /\ row[p] = "pending"
  /\ SetRow(p, "none", {}, asked \ {p})
  /\ UNCHANGED <<blocked, pc, pair, walled>>

(* p[1] ends the friendship: every accepted row of the two goes. *)
Remove(p) ==
  /\ Accepted(p)
  /\ row' = [q \in Pairs |-> IF q \in Both(p) /\ row[q] = "accepted" THEN "none" ELSE row[q]]
  /\ asked' = asked \ Both(p)
  /\ disturbed' = disturbed \cup {d \in Calls : Running(d) /\ pair[d] \in Both(p)}
  /\ UNCHANGED <<blocked, pc, pair, crossed, walled>>

(* Blocking leaves the friendships alone. *)
Block(p) ==
  /\ blocked' = blocked \cup {p}
  /\ UNCHANGED <<row, pc, pair, history>>

Unblock(p) ==
  /\ p \in blocked
  /\ blocked' = blocked \ {p}
  /\ walled' = {c \in walled : Both(pair[c]) \cap blocked' # {}}
  /\ UNCHANGED <<row, pc, pair, asked, crossed, disturbed>>

----------------------------------------------------------------------------
Step(c) ==
  \/ CheckBlocked(c) \/ CountReciprocal(c) \/ AutoAccept(c) \/ CountAccepted(c)
  \/ CountOutgoing(c) \/ Insert(c) \/ Fail(c)

Next ==
  \/ \E c \in Calls : Step(c) \/ \E p \in Requests : SendRequest(c, p)
  \/ \E p \in Pairs :
       Accept(p) \/ Decline(p) \/ CancelOutgoing(p) \/ Remove(p) \/ Block(p) \/ Unblock(p)

Spec == Init /\ [][Next]_vars

----------------------------------------------------------------------------
TypeOK ==
  /\ row \in [Pairs -> {"none", "pending", "accepted"}]
  /\ blocked \subseteq Pairs
  /\ pc \in [Calls -> {"idle", "blocked", "reciprocal", "autoaccept", "accepted", "outgoing", "insert"}]
  /\ pair \in [Calls -> Pairs]
  /\ asked \subseteq Pairs /\ crossed \subseteq Pairs
  /\ disturbed \subseteq Calls /\ walled \subseteq Calls

TwoRows(p) == row[p] # "none" /\ row[Rev(p)] # "none"

(* Two are friends only if each asked or accepted the other since they last were not, and the
   request was neither declined nor taken back. Only a pair that once had two rows escapes, for Remove leaves the pending one of them. *)
Consent ==
  \A p \in Pairs : row[p] = "accepted" /\ p \notin crossed => Both(p) \subseteq asked

(* A pair gets a second row only from a SendRequest whose pair was changed under way, or that
   ignored the error of a count: on its own the chain of checks admits one row. *)
SecondRowRaced ==
  [][\A p \in Pairs : ~TwoRows(p) /\ TwoRows(p)' =>
       \E c \in Calls : pc[c] = "insert" /\ pair[c] \in Both(p) /\ c \in disturbed]_vars

(* Nobody becomes a friend without having agreed, and only crossing requests leave two rows. *)
AgreedByBoth == []Consent /\ SecondRowRaced

(* A request never gets past a block that was there from its start, whoever blocked whom. *)
BlockRespected ==
  \A c \in walled : pc[c] \in {"idle", "blocked"}
=============================================================================
