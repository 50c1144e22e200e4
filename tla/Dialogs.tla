------------------------------- MODULE Dialogs --------------------------------
(***************************************************************************)
(* Rows of messaging/service.go that there should be once: the private     *)
(* chat of two users, the saved messages of one, and the vote of a user in *)
(* a poll.  The chats are looked for in one statement and inserted by      *)
(* later ones; a vote deletes and inserts in a transaction, which at the   *)
(* default isolation sees what was committed when each statement began.    *)
(* A chat with oneself is left out: any private chat is taken for it.      *)
(***************************************************************************)
EXTENDS Naturals, Sequences, FiniteSets

CONSTANTS Users, Requests,
          Options, Voters,             \* of a poll with allows_multiple; devices of one user
          MaxChats, MaxAsked, MaxVotes \* bounds for TLC: chats, requests, votes ever
DialogsConstants == {MaxChats, MaxAsked, MaxVotes} \subseteq Nat

VARIABLES
  chats,  \* by number: saved messages or not, for whom, and the members there are
  asks,   \* the requests under way, a sequence of the statements' place and the key, or Idle
  asked,  \* counter: requests
  odd,    \* history: the keys looked for twice at a time, or by a lookup that failed
  votes,  \* poll_votes of the user, as committed
  runs,   \* the transactions of VotePoll
  ballot, \* history: the options of the vote committed last
  mixed,  \* history: that vote ran while another one did
  voted   \* counter: votes
vars == <<chats, asks, asked, odd, votes, runs, ballot, mixed, voted>>
chatVars == <<chats, asks, asked, odd>>
pollVars == <<votes, runs, ballot, mixed, voted>>

Idle == [pc |-> "idle"]
Init == /\ chats = <<>> /\ asks = [r \in Requests |-> Idle] /\ asked = 0 /\ odd = {}
        /\ votes = {} /\ runs = [v \in Voters |-> Idle] /\ ballot = {} /\ mixed = FALSE /\ voted = 0
-------------------------------------------------------------------------------
Keys == [saved : {TRUE}, who : {{u} : u \in Users}]
          \cup [saved : {FALSE}, who : {us \in SUBSET Users : Cardinality(us) = 2}]
Of(k) == {i \in DOMAIN chats : chats[i].saved = k.saved /\ chats[i].who = k.who}
Whole(i) == chats[i].in = chats[i].who
(* findPrivateChat looks for two members, GetOrCreateSavedMessagesChat for the owner.           *)
Found(k) == {i \in Of(k) : k.saved \/ Whole(i)}

To(r, ask) == asks' = [asks EXCEPT ![r] = ask]
(* The lookup: any error but none is "no chat".                                                *)
Look(r, k, fails) ==
  /\ asks[r] = Idle /\ asked < MaxAsked /\ asked' = asked + 1
  /\ To(r, IF Found(k) = {} \/ fails THEN [pc |-> "insert", key |-> k] ELSE Idle)
  /\ odd' = odd \cup IF fails \/ [pc |-> "insert", key |-> k] \in {asks[s] : s \in Requests} THEN {k} ELSE {}
  /\ UNCHANGED <<chats, pollVars>>
(* A private chat and its members are committed together, saved messages before their member.  *)
Insert(r) ==
  /\ asks[r].pc = "insert" /\ Len(chats) < MaxChats
  /\ LET k == asks[r].key
     IN  /\ chats' = Append(chats, [saved |-> k.saved, who |-> k.who, in |-> IF k.saved THEN {} ELSE k.who])
         /\ To(r, IF k.saved THEN [pc |-> "member", chat |-> Len(chats')] ELSE Idle)
  /\ UNCHANGED <<asked, odd, pollVars>>
InsertMember(r) ==
  /\ asks[r].pc = "member" /\ To(r, Idle)
  /\ chats' = [chats EXCEPT ![asks[r].chat].in = @ \cup chats[asks[r].chat].who]
  /\ UNCHANGED <<asked, odd, pollVars>>
InsertFails(r) == asks[r] # Idle /\ To(r, Idle) /\ UNCHANGED <<chats, asked, odd, pollVars>>
(* deleteChat and handleLeaveChat take the user out and leave the others in it.                 *)
Leave(i, u) == /\ u \in chats[i].in /\ chats' = [chats EXCEPT ![i].in = @ \ {u}]
               /\ UNCHANGED <<asks, asked, odd, pollVars>>
-------------------------------------------------------------------------------
Running == {v \in Voters : runs[v] # Idle}
(* The transaction of VotePoll: its DELETE sees the rows committed when it starts.             *)
Vote(v, os) ==
  /\ runs[v] = Idle /\ voted < MaxVotes /\ voted' = voted + 1
  /\ runs' = [w \in Voters |->
                IF w = v THEN [pc |-> "delete", options |-> os, rows |-> votes, new |-> {}, alone |-> Running = {}]
                ELSE IF w \in Running THEN [runs[w] EXCEPT !.alone = FALSE] ELSE Idle]
  /\ UNCHANGED <<chatVars, votes, ballot, mixed>>
(* Of the rows seen, those that nobody removed by the time their locks are free.               *)
Removed(v) == runs[v].rows \cap votes
Locks(w) == IF runs[w].pc = "insert" THEN runs[w].rows \cup runs[w].new ELSE {}
Free(v, os) == \A w \in Running \ {v} : Locks(w) \cap os = {}
Delete(v) == /\ runs[v].pc = "delete" /\ Free(v, runs[v].rows)
             /\ runs' = [runs EXCEPT ![v].pc = "insert", ![v].rows = Removed(v)]
             /\ UNCHANGED <<chatVars, votes, ballot, mixed, voted>>
(* The row of an option waits for whoever has removed or inserted the same, and there is one.  *)
InsertVote(v, o) ==
  /\ runs[v].pc = "insert" /\ o \in runs[v].options \ runs[v].new /\ Free(v, {o})
  /\ o \notin votes \ runs[v].rows /\ runs' = [runs EXCEPT ![v].new = @ \cup {o}]
  /\ UNCHANGED <<chatVars, votes, ballot, mixed, voted>>
Commit(v) ==
  /\ runs[v].pc = "insert" /\ runs[v].new = runs[v].options
  /\ votes' = (votes \ runs[v].rows) \cup runs[v].new /\ runs' = [runs EXCEPT ![v] = Idle]
  /\ ballot' = runs[v].options /\ mixed' = ~runs[v].alone
  /\ UNCHANGED <<chatVars, voted>>
(* Whatever fails -- a row that is there, two that wait for each other -- rolls all of it back. *)
VoteFails(v) == v \in Running /\ runs' = [runs EXCEPT ![v] = Idle] /\ UNCHANGED <<chatVars, votes, ballot, mixed, voted>>

Next == \/ \E r \in Requests, k \in Keys, fails \in BOOLEAN : Look(r, k, fails)
        \/ \E r \in Requests : Insert(r) \/ InsertMember(r) \/ InsertFails(r)
        \/ \E i \in DOMAIN chats, u \in Users : Leave(i, u)
        \/ \E v \in Voters : Delete(v) \/ Commit(v) \/ VoteFails(v)
        \/ \E v \in Voters : (\E os \in SUBSET Options : Vote(v, os)) \/ (\E o \in Options : InsertVote(v, o))
Spec == Init /\ [][Next]_vars
-------------------------------------------------------------------------------
(* Two users have one private chat that both are in, and a user one of saved messages, unless  *)
(* two requests looked for it at a time, or a lookup failed: leaving a chat and coming back    *)
(* makes no second one. (CreatePrivateChat, GetOrCreateSavedMessagesChat, service.go.)         *)
OnceForEach == \A k \in Keys \ odd : Cardinality({i \in Of(k) : k.saved \/ Whole(i)}) <= 1

(* The last vote counts, and no other beside it unless the two crossed (VotePoll, service.go). *)
LastVoteCounts == ballot \subseteq votes /\ (~mixed => votes = ballot)
===============================================================================
