------------------------------- MODULE Rooms -------------------------------
(***************************************************************************)
(* A channel, the discussion group it may have, the chat_members rows of   *)
(* both, and the hub's cache of them.  A handler is a few SQL statements   *)
(* and then a refresh of the cache: it reads the rows and, later, hands    *)
(* them to the hub.  Only the creation of the chats is a transaction.      *)
(***************************************************************************)
EXTENDS Naturals, FiniteSets, TLC

CONSTANTS Users,
          Creator,  \* who makes the channel
          Requests  \* the handlers there may be under way at a time

ASSUME CreatorIsUser == Creator \in Users

VARIABLES
  stage,   \* of the channel: "none", "bare" or, with discussion_chat_id set, "linked"
  role,    \* the chat_members table: chat -> user -> role
  cache,   \* Hub.chatMembers: chat -> users
  job,     \* the handler a request runs in
  made,    \* history: discussions created
  apart,   \* history: users whose two rows a race, a failure or the user has parted
  reroled, \* history: users given a role in one of the chats
  behind   \* history: chats whose last refresh failed, was overtaken, or was left out

history == <<made, apart, reroled, behind>>
vars == <<stage, role, cache, job, history>>

Chats == {"channel", "discussion"}
Roles == {"none", "member", "admin", "owner"}
Nobody == [u \in Users |-> "none"]

(* op, chat and user: what is asked for.  pc: its next statement.  todo: the chats it has yet *)
(* to refresh, at: the one it does, rows: the members it has read of it.                      *)
NoJob == [op |-> "none", chat |-> "channel", user |-> Creator, pc |-> "idle",
          todo |-> {}, at |-> "channel", rows |-> Nobody]

Init ==
  /\ stage = "none"
  /\ role = [c \in Chats |-> Nobody]
  /\ cache = [c \in Chats |-> {}]
  /\ job = [r \in Requests |-> NoJob]
  /\ made = 0
  /\ apart = {} /\ reroled = {} /\ behind = {}

----------------------------------------------------------------------------
Free(r) == job[r].pc = "idle"
Exists(c) == stage = "linked" \/ (c = "channel" /\ stage = "bare")
MembersIn(rows) == {u \in Users : rows[u] # "none"}
Members(c) == MembersIn(role[c])

(* A handler between the two rows of u. *)
Halfway(r, u) == job[r].pc \in {"lookup", "mirror"} /\ job[r].chat = "channel" /\ job[r].user = u
Doing(op, u) == \E r \in Requests : Halfway(r, u) /\ job[r].op = op
Copied == \E r \in Requests : job[r].pc = "commit"

(* FOR UPDATE on the channel's row; the foreign key of a new member waits for it. *)
Locked == \E r \in Requests : job[r].pc \in {"copy", "commit"}

Start(r, op, c, u, pc) == job' = [job EXCEPT ![r] = [NoJob EXCEPT !.op = op, !.chat = c, !.user = u, !.pc = pc]]
Go(r, pc) == job' = [job EXCEPT ![r].pc = pc]
Done(r) == job' = [job EXCEPT ![r] = NoJob]

Begin(cs) == [NoJob EXCEPT !.op = "refresh", !.todo = cs, !.pc = IF cs = {} THEN "idle" ELSE "read"]

(* The rest of a handler is the refresh of these chats. *)
Refresh(r, cs) == job' = [job EXCEPT ![r] = Begin(cs)]

----------------------------------------------------------------------------
(* The transaction of a new channel: with a discussion, else without one. *)
CreateChannel(r) ==
  /\ Free(r) /\ stage = "none"
  /\ \E s \in {"bare", "linked"} :
       LET new == IF s = "linked" THEN Chats ELSE {"channel"} IN
         /\ stage' = s
         /\ role' = [c \in Chats |-> IF c \in new THEN [Nobody EXCEPT ![Creator] = "owner"] ELSE Nobody]
         /\ made' = IF s = "linked" THEN made + 1 ELSE made
         /\ Refresh(r, new)
  /\ UNCHANGED <<cache, apart, reroled, behind>>

(* ON CONFLICT DO NOTHING *)
Inserted(old) == IF old = "none" THEN "member" ELSE old

AddMember(r, c, u) ==
  /\ Free(r) /\ Exists(c)
  /\ ~(Locked /\ c = "channel" /\ role[c][u] = "none")
  /\ role' = [role EXCEPT ![c][u] = Inserted(@)]
  /\ Start(r, "add", c, u, "lookup")
  /\ apart' = IF c = "discussion" \/ Doing("remove", u) THEN apart \cup {u} ELSE apart
  /\ UNCHANGED <<stage, cache, made, reroled, behind>>

RemoveMember(r, c, u) ==
  /\ Free(r) /\ Exists(c)
  /\ role' = [role EXCEPT ![c][u] = "none"]
  /\ Start(r, "remove", c, u, "lookup")
  /\ apart' = IF c = "discussion" \/ Doing("add", u) \/ Copied THEN apart \cup {u} ELSE apart
  /\ UNCHANGED <<stage, cache, made, reroled, behind>>

(* Mutant: those who leave stay in the discussion. *)
MirroredOnAdd(r) == job[r].chat = "channel" /\ stage = "linked" /\ job[r].op = "add"

(* The chat is a channel, and has a discussion. *)
Mirrored(r) == job[r].chat = "channel" /\ stage = "linked"

(* Mutant: who leaves is not taken from the cache. *)
RefreshedOnAdd(r) == IF job[r].op = "add" THEN {job[r].chat} ELSE {}

Refreshed(r) == {job[r].chat}

(* The select of the discussion; its error is taken for a chat with none. *)
Lookup(r) ==
  /\ job[r].pc = "lookup"
  /\ \/ /\ IF Mirrored(r) THEN Go(r, "mirror") ELSE Refresh(r, Refreshed(r))
        /\ UNCHANGED apart
     \/ /\ Mirrored(r)
        /\ Refresh(r, Refreshed(r))
        /\ apart' = apart \cup {job[r].user}
  /\ UNCHANGED <<stage, role, cache, made, reroled, behind>>

(* ON CONFLICT DO UPDATE.  Only the channel is refreshed; the error of this one ends the handler. *)
MirrorAdd(r) ==
  LET u == job[r].user IN
    /\ job[r].pc = "mirror" /\ job[r].op = "add"
    /\ \/ /\ role' = [role EXCEPT !["discussion"][u] = "member"]
          /\ reroled' = IF role["channel"][u] = "member" THEN reroled ELSE reroled \cup {u}
          /\ behind' = behind \cup {"discussion"}
          /\ Refresh(r, Refreshed(r))
          /\ UNCHANGED apart
       \/ /\ apart' = apart \cup {u}
          /\ behind' = behind \cup {job[r].chat}
          /\ Done(r)
          /\ UNCHANGED <<role, reroled>>
    /\ UNCHANGED <<stage, cache, made>>

MirrorRemove(r) ==
  LET u == job[r].user IN
    /\ job[r].pc = "mirror" /\ job[r].op = "remove"
    /\ \/ /\ role' = [role EXCEPT !["discussion"][u] = "none"]
          /\ behind' = behind \cup {"discussion"}
          /\ UNCHANGED apart
       \/ apart' = apart \cup {u} /\ UNCHANGED <<role, behind>>
    /\ Refresh(r, Refreshed(r))
    /\ UNCHANGED <<stage, cache, made, reroled>>

(* The owner's row is looked at, and then the role is set, of whoever is still there. *)
SetMemberRole(r, c, u) ==
  /\ Free(r) /\ \E me \in Users : role[c][me] = "owner"
  /\ Start(r, "setrole", c, u, "update")
  /\ UNCHANGED <<stage, role, cache, history>>

Grantable == {"member", "admin"}

UpdateRole(r) ==
  LET c == job[r].chat
      u == job[r].user IN
    /\ job[r].pc = "update"
    /\ \E new \in Grantable : role' = [role EXCEPT ![c][u] = IF @ = "none" THEN @ ELSE new]
    /\ reroled' = reroled \cup {u}
    /\ Done(r)
    /\ UNCHANGED <<stage, cache, made, apart, behind>>

----------------------------------------------------------------------------
(* EnsureChannelDiscussion: an owner or admin asks; the rest is a transaction that locks first. *)
EnsureDiscussion(r) ==
  /\ Free(r) /\ \E me \in Users : role["channel"][me] \in {"admin", "owner"}
  /\ Start(r, "ensure", "channel", Creator, "lock")
  /\ UNCHANGED <<stage, role, cache, history>>

Found == stage = "linked"

LockChannel(r) ==
  /\ job[r].pc = "lock" /\ ~Locked
  /\ IF Found THEN Refresh(r, {"discussion"}) ELSE Go(r, "copy")
  /\ UNCHANGED <<stage, role, cache, history>>

(* The members as committed by now become those of the new group. *)
CopyMembers(r) ==
  /\ job[r].pc = "copy"
  /\ job' = [job EXCEPT ![r].pc = "commit", ![r].rows = role["channel"]]
  /\ UNCHANGED <<stage, role, cache, history>>

CommitDiscussion(r) ==
  /\ job[r].pc = "commit"
  /\ stage' = "linked"
  /\ role' = [role EXCEPT !["discussion"] = job[r].rows]
  /\ made' = made + 1
  /\ Refresh(r, {"discussion"})
  /\ UNCHANGED <<cache, apart, reroled, behind>>

(* The error of a statement rolls the transaction back, or ends the handler of a role. *)
GiveUp(r) ==
  /\ job[r].pc \in {"lock", "copy", "commit", "update"}
  /\ Done(r)
  /\ UNCHANGED <<stage, role, cache, history>>

----------------------------------------------------------------------------
(* handleWebSocket refreshes every chat of the user who connects. *)
FillCache(r, u) ==
  /\ Free(r)
  /\ Refresh(r, {c \in Chats : u \in Members(c)})
  /\ UNCHANGED <<stage, role, cache, history>>

ReadMembers(r, c) ==
  /\ job[r].pc = "read" /\ c \in job[r].todo
  /\ \/ /\ job' = [job EXCEPT ![r].pc = "write", ![r].at = c, ![r].rows = role[c]]
        /\ UNCHANGED behind
     \/ Refresh(r, job[r].todo \ {c}) /\ behind' = behind \cup {c}
  /\ UNCHANGED <<stage, role, cache, made, apart, reroled>>

UpdateChatMembers(r) ==
  LET c   == job[r].at
      new == MembersIn(job[r].rows) IN
    /\ job[r].pc = "write"
    /\ cache' = [cache EXCEPT ![c] = new]
    /\ behind' = IF new = Members(c) THEN behind \ {c} ELSE behind \cup {c}
    /\ Refresh(r, job[r].todo \ {c})
    /\ UNCHANGED <<stage, role, made, apart, reroled>>

(* The server restarts: the handlers and the cache are gone, the committed rows stay. *)
Restart ==
  /\ job' = [r \in Requests |-> NoJob]
  /\ cache' = [c \in Chats |-> {}]
  /\ apart' = apart \cup {u \in Users : \E r \in Requests : Halfway(r, u)}
  /\ behind' = Chats
  /\ UNCHANGED <<stage, role, made, reroled>>

Next ==
  \/ \E r \in Requests :
       \/ CreateChannel(r)
       \/ \E c \in Chats, u \in Users :
            AddMember(r, c, u) \/ RemoveMember(r, c, u) \/ SetMemberRole(r, c, u)
       \/ Lookup(r) \/ MirrorAdd(r) \/ MirrorRemove(r) \/ UpdateRole(r)
       \/ EnsureDiscussion(r) \/ LockChannel(r) \/ CopyMembers(r) \/ CommitDiscussion(r) \/ GiveUp(r)
       \/ \E u \in Users : FillCache(r, u)
       \/ \E c \in Chats : ReadMembers(r, c)
       \/ UpdateChatMembers(r)
  \/ Restart

Spec == Init /\ [][Next]_vars

----------------------------------------------------------------------------
Ops == {"none", "add", "remove", "setrole", "ensure", "refresh"}
Pcs == {"idle", "lookup", "mirror", "update", "lock", "copy", "commit", "read", "write"}
Jobs == [op : Ops, chat : Chats, user : Users, pc : Pcs,
         todo : SUBSET Chats, at : Chats, rows : [Users -> Roles]]

(* The types, and that before the channel nobody is a member of anything. *)
TypeOK ==
  /\ stage \in {"none", "bare", "linked"}
  /\ role \in [Chats -> [Users -> Roles]]
  /\ cache \in [Chats -> SUBSET Users]
  /\ job \in [Requests -> Jobs]
  /\ made \in Nat
  /\ apart \subseteq Users /\ reroled \subseteq Users /\ behind \subseteq Chats

(* Two EnsureChannelDiscussion, or one beside the creation, never make two discussions: the   *)
(* second finds the first one's under the lock.                                               *)
OneDiscussion == made = IF stage = "linked" THEN 1 ELSE 0

(* The members of the channel are those of its discussion, with the same role, as soon as no  *)
(* handler is between the two rows of the user: AddMember needs no transaction for it, not    *)
(* even beside EnsureChannelDiscussion, since its insert waits for the lock.  Only an addition *)
(* crossing a removal, a removal between the copy and its commit, a failure, a restart or a    *)
(* request about the discussion itself part them; only a role, or adding the owner again,      *)
(* makes the roles differ.                                                                     *)
InAccord ==
  stage = "linked" =>
    \A u \in Users \ apart :
      (\A r \in Requests : ~Halfway(r, u)) =>
        /\ role["channel"][u] = "none" <=> role["discussion"][u] = "none"
        /\ u \in reroled \/ role["channel"][u] = role["discussion"][u]

(* A channel has one discussion, of the same members in the same roles, but for the races and  *)
(* failures named.                                                                             *)
Mirrors == OneDiscussion /\ InAccord

(* r has yet to refresh c. *)
Owes(r, c) ==
  \/ c \in job[r].todo
  \/ job[r].pc \in {"lookup", "mirror"} /\ job[r].chat = c

(* SendToChat reaches the members there are, whatever handlers crossed: the cache of a chat is *)
(* its rows once no handler owes it a refresh, except where the last refresh failed or was      *)
(* overtaken by a change, or the change was the mirrored row, which no handler refreshes.       *)
CacheCurrent ==
  \A c \in Chats \ behind : (\A r \in Requests : ~Owes(r, c)) => cache[c] = Members(c)
-----------------------------------------------------------------------------
(* For TLC: the requests are alike, and one of two users stays one that InAccord excuses from  *)
(* nothing.                                                                                    *)
Symmetry == Permutations(Requests)
Bound == Cardinality(apart \cup reroled) <= 1
=============================================================================
