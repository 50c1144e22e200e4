---------------------------- MODULE RoomsProofs ----------------------------
(***************************************************************************)
(* For any number of users and handlers: one discussion at most, the rows  *)
(* of the two chats in accord, and the cache that of the rows.             *)
(***************************************************************************)
EXTENDS Rooms, TLAPS

(* Only a refresh has chats to refresh. *)
TodoHeld == \A r \in Requests : job[r].pc \notin {"read", "write"} => job[r].todo = {}

(* Without a channel nobody is in it, without a discussion nobody is in that. *)
Unmade ==
  /\ stage = "none" => Members("channel") = {}
  /\ stage # "linked" => Members("discussion") = {}

(* Who waits for the lock, or changes a row, has a channel; who holds it holds it alone, and found no discussion. *)
LockHeld ==
  \A r \in Requests :
    /\ job[r].pc \in {"lookup", "lock"} => stage # "none"
    /\ job[r].pc \in {"copy", "commit"} =>
         stage = "bare" /\ \A q \in Requests \ {r} : job[q].pc \notin {"copy", "commit"}

(* The second row is only written in a discussion that is there. *)
MirrorHeld == \A r \in Requests : job[r].pc = "mirror" => job[r].chat = "channel" /\ stage = "linked"

(* Between its rows a user who was never parted is in the channel if being added, out of it if *)
(* being removed, and so never both.                                                            *)
FirstRowHeld ==
  \A r \in Requests : \A u \in Users \ apart :
    Halfway(r, u) =>
      /\ job[r].op = "add" => role["channel"][u] # "none"
      /\ job[r].op = "remove" => role["channel"][u] = "none"

(* From the copy to the commit the members of the channel are those that were copied. *)
CopyHeld ==
  \A r \in Requests : \A u \in Users \ apart :
    job[r].pc = "commit" =>
      /\ job[r].rows[u] = "none" <=> role["channel"][u] = "none"
      /\ u \in reroled \/ job[r].rows[u] = role["channel"][u]

IInv == /\ TypeOK /\ TodoHeld /\ Unmade /\ LockHeld /\ MirrorHeld /\ OneDiscussion
        /\ FirstRowHeld /\ CopyHeld /\ InAccord /\ CacheCurrent
----------------------------------------------------------------------------
LEMMA NoJobTyped == NoJob \in Jobs /\ Nobody \in [Users -> Roles]
  BY CreatorIsUser DEF NoJob, Nobody, Jobs, Ops, Pcs, Chats, Roles

(* What a step of r does to the handlers: the others stay, and it starts, goes on, refreshes or ends. *)
Others(r) == \A q \in Requests \ {r} : job'[q] = job[q]

LEMMA Started ==
  ASSUME TypeOK, NEW r \in Requests, NEW op \in Ops, NEW c \in Chats, NEW u \in Users, NEW pc \in Pcs,
         Start(r, op, c, u, pc)
  PROVE  /\ job' \in [Requests -> Jobs] /\ Others(r)
         /\ job'[r].op = op /\ job'[r].chat = c /\ job'[r].user = u /\ job'[r].pc = pc /\ job'[r].todo = {}
<1> DEFINE J == [NoJob EXCEPT !.op = op, !.chat = c, !.user = u, !.pc = pc]
<1>1. J \in Jobs /\ J.op = op /\ J.chat = c /\ J.user = u /\ J.pc = pc /\ J.todo = {}
  BY NoJobTyped, CreatorIsUser DEF NoJob, Jobs
<1>2. job' = [job EXCEPT ![r] = J]
  BY DEF Start
<1> HIDE DEF J
<1> QED
  BY <1>1, <1>2 DEF TypeOK, Others

LEMMA Moved ==
  ASSUME TypeOK, NEW r \in Requests, NEW pc \in Pcs, Go(r, pc)
  PROVE  /\ job' \in [Requests -> Jobs] /\ Others(r)
         /\ job'[r].pc = pc
         /\ job'[r].op = job[r].op /\ job'[r].chat = job[r].chat /\ job'[r].user = job[r].user
         /\ job'[r].todo = job[r].todo /\ job'[r].rows = job[r].rows
  BY DEF TypeOK, Go, Jobs, Others

LEMMA Refreshing ==
  ASSUME TypeOK, NEW r \in Requests, NEW cs \in SUBSET Chats, Refresh(r, cs)
  PROVE  /\ job' \in [Requests -> Jobs] /\ Others(r)
         /\ job'[r].todo = cs
         /\ job'[r].pc = IF cs = {} THEN "idle" ELSE "read"
<1>1. /\ Begin(cs) \in Jobs
      /\ Begin(cs).todo = cs
      /\ Begin(cs).pc = IF cs = {} THEN "idle" ELSE "read"
  BY CreatorIsUser DEF Begin, NoJob, Nobody, Jobs, Ops, Pcs, Chats, Roles
<1>2. job' = [job EXCEPT ![r] = Begin(cs)]
  BY DEF Refresh
<1> QED
  BY <1>1, <1>2 DEF TypeOK, Others

LEMMA Ended ==
  ASSUME TypeOK, NEW r \in Requests, Done(r)
  PROVE  /\ job' \in [Requests -> Jobs] /\ Others(r)
         /\ job'[r].todo = {} /\ job'[r].pc = "idle"
<1>1. NoJob \in Jobs /\ NoJob.todo = {} /\ NoJob.pc = "idle"
  BY NoJobTyped DEF NoJob
<1>2. job' = [job EXCEPT ![r] = NoJob]
  BY DEF Done
<1> QED
  BY <1>1, <1>2 DEF TypeOK, Others

(* Reading the members, for the copy or for the cache. *)
LEMMA Read ==
  ASSUME TypeOK, NEW r \in Requests, NEW c \in Chats, NEW rows \in [Users -> Roles], NEW pc \in Pcs,
         \/ job' = [job EXCEPT ![r].pc = pc, ![r].rows = rows]
         \/ job' = [job EXCEPT ![r].pc = pc, ![r].at = c, ![r].rows = rows]
  PROVE  /\ job' \in [Requests -> Jobs] /\ Others(r)
         /\ job'[r].pc = pc /\ job'[r].rows = rows /\ job'[r].todo = job[r].todo
<1>1. job[r] \in Jobs
  BY DEF TypeOK
<1>2. \/ job' = [job EXCEPT ![r] = [job[r] EXCEPT !.pc = pc, !.rows = rows]]
      \/ job' = [job EXCEPT ![r] = [job[r] EXCEPT !.pc = pc, !.at = c, !.rows = rows]]
  BY DEF TypeOK
<1>3. \A J \in {[job[r] EXCEPT !.pc = pc, !.rows = rows], [job[r] EXCEPT !.pc = pc, !.at = c, !.rows = rows]} :
        J \in Jobs /\ J.pc = pc /\ J.rows = rows /\ J.todo = job[r].todo
  BY <1>1 DEF Jobs
<1>4. PICK J \in Jobs : /\ job' = [job EXCEPT ![r] = J]
                        /\ J.pc = pc /\ J.rows = rows /\ J.todo = job[r].todo
  BY <1>2, <1>3
<1> QED
  BY <1>4 DEF TypeOK, Others

(* The types are kept by every statement. *)
LEMMA TypeKept ==
  ASSUME TypeOK, Next
  PROVE  TypeOK'
<1> USE DEF TypeOK, history
<1>1. ASSUME NEW r \in Requests, CreateChannel(r) PROVE TypeOK'
  <2>1. PICK s \in {"bare", "linked"} :
          LET new == IF s = "linked" THEN Chats ELSE {"channel"} IN
            /\ stage' = s
            /\ role' = [c \in Chats |-> IF c \in new THEN [Nobody EXCEPT ![Creator] = "owner"] ELSE Nobody]
            /\ made' = IF s = "linked" THEN made + 1 ELSE made
            /\ Refresh(r, new)
    BY <1>1 DEF CreateChannel
  <2>2. [Nobody EXCEPT ![Creator] = "owner"] \in [Users -> Roles]
    BY NoJobTyped DEF Roles
  <2>3. role' \in [Chats -> [Users -> Roles]]
    BY <2>1, <2>2, NoJobTyped
  <2>4. job' \in [Requests -> Jobs]
    BY <2>1, Refreshing DEF Chats
  <2> QED
    BY <1>1, <2>1, <2>3, <2>4 DEF CreateChannel
<1>2. ASSUME NEW r \in Requests, NEW c \in Chats, NEW u \in Users, AddMember(r, c, u) PROVE TypeOK'
  <2>1. job' \in [Requests -> Jobs]
    BY <1>2, Started DEF AddMember, Ops, Pcs
  <2>2. Inserted(role[c][u]) \in Roles
    BY DEF Inserted, Roles
  <2> QED
    BY <1>2, <2>1, <2>2 DEF AddMember
<1>3. ASSUME NEW r \in Requests, NEW c \in Chats, NEW u \in Users, RemoveMember(r, c, u) PROVE TypeOK'
  <2>1. job' \in [Requests -> Jobs]
    BY <1>3, Started DEF RemoveMember, Ops, Pcs
  <2> QED
    BY <1>3, <2>1 DEF RemoveMember, Roles
<1>4. ASSUME NEW r \in Requests, NEW c \in Chats, NEW u \in Users, SetMemberRole(r, c, u) PROVE TypeOK'
  BY <1>4, Started DEF SetMemberRole, Ops, Pcs
<1>5. ASSUME NEW r \in Requests, Lookup(r) PROVE TypeOK'
  <2>1. Refreshed(r) \in SUBSET Chats /\ job[r].user \in Users
    BY DEF Refreshed, Jobs
  <2>2. Refresh(r, Refreshed(r)) => job' \in [Requests -> Jobs]
    BY <2>1, Refreshing
  <2>3. Go(r, "mirror") => job' \in [Requests -> Jobs]
    BY Moved DEF Pcs
  <2> QED
    BY <1>5, <2>1, <2>2, <2>3 DEF Lookup
<1>6. ASSUME NEW r \in Requests, MirrorAdd(r) PROVE TypeOK'
  <2>1. Refreshed(r) \in SUBSET Chats /\ job[r].user \in Users /\ job[r].chat \in Chats
    BY DEF Refreshed, Jobs
  <2>2. Refresh(r, Refreshed(r)) \/ Done(r) => job' \in [Requests -> Jobs]
    BY <2>1, Refreshing, Ended
  <2>3. [role EXCEPT !["discussion"][job[r].user] = "member"] \in [Chats -> [Users -> Roles]]
    BY <2>1 DEF Roles
  <2> QED
    BY <1>6, <2>1, <2>2, <2>3 DEF MirrorAdd, Chats
<1>7. ASSUME NEW r \in Requests, MirrorRemove(r) PROVE TypeOK'
  <2>1. Refreshed(r) \in SUBSET Chats /\ job[r].user \in Users
    BY DEF Refreshed, Jobs
  <2>2. job' \in [Requests -> Jobs]
    BY <1>7, <2>1, Refreshing DEF MirrorRemove
  <2>3. [role EXCEPT !["discussion"][job[r].user] = "none"] \in [Chats -> [Users -> Roles]]
    BY <2>1 DEF Roles
  <2> QED
    BY <1>7, <2>1, <2>2, <2>3 DEF MirrorRemove, Chats
<1>8. ASSUME NEW r \in Requests, UpdateRole(r) PROVE TypeOK'
  BY <1>8, Ended DEF UpdateRole, Grantable, Roles, Jobs
<1>9. ASSUME NEW r \in Requests, EnsureDiscussion(r) PROVE TypeOK'
  BY <1>9, Started, CreatorIsUser DEF EnsureDiscussion, Ops, Pcs, Chats
<1>10. ASSUME NEW r \in Requests, LockChannel(r) PROVE TypeOK'
  <2>1. job' \in [Requests -> Jobs]
    BY <1>10, Refreshing, Moved DEF LockChannel, Chats, Pcs
  <2> QED
    BY <1>10, <2>1 DEF LockChannel
<1>11. ASSUME NEW r \in Requests, CopyMembers(r) PROVE TypeOK'
  <2>1. role["channel"] \in [Users -> Roles]
    BY DEF Chats
  <2>2. job' \in [Requests -> Jobs]
    BY <1>11, <2>1, Read DEF CopyMembers, Chats, Pcs
  <2> QED
    BY <1>11, <2>2 DEF CopyMembers
<1>12. ASSUME NEW r \in Requests, CommitDiscussion(r) PROVE TypeOK'
  <2>1. job' \in [Requests -> Jobs]
    BY <1>12, Refreshing DEF CommitDiscussion, Chats
  <2>2. job[r].rows \in [Users -> Roles]
    BY DEF Jobs
  <2> QED
    BY <1>12, <2>1, <2>2 DEF CommitDiscussion, Chats
<1>13. ASSUME NEW r \in Requests, GiveUp(r) PROVE TypeOK'
  BY <1>13, Ended DEF GiveUp
<1>14. ASSUME NEW r \in Requests, NEW u \in Users, FillCache(r, u) PROVE TypeOK'
  BY <1>14, Refreshing DEF FillCache
<1>15. ASSUME NEW r \in Requests, NEW c \in Chats, ReadMembers(r, c) PROVE TypeOK'
  <2>1. job[r].todo \ {c} \in SUBSET Chats /\ role[c] \in [Users -> Roles]
    BY DEF Jobs
  <2>2. Refresh(r, job[r].todo \ {c}) => job' \in [Requests -> Jobs]
    BY <2>1, Refreshing
  <2>3. ASSUME job' = [job EXCEPT ![r].pc = "write", ![r].at = c, ![r].rows = role[c]]
        PROVE  job' \in [Requests -> Jobs]
    BY <2>1, <2>3, Read DEF Pcs
  <2> QED
    BY <1>15, <2>2, <2>3 DEF ReadMembers
<1>16. ASSUME NEW r \in Requests, UpdateChatMembers(r) PROVE TypeOK'
  <2>1. job[r].todo \ {job[r].at} \in SUBSET Chats /\ job[r].at \in Chats
    BY DEF Jobs
  <2>2. job' \in [Requests -> Jobs]
    BY <1>16, <2>1, Refreshing DEF UpdateChatMembers
  <2> QED
    BY <1>16, <2>1, <2>2 DEF UpdateChatMembers, MembersIn
<1>17. CASE Restart
  BY <1>17, NoJobTyped DEF Restart
<1> QED
  BY <1>1, <1>2, <1>3, <1>4, <1>5, <1>6, <1>7, <1>8, <1>9, <1>10, <1>11, <1>12, <1>13, <1>14, <1>15,
     <1>16, <1>17 DEF Next
----------------------------------------------------------------------------
(* The course of the handlers, the lock above all. *)
Flow == TodoHeld /\ Unmade /\ LockHeld /\ MirrorHeld /\ OneDiscussion

LEMMA FlowKept ==
  ASSUME TypeOK, Flow, Next
  PROVE  Flow'
<1> USE DEF Flow, TodoHeld, Unmade, LockHeld, MirrorHeld, OneDiscussion, Others
<1>1. ASSUME NEW r \in Requests, CreateChannel(r) PROVE Flow'
  <2>1. PICK s \in {"bare", "linked"} :
          LET new == IF s = "linked" THEN Chats ELSE {"channel"} IN
            /\ stage' = s
            /\ role' = [c \in Chats |-> IF c \in new THEN [Nobody EXCEPT ![Creator] = "owner"] ELSE Nobody]
            /\ made' = IF s = "linked" THEN made + 1 ELSE made
            /\ Refresh(r, new)
    BY <1>1 DEF CreateChannel
  <2>2. job'[r].pc \in {"idle", "read"} /\ Others(r)
    BY <2>1, Refreshing DEF Chats
  <2>3. job'[r].pc = "idle" => job'[r].todo = {}
    BY <2>1, Refreshing DEF Chats
  <2>4. stage = "none" /\ \A q \in Requests : job[q].pc \notin {"lock", "copy", "commit", "mirror"}
    BY <1>1 DEF CreateChannel
  <2>5. Unmade'
    BY <2>1 DEF Members, MembersIn, Nobody, Chats
  <2>6. OneDiscussion'
    BY <2>1, <2>4 DEF TypeOK
  <2> QED
    BY <2>1, <2>2, <2>3, <2>4, <2>5, <2>6
<1>2. ASSUME NEW r \in Requests, NEW c \in Chats, NEW u \in Users, AddMember(r, c, u) PROVE Flow'
  <2>1. job'[r].pc = "lookup" /\ job'[r].todo = {} /\ Others(r)
    BY <1>2, Started DEF AddMember, Ops, Pcs
  <2>2. Unmade'
    BY <1>2 DEF AddMember, Exists, Members, MembersIn, TypeOK, Chats
  <2> QED
    BY <1>2, <2>1, <2>2 DEF AddMember, Exists
<1>3. ASSUME NEW r \in Requests, NEW c \in Chats, NEW u \in Users, RemoveMember(r, c, u) PROVE Flow'
  <2>1. job'[r].pc = "lookup" /\ job'[r].todo = {} /\ Others(r)
    BY <1>3, Started DEF RemoveMember, Ops, Pcs
  <2>2. Unmade'
    BY <1>3 DEF RemoveMember, Exists, Members, MembersIn, TypeOK, Chats
  <2> QED
    BY <1>3, <2>1, <2>2 DEF RemoveMember, Exists
<1>4. ASSUME NEW r \in Requests, NEW c \in Chats, NEW u \in Users, SetMemberRole(r, c, u) PROVE Flow'
  <2>1. job'[r].pc = "update" /\ job'[r].todo = {} /\ Others(r)
    BY <1>4, Started DEF SetMemberRole, Ops, Pcs
  <2> QED
    BY <1>4, <2>1 DEF SetMemberRole, Members, MembersIn, history
<1>5. ASSUME NEW r \in Requests, Lookup(r) PROVE Flow'
  <2>1. Refreshed(r) \in SUBSET Chats
    BY DEF Refreshed, Jobs, TypeOK
  <2>2. CASE Go(r, "mirror") /\ Mirrored(r)
    <3>1. job'[r].pc = "mirror" /\ job'[r].chat = job[r].chat /\ job'[r].todo = job[r].todo /\ Others(r)
      BY <2>2, Moved DEF Pcs, TypeOK, Jobs
    <3> QED
      BY <1>5, <2>2, <3>1 DEF Lookup, Mirrored, Members, MembersIn
  <2>3. CASE Refresh(r, Refreshed(r))
    BY <1>5, <2>1, <2>3, Refreshing DEF Lookup, Members, MembersIn
  <2> QED
    BY <1>5, <2>2, <2>3 DEF Lookup
<1>6. ASSUME NEW r \in Requests, MirrorAdd(r) PROVE Flow'
  <2>1. Refreshed(r) \in SUBSET Chats
    BY DEF Refreshed, Jobs, TypeOK
  <2>2. job'[r].pc \in {"idle", "read"} /\ (job'[r].pc = "idle" => job'[r].todo = {}) /\ Others(r)
    BY <1>6, <2>1, Refreshing, Ended DEF MirrorAdd
  <2> QED
    BY <1>6, <2>2 DEF MirrorAdd, Members, MembersIn, TypeOK
<1>7. ASSUME NEW r \in Requests, MirrorRemove(r) PROVE Flow'
  <2>1. Refreshed(r) \in SUBSET Chats
    BY DEF Refreshed, Jobs, TypeOK
  <2>2. job'[r].pc \in {"idle", "read"} /\ (job'[r].pc = "idle" => job'[r].todo = {}) /\ Others(r)
    BY <1>7, <2>1, Refreshing DEF MirrorRemove
  <2> QED
    BY <1>7, <2>2 DEF MirrorRemove, Members, MembersIn, TypeOK
<1>8. ASSUME NEW r \in Requests, UpdateRole(r) PROVE Flow'
  <2>1. job'[r].pc = "idle" /\ job'[r].todo = {} /\ Others(r)
    BY <1>8, Ended DEF UpdateRole
  <2>2. \A c \in Chats : Members(c)' = Members(c)
    BY <1>8 DEF UpdateRole, Members, MembersIn, TypeOK, Grantable
  <2> QED
    BY <1>8, <2>1, <2>2 DEF UpdateRole, Chats
<1>9. ASSUME NEW r \in Requests, EnsureDiscussion(r) PROVE Flow'
  <2>1. job'[r].pc = "lock" /\ job'[r].todo = {} /\ Others(r)
    BY <1>9, Started, CreatorIsUser DEF EnsureDiscussion, Ops, Pcs, Chats
  <2>2. Members("channel") # {}
    BY <1>9 DEF EnsureDiscussion, Members, MembersIn
  <2> QED
    BY <1>9, <2>1, <2>2 DEF EnsureDiscussion, Members, MembersIn, history
<1>10. ASSUME NEW r \in Requests, LockChannel(r) PROVE Flow'
  <2>1. CASE Refresh(r, {"discussion"})
    BY <1>10, <2>1, Refreshing DEF LockChannel, Members, MembersIn, Chats, history
  <2>2. CASE Go(r, "copy") /\ ~Found
    <3>1. job'[r].pc = "copy" /\ job'[r].todo = job[r].todo /\ Others(r)
      BY <2>2, Moved DEF Pcs, TypeOK, Jobs
    <3>2. stage = "bare"
      BY <1>10, <2>2 DEF LockChannel, Found, TypeOK
    <3> QED
      BY <1>10, <3>1, <3>2 DEF LockChannel, Locked, Members, MembersIn, history
  <2> QED
    BY <1>10, <2>1, <2>2 DEF LockChannel
<1>11. ASSUME NEW r \in Requests, CopyMembers(r) PROVE Flow'
  <2>1. job'[r].pc = "commit" /\ job'[r].todo = job[r].todo /\ Others(r)
    BY <1>11, Read DEF CopyMembers, Chats, Pcs, TypeOK
  <2> QED
    BY <1>11, <2>1 DEF CopyMembers, Members, MembersIn, history
<1>12. ASSUME NEW r \in Requests, CommitDiscussion(r) PROVE Flow'
  <2>1. job'[r].pc = "read" /\ Others(r)
    BY <1>12, Refreshing DEF CommitDiscussion, Chats
  <2>2. stage = "bare" /\ \A q \in Requests \ {r} : job[q].pc \notin {"copy", "commit"}
    BY <1>12 DEF CommitDiscussion
  <2> QED
    BY <1>12, <2>1, <2>2 DEF CommitDiscussion, TypeOK
<1>13. ASSUME NEW r \in Requests, GiveUp(r) PROVE Flow'
  BY <1>13, Ended DEF GiveUp, Members, MembersIn, history
<1>14. ASSUME NEW r \in Requests, NEW u \in Users, FillCache(r, u) PROVE Flow'
  BY <1>14, Refreshing DEF FillCache, Members, MembersIn, history
<1>15. ASSUME NEW r \in Requests, NEW c \in Chats, ReadMembers(r, c) PROVE Flow'
  <2>1. job[r].todo \ {c} \in SUBSET Chats /\ role[c] \in [Users -> Roles]
    BY DEF Jobs, TypeOK
  <2>2. CASE Refresh(r, job[r].todo \ {c})
    BY <1>15, <2>1, <2>2, Refreshing DEF ReadMembers, Members, MembersIn
  <2>3. CASE job' = [job EXCEPT ![r].pc = "write", ![r].at = c, ![r].rows = role[c]]
    <3>1. job'[r].pc = "write" /\ Others(r)
      BY <2>1, <2>3, Read DEF Pcs
    <3> QED
      BY <1>15, <3>1 DEF ReadMembers, Members, MembersIn
  <2> QED
    BY <1>15, <2>2, <2>3 DEF ReadMembers
<1>16. ASSUME NEW r \in Requests, UpdateChatMembers(r) PROVE Flow'
  <2>1. job[r].todo \ {job[r].at} \in SUBSET Chats
    BY DEF Jobs, TypeOK
  <2> QED
    BY <1>16, <2>1, Refreshing DEF UpdateChatMembers, Members, MembersIn
<1>17. CASE Restart
  BY <1>17 DEF Restart, NoJob, Members, MembersIn
<1> QED
  BY <1>1, <1>2, <1>3, <1>4, <1>5, <1>6, <1>7, <1>8, <1>9, <1>10, <1>11, <1>12, <1>13, <1>14, <1>15,
     <1>16, <1>17 DEF Next
----------------------------------------------------------------------------
(* The rows of the two chats. *)
Accord == FirstRowHeld /\ CopyHeld /\ InAccord

(* What neither writes a row nor stands between two of them parts nobody. *)
LEMMA AccordFrame ==
  ASSUME TypeOK, Accord, NEW r \in Requests, Others(r),
         UNCHANGED <<stage, role, apart, reroled>>,
         job[r].pc \notin {"lookup", "mirror"} \/ job[r].chat = "discussion",
         job'[r].pc \notin {"lookup", "mirror", "commit"}
  PROVE  Accord'
BY DEF Accord, FirstRowHeld, CopyHeld, InAccord, Halfway, Others, Chats

LEMMA AccordKept ==
  ASSUME TypeOK, Flow, Accord, Next
  PROVE  Accord'
<1> USE DEF Accord, Others
<1>1. ASSUME NEW r \in Requests, CreateChannel(r) PROVE Accord'
  <2>1. PICK s \in {"bare", "linked"} :
          LET new == IF s = "linked" THEN Chats ELSE {"channel"} IN
            /\ stage' = s
            /\ role' = [c \in Chats |-> IF c \in new THEN [Nobody EXCEPT ![Creator] = "owner"] ELSE Nobody]
            /\ made' = IF s = "linked" THEN made + 1 ELSE made
            /\ Refresh(r, new)
    BY <1>1 DEF CreateChannel
  <2>2. job'[r].pc \in {"idle", "read"} /\ Others(r)
    BY <2>1, Refreshing DEF Chats
  <2>3. \A q \in Requests : job[q].pc \notin {"lookup", "mirror", "copy", "commit"}
    BY <1>1 DEF CreateChannel, Flow, LockHeld, MirrorHeld
  <2>4. FirstRowHeld' /\ CopyHeld'
    BY <2>2, <2>3 DEF FirstRowHeld, CopyHeld, Halfway
  <2>5. s = "linked" => role'["channel"] = role'["discussion"]
    BY <2>1 DEF Chats
  <2> QED
    BY <2>1, <2>4, <2>5 DEF InAccord
<1>2. ASSUME NEW r \in Requests, NEW c \in Chats, NEW u \in Users, AddMember(r, c, u) PROVE Accord'
  <2>1. /\ job'[r].pc = "lookup" /\ job'[r].op = "add" /\ job'[r].chat = c /\ job'[r].user = u
        /\ Others(r)
    BY <1>2, Started DEF AddMember, Ops, Pcs
  <2>2. job[r].pc = "idle" /\ stage' = stage /\ reroled' = reroled /\ apart \subseteq apart'
    BY <1>2 DEF AddMember, Free
  <2>3. role'[c][u] # "none" /\ (role[c][u] # "none" => role'[c][u] = role[c][u])
    BY <1>2 DEF AddMember, Inserted, TypeOK
  <2>4. \A d \in Chats, v \in Users : d # c \/ v # u => role'[d][v] = role[d][v]
    BY <1>2 DEF AddMember, TypeOK
  <2>5. c = "discussion" \/ Doing("remove", u) => u \in apart'
    BY <1>2 DEF AddMember
  <2>6. FirstRowHeld'
    BY <2>1, <2>2, <2>3, <2>4, <2>5 DEF FirstRowHeld, Halfway, Doing, Chats
  <2>7. c = "channel" /\ role[c][u] = "none" => \A q \in Requests : job[q].pc # "commit"
    BY <1>2 DEF AddMember, Locked
  <2>8. CopyHeld'
    BY <2>1, <2>2, <2>3, <2>4, <2>7 DEF CopyHeld, Chats
  <2>9. InAccord'
    <3> SUFFICES ASSUME stage' = "linked", NEW v \in Users \ apart',
                        \A q \in Requests : ~Halfway(q, v)'
                 PROVE  /\ role'["channel"][v] = "none" <=> role'["discussion"][v] = "none"
                        /\ v \in reroled' \/ role'["channel"][v] = role'["discussion"][v]
      BY DEF InAccord
    <3>1. v # u
      BY <2>1, <2>5 DEF Halfway, Chats
    <3>2. \A q \in Requests : ~Halfway(q, v)
      BY <2>1, <2>2 DEF Halfway
    <3> QED
      BY <2>2, <2>4, <3>1, <3>2 DEF InAccord, Chats
  <2> QED
    BY <2>6, <2>8, <2>9
<1>3. ASSUME NEW r \in Requests, NEW c \in Chats, NEW u \in Users, RemoveMember(r, c, u) PROVE Accord'
  <2>1. /\ job'[r].pc = "lookup" /\ job'[r].op = "remove" /\ job'[r].chat = c /\ job'[r].user = u
        /\ Others(r)
    BY <1>3, Started DEF RemoveMember, Ops, Pcs
  <2>2. job[r].pc = "idle" /\ stage' = stage /\ reroled' = reroled /\ apart \subseteq apart'
    BY <1>3 DEF RemoveMember, Free
  <2>3. role'[c][u] = "none"
    BY <1>3 DEF RemoveMember, TypeOK
  <2>4. \A d \in Chats, v \in Users : d # c \/ v # u => role'[d][v] = role[d][v]
    BY <1>3 DEF RemoveMember, TypeOK
  <2>5. c = "discussion" \/ Doing("add", u) \/ Copied => u \in apart'
    BY <1>3 DEF RemoveMember
  <2>6. FirstRowHeld'
    BY <2>1, <2>2, <2>3, <2>4, <2>5 DEF FirstRowHeld, Halfway, Doing, Chats
  <2>7. CopyHeld'
    BY <2>1, <2>2, <2>4, <2>5 DEF CopyHeld, Copied, Chats
  <2>8. InAccord'
    <3> SUFFICES ASSUME stage' = "linked", NEW v \in Users \ apart',
                        \A q \in Requests : ~Halfway(q, v)'
                 PROVE  /\ role'["channel"][v] = "none" <=> role'["discussion"][v] = "none"
                        /\ v \in reroled' \/ role'["channel"][v] = role'["discussion"][v]
      BY DEF InAccord
    <3>1. v # u
      BY <2>1, <2>5 DEF Halfway, Chats
    <3>2. \A q \in Requests : ~Halfway(q, v)
      BY <2>1, <2>2 DEF Halfway
    <3> QED
      BY <2>2, <2>4, <3>1, <3>2 DEF InAccord, Chats
  <2> QED
    BY <2>6, <2>7, <2>8
<1>4. ASSUME NEW r \in Requests, NEW c \in Chats, NEW u \in Users, SetMemberRole(r, c, u) PROVE Accord'
  <2>1. job'[r].pc = "update" /\ Others(r) /\ job[r].pc = "idle"
    BY <1>4, Started DEF SetMemberRole, Ops, Pcs, Free
  <2> QED
    BY <1>4, <2>1, AccordFrame DEF SetMemberRole, history
<1>5. ASSUME NEW r \in Requests, Lookup(r) PROVE Accord'
  <2>1. Refreshed(r) \in SUBSET Chats /\ job[r].user \in Users /\ job[r].chat \in Chats
    BY DEF Refreshed, Jobs, TypeOK
  <2>2. CASE Go(r, "mirror") /\ Mirrored(r) /\ UNCHANGED apart
    <3>1. /\ job'[r].pc = "mirror" /\ job'[r].op = job[r].op /\ job'[r].chat = job[r].chat
          /\ job'[r].user = job[r].user /\ Others(r)
      BY <2>2, Moved DEF Pcs, TypeOK, Jobs
    <3>2. \A q \in Requests, u \in Users : Halfway(q, u)' <=> Halfway(q, u)
      BY <1>5, <3>1 DEF Halfway, Lookup
    <3>3. FirstRowHeld' /\ InAccord'
      BY <1>5, <2>2, <3>1, <3>2 DEF FirstRowHeld, InAccord, Lookup
    <3> QED
      BY <1>5, <2>2, <3>1, <3>3 DEF Lookup, CopyHeld
  <2>3. CASE Refresh(r, Refreshed(r)) /\ ~Mirrored(r) /\ UNCHANGED apart
    <3>1. job'[r].pc \in {"idle", "read"} /\ Others(r)
      BY <2>1, <2>3, Refreshing
    <3>2. stage # "linked" \/ job[r].chat = "discussion"
      BY <2>1, <2>3 DEF Mirrored, Chats
    <3>3. CASE stage # "linked"
      BY <1>5, <2>3, <3>1, <3>3 DEF Lookup, FirstRowHeld, CopyHeld, InAccord, Halfway
    <3>4. CASE job[r].chat = "discussion"
      BY <1>5, <2>3, <3>1, <3>4, AccordFrame DEF Lookup
    <3> QED
      BY <3>2, <3>3, <3>4
  <2>4. CASE Refresh(r, Refreshed(r)) /\ apart' = apart \cup {job[r].user}
    <3>1. job'[r].pc \in {"idle", "read"} /\ Others(r)
      BY <2>1, <2>4, Refreshing
    <3> QED
      BY <1>5, <2>4, <3>1 DEF Lookup, FirstRowHeld, CopyHeld, InAccord, Halfway
  <2> QED
    BY <1>5, <2>2, <2>3, <2>4 DEF Lookup
<1>6. ASSUME NEW r \in Requests, MirrorAdd(r) PROVE Accord'
  <2> DEFINE w == job[r].user
  <2>1. Refreshed(r) \in SUBSET Chats /\ w \in Users
    BY DEF Refreshed, Jobs, TypeOK
  <2>2. job'[r].pc \in {"idle", "read"} /\ Others(r)
    BY <1>6, <2>1, Refreshing, Ended DEF MirrorAdd
  <2>3. stage' = stage /\ reroled \subseteq reroled' /\ Halfway(r, w)
    BY <1>6 DEF MirrorAdd, Halfway, Flow, MirrorHeld
  <2>4. CASE apart' = apart \cup {w} /\ UNCHANGED <<role, reroled>>
    BY <2>2, <2>3, <2>4 DEF FirstRowHeld, CopyHeld, InAccord, Halfway
  <2>5. CASE /\ role' = [role EXCEPT !["discussion"][w] = "member"]
             /\ reroled' = IF role["channel"][w] = "member" THEN reroled ELSE reroled \cup {w}
             /\ UNCHANGED apart
    <3>1. role'["discussion"][w] = "member"
      BY <2>1, <2>5 DEF TypeOK, Chats
    <3>2. \A d \in Chats, v \in Users : d # "discussion" \/ v # w => role'[d][v] = role[d][v]
      BY <2>5 DEF TypeOK
    <3>3. FirstRowHeld'
      BY <2>2, <2>5, <3>2 DEF FirstRowHeld, Halfway, Chats
    <3>4. CopyHeld'
      BY <2>2, <2>3, <2>5, <3>2 DEF CopyHeld, Chats
    <3>5. w \in apart \/ role["channel"][w] # "none"
      BY <1>6, <2>1, <2>3 DEF FirstRowHeld, MirrorAdd
    <3>6. w \in reroled' \/ role["channel"][w] = "member"
      BY <2>5
    <3>7. InAccord'
      <4> SUFFICES ASSUME stage' = "linked", NEW v \in Users \ apart',
                          \A q \in Requests : ~Halfway(q, v)'
                   PROVE  /\ role'["channel"][v] = "none" <=> role'["discussion"][v] = "none"
                          /\ v \in reroled' \/ role'["channel"][v] = role'["discussion"][v]
        BY DEF InAccord
      <4>1. CASE v = w
        BY <2>5, <3>1, <3>2, <3>5, <3>6, <4>1 DEF Chats
      <4>2. CASE v # w
        <5>1. \A q \in Requests : ~Halfway(q, v)
          BY <2>2, <4>2 DEF Halfway
        <5> QED
          BY <2>3, <2>5, <3>2, <4>2, <5>1 DEF InAccord, Chats
      <4> QED
        BY <4>1, <4>2
    <3> QED
      BY <3>3, <3>4, <3>7
  <2> QED
    BY <1>6, <2>4, <2>5 DEF MirrorAdd
<1>7. ASSUME NEW r \in Requests, MirrorRemove(r) PROVE Accord'
  <2> DEFINE w == job[r].user
  <2>1. Refreshed(r) \in SUBSET Chats /\ w \in Users
    BY DEF Refreshed, Jobs, TypeOK
  <2>2. job'[r].pc \in {"idle", "read"} /\ Others(r)
    BY <1>7, <2>1, Refreshing DEF MirrorRemove
  <2>3. stage' = stage /\ reroled' = reroled /\ Halfway(r, w)
    BY <1>7 DEF MirrorRemove, Halfway, Flow, MirrorHeld
  <2>4. CASE apart' = apart \cup {w} /\ UNCHANGED role
    BY <2>2, <2>3, <2>4 DEF FirstRowHeld, CopyHeld, InAccord, Halfway
  <2>5. CASE role' = [role EXCEPT !["discussion"][w] = "none"] /\ UNCHANGED apart
    <3>1. role'["discussion"][w] = "none"
      BY <2>1, <2>5 DEF TypeOK, Chats
    <3>2. \A d \in Chats, v \in Users : d # "discussion" \/ v # w => role'[d][v] = role[d][v]
      BY <2>5 DEF TypeOK
    <3>3. FirstRowHeld'
      BY <2>2, <2>5, <3>2 DEF FirstRowHeld, Halfway, Chats
    <3>4. CopyHeld'
      BY <2>2, <2>3, <2>5, <3>2 DEF CopyHeld, Chats
    <3>5. w \in apart \/ role["channel"][w] = "none"
      BY <1>7, <2>1, <2>3 DEF FirstRowHeld, MirrorRemove
    <3>6. InAccord'
      <4> SUFFICES ASSUME stage' = "linked", NEW v \in Users \ apart',
                          \A q \in Requests : ~Halfway(q, v)'
                   PROVE  /\ role'["channel"][v] = "none" <=> role'["discussion"][v] = "none"
                          /\ v \in reroled' \/ role'["channel"][v] = role'["discussion"][v]
        BY DEF InAccord
      <4>1. CASE v = w
        BY <2>5, <3>1, <3>2, <3>5, <4>1 DEF Chats
      <4>2. CASE v # w
        <5>1. \A q \in Requests : ~Halfway(q, v)
          BY <2>2, <4>2 DEF Halfway
        <5> QED
          BY <2>3, <2>5, <3>2, <4>2, <5>1 DEF InAccord, Chats
      <4> QED
        BY <4>1, <4>2
    <3> QED
      BY <3>3, <3>4, <3>6
  <2> QED
    BY <1>7, <2>4, <2>5 DEF MirrorRemove
<1>8. ASSUME NEW r \in Requests, UpdateRole(r) PROVE Accord'
  <2> DEFINE w == job[r].user
  <2>1. job'[r].pc = "idle" /\ Others(r) /\ w \in Users
    BY <1>8, Ended DEF UpdateRole, TypeOK, Jobs
  <2>2. \A d \in Chats, v \in Users :
          /\ v # w => role'[d][v] = role[d][v]
          /\ role'[d][v] = "none" <=> role[d][v] = "none"
    BY <1>8 DEF UpdateRole, TypeOK, Grantable
  <2>3. w \in reroled' /\ reroled \subseteq reroled' /\ apart' = apart /\ stage' = stage
    BY <1>8 DEF UpdateRole
  <2>4. \A q \in Requests, v \in Users : Halfway(q, v)' <=> Halfway(q, v)
    BY <1>8, <2>1 DEF UpdateRole, Halfway
  <2>5. FirstRowHeld'
    BY <2>1, <2>2, <2>3, <2>4 DEF FirstRowHeld, Chats, Halfway
  <2>6. CopyHeld'
    BY <2>1, <2>2, <2>3 DEF CopyHeld, Chats
  <2>7. InAccord'
    BY <2>2, <2>3, <2>4 DEF InAccord, Chats
  <2> QED
    BY <2>5, <2>6, <2>7
<1>9. ASSUME NEW r \in Requests, EnsureDiscussion(r) PROVE Accord'
  <2>1. job'[r].pc = "lock" /\ Others(r) /\ job[r].pc = "idle"
    BY <1>9, Started, CreatorIsUser DEF EnsureDiscussion, Ops, Pcs, Chats, Free
  <2> QED
    BY <1>9, <2>1, AccordFrame DEF EnsureDiscussion, history
<1>10. ASSUME NEW r \in Requests, LockChannel(r) PROVE Accord'
  <2>1. job'[r].pc \in {"read", "copy"} /\ Others(r)
    BY <1>10, Refreshing, Moved DEF LockChannel, Chats, Pcs
  <2> QED
    BY <1>10, <2>1, AccordFrame DEF LockChannel, history
<1>11. ASSUME NEW r \in Requests, CopyMembers(r) PROVE Accord'
  <2>1. job'[r].pc = "commit" /\ job'[r].rows = role["channel"] /\ Others(r)
    BY <1>11, Read DEF CopyMembers, Chats, Pcs, TypeOK
  <2>2. \A q \in Requests, v \in Users : Halfway(q, v)' <=> Halfway(q, v)
    BY <1>11, <2>1 DEF CopyMembers, Halfway
  <2>3. UNCHANGED <<stage, role, apart, reroled>>
    BY <1>11 DEF CopyMembers, history
  <2>4. FirstRowHeld'
    BY <2>1, <2>2, <2>3 DEF FirstRowHeld, Halfway
  <2>5. CopyHeld'
    BY <2>1, <2>3 DEF CopyHeld
  <2>6. InAccord'
    BY <2>2, <2>3 DEF InAccord
  <2> QED
    BY <2>4, <2>5, <2>6
<1>12. ASSUME NEW r \in Requests, CommitDiscussion(r) PROVE Accord'
  <2>1. job'[r].pc = "read" /\ Others(r)
    BY <1>12, Refreshing DEF CommitDiscussion, Chats
  <2>2. role'["discussion"] = job[r].rows /\ role'["channel"] = role["channel"]
    BY <1>12 DEF CommitDiscussion, TypeOK, Chats
  <2> QED
    BY <1>12, <2>1, <2>2 DEF CommitDiscussion, FirstRowHeld, CopyHeld, InAccord, Halfway
<1>13. ASSUME NEW r \in Requests, GiveUp(r) PROVE Accord'
  <2>1. job'[r].pc = "idle" /\ Others(r)
    BY <1>13, Ended DEF GiveUp
  <2> QED
    BY <1>13, <2>1, AccordFrame DEF GiveUp, history
<1>14. ASSUME NEW r \in Requests, NEW u \in Users, FillCache(r, u) PROVE Accord'
  <2>1. job'[r].pc \in {"idle", "read"} /\ Others(r)
    BY <1>14, Refreshing DEF FillCache
  <2> QED
    BY <1>14, <2>1, AccordFrame DEF FillCache, Free, history
<1>15. ASSUME NEW r \in Requests, NEW c \in Chats, ReadMembers(r, c) PROVE Accord'
  <2>1. job[r].todo \ {c} \in SUBSET Chats /\ role[c] \in [Users -> Roles]
    BY DEF Jobs, TypeOK
  <2>2. job'[r].pc \in {"idle", "read", "write"} /\ Others(r)
    <3>1. CASE Refresh(r, job[r].todo \ {c})
      BY <2>1, <3>1, Refreshing
    <3>2. CASE job' = [job EXCEPT ![r].pc = "write", ![r].at = c, ![r].rows = role[c]]
      BY <2>1, <3>2, Read DEF Pcs
    <3> QED
      BY <1>15, <3>1, <3>2 DEF ReadMembers
  <2> QED
    BY <1>15, <2>2, AccordFrame DEF ReadMembers
<1>16. ASSUME NEW r \in Requests, UpdateChatMembers(r) PROVE Accord'
  <2>1. job[r].todo \ {job[r].at} \in SUBSET Chats
    BY DEF Jobs, TypeOK
  <2>2. job'[r].pc \in {"idle", "read"} /\ Others(r)
    BY <1>16, <2>1, Refreshing DEF UpdateChatMembers
  <2> QED
    BY <1>16, <2>2, AccordFrame DEF UpdateChatMembers
<1>17. CASE Restart
  <2>1. \A r \in Requests : job'[r].pc = "idle"
    BY <1>17 DEF Restart, NoJob
  <2> QED
    BY <1>17, <2>1 DEF Restart, FirstRowHeld, CopyHeld, InAccord, Halfway
<1> QED
  BY <1>1, <1>2, <1>3, <1>4, <1>5, <1>6, <1>7, <1>8, <1>9, <1>10, <1>11, <1>12, <1>13, <1>14, <1>15,
     <1>16, <1>17 DEF Next
----------------------------------------------------------------------------
(* The cache of the hub. *)

(* Who does not write a row and still owes what it owed leaves the cache as current as it was. *)
LEMMA CacheFrame ==
  ASSUME CacheCurrent, NEW r \in Requests, Others(r),
         UNCHANGED <<role, cache>>, behind \subseteq behind',
         \A c \in Chats \ behind' : Owes(r, c) => Owes(r, c)'
  PROVE  CacheCurrent'
BY DEF CacheCurrent, Owes, Others, Members, MembersIn

LEMMA CacheKept ==
  ASSUME TypeOK, Flow, CacheCurrent, Next
  PROVE  CacheCurrent'
<1> USE DEF Others
<1>1. ASSUME NEW r \in Requests, CreateChannel(r) PROVE CacheCurrent'
  <2>1. PICK s \in {"bare", "linked"} :
          LET new == IF s = "linked" THEN Chats ELSE {"channel"} IN
            /\ stage' = s
            /\ role' = [c \in Chats |-> IF c \in new THEN [Nobody EXCEPT ![Creator] = "owner"] ELSE Nobody]
            /\ made' = IF s = "linked" THEN made + 1 ELSE made
            /\ Refresh(r, new)
    BY <1>1 DEF CreateChannel
  <2>2. Others(r) /\ job'[r].todo = IF s = "linked" THEN Chats ELSE {"channel"}
    BY <2>1, Refreshing DEF Chats
  <2>3. s = "bare" => Members("discussion")' = Members("discussion")
    BY <1>1, <2>1 DEF CreateChannel, Flow, Unmade, Members, MembersIn, Nobody, Chats
  <2>4. ~Owes(r, "discussion") /\ UNCHANGED <<cache, behind>>
    BY <1>1 DEF CreateChannel, Free, Owes, Flow, TodoHeld
  <2> QED
    BY <2>2, <2>3, <2>4, <2>1 DEF CacheCurrent, Owes, Chats
<1>2. ASSUME NEW r \in Requests, NEW c \in Chats, NEW u \in Users, AddMember(r, c, u) PROVE CacheCurrent'
  <2>1. job'[r].pc = "lookup" /\ job'[r].chat = c /\ Others(r)
    BY <1>2, Started DEF AddMember, Ops, Pcs
  <2>2. \A d \in Chats \ {c} : ~Owes(r, d) /\ Members(d)' = Members(d)
    BY <1>2 DEF AddMember, Free, Owes, Flow, TodoHeld, Members, MembersIn, TypeOK
  <2>3. Owes(r, c)' /\ UNCHANGED <<cache, behind>>
    BY <1>2, <2>1 DEF AddMember, Owes
  <2> QED
    BY <2>1, <2>2, <2>3 DEF CacheCurrent, Owes
<1>3. ASSUME NEW r \in Requests, NEW c \in Chats, NEW u \in Users, RemoveMember(r, c, u) PROVE CacheCurrent'
  <2>1. job'[r].pc = "lookup" /\ job'[r].chat = c /\ Others(r)
    BY <1>3, Started DEF RemoveMember, Ops, Pcs
  <2>2. \A d \in Chats \ {c} : ~Owes(r, d) /\ Members(d)' = Members(d)
    BY <1>3 DEF RemoveMember, Free, Owes, Flow, TodoHeld, Members, MembersIn, TypeOK
  <2>3. Owes(r, c)' /\ UNCHANGED <<cache, behind>>
    BY <1>3, <2>1 DEF RemoveMember, Owes
  <2> QED
    BY <2>1, <2>2, <2>3 DEF CacheCurrent, Owes
<1>4. ASSUME NEW r \in Requests, NEW c \in Chats, NEW u \in Users, SetMemberRole(r, c, u) PROVE CacheCurrent'
  <2>1. Others(r) /\ \A d \in Chats : ~Owes(r, d)
    BY <1>4, Started DEF SetMemberRole, Ops, Pcs, Free, Owes, Flow, TodoHeld
  <2> QED
    BY <1>4, <2>1, CacheFrame DEF SetMemberRole, history
<1>5. ASSUME NEW r \in Requests, Lookup(r) PROVE CacheCurrent'
  <2>1. Refreshed(r) = {job[r].chat} /\ Refreshed(r) \in SUBSET Chats
    BY DEF Refreshed, Jobs, TypeOK
  <2>2. PICK c \in Chats : c = job[r].chat
    BY DEF TypeOK, Jobs
  <2>3. \A d \in Chats : Owes(r, d) => d = c
    BY <1>5, <2>2 DEF Lookup, Owes, Flow, TodoHeld
  <2>4. CASE Refresh(r, Refreshed(r))
    BY <1>5, <2>1, <2>2, <2>3, <2>4, Refreshing, CacheFrame DEF Lookup, Owes
  <2>5. CASE Go(r, "mirror")
    <3>1. Others(r) /\ job'[r].pc = "mirror" /\ job'[r].chat = c
      BY <2>2, <2>5, Moved DEF Pcs
    <3> QED
      BY <1>5, <2>3, <3>1, CacheFrame DEF Lookup, Owes
  <2> QED
    BY <1>5, <2>4, <2>5 DEF Lookup
<1>6. ASSUME NEW r \in Requests, MirrorAdd(r) PROVE CacheCurrent'
  <2>1. Refreshed(r) = {"channel"} /\ job[r].chat = "channel" /\ Refreshed(r) \in SUBSET Chats
    BY <1>6 DEF Refreshed, MirrorAdd, Flow, MirrorHeld, Chats
  <2>2. \A d \in Chats : Owes(r, d) => d = "channel"
    BY <1>6, <2>1 DEF MirrorAdd, Owes, Flow, TodoHeld
  <2>3. CASE Done(r) /\ UNCHANGED role /\ behind' = behind \cup {job[r].chat}
    BY <1>6, <2>1, <2>2, <2>3, Ended, CacheFrame DEF MirrorAdd
  <2>4. CASE /\ role' = [role EXCEPT !["discussion"][job[r].user] = "member"]
             /\ behind' = behind \cup {"discussion"}
             /\ Refresh(r, Refreshed(r))
    <3>1. Others(r) /\ Owes(r, "channel")'
      BY <2>1, <2>4, Refreshing DEF Owes
    <3>2. Members("channel")' = Members("channel") /\ cache' = cache
      BY <1>6, <2>4 DEF MirrorAdd, Members, MembersIn, TypeOK, Chats
    <3> QED
      BY <2>4, <3>1, <3>2 DEF CacheCurrent, Owes, Chats
  <2> QED
    BY <1>6, <2>3, <2>4 DEF MirrorAdd
<1>7. ASSUME NEW r \in Requests, MirrorRemove(r) PROVE CacheCurrent'
  <2>1. Refreshed(r) = {"channel"} /\ job[r].chat = "channel" /\ Refreshed(r) \in SUBSET Chats
    BY <1>7 DEF Refreshed, MirrorRemove, Flow, MirrorHeld, Chats
  <2>2. Others(r) /\ Owes(r, "channel")'
    BY <1>7, <2>1, Refreshing DEF MirrorRemove, Owes
  <2>3. \A d \in Chats : Owes(r, d) => d = "channel"
    BY <1>7, <2>1 DEF MirrorRemove, Owes, Flow, TodoHeld
  <2>4. CASE UNCHANGED <<role, behind>>
    BY <1>7, <2>2, <2>3, <2>4, CacheFrame DEF MirrorRemove
  <2>5. CASE /\ role' = [role EXCEPT !["discussion"][job[r].user] = "none"]
             /\ behind' = behind \cup {"discussion"}
    <3>1. Members("channel")' = Members("channel") /\ cache' = cache
      BY <1>7, <2>5 DEF MirrorRemove, Members, MembersIn, TypeOK, Chats
    <3> QED
      BY <2>2, <2>5, <3>1 DEF CacheCurrent, Owes, Chats
  <2> QED
    BY <1>7, <2>4, <2>5 DEF MirrorRemove
<1>8. ASSUME NEW r \in Requests, UpdateRole(r) PROVE CacheCurrent'
  <2>1. \A d \in Chats : Members(d)' = Members(d)
    BY <1>8 DEF UpdateRole, Members, MembersIn, TypeOK, Grantable
  <2>2. Others(r) /\ \A d \in Chats : ~Owes(r, d)
    BY <1>8, Ended DEF UpdateRole, Owes, Flow, TodoHeld
  <2> QED
    BY <1>8, <2>1, <2>2 DEF UpdateRole, CacheCurrent, Owes
<1>9. ASSUME NEW r \in Requests, EnsureDiscussion(r) PROVE CacheCurrent'
  <2>1. Others(r) /\ \A d \in Chats : ~Owes(r, d)
    BY <1>9, Started, CreatorIsUser DEF EnsureDiscussion, Ops, Pcs, Chats, Free, Owes, Flow, TodoHeld
  <2> QED
    BY <1>9, <2>1, CacheFrame DEF EnsureDiscussion, history
<1>10. ASSUME NEW r \in Requests, LockChannel(r) PROVE CacheCurrent'
  <2>1. Others(r) /\ \A d \in Chats : ~Owes(r, d)
    BY <1>10, Refreshing, Moved DEF LockChannel, Chats, Pcs, Owes, Flow, TodoHeld
  <2> QED
    BY <1>10, <2>1, CacheFrame DEF LockChannel, history
<1>11. ASSUME NEW r \in Requests, CopyMembers(r) PROVE CacheCurrent'
  <2>1. Others(r) /\ \A d \in Chats : ~Owes(r, d)
    BY <1>11, Read DEF CopyMembers, Chats, Pcs, TypeOK, Owes, Flow, TodoHeld
  <2> QED
    BY <1>11, <2>1, CacheFrame DEF CopyMembers, history
<1>12. ASSUME NEW r \in Requests, CommitDiscussion(r) PROVE CacheCurrent'
  <2>1. Others(r) /\ Owes(r, "discussion")'
    BY <1>12, Refreshing DEF CommitDiscussion, Chats, Owes
  <2>2. ~Owes(r, "channel")
    BY <1>12 DEF CommitDiscussion, Owes, Flow, TodoHeld
  <2>3. Members("channel")' = Members("channel") /\ UNCHANGED <<cache, behind>>
    BY <1>12 DEF CommitDiscussion, Members, MembersIn, TypeOK, Chats
  <2> QED
    BY <2>1, <2>2, <2>3 DEF CacheCurrent, Owes, Chats
<1>13. ASSUME NEW r \in Requests, GiveUp(r) PROVE CacheCurrent'
  <2>1. Others(r) /\ \A d \in Chats : ~Owes(r, d)
    BY <1>13, Ended DEF GiveUp, Owes, Flow, TodoHeld
  <2> QED
    BY <1>13, <2>1, CacheFrame DEF GiveUp, history
<1>14. ASSUME NEW r \in Requests, NEW u \in Users, FillCache(r, u) PROVE CacheCurrent'
  <2>1. Others(r) /\ \A d \in Chats : ~Owes(r, d)
    BY <1>14, Refreshing DEF FillCache, Free, Owes, Flow, TodoHeld
  <2> QED
    BY <1>14, <2>1, CacheFrame DEF FillCache, history
<1>15. ASSUME NEW r \in Requests, NEW c \in Chats, ReadMembers(r, c) PROVE CacheCurrent'
  <2>1. job[r].todo \ {c} \in SUBSET Chats /\ role[c] \in [Users -> Roles]
    BY DEF Jobs, TypeOK
  <2>2. \A d \in Chats : Owes(r, d) <=> d \in job[r].todo
    BY <1>15 DEF ReadMembers, Owes
  <2>3. CASE Refresh(r, job[r].todo \ {c}) /\ behind' = behind \cup {c}
    BY <1>15, <2>1, <2>2, <2>3, Refreshing, CacheFrame DEF ReadMembers, Owes
  <2>4. CASE job' = [job EXCEPT ![r].pc = "write", ![r].at = c, ![r].rows = role[c]] /\ UNCHANGED behind
    BY <1>15, <2>1, <2>2, <2>4, Read, CacheFrame DEF ReadMembers, Owes, Pcs
  <2> QED
    BY <1>15, <2>3, <2>4 DEF ReadMembers
<1>16. ASSUME NEW r \in Requests, UpdateChatMembers(r) PROVE CacheCurrent'
  <2> DEFINE c == job[r].at
  <2>1. job[r].todo \ {c} \in SUBSET Chats /\ c \in Chats
    BY DEF Jobs, TypeOK
  <2>2. Others(r) /\ job'[r].todo = job[r].todo \ {c}
    BY <1>16, <2>1, Refreshing DEF UpdateChatMembers
  <2>3. \A d \in Chats \ {c} : cache'[d] = cache[d] /\ (d \in behind' <=> d \in behind)
    BY <1>16, <2>1 DEF UpdateChatMembers, TypeOK
  <2>4. c \in behind' \/ cache'[c] = Members(c)
    BY <1>16, <2>1 DEF UpdateChatMembers, TypeOK
  <2>5. \A d \in Chats : Members(d)' = Members(d)
    BY <1>16 DEF UpdateChatMembers, Members, MembersIn
  <2>6. \A d \in Chats \ {c} : Owes(r, d) => Owes(r, d)'
    BY <1>16, <2>2 DEF UpdateChatMembers, Owes
  <2>7. \A d \in Chats \ {c}, q \in Requests : Owes(q, d) => Owes(q, d)'
    BY <2>2, <2>6 DEF Owes
  <2> HIDE DEF c
  <2> QED
    BY <2>3, <2>4, <2>5, <2>7 DEF CacheCurrent
<1>17. CASE Restart
  BY <1>17 DEF Restart, CacheCurrent
<1> QED
  BY <1>1, <1>2, <1>3, <1>4, <1>5, <1>6, <1>7, <1>8, <1>9, <1>10, <1>11, <1>12, <1>13, <1>14, <1>15,
     <1>16, <1>17 DEF Next

----------------------------------------------------------------------------
(* The invariant holds of every behaviour. *)
THEOREM RoomsInvariant == Spec => []IInv
<1> USE DEF IInv, Flow, Accord
<1>1. Init => IInv
  <2> SUFFICES ASSUME Init PROVE IInv
    OBVIOUS
  <2>1. \A r \in Requests : job[r] = NoJob
    BY DEF Init
  <2>2. NoJob.pc = "idle" /\ NoJob.todo = {}
    BY DEF NoJob
  <2>3. TypeOK
    BY NoJobTyped DEF Init, TypeOK
  <2>4. \A c \in Chats : Members(c) = {} /\ cache[c] = {}
    BY DEF Init, Members, MembersIn, Nobody
  <2>5. TodoHeld /\ LockHeld /\ MirrorHeld /\ FirstRowHeld /\ CopyHeld
    BY <2>1, <2>2 DEF TodoHeld, LockHeld, MirrorHeld, FirstRowHeld, CopyHeld, Halfway
  <2>6. Unmade /\ OneDiscussion /\ InAccord /\ CacheCurrent
    BY <2>4 DEF Init, Unmade, OneDiscussion, InAccord, CacheCurrent, Chats
  <2> QED
    BY <2>3, <2>5, <2>6
<1>2. IInv /\ [Next]_vars => IInv'
  <2>1. IInv /\ Next => IInv'
    BY TypeKept, FlowKept, AccordKept, CacheKept
  <2>2. ASSUME IInv, UNCHANGED vars PROVE IInv'
    <3> USE <2>2 DEF vars, history
    <3>1. TypeOK' /\ TodoHeld' /\ LockHeld' /\ MirrorHeld'
      BY DEF TypeOK, TodoHeld, LockHeld, MirrorHeld
    <3>2. Unmade' /\ OneDiscussion'
      BY DEF Unmade, OneDiscussion, Members, MembersIn
    <3>3. FirstRowHeld' /\ CopyHeld' /\ InAccord'
      BY DEF FirstRowHeld, CopyHeld, InAccord, Halfway
    <3>4. CacheCurrent'
      BY DEF CacheCurrent, Owes, Members, MembersIn
    <3> QED
      BY <3>1, <3>2, <3>3, <3>4
  <2> QED
    BY <2>1, <2>2
<1> QED
  BY <1>1, <1>2, PTL DEF Spec

(* The types are right. *)
THEOREM RoomsTypes == Spec => []TypeOK
BY RoomsInvariant, PTL DEF IInv

(* However many handlers ask for it at once, a channel gets one discussion. *)
THEOREM DiscussionIsOne == Spec => []OneDiscussion
BY RoomsInvariant, PTL DEF IInv

(* The rows of the channel and of its discussion agree, but for the users some race parted. *)
THEOREM ChatsInAccord == Spec => []InAccord
BY RoomsInvariant, PTL DEF IInv

(* The hub's cache follows the rows, but for the chats whose last refresh fell behind. *)
THEOREM CacheIsCurrent == Spec => []CacheCurrent
BY RoomsInvariant, PTL DEF IInv

(* One discussion, of the same members in the same roles, but for the races named. *)
THEOREM DiscussionMirrors == Spec => []Mirrors
<1>1. OneDiscussion /\ InAccord => Mirrors
  BY DEF Mirrors
<1> QED BY <1>1, DiscussionIsOne, ChatsInAccord, PTL
============================================================================
