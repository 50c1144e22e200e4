------------------------------ MODULE Reactions ------------------------------
(***************************************************************************)
(* The answers one message collects: its reactions (MessageBubble.tsx),    *)
(* shown as the last list from the server with the user's own clicks       *)
(* counted on top until the next list comes, and the votes of its poll     *)
(* (PollBubble.tsx), shown as they were loaded last.                       *)
(***************************************************************************)
EXTENDS Integers, Sequences, FiniteSets

CONSTANTS Emojis, Options, None,
          Multiple,   \* allows_multiple of the poll
          MaxClicks, MaxTasks, MaxOthers \* bounds for TLC: clicks ever, requests under way, acts of others
ReactionsConstants == /\ None \notin Emojis /\ Multiple \in BOOLEAN
                      /\ {MaxClicks, MaxTasks, MaxOthers} \subseteq Nat

Users == {"me", "peer"}
VARIABLES
  placed,  \* message_reactions: the emoji of each user
  reacts,  \* message.reactions in the bubble, in the same form
  local,   \* localReactions
  tasks,   \* requests of the user under way
  inbox,   \* reaction_update on their way
  mine,    \* poll_votes of the user
  votes,   \* user_vote_ids in the bubble; {None} while the poll is loading
  voting, clicks, others,
  odd      \* history: what may leave the reactions or the votes shown wrong, see AnswersTrue
vars == <<placed, reacts, local, tasks, inbox, mine, votes, voting, clicks, others, odd>>
reactVars == <<placed, reacts, local, inbox>>
pollVars == <<mine, votes, voting>>

Nobody == [u \in Users |-> None]
Init == /\ placed = Nobody /\ reacts = Nobody /\ local = [e \in Emojis |-> 0] /\ tasks = {} /\ inbox = <<>>
        /\ mine = {} /\ votes = {None} /\ voting = FALSE /\ clicks = 0 /\ others = 0 /\ odd = {}
-----------------------------------------------------------------------------
Given(r, e) == {u \in Users : r[u] = e}
(* reactionsWithUsers: the number beside an emoji, which is shown if it is not 0, and whether   *)
(* the user is among those who gave it.                                                        *)
Count(e) == IF Cardinality(Given(reacts, e)) + local[e] > 0 THEN Cardinality(Given(reacts, e)) + local[e] ELSE 0
HasMine(e) == Count(e) > 0 /\ (local[e] > 0 \/ ("me" \in Given(reacts, e) /\ local[e] = 0))

Click(op, e, by) == /\ clicks < MaxClicks /\ clicks' = clicks + 1 /\ Cardinality(tasks) < MaxTasks
                    /\ tasks' = tasks \cup {[op |-> op, emoji |-> e, n |-> clicks', st |-> "sent", list |-> Nobody]}
                    /\ local' = [local EXCEPT ![e] = @ + by]
                    /\ UNCHANGED <<placed, reacts, inbox, pollVars, others, odd>>
(* The bar of reactions and the double tap look at nothing; the popover at what is shown.      *)
addReaction(e) == Click("add", e, 1)
RemoveMine(e) == HasMine(e) /\ Click("remove", e, 0 - 1)
(* handleAddReaction and handleRemoveReaction of the server: one reaction per user, whatever   *)
(* emoji is removed; then the list is read, and then told.                                     *)
Placed(t) == /\ t \in tasks /\ t.st = "sent"
             /\ placed' = [placed EXCEPT !["me"] = IF t.op = "add" THEN t.emoji ELSE None]
             /\ tasks' = (tasks \ {t}) \cup {[t EXCEPT !.st = "placed"]}
             /\ UNCHANGED <<reacts, local, inbox, pollVars, clicks, others, odd>>
ListRead(t) == /\ t \in tasks /\ t.st = "placed" /\ tasks' = (tasks \ {t}) \cup {[t EXCEPT !.st = "read", !.list = placed]}
               /\ UNCHANGED <<reactVars, pollVars, clicks, others, odd>>
Told(t) == /\ t \in tasks /\ t.st = "read" /\ tasks' = tasks \ {t} /\ inbox' = Append(inbox, t.list)
           /\ odd' = odd \cup (IF t.list # placed THEN {"overtaken"} ELSE {})
           /\ UNCHANGED <<placed, reacts, local, pollVars, clicks, others>>
(* The request fails, or the list is not read, or the event is lost on its way: nobody is told. *)
Untold(t) == /\ t \in tasks /\ tasks' = tasks \ {t} /\ odd' = odd \cup {"untold"}
             /\ UNCHANGED <<reactVars, pollVars, clicks, others>>
(* The peer, or another device of the user.                                                    *)
OtherPlaces(u, e) == /\ others < MaxOthers /\ others' = others + 1 /\ placed[u] # e /\ placed' = [placed EXCEPT ![u] = e]
                     /\ inbox' = Append(inbox, placed') /\ odd' = odd \cup (IF u = "me" THEN {"device"} ELSE {})
                     /\ UNCHANGED <<reacts, local, tasks, pollVars, clicks>>
(* Mutant: the clicks counted stay when the list comes. *)
LocalKept(list) == local
(* An empty list does not take the clicks back.                                                *)
LocalAfter(list) == IF list = Nobody THEN local ELSE [e \in Emojis |-> 0]
handleReactionUpdate == /\ inbox # <<>> /\ inbox' = Tail(inbox) /\ reacts' = Head(inbox) /\ local' = LocalAfter(reacts')
                        /\ UNCHANGED <<placed, tasks, pollVars, clicks, others, odd>>
-----------------------------------------------------------------------------
PollLoaded == /\ votes = {None} /\ votes' = mine /\ UNCHANGED <<reactVars, tasks, mine, voting, clicks, others, odd>>
(* A single choice is voted for again when its own option is clicked; there is no taking back. *)
ToSend(o) == IF ~Multiple THEN {o} ELSE IF o \in votes THEN votes \ {o} ELSE votes \cup {o}
handleVote(o) ==
  /\ votes # {None} /\ ~voting /\ clicks < MaxClicks /\ clicks' = clicks + 1
  /\ ~Multiple /\ o \in votes => votes = {o}
  /\ voting' = TRUE /\ tasks' = tasks \cup {[op |-> "vote", options |-> ToSend(o), st |-> "sent"]}
  /\ UNCHANGED <<reactVars, mine, votes, others, odd>>
Voted(t, ok) ==
  /\ t \in tasks /\ t.op = "vote" /\ t.st = "sent"
  /\ IF ok THEN mine' = t.options /\ tasks' = (tasks \ {t}) \cup {[t EXCEPT !.st = "counted"]} /\ UNCHANGED voting
     ELSE tasks' = tasks \ {t} /\ voting' = FALSE /\ UNCHANGED mine
  /\ UNCHANGED <<reactVars, votes, clicks, others, odd>>
(* getPoll after the vote                                                                      *)
Counted(t, ok) ==
  /\ t \in tasks /\ t.op = "vote" /\ t.st = "counted" /\ tasks' = tasks \ {t} /\ voting' = FALSE
  /\ IF ok THEN votes' = mine /\ odd' = odd \ {"votes"} ELSE UNCHANGED votes /\ odd' = odd \cup {"votes"}
  /\ UNCHANGED <<reactVars, mine, clicks, others>>

ReactTasks == {t \in tasks : t.op # "vote"}
Next == \/ \E e \in Emojis : addReaction(e) \/ RemoveMine(e) \/ \E u \in Users : OtherPlaces(u, e)
        \/ \E u \in Users : OtherPlaces(u, None)
        \/ \E t \in ReactTasks : Placed(t) \/ ListRead(t) \/ Told(t) \/ Untold(t)
        \/ handleReactionUpdate \/ PollLoaded
        \/ \E o \in Options : handleVote(o)
        \/ \E t \in tasks \ ReactTasks, ok \in BOOLEAN : Voted(t, ok) \/ Counted(t, ok)
Spec == Init /\ [][Next]_vars
-----------------------------------------------------------------------------
(* When nothing is under way, the reactions beside a message are those the server holds, and   *)
(* the votes of its poll too, unless a request failed or its event was lost, a list was told   *)
(* after a newer one, the user's other device reacted, or the poll was not read after a vote;  *)
(* and but for the user's own additions that no list but an empty one has answered.            *)
(* (localReactions and reactionsWithUsers, MessageBubble.tsx; handleVote, PollBubble.tsx.)     *)
AnswersTrue ==
  /\ ReactTasks = {} /\ inbox = <<>> /\ odd \cap {"untold", "overtaken", "device"} = {}
       => \A e \in Emojis : reacts # Nobody \/ local[e] <= 0 => Count(e) = Cardinality(Given(placed, e)) /\ (HasMine(e) <=> placed["me"] = e)
  /\ ~voting /\ votes # {None} /\ "votes" \notin odd => votes = mine
=============================================================================
