---------------------------- MODULE FriendsPanel ----------------------------
(***************************************************************************)
(* The section "friends" of SettingsPanel.tsx: three lists that are loaded *)
(* when it is opened and after every operation, by three requests that are *)
(* served at three moments, and the search for people.  Friends.tla has    *)
(* the server's part; here a pair is the one row of this user and another. *)
(***************************************************************************)
EXTENDS Naturals, FiniteSets

CONSTANTS People, None,
          MaxClicks, MaxOthers, MaxTyped \* bounds for TLC: operations of this user, of the others, queries
Operations == {"request", "accept", "decline", "cancel", "remove"}
FriendsPanelConstants ==
  None \notin People \cup Operations /\ {MaxClicks, MaxOthers, MaxTyped} \subseteq Nat

Lists == {"friend", "in", "out"}

VARIABLES
  row,    \* the server: what another is to this user, of Lists or None
  open,   \* the section is open
  shown,  \* friendsList, friendsIncoming, friendsOutgoing
  loads,  \* loads under way, each with the operation before it
  query,  \* friendSearchQ, a number; 0 while it is too short
  timer,  \* the 400 ms are running
  asking, \* the queries sent
  hits,   \* the query friendSearchHits answers, 0 when there are none
  clicks, others,
  odd     \* history: why the lists may be old: "others", "overlap", "failed"; or the hits: "late"
panel == <<row, open, shown, loads, clicks, others>>
search == <<query, timer, asking, hits>>
vars == <<panel, search, odd>>

Of(k) == {u \in People : row[u] = k}
(* What the operations of this user do; of others, the error is shown.                         *)
Becomes(op, is) == CASE op = "request" /\ is = None -> {"out"}
                     [] op \in {"request", "accept"} /\ is = "in" -> {"friend"}
                     [] op = "decline" /\ is = "in" -> {None}
                     [] op = "cancel" /\ is = "out" -> {None}
                     [] op = "remove" /\ is = "friend" -> {None}
                     [] OTHER -> {}
(* What the other can do.                                                                      *)
OtherMay(is) == CASE is = None -> {"in"} [] is = "out" -> {None, "friend"} [] OTHER -> {None}

Empty == [k \in Lists |-> {}]
Unread == [k \in Lists |-> None]
Load(op, u, n) == [n |-> n, op |-> op, on |-> u, got |-> Unread]

Init == /\ row \in [People -> Lists \cup {None}] /\ open = FALSE /\ shown = Empty /\ loads = {}
        /\ clicks = 0 /\ others = 0 /\ query = 0 /\ timer = FALSE /\ asking = {} /\ hits = 0 /\ odd = {}
-----------------------------------------------------------------------------
(* A load replaces the reasons of before, unless another one is under way.                     *)
Begin(l) == /\ loads' = loads \cup {l}
            /\ odd' = IF loads = {} /\ l.op = None THEN odd \cap {"late"}
                      ELSE odd \cup IF loads = {} THEN {} ELSE {"overlap"}

OpenSection == /\ ~open /\ open' = TRUE /\ clicks < MaxClicks /\ clicks' = clicks + 1
               /\ Begin(Load(None, None, clicks)) /\ timer' = (query # 0)
               /\ UNCHANGED <<row, shown, others, query, asking, hits>>
(* The first load is cancelled, a later one is not; the effect of the search clears its timer. *)
LeaveSection == /\ open /\ open' = FALSE /\ timer' = FALSE
                /\ loads' = {l \in loads : l.op # None}
                /\ UNCHANGED <<row, shown, clicks, others, query, asking, hits, odd>>

(* The buttons of a hit, of an incoming and an outgoing request and of a friend.               *)
HitOffers(u) == IF u \in shown["friend"] \cup shown["out"] THEN {}
                ELSE IF u \in shown["in"] THEN {"accept"} ELSE {"request"}
InOffers(u) == IF u \in shown["in"] THEN {"accept", "decline"} ELSE {}
OutOffers(u) == IF u \in shown["out"] THEN {"cancel"} ELSE {}
FriendOffers(u) == IF u \in shown["friend"] THEN {"remove"} ELSE {}
Click(op, u) == /\ open /\ clicks < MaxClicks /\ clicks' = clicks + 1
                /\ op \in (IF hits = 0 THEN {} ELSE HitOffers(u)) \cup InOffers(u) \cup OutOffers(u) \cup FriendOffers(u)
                /\ Begin(Load(op, u, clicks)) /\ UNCHANGED <<row, open, shown, others, search>>

With(l, m) == loads' = (loads \ {l}) \cup {m}
(* The operation is served; its error is shown, and nothing is loaded.                         *)
Serve(l) ==
  /\ l.op # None /\ l.on # None
  /\ \/ \E to \in Becomes(l.op, row[l.on]) :
          /\ row' = [row EXCEPT ![l.on] = to] /\ With(l, [l EXCEPT !.on = None])
          /\ odd' = IF loads = {l} THEN odd \cap {"late"} ELSE odd
     \/ /\ Becomes(l.op, row[l.on]) = {} /\ loads' = loads \ {l} /\ UNCHANGED <<row, odd>>
     \/ loads' = loads \ {l} /\ UNCHANGED <<row, odd>>
  /\ UNCHANGED <<open, shown, clicks, others, search>>
Read(l, k) == /\ l.on = None /\ l.got[k] = None /\ With(l, [l EXCEPT !.got[k] = Of(k)])
              /\ UNCHANGED <<row, open, shown, clicks, others, search, odd>>

(* Mutant: the incoming requests are not set again. *)
AppliedButIncoming(got) == [got EXCEPT !["in"] = shown["in"]]
Applied(got) == got
Loaded(l) == /\ l.on = None /\ \A k \in Lists : l.got[k] # None
             /\ loads' = loads \ {l} /\ shown' = Applied(l.got)
             /\ UNCHANGED <<row, open, clicks, others, search, odd>>
(* The first load empties the lists, a later one only shows the error.                         *)
LoadFails(l) == /\ l.on = None /\ loads' = loads \ {l} /\ odd' = odd \cup {"failed"}
                /\ shown' = IF l.op = None THEN Empty ELSE shown
                /\ UNCHANGED <<row, open, clicks, others, search>>

Other(u) == /\ others < MaxOthers /\ others' = others + 1 /\ odd' = odd \cup {"others"}
            /\ \E to \in OtherMay(row[u]) : row' = [row EXCEPT ![u] = to]
            /\ UNCHANGED <<open, shown, loads, clicks, search>>
-----------------------------------------------------------------------------
(* The field is never cleared for the user; only a query that is too short clears the hits.    *)
Type(q) == /\ open /\ q # query /\ query' = q /\ timer' = (q # 0) /\ hits' = IF q = 0 THEN 0 ELSE hits
           /\ odd' = odd \ {"late"} /\ UNCHANGED <<panel, asking>>
Elapse == timer /\ timer' = FALSE /\ asking' = asking \cup {query} /\ UNCHANGED <<panel, query, hits, odd>>
(* Nothing tells an answer to an earlier query from one to this; a failed one clears the hits. *)
Found(q) == /\ q \in asking /\ asking' = asking \ {q} /\ hits' \in {0, q}
            /\ odd' = odd \cup IF q = query THEN {} ELSE {"late"}
            /\ UNCHANGED <<panel, query, timer>>

Next == \/ OpenSection \/ LeaveSection \/ Elapse
        \/ \E u \in People : Other(u) \/ \E op \in Operations : Click(op, u)
        \/ \E l \in loads : Serve(l) \/ Loaded(l) \/ LoadFails(l) \/ \E k \in Lists : Read(l, k)
        \/ \E q \in 0..MaxTyped : Type(q) \/ Found(q)
Spec == Init /\ [][Next]_vars
-----------------------------------------------------------------------------
(* With nothing under way, an open section shows everybody under what they are to this user,   *)
(* unless others acted since the last load began, loads overlapped, or one failed; and the     *)
(* hits are those of the query unless an answer came late.  (The effects of the section        *)
(* "friends" and the handlers of its buttons, SettingsPanel.tsx.)                              *)
ListsCurrent ==
  /\ open /\ loads = {} /\ odd \cap {"others", "overlap", "failed"} = {} => \A k \in Lists : shown[k] = Of(k)
  /\ open /\ ~timer /\ asking = {} /\ "late" \notin odd => hits \in {0, query}
=============================================================================
