------------------------------- MODULE ChatList -------------------------------
(***************************************************************************)
(* The list of chats: DialogList.tsx, and the copy of the chats that       *)
(* api/client.ts keeps for five seconds.  What the server would answer is  *)
(* a log of changes, and what the list shows the length of that log when   *)
(* it was asked for.  Requests are served and answered in any order.       *)
(***************************************************************************)
EXTENDS Naturals, Sequences, FiniteSets

CONSTANTS None,
          MaxChanges, MaxLoads, \* bounds for TLC: changes at the server, requests under way
          MaxOps, MaxTold       \* bounds for TLC: operations, events under way
ChatListConstants == /\ {MaxChanges, MaxLoads, MaxOps, MaxTold} \subseteq Nat
                     /\ None \notin Nat

Own == {"made", "marked"} \* a chat created here; one pinned, muted, archived, read or left

VARIABLES
  log,      \* the changes of this user's chats at the server: Own or "peer"
  cache,    \* chatsCache: a length of log, None when absent or too old
  list,     \* chats: a length of log, None after an error
  loads,    \* requests of getChats and of the presence that follows
  ops,      \* operations of the menu of a chat and of NewChatModal under way
  told,     \* changes whose event is on its way
  modal,    \* showNewChat
  odd       \* history: why the list may be old: "cached", "unheard", "failed", "late"
reading == <<cache, list, loads>>
vars == <<log, reading, ops, told, modal, odd>>

Init == /\ log = <<>> /\ cache = None /\ list = None /\ ops = {} /\ told = 0 /\ modal = FALSE
        /\ loads = {[n |-> 0, for |-> "list", at |-> "asked", snap |-> None]}
        /\ odd = {}
-----------------------------------------------------------------------------
Free == CHOOSE n \in 0..Cardinality(loads) : \A l \in loads : l.n # n
Request(for, at) == [n |-> Free, for |-> for, at |-> at, snap |-> None]
(* loadChats, with the copy that is kept or by a request; the presence is asked for after it.  *)
LoadChats(kept) ==
  /\ Cardinality(loads) < MaxLoads
  /\ IF kept = None THEN /\ loads' = loads \cup {Request("list", "asked")}
                         /\ UNCHANGED <<list, odd>>
     ELSE /\ list' = kept /\ loads' = loads \cup {Request("list", "presence")}
          /\ odd' = odd \cup (IF kept < Len(log) THEN {"cached"} ELSE {})
                        \cup (IF list # None /\ kept < list THEN {"late"} ELSE {})
  /\ cache' = kept

(* The pull of a finger.                                                                       *)
Refresh == LoadChats(cache) /\ UNCHANGED <<log, ops, told, modal>>
(* ChatView.loadChat: the chats are asked for anew, and only kept.                             *)
OpenChat == /\ Cardinality(loads) < MaxLoads /\ cache' = None
            /\ loads' = loads \cup {Request("chat", "asked")}
            /\ UNCHANGED <<log, list, ops, told, modal, odd>>
Expire == cache # None /\ cache' = None /\ UNCHANGED <<log, list, loads, ops, told, modal, odd>>

With(l, m) == loads' = (loads \ {l}) \cup {m}
ServeLoad(l) == /\ l.at = "asked" /\ With(l, [l EXCEPT !.at = "served", !.snap = Len(log)])
                /\ UNCHANGED <<log, cache, list, ops, told, modal, odd>>
(* The age of the copy counts from the request: it may be too old already.                     *)
Loaded(l) ==
  /\ l.at = "served" /\ cache' \in {l.snap, None}
  /\ odd' = odd \cup IF \E k \in {cache, list} \ {None} : l.snap < k THEN {"late"} ELSE {}
  /\ IF l.for = "list" THEN list' = l.snap /\ With(l, [l EXCEPT !.at = "presence", !.snap = None])
     ELSE loads' = loads \ {l} /\ UNCHANGED list
  /\ UNCHANGED <<log, ops, told, modal>>
(* The one catch of loadChats: where only the presence fails, the list is emptied as well.     *)
LoadFails(l) == /\ l.at # "asked" /\ loads' = loads \ {l}
                /\ IF l.for = "list" THEN list' = None /\ odd' = odd \cup {"failed"}
                   ELSE UNCHANGED <<list, odd>>
                /\ UNCHANGED <<log, cache, ops, told, modal>>
PresenceCome(l) == /\ l.at = "presence" /\ loads' = loads \ {l}
                   /\ UNCHANGED <<log, cache, list, ops, told, modal, odd>>
-----------------------------------------------------------------------------
(* A message, or a group of another: new_message and chats_changed.                            *)
PeerChanges == /\ Len(log) < MaxChanges /\ told < MaxTold
               /\ log' = Append(log, "peer") /\ told' = told + 1
               /\ UNCHANGED <<reading, ops, modal, odd>>
Hear == told > 0 /\ told' = told - 1 /\ LoadChats(cache) /\ UNCHANGED <<log, ops, modal>>
Unheard == /\ told > 0 /\ told' = told - 1 /\ odd' = odd \cup {"unheard"}
           /\ UNCHANGED <<log, reading, ops, modal>>

Open == ~modal /\ modal' = TRUE /\ UNCHANGED <<log, reading, ops, told, odd>>
Close == modal /\ modal' = FALSE /\ UNCHANGED <<log, reading, ops, told, odd>>
Offers(kind) == IF kind = "made" THEN modal ELSE list # None
Ask(kind) == /\ Offers(kind) /\ Cardinality(ops) < MaxOps /\ [kind |-> kind, served |-> FALSE] \notin ops
             /\ ops' = ops \cup {[kind |-> kind, served |-> FALSE]}
             /\ UNCHANGED <<log, reading, told, modal, odd>>
ServeOp(o) == /\ ~o.served /\ Len(log) < MaxChanges /\ log' = Append(log, o.kind)
              /\ ops' = (ops \ {o}) \cup {[o EXCEPT !.served = TRUE]}
              /\ UNCHANGED <<reading, told, modal, odd>>

(* Mutant: whatever is created, the copy is kept. *)
InvalidatesNothing(kind) == cache
(* invalidateChatsCache is called after a chat was created, not after one was marked.          *)
Invalidates(kind) == IF kind = "made" THEN None ELSE cache
(* onCreated closes the dialog, one opened meanwhile as well.                                  *)
Done(o) == /\ o.served /\ ops' = ops \ {o} /\ LoadChats(Invalidates(o.kind))
           /\ modal' = (modal /\ o.kind # "made")
           /\ UNCHANGED <<log, told>>
(* The error of a creation is shown, that of a mark is not; neither loads the chats.           *)
OpFails(o) == /\ ops' = ops \ {o} /\ odd' = odd \cup IF o.served THEN {"unheard"} ELSE {}
              /\ UNCHANGED <<log, reading, told, modal>>

Next == \/ Refresh \/ OpenChat \/ Expire \/ PeerChanges \/ Hear \/ Unheard \/ Open \/ Close
        \/ \E l \in loads : ServeLoad(l) \/ Loaded(l) \/ LoadFails(l) \/ PresenceCome(l)
        \/ \E k \in Own : Ask(k)
        \/ \E o \in ops : ServeOp(o) \/ Done(o) \/ OpFails(o)
Spec == Init /\ [][Next]_vars
-----------------------------------------------------------------------------
(* With nothing under way, the list has every change, unless its event was lost, a request     *)
(* failed or an older answer came after a younger one; what the copy of five seconds hid is    *)
(* never a chat created here.  (loadChats, the handlers of DialogList.tsx and getChats.)       *)
ListCurrent ==
  loads = {} /\ ops = {} /\ told = 0 /\ odd \subseteq {"cached"} =>
    \A i \in DOMAIN log : i > list => "cached" \in odd /\ log[i] # "made"
=============================================================================
