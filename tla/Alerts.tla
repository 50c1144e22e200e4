-------------------------------- MODULE Alerts --------------------------------
(***************************************************************************)
(* What tells the user of a message in another chat and of a group call:   *)
(* the toasts of Toast.tsx, the notifications and the banner of App.tsx.   *)
(* The effect of Toast.tsx, run again whenever the open chat, the types of *)
(* the chats or the settings change, stops every timer that it started.    *)
(***************************************************************************)
EXTENDS Naturals, FiniteSets

CONSTANTS Chats, Types, None,
          TypeOf(_), Default, \* the type of a chat, and the one taken while it is not known
          MaxMessages, MaxCalls \* bounds for TLC: messages, group calls that begin or end
AlertsConstants == /\ None \notin Chats \cup Nat \cup {"active", "ended"} /\ Default \in Types
                   /\ "toasts" \notin Types /\ {MaxMessages, MaxCalls} \subseteq Nat /\ \A c \in Chats : TypeOf(c) \in Types

VARIABLES
  current, hidden,   \* currentChatId; the window is not seen
  known,             \* the chats of chatTypes
  on, muted,         \* types with notifications on, and "toasts" for showInAppMessageToasts; notificationMutedChatIds
  toasts,            \* of each chat: the message it tells of
  timers,            \* messages whose toast has a timer running
  notes,             \* notifications of the system: a message and its chat
  n,                 \* messages so far
  last, gone,        \* history: the last message of each chat that gave a toast; those dismissed
  banner,            \* groupCallBannerByChatId: None, "active" or "ended"
  ends,              \* timers that take the banner away
  calls, told, cut   \* changes so far; history: the state told last, and the banners a timer took
toast == <<toasts, timers, notes, n, last, gone>>
call == <<banner, ends, calls, told, cut>>
vars == <<current, hidden, known, on, muted, toast, call>>

Init == /\ current = None /\ hidden = FALSE /\ known = {} /\ muted = {}
        /\ on \in {t \cup {"toasts"} : t \in {Types, Types \ {Default}}}
        /\ toasts = [c \in Chats |-> None] /\ timers = {} /\ notes = {} /\ n = 0
        /\ last = [c \in Chats |-> None] /\ gone = {}
        /\ banner = [c \in Chats |-> None] /\ ends = [c \in Chats |-> 0] /\ calls = 0
        /\ told = [c \in Chats |-> None] /\ cut = {}
-----------------------------------------------------------------------------
Enabled(c) == (IF c \in known THEN TypeOf(c) ELSE Default) \in on
(* A message is told of twice over: by a toast and, in a window that is not seen, by the       *)
(* notifications of Toast.tsx and of App.tsx, whose tag makes them one.                        *)
Toasts(c) == c # current /\ "toasts" \in on /\ c \notin muted /\ Enabled(c)
Notifies(c) == c \notin muted /\ Enabled(c) /\ (hidden \/ c # current)
NewMessage(c) ==
  /\ n < MaxMessages /\ n' = n + 1
  /\ notes' = IF Notifies(c) THEN notes \cup {<<n, c>>} ELSE notes
  /\ IF Toasts(c) THEN /\ toasts' = [toasts EXCEPT ![c] = n] /\ timers' = timers \cup {n}
                       /\ last' = [last EXCEPT ![c] = n]
     ELSE UNCHANGED <<toasts, timers, last>>
  /\ UNCHANGED <<current, hidden, known, on, muted, gone, call>>

(* dismiss goes by the id of the toast: a timer of one that was replaced finds nothing.        *)
Without(m) == [c \in Chats |-> IF toasts[c] = m THEN None ELSE toasts[c]]
Dismiss(m) == /\ toasts' = Without(m) /\ timers' = timers \ {m} /\ gone' = gone \cup {m}
Elapse(m) == /\ m \in timers /\ Dismiss(m)
             /\ UNCHANGED <<current, hidden, known, on, muted, notes, n, last, call>>
(* Every timer is stopped, and its toast stays until it is clicked.                            *)
Rerun == timers' = {}
(* A click opens the chat, where the effect is run again; that on a notification of App.tsx    *)
(* leaves the toast. Escape takes the toast away and opens nothing.                            *)
ClickToast(c) == /\ toasts[c] # None /\ toasts' = Without(toasts[c]) /\ gone' = gone \cup {toasts[c]}
                 /\ current' = c /\ timers' = (IF current = c THEN timers \ {toasts[c]} ELSE {})
                 /\ UNCHANGED <<hidden, known, on, muted, notes, n, last, call>>
Escape(c) == /\ toasts[c] # None /\ Dismiss(toasts[c])
             /\ UNCHANGED <<current, hidden, known, on, muted, notes, n, last, call>>
ClickNote(m, c) == /\ <<m, c>> \in notes /\ notes' = notes \ {<<m, c>>} /\ hidden' = FALSE /\ current' = c
                   /\ timers' = (IF current = c THEN timers \ {m} ELSE {})
                   /\ \/ toasts' = Without(m) /\ gone' = gone \cup {m}
                      \/ UNCHANGED <<toasts, gone>>
                   /\ UNCHANGED <<known, on, muted, n, last, call>>

OpenChat(c) == /\ c # current /\ current' = c /\ Rerun
               /\ UNCHANGED <<hidden, known, on, muted, toasts, notes, n, last, gone, call>>
(* Each load of the list sets chatTypes to a new object.                                       *)
ListLoaded == /\ known' \in {Chats, known} /\ Rerun
              /\ UNCHANGED <<current, hidden, on, muted, toasts, notes, n, last, gone, call>>
Set(o, m) == /\ on' = o /\ muted' = m /\ <<o, m>> # <<on, muted>> /\ Rerun
             /\ UNCHANGED <<current, hidden, known, toasts, notes, n, last, gone, call>>
Hide == hidden' = ~hidden /\ UNCHANGED <<current, known, on, muted, toast, call>>
-----------------------------------------------------------------------------
(* Two or more in a call make it active for the others.                                        *)
CallActive(c) == /\ calls < MaxCalls /\ calls' = calls + 1 /\ banner' = [banner EXCEPT ![c] = "active"]
                 /\ told' = [told EXCEPT ![c] = "active"] /\ cut' = cut \ {c}
                 /\ UNCHANGED <<current, hidden, known, on, muted, toast, ends>>
CallEnds(c) == /\ told[c] = "active" /\ calls < MaxCalls /\ calls' = calls + 1
               /\ banner' = [banner EXCEPT ![c] = "ended"] /\ told' = [told EXCEPT ![c] = "ended"]
               /\ ends' = [ends EXCEPT ![c] = @ + 1] /\ cut' = cut \ {c}
               /\ UNCHANGED <<current, hidden, known, on, muted, toast>>
(* Mutant: the banner is left where it is. *)
Stays(c) == banner
(* After eight seconds the banner goes, that of a call which began meanwhile as well.          *)
Removed(c) == [banner EXCEPT ![c] = None]
EndElapses(c) == /\ ends[c] > 0 /\ ends' = [ends EXCEPT ![c] = @ - 1] /\ banner' = Removed(c)
                 /\ cut' = (IF told[c] = "active" THEN cut \cup {c} ELSE cut)
                 /\ UNCHANGED <<current, hidden, known, on, muted, toast, calls, told>>

Next == \/ ListLoaded \/ Hide
        \/ \E c \in Chats : \/ NewMessage(c) \/ ClickToast(c) \/ Escape(c) \/ OpenChat(c) \/ CallActive(c)
                            \/ CallEnds(c) \/ EndElapses(c) \/ \E m \in 0..n : ClickNote(m, c)
        \/ \E m \in 0..n : Elapse(m)
        \/ \E t \in Types \cup {"toasts"} : Set((on \cup {t}) \ (on \cap {t}), muted)
        \/ \E c \in Chats : Set(on, (muted \cup {c}) \ (muted \cap {c}))
Spec == Init /\ [][Next]_vars
-----------------------------------------------------------------------------
(* A toast is there until its own time is over or the user dismisses it, whatever becomes of the one   *)
(* it replaced, and a banner says what was told of the call last, or nothing once the eight    *)
(* seconds after an end are over -- of that call or, wrongly, of one that began meanwhile.     *)
(* (dismiss and the handler of Toast.tsx; onGroupCallUpdate of App.tsx.)                       *)
AlertsTrue ==
  \A c \in Chats : /\ last[c] \notin gone => toasts[c] = last[c]
                   /\ banner[c] = told[c] \/ (banner[c] = None /\ told[c] = "ended") \/ c \in cut
                   /\ ends[c] = 0 => banner[c] # "ended"
=============================================================================
