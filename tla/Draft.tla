-------------------------------- MODULE Draft --------------------------------
(***************************************************************************)
(* The text being written: the field of MessageInput.tsx, which one        *)
(* instance keeps from chat to chat, and the drafts in localStorage, which *)
(* it writes 300 ms after a change and when another chat is opened.        *)
(***************************************************************************)
EXTENDS Naturals, FiniteSets

CONSTANTS Chats, None,
          MaxTexts, MaxSends \* bounds for TLC: texts ever written, sends under way
DraftConstants == None \notin Chats /\ {MaxTexts, MaxSends} \subseteq Nat
Blank == 0 \* the empty text; others are told apart by a number

VARIABLES
  chat,     \* whose field is shown; None while no chat is, and there is no field
  field,    \* text
  draft,    \* dierchat-draft of each chat
  timer,    \* the 300 ms are running
  sending,  \* the flag, which disables the field and the button
  sends,    \* onSend under way, with the instance of the field that waits for it
  mount, n, \* counters: instances, texts
  wants,    \* history: what the user wrote in each chat last and has not sent
  lost      \* history: chats whose text the exceptions below took or kept
vars == <<chat, field, draft, timer, sending, sends, mount, n, wants, lost>>

Init == /\ chat = None /\ field = Blank /\ draft = [c \in Chats |-> Blank] /\ timer = FALSE
        /\ sending = FALSE /\ sends = {} /\ mount = 0 /\ n = 0
        /\ wants = [c \in Chats |-> Blank] /\ lost = {}
-----------------------------------------------------------------------------
Write(t) == /\ field' = t /\ timer' = TRUE /\ wants' = [wants EXCEPT ![chat] = t]
            /\ lost' = lost \ {chat} /\ UNCHANGED <<chat, draft, sending, sends, mount>>
Type == chat # None /\ ~sending /\ n < MaxTexts /\ n' = n + 1 /\ Write(n')
Erase == chat # None /\ ~sending /\ field # Blank /\ Write(Blank) /\ UNCHANGED n
(* An emoji, a mention or a quick reply is put in also while the field is disabled.            *)
Insert == chat # None /\ n < MaxTexts /\ n' = n + 1 /\ Write(n')
Save == /\ timer /\ timer' = FALSE /\ draft' = [draft EXCEPT ![chat] = field]
        /\ UNCHANGED <<chat, field, sending, sends, mount, n, wants, lost>>

(* Mutant: the draft of the chat left is what the timer wrote. *)
LeftToTimer == draft
Left == [draft EXCEPT ![chat] = field]
(* Another chat in the same field.                                                             *)
Switch(c) == /\ chat # None /\ c \notin {chat, None} /\ chat' = c /\ draft' = Left
             /\ field' = Left[c] /\ timer' = TRUE
             /\ UNCHANGED <<sending, sends, mount, n, wants, lost>>
Enter(c) == /\ chat = None /\ chat' = c /\ field' = draft[c] /\ timer' = TRUE /\ sending' = FALSE
            /\ UNCHANGED <<draft, sends, mount, n, wants, lost>>
(* The field is taken down, or the window loaded again; the timer is only stopped.             *)
TooSoon == IF timer /\ draft[chat] # field THEN {chat} ELSE {}
Closed(keeps) == /\ chat # None /\ chat' = None /\ field' = Blank /\ timer' = FALSE /\ sending' = FALSE
                 /\ mount' = mount + 1 /\ lost' = lost \cup TooSoon
                 /\ sends' = (IF keeps THEN sends ELSE {}) /\ UNCHANGED <<draft, n, wants>>
-----------------------------------------------------------------------------
Begin(s) == /\ Cardinality(sends) < MaxSends /\ s \notin sends /\ sends' = sends \cup {s} /\ sending' = TRUE
            /\ UNCHANGED <<chat, field, draft, timer, mount, n, wants, lost>>
DoSend == chat # None /\ field # Blank /\ ~sending /\ Begin([chat |-> chat, text |-> field, mount |-> mount])
(* A sticker goes the same way, and the button for it is not disabled.                         *)
PickSticker == chat # None /\ Begin([chat |-> chat, text |-> None, mount |-> mount])

Own(s) == s.mount = mount /\ chat # None
(* The field is cleared and the draft of the chat of the send is removed, whatever they hold;  *)
(* a field of a later instance, which took the text from the draft, keeps it.                  *)
Cleared(s) == (IF field # Blank /\ (Own(s) # (<<chat, field>> = <<s.chat, s.text>>)) THEN {chat} ELSE {})
              \cup (IF draft[s.chat] \notin {Blank, s.text} THEN {s.chat} ELSE {})
Sent(s) ==
  /\ sends' = sends \ {s} /\ draft' = [draft EXCEPT ![s.chat] = Blank]
  /\ IF Own(s) THEN field' = Blank /\ timer' = (timer \/ field # Blank) /\ sending' = FALSE
     ELSE UNCHANGED <<field, timer, sending>>
  /\ wants' = [wants EXCEPT ![s.chat] = IF @ = s.text THEN Blank ELSE @]
  /\ lost' = lost \cup Cleared(s) /\ UNCHANGED <<chat, mount, n>>
SendFails(s) == /\ sends' = sends \ {s} /\ sending' = (sending /\ ~Own(s))
                /\ UNCHANGED <<chat, field, draft, timer, mount, n, wants, lost>>

Next == \/ Type \/ Erase \/ Insert \/ Save \/ DoSend \/ PickSticker
        \/ \E c \in Chats : Switch(c) \/ Enter(c)
        \/ \E keeps \in BOOLEAN : Closed(keeps)
        \/ \E s \in sends : Sent(s) \/ SendFails(s)
Spec == Init /\ [][Next]_vars
-----------------------------------------------------------------------------
(* What the user wrote in a chat and has not sent is in its field or in its draft, through     *)
(* changes of the chat, failing sends and loads of the window, unless it was written while     *)
(* another send was under way that cleared it, the field was taken down within the 300 ms, or  *)
(* it was sent from a field taken down since.                                                  *)
(* (The effects on chatId and text, doSend and onPick, MessageInput.tsx.)                      *)
DraftKept == \A c \in Chats \ lost : wants[c] = IF c = chat THEN field ELSE draft[c]
=============================================================================
