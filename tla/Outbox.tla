------------------------------- MODULE Outbox -------------------------------
(***************************************************************************)
(* The offline queue of the desktop client: handleSendMessage of ChatView  *)
(* puts a message there when a POST fails without network, and             *)
(* flushOfflineQueue sends what it holds when the network, the WebSocket   *)
(* or the service worker is back: nothing else starts a flush, and only a  *)
(* ChatView that is on the screen listens.  The queue is in localStorage;  *)
(* a flush empties it at once and keeps its own copy in memory while it    *)
(* awaits its POSTs, so that several flushes and sends interleave at every *)
(* await, and a reload of the window forgets them.                         *)
(***************************************************************************)
EXTENDS Naturals, Sequences, FiniteSets, SequencesExt

CONSTANTS Items,    \* the messages the user writes
          Flushes,  \* the runs of flushOfflineQueue there may be at a time
          MaxLost   \* bound for TLC: how many answers to the POSTs of one message are lost

ASSUME OutboxAssumption == MaxLost \in Nat

VARIABLES
  stored,    \* the queue in localStorage
  batch,     \* what each flush has still to send, <<>> when it is not running
  composing, \* the messages whose first POST is under way
  written,   \* the messages the user has written
  onLine,    \* navigator.onLine
  link,      \* whether the WebSocket is open
  shown,     \* whether ChatView is mounted: it is not behind settings, favourites or contacts
  asked,     \* whether a sync event is registered with the service worker
  sent,      \* how often the server stored a message
  queued,    \* history: messages that were in the queue
  unanswered,\* history: messages stored by a POST that failed for the client
  left,      \* history: messages behind one whose POST failed in a flush
  forgotten, \* history: messages a flush held when the window was reloaded
  unsaved,   \* history: messages localStorage refused
  waits      \* history: messages that the last call to flush left in the queue, or put back there

history == <<queued, unanswered, left, forgotten, unsaved>>
around == <<onLine, link, shown, asked, waits>>
vars == <<stored, batch, composing, written, sent, history, around>>

Init ==
  /\ stored = <<>>
  /\ batch = [f \in Flushes |-> <<>>]
  /\ composing = {} /\ written = {}
  /\ onLine \in BOOLEAN /\ link = FALSE /\ shown = TRUE /\ asked = FALSE /\ waits = {}
  /\ sent = [i \in Items |-> 0]
  /\ queued = {} /\ unanswered = {} /\ left = {} /\ forgotten = {} /\ unsaved = {}

----------------------------------------------------------------------------
(* handleSendMessage up to its await. *)
Compose(i) ==
  /\ shown /\ i \notin written
  /\ written' = written \cup {i}
  /\ composing' = composing \cup {i}
  /\ UNCHANGED <<stored, batch, sent, history, around>>

(* The POST is answered. *)
Stored(i) == sent' = [sent EXCEPT ![i] = @ + 1]

ComposeSent(i) ==
  /\ i \in composing
  /\ Stored(i)
  /\ composing' = composing \ {i}
  /\ UNCHANGED <<stored, batch, written, history, around>>

(* The POST throws: it did not arrive, or it was stored and the answer was lost. *)
Throws(i) ==
  \/ UNCHANGED <<sent, unanswered>>
  \/ sent[i] < MaxLost /\ Stored(i) /\ unanswered' = unanswered \cup {i}

(* saveQueue swallows the error of a full localStorage. *)
Save(q, i) ==
  \/ stored' = q /\ UNCHANGED unsaved
  \/ UNCHANGED stored /\ unsaved' = unsaved \cup {i}

(* The catch of handleSendMessage: without network the message is queued, with it the user is
   told and the message dropped. *)
ComposeFails(i) ==
  /\ i \in composing
  /\ composing' = composing \ {i}
  /\ Throws(i)
  /\ IF onLine
     THEN UNCHANGED <<stored, unsaved, queued, asked>>
     ELSE Save(Append(stored, i), i) /\ queued' = queued \cup {i} /\ asked' = TRUE
  /\ UNCHANGED <<batch, written, onLine, link, shown, waits, left, forgotten>>

(* Mutant: the queue is emptied after the loop and not before. *)
KeptQueue == stored


WorthFlushing == stored # <<>>

(* clearQueue *)
ClearedQueue == <<>>

(* flushOfflineQueue up to its first await: loadQueue and clearQueue. *)
Flush(f) ==
  /\ batch[f] = <<>>
  /\ batch' = [batch EXCEPT ![f] = stored]
  /\ stored' = ClearedQueue

(* One of the three events ChatView listens to, while it is mounted. *)
Told ==
  \/ /\ shown /\ WorthFlushing
     /\ \E f \in Flushes : Flush(f)
     /\ waits' = {}
  \/ /\ shown /\ ~WorthFlushing
     /\ waits' = {}
     /\ UNCHANGED <<stored, batch>>
  \/ /\ ~shown
     /\ waits' = waits \cup ToSet(stored)
     /\ UNCHANGED <<stored, batch>>

(* online *)
NetworkBack ==
  /\ ~onLine /\ onLine' = TRUE
  /\ Told
  /\ UNCHANGED <<composing, written, link, shown, asked, sent, history>>

(* dierchat:ws_connected, which the WebSocket client sends after each reconnection. *)
LinkBack ==
  /\ onLine /\ ~link /\ link' = TRUE
  /\ Told
  /\ UNCHANGED <<composing, written, onLine, shown, asked, sent, history>>

(* dierchat:flush_outbox: the service worker passes its sync event on, where there is one. *)
Synced ==
  /\ onLine /\ asked /\ asked' = FALSE
  /\ Told
  /\ UNCHANGED <<composing, written, onLine, link, shown, sent, history>>

(* The POST of a flush is answered, and the loop goes on. *)
FlushSent(f) ==
  /\ batch[f] # <<>>
  /\ Stored(Head(batch[f]))
  /\ batch' = [batch EXCEPT ![f] = Tail(@)]
  /\ UNCHANGED <<stored, composing, written, history, around>>

(* Mutant: the queue that filled up meanwhile is overwritten. *)
ReturnedAlone(i) == <<i>>

(* The failed message goes in front of what was queued meanwhile; break leaves the others. *)
Returned(i) == <<i>> \o stored

FlushFails(f) ==
  /\ batch[f] # <<>>
  /\ LET i == Head(batch[f]) IN
       /\ Throws(i)
       /\ Save(Returned(i), i)
       /\ left' = left \cup ToSet(Tail(batch[f]))
       /\ waits' = waits \cup {i}
  /\ batch' = [batch EXCEPT ![f] = <<>>]
  /\ UNCHANGED <<composing, written, onLine, link, shown, asked, queued, forgotten>>

NetworkLost ==
  /\ onLine /\ onLine' = FALSE
  /\ UNCHANGED <<stored, batch, composing, written, link, shown, asked, waits, sent, history>>

LinkLost ==
  /\ link /\ link' = FALSE
  /\ UNCHANGED <<stored, batch, composing, written, onLine, shown, asked, waits, sent, history>>

(* Settings, favourites or contacts are opened in place of ChatView, or closed. *)
Turn ==
  /\ shown' = ~shown
  /\ UNCHANGED <<stored, batch, composing, written, onLine, link, asked, waits, sent, history>>

(* The window is reloaded or closed and opened again, perhaps when the network has changed: only
   localStorage and the service worker survive. *)
Reload ==
  /\ composing' = {}
  /\ batch' = [f \in Flushes |-> <<>>]
  /\ forgotten' = forgotten \cup UNION {ToSet(batch[f]) : f \in Flushes}
  /\ onLine' \in BOOLEAN /\ link' = FALSE /\ shown' = TRUE
  /\ UNCHANGED <<stored, written, asked, waits, sent, queued, unanswered, left, unsaved>>

----------------------------------------------------------------------------
Next ==
  \/ \E i \in Items : Compose(i) \/ ComposeSent(i) \/ ComposeFails(i)
  \/ \E f \in Flushes : FlushSent(f) \/ FlushFails(f)
  \/ NetworkBack \/ LinkBack \/ Synced
  \/ NetworkLost \/ LinkLost \/ Turn \/ Reload

Spec == Init /\ [][Next]_vars

(* A POST of a flush is answered or fails in the end, whichever, and the timer of the WebSocket
   client reconnects it when there is a network (WSClient).  No call to flush is taken for
   granted, nor that the server ever accepts a message. *)
FairSpec ==
  /\ Spec
  /\ \A f \in Flushes : WF_vars(FlushSent(f) \/ FlushFails(f))
  /\ WF_vars(LinkBack)

----------------------------------------------------------------------------
TypeOK ==
  /\ stored \in Seq(Items)
  /\ batch \in [Flushes -> Seq(Items)]
  /\ composing \subseteq written /\ written \subseteq Items
  /\ {onLine, link, shown, asked} \subseteq BOOLEAN /\ waits \subseteq queued
  /\ sent \in [Items -> 0..MaxLost + 1]
  /\ queued \subseteq written /\ unanswered \subseteq written
  /\ left \subseteq queued /\ forgotten \subseteq queued /\ unsaved \subseteq queued

Places(i) ==
  {<<"stored", k>> : k \in {j \in DOMAIN stored : stored[j] = i}} \cup
  UNION {{<<f, k>> : k \in {j \in DOMAIN batch[f] : batch[f][j] = i}} : f \in Flushes}

Held(i) == Places(i) # {}

(* Whatever sends and flushes interleave, a message is in one place: the queue, one flush, or
   its first POST, so no two POSTs of it race. *)
HeldOnce ==
  \A i \in Items : Cardinality(Places(i)) <= 1 /\ (i \in composing => ~Held(i))

(* A message reaches the chat twice only if an answer of the server was lost, and one whose
   POST was answered is not sent again. *)
DuplicateExplained ==
  \A i \in Items : sent[i] > 1 \/ (sent[i] > 0 /\ Held(i)) => i \in unanswered

(* A queued message that was neither sent nor is held any more was behind a failed one in a
   flush, in the memory of a reloaded window, or refused by localStorage: nothing else loses one. *)
LossExplained ==
  \A i \in queued : sent[i] = 0 /\ ~Held(i) => i \in left \cup forgotten \cup unsaved

(* A message is in one place, and one that is in the chat twice, or nowhere, has one of the causes
   named. *)
OutcomeExplained == HeldOnce /\ DuplicateExplained /\ LossExplained

(* "On an error the remaining ones return to the storage": a queued message is held until it is
   sent, as long as the window is not reloaded and localStorage has room. *)
RemainingReturn ==
  \A i \in queued : sent[i] = 0 /\ ~Held(i) => i \in forgotten \cup unsaved

(* Where a message is, for somebody who sees no queues, flushes and windows. *)
PlaceOf ==
  [i \in Items |-> IF i \notin written THEN "new"
                  ELSE IF i \in composing THEN "posting"
                  ELSE IF Held(i) THEN "held" ELSE "gone"]
Promise == INSTANCE Courier WITH place <- PlaceOf, copies <- sent, doubted <- unanswered

(* The queue, its flushes and the reloads keep the promise of the module Courier: one sender at
   a time has a message, an answered one is let go of, and what was let go of does not return. *)
KeepsPromise == Promise!Spec

=============================================================================
