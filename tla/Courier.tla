------------------------------ MODULE Courier ------------------------------
(***************************************************************************)
(* What the client promises of a message the user has written, with        *)
(* nothing said of queues, flushes, the network or windows: it is posted   *)
(* and perhaps held and posted again, by one sender at a time, until it is *)
(* let go of for good.  Letting go of it after an answer of the server     *)
(* makes one copy in the chat; only a POST whose answer was lost makes a   *)
(* copy of a message that is still held.  The module Outbox implements it. *)
(***************************************************************************)
EXTENDS Naturals

CONSTANT Items

VARIABLES
  place,   \* of each message: "new", "posting" for the first time, "held", "gone"
  copies,  \* how often it is in the chat
  doubted  \* those of which a copy was made that the client was not told of
vars == <<place, copies, doubted>>

Init == /\ place = [i \in Items |-> "new"]
        /\ copies = [i \in Items |-> 0] /\ doubted = {}

Under(i) == place[i] \in {"posting", "held"}
OneMore(i) == copies' = [copies EXCEPT ![i] = @ + 1]

Write(i) == /\ place[i] = "new" /\ place' = [place EXCEPT ![i] = "posting"]
            /\ UNCHANGED <<copies, doubted>>

Deliver(i) == /\ Under(i) /\ place' = [place EXCEPT ![i] = "gone"]
              /\ OneMore(i) /\ UNCHANGED doubted

(* A POST fails: the message is held or let go of, and others that were held may be, too. *)
Fail(i) ==
  /\ Under(i)
  /\ place'[i] \in {"held", "gone"} /\ place' \in [Items -> {"new", "posting", "held", "gone"}]
  /\ \A j \in Items \ {i} : place'[j] = place[j] \/ (place[j] = "held" /\ place'[j] = "gone")
  /\ \/ UNCHANGED <<copies, doubted>>
     \/ OneMore(i) /\ doubted' = doubted \cup {i}

Forget ==
  /\ place' \in [Items -> {"new", "posting", "held", "gone"}]
  /\ \A j \in Items : place'[j] = place[j] \/ (Under(j) /\ place'[j] = "gone")
  /\ UNCHANGED <<copies, doubted>>

Next == Forget \/ \E i \in Items : Write(i) \/ Deliver(i) \/ Fail(i)
Spec == Init /\ [][Next]_vars
=============================================================================
