------------------------------- MODULE MCPeople -------------------------------
(* Two accounts and two requests under way; a group call of three, and a call of user 3 to    *)
(* user 2; a video call and a call without one on one device.                                 *)
EXTENDS People

CONSTANTS c1, c2, e1, e2, g1, p1

Symmetry == Permutations({c1, c2})

MCStart == {(e1 :> acc) @@ (e2 :> [pw |-> FALSE, named |-> TRUE])
             : acc \in {None} \cup [pw : {TRUE}, named : BOOLEAN]}
MCCaller == (g1 :> 1) @@ (p1 :> 3)
MCCallees == (g1 :> {2, 3}) @@ (p1 :> {2})
MCChat == (g1 :> "G") @@ (p1 :> "P")

(* The bounds on what the parts collect. *)
Bound ==
  /\ only = "account" =>
       /\ accountOdd = {} /\ refused[e2] = 0 /\ reset[e2] = 0
       /\ slips[e1] + Cardinality(excused) <= 1
       /\ slips[e1] # 0 \/ excused # {} => token = None /\ reset[e1] = 0 /\ Cardinality(temps) <= 1
            /\ \A t \in accountAsked : t.op \in {"verify", "other", "again"}
       /\ \A t \in accountAsked : t.op = "other" => t.email = e1
       /\ signed # {} \/ reset[e1] # 0 => refused[e1] = 0 /\ \A t \in accountAsked : t.op # "other"
  /\ only = "calls" => Cardinality(callsOdd[g1] \cup callsOdd[p1]) + Cardinality(apart)
                         + Cardinality(dropped) <= 1
  /\ only = "media" /\ Len(kind) >= 3 => Cardinality(mediaTasks) <= 1
===============================================================================
