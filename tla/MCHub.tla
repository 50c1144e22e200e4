------------------------------- MODULE MCHub -------------------------------
(* Two accounts, one of them with two interchangeable sessions, and one chat of both. *)
EXTENDS Hub, TLC

CONSTANTS u1, u2, a1, a2, b1

MCUserOf == [c \in Clients |-> IF c = b1 THEN u2 ELSE u1]
MCLists == {{u1, u2}}
Symmetry == Permutations({a1, a2})
============================================================================
