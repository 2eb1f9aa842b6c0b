------------------------------ MODULE MCLogin ------------------------------
(* Model-checking instances of Login: one client with two sessions, or two  *)
(* clients that want the same phone number.                                 *)
EXTENDS Login, TLC

CONSTANTS s1, s2, p1, p2

MCSession == {s1, s2}

MCOnePerm == {p1}
MCOneClient == s1 :> p1 @@ s2 :> p1

MCTwoPerms == {p1, p2}
MCTwoClients == s1 :> p1 @@ s2 :> p2

Symmetry == Permutations(Temp) \cup Permutations(Hash)
=============================================================================
