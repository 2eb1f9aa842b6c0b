-------------------------- MODULE MCUpdateDelivery --------------------------
(* Model-checking instances of UpdateDelivery: two accounts, one client     *)
(* each, so that each is the other's sender, reader and recipient.          *)
EXTENDS UpdateDelivery, TLC

CONSTANTS alice, bob, a1, b1

MCUser == {alice, bob}
MCSession == {a1, b1}
MCOwner == a1 :> alice @@ b1 :> bob

Symmetry == Permutations(Handler)
=============================================================================
