---------------------------- MODULE MCBotFather ----------------------------
(* Model-checking instance of BotFather: two usernames that differ in case. *)
EXTENDS BotFather, TLC

MCFold == [n \in Username |-> "bot"]

Symmetry == Permutations(Handler)
=============================================================================
