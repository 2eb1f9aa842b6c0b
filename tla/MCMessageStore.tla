--------------------------- MODULE MCMessageStore ---------------------------
(* Model-checking instance of MessageStore: users are interchangeable.      *)
EXTENDS MessageStore, TLC

Symmetry == Permutations(User) \cup Permutations(Text)
=============================================================================
