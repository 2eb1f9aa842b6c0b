---------------------------- MODULE MCTransport ----------------------------
(* Model-checking instances of Transport: one client that comes back on new *)
(* connections under the same session and key.                              *)
EXTENDS Transport, TLC

CONSTANTS s1, k1

MCSession == {s1}
MCKey == {k1}
MCKeyOf == s1 :> k1
=============================================================================
