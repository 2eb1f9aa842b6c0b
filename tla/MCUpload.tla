----------------------------- MODULE MCUpload -----------------------------
(* Model-checking instance of Upload: one sender with a file of two parts,  *)
(* which it uploads again after a fault, so that requests of an earlier     *)
(* attempt run beside those of the next and write the same object.          *)
EXTENDS Upload, TLC

CONSTANTS c1, x, y

MCClient == {c1}
MCFile == c1 :> <<x, y>>
===========================================================================
