----------------------------- MODULE MCMailbox -----------------------------
(* Model-checking instance of Mailbox: one account reads its mailbox, which *)
(* holds a conversation with the other and one with itself, so that a list  *)
(* of one dialog is cut.                                                    *)
EXTENDS Mailbox
=============================================================================
