------------------------------- MODULE Album -------------------------------
(***************************************************************************)
(* What messages with media promise, whatever stores hold them: the        *)
(* contents that were sent, in the order of the messages.  A content is    *)
(* added with its message and can be read back unchanged ever after.       *)
(***************************************************************************)
EXTENDS Naturals, Sequences

VARIABLE album   \* album[m]: what a download of the m-th message's media yields

Init == album = <<>>

\* One more message; the earlier ones keep their contents.
Next ==
    /\ DOMAIN album' = 1..(Len(album) + 1)
    /\ \A m \in 1..Len(album) : album'[m] = album[m]

Spec == Init /\ [][Next]_album
=============================================================================
