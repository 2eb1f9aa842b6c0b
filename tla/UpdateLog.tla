----------------------------- MODULE UpdateLog -----------------------------
(***************************************************************************)
(* What a store promises about an account's updates, whatever it stores:   *)
(* the teled.DB interface of db.go seen through GetState and               *)
(* GetDifference.  Every account has a position pts and a log; one         *)
(* operation extends the logs of some accounts, each by one entry that     *)
(* starts at the account's pts and moves it to the entry's end.            *)
(***************************************************************************)
EXTENDS Integers, Sequences

CONSTANTS User

VARIABLES pts, updates

logVars == <<pts, updates>>

\* The pts at which entry k of a log starts: where the entry before it ended.
startOf(log, k) == IF k = 1 THEN 0 ELSE log[k - 1].pts

\* A log without hole or overlap that ends at p.
contiguous(log, p) ==
    /\ \A k \in 1..Len(log) :
          log[k].ptsCount > 0 /\ log[k].pts = startOf(log, k) + log[k].ptsCount
    /\ p = startOf(log, Len(log) + 1)

Init ==
    /\ pts = [u \in User |-> 0]
    /\ updates = [u \in User |-> <<>>]

\* The account's log is extended by one entry, its last one.
Extended(u) ==
    LET e == updates'[u][Len(updates[u]) + 1]
    IN  /\ Len(updates'[u]) = Len(updates[u]) + 1
        /\ updates'[u] = Append(updates[u], e)
        /\ e.ptsCount > 0
        /\ e.pts = pts[u] + e.ptsCount
        /\ pts'[u] = e.pts

Untouched(u) == updates'[u] = updates[u] /\ pts'[u] = pts[u]

Next ==
    /\ DOMAIN pts' = User /\ DOMAIN updates' = User
    /\ \A u \in User : Extended(u) \/ Untouched(u)

Spec == Init /\ [][Next]_logVars
=============================================================================
