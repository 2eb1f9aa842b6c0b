---------------------------- MODULE MessageStore ----------------------------
(***************************************************************************)
(* The messaging half of the in-memory store, memory/db.go: canonical      *)
(* messages, each participant's own reference to a message under a local   *)
(* id, and the per-account update log whose positions are the account's    *)
(* pts.  One mutex guards the whole store, so every exported method is one *)
(* atomic action here.                                                     *)
(*                                                                         *)
(* Abstractions: dates and media are left out, a text is a member of Text, *)
(* the JSON payload of a log entry is its decoded fields, and the order of *)
(* the ids inside a delete payload is not kept.  Entries carry 0, {} or    *)
(* NoUser in the fields their type does not use (nil in the code).         *)
(***************************************************************************)
EXTENDS Integers, Sequences, FiniteSets

CONSTANTS
    User,          \* the accounts
    NoUser,        \* the peer of a log entry that has none
    Text,          \* message texts
    RandomID,      \* the ids clients give their sends
    MaxMessages,   \* bound: messages ever sent
    MaxPts,        \* bound: updates per account
    MaxDelete      \* bound: ids in one deleteMessages request

ASSUME UserAssumption == NoUser \notin User
ASSUME BoundAssumption == MaxMessages \in Nat /\ MaxPts \in Nat /\ MaxDelete \in Nat

VARIABLES
    messages,      \* messages[g]: the canonical message with global id g
    lastMessageID, \* lastMessageID[u]: last local id given out to u
    pts,           \* pts[u]: u's position in the update stream
    refs,          \* refs[u][i]: u's reference under local id i
    updates        \* updates[u]: u's update log

Log == INSTANCE UpdateLog

storeVars == <<messages, lastMessageID, pts, refs, updates>>

UpdateTypes == {"new", "edit", "delete", "readinbox", "readoutbox"}

Message == [from : User, peer : User, text : Text, randomID : RandomID,
            deleted : BOOLEAN]

Ref == [globalID : Nat, out : BOOLEAN, unread : BOOLEAN]

Entry == [pts : Nat, ptsCount : Nat, type : UpdateTypes, globalID : Nat,
          ids : SUBSET Nat, peer : User \cup {NoUser}, maxID : Nat]

-----------------------------------------------------------------------------
(* Helpers of the store *)

\* A user's map of references with the reference r stored under local id i.
putRef(m, i, r) == [k \in DOMAIN m \cup {i} |-> IF k = i THEN r ELSE m[k]]

\* The conversation partner of self for a canonical message.
other(self, m) == IF m.from = self THEN m.peer ELSE m.from

\* The local ids under which u's map refers to the canonical message g.
refByGlobal(u, g) == {i \in DOMAIN refs[u] : refs[u][i].globalID = g}

\* Mutants of the log entries: the pts for the message's id, one pts for any number
\* of deletions, a read that takes no pts, a read with its arguments swapped.
MessageEntry_pts(p, type, g) ==
    [pts |-> p, ptsCount |-> 1, type |-> type, globalID |-> p,
     ids |-> {}, peer |-> NoUser, maxID |-> 0]

DeleteEntry_one(p, n, ids) ==
    [pts |-> p, ptsCount |-> 1, type |-> "delete", globalID |-> 0,
     ids |-> ids, peer |-> NoUser, maxID |-> 0]

ReadEntry_zero(p, type, peer, maxID) ==
    [pts |-> p, ptsCount |-> 0, type |-> type, globalID |-> 0,
     ids |-> {}, peer |-> peer, maxID |-> maxID]

ReadEntry_swapped(p, type, peer, maxID) ==
    [pts |-> p, ptsCount |-> 1, type |-> type, globalID |-> 0,
     ids |-> {}, peer |-> maxID, maxID |-> peer]

\* The log entries, by type: logUpdate with the payload each caller gives it.
MessageEntry(p, type, g) ==
    [pts |-> p, ptsCount |-> 1, type |-> type, globalID |-> g,
     ids |-> {}, peer |-> NoUser, maxID |-> 0]

DeleteEntry(p, n, ids) ==
    [pts |-> p, ptsCount |-> n, type |-> "delete", globalID |-> 0,
     ids |-> ids, peer |-> NoUser, maxID |-> 0]

ReadEntry(p, type, peer, maxID) ==
    [pts |-> p, ptsCount |-> 1, type |-> type, globalID |-> 0,
     ids |-> {}, peer |-> peer, maxID |-> maxID]

-----------------------------------------------------------------------------
(* Queries *)

\* The references GetHistory and GetDialogs range over: not deleted.
visible(self) == {i \in DOMAIN refs[self] : ~messages[refs[self][i].globalID].deleted}

\* GetHistory, as the set of local ids it may page through (no limit).
GetHistory(self, peer, offsetID) ==
    {i \in visible(self) :
        /\ other(self, messages[refs[self][i].globalID]) = peer
        /\ offsetID > 0 => i < offsetID}

\* Mutant of dialogReadOutbox: any message the peer holds counts as read.
dialogReadOutbox_held(self, peer) ==
    {i \in GetHistory(self, peer, 0) :
        /\ refs[self][i].out
        /\ \E j \in refByGlobal(peer, refs[self][i].globalID) : ~refs[peer][j].out}

\* The outgoing references of self to peer that the peer has read, by GetDialogs'
\* peerReadGlobal.
dialogReadOutbox(self, peer) ==
    {i \in GetHistory(self, peer, 0) :
        /\ refs[self][i].out
        /\ \E j \in refByGlobal(peer, refs[self][i].globalID) :
              ~refs[peer][j].out /\ ~refs[peer][j].unread}

\* MessageByGlobal: the viewer's copies of a message, deleted ones included.
MessageByGlobal(self, g) == refByGlobal(self, g)

-----------------------------------------------------------------------------
(* Updates to the tables.  Init is an empty store whose users exist. *)

Init ==
    /\ messages = <<>>
    /\ lastMessageID = [u \in User |-> 0]
    /\ pts = [u \in User |-> 0]
    /\ refs = [u \in User |-> <<>>]
    /\ updates = [u \in User |-> <<>>]

\* Mutant of participants: the recipient is forgotten.
participants_sender(from, peer) == {from}

\* The accounts a message between from and peer is delivered to.
participants(from, peer) == {from, peer}

\* SendMessage: the canonical message, then for the sender and (unless it is a
\* chat with oneself) the recipient a local id and a pts, a reference and a log
\* entry.  The random id is kept and never compared.
SendMessage(from, peer, text, randomID) ==
    LET g == Len(messages) + 1
        P == participants(from, peer)
    IN  /\ Len(messages) < MaxMessages
        /\ \A u \in P : pts[u] < MaxPts
        /\ messages' = Append(messages, [from |-> from, peer |-> peer, text |-> text,
                                         randomID |-> randomID, deleted |-> FALSE])
        /\ lastMessageID' = [u \in User |->
                IF u \in P THEN lastMessageID[u] + 1 ELSE lastMessageID[u]]
        /\ pts' = [u \in User |-> IF u \in P THEN pts[u] + 1 ELSE pts[u]]
        /\ refs' = [u \in User |->
                IF u \in P
                THEN putRef(refs[u], lastMessageID[u] + 1,
                            [globalID |-> g, out |-> u = from, unread |-> u # from])
                ELSE refs[u]]
        /\ updates' = [u \in User |->
                IF u \in P
                THEN Append(updates[u], MessageEntry(pts[u] + 1, "new", g))
                ELSE updates[u]]

\* Mutant of editable: a deleted message may be edited.
editable_deleted(self, g) == messages[g].from = self

\* Only a message the caller sent and nobody deleted may be edited.
editable(self, g) == ~messages[g].deleted /\ messages[g].from = self

\* EditMessage: otherwise the call returns ErrMessageID and changes nothing.
EditMessage(self, localID, text) ==
    /\ localID \in DOMAIN refs[self]
    /\ LET g == refs[self][localID].globalID
           P == participants(self, messages[g].peer)
       IN  /\ editable(self, g)
           /\ \A u \in P : pts[u] < MaxPts
           /\ messages' = [messages EXCEPT ![g].text = text]
           /\ pts' = [u \in User |-> IF u \in P THEN pts[u] + 1 ELSE pts[u]]
           /\ updates' = [u \in User |->
                   IF u \in P
                   THEN Append(updates[u], MessageEntry(pts[u] + 1, "edit", g))
                   ELSE updates[u]]
           /\ UNCHANGED <<lastMessageID, refs>>

\* DeleteMessages: the positions of the request's id list that name a reference
\* of the caller count, a repeated or an already deleted id again.  The canonical
\* message goes for both sides; only the caller's log is told.
DeleteMessages(self, localIDs) ==
    LET found == {k \in DOMAIN localIDs : localIDs[k] \in DOMAIN refs[self]}
        deleted == {localIDs[k] : k \in found}
        n == Cardinality(found)
    IN  /\ found # {}
        /\ pts[self] + n <= MaxPts
        /\ messages' = [g \in DOMAIN messages |->
                [messages[g] EXCEPT !.deleted =
                    @ \/ \E i \in deleted : refs[self][i].globalID = g]]
        /\ pts' = [pts EXCEPT ![self] = @ + n]
        /\ updates' = [updates EXCEPT ![self] =
                Append(@, DeleteEntry(pts[self] + n, n, deleted))]
        /\ UNCHANGED <<lastMessageID, refs>>

\* Mutant of readIDs: the message read up to is left unread.
readIDs_below(self, peer, maxID) ==
    {i \in DOMAIN refs[self] :
        /\ ~refs[self][i].out
        /\ i < maxID
        /\ other(self, messages[refs[self][i].globalID]) = peer}

\* The incoming references of self with peer up to maxID: what ReadHistory reads.
readIDs(self, peer, maxID) ==
    {i \in DOMAIN refs[self] :
        /\ ~refs[self][i].out
        /\ i <= maxID
        /\ other(self, messages[refs[self][i].globalID]) = peer}

\* The local ids of peer's own copies of those messages.
ackedIDs(self, peer, maxID) ==
    {j \in DOMAIN refs[peer] :
        /\ refs[peer][j].out
        /\ \E i \in readIDs(self, peer, maxID) :
              refs[self][i].globalID = refs[peer][j].globalID}

\* Mutant of maxOf: the smallest.
maxOf_least(S) == IF S = {} THEN 0 ELSE CHOOSE i \in S : \A j \in S : i <= j

\* The largest of a finite set of local ids, 0 when there is none.
maxOf(S) == IF S = {} THEN 0 ELSE CHOOSE i \in S : \A j \in S : j <= i

\* ReadHistory: marks the messages read, logs the read for the caller even when
\* nothing was unread, and a receipt for the peer when it covers any message.
ReadHistory(self, peer, maxID) ==
    LET outboxMaxID == maxOf(ackedIDs(self, peer, maxID))
        ack == outboxMaxID > 0 /\ peer # self
        P == IF ack THEN {self, peer} ELSE {self}
    IN  /\ \A u \in P : pts[u] < MaxPts
        /\ refs' = [refs EXCEPT ![self] =
                [i \in DOMAIN @ |->
                    IF i \in readIDs(self, peer, maxID)
                    THEN [@[i] EXCEPT !.unread = FALSE] ELSE @[i]]]
        /\ pts' = [u \in User |-> IF u \in P THEN pts[u] + 1 ELSE pts[u]]
        /\ updates' = [u \in User |->
                IF u = self
                THEN Append(updates[u], ReadEntry(pts[u] + 1, "readinbox", peer, maxID))
                ELSE IF u \in P
                THEN Append(updates[u], ReadEntry(pts[u] + 1, "readoutbox", self, outboxMaxID))
                ELSE updates[u]]
        /\ UNCHANGED <<messages, lastMessageID>>

\* Local ids a request may name, one never given out included; a read may also
\* be up to 0, which covers nothing.
LocalID == 1..(MaxMessages + 1)
ReadID == 0..MaxMessages

Next ==
    \/ \E from, peer \in User, text \in Text, randomID \in RandomID :
            SendMessage(from, peer, text, randomID)
    \/ \E self \in User, i \in LocalID, text \in Text : EditMessage(self, i, text)
    \/ \E self \in User, n \in 1..MaxDelete : \E localIDs \in [1..n -> LocalID] :
            DeleteMessages(self, localIDs)
    \/ \E self, peer \in User, maxID \in ReadID : ReadHistory(self, peer, maxID)

Spec == Init /\ [][Next]_storeVars

-----------------------------------------------------------------------------
(* Properties *)

\* Every table holds values of its type, and a reference's id is a message.
TypeOK ==
    /\ messages \in Seq(Message)
    /\ lastMessageID \in [User -> Nat]
    /\ pts \in [User -> Nat]
    /\ updates \in [User -> Seq(Entry)]
    /\ refs \in [User -> Seq(Ref)]

\* An account's log has no hole and no overlap: every entry starts where the one
\* before it ended, the first at 0, and the last one ends at the account's pts.
\* This is the rule a client uses to decide that it missed nothing
\* (allocate/allocatePts and logUpdate kept in step by every operation).
LogContiguous == \A u \in User : Log!contiguous(updates[u], pts[u])

\* The store implements the update stream its interface promises: every operation
\* extends the logs it touches by one entry that starts at the account's pts.
UpdateStream == Log!Spec

\* Both participants, and nobody else, hold exactly one copy of a message, the
\* sender's outgoing and the recipient's incoming; local ids are 1..lastMessageID
\* with none skipped (SendMessage's two allocate/putRef pairs).
CopiesMatch ==
    /\ \A u \in User : DOMAIN refs[u] = 1..lastMessageID[u]
    /\ \A g \in DOMAIN messages, u \in User :
          /\ u \notin {messages[g].from, messages[g].peer}
                => refByGlobal(u, g) = {}
          /\ u \in {messages[g].from, messages[g].peer}
                => \E i \in DOMAIN refs[u] :
                      /\ refByGlobal(u, g) = {i}
                      /\ refs[u][i].out = (u = messages[g].from)

\* The edits of message g an account has been told of.
editsOf(u, g) ==
    {k \in DOMAIN updates[u] : updates[u][k].type = "edit" /\ updates[u][k].globalID = g}

\* The log announces each of an account's messages exactly once, in the order of
\* their local ids, every edit after the message it is about, and only messages the
\* account holds: what updates.getDifference needs to resolve each entry.  An edit is
\* announced to both participants.
LogTellsMessages ==
    /\ \A g \in DOMAIN messages :
          Cardinality(editsOf(messages[g].from, g)) = Cardinality(editsOf(messages[g].peer, g))
    /\ \A u \in User :
          LET log == updates[u]
              news == {k \in DOMAIN log : log[k].type = "new"}
          IN  /\ \A i \in DOMAIN refs[u] :
                    \E k \in news : /\ log[k].globalID = refs[u][i].globalID
                                    /\ Cardinality({n \in news : n <= k}) = i
              /\ Cardinality(news) = lastMessageID[u]
              /\ \A k \in DOMAIN log : log[k].type = "edit" =>
                    \E n \in news : n < k /\ log[n].globalID = log[k].globalID
              /\ \A k \in DOMAIN log : log[k].type \in {"new", "edit"} =>
                    MessageByGlobal(u, log[k].globalID) # {}

\* Read receipts are exact: a sent message was read by the peer if and only if a
\* receipt in the sender's log names it or a later message of that conversation.
\* One direction is that no receipt claims too much, the other that no read goes
\* unreported (ReadHistory's OutboxMaxID against the unread flags it clears).
ReceiptsExact ==
    \A u, p \in User : u # p =>
        \A i \in DOMAIN refs[u] :
            (refs[u][i].out /\ messages[refs[u][i].globalID].peer = p) =>
                (   (\A j \in refByGlobal(p, refs[u][i].globalID) : ~refs[p][j].unread)
                <=> (\E k \in DOMAIN updates[u] :
                        /\ updates[u][k].type = "readoutbox"
                        /\ updates[u][k].peer = p
                        /\ updates[u][k].maxID >= i))

\* The unread flags are what replaying the log gives: an incoming message is
\* unread if and only if no inbox read that covers it comes after it in the log.
\* A read up to an id not given out yet must not swallow a later message.
UnreadFollowsLog ==
    \A u \in User : \A i \in DOMAIN refs[u] :
        LET g == refs[u][i].globalID
            log == updates[u]
        IN  ~refs[u][i].out =>
            (   refs[u][i].unread
            <=> \E n \in DOMAIN log :
                    /\ log[n].type = "new" /\ log[n].globalID = g
                    /\ \A k \in DOMAIN log :
                          ~ /\ k > n
                            /\ log[k].type = "readinbox"
                            /\ log[k].peer = messages[g].from
                            /\ log[k].maxID >= i)

\* No step rebinds a local id, marks a read message unread, undeletes a message or
\* changes the text of a deleted one.
CopiesPersist ==
    [][/\ \A u \in User : \A i \in DOMAIN refs[u] :
            /\ i \in DOMAIN refs'[u]
            /\ refs'[u][i].globalID = refs[u][i].globalID
            /\ refs'[u][i].unread => refs[u][i].unread
       /\ \A g \in DOMAIN messages : messages[g].deleted =>
            messages'[g].deleted /\ messages'[g].text = messages[g].text]_storeVars
=============================================================================
