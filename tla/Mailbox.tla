------------------------------ MODULE Mailbox ------------------------------
(***************************************************************************)
(* The requests that read an account's mailbox while the store changes     *)
(* under them: messages.getHistory page by page, messages.getDialogs and   *)
(* messages.getPeerDialogs, which put their answer together from several   *)
(* calls of the store (internal/rpc/messages.go, messages_more.go), and    *)
(* the drafts shown with the dialogs (drafts.go).                          *)
(*                                                                         *)
(* Between two calls of a request any other operation may change the       *)
(* store.  Requests only read, so one at a time is enough.  The order of   *)
(* draft-only dialogs, the text of a draft shown with a dialog, the users  *)
(* listed with an answer and the push of a saved draft are left out; so    *)
(* are requests refused at once.                                           *)
(***************************************************************************)
EXTENDS MessageStore, SequencesExt

CONSTANTS
    Viewer,         \* the accounts whose mailbox is read
    HistoryLimit,   \* messages in a page of the history
    DialogsLimit,   \* dialogsDefaultLimit: conversations GetDialogs returns
    Peers,          \* peers named in one getPeerDialogs, some perhaps twice
    MaxDrafts       \* bound: drafts of all accounts at a time

ASSUME MailboxAssumption ==
    /\ Viewer \subseteq User
    /\ HistoryLimit \in Nat \ {0} /\ DialogsLimit \in Nat \ {0}
    /\ Peers \in Nat /\ MaxDrafts \in Nat

VARIABLES
    drafts,     \* drafts[u]: the peers u has a draft for
    request     \* the request being served, or its answer

vars == <<storeVars, drafts, request>>

\* Besides the request's own state: what the client knew when it asked, and whether
\* the list of dialogs it was answered from was cut at its limit.
NoRequest == [method |-> "none", pc |-> "done", self |-> NoUser, peers |-> <<>>,
              knew |-> 0, held |-> 0, cut |-> FALSE,
              read |-> <<>>, drafts |-> {}, dialogs |-> <<>>, messages |-> <<>>,
              offsetID |-> 0, turn |-> 0, state |-> 0]

-----------------------------------------------------------------------------
(* Queries of the store *)

\* The n largest of a set of local ids, newest first: the k-th is the one with k of them
\* at least as large.
newest(S, n) ==
    [k \in 1..(IF n < Cardinality(S) THEN n ELSE Cardinality(S)) |->
        CHOOSE i \in S : Cardinality({j \in S : j >= i}) = k]

\* Mutant of page: the offset is part of the page.
page_from(self, peer, offsetID, limit) ==
    newest(GetHistory(self, peer, IF offsetID > 0 THEN offsetID + 1 ELSE 0), limit)

\* GetHistory with its limit.
page(self, peer, offsetID, limit) == newest(GetHistory(self, peer, offsetID), limit)

\* A conversation as GetDialogs sums it up.
dialogWith(self, peer) ==
    LET ids == GetHistory(self, peer, 0)
        incoming == {i \in ids : ~refs[self][i].out}
    IN  [peer |-> peer, top |-> maxOf(ids),
         unreadCount |-> Cardinality({i \in incoming : refs[self][i].unread}),
         readInboxMaxID |-> maxOf({i \in incoming : ~refs[self][i].unread}),
         readOutboxMaxID |-> maxOf(dialogReadOutbox(self, peer))]

\* The peer of the conversation local id i of self belongs to.
peerOf(self, i) == other(self, messages[refs[self][i].globalID])

\* The newest message of each conversation.
tops(self) == {i \in visible(self) : i = maxOf(GetHistory(self, peerOf(self, i), 0))}

\* GetDialogs: the conversations with the newest messages.
GetDialogs(self, limit) ==
    LET top == newest(tops(self), limit)
    IN  [k \in DOMAIN top |-> dialogWith(self, peerOf(self, top[k]))]

Drafts(self) == drafts[self]

\* DB.SaveDraft: one draft per peer, the last; a blank text clears it.
SaveDraft(self, peer, blank) ==
    [drafts EXCEPT ![self] = IF blank THEN @ \ {peer} ELSE @ \cup {peer}]

-----------------------------------------------------------------------------
(* Requests *)

\* The request r of self starts, and the one before is forgotten.
Begin(self, r) ==
    /\ request.pc = "done"
    /\ request' = [r EXCEPT !.self = self, !.knew = pts[self], !.held = lastMessageID[self]]
    /\ UNCHANGED <<storeVars, drafts>>

reply(r) == request' = r /\ UNCHANGED <<storeVars, drafts>>

\* A client opens a conversation, its Saved Messages for a conversation with itself.
OpenHistory(self, peer) ==
    Begin(self, [NoRequest EXCEPT !.method = "history", !.pc = "page", !.peers = <<peer>>])

\* A page below the oldest message the client has; it is done with the first page that
\* is not full (external).
getPage(peer) ==
    LET r == request
        msgs == page(r.self, peer, r.offsetID, HistoryLimit)
    IN  /\ r.pc = "page"
        /\ reply([r EXCEPT !.messages = @ \o msgs,
                           !.offsetID = IF msgs = <<>> THEN @ ELSE Last(msgs),
                           !.pc = IF Len(msgs) < HistoryLimit THEN "done" ELSE "page"])

messagesGetHistory == request.pc = "page" /\ getPage(request.peers[1])

\* The chat with oneself, without naming a peer.
messagesGetSavedHistory == request.peers = <<request.self>> /\ getPage(request.self)

messagesGetDialogs(self) ==
    Begin(self, [NoRequest EXCEPT !.method = "dialogs", !.pc = "dialogs"])

\* The client names the peers (input dialogs of another type, and peers that cannot
\* be resolved, are skipped).
messagesGetPeerDialogs(self, peers) ==
    Begin(self, [NoRequest EXCEPT !.method = "peerDialogs", !.pc = "dialogs", !.peers = peers])

readDialogs ==
    /\ request.pc = "dialogs"
    /\ reply([request EXCEPT !.read = GetDialogs(request.self, DialogsLimit),
                             !.cut = Cardinality(tops(request.self)) > DialogsLimit,
                             !.pc = "drafts"])

\* The dialogs the answer will hold: the ones read, or the peers asked for, each with
\* what was read of it or zeroes.
NoMessages(peer) ==
    [peer |-> peer, top |-> 0, unreadCount |-> 0, readInboxMaxID |-> 0, readOutboxMaxID |-> 0]

byPeer(r, peer) ==
    IF \E k \in DOMAIN r.read : r.read[k].peer = peer
    THEN r.read[CHOOSE k \in DOMAIN r.read : r.read[k].peer = peer]
    ELSE NoMessages(peer)

readDrafts ==
    LET r == request IN
    /\ r.pc = "drafts"
    /\ reply([r EXCEPT
            !.drafts = IF r.method = "dialogs" THEN Drafts(r.self) ELSE {},
            !.dialogs = IF r.method = "dialogs" THEN r.read
                        ELSE [k \in DOMAIN r.peers |-> byPeer(r, r.peers[k])],
            !.pc = IF r.method = "dialogs" THEN "top" ELSE "state"])

\* The state getPeerDialogs reports: GetState, after the dialogs were read.
readState ==
    /\ request.pc = "state"
    /\ reply([request EXCEPT !.state = pts[request.self], !.pc = "top"])

\* The newest message of the conversation, as of now.
topMessage(self, d) == page(self, d.peer, 0, 1)

\* Mutant of draftOnly: a draft makes a dialog of its own in any case.
draftOnly_all(r) == SetToSeq({NoMessages(p) : p \in r.drafts})

\* A draft alone forms a dialog: those whose peer was not among the dialogs read.
draftOnly(r) ==
    SetToSeq({NoMessages(p) : p \in r.drafts \ {r.read[k].peer : k \in DOMAIN r.read}})

\* One turn of the loop over the dialogs, and the end of it.
readTop ==
    LET r == request
        n == r.turn + 1
    IN  /\ r.pc = "top"
        /\ IF n <= Len(r.dialogs)
           THEN reply([r EXCEPT !.messages = @ \o topMessage(r.self, r.dialogs[n]), !.turn = n])
           ELSE reply([r EXCEPT !.dialogs = IF r.method = "dialogs" THEN draftOnly(r) \o @ ELSE @,
                                !.read = <<>>, !.drafts = {}, !.turn = 0, !.pc = "done"])

\* messages.saveDraft of a text, or of a blank one.
messagesSaveDraft(self, peer, blank) ==
    /\ drafts' = SaveDraft(self, peer, blank)
    /\ Cardinality(UNION {{u} \X drafts'[u] : u \in User}) <= MaxDrafts
    /\ UNCHANGED <<storeVars, request>>

-----------------------------------------------------------------------------
MailboxInit ==
    /\ Init
    /\ drafts = [u \in User |-> {}]
    /\ request = NoRequest

Ask(self) ==
    \/ \E peer \in User : OpenHistory(self, peer)
    \/ messagesGetDialogs(self)
    \/ \E peers \in [1..Peers -> User] : messagesGetPeerDialogs(self, peers)

\* The changes of the store an answer can tell apart.  Clients read up to a message of
\* the conversation and delete one message at a time; texts are not part of an answer.
Change ==
    \/ \E from, peer \in User, text \in Text, randomID \in RandomID :
            SendMessage(from, peer, text, randomID)
    \/ \E self \in User : \E i \in visible(self) : DeleteMessages(self, <<i>>)
    \/ \E self, peer \in User : \E i \in GetHistory(self, peer, 0) :
            ~refs[self][i].out /\ ReadHistory(self, peer, i)

MailboxNext ==
    \/ Change /\ UNCHANGED <<drafts, request>>
    \/ \E self \in Viewer, peer \in User, blank \in BOOLEAN :
            messagesSaveDraft(self, peer, blank)
    \/ \E self \in Viewer : Ask(self)
    \/ messagesGetHistory \/ messagesGetSavedHistory \/ readDialogs \/ readDrafts
    \/ readState \/ readTop

MailboxSpec == MailboxInit /\ [][MailboxNext]_vars

-----------------------------------------------------------------------------
(* Properties *)

answered(method) == request.method \in method /\ request.pc = "done"

\* A client that pages through a conversation sees no message twice, none of another
\* conversation, and every message that was there when it began and has not been
\* deleted since, whatever is sent and deleted between two pages (OffsetID names a
\* message, not a count).
HistoryComplete ==
    LET r == request
        got == r.messages
    IN  r.method = "history" =>
        /\ \A k, l \in DOMAIN got : k < l => got[l] < got[k]
        /\ \A k \in DOMAIN got : peerOf(r.self, got[k]) = r.peers[1]
        /\ r.pc = "done" =>
              {i \in GetHistory(r.self, r.peers[1], 0) : i <= r.held} \subseteq Range(got)

\* An answer is whole although it is read in several calls: the dialog list has no peer
\* twice, and a conversation that had a message when the client asked, which still is
\* there, is listed or behind DialogsLimit others.  With a dialog comes a message of its
\* own at least as new as the ones it tells of, and no message comes without a dialog.
DialogsWhole ==
    LET r == request
        d == r.dialogs
    IN  answered({"dialogs", "peerDialogs"}) =>
        /\ r.method = "dialogs" =>
              /\ \A k, l \in DOMAIN d : d[k].peer = d[l].peer => k = l
              /\ \A i \in visible(r.self) :
                    \/ i > r.held
                    \/ \E k \in DOMAIN d : d[k].peer = peerOf(r.self, i)
                    \/ Cardinality({k \in DOMAIN d : d[k].top > i}) >= DialogsLimit
        /\ \A k \in DOMAIN d : (d[k].top # 0 \/ r.method = "peerDialogs") =>
              \A i \in GetHistory(r.self, d[k].peer, 0) :
                  i <= r.held \/ i <= d[k].top =>
                      \E j \in Range(r.messages) : j >= i /\ peerOf(r.self, j) = d[k].peer
        /\ \A i \in Range(r.messages) : \E k \in DOMAIN d : d[k].peer = peerOf(r.self, i)

\* u's log has an entry of this type and peer that covers local id i, at a pts up to p.
covered(u, type, peer, i, p) ==
    \E k \in DOMAIN updates[u] :
        LET e == updates[u][k]
        IN  e.type = type /\ e.peer = peer /\ e.maxID >= i /\ e.pts <= p

\* A dialog of an answer agrees with the update stream.  Of the messages still there,
\* its ticks show all the receipts the client may know of, and none that is not in the
\* stream; its unread count has every message that is still unread, and none that the
\* client knew to be read when it asked (GetDialogs' sums over references against
\* ReadHistory's log entries).  Except for a dialog of zeroes of an answer whose list was
\* cut: a peer is looked up only among the dialogs GetDialogs returned, and one behind
\* them is shown as if it had no messages (getPeerDialogs, and getDialogs for a draft).
ReadStateReal ==
    LET r == request IN
    answered({"dialogs", "peerDialogs"}) =>
        \A k \in DOMAIN r.dialogs :
            LET d == r.dialogs[k]
                ids == {i \in GetHistory(r.self, d.peer, 0) : i <= r.held}
                incoming == {i \in ids : ~refs[r.self][i].out}
                maybeUnread == {i \in DOMAIN refs[r.self] :
                    /\ ~refs[r.self][i].out /\ peerOf(r.self, i) = d.peer
                    /\ ~covered(r.self, "readinbox", d.peer, i, r.knew)}
            IN  d.peer # r.self /\ (d.top # 0 \/ ~r.cut) =>
                /\ \A i \in ids \ incoming :
                      /\ covered(r.self, "readoutbox", d.peer, i, r.knew)
                            => i <= d.readOutboxMaxID
                      /\ i <= d.readOutboxMaxID
                            => covered(r.self, "readoutbox", d.peer, i, pts[r.self])
                /\ Cardinality({i \in incoming : refs[r.self][i].unread}) <= d.unreadCount
                /\ d.unreadCount <= Cardinality(maybeUnread)
                /\ \A i \in incoming : i <= d.readInboxMaxID => ~refs[r.self][i].unread
=============================================================================
