--------------------------- MODULE UpdateDelivery ---------------------------
(***************************************************************************)
(* How an account's updates reach its clients: the request handlers of     *)
(* internal/rpc that commit to the store, push to the sessions tracked in  *)
(* the session registry and answer the caller, and updates.getDifference,  *)
(* by which a client that missed pushes catches up.                        *)
(*                                                                         *)
(* The store is what UpdateLog promises and MessageStore implements: an    *)
(* operation extends the logs of the accounts it touches.  Each request    *)
(* runs in the goroutine of its connection: the handlers interleave        *)
(* between the commit, each push and the answer.  The client is external   *)
(* and follows the rules docs/research/m4-updates.md writes down for it:   *)
(* it applies an update only if it starts at the client's own pts, and     *)
(* otherwise fetches the difference.                                       *)
(*                                                                         *)
(* Three things only observe: what of its own log a message gives a client *)
(* (have), the entries a difference leaves out although its state is past  *)
(* them (lost), and the positions a client reached by an update of another *)
(* account's log (foreign).                                                *)
(***************************************************************************)
EXTENDS Integers, Sequences, FiniteSets

CONSTANTS
    User,            \* the accounts
    Session,         \* the MTProto sessions of all clients
    owner,           \* owner[s]: the account session s is logged in to
    Writer,          \* the sessions whose clients write; the others only listen
    Flaky,           \* the sessions whose connections may break
    Handler,         \* goroutines serving a request: bounds those in progress
    Nobody,          \* no session, no handler
    DifferenceLimit, \* differenceLimit: most entries of one difference
    LookupMayFail,   \* whether the store may fail to look up a message (Postgres)
    MaxPts,          \* bound: updates per account
    MaxDelete        \* bound: ids in one deleteMessages request

ASSUME DeliveryAssumption ==
    /\ owner \in [Session -> User] /\ Writer \subseteq Session /\ Flaky \subseteq Session
    /\ Nobody \notin Session \cup Handler
    /\ LookupMayFail \in BOOLEAN
    /\ DifferenceLimit \in Nat \ {0} /\ MaxPts \in Nat /\ MaxDelete \in Nat

VARIABLES
    pts,      \* pts[u]: position of account u
    updates,  \* updates[u]: its log
    tracked,  \* sessionRegistry: sessions pushes go to
    conn,     \* sessions with a live connection in the mtproto registry
    wire,     \* wire[s]: what is on the way to the client of s, in order
    handler,  \* handler[h]: the request goroutine h works on
    client    \* client[s]: the client's own view (external)

vars == <<pts, updates, tracked, conn, wire, handler, client>>

Log == INSTANCE UpdateLog

Position == 0..MaxPts

\* A log entry: where it ends, what it counts, and whether it is about a message
\* (UpdateNew, UpdateEdit), which a difference then looks up.
Entry == [pts : Position, ptsCount : Position, message : BOOLEAN]

\* A push still to be made: to whom, and the pts and count the update carries, which
\* are positions in the log of the account stream.
QueuedPush == [to : User, stream : User, pts : Position, ptsCount : Position]

\* Mutant of Result: the pts of the answer is one too many.
Result_next(h, p, n) ==
    [kind |-> "update", pts |-> p + 1, ptsCount |-> n, entries |-> {p}, lost |-> {}, of |-> h]

\* An update as it is pushed, and the two kinds of answer.
Push(q) ==
    [kind |-> "update", pts |-> q.pts, ptsCount |-> q.ptsCount,
     entries |-> IF q.stream = q.to THEN {q.pts} ELSE {}, lost |-> {}, of |-> Nobody]
Result(h, p, n) ==
    [kind |-> "update", pts |-> p, ptsCount |-> n, entries |-> {p}, lost |-> {}, of |-> h]
Difference(h, p, E, L) ==
    [kind |-> "difference", pts |-> p, ptsCount |-> 0, entries |-> E, lost |-> L, of |-> h]

WireMessage == [kind : {"update", "difference"}, pts : Position, ptsCount : Position,
                entries : SUBSET Position, lost : SUBSET Position, of : Handler \cup {Nobody}]

IdleHandler == [state |-> "idle", session |-> Nobody, queue |-> <<>>, targets |-> {},
                failed |-> Nobody, since |-> 0, reply |-> Difference(Nobody, 0, {}, {})]

HandlerState == [state : {"idle", "reading", "ready", "pushing"},
                 session : Session \cup {Nobody}, queue : Seq(QueuedPush),
                 targets : SUBSET Session, failed : Session \cup {Nobody},
                 since : Position, reply : WireMessage]

ClientState == [pts : Position, have : SUBSET Position, lost : SUBSET Position,
                foreign : SUBSET Position, fetching : BOOLEAN, wait : Handler \cup {Nobody}]

-----------------------------------------------------------------------------
(* The store, through the eyes of UpdateLog *)

\* One transaction extends the log of every account of n's domain by an entry
\* that counts n[u], about a message or not.
Commit(n, message) ==
    /\ \A u \in DOMAIN n : pts[u] + n[u] <= MaxPts
    /\ pts' = [u \in User |-> IF u \in DOMAIN n THEN pts[u] + n[u] ELSE pts[u]]
    /\ updates' = [u \in User |->
            IF u \in DOMAIN n
            THEN Append(updates[u],
                        [pts |-> pts[u] + n[u], ptsCount |-> n[u], message |-> message])
            ELSE updates[u]]

\* The entries after a position, and those of them that come too late for the limit.
later(u, since) == {k \in DOMAIN updates[u] : updates[u][k].pts > since}
beyondLimit(u, since) ==
    {j \in later(u, since) :
        Cardinality({i \in later(u, since) : i <= j}) > DifferenceLimit}

\* Mutant of entriesSince: the first entry the client lacks is left out.
entriesSince_later(u, since) == later(u, since + 1) \ beyondLimit(u, since + 1)

\* The entries GetDifference returns: the first limit ones after since.
entriesSince(u, since) == later(u, since) \ beyondLimit(u, since)

\* The positions at which entries of an account's log end.
endsAt(u, K) == {updates[u][k].pts : k \in K}

-----------------------------------------------------------------------------
(* Requests.  OnMessage tracks the session first, then dispatches. *)

\* The client of s, idle and connected, sends a request that handler h takes.  The
\* message id stands for the request: none of an earlier one is still on the wire.
Begin(h, s) ==
    /\ handler[h].state = "idle"
    /\ s \in conn
    /\ client[s].wait = Nobody
    /\ \A t \in Session : \A k \in DOMAIN wire[t] : wire[t][k].of # h
    /\ tracked' = tracked \cup {s}

Working(h, s, queue, reply) ==
    handler' = [handler EXCEPT ![h] =
        [IdleHandler EXCEPT !.state = "ready", !.session = s, !.queue = queue, !.reply = reply]]

Await(h, s) == client' = [client EXCEPT ![s].wait = h]

\* messages.sendMessage: the recipient is pushed to, unless it is the caller.
messagesSendMessage(h, s, peer) ==
    LET self == owner[s] IN
    /\ Begin(h, s)
    /\ Commit([u \in {self, peer} |-> 1], TRUE)
    /\ Working(h, s,
               IF peer = self THEN <<>>
               ELSE <<[to |-> peer, stream |-> peer, pts |-> pts'[peer], ptsCount |-> 1]>>,
               Result(h, pts'[self], 1))
    /\ Await(h, s)
    /\ UNCHANGED <<conn, wire>>

\* messages.editMessage: the push goes to the peer the request names, with the pts
\* of the peer the message was sent to.
messagesEditMessage(h, s, peer, named) ==
    LET self == owner[s] IN
    /\ Begin(h, s)
    /\ Commit([u \in {self, peer} |-> 1], TRUE)
    /\ Working(h, s,
               IF peer = self THEN <<>>
               ELSE <<[to |-> named, stream |-> peer, pts |-> pts'[peer], ptsCount |-> 1]>>,
               Result(h, pts'[self], 1))
    /\ Await(h, s)
    /\ UNCHANGED <<conn, wire>>

\* messages.readHistory: the caller's own sessions are pushed to, then the peer if
\* the read covers any message of theirs.
messagesReadHistory(h, s, peer, acked) ==
    LET self == owner[s] IN
    /\ acked => peer # self
    /\ Begin(h, s)
    /\ Commit([u \in {self} \cup (IF acked THEN {peer} ELSE {}) |-> 1], FALSE)
    /\ Working(h, s,
               <<[to |-> self, stream |-> self, pts |-> pts'[self], ptsCount |-> 1]>>
                 \o (IF acked
                     THEN <<[to |-> peer, stream |-> peer, pts |-> pts'[peer], ptsCount |-> 1]>>
                     ELSE <<>>),
               Result(h, pts'[self], 1))
    /\ Await(h, s)
    /\ UNCHANGED <<conn, wire>>

\* messages.deleteMessages of n messages: nobody is pushed to, and when no id is
\* found the log is not touched and the answer says pts 0.
messagesDeleteMessages(h, s, n) ==
    LET self == owner[s] IN
    /\ Begin(h, s)
    /\ \/ /\ n = 0
          /\ Working(h, s, <<>>, Result(h, 0, 0))
          /\ UNCHANGED <<pts, updates>>
       \/ /\ n > 0
          /\ Commit([u \in {self} |-> n], FALSE)
          /\ Working(h, s, <<>>, Result(h, pts'[self], n))
    /\ Await(h, s)
    /\ UNCHANGED <<conn, wire>>

\* Mutant of differenceReply: the request's pts is the new state.
differenceReply_since(h, u, since, current, failed) ==
    Difference(h, since, endsAt(u, entriesSince(u, since)), {})

\* The answer of updates.getDifference.  No entry: differenceEmpty, the client keeps
\* its pts.  Otherwise the account's pts is the new state, although the entries beyond
\* the limit, and those whose message messageByGlobal did not find, are left out.
differenceReply(h, u, since, current, failed) ==
    LET K == entriesSince(u, since)
        at == IF K = {} THEN since ELSE current
    IN  Difference(h, at, endsAt(u, K \ failed),
                   endsAt(u, failed \cup beyondLimit(u, since)) \cap 0..at)

\* The entries whose message may not be found: messageByGlobal takes an error of the
\* store for a missing message.
failures(u, since) ==
    IF LookupMayFail THEN SUBSET {k \in entriesSince(u, since) : updates[u][k].message} ELSE {{}}

\* updates.getDifference: the Postgres store reads the account's pts first.  (The
\* memory store reads both under one lock: nothing happens between the two reads.)
updatesGetDifference(h, s) ==
    /\ Begin(h, s)
    /\ handler' = [handler EXCEPT ![h] =
            [IdleHandler EXCEPT !.state = "reading", !.session = s, !.since = client[s].pts,
                                !.reply = Difference(h, pts[owner[s]], {}, {})]]
    /\ client' = [client EXCEPT ![s].wait = h, ![s].fetching = TRUE]
    /\ UNCHANGED <<pts, updates, conn, wire>>

\* The second statement, the entries, and the look-up of their messages.
readEntries(h) ==
    /\ handler[h].state = "reading"
    /\ \E failed \in failures(owner[handler[h].session], handler[h].since) :
          handler' = [handler EXCEPT
            ![h].state = "ready",
            ![h].reply = differenceReply(h, owner[handler[h].session], handler[h].since,
                                         handler[h].reply.pts, failed)]
    /\ UNCHANGED <<pts, updates, tracked, conn, wire, client>>

-----------------------------------------------------------------------------
(* push, and the answer *)

\* The handler after push has dealt with all but the sessions in rest: the next push
\* of its queue, if any, starts when rest is empty and no untrack is due.
pushed(h, rest, failed) ==
    LET done == rest = {} /\ failed = Nobody
    IN  handler' = [handler EXCEPT
            ![h].state = IF done THEN "ready" ELSE "pushing",
            ![h].queue = IF done THEN Tail(@) ELSE @,
            ![h].targets = rest,
            ![h].failed = failed]

\* Mutant of sessionsOf: everybody's.
sessionsOf_any(u) == tracked

\* sessionRegistry.get: the sessions registered for an account.
sessionsOf(u) == {t \in tracked : owner[t] = u}

\* push takes the registry's sessions of the account, once.
pushBegin(h) ==
    /\ handler[h].state = "ready" /\ handler[h].queue # <<>>
    /\ pushed(h, sessionsOf(Head(handler[h].queue).to), Nobody)
    /\ UNCHANGED <<pts, updates, tracked, conn, wire, client>>

\* Send to one of them: fails when the session has no live connection, and may fail or
\* time out on a live one.
pushSend(h, t, ok) ==
    /\ handler[h].state = "pushing" /\ handler[h].failed = Nobody
    /\ t \in handler[h].targets
    /\ IF ok THEN t \in conn ELSE t \notin conn \/ t \in Flaky
    /\ wire' = IF ok THEN [wire EXCEPT ![t] = Append(@, Push(Head(handler[h].queue)))] ELSE wire
    /\ pushed(h, handler[h].targets \ {t}, IF ok THEN Nobody ELSE t)
    /\ UNCHANGED <<pts, updates, tracked, conn, client>>

\* After a failed Send the session is dropped from the registry.
untrack(h) ==
    /\ handler[h].failed # Nobody
    /\ tracked' = tracked \ {handler[h].failed}
    /\ pushed(h, handler[h].targets, Nobody)
    /\ UNCHANGED <<pts, updates, conn, wire, client>>

\* SendResult, to the connection the session has by now; lost without one.
SendResult(h) ==
    /\ handler[h].state = "ready" /\ handler[h].queue = <<>>
    /\ LET s == handler[h].session
       IN  wire' = IF s \in conn THEN [wire EXCEPT ![s] = Append(@, handler[h].reply)] ELSE wire
    /\ handler' = [handler EXCEPT ![h] = IdleHandler]
    /\ UNCHANGED <<pts, updates, tracked, conn, client>>

-----------------------------------------------------------------------------
(* Connections and the client (external) *)

\* The connection breaks: what was on the wire is lost, and so is the answer the
\* client waits for.  The registry of sessions is not told.
Disconnect(s) ==
    /\ s \in conn
    /\ conn' = conn \ {s}
    /\ wire' = [wire EXCEPT ![s] = <<>>]
    /\ client' = [client EXCEPT ![s].wait = Nobody, ![s].fetching = FALSE]
    /\ UNCHANGED <<pts, updates, tracked, handler>>

\* The client connects again under the same session id.
Connect(s) ==
    /\ s \notin conn
    /\ conn' = conn \cup {s}
    /\ UNCHANGED <<pts, updates, tracked, wire, handler, client>>

\* An update is applied only if it starts at the client's pts and no difference is
\* being fetched, and nobody waits any more for the answer to an earlier request; the
\* client fetches the difference of what it leaves aside, whenever it likes.
ApplyUpdate(s, m) ==
    LET c == client[s]
        wanted == m.of \in {Nobody, c.wait}
        apply == wanted /\ ~c.fetching /\ m.ptsCount > 0 /\ m.pts = c.pts + m.ptsCount
    IN  client' = [client EXCEPT
            ![s].pts = IF apply THEN m.pts ELSE @,
            ![s].have = IF apply THEN @ \cup m.entries ELSE @,
            ![s].foreign = IF apply THEN @ \cup ({m.pts} \ m.entries) ELSE @,
            ![s].wait = IF m.of = @ THEN Nobody ELSE @]

\* A difference the client awaits: it takes the entries and adopts the state.
ApplyDifference(s, m) ==
    IF m.of = client[s].wait
    THEN client' = [client EXCEPT ![s].pts = m.pts, ![s].have = @ \cup m.entries,
                                  ![s].lost = @ \cup m.lost, ![s].wait = Nobody,
                                  ![s].fetching = FALSE]
    ELSE UNCHANGED client

Receive(s) ==
    /\ wire[s] # <<>>
    /\ LET m == Head(wire[s])
       IN  IF m.kind = "update" THEN ApplyUpdate(s, m) ELSE ApplyDifference(s, m)
    /\ wire' = [wire EXCEPT ![s] = Tail(@)]
    /\ UNCHANGED <<pts, updates, tracked, conn, handler>>

-----------------------------------------------------------------------------
Init ==
    /\ Log!Init
    /\ tracked = {} /\ conn = {}
    /\ wire = [s \in Session |-> <<>>]
    /\ handler = [h \in Handler |-> IdleHandler]
    /\ client = [s \in Session |-> [pts |-> 0, have |-> {}, lost |-> {}, foreign |-> {},
                                     fetching |-> FALSE, wait |-> Nobody]]

\* A handler's own steps, from the commit to the answer.
HandlerStep(h) ==
    \/ readEntries(h)
    \/ pushBegin(h)
    \/ \E t \in Session, ok \in BOOLEAN : pushSend(h, t, ok)
    \/ untrack(h)
    \/ SendResult(h)

Write(h, s) ==
    \/ \E peer \in User : messagesSendMessage(h, s, peer)
    \/ \E peer, named \in User : messagesEditMessage(h, s, peer, named)
    \/ \E peer \in User, acked \in BOOLEAN : messagesReadHistory(h, s, peer, acked)
    \/ \E n \in 0..MaxDelete : messagesDeleteMessages(h, s, n)

Next ==
    \/ \E h \in Handler, s \in Writer : Write(h, s)
    \/ \E h \in Handler, s \in Session : updatesGetDifference(h, s)
    \/ \E h \in Handler : HandlerStep(h)
    \/ \E s \in Flaky : Disconnect(s)
    \/ \E s \in Session : Connect(s)
    \/ \E s \in Session : Receive(s)

Spec == Init /\ [][Next]_vars

\* Handlers run to their answer (every Send has a write timeout), the network
\* delivers, and a connected client refetches sooner or later: the client's gap and
\* idle timers.  Nobody is obliged to write, to connect or to disconnect.
Fairness ==
    /\ \A h \in Handler : WF_vars(HandlerStep(h))
    /\ \A s \in Session : WF_vars(Receive(s))
    /\ \A s \in Session : SF_vars(\E h \in Handler : updatesGetDifference(h, s))

FairSpec == Spec /\ Fairness

-----------------------------------------------------------------------------
(* Properties *)

\* Every variable holds values of its type.
TypeOK ==
    /\ pts \in [User -> Position]
    /\ updates \in [User -> Seq(Entry)]
    /\ tracked \subseteq Session /\ conn \subseteq Session
    /\ wire \in [Session -> Seq(WireMessage)]
    /\ handler \in [Handler -> HandlerState]
    /\ client \in [Session -> ClientState]

\* The positions at which the entries of an account's log end.
ends(u) == endsAt(u, DOMAIN updates[u])

\* What a client misses of its log up to its own pts is only what the server let it
\* pass over: entries a difference left out behind its limit or because a look-up
\* failed, and positions it reached by another account's update.  Whatever pushes were
\* lost, late or out of order, nothing else is missed.
MissesExplained ==
    \A s \in Session : \A p \in ends(owner[s]) :
        p <= client[s].pts =>
            p \in client[s].have \cup client[s].lost \cup client[s].foreign

\* A client misses nothing it believes it has: it holds every entry of its account's
\* log up to its own pts (but for what another account's update hides, see
\* PushesOwnStream).  With a difference cut at DifferenceLimit the code does not keep
\* this.
NoMissedUpdate ==
    \A s \in Session : \A p \in ends(owner[s]) :
        p <= client[s].pts => p \in client[s].have \cup client[s].foreign

\* A client is never between two entries nor ahead of the server, unless another
\* account's update brought it there, and takes nothing for an entry of its log that
\* is none: pushed, answered and fetched positions are one stream.
ClientInStep ==
    \A s \in Session :
        /\ client[s].pts \in ends(owner[s]) \cup {0} \cup client[s].foreign
        /\ client[s].have \subseteq ends(owner[s])

\* What is pushed to a session is an entry of its own account's log, with that
\* entry's pts and count.  messages.editMessage takes the push's receiver from the
\* request and its pts from the store, and does not keep this.
PushesOwnStream ==
    \A s \in Session : \A k \in DOMAIN wire[s] :
        (wire[s][k].kind = "update" /\ wire[s][k].of = Nobody) =>
            \E i \in DOMAIN updates[owner[s]] :
                /\ updates[owner[s]][i].pts = wire[s][k].pts
                /\ updates[owner[s]][i].ptsCount = wire[s][k].ptsCount

\* A client that stays connected does not stay behind its account: it catches up
\* infinitely often, although deletions are never pushed and a push may go to nobody.
EventuallyInSync ==
    \A s \in Session : []<>(s \in conn => client[s].pts >= pts[owner[s]])
=============================================================================
