----------------------- MODULE UpdateDelivery_proofs -----------------------
(***************************************************************************)
(* Proofs about UpdateDelivery, for any number of accounts, sessions and   *)
(* goroutines: clients that apply an update only where it fits, and fetch  *)
(* the difference otherwise, miss nothing but what a difference left out   *)
(* or another account's update hides.                                      *)
(***************************************************************************)
EXTENDS UpdateDelivery, FiniteSetTheorems, TLAPS

-----------------------------------------------------------------------------
(* The inductive invariant *)

\* A log has an entry that ends at p and counts n; the positions its entries end at.
isEntry(log, p, n) == \E k \in DOMAIN log : log[k].pts = p /\ log[k].ptsCount = n
endsOf(log) == {log[k].pts : k \in DOMAIN log}

\* A log that ends at p, in which no entry ends inside another.
logOK(log, p) ==
    /\ log \in Seq(Entry) /\ p \in Position /\ Len(log) <= p
    /\ p \in endsOf(log) \cup {0}
    /\ \A q \in endsOf(log) : q <= p
    /\ \A k \in DOMAIN log :
          /\ log[k].ptsCount > 0 /\ log[k].pts > 0
          /\ \A q \in endsOf(log) : q <= log[k].pts - log[k].ptsCount \/ q >= log[k].pts

\* What a log that ended at p has become since.
grown(log, p, next) ==
    /\ \A k \in DOMAIN log : k \in DOMAIN next /\ next[k] = log[k]
    /\ \A q \in endsOf(next) : q \in endsOf(log) \/ q > p

\* What a client knows of, rightly or wrongly, and a client that knows at least that.
seen(c) == c.have \cup c.lost \cup c.foreign
knowsMore(c, d) == c.have \subseteq d.have /\ c.lost \subseteq d.lost /\ c.foreign \subseteq d.foreign

\* Up to position at, of a log that ends at p, everything known but insides of entries.
passed(log, p, known, at) == \A q \in 1..at : q \in known \/ (q <= p /\ q \notin endsOf(log))

\* What client c of a log that ends at p may be told: an entry, that nothing was done,
\* an update of another log, or a state and the entries it lacks up to there.
updateOK(log, m) ==
    \/ isEntry(log, m.pts, m.ptsCount) /\ m.entries = {m.pts}
    \/ m.of # Nobody /\ m.ptsCount = 0
    \/ m.ptsCount = 1 /\ m.entries = {}

differenceOK(log, p, c, m) ==
    /\ m.pts \in endsOf(log) \cup {0} \cup c.foreign /\ m.entries \subseteq endsOf(log)
    /\ passed(log, p, seen(c) \cup m.entries \cup m.lost, m.pts)

messageOK(log, p, c, m) ==
    /\ m.kind = "update" => updateOK(log, m)
    /\ m.kind = "difference" => differenceOK(log, p, c, m)

\* Client c, if at position at, holds exactly entries of its log, and knows all up to
\* there.
clientOK(log, p, at, c) ==
    /\ at \in endsOf(log) \cup {0} \cup c.foreign /\ c.have \subseteq endsOf(log)
    /\ passed(log, p, seen(c), at)

\* A queued push is of an entry of its receiver's log, or of another log.
queuedOK(logs, q) ==
    \/ q.stream = q.to /\ isEntry(logs[q.to], q.pts, q.ptsCount)
    \/ q.stream # q.to /\ q.ptsCount = 1

\* What a goroutine pushes is so, and it will answer what its client may be told;
\* reads of a difference are complete up to where they began.
handlerOK(r, logs, at, clients) ==
    /\ r.failed # Nobody \/ r.targets # {} => r.state = "pushing"
    /\ r.state # "idle" => r.session \in Session
    /\ r.state = "pushing" =>
          r.queue # <<>> /\ \A t \in r.targets : owner[t] = r.queue[1].to
    /\ \A k \in DOMAIN r.queue : queuedOK(logs, r.queue[k])
    /\ r.state \in {"ready", "pushing"} =>
          messageOK(logs[owner[r.session]], at[owner[r.session]], clients[r.session], r.reply)
    /\ r.state = "reading" =>
          /\ r.reply.pts \in endsOf(logs[owner[r.session]]) \cup {0}
          /\ clientOK(logs[owner[r.session]], at[owner[r.session]], r.since, clients[r.session])

Inv ==
    /\ TypeOK
    /\ \A u \in User : logOK(updates[u], pts[u])
    /\ \A s \in Session : clientOK(updates[owner[s]], pts[owner[s]], client[s].pts, client[s])
    /\ \A s \in Session : \A k \in DOMAIN wire[s] :
          messageOK(updates[owner[s]], pts[owner[s]], client[s], wire[s][k])
    /\ \A h \in Handler : handlerOK(handler[h], updates, pts, client)

\* The constants' types.
LEMMA Constants ==
    /\ owner \in [Session -> User] /\ Writer \subseteq Session /\ Flaky \subseteq Session
    /\ Nobody \notin Session /\ Nobody \notin Handler
    /\ MaxPts \in Nat /\ MaxDelete \in Nat /\ Position = 0..MaxPts /\ 0 \in Position
  BY DeliveryAssumption DEF Position

\* The positions of a log are natural numbers.
LEMMA EndsNat ==
    ASSUME NEW log, NEW p, logOK(log, p)
    PROVE  endsOf(log) \subseteq Position /\ p \in Nat /\ \A q \in endsOf(log) : q \in Nat
<1>1. \A k \in DOMAIN log : log[k] \in Entry
  BY DEF logOK
<1> QED BY <1>1, Constants DEF logOK, endsOf, Entry

-----------------------------------------------------------------------------
(* Logs grow *)

\* A log that stays as it is.
LEMMA GrownRefl ==
    ASSUME NEW log, NEW p
    PROVE  grown(log, p, log)
  BY DEF grown

\* What was passed stays passed, as a log grows and a client learns.
LEMMA PassedGrows ==
    ASSUME NEW log, NEW p, NEW longer, NEW z, logOK(log, p), logOK(longer, z), grown(log, p, longer),
           NEW known, NEW more, known \subseteq more, NEW at \in Nat, passed(log, p, known, at)
    PROVE  passed(longer, z, more, at) /\ endsOf(log) \subseteq endsOf(longer)
<1>1. /\ p \in Nat /\ z \in Nat /\ (\A q \in endsOf(log) : q \in Nat /\ q <= p)
      /\ \A q \in endsOf(longer) : q \in Nat /\ q <= z
  BY EndsNat DEF logOK
<1>2. endsOf(log) \subseteq endsOf(longer)
  BY DEF grown, endsOf
<1>3. p <= z
  BY <1>1, <1>2 DEF logOK
<1>4. \A q \in endsOf(longer) : q \in endsOf(log) \/ q > p
  BY DEF grown
<1>5. \A q \in 1..at : q <= p /\ q \notin endsOf(log) => q <= z /\ q \notin endsOf(longer)
  BY <1>1, <1>3, <1>4
<1> QED BY <1>2, <1>5 DEF passed

\* What is true of a message stays true.
LEMMA MessageGrows ==
    ASSUME NEW log, NEW p, NEW longer, NEW z, logOK(log, p), logOK(longer, z), grown(log, p, longer),
           NEW c, NEW d, knowsMore(c, d), NEW m \in WireMessage, messageOK(log, p, c, m)
    PROVE  messageOK(longer, z, d, m)
<1>1. \A x, n : isEntry(log, x, n) => isEntry(longer, x, n)
  BY DEF grown, isEntry
<1>2. m.kind = "update" => updateOK(longer, m)
  BY <1>1 DEF messageOK, updateOK
<1>3. ASSUME m.kind = "difference"
      PROVE  differenceOK(longer, z, d, m)
  <2> DEFINE known == seen(c) \cup m.entries \cup m.lost
             more == seen(d) \cup m.entries \cup m.lost
  <2>1. /\ m.pts \in endsOf(log) \cup {0} \cup c.foreign /\ m.entries \subseteq endsOf(log)
        /\ passed(log, p, known, m.pts)
    BY <1>3 DEF messageOK, differenceOK
  <2>2. PICK at \in Nat : at = m.pts
    BY Constants DEF WireMessage
  <2>3. known \subseteq more /\ c.foreign \subseteq d.foreign
    BY DEF knowsMore, seen
  <2> HIDE DEF known, more
  <2>4. passed(longer, z, more, at) /\ endsOf(log) \subseteq endsOf(longer)
    BY <2>1, <2>2, <2>3, PassedGrows
  <2> QED BY <2>1, <2>2, <2>3, <2>4 DEF differenceOK, more
<1> QED BY <1>2, <1>3 DEF messageOK

\* What is true of a client stays true, if it takes nothing for an entry that is none.
LEMMA ClientGrows ==
    ASSUME NEW log, NEW p, NEW longer, NEW z, logOK(log, p), logOK(longer, z), grown(log, p, longer),
           NEW c, NEW d, knowsMore(c, d), d.have \subseteq endsOf(longer),
           NEW at \in Nat, clientOK(log, p, at, c)
    PROVE  clientOK(longer, z, at, d)
<1>1. /\ at \in endsOf(log) \cup {0} \cup c.foreign /\ passed(log, p, seen(c), at)
  BY DEF clientOK
<1>2. seen(c) \subseteq seen(d) /\ c.foreign \subseteq d.foreign
  BY DEF knowsMore, seen
<1>3. passed(longer, z, seen(d), at) /\ endsOf(log) \subseteq endsOf(longer)
  BY <1>1, <1>2, PassedGrows
<1> QED BY <1>1, <1>2, <1>3 DEF clientOK

\* Pushes that are queued stay fine.
LEMMA QueuedGrows ==
    ASSUME Inv, NEW r \in HandlerState, handlerOK(r, updates, pts, client),
           \A u \in User : grown(updates[u], pts[u], updates'[u])
    PROVE  \A k \in DOMAIN r.queue : queuedOK(updates', r.queue[k])
<1>1. r.queue \in Seq(QueuedPush)
  BY DEF HandlerState
<1>2. \A k \in DOMAIN r.queue : r.queue[k] \in QueuedPush
  BY <1>1
<1>3. \A k \in DOMAIN r.queue : r.queue[k].to \in User
  BY <1>2 DEF QueuedPush
<1> QED BY <1>3 DEF handlerOK, queuedOK, grown, isEntry

\* What is true of a goroutine stays true.
LEMMA HandlerGrows ==
    ASSUME Inv, NEW r \in HandlerState, handlerOK(r, updates, pts, client),
           \A u \in User : logOK(updates'[u], pts'[u]) /\ grown(updates[u], pts[u], updates'[u]),
           \A s \in Session : /\ knowsMore(client[s], client'[s])
                               /\ client'[s].have \subseteq endsOf(updates'[owner[s]])
    PROVE  handlerOK(r, updates', pts', client')
<1>1. \A u \in User : logOK(updates[u], pts[u])
  BY DEF Inv
<1>2. r.reply \in WireMessage /\ r.since \in Nat
  BY Constants DEF HandlerState
<1>3. \A k \in DOMAIN r.queue : queuedOK(updates', r.queue[k])
  BY QueuedGrows
<1>4. ASSUME r.state \in {"ready", "pushing"}
      PROVE  messageOK(updates'[owner[r.session]], pts'[owner[r.session]], client'[r.session], r.reply)
  <2>1. r.session \in Session /\ owner[r.session] \in User
    BY <1>4, Constants DEF handlerOK
  <2>2. messageOK(updates[owner[r.session]], pts[owner[r.session]], client[r.session], r.reply)
    BY <1>4 DEF handlerOK
  <2> QED BY <1>1, <1>2, <2>1, <2>2, MessageGrows
<1>5. ASSUME r.state = "reading"
      PROVE  /\ r.reply.pts \in endsOf(updates'[owner[r.session]]) \cup {0}
             /\ clientOK(updates'[owner[r.session]], pts'[owner[r.session]], r.since, client'[r.session])
  <2>1. r.session \in Session /\ owner[r.session] \in User
    BY <1>5, Constants DEF handlerOK
  <2>2. endsOf(updates[owner[r.session]]) \subseteq endsOf(updates'[owner[r.session]])
    BY <2>1 DEF grown, endsOf
  <2>3. /\ r.reply.pts \in endsOf(updates[owner[r.session]]) \cup {0}
        /\ clientOK(updates[owner[r.session]], pts[owner[r.session]], r.since, client[r.session])
    BY <1>5 DEF handlerOK
  <2> QED BY <1>1, <1>2, <2>1, <2>2, <2>3, ClientGrows
<1> QED BY <1>3, <1>4, <1>5 DEF handlerOK

\* A client that knows what it knew, at the position where it was.
sameView(c, d) == d.pts = c.pts /\ d.have = c.have /\ d.lost = c.lost /\ d.foreign = c.foreign

\* A step of goroutine h after which it is at r, the logs have grown, the clients have
\* what they had, and a message may be on its way.
LEMMA StepKeeps ==
    ASSUME Inv, NEW h \in Handler, NEW r \in HandlerState, handler' = [handler EXCEPT ![h] = r],
           tracked' \subseteq Session, conn' = conn,
           pts' \in [User -> Position], updates' \in [User -> Seq(Entry)],
           \A u \in User : logOK(updates'[u], pts'[u]) /\ grown(updates[u], pts[u], updates'[u]),
           client' \in [Session -> ClientState],
           \A s \in Session : sameView(client[s], client'[s]),
           handlerOK(r, updates', pts', client'),
           NEW t \in Session, NEW m \in WireMessage,
           \/ wire' = wire
           \/ /\ wire' = [wire EXCEPT ![t] = Append(wire[t], m)]
              /\ messageOK(updates[owner[t]], pts[owner[t]], client[t], m)
    PROVE  Inv'
<1>1. /\ handler \in [Handler -> HandlerState] /\ wire \in [Session -> Seq(WireMessage)]
      /\ conn \subseteq Session /\ client \in [Session -> ClientState]
  BY DEF Inv, TypeOK
<1>2. wire' \in [Session -> Seq(WireMessage)]
  <2>1. wire[t] \in Seq(WireMessage)
    BY <1>1
  <2>2. Append(wire[t], m) \in Seq(WireMessage)
    BY <2>1
  <2> QED BY <1>1, <2>2
<1>3. TypeOK'
  BY <1>1, <1>2 DEF TypeOK
<1>4. ASSUME NEW s \in Session
      PROVE  /\ knowsMore(client[s], client'[s]) /\ owner[s] \in User
             /\ client[s].pts \in Nat /\ client'[s].pts = client[s].pts
             /\ client'[s].have \subseteq endsOf(updates'[owner[s]])
  <2>1. owner[s] \in User /\ client[s] \in ClientState
    BY <1>1, Constants
  <2>2. client[s].have \subseteq endsOf(updates[owner[s]])
    BY DEF Inv, clientOK
  <2>3. endsOf(updates[owner[s]]) \subseteq endsOf(updates'[owner[s]])
    BY <2>1 DEF grown, endsOf
  <2> QED BY <2>1, <2>2, <2>3, Constants DEF sameView, knowsMore, ClientState
<1>5. ASSUME NEW s \in Session
      PROVE  clientOK(updates'[owner[s]], pts'[owner[s]], client'[s].pts, client'[s])
  <2>1. clientOK(updates[owner[s]], pts[owner[s]], client[s].pts, client[s])
    BY DEF Inv
  <2>2. /\ logOK(updates[owner[s]], pts[owner[s]]) /\ logOK(updates'[owner[s]], pts'[owner[s]])
        /\ grown(updates[owner[s]], pts[owner[s]], updates'[owner[s]])
    BY <1>4 DEF Inv
  <2>3. PICK at \in Nat : at = client[s].pts
    BY <1>4
  <2>4. clientOK(updates'[owner[s]], pts'[owner[s]], at, client'[s])
    BY <1>4, <2>1, <2>2, <2>3, ClientGrows
  <2> QED BY <1>4, <2>3, <2>4
<1>6. ASSUME NEW s \in Session, NEW k \in DOMAIN wire'[s]
      PROVE  messageOK(updates'[owner[s]], pts'[owner[s]], client'[s], wire'[s][k])
  <2>1. logOK(updates[owner[s]], pts[owner[s]])
    BY <1>4 DEF Inv
  <2>2. messageOK(updates[owner[s]], pts[owner[s]], client[s], wire'[s][k])
    <3>1. CASE wire' = wire
      BY <1>6, <3>1 DEF Inv
    <3>2. CASE /\ wire' = [wire EXCEPT ![t] = Append(wire[t], m)]
               /\ messageOK(updates[owner[t]], pts[owner[t]], client[t], m)
      <4>1. CASE s # t
        BY <1>1, <1>6, <3>2, <4>1 DEF Inv
      <4>2. CASE s = t
        <5>1. wire'[s] = Append(wire[s], m) /\ wire[s] \in Seq(WireMessage)
          BY <1>1, <3>2, <4>2
        <5>2. wire'[s][k] = m \/ (k \in DOMAIN wire[s] /\ wire'[s][k] = wire[s][k])
          BY <1>6, <5>1
        <5> QED BY <3>2, <4>2, <5>2 DEF Inv
      <4> QED BY <4>1, <4>2
    <3> QED BY <3>1, <3>2
  <2>3. wire'[s][k] \in WireMessage
    <3>1. wire'[s] \in Seq(WireMessage)
      BY <1>2
    <3> QED BY <1>6, <3>1
  <2> QED BY <1>4, <2>1, <2>2, <2>3, MessageGrows
<1>7. ASSUME NEW g \in Handler
      PROVE  handlerOK(handler'[g], updates', pts', client')
  <2>1. CASE g = h
    BY <1>1, <2>1
  <2>2. CASE g # h
    <3>1. handler'[g] = handler[g] /\ handler[g] \in HandlerState
      BY <1>1, <2>2
    <3>2. handlerOK(handler[g], updates, pts, client)
      BY DEF Inv
    <3> QED BY <1>4, <3>1, <3>2, HandlerGrows
  <2> QED BY <2>1, <2>2
<1> QED BY <1>3, <1>5, <1>6, <1>7 DEF Inv

-----------------------------------------------------------------------------
(* Requests *)

\* An entry more, at the end.
LEMMA AppendOK ==
    ASSUME NEW log, NEW p, logOK(log, p), NEW n \in Nat \ {0}, p + n <= MaxPts,
           NEW message \in BOOLEAN
    PROVE  LET longer == Append(log, [pts |-> p + n, ptsCount |-> n, message |-> message])
           IN  /\ longer \in Seq(Entry) /\ p + n \in Position
               /\ logOK(longer, p + n) /\ grown(log, p, longer) /\ isEntry(longer, p + n, n)
<1> DEFINE e == [pts |-> p + n, ptsCount |-> n, message |-> message]
           longer == Append(log, e)
           L == Len(log)
<1>1. /\ log \in Seq(Entry) /\ p \in Nat /\ endsOf(log) \subseteq Position
      /\ (\A q \in endsOf(log) : q \in Nat /\ q <= p) /\ L \in Nat /\ L <= p
      /\ DOMAIN log = 1..L
  BY EndsNat DEF logOK
<1>2. p + n \in Position /\ n \in Position
  BY <1>1, Constants
<1>3. e \in Entry /\ e.pts = p + n /\ e.ptsCount = n
  BY <1>2 DEF Entry
<1> HIDE DEF e
<1>4. /\ longer \in Seq(Entry) /\ Len(longer) = L + 1 /\ DOMAIN longer = 1..(L + 1)
      /\ longer[L + 1] = e /\ \A k \in 1..L : longer[k] = log[k]
  BY <1>1, <1>3
<1> HIDE DEF longer
<1>5. endsOf(longer) = endsOf(log) \cup {p + n}
  <2>1. ASSUME NEW q \in endsOf(longer)
        PROVE  q \in endsOf(log) \cup {p + n}
    <3>1. PICK k \in 1..(L + 1) : q = longer[k].pts
      BY <1>4 DEF endsOf
    <3>2. CASE k = L + 1
      BY <1>3, <1>4, <3>1, <3>2
    <3>3. CASE k \in 1..L
      BY <1>1, <1>4, <3>1, <3>3 DEF endsOf
    <3> QED BY <1>1, <3>2, <3>3
  <2>2. p + n \in endsOf(longer)
    BY <1>1, <1>3, <1>4 DEF endsOf
  <2>3. endsOf(log) \subseteq endsOf(longer)
    BY <1>1, <1>4 DEF endsOf
  <2> QED BY <2>1, <2>2, <2>3
<1>6. ASSUME NEW k \in DOMAIN longer
      PROVE  /\ longer[k].ptsCount > 0 /\ longer[k].pts > 0
             /\ \A q \in endsOf(longer) :
                   q <= longer[k].pts - longer[k].ptsCount \/ q >= longer[k].pts
  <2>1. CASE k = L + 1
    BY <1>1, <1>3, <1>4, <1>5, <2>1
  <2>2. CASE k \in 1..L
    <3>1. /\ longer[k] = log[k] /\ log[k].ptsCount > 0 /\ log[k].pts > 0 /\ log[k].pts \in endsOf(log)
          /\ \A q \in endsOf(log) : q <= log[k].pts - log[k].ptsCount \/ q >= log[k].pts
      BY <1>1, <1>4, <2>2 DEF logOK, endsOf
    <3>2. p + n >= log[k].pts
      BY <1>1, <3>1
    <3> QED BY <1>5, <3>1, <3>2
  <2> QED BY <1>4, <2>1, <2>2
<1>7. logOK(longer, p + n)
  <2>1. Len(longer) <= p + n /\ \A q \in endsOf(longer) : q <= p + n
    BY <1>1, <1>4, <1>5
  <2> QED BY <1>2, <1>4, <1>5, <1>6, <2>1 DEF logOK
<1>8. grown(log, p, longer)
  BY <1>1, <1>4, <1>5 DEF grown
<1>9. isEntry(longer, p + n, n)
  BY <1>1, <1>3, <1>4 DEF isEntry
<1> QED BY <1>2, <1>4, <1>7, <1>8, <1>9 DEF longer, e

\* A transaction extends the logs it touches.
LEMMA CommitGrows ==
    ASSUME Inv, NEW D \in SUBSET User, NEW n \in [D -> Nat \ {0}],
           NEW message \in BOOLEAN, Commit(n, message)
    PROVE  /\ pts' \in [User -> Position] /\ updates' \in [User -> Seq(Entry)]
           /\ \A u \in User : logOK(updates'[u], pts'[u]) /\ grown(updates[u], pts[u], updates'[u])
           /\ \A u \in D : isEntry(updates'[u], pts'[u], n[u])
<1>1. /\ \A u \in D : pts[u] + n[u] <= MaxPts
      /\ pts' = [u \in User |-> IF u \in D THEN pts[u] + n[u] ELSE pts[u]]
      /\ updates' = [u \in User |->
            IF u \in D THEN Append(updates[u], [pts |-> pts[u] + n[u], ptsCount |-> n[u], message |-> message])
            ELSE updates[u]]
  BY DEF Commit
<1>2. ASSUME NEW u \in User
      PROVE  /\ pts'[u] \in Position /\ updates'[u] \in Seq(Entry)
             /\ logOK(updates'[u], pts'[u]) /\ grown(updates[u], pts[u], updates'[u])
             /\ u \in D => isEntry(updates'[u], pts'[u], n[u])
  <2>1. logOK(updates[u], pts[u])
    BY DEF Inv
  <2>2. CASE u \in D
    <3>1. /\ n[u] \in Nat \ {0} /\ pts[u] + n[u] <= MaxPts /\ pts'[u] = pts[u] + n[u]
          /\ updates'[u] = Append(updates[u], [pts |-> pts[u] + n[u], ptsCount |-> n[u], message |-> message])
      BY <1>1, <2>2
    <3> QED BY <2>1, <3>1, AppendOK
  <2>3. CASE u \notin D
    <3>1. pts'[u] = pts[u] /\ updates'[u] = updates[u]
      BY <1>1, <2>3
    <3> QED BY <2>1, <2>3, <3>1, GrownRefl DEF logOK
  <2> QED BY <2>2, <2>3
<1>3. /\ pts' = [u \in User |-> pts'[u]] /\ updates' = [u \in User |-> updates'[u]]
  BY <1>1
<1> QED BY <1>2, <1>3

\* Logs that stay as they are.
LEMMA LogsStay ==
    ASSUME Inv, UNCHANGED <<pts, updates>>
    PROVE  /\ pts' \in [User -> Position] /\ updates' \in [User -> Seq(Entry)]
           /\ \A u \in User : logOK(updates'[u], pts'[u]) /\ grown(updates[u], pts[u], updates'[u])
  BY GrownRefl DEF Inv, TypeOK

\* The client of s waits for its answer, and has what it had.
LEMMA AwaitKeeps ==
    ASSUME Inv, NEW s \in Session, NEW h \in Handler, Await(h, s)
    PROVE  /\ client' \in [Session -> ClientState]
           /\ \A t \in Session : sameView(client[t], client'[t])
<1>1. client \in [Session -> ClientState] /\ client[s] \in ClientState
  BY DEF Inv, TypeOK
<1> DEFINE c == [client[s] EXCEPT !.wait = h]
<1>2. c \in ClientState /\ sameView(client[s], c)
  BY <1>1 DEF ClientState, sameView
<1>3. client' = [client EXCEPT ![s] = c]
  BY DEF Await
<1>4. \A t \in Session : sameView(client[t], client[t])
  BY DEF sameView
<1> HIDE DEF c
<1> QED BY <1>1, <1>2, <1>3, <1>4

\* A goroutine that has committed: it has entries to push and an answer.
workingOn(s, queue, reply) ==
    [IdleHandler EXCEPT !.state = "ready", !.session = s, !.queue = queue, !.reply = reply]

\* Such a goroutine is fine if its entries and its answer are.
LEMMA WorkingOK ==
    ASSUME NEW s \in Session, NEW queue \in Seq(QueuedPush), NEW reply \in WireMessage,
           NEW logs, NEW at, NEW clients, \A k \in DOMAIN queue : queuedOK(logs, queue[k]),
           messageOK(logs[owner[s]], at[owner[s]], clients[s], reply)
    PROVE  /\ workingOn(s, queue, reply) \in HandlerState
           /\ handlerOK(workingOn(s, queue, reply), logs, at, clients)
<1> DEFINE r == workingOn(s, queue, reply)
<1>1. /\ r.state = "ready" /\ r.session = s /\ r.queue = queue /\ r.reply = reply
      /\ r.targets = {} /\ r.failed = Nobody /\ r.since = 0
  BY DEF IdleHandler, workingOn
<1>2. r \in HandlerState
  BY Constants DEF IdleHandler, HandlerState, workingOn
<1> HIDE DEF r
<1>3. handlerOK(r, logs, at, clients)
  BY <1>1 DEF handlerOK
<1> QED BY <1>2, <1>3 DEF r

\* A request that commits, if at all, and leaves the goroutine working.
LEMMA RequestKeeps ==
    ASSUME Inv, NEW s \in Session, NEW h \in Handler,
           NEW queue \in Seq(QueuedPush), NEW reply \in WireMessage,
           Begin(h, s), Working(h, s, queue, reply), UNCHANGED <<conn, wire>>,
           client' \in [Session -> ClientState],
           \A t \in Session : sameView(client[t], client'[t]),
           pts' \in [User -> Position], updates' \in [User -> Seq(Entry)],
           \A u \in User : logOK(updates'[u], pts'[u]) /\ grown(updates[u], pts[u], updates'[u]),
           \A k \in DOMAIN queue : queuedOK(updates', queue[k]),
           messageOK(updates'[owner[s]], pts'[owner[s]], client'[s], reply)
    PROVE  Inv'
<1> DEFINE r == workingOn(s, queue, reply)
<1>1. handler' = [handler EXCEPT ![h] = r]
  BY DEF Working, workingOn
<1> HIDE DEF r
<1>3. r \in HandlerState /\ handlerOK(r, updates', pts', client')
  BY WorkingOK DEF r
<1>4. tracked' \subseteq Session
  BY DEF Begin, Inv, TypeOK
<1> QED BY <1>1, <1>3, <1>4, StepKeeps

\* The answer of a request that wrote an entry, or nothing at all.
LEMMA ResultOK ==
    ASSUME NEW h \in Handler, NEW p \in Position, NEW n \in Position, NEW log, NEW at, NEW c,
           isEntry(log, p, n) \/ n = 0
    PROVE  Result(h, p, n) \in WireMessage /\ messageOK(log, at, c, Result(h, p, n))
<1> DEFINE m == Result(h, p, n)
<1>1. /\ m.kind = "update" /\ m.pts = p /\ m.ptsCount = n /\ m.of = h /\ m.entries = {p}
      /\ m \in WireMessage
  BY DEF Result, WireMessage
<1> HIDE DEF m
<1>2. messageOK(log, at, c, m)
  BY <1>1, Constants DEF messageOK, updateOK
<1> QED BY <1>1, <1>2 DEF m

\* A push of an entry, or of another log's.
LEMMA PushOK ==
    ASSUME NEW q \in QueuedPush, NEW logs, queuedOK(logs, q), NEW at, NEW c
    PROVE  Push(q) \in WireMessage /\ messageOK(logs[q.to], at, c, Push(q))
<1> DEFINE m == Push(q)
<1>1. q.pts \in Position /\ q.ptsCount \in Position
  BY DEF QueuedPush
<1>2. /\ m.kind = "update" /\ m.pts = q.pts /\ m.ptsCount = q.ptsCount
      /\ m.entries = (IF q.stream = q.to THEN {q.pts} ELSE {})
  BY DEF Push
<1>3. m \in WireMessage
  BY <1>1, Constants DEF Push, WireMessage
<1> HIDE DEF m
<1>4. messageOK(logs[q.to], at, c, m)
  BY <1>2 DEF messageOK, updateOK, queuedOK
<1> QED BY <1>3, <1>4 DEF m

\* A push of what a request just committed: to the account whose log it is in, or
\* counting one.
freshPush(D, n, q) ==
    /\ q.stream \in D /\ q.pts = pts'[q.stream] /\ q.ptsCount = n[q.stream]
    /\ q.stream = q.to \/ n[q.stream] = 1

\* A request that commits n[u] for each u of D, the caller's account among them.
LEMMA WriteKeeps ==
    ASSUME Inv, NEW s \in Session, NEW h \in Handler, NEW D \in SUBSET User, owner[s] \in D,
           NEW n \in [D -> Nat \ {0}], NEW message \in BOOLEAN, Commit(n, message),
           NEW queue \in Seq(QueuedPush), \A k \in DOMAIN queue : freshPush(D, n, queue[k]),
           Begin(h, s), Working(h, s, queue, Result(h, pts'[owner[s]], n[owner[s]])),
           Await(h, s), UNCHANGED <<conn, wire>>
    PROVE  Inv'
<1>1. /\ pts' \in [User -> Position] /\ updates' \in [User -> Seq(Entry)]
      /\ \A u \in User : logOK(updates'[u], pts'[u]) /\ grown(updates[u], pts[u], updates'[u])
      /\ \A u \in D : isEntry(updates'[u], pts'[u], n[u])
  BY CommitGrows
<1>2. owner[s] \in User /\ pts'[owner[s]] \in Position
  BY <1>1
<1>3. n[owner[s]] \in Position
  <2>1. /\ pts[owner[s]] \in Position /\ n[owner[s]] \in Nat
        /\ pts[owner[s]] + n[owner[s]] <= MaxPts
    BY <1>2 DEF Commit, Inv, TypeOK
  <2> QED BY <2>1, Constants
<1>4. /\ Result(h, pts'[owner[s]], n[owner[s]]) \in WireMessage
      /\ messageOK(updates'[owner[s]], pts'[owner[s]], client'[s],
                   Result(h, pts'[owner[s]], n[owner[s]]))
  BY <1>1, <1>2, <1>3, ResultOK
<1>5. \A k \in DOMAIN queue : queuedOK(updates', queue[k])
  BY <1>1 DEF freshPush, queuedOK
<1>6. /\ client' \in [Session -> ClientState]
      /\ \A t \in Session : sameView(client[t], client'[t])
  BY AwaitKeeps
<1> QED BY <1>1, <1>4, <1>5, <1>6, RequestKeeps

\* The push of an entry just committed.
LEMMA QueuedOK ==
    ASSUME Inv, NEW D \in SUBSET User, NEW n \in [D -> Nat \ {0}], NEW message \in BOOLEAN,
           Commit(n, message), NEW u \in D, NEW to \in User, to = u \/ n[u] = 1
    PROVE  LET q == [to |-> to, stream |-> u, pts |-> pts'[u], ptsCount |-> n[u]]
           IN  q \in QueuedPush /\ freshPush(D, n, q)
<1>1. u \in User /\ pts'[u] \in Position
  BY CommitGrows
<1>2. n[u] \in Position
  <2>1. pts[u] \in Position /\ n[u] \in Nat /\ pts[u] + n[u] <= MaxPts
    BY <1>1 DEF Commit, Inv, TypeOK
  <2> QED BY <2>1, Constants
<1> QED BY <1>1, <1>2 DEF QueuedPush, freshPush

\* messages.sendMessage, and messages.editMessage whichever conversation it names.
LEMMA SendKeeps ==
    ASSUME Inv, NEW s \in Session, NEW h \in Handler, NEW peer \in User, NEW named \in User,
           \/ messagesSendMessage(h, s, peer) /\ named = peer
           \/ messagesEditMessage(h, s, peer, named)
    PROVE  Inv'
<1> DEFINE self == owner[s]
           D == {self, peer}
           n == [u \in D |-> 1]
           q == [to |-> named, stream |-> peer, pts |-> pts'[peer], ptsCount |-> 1]
           queue == IF peer = self THEN <<>> ELSE <<q>>
<1>1. self \in User /\ D \in SUBSET User /\ self \in D /\ peer \in D
  BY Constants
<1>2. n \in [D -> Nat \ {0}] /\ n[self] = 1 /\ n[peer] = 1
  OBVIOUS
<1>3. /\ Begin(h, s) /\ Commit(n, TRUE) /\ Await(h, s) /\ UNCHANGED <<conn, wire>>
      /\ Working(h, s, queue, Result(h, pts'[self], 1))
  BY DEF messagesSendMessage, messagesEditMessage
<1> HIDE DEF n, D
<1>4. q \in QueuedPush /\ freshPush(D, n, q)
  <2>1. named = peer \/ n[peer] = 1
    BY <1>2
  <2> QED BY <1>1, <1>2, <1>3, <2>1, QueuedOK
<1> HIDE DEF q
<1>5. queue \in Seq(QueuedPush)
  BY <1>4
<1>6. \A k \in DOMAIN queue : freshPush(D, n, queue[k])
  BY <1>4
<1> HIDE DEF queue
<1> QED BY <1>1, <1>2, <1>3, <1>5, <1>6, WriteKeeps

\* messages.readHistory.
LEMMA ReadKeeps ==
    ASSUME Inv, NEW s \in Session, NEW h \in Handler, NEW peer \in User, NEW acked \in BOOLEAN,
           messagesReadHistory(h, s, peer, acked)
    PROVE  Inv'
<1> DEFINE self == owner[s]
           D == {self} \cup (IF acked THEN {peer} ELSE {})
           n == [u \in D |-> 1]
           q(u) == [to |-> u, stream |-> u, pts |-> pts'[u], ptsCount |-> 1]
           own == <<q(self)>>
           theirs == IF acked THEN <<q(peer)>> ELSE <<>>
           queue == own \o theirs
<1>1. self \in User /\ D \in SUBSET User /\ self \in D /\ (acked => peer \in D)
  BY Constants
<1>2. n \in [D -> Nat \ {0}] /\ \A u \in D : n[u] = 1
  OBVIOUS
<1>3. /\ Begin(h, s) /\ Commit(n, FALSE) /\ Await(h, s) /\ UNCHANGED <<conn, wire>>
      /\ Working(h, s, queue, Result(h, pts'[self], 1))
  BY DEF messagesReadHistory
<1> HIDE DEF n, D
<1>4. ASSUME NEW u \in D
      PROVE  q(u) \in QueuedPush /\ freshPush(D, n, q(u))
  <2>1. u \in User /\ n[u] = 1
    BY <1>1, <1>2
  <2> QED BY <1>1, <1>2, <1>3, <2>1, QueuedOK
<1> HIDE DEF q
<1>5. own \in Seq(QueuedPush) /\ theirs \in Seq(QueuedPush)
  BY <1>1, <1>4
<1>6. /\ \A k \in DOMAIN own : freshPush(D, n, own[k])
      /\ \A k \in DOMAIN theirs : freshPush(D, n, theirs[k])
  BY <1>1, <1>4
<1> HIDE DEF own, theirs
<1>7. queue \in Seq(QueuedPush)
  BY <1>5
<1>8. ASSUME NEW k \in DOMAIN queue
      PROVE  \/ k \in DOMAIN own /\ queue[k] = own[k]
             \/ \E j \in DOMAIN theirs : queue[k] = theirs[j]
  <2>1. DOMAIN queue = 1..(Len(own) + Len(theirs)) /\ DOMAIN own = 1..Len(own)
        /\ DOMAIN theirs = 1..Len(theirs) /\ Len(own) \in Nat /\ Len(theirs) \in Nat
    BY <1>5
  <2>2. CASE k <= Len(own)
    BY <1>5, <2>1, <2>2
  <2>3. CASE k > Len(own)
    <3>1. k - Len(own) \in DOMAIN theirs /\ queue[k] = theirs[k - Len(own)]
      BY <1>5, <2>1, <2>3
    <3> QED BY <3>1
  <2> QED BY <2>1, <2>2, <2>3
<1>9. \A k \in DOMAIN queue : freshPush(D, n, queue[k])
  BY <1>6, <1>8
<1> HIDE DEF queue
<1> QED BY <1>1, <1>2, <1>3, <1>7, <1>9, WriteKeeps

\* messages.deleteMessages.
LEMMA DeleteKeeps ==
    ASSUME Inv, NEW s \in Session, NEW h \in Handler, NEW k \in 0..MaxDelete,
           messagesDeleteMessages(h, s, k)
    PROVE  Inv'
<1> DEFINE self == owner[s]
           none == <<>>
<1>1. self \in User /\ k \in Nat
  BY Constants
<1>2. Begin(h, s) /\ Await(h, s) /\ UNCHANGED <<conn, wire>>
      /\ none \in Seq(QueuedPush) /\ DOMAIN none = {}
  BY DEF messagesDeleteMessages
<1>3. CASE k = 0
  <2>1. Working(h, s, none, Result(h, 0, 0)) /\ UNCHANGED <<pts, updates>>
    BY <1>3 DEF messagesDeleteMessages
  <2>2. /\ pts' \in [User -> Position] /\ updates' \in [User -> Seq(Entry)]
        /\ \A u \in User : logOK(updates'[u], pts'[u]) /\ grown(updates[u], pts[u], updates'[u])
    BY <2>1, LogsStay
  <2>3. /\ client' \in [Session -> ClientState]
        /\ \A t \in Session : sameView(client[t], client'[t])
    BY <1>2, AwaitKeeps
  <2>4. /\ Result(h, 0, 0) \in WireMessage
        /\ messageOK(updates'[self], pts'[self], client'[s], Result(h, 0, 0))
    BY Constants, ResultOK
  <2> HIDE DEF none
  <2> QED BY <1>2, <2>1, <2>2, <2>3, <2>4, RequestKeeps
<1>4. CASE k # 0
  <2> DEFINE D == {self}
             n == [u \in D |-> k]
  <2>1. D \in SUBSET User /\ self \in D /\ n \in [D -> Nat \ {0}] /\ n[self] = k
    BY <1>1, <1>4
  <2>2. Commit(n, FALSE) /\ Working(h, s, none, Result(h, pts'[self], k))
    BY <1>4 DEF messagesDeleteMessages
  <2> HIDE DEF n, D, none
  <2> QED BY <1>2, <2>1, <2>2, WriteKeeps
<1> QED BY <1>3, <1>4

-----------------------------------------------------------------------------
(* updates.getDifference *)

\* The answer of updates.getDifference, for a client that was at since when it asked,
\* if the account had been at current: of the entries in between, each is in the answer,
\* behind its limit, or was not found.
LEMMA DifferenceOK ==
    ASSUME Inv, NEW h \in Handler, NEW s \in Session, NEW since \in Position,
           NEW current, current \in endsOf(updates[owner[s]]) \cup {0},
           clientOK(updates[owner[s]], pts[owner[s]], since, client[s]),
           NEW failed \in failures(owner[s], since)
    PROVE  /\ differenceReply(h, owner[s], since, current, failed) \in WireMessage
           /\ messageOK(updates[owner[s]], pts[owner[s]], client[s],
                        differenceReply(h, owner[s], since, current, failed))
<1> DEFINE u == owner[s]
           log == updates[u]
           K == entriesSince(u, since)
           at == IF K = {} THEN since ELSE current
           E == endsAt(u, K \ failed)
           L == endsAt(u, failed \cup beyondLimit(u, since)) \cap 0..at
           m == differenceReply(h, u, since, current, failed)
<1>1. u \in User /\ logOK(log, pts[u])
  BY Constants DEF Inv
<1>2. /\ endsOf(log) \subseteq Position /\ \A q \in endsOf(log) : q \in Nat /\ q <= pts[u]
  BY <1>1, EndsNat DEF logOK
<1>3. /\ since \in Nat /\ current \in Position /\ current \in Nat /\ pts[u] \in Nat
      /\ current <= pts[u]
  BY <1>1, <1>2, EndsNat, Constants
<1>4. /\ K = later(u, since) \ beyondLimit(u, since) /\ later(u, since) \subseteq DOMAIN log
      /\ failed \subseteq K
  BY DEF entriesSince, later, failures
<1>5. /\ m = Difference(h, at, E, L)
  BY DEF differenceReply
<1>6. E \subseteq endsOf(log)
  BY <1>4 DEF endsAt, endsOf
<1>7. at \in Position /\ at \in Nat /\ at \in endsOf(log) \cup {0} \cup client[s].foreign
  BY <1>3 DEF clientOK
<1>8. L \subseteq Position
  BY <1>7, Constants
<1>9. ASSUME NEW q \in 1..at
      PROVE  q \in seen(client[s]) \cup E \cup L \/ (q <= pts[u] /\ q \notin endsOf(log))
  <2>1. CASE q <= since
    BY <1>3, <1>7, <2>1 DEF clientOK, passed
  <2>2. CASE q > since /\ q \notin endsOf(log)
    BY <1>3, <1>7, <2>2
  <2>3. CASE q > since /\ q \in endsOf(log)
    <3>1. PICK k \in DOMAIN log : q = log[k].pts
      BY <2>3 DEF endsOf
    <3>2. k \in later(u, since)
      BY <2>3, <3>1 DEF later
    <3>3. CASE k \in K \ failed
      BY <3>1, <3>3 DEF endsAt
    <3>4. CASE k \in failed \cup beyondLimit(u, since)
      BY <1>7, <3>1, <3>4 DEF endsAt
    <3> QED BY <1>4, <3>2, <3>3, <3>4
  <2> QED BY <1>3, <1>7, <2>1, <2>2, <2>3
<1> HIDE DEF K, E, L, m, at
<1>10. E \subseteq Position
  BY <1>2, <1>6
<1>11. m \in WireMessage /\ m.kind = "difference" /\ m.pts = at /\ m.entries = E /\ m.lost = L
  BY <1>5, <1>7, <1>8, <1>10, Constants DEF Difference, WireMessage
<1>12. differenceOK(log, pts[u], client[s], m)
  BY <1>6, <1>7, <1>9, <1>11 DEF differenceOK, passed
<1>13. messageOK(log, pts[u], client[s], m)
  BY <1>11, <1>12 DEF messageOK
<1> QED BY <1>11, <1>13 DEF m

\* A goroutine between the two statements of the Postgres GetDifference.
readingAt(s, since, m) ==
    [IdleHandler EXCEPT !.state = "reading", !.session = s, !.since = since, !.reply = m]

\* Its type.
LEMMA ReadingOK ==
    ASSUME NEW s \in Session, NEW since \in Position, NEW m \in WireMessage
    PROVE  readingAt(s, since, m) \in HandlerState
<1>1. Difference(Nobody, 0, {}, {}) \in WireMessage
  BY Constants DEF Difference, WireMessage
<1>2. IdleHandler \in HandlerState
  BY <1>1, Constants DEF IdleHandler, HandlerState
<1>3. \A r \in HandlerState :
          [r EXCEPT !.state = "reading", !.session = s, !.since = since, !.reply = m]
            \in HandlerState
  BY DEF HandlerState
<1> QED BY <1>2, <1>3 DEF readingAt

\* updates.getDifference reads the account's pts.
LEMMA DifferenceKeeps ==
    ASSUME Inv, NEW s \in Session, NEW h \in Handler, updatesGetDifference(h, s)
    PROVE  Inv'
<1> DEFINE u == owner[s]
           none == <<>>
           c == [client[s] EXCEPT !.wait = h, !.fetching = TRUE]
           m == Difference(h, pts[u], {}, {})
           r == readingAt(s, client[s].pts, m)
<1>1. /\ u \in User /\ pts[u] \in Position /\ client \in [Session -> ClientState]
      /\ client[s] \in ClientState /\ logOK(updates[u], pts[u])
      /\ clientOK(updates[u], pts[u], client[s].pts, client[s])
  BY Constants DEF Inv, TypeOK
<1>2. c \in ClientState /\ sameView(client[s], c)
  BY <1>1 DEF ClientState, sameView
<1>3. client' = [client EXCEPT ![s] = c]
  BY <1>1 DEF updatesGetDifference, ClientState
<1>4. /\ client' \in [Session -> ClientState]
      /\ \A t \in Session : sameView(client[t], client'[t])
  <2>1. \A t \in Session : sameView(client[t], client[t])
    BY DEF sameView
  <2> HIDE DEF c
  <2> QED BY <1>1, <1>2, <1>3, <2>1
<1> HIDE DEF c
<1>5. Begin(h, s) /\ UNCHANGED <<pts, updates, conn, wire>>
  BY DEF updatesGetDifference
<1>6. /\ pts' \in [User -> Position] /\ updates' \in [User -> Seq(Entry)]
      /\ \A x \in User : logOK(updates'[x], pts'[x]) /\ grown(updates[x], pts[x], updates'[x])
  BY <1>5, LogsStay
<1>7. pts[u] \in endsOf(updates[u]) \cup {0}
  BY <1>1 DEF logOK
<1>8. m \in WireMessage /\ m.pts = pts[u]
  BY <1>1, Constants DEF Difference, WireMessage
<1>9. handler' = [handler EXCEPT ![h] = r]
  BY DEF updatesGetDifference, readingAt
<1> HIDE DEF m
<1>10. /\ r.state = "reading" /\ r.session = s /\ r.since = client[s].pts /\ r.reply = m
       /\ r.queue = none /\ r.targets = {} /\ r.failed = Nobody
  BY DEF IdleHandler, readingAt
<1>11. client[s].pts \in Position
  BY <1>1 DEF ClientState
<1>12. r \in HandlerState
  BY <1>8, <1>11, ReadingOK
<1>13. DOMAIN none = {} /\ updates' = updates /\ pts' = pts
  BY <1>5
<1>14. clientOK(updates[u], pts[u], client[s].pts, client'[s])
  BY <1>1, <1>4 DEF clientOK, sameView, seen
<1> HIDE DEF r, none
<1>15. handlerOK(r, updates', pts', client')
  BY <1>7, <1>8, <1>10, <1>13, <1>14 DEF handlerOK
<1>16. tracked' \subseteq Session
  BY <1>5 DEF Begin, Inv, TypeOK
<1> QED BY <1>4, <1>5, <1>6, <1>8, <1>9, <1>12, <1>15, <1>16, StepKeeps

\* The second statement of the Postgres GetDifference, and the look-ups.
LEMMA ReadEntriesKeeps ==
    ASSUME Inv, NEW h \in Handler, readEntries(h)
    PROVE  Inv'
<1> DEFINE s == handler[h].session
           since == handler[h].since
<1>1. PICK failed \in failures(owner[s], since) :
          handler' = [handler EXCEPT
            ![h].state = "ready",
            ![h].reply = differenceReply(h, owner[s], since, handler[h].reply.pts, failed)]
  BY DEF readEntries
<1> DEFINE m == differenceReply(h, owner[s], since, handler[h].reply.pts, failed)
           r == [handler[h] EXCEPT !.state = "ready", !.reply = m]
<1>2. /\ handler[h] \in HandlerState /\ handlerOK(handler[h], updates, pts, client)
      /\ handler[h].state = "reading" /\ handler \in [Handler -> HandlerState]
  BY DEF readEntries, Inv, TypeOK
<1>3. /\ s \in Session /\ handler[h].reply.pts \in endsOf(updates[owner[s]]) \cup {0}
      /\ clientOK(updates[owner[s]], pts[owner[s]], since, client[s]) /\ since \in Position
  BY <1>2 DEF handlerOK, HandlerState
<1>4. m \in WireMessage /\ messageOK(updates[owner[s]], pts[owner[s]], client[s], m)
  BY <1>3, DifferenceOK
<1>5. handler' = [handler EXCEPT ![h] = r]
  BY <1>1, <1>2
<1> HIDE DEF m
<1>6. /\ r.state = "ready" /\ r.session = s /\ r.reply = m /\ r.queue = handler[h].queue
      /\ r.targets = handler[h].targets /\ r.failed = handler[h].failed
  BY <1>2 DEF HandlerState
<1>7. r \in HandlerState
  BY <1>2, <1>4 DEF HandlerState
<1> HIDE DEF r
<1>8. UNCHANGED <<pts, updates, tracked, conn, wire, client>>
  BY DEF readEntries
<1>9. handlerOK(r, updates', pts', client')
  BY <1>2, <1>3, <1>4, <1>6, <1>8 DEF handlerOK
<1>10. /\ pts' \in [User -> Position] /\ updates' \in [User -> Seq(Entry)]
       /\ \A x \in User : logOK(updates'[x], pts'[x]) /\ grown(updates[x], pts[x], updates'[x])
  BY <1>8, LogsStay
<1>11. /\ client' \in [Session -> ClientState] /\ tracked' \subseteq Session
       /\ \A t \in Session : sameView(client[t], client'[t])
  BY <1>8 DEF Inv, TypeOK, sameView
<1> QED BY <1>3, <1>4, <1>5, <1>7, <1>8, <1>9, <1>10, <1>11, StepKeeps

-----------------------------------------------------------------------------
(* push, and the answer *)

\* The rest of a queue, when its first push is done.
LEMMA RestOfQueue ==
    ASSUME NEW S, NEW q \in Seq(S), q # <<>>
    PROVE  /\ Head(q) = q[1] /\ q[1] \in S /\ 1 \in DOMAIN q /\ Tail(q) \in Seq(S)
           /\ \A k \in DOMAIN Tail(q) : k + 1 \in DOMAIN q /\ Tail(q)[k] = q[k + 1]
  OBVIOUS

\* push has dealt with all but the sessions in rest, all of them of the account it
\* pushes to, and may have sent m to t.
LEMMA PushedKeeps ==
    ASSUME Inv, NEW h \in Handler, NEW rest \in SUBSET Session, NEW failed \in Session \cup {Nobody},
           handler[h].state \in {"ready", "pushing"}, handler[h].queue # <<>>,
           \A t \in rest : owner[t] = handler[h].queue[1].to,
           pushed(h, rest, failed), UNCHANGED <<pts, updates, conn, client>>,
           tracked' \subseteq Session, NEW t \in Session, NEW m \in WireMessage,
           \/ wire' = wire
           \/ /\ wire' = [wire EXCEPT ![t] = Append(wire[t], m)]
              /\ messageOK(updates[owner[t]], pts[owner[t]], client[t], m)
    PROVE  Inv'
<1> DEFINE old == handler[h]
           done == rest = {} /\ failed = Nobody
           state == IF done THEN "ready" ELSE "pushing"
           queue == IF done THEN Tail(old.queue) ELSE old.queue
           r == [old EXCEPT !.state = state, !.queue = queue, !.targets = rest, !.failed = failed]
<1>1. /\ old \in HandlerState /\ handlerOK(old, updates, pts, client)
      /\ handler \in [Handler -> HandlerState] /\ old.queue \in Seq(QueuedPush)
  BY DEF Inv, TypeOK, HandlerState
<1>2. handler' = [handler EXCEPT ![h] = r]
  BY <1>1 DEF pushed
<1>3. /\ Tail(old.queue) \in Seq(QueuedPush)
      /\ \A k \in DOMAIN Tail(old.queue) :
            k + 1 \in DOMAIN old.queue /\ Tail(old.queue)[k] = old.queue[k + 1]
  BY <1>1, RestOfQueue
<1>4. state \in {"ready", "pushing"} /\ queue \in Seq(QueuedPush)
  BY <1>1, <1>3
<1>5. \A k \in DOMAIN queue : queuedOK(updates, queue[k])
  BY <1>1, <1>3 DEF handlerOK
<1>6. /\ failed # Nobody \/ rest # {} => state = "pushing"
      /\ state = "pushing" => queue # <<>> /\ \A x \in rest : owner[x] = queue[1].to
  OBVIOUS
<1> HIDE DEF state, queue
<1>7. /\ r.state = state /\ r.queue = queue /\ r.targets = rest /\ r.failed = failed
      /\ r.session = old.session /\ r.reply = old.reply
  BY <1>1 DEF HandlerState
<1>8. r \in HandlerState
  BY <1>1, <1>4 DEF HandlerState
<1> HIDE DEF r
<1>9. handlerOK(r, updates', pts', client')
  BY <1>1, <1>4, <1>5, <1>6, <1>7 DEF handlerOK
<1>10. /\ pts' \in [User -> Position] /\ updates' \in [User -> Seq(Entry)]
       /\ \A x \in User : logOK(updates'[x], pts'[x]) /\ grown(updates[x], pts[x], updates'[x])
  BY LogsStay
<1>11. /\ client' \in [Session -> ClientState]
       /\ \A x \in Session : sameView(client[x], client'[x])
  BY DEF Inv, TypeOK, sameView
<1> QED BY <1>2, <1>8, <1>9, <1>10, <1>11, StepKeeps

\* What is known of a goroutine that has something to push.
LEMMA PushFacts ==
    ASSUME Inv, NEW h \in Handler, handler[h].state \in {"ready", "pushing"},
           handler[h].queue # <<>>
    PROVE  /\ handler[h].session \in Session /\ handler[h].reply \in WireMessage
           /\ handler[h].targets \subseteq Session
           /\ Head(handler[h].queue) = handler[h].queue[1] /\ handler[h].queue[1] \in QueuedPush
           /\ queuedOK(updates, handler[h].queue[1])
<1>1. handler[h] \in HandlerState /\ handlerOK(handler[h], updates, pts, client)
  BY DEF Inv, TypeOK
<1>2. /\ handler[h].queue \in Seq(QueuedPush) /\ handler[h].reply \in WireMessage
      /\ handler[h].targets \subseteq Session
  BY <1>1 DEF HandlerState
<1>3. /\ Head(handler[h].queue) = handler[h].queue[1] /\ handler[h].queue[1] \in QueuedPush
      /\ 1 \in DOMAIN handler[h].queue
  BY <1>2, RestOfQueue
<1> QED BY <1>1, <1>2, <1>3 DEF handlerOK

\* push takes the sessions of the account it pushes to.
LEMMA PushBeginKeeps ==
    ASSUME Inv, NEW h \in Handler, pushBegin(h)
    PROVE  Inv'
<1> DEFINE rest == sessionsOf(Head(handler[h].queue).to)
<1>1. /\ handler[h].state = "ready" /\ handler[h].queue # <<>> /\ pushed(h, rest, Nobody)
      /\ UNCHANGED <<pts, updates, tracked, conn, wire, client>>
  BY DEF pushBegin
<1>2. tracked' \subseteq Session /\ rest \in SUBSET Session
  BY <1>1 DEF Inv, TypeOK, sessionsOf
<1>3. handler[h].session \in Session /\ handler[h].reply \in WireMessage
      /\ Head(handler[h].queue) = handler[h].queue[1]
  BY <1>1, PushFacts
<1>4. \A t \in rest : owner[t] = handler[h].queue[1].to
  BY <1>3 DEF sessionsOf
<1> HIDE DEF rest
<1> QED BY <1>1, <1>2, <1>3, <1>4, PushedKeeps

\* The targets of a push in progress are sessions of the account it pushes to.
LEMMA TargetsOwn ==
    ASSUME Inv, NEW h \in Handler, handler[h].state = "pushing"
    PROVE  /\ handler[h].queue # <<>>
           /\ \A t \in handler[h].targets : owner[t] = handler[h].queue[1].to
  BY DEF Inv, handlerOK

\* Send to one of them.
LEMMA PushSendKeeps ==
    ASSUME Inv, NEW h \in Handler, NEW t \in Session, NEW ok \in BOOLEAN, pushSend(h, t, ok)
    PROVE  Inv'
<1> DEFINE q == handler[h].queue[1]
           m == Push(q)
           rest == handler[h].targets \ {t}
           failed == IF ok THEN Nobody ELSE t
<1>1. /\ handler[h].state = "pushing" /\ t \in handler[h].targets
      /\ UNCHANGED <<pts, updates, tracked, conn, client>>
  BY DEF pushSend
<1>2. handler[h].queue # <<>> /\ \A x \in handler[h].targets : owner[x] = q.to
  BY <1>1, TargetsOwn
<1>3. /\ handler[h].targets \subseteq Session /\ Head(handler[h].queue) = q /\ q \in QueuedPush
      /\ queuedOK(updates, q)
  BY <1>1, <1>2, PushFacts
<1>4. /\ wire' = (IF ok THEN [wire EXCEPT ![t] = Append(wire[t], m)] ELSE wire)
      /\ pushed(h, rest, failed)
  BY <1>3 DEF pushSend, Inv, TypeOK
<1>5. owner[t] = q.to
  BY <1>1, <1>2
<1> HIDE DEF q
<1>6. m \in WireMessage /\ messageOK(updates[owner[t]], pts[owner[t]], client[t], m)
  BY <1>3, <1>5, PushOK
<1>7. /\ rest \in SUBSET Session /\ failed \in Session \cup {Nobody}
      /\ \A x \in rest : owner[x] = handler[h].queue[1].to
  BY <1>2, <1>3 DEF q
<1>8. tracked' \subseteq Session
  BY <1>1 DEF Inv, TypeOK
<1> HIDE DEF rest, failed, m
<1>9. \/ wire' = wire
      \/ /\ wire' = [wire EXCEPT ![t] = Append(wire[t], m)]
         /\ messageOK(updates[owner[t]], pts[owner[t]], client[t], m)
  BY <1>4, <1>6
<1> QED BY <1>1, <1>2, <1>4, <1>6, <1>7, <1>8, <1>9, PushedKeeps

\* A session whose Send failed is dropped.
LEMMA UntrackKeeps ==
    ASSUME Inv, NEW h \in Handler, untrack(h)
    PROVE  Inv'
<1>1. /\ handler[h].failed # Nobody /\ pushed(h, handler[h].targets, Nobody)
      /\ UNCHANGED <<pts, updates, conn, wire, client>>
      /\ tracked' = tracked \ {handler[h].failed}
  BY DEF untrack
<1>2. handler[h].state = "pushing" /\ tracked' \subseteq Session
  BY <1>1 DEF Inv, handlerOK, TypeOK
<1>3. /\ handler[h].queue # <<>>
      /\ \A t \in handler[h].targets : owner[t] = handler[h].queue[1].to
  BY <1>2, TargetsOwn
<1>4. /\ handler[h].session \in Session /\ handler[h].reply \in WireMessage
      /\ handler[h].targets \in SUBSET Session
  BY <1>2, <1>3, PushFacts
<1> QED BY <1>1, <1>2, <1>3, <1>4, PushedKeeps

\* A goroutine that serves no request.
LEMMA IdleOK ==
    ASSUME NEW logs, NEW at, NEW clients
    PROVE  IdleHandler \in HandlerState /\ handlerOK(IdleHandler, logs, at, clients)
<1>1. Difference(Nobody, 0, {}, {}) \in WireMessage
  BY Constants DEF Difference, WireMessage
<1>2. IdleHandler \in HandlerState
  BY <1>1, Constants DEF IdleHandler, HandlerState
<1>3. /\ IdleHandler.state = "idle" /\ IdleHandler.failed = Nobody /\ IdleHandler.targets = {}
      /\ DOMAIN IdleHandler.queue = {}
  BY DEF IdleHandler
<1>4. handlerOK(IdleHandler, logs, at, clients)
  BY <1>3 DEF handlerOK
<1> QED BY <1>2, <1>4

\* The answer.
LEMMA SendResultKeeps ==
    ASSUME Inv, NEW h \in Handler, SendResult(h)
    PROVE  Inv'
<1> DEFINE s == handler[h].session
           m == handler[h].reply
<1>1. /\ handler[h].state = "ready" /\ handler' = [handler EXCEPT ![h] = IdleHandler]
      /\ UNCHANGED <<pts, updates, tracked, conn, client>>
  BY DEF SendResult
<1>2. handler[h] \in HandlerState /\ handlerOK(handler[h], updates, pts, client)
  BY DEF Inv, TypeOK
<1>3. /\ s \in Session /\ m \in WireMessage
      /\ messageOK(updates[owner[s]], pts[owner[s]], client[s], m)
  BY <1>1, <1>2 DEF handlerOK, HandlerState
<1>4. \/ wire' = wire
      \/ wire' = [wire EXCEPT ![s] = Append(wire[s], m)]
  BY <1>3 DEF SendResult, Inv, TypeOK
<1>5. IdleHandler \in HandlerState /\ handlerOK(IdleHandler, updates', pts', client')
  BY IdleOK
<1>6. /\ pts' \in [User -> Position] /\ updates' \in [User -> Seq(Entry)]
      /\ \A x \in User : logOK(updates'[x], pts'[x]) /\ grown(updates[x], pts[x], updates'[x])
  BY <1>1, LogsStay
<1>7. /\ client' \in [Session -> ClientState] /\ tracked' \subseteq Session
      /\ \A t \in Session : sameView(client[t], client'[t])
  BY <1>1 DEF Inv, TypeOK, sameView
<1> HIDE DEF s, m
<1> QED BY <1>1, <1>3, <1>4, <1>5, <1>6, <1>7, StepKeeps

-----------------------------------------------------------------------------
(* Connections and the client *)

\* A step of the client of s, or of its connection: the client forgets nothing, and
\* nothing new is on the wire.
LEMMA ClientStepKeeps ==
    ASSUME Inv, NEW s \in Session, NEW c \in ClientState, client' = [client EXCEPT ![s] = c],
           knowsMore(client[s], c), clientOK(updates[owner[s]], pts[owner[s]], c.pts, c),
           UNCHANGED <<pts, updates, tracked, handler>>, conn' \subseteq Session,
           NEW w \in Seq(WireMessage), wire' = [wire EXCEPT ![s] = w],
           \A k \in DOMAIN w : \E j \in DOMAIN wire[s] : w[k] = wire[s][j]
    PROVE  Inv'
<1>1. /\ client \in [Session -> ClientState] /\ wire \in [Session -> Seq(WireMessage)]
      /\ handler \in [Handler -> HandlerState]
  BY DEF Inv, TypeOK
<1>2. client'[s] = c /\ \A t \in Session \ {s} : client'[t] = client[t]
  BY <1>1
<1>3. \A t \in Session : clientOK(updates[owner[t]], pts[owner[t]], client'[t].pts, client'[t])
  BY <1>2 DEF Inv
<1>4. \A t \in Session : knowsMore(client[t], client'[t])
  BY <1>2 DEF knowsMore
<1>5. \A u \in User : logOK(updates'[u], pts'[u]) /\ grown(updates[u], pts[u], updates'[u])
  BY LogsStay
<1>6. ASSUME NEW t \in Session, NEW k \in DOMAIN wire'[t]
      PROVE  messageOK(updates'[owner[t]], pts'[owner[t]], client'[t], wire'[t][k])
  <2>1. PICK j \in DOMAIN wire[t] : wire'[t][k] = wire[t][j]
    BY <1>1, <1>6
  <2>2. messageOK(updates[owner[t]], pts[owner[t]], client[t], wire[t][j])
    BY DEF Inv
  <2>3. wire[t][j] \in WireMessage /\ owner[t] \in User
    <3>1. wire[t] \in Seq(WireMessage) /\ owner[t] \in User
      BY <1>1, Constants
    <3> QED BY <3>1
  <2>4. /\ logOK(updates[owner[t]], pts[owner[t]]) /\ logOK(updates'[owner[t]], pts'[owner[t]])
        /\ grown(updates[owner[t]], pts[owner[t]], updates'[owner[t]])
    BY <1>5, <2>3 DEF Inv
  <2>5. knowsMore(client[t], client'[t])
    BY <1>4
  <2> QED BY <2>1, <2>2, <2>3, <2>4, <2>5, MessageGrows
<1>7. \A h \in Handler : handlerOK(handler'[h], updates', pts', client')
  <2>1. \A t \in Session : client'[t].have \subseteq endsOf(updates'[owner[t]])
    BY <1>3 DEF clientOK
  <2> QED BY <1>1, <1>4, <1>5, <2>1, HandlerGrows DEF Inv
<1>8. TypeOK'
  <2>1. client' \in [Session -> ClientState] /\ wire' \in [Session -> Seq(WireMessage)]
    BY <1>1
  <2> QED BY <2>1 DEF Inv, TypeOK
<1> QED BY <1>3, <1>5, <1>6, <1>7, <1>8 DEF Inv

\* A connection breaks, or comes back.
LEMMA ConnectionKeeps ==
    ASSUME Inv, NEW s \in Session, Disconnect(s) \/ Connect(s)
    PROVE  Inv'
<1>1. /\ client \in [Session -> ClientState] /\ client[s] \in ClientState /\ conn \subseteq Session
      /\ wire \in [Session -> Seq(WireMessage)] /\ wire[s] \in Seq(WireMessage)
      /\ clientOK(updates[owner[s]], pts[owner[s]], client[s].pts, client[s])
  BY DEF Inv, TypeOK
<1>2. CASE Disconnect(s)
  <2> DEFINE c == [client[s] EXCEPT !.wait = Nobody, !.fetching = FALSE]
             w == <<>>
  <2>1. c \in ClientState /\ sameView(client[s], c)
    BY <1>1 DEF ClientState, sameView
  <2>2. /\ client' = [client EXCEPT ![s] = c] /\ wire' = [wire EXCEPT ![s] = w]
        /\ conn' \subseteq Session /\ UNCHANGED <<pts, updates, tracked, handler>>
    BY <1>1, <1>2 DEF Disconnect, ClientState
  <2>3. w \in Seq(WireMessage) /\ DOMAIN w = {}
    OBVIOUS
  <2> HIDE DEF c, w
  <2>4. knowsMore(client[s], c) /\ clientOK(updates[owner[s]], pts[owner[s]], c.pts, c)
    BY <1>1, <2>1 DEF sameView, knowsMore, clientOK, seen
  <2> QED BY <2>1, <2>2, <2>3, <2>4, ClientStepKeeps
<1>3. CASE Connect(s)
  <2>1. /\ client' = [client EXCEPT ![s] = client[s]] /\ wire' = [wire EXCEPT ![s] = wire[s]]
        /\ conn' \subseteq Session /\ UNCHANGED <<pts, updates, tracked, handler>>
    BY <1>1, <1>3 DEF Connect
  <2>2. knowsMore(client[s], client[s])
    BY DEF knowsMore
  <2> QED BY <1>1, <2>1, <2>2, ClientStepKeeps
<1> QED BY <1>2, <1>3

\* The first message of the wire of s, and what is behind it.
LEMMA WireFacts ==
    ASSUME Inv, NEW s \in Session, wire[s] # <<>>
    PROVE  /\ Head(wire[s]) = wire[s][1] /\ wire[s][1] \in WireMessage
           /\ messageOK(updates[owner[s]], pts[owner[s]], client[s], wire[s][1])
           /\ Tail(wire[s]) \in Seq(WireMessage)
           /\ \A k \in DOMAIN Tail(wire[s]) : \E j \in DOMAIN wire[s] : Tail(wire[s])[k] = wire[s][j]
<1>1. wire[s] \in Seq(WireMessage)
  BY DEF Inv, TypeOK
<1>2. /\ Head(wire[s]) = wire[s][1] /\ wire[s][1] \in WireMessage /\ 1 \in DOMAIN wire[s]
      /\ Tail(wire[s]) \in Seq(WireMessage)
      /\ \A k \in DOMAIN Tail(wire[s]) : k + 1 \in DOMAIN wire[s] /\ Tail(wire[s])[k] = wire[s][k + 1]
  BY <1>1, RestOfQueue
<1> QED BY <1>2 DEF Inv

\* An update that fits brings the client to the next entry of its log, or past a
\* position that it takes for one.
LEMMA UpdateFits ==
    ASSUME NEW log, NEW z, logOK(log, z), NEW c \in ClientState, clientOK(log, z, c.pts, c),
           NEW m \in WireMessage, updateOK(log, m), m.ptsCount > 0, m.pts = c.pts + m.ptsCount,
           NEW d \in ClientState, d.pts = m.pts, d.have = c.have \cup m.entries, d.lost = c.lost,
           d.foreign = c.foreign \cup ({m.pts} \ m.entries)
    PROVE  clientOK(log, z, d.pts, d)
<1> DEFINE at == m.pts
           n == m.ptsCount
<1>1. z \in Nat /\ \A q \in endsOf(log) : q \in Nat /\ q <= z
  BY EndsNat DEF logOK
<1>2. at \in Nat /\ n \in Nat /\ c.pts \in Nat /\ n > 0 /\ at = c.pts + n
  BY Constants DEF WireMessage, ClientState
<1>3. passed(log, z, seen(c), c.pts) /\ c.have \subseteq endsOf(log)
  BY DEF clientOK
<1>4. seen(c) \subseteq seen(d) /\ at \in seen(d)
  BY DEF seen
<1>5. CASE isEntry(log, at, n) /\ m.entries = {at}
  <2>1. PICK k \in DOMAIN log : log[k].pts = at /\ log[k].ptsCount = n
    BY <1>5 DEF isEntry
  <2>2. at \in endsOf(log) /\ \A q \in endsOf(log) : q <= at - n \/ q >= at
    BY <2>1 DEF logOK, endsOf
  <2>3. ASSUME NEW q \in 1..at
        PROVE  q \in seen(d) \/ (q <= z /\ q \notin endsOf(log))
    <3>1. CASE q <= c.pts
      BY <1>2, <1>3, <1>4, <3>1 DEF passed
    <3>2. CASE q > c.pts /\ q < at
      BY <1>1, <1>2, <2>2, <3>2
    <3>3. CASE q = at
      BY <1>4, <3>3
    <3> QED BY <1>2, <3>1, <3>2, <3>3
  <2> QED BY <1>3, <1>5, <2>2, <2>3 DEF clientOK, passed
<1>6. CASE n = 1 /\ m.entries = {}
  <2>1. ASSUME NEW q \in 1..at
        PROVE  q \in seen(d) \/ (q <= z /\ q \notin endsOf(log))
    <3>1. q <= c.pts \/ q = at
      BY <1>2, <1>6
    <3> QED BY <1>2, <1>3, <1>4, <3>1 DEF passed
  <2> QED BY <1>3, <1>6, <2>1 DEF clientOK, passed
<1> QED BY <1>2, <1>5, <1>6 DEF updateOK

\* What the network delivers.
LEMMA ReceiveKeeps ==
    ASSUME Inv, NEW s \in Session, Receive(s)
    PROVE  Inv'
<1> DEFINE m == wire[s][1]
           w == Tail(wire[s])
           log == updates[owner[s]]
           z == pts[owner[s]]
           old == client[s]
<1>1. /\ wire[s] # <<>> /\ UNCHANGED <<pts, updates, tracked, conn, handler>>
  BY DEF Receive
<1>2. /\ Head(wire[s]) = m /\ m \in WireMessage
      /\ messageOK(log, z, old, m) /\ w \in Seq(WireMessage)
      /\ \A k \in DOMAIN w : \E j \in DOMAIN wire[s] : w[k] = wire[s][j]
  BY <1>1, WireFacts
<1>3. /\ wire' = [wire EXCEPT ![s] = w] /\ conn' \subseteq Session
      /\ IF m.kind = "update" THEN ApplyUpdate(s, m) ELSE ApplyDifference(s, m)
  BY <1>1, <1>2 DEF Receive, Inv, TypeOK
<1> HIDE DEF m, w
<1>4. /\ client \in [Session -> ClientState] /\ old \in ClientState
      /\ clientOK(log, z, old.pts, old) /\ owner[s] \in User /\ logOK(log, z)
  BY Constants DEF Inv, TypeOK
<1>5. /\ m.kind \in {"update", "difference"} /\ m.pts \in Position /\ m.ptsCount \in Position
      /\ m.entries \in SUBSET Position /\ m.lost \in SUBSET Position
  BY <1>2 DEF WireMessage
<1>6. SUFFICES \E c \in ClientState :
          /\ client' = [client EXCEPT ![s] = c] /\ knowsMore(old, c)
          /\ clientOK(log, z, c.pts, c)
  BY <1>1, <1>2, <1>3, ClientStepKeeps
<1>7. CASE m.kind = "update"
  <2> DEFINE wanted == m.of \in {Nobody, old.wait}
             apply == wanted /\ ~old.fetching /\ m.ptsCount > 0 /\ m.pts = old.pts + m.ptsCount
             at == IF apply THEN m.pts ELSE old.pts
             have == IF apply THEN old.have \cup m.entries ELSE old.have
             foreign == IF apply THEN old.foreign \cup ({m.pts} \ m.entries) ELSE old.foreign
             wait == IF m.of = old.wait THEN Nobody ELSE old.wait
             c == [old EXCEPT !.pts = at, !.have = have, !.foreign = foreign, !.wait = wait]
  <2>1. client' = [client EXCEPT ![s] = c]
    BY <1>3, <1>4, <1>7 DEF ApplyUpdate
  <2>2. /\ old.pts \in Position /\ old.have \in SUBSET Position /\ old.foreign \in SUBSET Position
        /\ old.wait \in Handler \cup {Nobody}
    BY <1>4 DEF ClientState
  <2>3. at \in Position /\ have \in SUBSET Position /\ wait \in Handler \cup {Nobody}
        /\ foreign \in SUBSET Position
    BY <1>5, <2>2
  <2>4. old.have \subseteq have /\ old.foreign \subseteq foreign
    OBVIOUS
  <2>5. apply => /\ at = m.pts /\ have = old.have \cup m.entries
                 /\ foreign = old.foreign \cup ({m.pts} \ m.entries)
    OBVIOUS
  <2>6. ~apply => at = old.pts /\ have = old.have /\ foreign = old.foreign
    OBVIOUS
  <2>7. apply => m.ptsCount > 0 /\ m.pts = old.pts + m.ptsCount
    OBVIOUS
  <2> HIDE DEF at, have, foreign, wait, apply
  <2>8. /\ c \in ClientState /\ c.pts = at /\ c.have = have /\ c.foreign = foreign
        /\ c.lost = old.lost
    BY <1>4, <2>3 DEF ClientState
  <2> HIDE DEF c
  <2>9. clientOK(log, z, c.pts, c)
    <3>1. CASE apply
      <4>1. m.ptsCount > 0 /\ m.pts = old.pts + m.ptsCount
        BY <2>7, <3>1
      <4>2. updateOK(log, m)
        BY <1>2, <1>7 DEF messageOK
      <4>3. /\ c.pts = m.pts /\ c.have = old.have \cup m.entries /\ c.lost = old.lost
            /\ c.foreign = old.foreign \cup ({m.pts} \ m.entries)
        BY <2>5, <2>8, <3>1
      <4> HIDE DEF old, log, z
      <4> QED BY <1>2, <1>4, <2>8, <4>1, <4>2, <4>3, UpdateFits
    <3>2. CASE ~apply
      BY <1>4, <2>6, <2>8, <3>2 DEF clientOK, seen
    <3> QED BY <3>1, <3>2
  <2>10. knowsMore(old, c)
    BY <2>4, <2>8 DEF knowsMore
  <2> QED BY <2>1, <2>8, <2>9, <2>10
<1>8. CASE m.kind = "difference" /\ m.of = old.wait
  <2> DEFINE c == [old EXCEPT !.pts = m.pts, !.have = old.have \cup m.entries,
                              !.lost = old.lost \cup m.lost,
                              !.wait = Nobody, !.fetching = FALSE]
  <2>1. client' = [client EXCEPT ![s] = c]
    BY <1>3, <1>4, <1>8 DEF ApplyDifference, ClientState
  <2>2. /\ c \in ClientState /\ c.pts = m.pts /\ c.have = old.have \cup m.entries
        /\ c.lost = old.lost \cup m.lost /\ c.foreign = old.foreign
    BY <1>4, <1>5 DEF ClientState
  <2> HIDE DEF c
  <2>3. differenceOK(log, z, old, m)
    BY <1>2, <1>8 DEF messageOK
  <2>4. seen(c) = seen(old) \cup m.entries \cup m.lost
    BY <2>2 DEF seen
  <2>5. clientOK(log, z, c.pts, c)
    BY <1>4, <2>2, <2>3, <2>4 DEF clientOK, differenceOK
  <2>6. knowsMore(old, c)
    BY <2>2 DEF knowsMore
  <2> QED BY <2>1, <2>2, <2>5, <2>6
<1>9. CASE m.kind = "difference" /\ m.of # old.wait
  <2>1. client' = [client EXCEPT ![s] = old]
    BY <1>3, <1>4, <1>9 DEF ApplyDifference
  <2>2. knowsMore(old, old)
    BY DEF knowsMore
  <2> QED BY <1>4, <2>1, <2>2
<1> QED BY <1>5, <1>7, <1>8, <1>9

-----------------------------------------------------------------------------
(* The theorems *)

\* Nothing is logged, nobody is connected.
LEMMA InitInv ==
    ASSUME Init
    PROVE  Inv
<1> DEFINE none == <<>>
<1>1. /\ pts = [u \in User |-> 0] /\ updates = [u \in User |-> none]
      /\ tracked = {} /\ conn = {} /\ wire = [s \in Session |-> none]
      /\ handler = [h \in Handler |-> IdleHandler]
      /\ client = [s \in Session |-> [pts |-> 0, have |-> {}, lost |-> {}, foreign |-> {},
                                       fetching |-> FALSE, wait |-> Nobody]]
  BY DEF Init, Log!Init
<1>2. none \in Seq(Entry) /\ none \in Seq(WireMessage) /\ DOMAIN none = {} /\ Len(none) = 0
  OBVIOUS
<1> HIDE DEF none
<1>3. endsOf(none) = {}
  BY <1>2 DEF endsOf
<1>4. logOK(none, 0)
  BY <1>2, <1>3, Constants DEF logOK
<1>5. \A s \in Session : /\ client[s] \in ClientState /\ client[s].pts = 0 /\ client[s].have = {}
                         /\ owner[s] \in User /\ updates[owner[s]] = none /\ wire[s] = none
  BY <1>1, Constants DEF ClientState
<1>6. IdleHandler \in HandlerState /\ handlerOK(IdleHandler, updates, pts, client)
  BY IdleOK
<1>7. TypeOK
  <2>1. client \in [Session -> ClientState]
    BY <1>1, <1>5
  <2>2. updates \in [User -> Seq(Entry)]
    BY <1>1, <1>2
  <2> QED BY <1>1, <1>2, <1>6, <2>1, <2>2, Constants DEF TypeOK
<1>8. \A u \in User : logOK(updates[u], pts[u])
  BY <1>1, <1>4
<1>9. \A s \in Session : clientOK(updates[owner[s]], pts[owner[s]], client[s].pts, client[s])
  BY <1>3, <1>5 DEF clientOK, passed
<1>10. \A s \in Session : DOMAIN wire[s] = {}
  BY <1>2, <1>5
<1>11. \A h \in Handler : handlerOK(handler[h], updates, pts, client)
  BY <1>1, <1>6
<1> QED BY <1>7, <1>8, <1>9, <1>10, <1>11 DEF Inv

\* Every step keeps the invariant.
LEMMA NextKeeps ==
    ASSUME Inv, [Next]_vars
    PROVE  Inv'
<1>1. ASSUME NEW h \in Handler, NEW s \in Session, Write(h, s)
      PROVE  Inv'
  <2>1. ASSUME NEW peer \in User, messagesSendMessage(h, s, peer)
        PROVE  Inv'
    BY <2>1, SendKeeps
  <2>2. ASSUME NEW peer \in User, NEW named \in User, messagesEditMessage(h, s, peer, named)
        PROVE  Inv'
    BY <2>2, SendKeeps
  <2>3. ASSUME NEW peer \in User, NEW acked \in BOOLEAN, messagesReadHistory(h, s, peer, acked)
        PROVE  Inv'
    BY <2>3, ReadKeeps
  <2>4. ASSUME NEW n \in 0..MaxDelete, messagesDeleteMessages(h, s, n)
        PROVE  Inv'
    BY <2>4, DeleteKeeps
  <2> QED BY <1>1, <2>1, <2>2, <2>3, <2>4 DEF Write
<1>2. ASSUME NEW h \in Handler, HandlerStep(h)
      PROVE  Inv'
  <2>1. CASE readEntries(h)
    BY <2>1, ReadEntriesKeeps
  <2>2. CASE pushBegin(h)
    BY <2>2, PushBeginKeeps
  <2>3. ASSUME NEW t \in Session, NEW ok \in BOOLEAN, pushSend(h, t, ok)
        PROVE  Inv'
    BY <2>3, PushSendKeeps
  <2>4. CASE untrack(h)
    BY <2>4, UntrackKeeps
  <2>5. CASE SendResult(h)
    BY <2>5, SendResultKeeps
  <2> QED BY <1>2, <2>1, <2>2, <2>3, <2>4, <2>5 DEF HandlerStep
<1>3. ASSUME NEW h \in Handler, NEW s \in Session, updatesGetDifference(h, s)
      PROVE  Inv'
  BY <1>3, DifferenceKeeps
<1>4. ASSUME NEW s \in Session, Disconnect(s) \/ Connect(s)
      PROVE  Inv'
  BY <1>4, ConnectionKeeps
<1>5. ASSUME NEW s \in Session, Receive(s)
      PROVE  Inv'
  BY <1>5, ReceiveKeeps
<1>6. CASE UNCHANGED vars
  <2>1. UNCHANGED <<pts, updates, tracked, conn, wire, handler, client>>
    BY <1>6 DEF vars
  <2> QED BY <2>1 DEF Inv, TypeOK
<1> QED BY <1>1, <1>2, <1>3, <1>4, <1>5, <1>6, Constants DEF Next

\* The invariant holds of every execution.
THEOREM DeliveryHolds == Spec => []Inv
<1>1. Init => Inv
  BY InitInv
<1>2. Inv /\ [Next]_vars => Inv'
  BY NextKeeps
<1> QED BY <1>1, <1>2, PTL DEF Spec

\* The positions of an account's log, as the properties write them.
LEMMA EndsAre == \A u : ends(u) = endsOf(updates[u])
  BY DEF ends, endsAt, endsOf

\* Every variable holds values of its type.
THEOREM TypeCorrect == Spec => []TypeOK
<1>1. Inv => TypeOK
  BY DEF Inv
<1> QED BY <1>1, DeliveryHolds, PTL

\* Whatever pushes were lost, late, out of order or never made, a client misses of its
\* log up to its own pts only what differences left out and what another account's
\* update hides.
THEOREM OnlyExplainedMisses == Spec => []MissesExplained
<1>1. Inv => MissesExplained
  <2> SUFFICES ASSUME Inv, NEW s \in Session, NEW p \in ends(owner[s]), p <= client[s].pts
               PROVE  p \in client[s].have \cup client[s].lost \cup client[s].foreign
    BY DEF MissesExplained
  <2>1. owner[s] \in User /\ client[s] \in ClientState
    BY Constants DEF Inv, TypeOK
  <2>2. /\ logOK(updates[owner[s]], pts[owner[s]]) /\ p \in endsOf(updates[owner[s]])
        /\ passed(updates[owner[s]], pts[owner[s]], seen(client[s]), client[s].pts)
    BY <2>1, EndsAre DEF Inv, clientOK
  <2>3. p \in Nat /\ client[s].pts \in Nat
    BY <2>1, <2>2, EndsNat, Constants DEF ClientState
  <2>4. p # 0
    <3>1. PICK k \in DOMAIN updates[owner[s]] : updates[owner[s]][k].pts = p
      BY <2>2 DEF endsOf
    <3> QED BY <2>2, <3>1 DEF logOK
  <2> QED BY <2>2, <2>3, <2>4 DEF passed, seen
<1> QED BY <1>1, DeliveryHolds, PTL

\* No client is between two entries or ahead of its account, but for where another
\* account's update brought it.
THEOREM ClientsInStep == Spec => []ClientInStep
<1>1. Inv => ClientInStep
  BY EndsAre DEF Inv, clientOK, ClientInStep
<1> QED BY <1>1, DeliveryHolds, PTL
=============================================================================
