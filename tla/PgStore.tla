------------------------------ MODULE PgStore ------------------------------
(***************************************************************************)
(* The messaging half of the Postgres store, internal/db: the same tables  *)
(* as MessageStore, changed by transactions that interleave statement by   *)
(* statement under READ COMMITTED, the isolation pool.Begin asks for.      *)
(*                                                                         *)
(* A statement reads what is committed when it starts; an UPDATE waits for *)
(* the row locks of other transactions and keeps its own until the         *)
(* transaction ends.  What a transaction writes is kept in tx[t] and       *)
(* reaches the tables at its commit.  Inserts take no lock another         *)
(* statement of this code waits for (foreign keys only share the key).     *)
(* Locking, the wait graph and its deadlock victim are Postgres, external. *)
(***************************************************************************)
EXTENDS Integers, Sequences, FiniteSets

CONSTANTS
    User, NoUser, Text, RandomID,
    Tx,            \* connections of the pool: transactions in progress
    KnownReads,    \* TRUE: clients read up to an id they were given
    MaxOps,        \* bound: operations ever begun
    MaxDelete      \* bound: ids in one DeleteMessages

ASSUME PgAssumption ==
    /\ NoUser \notin User /\ KnownReads \in BOOLEAN
    /\ MaxOps \in Nat /\ MaxDelete \in Nat

VARIABLES
    messages, lastMessageID, pts, refs, updates,   \* as in MessageStore
    sequence,      \* last value of messages.global_id's sequence
    tx,            \* tx[t]: the transaction on connection t
    held,          \* held[t]: the rows it has locked
    begun          \* operations begun so far

vars == <<messages, lastMessageID, pts, refs, updates, sequence, tx, held, begun>>
tables == <<messages, lastMessageID, pts, refs, updates>>

Mem == INSTANCE MessageStore WITH MaxMessages <- MaxOps, MaxPts <- MaxOps * (MaxDelete + 1)

userRow(u) == <<"user", u>>
messageRow(g) == <<"message", g>>
refRow(u, i) == <<"ref", u, i>>

NoTx == [op |-> "none", pc |-> "idle", self |-> NoUser, peer |-> NoUser,
         message |-> <<>>, globalID |-> 0, todo |-> <<>>, deleted |-> <<>>,
         maxID |-> 0, outboxMaxID |-> 0, read |-> {}, given |-> <<>>]

-----------------------------------------------------------------------------
(* Row locks (external) *)

\* Every one of the rows is free, or t's own.
lockable(t, rows) == \A s \in Tx \ {t} : held[s] \cap rows = {}

lock(t, rows) ==
    /\ lockable(t, rows)
    /\ held' = [held EXCEPT ![t] = @ \cup rows]

\* The rows the next statement of t updates.
needs(t) ==
    LET x == tx[t]
    IN  CASE x.pc = "self" -> {userRow(x.self)}
          [] x.pc = "peer" -> {userRow(x.peer)}
          [] x.pc = "update" -> {messageRow(x.globalID)}
          [] x.pc = "delete" -> {messageRow(refs[x.self][i].globalID) :
                                    i \in {Head(x.todo)} \cap DOMAIN refs[x.self]}
          [] x.pc = "mark" -> {refRow(x.self, i) : i \in x.read}
          [] OTHER -> {}

waitsFor(t, s) == s # t /\ needs(t) \cap held[s] # {}

\* t is in a set of transactions that wait for one another.
deadlocked(t) ==
    \E D \in SUBSET Tx :
        /\ t \in D
        /\ \A d \in D : \E e \in D : waitsFor(d, e)
        /\ \A d \in D : \E e \in D : waitsFor(e, d)

\* Mutant of end: the transaction is never rolled back, its locks stay.
end_leaked(t) == tx' = [tx EXCEPT ![t] = NoTx] /\ UNCHANGED held

\* The transaction ends, with no trace in the tables: rolled back.
end(t) ==
    /\ tx' = [tx EXCEPT ![t] = NoTx]
    /\ held' = [held EXCEPT ![t] = {}]

begin(t, x) ==
    /\ tx[t].pc = "idle"
    /\ begun < MaxOps
    /\ begun' = begun + 1
    /\ tx' = [tx EXCEPT ![t] = x]

-----------------------------------------------------------------------------
(* The operations, up to their first statement *)

\* The sequence's next value, one per call whether or not the transaction commits.
nextGlobalID(s) == s + 1

\* SendMessage inserts the canonical message: the sequence gives its global id and
\* does not take it back when the transaction fails.
SendMessage(t, from, peer, text, randomID) ==
    /\ begin(t, [NoTx EXCEPT !.op = "send", !.pc = "self", !.self = from, !.peer = peer,
                             !.globalID = nextGlobalID(sequence),
                             !.message = [from |-> from, peer |-> peer, text |-> text,
                                          randomID |-> randomID, deleted |-> FALSE]])
    /\ sequence' = sequence + 1
    /\ UNCHANGED <<tables, held>>

\* EditMessage looks the reference up; without one it returns ErrMessageID.
EditMessage(t, self, localID, text) ==
    /\ localID \in DOMAIN refs[self]
    /\ LET g == refs[self][localID].globalID
       IN  begin(t, [NoTx EXCEPT !.op = "edit", !.pc = "update", !.self = self,
                                 !.globalID = g,
                                 !.message = [messages[g] EXCEPT !.text = text]])
    /\ UNCHANGED <<tables, held, sequence>>

DeleteMessages(t, self, localIDs) ==
    /\ begin(t, [NoTx EXCEPT !.op = "delete", !.pc = "delete", !.self = self,
                             !.todo = localIDs])
    /\ UNCHANGED <<tables, held, sequence>>

\* ReadHistory first selects the peer's largest own id among the messages to read.
ReadHistory(t, self, peer, maxID) ==
    /\ KnownReads => maxID <= lastMessageID[self]
    /\ begin(t, [NoTx EXCEPT !.op = "read", !.pc = "match", !.self = self, !.peer = peer,
                             !.maxID = maxID,
                             !.outboxMaxID = Mem!maxOf(Mem!ackedIDs(self, peer, maxID))])
    /\ UNCHANGED <<tables, held, sequence>>

-----------------------------------------------------------------------------
(* The statements that follow *)

\* Mutant of editable: judged by what was read before the lock.
editable_before(x) == x.message.from = x.self /\ ~x.message.deleted

\* The condition of EditMessage's UPDATE.
editable(x) == LET m == messages[x.globalID] IN m.from = x.self /\ ~m.deleted

\* EditMessage's UPDATE of the row, its condition checked on the row as it is once
\* the lock is granted; no row: ErrMessageID and rollback.
updateMessage(t) ==
    LET x == tx[t]
    IN  /\ x.pc = "update"
        /\ lockable(t, needs(t))
        /\ IF editable(x)
           THEN /\ lock(t, needs(t))
                /\ tx' = [tx EXCEPT ![t].pc = "self", ![t].peer = messages[x.globalID].peer]
           ELSE end(t)
        /\ UNCHANGED <<tables, sequence, begun>>

\* One turn of DeleteMessages' loop: an id without a reference is skipped.
deleteMessage(t) ==
    LET x == tx[t]
        found == Head(x.todo) \in DOMAIN refs[x.self]
        deleted == IF found THEN Append(x.deleted, Head(x.todo)) ELSE x.deleted
    IN  /\ x.pc = "delete"
        /\ lock(t, needs(t))
        /\ tx' = [tx EXCEPT ![t].todo = Tail(@), ![t].deleted = deleted,
                            ![t].pc = IF Len(x.todo) > 1 THEN "delete"
                                      ELSE IF deleted = <<>> THEN "commit" ELSE "self"]
        /\ UNCHANGED <<tables, sequence, begun>>

\* ReadHistory's UPDATE: the rows it will mark are those of its own, later, snapshot...
matchRefs(t) ==
    /\ tx[t].pc = "match"
    /\ tx' = [tx EXCEPT ![t].pc = "mark",
                        ![t].read = Mem!readIDs(tx[t].self, tx[t].peer, tx[t].maxID)]
    /\ UNCHANGED <<tables, held, sequence, begun>>

\* ...and it marks them when their locks are free.  Postgres takes the locks row by row;
\* here they are taken together, once the last is free.  A row locked earlier could not
\* change, and what row by row adds is longer waits, and cycles of them that Postgres
\* ends by a rollback, which may strike here anyway.
markRead(t) ==
    /\ tx[t].pc = "mark"
    /\ lock(t, needs(t))
    /\ tx' = [tx EXCEPT ![t].pc = "self"]
    /\ UNCHANGED <<tables, sequence, begun>>

\* Whom besides the caller the operation gives a pts: after a read only a peer of
\* whose messages some were covered.
notifiesPeer(x) ==
    /\ x.peer # x.self
    /\ \/ x.op \in {"send", "edit"}
       \/ x.op = "read" /\ x.outboxMaxID > 0

\* allocate and allocatePts: the counters of the locked users row move on.
allocated(x, u) ==
    [pts |-> pts[u] + (IF x.op = "delete" THEN Len(x.deleted) ELSE 1),
     localID |-> lastMessageID[u] + (IF x.op = "send" THEN 1 ELSE 0)]

give(x, u) == [v \in DOMAIN x.given \cup {u} |-> IF v = u THEN allocated(x, u) ELSE x.given[v]]

\* Mutants of allocateSelf: the counters are read without the row's lock; or they are
\* advanced in a transaction of their own.
allocateSelf_unlocked(t) ==
    LET x == tx[t] IN
    /\ x.pc = "self"
    /\ tx' = [tx EXCEPT ![t].given = give(x, x.self),
                        ![t].pc = IF notifiesPeer(x) THEN "peer" ELSE "commit"]
    /\ UNCHANGED <<tables, held, sequence, begun>>

allocateSelf_apart(t) ==
    LET x == tx[t] IN
    /\ x.pc = "self"
    /\ lockable(t, needs(t))
    /\ tx' = [tx EXCEPT ![t].given = give(x, x.self),
                        ![t].pc = IF notifiesPeer(x) THEN "peer" ELSE "commit"]
    /\ pts' = [pts EXCEPT ![x.self] = allocated(x, x.self).pts]
    /\ lastMessageID' = [lastMessageID EXCEPT ![x.self] = allocated(x, x.self).localID]
    /\ UNCHANGED <<messages, refs, updates, held, sequence, begun>>

allocateSelf(t) ==
    LET x == tx[t] IN
    /\ x.pc = "self"
    /\ lock(t, needs(t))
    /\ tx' = [tx EXCEPT ![t].given = give(x, x.self),
                        ![t].pc = IF notifiesPeer(x) THEN "peer" ELSE "commit"]
    /\ UNCHANGED <<tables, sequence, begun>>

\* Mutant of allocatePeer: the recipient's counters are read without the row's lock.
allocatePeer_unlocked(t) ==
    LET x == tx[t] IN
    /\ x.pc = "peer"
    /\ tx' = [tx EXCEPT ![t].given = give(x, x.peer), ![t].pc = "commit"]
    /\ UNCHANGED <<tables, held, sequence, begun>>

allocatePeer(t) ==
    LET x == tx[t] IN
    /\ x.pc = "peer"
    /\ lock(t, needs(t))
    /\ tx' = [tx EXCEPT ![t].given = give(x, x.peer), ![t].pc = "commit"]
    /\ UNCHANGED <<tables, sequence, begun>>

\* The log entry the transaction inserts for u.
entry(x, u) ==
    LET p == x.given[u].pts
    IN  CASE x.op = "send" -> Mem!MessageEntry(p, "new", x.globalID)
          [] x.op = "edit" -> Mem!MessageEntry(p, "edit", x.globalID)
          [] x.op = "delete" -> Mem!DeleteEntry(p, Len(x.deleted),
                                    {x.deleted[k] : k \in DOMAIN x.deleted})
          [] x.op = "read" -> IF u = x.self
                              THEN Mem!ReadEntry(p, "readinbox", x.peer, x.maxID)
                              ELSE Mem!ReadEntry(p, "readoutbox", x.self, x.outboxMaxID)

writtenMessages(x) ==
    CASE x.op = "send" -> Mem!putRef(messages, x.globalID, x.message)
      [] x.op = "edit" -> [messages EXCEPT ![x.globalID].text = x.message.text]
      [] x.op = "delete" ->
            [g \in DOMAIN messages |-> [messages[g] EXCEPT !.deleted =
                @ \/ \E k \in DOMAIN x.deleted : refs[x.self][x.deleted[k]].globalID = g]]
      [] x.op = "read" -> messages

writtenRefs(x, u) ==
    CASE x.op = "send" /\ u \in DOMAIN x.given ->
            Mem!putRef(refs[u], x.given[u].localID,
                       [globalID |-> x.globalID, out |-> u = x.self, unread |-> u # x.self])
      [] x.op = "read" /\ u = x.self ->
            [i \in DOMAIN refs[u] |->
                IF i \in x.read THEN [refs[u][i] EXCEPT !.unread = FALSE] ELSE refs[u][i]]
      [] OTHER -> refs[u]

\* tx.Commit: the writes of the transaction become visible, its locks are released.
Commit(t) ==
    LET x == tx[t]
        G == DOMAIN x.given
    IN  /\ x.pc = "commit"
        /\ messages' = writtenMessages(x)
        /\ refs' = [u \in User |-> writtenRefs(x, u)]
        /\ pts' = [u \in User |-> IF u \in G THEN x.given[u].pts ELSE pts[u]]
        /\ lastMessageID' = [u \in User |->
                IF u \in G THEN x.given[u].localID ELSE lastMessageID[u]]
        /\ updates' = [u \in User |->
                IF u \in G THEN Append(updates[u], entry(x, u)) ELSE updates[u]]
        /\ end(t)
        /\ UNCHANGED <<sequence, begun>>

\* A statement or the commit fails (connection lost, context cancelled): the
\* deferred Rollback.
Rollback(t) ==
    /\ tx[t].pc # "idle"
    /\ end(t)
    /\ UNCHANGED <<tables, sequence, begun>>

\* Postgres aborts a transaction in a cycle of waits; its operation returns the error.
DeadlockVictim(t) ==
    /\ deadlocked(t)
    /\ end(t)
    /\ UNCHANGED <<tables, sequence, begun>>

-----------------------------------------------------------------------------
Init ==
    /\ Mem!Init
    /\ sequence = 0
    /\ tx = [t \in Tx |-> NoTx]
    /\ held = [t \in Tx |-> {}]
    /\ begun = 0

LocalID == 1..MaxOps

Begin(t) ==
    \/ \E from, peer \in User, text \in Text, randomID \in RandomID :
            SendMessage(t, from, peer, text, randomID)
    \/ \E self \in User, i \in LocalID, text \in Text : EditMessage(t, self, i, text)
    \/ \E self \in User, n \in 1..MaxDelete : \E localIDs \in [1..n -> LocalID] :
            DeleteMessages(t, self, localIDs)
    \/ \E self, peer \in User, maxID \in LocalID : ReadHistory(t, self, peer, maxID)

Statement(t) ==
    \/ updateMessage(t) \/ deleteMessage(t) \/ matchRefs(t) \/ markRead(t)
    \/ allocateSelf(t) \/ allocatePeer(t) \/ Commit(t)

Next ==
    \E t \in Tx : Begin(t) \/ Statement(t) \/ Rollback(t) \/ DeadlockVictim(t)

Spec == Init /\ [][Next]_vars

\* Every statement that can run does, and Postgres resolves a deadlock.  Nothing
\* need fail by itself, and nobody need begin another operation.
FairSpec == Spec /\ \A t \in Tx : WF_vars(Statement(t)) /\ WF_vars(DeadlockVictim(t))

-----------------------------------------------------------------------------
(* Properties *)

\* The store implements the update stream: commits extend each log by an entry that
\* starts where the account's pts stood, although the pts was given out some
\* statements before the commit (allocate under the users row lock).
UpdateStream == Mem!UpdateStream

\* No commit rebinds an id, unreads or undeletes a message, or edits a deleted one:
\* EditMessage's condition is on the locked row, not on what it read before.
CopiesPersist == Mem!CopiesPersist

\* Between two commits the tables are as the in-memory store keeps them, rollbacks and
\* deadlocks notwithstanding: one copy per participant and no local id skipped, a log
\* that tells of each message once and of every edit to both, receipts for exactly what
\* was read, and unread flags as the log has it.  The last two need KnownReads: the
\* receipt and the marks come from two snapshots.
AsInMemory ==
    /\ Mem!CopiesMatch
    /\ Mem!LogTellsMessages
    /\ Mem!ReceiptsExact
    /\ Mem!UnreadFollowsLog

\* Two accounts hold the messages they share in the same order of local ids,
\* although each send takes the two ids in two statements and global ids do not
\* follow the order of commits.
ConversationOrder ==
    \A u, v \in User : \A i, j \in DOMAIN refs[u], k, l \in DOMAIN refs[v] :
        (   /\ refs[u][i].globalID = refs[v][k].globalID
            /\ refs[u][j].globalID = refs[v][l].globalID
            /\ i < j)
        => k < l

\* Every operation ends: two sends in opposite directions lock the users rows in
\* opposite orders, and one of them fails rather than both hang.
EveryTxEnds == \A t \in Tx : tx[t].pc # "idle" ~> tx[t].pc = "idle"
=============================================================================
