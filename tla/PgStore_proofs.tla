--------------------------- MODULE PgStore_proofs ---------------------------
(***************************************************************************)
(* Proofs about PgStore, for every set of users, texts and connections and *)
(* every bound.  A commit is shown to be a step of a store in the sense of *)
(* MessageStore_proofs, whose lemmas then say what it keeps.  That rests   *)
(* on what each transaction in progress may rely on: the rows it has       *)
(* locked do not change under it.                                          *)
(***************************************************************************)
EXTENDS PgStore, FiniteSetTheorems, SequenceTheorems, WellFoundedInduction, TLAPS

\* The lemmas about the steps of a store, for these tables.
P == INSTANCE MessageStore_proofs WITH MaxMessages <- MaxOps, MaxPts <- MaxOps * (MaxDelete + 1)

-----------------------------------------------------------------------------
(* The invariant *)

Alloc == [pts : Nat, localID : Nat]
Given == UNION {[D -> Alloc] : D \in SUBSET User}

\* A transaction in progress, or none.
Txn == [op : {"none", "send", "edit", "delete", "read"},
        pc : {"idle", "update", "delete", "match", "mark", "self", "peer", "commit"},
        self : User \cup {NoUser}, peer : User \cup {NoUser},
        message : P!Message \cup {<<>>}, globalID : Nat, todo : Seq(Nat), deleted : Seq(Nat),
        maxID : Nat, outboxMaxID : Nat, read : SUBSET Nat, given : Given]

\* The accounts whose counters the transaction has advanced.
allotted(x) ==
    CASE x.pc = "peer" -> {x.self}
      [] x.pc = "commit" ->
            IF x.op = "delete" /\ x.deleted = <<>> THEN {}
            ELSE IF notifiesPeer(x) THEN {x.self, x.peer} ELSE {x.self}
      [] OTHER -> {}

\* What it has been given is still what the counters say: their rows are locked.
givenOK(x, h) ==
    /\ DOMAIN x.given = allotted(x)
    /\ \A u \in DOMAIN x.given : userRow(u) \in h /\ x.given[u] = allocated(x, u)
    /\ x.pc = "peer" => notifiesPeer(x)

\* A send's global id is nobody else's.
sendOK(x) == x.op = "send" =>
    /\ x.self \in User /\ x.peer \in User /\ x.pc \in {"self", "peer", "commit"}
    /\ x.message \in P!Message /\ x.message.from = x.self /\ x.message.peer = x.peer
    /\ x.globalID \in 1..sequence /\ x.globalID \notin DOMAIN messages

\* An edit past its UPDATE holds the message's row, which is still editable.
editOK(x, h) == x.op = "edit" =>
    /\ x.self \in User /\ x.pc \in {"update", "self", "peer", "commit"}
    /\ x.message \in P!Message /\ x.globalID \in DOMAIN messages
    /\ x.pc # "update" =>
          /\ messageRow(x.globalID) \in h /\ messages[x.globalID].from = x.self
          /\ messages[x.globalID].peer = x.peer /\ ~messages[x.globalID].deleted

\* A deletion holds the rows of the messages it has deleted.
deleteOK(x, h) == x.op = "delete" =>
    /\ x.self \in User /\ x.pc \in {"delete", "self", "commit"}
    /\ x.pc = "delete" => x.todo # <<>>
    /\ x.pc = "self" => x.deleted # <<>>
    /\ \A k \in DOMAIN x.deleted :
          /\ x.deleted[k] \in DOMAIN refs[x.self]
          /\ messageRow(refs[x.self][x.deleted[k]].globalID) \in h

\* A read's receipt is an id of the peer's; when its range was given out as it began,
\* both its snapshots are what they would be now.
readOK(x) == x.op = "read" =>
    /\ x.self \in User /\ x.peer \in User /\ x.pc \in {"match", "mark", "self", "peer", "commit"}
    /\ x.outboxMaxID <= lastMessageID[x.peer]
    /\ KnownReads =>
          /\ x.maxID <= lastMessageID[x.self]
          /\ x.outboxMaxID = P!maxOf(P!ackedIDs(x.self, x.peer, x.maxID))
          /\ x.pc # "match" => x.read = P!readIDs(x.self, x.peer, x.maxID)

\* All a transaction x that holds the rows h relies on.
txOK(x, h) ==
    /\ givenOK(x, h) /\ sendOK(x) /\ editOK(x, h) /\ deleteOK(x, h) /\ readOK(x)
    /\ x.op = "none" <=> x.pc = "idle"

\* (The values of tx[t] and held[t] are named, so that the transaction of another
\* connection is the same constant before and after a step.)
TxsOK == \A t \in Tx : \A x, h : x = tx[t] /\ h = held[t] => txOK(x, h)

\* No row is locked twice.
LocksApart == \A s, t \in Tx : s # t => held[s] \cap held[t] = {}

\* No two sends in progress have the same global id.
SendsApart ==
    \A s, t \in Tx : s # t /\ tx[s].op = "send" /\ tx[t].op = "send"
        => tx[s].globalID # tx[t].globalID

\* The transactions, their types, and the global ids given out.
TxTypes ==
    /\ tx \in [Tx -> Txn] /\ held = [t \in Tx |-> held[t]] /\ sequence \in Nat
    /\ DOMAIN messages \subseteq 1..sequence

TxInv == TxTypes /\ TxsOK /\ LocksApart /\ SendsApart

PgInv == P!StoreInv /\ (KnownReads => P!ReadsInv) /\ TxInv

-----------------------------------------------------------------------------
(* Transactions and their types *)

\* The bounds of the store whose lemmas are used.
LEMMA StoreBounds ==
    /\ NoUser \notin User
    /\ MaxOps \in Nat /\ MaxOps * (MaxDelete + 1) \in Nat /\ MaxDelete \in Nat
  BY PgAssumption

\* No transaction.
LEMMA NoTxType == NoTx \in Txn /\ DOMAIN NoTx.given = {} /\ NoTx.op = "none" /\ NoTx.pc = "idle"
<1> DEFINE none == <<>>
<1>1. none \in Seq(Nat) /\ DOMAIN none = {}
  OBVIOUS
<1>2. none \in Given
  <2>1. none \in [{} -> Alloc]
    OBVIOUS
  <2>2. {} \in SUBSET User
    OBVIOUS
  <2> QED BY <2>1, <2>2 DEF Given
<1>3. NoTx = [op |-> "none", pc |-> "idle", self |-> NoUser, peer |-> NoUser,
              message |-> none, globalID |-> 0, todo |-> none, deleted |-> none,
              maxID |-> 0, outboxMaxID |-> 0, read |-> {}, given |-> none]
  BY DEF NoTx
<1>4. none \in P!Message \cup {<<>>}
  OBVIOUS
<1> HIDE DEF none
<1> QED BY <1>1, <1>2, <1>3, <1>4 DEF Txn

\* Nothing is asked of no transaction.
LEMMA NoTxOK == \A h : txOK(NoTx, h)
<1>1. DOMAIN NoTx.given = {} /\ NoTx.op = "none" /\ NoTx.pc = "idle"
  BY NoTxType
<1>2. allotted(NoTx) = {}
  BY <1>1 DEF allotted
<1> QED BY <1>1, <1>2 DEF txOK, givenOK, sendOK, editOK, deleteOK, readOK

\* A transaction on its connection.
LEMMA TxOn ==
    ASSUME TxInv, NEW t \in Tx
    PROVE  tx[t] \in Txn /\ txOK(tx[t], held[t])
<1>1. tx[t] \in Txn
  BY DEF TxInv, TxTypes
<1>2. \A x, h : x = tx[t] /\ h = held[t] => txOK(x, h)
  BY DEF TxInv, TxsOK
<1> QED BY <1>1, <1>2

\* A statement that writes no table disturbs nobody.
LEMMA QuietOK ==
    ASSUME NEW x, NEW h, txOK(x, h), UNCHANGED tables,
           sequence \in Nat, sequence' \in Nat, sequence <= sequence'
    PROVE  txOK(x, h)'
<1>1. /\ messages' = messages /\ lastMessageID' = lastMessageID /\ pts' = pts
      /\ refs' = refs /\ updates' = updates
  BY DEF tables
<1>2. 1..sequence \subseteq 1..sequence'
  OBVIOUS
<1>3. givenOK(x, h)'
  BY <1>1 DEF txOK, givenOK, allocated
<1>4. sendOK(x)' /\ editOK(x, h)'
  BY <1>1, <1>2 DEF txOK, sendOK, editOK
<1>5. deleteOK(x, h)'
  BY <1>1 DEF txOK, deleteOK
<1>6. readOK(x)'
  <2>1. /\ P!readIDs(x.self, x.peer, x.maxID)' = P!readIDs(x.self, x.peer, x.maxID)
        /\ P!ackedIDs(x.self, x.peer, x.maxID)' = P!ackedIDs(x.self, x.peer, x.maxID)
    BY <1>1 DEF P!readIDs, P!ackedIDs
  <2> QED BY <1>1, <2>1 DEF txOK, readOK
<1> QED BY <1>3, <1>4, <1>5, <1>6 DEF txOK

\* A statement of t that writes no table: only t's own transaction is to be looked at.
LEMMA StatementKeeps ==
    ASSUME TxInv, NEW t \in Tx, UNCHANGED tables, sequence' \in Nat, sequence <= sequence',
           NEW y \in Txn, NEW k, tx' = [tx EXCEPT ![t] = y], held' = [held EXCEPT ![t] = k],
           txOK(y, k)', \A s \in Tx \ {t} : held[s] \cap k = {},
           y.op = "send" => \A s \in Tx \ {t} : tx[s].op = "send" => tx[s].globalID # y.globalID
    PROVE  TxInv'
<1>1. /\ tx \in [Tx -> Txn] /\ held = [s \in Tx |-> held[s]] /\ sequence \in Nat
      /\ DOMAIN messages \subseteq 1..sequence
  BY DEF TxInv, TxTypes
<1>2. /\ tx' \in [Tx -> Txn] /\ tx'[t] = y /\ \A s \in Tx \ {t} : tx'[s] = tx[s]
  BY <1>1
<1>3. /\ held' = [s \in Tx |-> held'[s]] /\ held'[t] = k
      /\ \A s \in Tx \ {t} : held'[s] = held[s]
  BY <1>1
<1>4. messages' = messages
  BY DEF tables
<1>5. TxTypes'
  BY <1>1, <1>2, <1>3, <1>4 DEF TxTypes
<1>6. ASSUME NEW s \in Tx, NEW x, NEW h, x = tx'[s], h = held'[s]
      PROVE  txOK(x, h)'
  <2>1. CASE s = t
    BY <1>2, <1>3, <1>6, <2>1
  <2>2. CASE s # t
    <3>1. x = tx[s] /\ h = held[s]
      BY <1>2, <1>3, <1>6, <2>2
    <3>2. txOK(x, h)
      BY <3>1 DEF TxInv, TxsOK
    <3> QED BY <1>1, <3>2, QuietOK
  <2> QED BY <2>1, <2>2
<1>7. TxsOK'
  BY <1>6 DEF TxsOK
<1>8. LocksApart'
  BY <1>3 DEF TxInv, LocksApart
<1>9. SendsApart'
  BY <1>2 DEF TxInv, SendsApart
<1> QED BY <1>5, <1>7, <1>8, <1>9 DEF TxInv

\* Ending a transaction.
LEMMA EndKeeps ==
    ASSUME TxInv, NEW t \in Tx, end(t), UNCHANGED <<tables, sequence>>
    PROVE  TxInv'
<1>1. tx' = [tx EXCEPT ![t] = NoTx] /\ held' = [held EXCEPT ![t] = {}]
  BY DEF end
<1>2. NoTx \in Txn /\ NoTx.op = "none"
  BY NoTxType
<1>3. sequence \in Nat /\ sequence' \in Nat /\ sequence <= sequence' /\ UNCHANGED tables
  BY DEF TxInv, TxTypes
<1>4. txOK(NoTx, {})'
  BY <1>3, NoTxOK, QuietOK
<1> QED BY <1>1, <1>2, <1>3, <1>4, StatementKeeps

\* Beginning one: it has locked and been given nothing.
LEMMA BeginKeeps ==
    ASSUME TxInv, NEW t \in Tx, NEW y \in Txn, begin(t, y), UNCHANGED tables, held' = held,
           sequence' \in Nat, sequence <= sequence', NEW k, k = held[t],
           DOMAIN y.given = {}, y.pc \in {"self", "update", "delete", "match"}, y.op # "none",
           sendOK(y)', editOK(y, k)', deleteOK(y, k)', readOK(y)',
           y.op = "send" => \A s \in Tx \ {t} : tx[s].op = "send" => tx[s].globalID # y.globalID
    PROVE  TxInv'
<1>1. tx' = [tx EXCEPT ![t] = y]
  BY DEF begin
<1>2. held' = [held EXCEPT ![t] = k] /\ \A s \in Tx \ {t} : held[s] \cap k = {}
  BY DEF TxInv, TxTypes, LocksApart
<1>3. allotted(y) = {}
  BY DEF allotted
<1>4. givenOK(y, k)'
  BY <1>3 DEF givenOK
<1>5. txOK(y, k)'
  BY <1>4 DEF txOK
<1> QED BY <1>1, <1>2, <1>5, StatementKeeps

\* SendMessage takes a global id nobody has.
LEMMA SendBegins ==
    ASSUME TxInv, NEW t \in Tx, NEW from \in User, NEW peer \in User, NEW text \in Text,
           NEW randomID \in RandomID, SendMessage(t, from, peer, text, randomID)
    PROVE  TxInv'
<1> DEFINE m == [from |-> from, peer |-> peer, text |-> text, randomID |-> randomID,
                 deleted |-> FALSE]
<1>1. PICK g : g = sequence + 1
  OBVIOUS
<1> DEFINE y == [NoTx EXCEPT !.op = "send", !.pc = "self", !.self = from, !.peer = peer,
                             !.globalID = g, !.message = m]
<1>2. begin(t, y) /\ sequence' = sequence + 1 /\ UNCHANGED tables /\ held' = held
  BY <1>1 DEF SendMessage, nextGlobalID
<1>3. m \in P!Message /\ m.from = from /\ m.peer = peer
  BY DEF P!Message
<1> HIDE DEF m
<1>4. sequence \in Nat /\ g \in Nat /\ sequence' \in Nat /\ sequence <= sequence'
      /\ DOMAIN messages \subseteq 1..sequence /\ g \in 1..sequence' /\ g \notin 1..sequence
  BY <1>1, <1>2 DEF TxInv, TxTypes
<1>5. /\ y \in Txn /\ DOMAIN y.given = {} /\ y.pc = "self" /\ y.op = "send" /\ y.self = from
      /\ y.peer = peer /\ y.globalID = g /\ y.message = m
  BY <1>3, <1>4, NoTxType DEF Txn
<1> HIDE DEF y
<1>6. sendOK(y)'
  BY <1>2, <1>3, <1>4, <1>5 DEF sendOK, tables
<1>7. \A k : editOK(y, k)' /\ deleteOK(y, k)' /\ readOK(y)'
  BY <1>5 DEF editOK, deleteOK, readOK
<1>8. ASSUME NEW s \in Tx \ {t}, tx[s].op = "send"
      PROVE  tx[s].globalID # y.globalID
  <2>1. txOK(tx[s], held[s])
    BY TxOn
  <2>2. tx[s].globalID \in 1..sequence
    BY <1>8, <2>1 DEF txOK, sendOK
  <2> QED BY <1>4, <1>5, <2>2
<1> QED BY <1>2, <1>4, <1>5, <1>6, <1>7, <1>8, BeginKeeps

\* EditMessage finds a message.
LEMMA EditBegins ==
    ASSUME P!Tables, TxInv, NEW t \in Tx, NEW self \in User, NEW localID \in Nat,
           NEW text \in Text, EditMessage(t, self, localID, text)
    PROVE  TxInv'
<1>1. PICK g, m : g = refs[self][localID].globalID /\ m = [messages[g] EXCEPT !.text = text]
  OBVIOUS
<1> DEFINE y == [NoTx EXCEPT !.op = "edit", !.pc = "update", !.self = self, !.globalID = g,
                             !.message = m]
<1>2. /\ localID \in DOMAIN refs[self] /\ begin(t, y) /\ sequence' = sequence /\ UNCHANGED tables
      /\ held' = held
  BY <1>1 DEF EditMessage
<1>3. g \in DOMAIN messages /\ g \in Nat /\ messages[g] \in P!Message
  BY <1>1, <1>2 DEF P!Tables
<1>4. m \in P!Message
  BY <1>1, <1>3 DEF P!Message
<1>5. /\ y \in Txn /\ DOMAIN y.given = {} /\ y.pc = "update" /\ y.op = "edit" /\ y.self = self
      /\ y.globalID = g /\ y.message = m
  BY <1>3, <1>4, NoTxType DEF Txn
<1> HIDE DEF y
<1>6. \A k : editOK(y, k)'
  BY <1>2, <1>3, <1>4, <1>5 DEF editOK, tables
<1>7. \A k : sendOK(y)' /\ deleteOK(y, k)' /\ readOK(y)'
  BY <1>5 DEF sendOK, deleteOK, readOK
<1>8. sequence' \in Nat /\ sequence <= sequence'
  BY <1>2 DEF TxInv, TxTypes
<1> QED BY <1>2, <1>5, <1>6, <1>7, <1>8, BeginKeeps

\* DeleteMessages begins with its list of ids.
LEMMA DeleteBegins ==
    ASSUME TxInv, NEW t \in Tx, NEW self \in User, NEW n \in Nat \ {0},
           NEW localIDs \in [1..n -> Nat], DeleteMessages(t, self, localIDs)
    PROVE  TxInv'
<1> DEFINE y == [NoTx EXCEPT !.op = "delete", !.pc = "delete", !.self = self, !.todo = localIDs]
<1>1. begin(t, y) /\ sequence' = sequence /\ UNCHANGED tables /\ held' = held
  BY DEF DeleteMessages
<1>2. localIDs \in Seq(Nat) /\ Len(localIDs) = n /\ localIDs # <<>>
  OBVIOUS
<1>3. /\ y \in Txn /\ DOMAIN y.given = {} /\ y.pc = "delete" /\ y.op = "delete" /\ y.self = self
      /\ y.todo = localIDs /\ y.deleted = NoTx.deleted
  BY <1>2, NoTxType DEF Txn
<1>4. DOMAIN NoTx.deleted = {}
  BY DEF NoTx
<1> HIDE DEF y
<1>5. \A k : deleteOK(y, k)'
  BY <1>1, <1>2, <1>3, <1>4 DEF deleteOK
<1>6. \A k : sendOK(y)' /\ editOK(y, k)' /\ readOK(y)'
  BY <1>3 DEF sendOK, editOK, readOK
<1>7. sequence' \in Nat /\ sequence <= sequence'
  BY <1>1 DEF TxInv, TxTypes
<1> QED BY <1>1, <1>3, <1>5, <1>6, <1>7, BeginKeeps

\* ReadHistory begins with the receipt of its first snapshot.
LEMMA ReadBegins ==
    ASSUME P!Tables, TxInv, NEW t \in Tx, NEW self \in User, NEW peer \in User, NEW maxID \in Nat,
           ReadHistory(t, self, peer, maxID)
    PROVE  TxInv'
<1>1. PICK o : o = P!maxOf(P!ackedIDs(self, peer, maxID))
  OBVIOUS
<1> DEFINE y == [NoTx EXCEPT !.op = "read", !.pc = "match", !.self = self, !.peer = peer,
                             !.maxID = maxID, !.outboxMaxID = o]
<1>2. o = Mem!maxOf(Mem!ackedIDs(self, peer, maxID))
  BY <1>1 DEF P!maxOf, P!ackedIDs, P!readIDs, P!other, Mem!maxOf, Mem!ackedIDs, Mem!readIDs,
              Mem!other
<1>3. /\ begin(t, y) /\ sequence' = sequence /\ UNCHANGED tables /\ held' = held
      /\ KnownReads => maxID <= lastMessageID[self]
  BY <1>2 DEF ReadHistory
<1>4. o \in Nat /\ o <= lastMessageID[peer]
  BY <1>1, StoreBounds, P!ExactReceipt
<1>5. /\ y \in Txn /\ DOMAIN y.given = {} /\ y.pc = "match" /\ y.op = "read" /\ y.self = self
      /\ y.peer = peer /\ y.maxID = maxID /\ y.outboxMaxID = o
  BY <1>4, NoTxType DEF Txn
<1> HIDE DEF y
<1>6. P!maxOf(P!ackedIDs(self, peer, maxID))' = o
  BY <1>1, <1>3 DEF tables, P!maxOf, P!ackedIDs, P!readIDs, P!other
<1>7. readOK(y)'
  BY <1>3, <1>4, <1>5, <1>6 DEF readOK, tables
<1>8. \A k : sendOK(y)' /\ editOK(y, k)' /\ deleteOK(y, k)'
  BY <1>5 DEF sendOK, editOK, deleteOK
<1>9. sequence' \in Nat /\ sequence <= sequence'
  BY <1>3 DEF TxInv, TxTypes
<1> QED BY <1>3, <1>5, <1>7, <1>8, <1>9, BeginKeeps

-----------------------------------------------------------------------------
(* The statements *)

\* Which operation is at which statement.
LEMMA OpAt ==
    ASSUME NEW x \in Txn, NEW h, txOK(x, h)
    PROVE  /\ x.pc = "update" => x.op = "edit"
           /\ x.pc = "delete" => x.op = "delete"
           /\ x.pc \in {"match", "mark"} => x.op = "read"
           /\ x.pc \in {"self", "peer", "commit"} => x.op \in {"send", "edit", "delete", "read"}
           /\ x.op \in {"send", "edit", "delete", "read"} => x.self \in User
           /\ x.op = "none" \/ x.op = "send" \/ x.op = "edit" \/ x.op = "delete" \/ x.op = "read"
<1>1. x.op \in {"none", "send", "edit", "delete", "read"}
  BY DEF Txn
<1> QED BY <1>1 DEF txOK, sendOK, editOK, deleteOK, readOK

\* The locks after a statement.
LEMMA LockApart ==
    ASSUME TxInv, NEW t \in Tx, NEW rows, lock(t, rows)
    PROVE  /\ held' = [held EXCEPT ![t] = held[t] \cup rows]
           /\ \A s \in Tx \ {t} : held[s] \cap (held[t] \cup rows) = {}
<1>1. held' = [held EXCEPT ![t] = held[t] \cup rows] /\ lockable(t, rows)
  BY DEF lock, TxInv, TxTypes
<1> QED BY <1>1 DEF lockable, TxInv, LocksApart

\* EditMessage's UPDATE: the row is locked, and its condition holds on the locked row.
LEMMA UpdateKeeps ==
    ASSUME P!Tables, TxInv, NEW t \in Tx, updateMessage(t)
    PROVE  TxInv'
<1>1. PICK x, h : x = tx[t] /\ h = held[t]
  OBVIOUS
<1>2. x \in Txn /\ txOK(x, h) /\ tx \in [Tx -> Txn]
  BY <1>1, TxOn DEF TxInv, TxTypes
<1>3. x.pc = "update" /\ x.op = "edit" /\ UNCHANGED <<tables, sequence>>
  BY <1>1, <1>2, OpAt DEF updateMessage
<1>4. CASE ~editable(x)
  <2>1. end(t)
    BY <1>1, <1>4 DEF updateMessage
  <2> QED BY <1>3, <2>1, EndKeeps
<1>5. CASE editable(x)
  <2>1. PICK g, p : g = x.globalID /\ p = messages[g].peer
    OBVIOUS
  <2> DEFINE y == [x EXCEPT !.pc = "self", !.peer = p]
             k == h \cup {messageRow(g)}
  <2>2. needs(t) = {messageRow(g)}
    BY <1>1, <1>3, <2>1 DEF needs
  <2>3. lock(t, {messageRow(g)}) /\ tx' = [tx EXCEPT ![t].pc = "self", ![t].peer = p]
    BY <1>1, <1>5, <2>1, <2>2 DEF updateMessage
  <2>4. tx' = [tx EXCEPT ![t] = y]
    BY <1>1, <1>2, <2>3
  <2>5. held' = [held EXCEPT ![t] = k] /\ \A s \in Tx \ {t} : held[s] \cap k = {}
    BY <1>1, <2>3, LockApart
  <2>6. /\ g \in DOMAIN messages /\ messages[g] \in P!Message
        /\ messages[g].from = x.self /\ ~messages[g].deleted
    BY <1>2, <1>3, <1>5, <2>1 DEF txOK, editOK, editable, P!Tables
  <2>7. p \in User
    BY <2>1, <2>6 DEF P!Message
  <2>8. /\ y \in Txn /\ y.op = "edit" /\ y.pc = "self" /\ y.peer = p /\ y.self = x.self
        /\ y.globalID = g /\ y.message = x.message /\ y.given = x.given
    BY <1>2, <1>3, <2>1, <2>7 DEF Txn
  <2> HIDE DEF y
  <2>9. messageRow(g) \in k
    OBVIOUS
  <2> HIDE DEF k
  <2>10. editOK(y, k)'
    <3>1. x.self \in User /\ x.message \in P!Message
      BY <1>2, <1>3 DEF txOK, editOK
    <3> QED BY <1>3, <2>1, <2>6, <2>8, <2>9, <3>1 DEF editOK, tables
  <2>11. sendOK(y)' /\ deleteOK(y, k)' /\ readOK(y)'
    BY <2>8 DEF sendOK, deleteOK, readOK
  <2>12. givenOK(y, k)'
    <3>1. allotted(x) = {} /\ allotted(y) = {}
      BY <1>3, <2>8 DEF allotted
    <3> QED BY <1>2, <2>8, <3>1 DEF txOK, givenOK
  <2>13. txOK(y, k)'
    BY <2>8, <2>10, <2>11, <2>12 DEF txOK
  <2>14. sequence' \in Nat /\ sequence <= sequence' /\ UNCHANGED tables
    BY <1>3 DEF TxInv, TxTypes
  <2> QED BY <2>4, <2>5, <2>8, <2>13, <2>14, StatementKeeps
<1> QED BY <1>4, <1>5

\* One turn of the deletion loop: the row of the message is locked.
LEMMA DeleteTurnKeeps ==
    ASSUME P!Tables, TxInv, NEW t \in Tx, deleteMessage(t)
    PROVE  TxInv'
<1>1. PICK x, h : x = tx[t] /\ h = held[t]
  OBVIOUS
<1>2. x \in Txn /\ txOK(x, h) /\ tx \in [Tx -> Txn]
  BY <1>1, TxOn DEF TxInv, TxTypes
<1>3. x.pc = "delete" /\ x.op = "delete" /\ UNCHANGED <<tables, sequence>>
  BY <1>1, <1>2, OpAt DEF deleteMessage
<1>4. /\ x.self \in User /\ x.todo # <<>> /\ x.todo \in Seq(Nat) /\ x.deleted \in Seq(Nat)
      /\ \A n \in DOMAIN x.deleted : /\ x.deleted[n] \in DOMAIN refs[x.self]
                                     /\ messageRow(refs[x.self][x.deleted[n]].globalID) \in h
  BY <1>2, <1>3 DEF txOK, deleteOK, Txn
<1>5. PICK i, d, p, rows :
        /\ i = Head(x.todo)
        /\ d = IF i \in DOMAIN refs[x.self] THEN Append(x.deleted, i) ELSE x.deleted
        /\ p = IF Len(x.todo) > 1 THEN "delete" ELSE IF d = <<>> THEN "commit" ELSE "self"
        /\ rows = {messageRow(refs[x.self][j].globalID) : j \in {i} \cap DOMAIN refs[x.self]}
  OBVIOUS
<1> DEFINE y == [x EXCEPT !.todo = Tail(x.todo), !.deleted = d, !.pc = p]
           k == h \cup rows
<1>6. needs(t) = rows
  BY <1>1, <1>3, <1>5 DEF needs
<1>7. /\ lock(t, rows)
      /\ tx' = [tx EXCEPT ![t].todo = Tail(@), ![t].deleted = d, ![t].pc = p]
  BY <1>1, <1>5, <1>6 DEF deleteMessage
<1>8. tx' = [tx EXCEPT ![t] = y]
  BY <1>1, <1>2, <1>7
<1>9. held' = [held EXCEPT ![t] = k] /\ \A s \in Tx \ {t} : held[s] \cap k = {}
  BY <1>1, <1>7, LockApart
<1>10. i \in Nat /\ Tail(x.todo) \in Seq(Nat) /\ Len(Tail(x.todo)) = Len(x.todo) - 1
       /\ Len(x.todo) \in Nat
  BY <1>4, <1>5
<1>11. d \in Seq(Nat)
  BY <1>4, <1>5, <1>10
<1>12. p \in {"delete", "commit", "self"}
  BY <1>5
<1>13. /\ y \in Txn /\ y.op = "delete" /\ y.pc = p /\ y.self = x.self /\ y.todo = Tail(x.todo)
       /\ y.deleted = d /\ y.given = x.given
  BY <1>2, <1>3, <1>10, <1>11, <1>12 DEF Txn
<1> HIDE DEF y
<1>14. ASSUME NEW n \in DOMAIN d
       PROVE  /\ d[n] \in DOMAIN refs[x.self]
              /\ messageRow(refs[x.self][d[n]].globalID) \in k
  <2>1. CASE n \in DOMAIN x.deleted
    <3>1. d[n] = x.deleted[n]
      BY <1>4, <1>5, <1>10, <2>1
    <3> QED BY <1>4, <2>1, <3>1
  <2>2. CASE n \notin DOMAIN x.deleted
    <3>1. i \in DOMAIN refs[x.self] /\ d = Append(x.deleted, i)
      BY <1>5, <1>14, <2>2
    <3>2. d[n] = i
      BY <1>4, <1>10, <1>14, <2>2, <3>1
    <3>3. messageRow(refs[x.self][i].globalID) \in rows
      BY <1>5, <3>1
    <3> QED BY <3>1, <3>2, <3>3
  <2> QED BY <2>1, <2>2
<1> HIDE DEF k
<1>15. deleteOK(y, k)'
  <2>1. p = "delete" => Tail(x.todo) # <<>>
    <3>1. p = "delete" => Len(x.todo) > 1
      BY <1>5
    <3>2. PICK l \in Nat : l = Len(x.todo)
      BY <1>10
    <3>3. PICK n : n = Len(Tail(x.todo))
      OBVIOUS
    <3>4. n = l - 1 /\ (p = "delete" => l > 1)
      BY <1>10, <3>1, <3>2, <3>3
    <3>5. p = "delete" => n # 0
      BY <3>4
    <3>6. Len(<<>>) = 0
      OBVIOUS
    <3> QED BY <3>3, <3>5, <3>6
  <2>2. p = "self" => d # <<>>
    BY <1>5
  <2>3. refs' = refs
    BY <1>3 DEF tables
  <2> QED BY <1>4, <1>12, <1>13, <1>14, <2>1, <2>2, <2>3 DEF deleteOK
<1>16. sendOK(y)' /\ editOK(y, k)' /\ readOK(y)'
  BY <1>13 DEF sendOK, editOK, readOK
<1>17. givenOK(y, k)'
  <2>1. allotted(x) = {}
    BY <1>3 DEF allotted
  <2>2. allotted(y) = {} /\ y.pc # "peer"
    <3>1. p = "commit" => d = <<>>
      BY <1>5
    <3> QED BY <1>12, <1>13, <3>1 DEF allotted
  <2> QED BY <1>2, <1>13, <2>1, <2>2 DEF txOK, givenOK
<1>18. txOK(y, k)'
  BY <1>12, <1>13, <1>15, <1>16, <1>17 DEF txOK
<1>19. sequence' \in Nat /\ sequence <= sequence' /\ UNCHANGED tables
  BY <1>3 DEF TxInv, TxTypes
<1> QED BY <1>8, <1>9, <1>13, <1>18, <1>19, StatementKeeps

\* ReadHistory's UPDATE takes its snapshot.
LEMMA MatchKeeps ==
    ASSUME P!Tables, TxInv, NEW t \in Tx, matchRefs(t)
    PROVE  TxInv'
<1>1. PICK x, h : x = tx[t] /\ h = held[t]
  OBVIOUS
<1>2. x \in Txn /\ txOK(x, h) /\ tx \in [Tx -> Txn]
  BY <1>1, TxOn DEF TxInv, TxTypes
<1>3. x.pc = "match" /\ x.op = "read" /\ UNCHANGED <<tables, sequence>> /\ held' = held
  BY <1>1, <1>2, OpAt DEF matchRefs
<1>4. PICK r : r = P!readIDs(x.self, x.peer, x.maxID)
  OBVIOUS
<1>5. r = Mem!readIDs(x.self, x.peer, x.maxID)
  BY <1>4 DEF P!readIDs, P!other, Mem!readIDs, Mem!other
<1> DEFINE y == [x EXCEPT !.pc = "mark", !.read = r]
<1>6. tx' = [tx EXCEPT ![t] = y]
  BY <1>1, <1>2, <1>5 DEF matchRefs
<1>7. held' = [held EXCEPT ![t] = h] /\ \A s \in Tx \ {t} : held[s] \cap h = {}
  BY <1>1, <1>3 DEF TxInv, TxTypes, LocksApart
<1>8. /\ x.self \in User /\ x.peer \in User /\ x.outboxMaxID <= lastMessageID[x.peer]
      /\ KnownReads => /\ x.maxID <= lastMessageID[x.self]
                       /\ x.outboxMaxID = P!maxOf(P!ackedIDs(x.self, x.peer, x.maxID))
  BY <1>2, <1>3 DEF txOK, readOK
<1>9. r \in SUBSET Nat
  BY <1>4, <1>8 DEF P!readIDs, P!Tables
<1>10. /\ y \in Txn /\ y.op = "read" /\ y.pc = "mark" /\ y.self = x.self /\ y.peer = x.peer
       /\ y.maxID = x.maxID /\ y.outboxMaxID = x.outboxMaxID /\ y.read = r /\ y.given = x.given
  BY <1>2, <1>3, <1>9 DEF Txn
<1> HIDE DEF y
<1>11. /\ P!readIDs(x.self, x.peer, x.maxID)' = P!readIDs(x.self, x.peer, x.maxID)
       /\ P!ackedIDs(x.self, x.peer, x.maxID)' = P!ackedIDs(x.self, x.peer, x.maxID)
       /\ lastMessageID' = lastMessageID
  BY <1>3 DEF tables, P!readIDs, P!ackedIDs
<1>12. readOK(y)'
  BY <1>4, <1>8, <1>10, <1>11 DEF readOK
<1>13. sendOK(y)' /\ editOK(y, h)' /\ deleteOK(y, h)'
  BY <1>10 DEF sendOK, editOK, deleteOK
<1>14. givenOK(y, h)'
  <2>1. allotted(x) = {} /\ allotted(y) = {}
    BY <1>3, <1>10 DEF allotted
  <2> QED BY <1>2, <1>10, <2>1 DEF txOK, givenOK
<1>15. txOK(y, h)'
  BY <1>10, <1>12, <1>13, <1>14 DEF txOK
<1>16. sequence' \in Nat /\ sequence <= sequence' /\ UNCHANGED tables
  BY <1>3 DEF TxInv, TxTypes
<1> QED BY <1>6, <1>7, <1>10, <1>15, <1>16, StatementKeeps

\* It marks the rows: nothing it relies on changes.
LEMMA MarkKeeps ==
    ASSUME TxInv, NEW t \in Tx, markRead(t)
    PROVE  TxInv'
<1>1. PICK x, h, rows : x = tx[t] /\ h = held[t] /\ rows = needs(t)
  OBVIOUS
<1>2. x \in Txn /\ txOK(x, h) /\ tx \in [Tx -> Txn]
  BY <1>1, TxOn DEF TxInv, TxTypes
<1>3. x.pc = "mark" /\ x.op = "read" /\ UNCHANGED <<tables, sequence>> /\ lock(t, rows)
  BY <1>1, <1>2, OpAt DEF markRead
<1> DEFINE y == [x EXCEPT !.pc = "self"]
           k == h \cup rows
<1>4. tx' = [tx EXCEPT ![t] = y]
  BY <1>1, <1>2 DEF markRead
<1>5. held' = [held EXCEPT ![t] = k] /\ \A s \in Tx \ {t} : held[s] \cap k = {}
  BY <1>1, <1>3, LockApart
<1>6. /\ y \in Txn /\ y.op = "read" /\ y.pc = "self" /\ y.self = x.self /\ y.peer = x.peer
      /\ y.maxID = x.maxID /\ y.outboxMaxID = x.outboxMaxID /\ y.read = x.read
      /\ y.given = x.given
  BY <1>2, <1>3 DEF Txn
<1> HIDE DEF y, k
<1>7. /\ P!readIDs(x.self, x.peer, x.maxID)' = P!readIDs(x.self, x.peer, x.maxID)
      /\ P!ackedIDs(x.self, x.peer, x.maxID)' = P!ackedIDs(x.self, x.peer, x.maxID)
      /\ lastMessageID' = lastMessageID
  BY <1>3 DEF tables, P!readIDs, P!ackedIDs
<1>8. readOK(y)'
  <2>1. readOK(x)
    BY <1>2 DEF txOK
  <2> QED BY <1>3, <1>6, <1>7, <2>1 DEF readOK
<1>9. sendOK(y)' /\ editOK(y, k)' /\ deleteOK(y, k)'
  BY <1>6 DEF sendOK, editOK, deleteOK
<1>10. givenOK(y, k)'
  <2>1. allotted(x) = {} /\ allotted(y) = {}
    BY <1>3, <1>6 DEF allotted
  <2> QED BY <1>2, <1>6, <2>1 DEF txOK, givenOK
<1>11. txOK(y, k)'
  BY <1>6, <1>8, <1>9, <1>10 DEF txOK
<1>12. sequence' \in Nat /\ sequence <= sequence' /\ UNCHANGED tables
  BY <1>3 DEF TxInv, TxTypes
<1> QED BY <1>4, <1>5, <1>6, <1>11, <1>12, StatementKeeps

\* The counters of an account, advanced.
LEMMA AllocatedType ==
    ASSUME P!Tables, NEW x \in Txn, NEW u \in User
    PROVE  allocated(x, u) \in Alloc
<1>1. pts[u] \in Nat /\ lastMessageID[u] \in Nat
  BY DEF P!Tables
<1>2. Len(x.deleted) \in Nat
  BY DEF Txn
<1> QED BY <1>1, <1>2 DEF allocated, Alloc

\* What give adds.
LEMMA GiveAdds ==
    ASSUME P!Tables, NEW x \in Txn, NEW u \in User
    PROVE  /\ give(x, u) \in Given /\ DOMAIN give(x, u) = DOMAIN x.given \cup {u}
           /\ give(x, u)[u] = allocated(x, u)
           /\ \A v \in DOMAIN x.given \ {u} : give(x, u)[v] = x.given[v]
<1>1. PICK D \in SUBSET User : x.given \in [D -> Alloc]
  BY DEF Txn, Given
<1>2. allocated(x, u) \in Alloc
  BY AllocatedType
<1>3. give(x, u) = [v \in D \cup {u} |-> IF v = u THEN allocated(x, u) ELSE x.given[v]]
  BY <1>1 DEF give
<1>4. give(x, u) \in [D \cup {u} -> Alloc]
  BY <1>1, <1>2, <1>3
<1>5. D \cup {u} \in SUBSET User
  OBVIOUS
<1>6. give(x, u) \in Given
  BY <1>4, <1>5 DEF Given
<1> QED BY <1>1, <1>3, <1>6

\* A statement that gives u its counters under the lock of its row leaves the rest of
\* what the transaction relies on.
LEMMA GiveKeeps ==
    ASSUME P!Tables, TxInv, NEW t \in Tx, NEW x \in Txn, NEW h, x = tx[t], h = held[t],
           NEW u \in User, NEW p \in {"peer", "commit"}, x.pc \in {"self", "peer"},
           lock(t, {userRow(u)}), UNCHANGED <<tables, sequence>>,
           tx' = [tx EXCEPT ![t].given = give(x, u), ![t].pc = p],
           NEW y, y = [x EXCEPT !.given = give(x, u), !.pc = p],
           allotted(y) = DOMAIN x.given \cup {u}, p = "peer" => notifiesPeer(x)
    PROVE  TxInv'
<1>1. txOK(x, h) /\ tx \in [Tx -> Txn]
  BY TxOn DEF TxInv, TxTypes
<1>2. /\ give(x, u) \in Given /\ DOMAIN give(x, u) = DOMAIN x.given \cup {u}
      /\ give(x, u)[u] = allocated(x, u)
      /\ \A v \in DOMAIN x.given \ {u} : give(x, u)[v] = x.given[v]
  BY GiveAdds
<1>3. PICK G \in Given : G = give(x, u)
  BY <1>2
<1>4. /\ y \in Txn /\ y.op = x.op /\ y.pc = p /\ y.self = x.self /\ y.peer = x.peer
      /\ y.message = x.message /\ y.globalID = x.globalID /\ y.todo = x.todo
      /\ y.deleted = x.deleted /\ y.maxID = x.maxID /\ y.outboxMaxID = x.outboxMaxID
      /\ y.read = x.read /\ y.given = G
  BY <1>3 DEF Txn
<1>5. tx' = [tx EXCEPT ![t] = y]
  BY <1>1
<1> DEFINE k == h \cup {userRow(u)}
<1>6. held' = [held EXCEPT ![t] = k] /\ \A s \in Tx \ {t} : held[s] \cap k = {}
  BY LockApart
<1>7. h \subseteq k /\ userRow(u) \in k
  OBVIOUS
<1> HIDE DEF k
<1>8. /\ messages' = messages /\ lastMessageID' = lastMessageID /\ pts' = pts /\ refs' = refs
      /\ sequence' = sequence
  BY DEF tables
<1>9. x.op # "none"
  BY <1>1 DEF txOK
<1>10. givenOK(y, k)'
  <2>1. ASSUME NEW v \in User
        PROVE  allocated(y, v)' = allocated(x, v)
    BY <1>4, <1>8 DEF allocated
  <2>2. ASSUME NEW v \in DOMAIN G
        PROVE  userRow(v) \in k /\ G[v] = allocated(y, v)'
    <3>1. CASE v = u
      BY <1>2, <1>3, <1>7, <2>1, <3>1
    <3>2. CASE v # u
      <4>1. v \in DOMAIN x.given /\ G[v] = x.given[v]
        BY <1>2, <1>3, <2>2, <3>2
      <4>2. userRow(v) \in h /\ x.given[v] = allocated(x, v)
        BY <1>1, <4>1 DEF txOK, givenOK
      <4>3. v \in User
        BY <4>1 DEF Txn, Given
      <4> QED BY <1>7, <2>1, <4>1, <4>2, <4>3
    <3> QED BY <3>1, <3>2
  <2>3. p = "peer" => notifiesPeer(y)
    BY <1>4 DEF notifiesPeer
  <2> QED BY <1>2, <1>3, <1>4, <2>2, <2>3 DEF givenOK
<1>11. sendOK(y)'
  BY <1>1, <1>4, <1>8 DEF txOK, sendOK
<1>12. editOK(y, k)'
  BY <1>1, <1>4, <1>7, <1>8 DEF txOK, editOK
<1>13. deleteOK(y, k)'
  <2>1. x.op = "delete" => p = "commit"
    BY DEF notifiesPeer
  <2> QED BY <1>1, <1>4, <1>7, <1>8, <2>1 DEF txOK, deleteOK
<1>14. readOK(y)'
  <2>1. /\ P!readIDs(x.self, x.peer, x.maxID)' = P!readIDs(x.self, x.peer, x.maxID)
        /\ P!ackedIDs(x.self, x.peer, x.maxID)' = P!ackedIDs(x.self, x.peer, x.maxID)
    BY <1>8 DEF P!readIDs, P!ackedIDs
  <2> QED BY <1>1, <1>4, <1>8, <2>1 DEF txOK, readOK
<1>15. txOK(y, k)'
  BY <1>4, <1>9, <1>10, <1>11, <1>12, <1>13, <1>14 DEF txOK
<1>16. sequence' \in Nat /\ sequence <= sequence' /\ UNCHANGED tables
  BY <1>8 DEF TxInv, TxTypes
<1>17. y.op = "send" => \A s \in Tx \ {t} : tx[s].op = "send" => tx[s].globalID # y.globalID
  BY <1>4 DEF TxInv, SendsApart
<1> QED BY <1>4, <1>5, <1>6, <1>15, <1>16, <1>17, StatementKeeps

\* allocate for the caller.
LEMMA AllocateSelfKeeps ==
    ASSUME P!Tables, TxInv, NEW t \in Tx, allocateSelf(t)
    PROVE  TxInv'
<1>1. PICK x, h : x = tx[t] /\ h = held[t]
  OBVIOUS
<1>2. x \in Txn /\ txOK(x, h)
  BY <1>1, TxOn
<1>3. PICK p : p = IF notifiesPeer(x) THEN "peer" ELSE "commit"
  OBVIOUS
<1>4. /\ x.pc = "self" /\ lock(t, needs(t)) /\ UNCHANGED <<tables, sequence>>
      /\ tx' = [tx EXCEPT ![t].given = give(x, x.self), ![t].pc = p]
  BY <1>1, <1>3 DEF allocateSelf
<1>5. needs(t) = {userRow(x.self)}
  BY <1>1, <1>4 DEF needs
<1>6. x.self \in User /\ x.op \in {"send", "edit", "delete", "read"}
  BY <1>2, <1>4, OpAt
<1>7. PICK y : y = [x EXCEPT !.given = give(x, x.self), !.pc = p]
  OBVIOUS
<1>8. y.pc = p /\ y.op = x.op /\ y.self = x.self /\ y.peer = x.peer /\ y.deleted = x.deleted
      /\ y.outboxMaxID = x.outboxMaxID
  BY <1>2, <1>7 DEF Txn
<1>9. DOMAIN x.given = {}
  <2>1. allotted(x) = {}
    BY <1>4 DEF allotted
  <2> QED BY <1>2, <2>1 DEF txOK, givenOK
<1>10. x.op = "delete" => x.deleted # <<>>
  BY <1>2, <1>4 DEF txOK, deleteOK
<1>11. allotted(y) = {x.self}
  <2>1. CASE notifiesPeer(x)
    BY <1>3, <1>8, <2>1 DEF allotted
  <2>2. CASE ~notifiesPeer(x)
    <3>1. ~notifiesPeer(y) /\ y.pc = "commit"
      BY <1>3, <1>8, <2>2 DEF notifiesPeer
    <3> QED BY <1>8, <1>10, <3>1 DEF allotted
  <2> QED BY <2>1, <2>2
<1>12. p \in {"peer", "commit"} /\ (p = "peer" => notifiesPeer(x))
       /\ allotted(y) = DOMAIN x.given \cup {x.self}
  BY <1>3, <1>9, <1>11
<1>13. lock(t, {userRow(x.self)})
  BY <1>4, <1>5
<1> QED BY <1>1, <1>2, <1>4, <1>6, <1>7, <1>12, <1>13, GiveKeeps

\* allocate for the peer.
LEMMA AllocatePeerKeeps ==
    ASSUME P!Tables, TxInv, NEW t \in Tx, allocatePeer(t)
    PROVE  TxInv'
<1>1. PICK x, h : x = tx[t] /\ h = held[t]
  OBVIOUS
<1>2. x \in Txn /\ txOK(x, h)
  BY <1>1, TxOn
<1>3. /\ x.pc = "peer" /\ lock(t, needs(t)) /\ UNCHANGED <<tables, sequence>>
      /\ tx' = [tx EXCEPT ![t].given = give(x, x.peer), ![t].pc = "commit"]
  BY <1>1 DEF allocatePeer
<1>4. needs(t) = {userRow(x.peer)}
  BY <1>1, <1>3 DEF needs
<1>5. x.self \in User /\ notifiesPeer(x) /\ DOMAIN x.given = {x.self}
  <2>1. allotted(x) = {x.self}
    BY <1>3 DEF allotted
  <2> QED BY <1>2, <1>3, <2>1, OpAt DEF txOK, givenOK
<1>6. x.op \in {"send", "edit", "read"} /\ x.peer # x.self
  BY <1>5 DEF notifiesPeer
<1>7. x.peer \in User
  <2>1. CASE x.op \in {"send", "read"}
    BY <1>2, <2>1 DEF txOK, sendOK, readOK
  <2>2. CASE x.op = "edit"
    <3>1. x.globalID \in DOMAIN messages /\ messages[x.globalID].peer = x.peer
      BY <1>2, <1>3, <2>2 DEF txOK, editOK
    <3>2. messages[x.globalID] \in P!Message
      BY <3>1 DEF P!Tables
    <3> QED BY <3>1, <3>2 DEF P!Message
  <2> QED BY <1>6, <2>1, <2>2
<1>8. PICK y : y = [x EXCEPT !.given = give(x, x.peer), !.pc = "commit"]
  OBVIOUS
<1>9. y.pc = "commit" /\ y.op = x.op /\ y.self = x.self /\ y.peer = x.peer
      /\ y.outboxMaxID = x.outboxMaxID
  BY <1>2, <1>8 DEF Txn
<1>10. allotted(y) = {x.self, x.peer}
  <2>1. notifiesPeer(y)
    BY <1>5, <1>9 DEF notifiesPeer
  <2> QED BY <1>6, <1>9, <2>1 DEF allotted
<1>11. allotted(y) = DOMAIN x.given \cup {x.peer}
  BY <1>5, <1>10
<1>12. lock(t, {userRow(x.peer)})
  BY <1>3, <1>4
<1> QED BY <1>1, <1>2, <1>3, <1>7, <1>8, <1>11, <1>12, GiveKeeps

-----------------------------------------------------------------------------
(* A commit is a step of the store *)

\* The transaction x, which held the rows h, has been written, said of the counters as
\* they stood.
committed(x, h) ==
    /\ x \in Txn /\ txOK(x, h) /\ x.pc = "commit"
    /\ messages' = writtenMessages(x)
    /\ refs' = [u \in User |-> writtenRefs(x, u)]
    /\ pts' = [u \in User |-> IF u \in allotted(x) THEN allocated(x, u).pts ELSE pts[u]]
    /\ lastMessageID' = [u \in User |->
          IF u \in allotted(x) THEN allocated(x, u).localID ELSE lastMessageID[u]]
    /\ updates' = [u \in User |->
          IF u \in allotted(x) THEN Append(updates[u], entry(x, u)) ELSE updates[u]]
    /\ DOMAIN x.given = allotted(x)
    /\ \A u \in allotted(x) : x.given[u] = allocated(x, u) /\ userRow(u) \in h

\* What a commit writes.
LEMMA CommitWrites ==
    ASSUME P!Tables, TxInv, NEW t \in Tx, Commit(t), NEW x, NEW h, x = tx[t], h = held[t]
    PROVE  committed(x, h) /\ end(t) /\ sequence' = sequence
<1>1. x \in Txn /\ txOK(x, h)
  BY TxOn
<1>2. /\ DOMAIN x.given = allotted(x)
      /\ \A u \in allotted(x) : x.given[u] = allocated(x, u) /\ userRow(u) \in h
  BY <1>1 DEF txOK, givenOK
<1>3. /\ x.pc = "commit" /\ end(t) /\ sequence' = sequence
      /\ messages' = writtenMessages(x)
      /\ refs' = [u \in User |-> writtenRefs(x, u)]
      /\ pts' = [u \in User |-> IF u \in DOMAIN x.given THEN x.given[u].pts ELSE pts[u]]
      /\ lastMessageID' = [u \in User |->
            IF u \in DOMAIN x.given THEN x.given[u].localID ELSE lastMessageID[u]]
      /\ updates' = [u \in User |->
            IF u \in DOMAIN x.given THEN Append(updates[u], entry(x, u)) ELSE updates[u]]
  BY DEF Commit
<1>4. pts' = [u \in User |-> IF u \in allotted(x) THEN allocated(x, u).pts ELSE pts[u]]
  BY <1>2, <1>3
<1>5. lastMessageID' = [u \in User |->
         IF u \in allotted(x) THEN allocated(x, u).localID ELSE lastMessageID[u]]
  BY <1>2, <1>3
<1>6. updates' = [u \in User |->
         IF u \in allotted(x) THEN Append(updates[u], entry(x, u)) ELSE updates[u]]
  BY <1>2, <1>3
<1> QED BY <1>1, <1>2, <1>3, <1>4, <1>5, <1>6 DEF committed

\* The counters a transaction is given.
LEMMA AllocatedFields ==
    ASSUME P!Tables, NEW x, NEW u \in User
    PROVE  /\ x.op # "delete" => allocated(x, u).pts = pts[u] + 1
           /\ x.op = "delete" => allocated(x, u).pts = pts[u] + Len(x.deleted)
           /\ x.op = "send" => allocated(x, u).localID = lastMessageID[u] + 1
           /\ x.op # "send" => allocated(x, u).localID = lastMessageID[u]
<1>1. lastMessageID[u] \in Nat
  BY DEF P!Tables
<1> QED BY <1>1 DEF allocated

\* A send commits as one step of the store.
LEMMA SendCommits ==
    ASSUME P!Tables, NEW x, NEW h, committed(x, h), x.op = "send"
    PROVE  /\ P!SendStep(x.globalID, x.message)
           /\ x.globalID \in Nat /\ x.message \in P!Message
<1>1. /\ x \in Txn /\ txOK(x, h) /\ x.pc = "commit"
      /\ messages' = writtenMessages(x) /\ refs' = [u \in User |-> writtenRefs(x, u)]
      /\ pts' = [u \in User |-> IF u \in allotted(x) THEN allocated(x, u).pts ELSE pts[u]]
      /\ lastMessageID' = [u \in User |->
            IF u \in allotted(x) THEN allocated(x, u).localID ELSE lastMessageID[u]]
      /\ updates' = [u \in User |->
            IF u \in allotted(x) THEN Append(updates[u], entry(x, u)) ELSE updates[u]]
      /\ DOMAIN x.given = allotted(x)
      /\ \A u \in allotted(x) : x.given[u] = allocated(x, u)
  BY DEF committed
<1>2. PICK g, m : g = x.globalID /\ m = x.message
  OBVIOUS
<1>3. /\ m \in P!Message /\ m.from = x.self /\ m.peer = x.peer /\ g \in Nat
      /\ g \notin DOMAIN messages
  BY <1>1, <1>2 DEF txOK, sendOK, Txn
<1>4. allotted(x) = {m.from, m.peer}
  BY <1>1, <1>3 DEF allotted, notifiesPeer
<1>5. messages' = P!putRef(messages, g, m)
  BY <1>1, <1>2 DEF writtenMessages, P!putRef, Mem!putRef
<1>6. /\ lastMessageID' = [u \in User |->
            IF u \in {m.from, m.peer} THEN lastMessageID[u] + 1 ELSE lastMessageID[u]]
      /\ pts' = [u \in User |-> IF u \in {m.from, m.peer} THEN pts[u] + 1 ELSE pts[u]]
  BY <1>1, <1>4, AllocatedFields
<1>7. refs' = [u \in User |->
         IF u \in {m.from, m.peer}
         THEN P!putRef(refs[u], lastMessageID[u] + 1,
                       [globalID |-> g, out |-> u = m.from, unread |-> u # m.from])
         ELSE refs[u]]
  <2>1. ASSUME NEW u \in User
        PROVE  writtenRefs(x, u) =
                 IF u \in {m.from, m.peer}
                 THEN P!putRef(refs[u], lastMessageID[u] + 1,
                               [globalID |-> g, out |-> u = m.from, unread |-> u # m.from])
                 ELSE refs[u]
    <3>1. CASE u \in {m.from, m.peer}
      <4>1. u \in DOMAIN x.given /\ x.given[u].localID = lastMessageID[u] + 1
        BY <1>1, <1>4, <3>1, AllocatedFields
      <4> QED BY <1>2, <1>3, <3>1, <4>1 DEF writtenRefs, P!putRef, Mem!putRef
    <3>2. CASE u \notin {m.from, m.peer}
      <4>1. u \notin DOMAIN x.given
        BY <1>1, <1>4, <3>2
      <4> QED BY <3>2, <4>1 DEF writtenRefs
    <3> QED BY <3>1, <3>2
  <2> QED BY <1>1, <2>1
<1>8. updates' = [u \in User |->
         IF u \in {m.from, m.peer}
         THEN Append(updates[u], P!MessageEntry(pts[u] + 1, "new", g)) ELSE updates[u]]
  <2>1. ASSUME NEW u \in User, u \in {m.from, m.peer}
        PROVE  entry(x, u) = P!MessageEntry(pts[u] + 1, "new", g)
    <3>1. x.given[u].pts = pts[u] + 1
      BY <1>1, <1>4, <2>1, AllocatedFields
    <3> QED BY <1>2, <3>1 DEF entry, P!MessageEntry, Mem!MessageEntry
  <2> QED BY <1>1, <1>4, <2>1
<1>9. P!SendStep(g, m)
  BY <1>3, <1>5, <1>6, <1>7, <1>8 DEF P!SendStep
<1> QED BY <1>2, <1>3, <1>9

\* An edit commits as one step of the store.
LEMMA EditCommits ==
    ASSUME P!Tables, NEW x, NEW h, committed(x, h), x.op = "edit"
    PROVE  /\ P!EditStep(x.globalID, x.message.text)
           /\ x.globalID \in DOMAIN messages /\ x.message.text \in Text
<1>1. /\ x \in Txn /\ txOK(x, h) /\ x.pc = "commit"
      /\ messages' = writtenMessages(x) /\ refs' = [u \in User |-> writtenRefs(x, u)]
      /\ pts' = [u \in User |-> IF u \in allotted(x) THEN allocated(x, u).pts ELSE pts[u]]
      /\ lastMessageID' = [u \in User |->
            IF u \in allotted(x) THEN allocated(x, u).localID ELSE lastMessageID[u]]
      /\ updates' = [u \in User |->
            IF u \in allotted(x) THEN Append(updates[u], entry(x, u)) ELSE updates[u]]
      /\ DOMAIN x.given = allotted(x)
      /\ \A u \in allotted(x) : x.given[u] = allocated(x, u)
  BY DEF committed
<1>2. PICK g, text : g = x.globalID /\ text = x.message.text
  OBVIOUS
<1>3. /\ x.message \in P!Message /\ g \in DOMAIN messages
      /\ messages[g].from = x.self /\ messages[g].peer = x.peer /\ ~messages[g].deleted
  BY <1>1, <1>2 DEF txOK, editOK
<1>4. text \in Text
  BY <1>2, <1>3 DEF P!Message
<1>5. allotted(x) = {messages[g].from, messages[g].peer}
  BY <1>1, <1>3 DEF allotted, notifiesPeer
<1>6. messages' = [messages EXCEPT ![g].text = text]
  BY <1>1, <1>2 DEF writtenMessages
<1>7. pts' = [u \in User |->
         IF u \in {messages[g].from, messages[g].peer} THEN pts[u] + 1 ELSE pts[u]]
  BY <1>1, <1>5, AllocatedFields
<1>8. lastMessageID' = lastMessageID
  <2>1. lastMessageID = [u \in User |-> lastMessageID[u]]
    BY DEF P!Tables
  <2>2. lastMessageID' = [u \in User |-> lastMessageID[u]]
    BY <1>1, AllocatedFields
  <2> QED BY <2>1, <2>2
<1>9. refs' = refs
  <2>1. refs = [u \in User |-> refs[u]]
    BY DEF P!Tables
  <2>2. \A u \in User : writtenRefs(x, u) = refs[u]
    BY DEF writtenRefs
  <2>3. refs' = [u \in User |-> refs[u]]
    BY <1>1, <2>2
  <2> QED BY <2>1, <2>3
<1>10. updates' = [u \in User |->
          IF u \in {messages[g].from, messages[g].peer}
          THEN Append(updates[u], P!MessageEntry(pts[u] + 1, "edit", g)) ELSE updates[u]]
  <2>1. ASSUME NEW u \in User, u \in {messages[g].from, messages[g].peer}
        PROVE  entry(x, u) = P!MessageEntry(pts[u] + 1, "edit", g)
    <3>1. x.given[u].pts = pts[u] + 1
      BY <1>1, <1>5, <2>1, AllocatedFields
    <3> QED BY <1>2, <3>1 DEF entry, P!MessageEntry, Mem!MessageEntry
  <2> QED BY <1>1, <1>5, <2>1
<1>11. P!EditStep(g, text)
  BY <1>3, <1>6, <1>7, <1>8, <1>9, <1>10 DEF P!EditStep
<1> QED BY <1>2, <1>3, <1>4, <1>11

\* A deletion that found nothing commits nothing.
LEMMA NothingCommits ==
    ASSUME P!Tables, NEW x, NEW h, committed(x, h), x.op = "delete", x.deleted = <<>>
    PROVE  UNCHANGED tables
<1>1. x.pc = "commit" /\ allotted(x) = {} /\ DOMAIN x.deleted = {}
  BY DEF committed, allotted
<1>2. /\ messages = [g \in DOMAIN messages |-> messages[g]]
      /\ lastMessageID = [u \in User |-> lastMessageID[u]] /\ pts = [u \in User |-> pts[u]]
      /\ updates = [u \in User |-> updates[u]] /\ refs = [u \in User |-> refs[u]]
  BY DEF P!Tables
<1>3. lastMessageID' = [u \in User |-> lastMessageID[u]] /\ pts' = [u \in User |-> pts[u]]
      /\ updates' = [u \in User |-> updates[u]]
  BY <1>1 DEF committed
<1>4. refs' = [u \in User |-> refs[u]]
  <2>1. \A u \in User : writtenRefs(x, u) = refs[u]
    BY DEF writtenRefs
  <2> QED BY <2>1 DEF committed
<1>5. messages' = [g \in DOMAIN messages |-> messages[g]]
  <2>1. messages' = [g \in DOMAIN messages |-> [messages[g] EXCEPT !.deleted =
           @ \/ \E k \in DOMAIN x.deleted : refs[x.self][x.deleted[k]].globalID = g]]
    BY DEF committed, writtenMessages
  <2>2. ASSUME NEW g \in DOMAIN messages
        PROVE  [messages[g] EXCEPT !.deleted =
                  @ \/ \E k \in DOMAIN x.deleted : refs[x.self][x.deleted[k]].globalID = g]
                 = messages[g]
    <3>1. PICK m \in P!Message : m = messages[g]
      BY DEF P!Tables
    <3>2. (m.deleted \/ \E k \in DOMAIN x.deleted : refs[x.self][x.deleted[k]].globalID = g)
            = m.deleted
      <4>1. ~ \E k \in DOMAIN x.deleted : refs[x.self][x.deleted[k]].globalID = g
        BY <1>1
      <4>2. m.deleted \in BOOLEAN
        BY DEF P!Message
      <4> QED BY <4>1, <4>2, Zenon
    <3>3. [m EXCEPT !.deleted = m.deleted] = m
      BY DEF P!Message
    <3> QED BY <3>1, <3>2, <3>3
  <2> QED BY <2>1, <2>2
<1> QED BY <1>2, <1>3, <1>4, <1>5 DEF tables

\* Any other deletion commits as one step of the store.
LEMMA DeleteCommits ==
    ASSUME P!Tables, NEW x, NEW h, committed(x, h), x.op = "delete", x.deleted # <<>>,
           NEW ids, ids = {x.deleted[k] : k \in DOMAIN x.deleted}
    PROVE  /\ P!DeleteStep(x.self, ids, Len(x.deleted))
           /\ x.self \in User /\ ids \in SUBSET DOMAIN refs[x.self]
           /\ Len(x.deleted) \in Nat \ {0}
<1>1. /\ x \in Txn /\ txOK(x, h) /\ x.pc = "commit"
      /\ messages' = writtenMessages(x) /\ refs' = [u \in User |-> writtenRefs(x, u)]
      /\ pts' = [u \in User |-> IF u \in allotted(x) THEN allocated(x, u).pts ELSE pts[u]]
      /\ lastMessageID' = [u \in User |->
            IF u \in allotted(x) THEN allocated(x, u).localID ELSE lastMessageID[u]]
      /\ updates' = [u \in User |->
            IF u \in allotted(x) THEN Append(updates[u], entry(x, u)) ELSE updates[u]]
      /\ DOMAIN x.given = allotted(x)
      /\ \A u \in allotted(x) : x.given[u] = allocated(x, u)
  BY DEF committed
<1>2. PICK self, d : self = x.self /\ d = x.deleted
  OBVIOUS
<1>3. self \in User /\ d \in Seq(Nat) /\ \A k \in DOMAIN d : d[k] \in DOMAIN refs[self]
  BY <1>1, <1>2 DEF txOK, deleteOK, Txn
<1>4. ids \in SUBSET DOMAIN refs[self]
  BY <1>2, <1>3
<1>5. PICK n : n = Len(d)
  OBVIOUS
<1>6. n \in Nat \ {0}
  BY <1>2, <1>3, <1>5
<1>7. allotted(x) = {self}
  BY <1>1, <1>2 DEF allotted, notifiesPeer
<1>8. messages' = [g \in DOMAIN messages |->
         [messages[g] EXCEPT !.deleted = @ \/ \E i \in ids : refs[self][i].globalID = g]]
  <2>1. messages' = [g \in DOMAIN messages |-> [messages[g] EXCEPT !.deleted =
           @ \/ \E k \in DOMAIN d : refs[self][d[k]].globalID = g]]
    BY <1>1, <1>2 DEF writtenMessages
  <2>2. \A g : (\E k \in DOMAIN d : refs[self][d[k]].globalID = g)
                 = (\E i \in ids : refs[self][i].globalID = g)
    BY <1>2
  <2> QED BY <2>1, <2>2
<1>9. pts' = [pts EXCEPT ![self] = @ + n]
  <2>1. pts = [u \in User |-> pts[u]]
    BY DEF P!Tables
  <2>2. allocated(x, self).pts = pts[self] + n
    BY <1>2, <1>3, <1>5, AllocatedFields
  <2>3. pts' = [u \in User |-> IF u = self THEN pts[self] + n ELSE pts[u]]
    BY <1>1, <1>7, <2>2
  <2> QED BY <2>1, <2>3
<1>10. lastMessageID' = lastMessageID
  <2>1. lastMessageID = [u \in User |-> lastMessageID[u]]
    BY DEF P!Tables
  <2>2. lastMessageID' = [u \in User |-> lastMessageID[u]]
    BY <1>1, AllocatedFields
  <2> QED BY <2>1, <2>2
<1>11. refs' = refs
  <2>1. refs = [u \in User |-> refs[u]]
    BY DEF P!Tables
  <2>2. \A u \in User : writtenRefs(x, u) = refs[u]
    BY DEF writtenRefs
  <2>3. refs' = [u \in User |-> refs[u]]
    BY <1>1, <2>2
  <2> QED BY <2>1, <2>3
<1>12. updates' = [updates EXCEPT ![self] = Append(@, P!DeleteEntry(pts[self] + n, n, ids))]
  <2>1. updates = [u \in User |-> updates[u]]
    BY DEF P!Tables
  <2>2. x.given[self].pts = pts[self] + n
    BY <1>1, <1>2, <1>3, <1>5, <1>7, AllocatedFields
  <2>3. entry(x, self) = P!DeleteEntry(pts[self] + n, n, ids)
    BY <1>2, <1>5, <2>2 DEF entry, P!DeleteEntry, Mem!DeleteEntry
  <2>4. updates' = [u \in User |-> IF u = self THEN Append(updates[self],
                       P!DeleteEntry(pts[self] + n, n, ids)) ELSE updates[u]]
    BY <1>1, <1>7, <2>3
  <2> QED BY <2>1, <2>4
<1>13. P!DeleteStep(self, ids, n)
  BY <1>8, <1>9, <1>10, <1>11, <1>12 DEF P!DeleteStep
<1> QED BY <1>2, <1>3, <1>4, <1>5, <1>6, <1>13

\* A read commits as one step of the store.
LEMMA ReadCommits ==
    ASSUME P!Tables, NEW x, NEW h, committed(x, h), x.op = "read"
    PROVE  /\ P!ReadStep(x.self, x.peer, x.maxID, x.read, x.outboxMaxID)
           /\ x.self \in User /\ x.peer \in User /\ x.maxID \in Nat /\ x.outboxMaxID \in Nat
           /\ x.read \in SUBSET Nat /\ x.outboxMaxID <= lastMessageID[x.peer]
<1>1. /\ x \in Txn /\ txOK(x, h) /\ x.pc = "commit"
      /\ messages' = writtenMessages(x) /\ refs' = [u \in User |-> writtenRefs(x, u)]
      /\ pts' = [u \in User |-> IF u \in allotted(x) THEN allocated(x, u).pts ELSE pts[u]]
      /\ lastMessageID' = [u \in User |->
            IF u \in allotted(x) THEN allocated(x, u).localID ELSE lastMessageID[u]]
      /\ updates' = [u \in User |->
            IF u \in allotted(x) THEN Append(updates[u], entry(x, u)) ELSE updates[u]]
      /\ DOMAIN x.given = allotted(x)
      /\ \A u \in allotted(x) : x.given[u] = allocated(x, u)
  BY DEF committed
<1>2. PICK self, peer, maxID, read, o :
        /\ self = x.self /\ peer = x.peer /\ maxID = x.maxID /\ read = x.read
        /\ o = x.outboxMaxID
  OBVIOUS
<1>3. /\ self \in User /\ peer \in User /\ maxID \in Nat /\ o \in Nat /\ read \in SUBSET Nat
      /\ o <= lastMessageID[peer]
  BY <1>1, <1>2 DEF txOK, readOK, Txn
<1>4. PICK Q : Q = IF o > 0 /\ peer # self THEN {self, peer} ELSE {self}
  OBVIOUS
<1>5. allotted(x) = Q
  BY <1>1, <1>2, <1>4 DEF allotted, notifiesPeer
<1>6. pts' = [u \in User |-> IF u \in Q THEN pts[u] + 1 ELSE pts[u]]
  BY <1>1, <1>5, AllocatedFields
<1>7. lastMessageID' = lastMessageID
  <2>1. lastMessageID = [u \in User |-> lastMessageID[u]]
    BY DEF P!Tables
  <2>2. lastMessageID' = [u \in User |-> lastMessageID[u]]
    BY <1>1, AllocatedFields
  <2> QED BY <2>1, <2>2
<1>8. messages' = messages
  BY <1>1 DEF writtenMessages
<1>9. refs' = [refs EXCEPT ![self] =
         [i \in DOMAIN @ |-> IF i \in read THEN [@[i] EXCEPT !.unread = FALSE] ELSE @[i]]]
  <2>1. refs = [u \in User |-> refs[u]]
    BY DEF P!Tables
  <2>2. PICK row : row = [i \in DOMAIN refs[self] |->
           IF i \in read THEN [refs[self][i] EXCEPT !.unread = FALSE] ELSE refs[self][i]]
    OBVIOUS
  <2>3. \A u \in User : writtenRefs(x, u) = IF u = self THEN row ELSE refs[u]
    BY <1>2, <2>2 DEF writtenRefs
  <2>4. refs' = [u \in User |-> IF u = self THEN row ELSE refs[u]]
    BY <1>1, <2>3
  <2>5. refs' = [refs EXCEPT ![self] = row]
    BY <2>1, <2>4
  <2> QED BY <2>2, <2>5
<1>10. updates' = [u \in User |->
          IF u = self
          THEN Append(updates[u], P!ReadEntry(pts[u] + 1, "readinbox", peer, maxID))
          ELSE IF u \in Q
          THEN Append(updates[u], P!ReadEntry(pts[u] + 1, "readoutbox", self, o))
          ELSE updates[u]]
  <2>1. ASSUME NEW u \in User, u \in Q
        PROVE  entry(x, u) = IF u = self THEN P!ReadEntry(pts[u] + 1, "readinbox", peer, maxID)
                                         ELSE P!ReadEntry(pts[u] + 1, "readoutbox", self, o)
    <3>1. x.given[u].pts = pts[u] + 1
      BY <1>1, <1>5, <2>1, AllocatedFields
    <3> QED BY <1>2, <3>1 DEF entry, P!ReadEntry, Mem!ReadEntry
  <2>2. self \in Q
    BY <1>4
  <2> QED BY <1>1, <1>5, <2>1, <2>2
<1>11. P!ReadStep(self, peer, maxID, read, o)
  BY <1>4, <1>6, <1>7, <1>8, <1>9, <1>10 DEF P!ReadStep
<1> QED BY <1>2, <1>3, <1>11

\* Every commit is a step of the store or changes no table; when reads are up to ids
\* already given out, it is an exact one.
LEMMA CommitSteps ==
    ASSUME P!Tables, NEW x, NEW h, committed(x, h)
    PROVE  /\ UNCHANGED tables \/ P!StoreStep
           /\ KnownReads => UNCHANGED tables \/ P!ExactStep
<1>1. x \in Txn /\ txOK(x, h) /\ x.pc = "commit"
  BY DEF committed
<1>2. x.op = "send" \/ x.op = "edit" \/ x.op = "delete" \/ x.op = "read"
  BY <1>1, OpAt
<1>3. CASE x.op = "send"
  BY <1>3, SendCommits DEF P!StoreStep, P!ExactStep
<1>4. CASE x.op = "edit"
  BY <1>4, EditCommits DEF P!StoreStep, P!ExactStep
<1>5. CASE x.op = "delete" /\ x.deleted = <<>>
  BY <1>5, NothingCommits
<1>6. CASE x.op = "delete" /\ x.deleted # <<>>
  <2>1. PICK ids : ids = {x.deleted[k] : k \in DOMAIN x.deleted}
    OBVIOUS
  <2>2. /\ P!DeleteStep(x.self, ids, Len(x.deleted))
        /\ x.self \in User /\ ids \in SUBSET DOMAIN refs[x.self]
        /\ Len(x.deleted) \in Nat \ {0}
    BY <1>6, <2>1, DeleteCommits
  <2> QED BY <2>2 DEF P!StoreStep, P!ExactStep
<1>7. CASE x.op = "read"
  <2>1. /\ P!ReadStep(x.self, x.peer, x.maxID, x.read, x.outboxMaxID)
        /\ x.self \in User /\ x.peer \in User /\ x.maxID \in Nat /\ x.outboxMaxID \in Nat
        /\ x.read \in SUBSET Nat /\ x.outboxMaxID <= lastMessageID[x.peer]
    BY <1>7, ReadCommits
  <2>2. P!StoreStep
    BY <2>1 DEF P!StoreStep
  <2>3. ASSUME KnownReads
        PROVE  P!ExactStep
    <3>1. /\ x.outboxMaxID = P!maxOf(P!ackedIDs(x.self, x.peer, x.maxID))
          /\ x.read = P!readIDs(x.self, x.peer, x.maxID)
      BY <1>1, <1>7, <2>3 DEF txOK, readOK
    <3>2. P!exactRead(x.self, x.peer, x.maxID)
      BY <2>1, <3>1 DEF P!exactRead
    <3> QED BY <2>1, <3>2 DEF P!ExactStep
  <2> QED BY <2>2, <2>3
<1> QED BY <1>2, <1>3, <1>4, <1>5, <1>6, <1>7

\* What a commit does to messages whose rows it does not hold.
LEMMA CommitMessages ==
    ASSUME P!Tables, NEW x, NEW h, committed(x, h)
    PROVE  /\ DOMAIN messages' = DOMAIN messages \cup (IF x.op = "send" THEN {x.globalID} ELSE {})
           /\ \A g \in DOMAIN messages :
                 /\ messages'[g].from = messages[g].from /\ messages'[g].peer = messages[g].peer
                 /\ ~messages[g].deleted /\ messageRow(g) \notin h => ~messages'[g].deleted
<1>1. x \in Txn /\ txOK(x, h) /\ x.pc = "commit"
  BY DEF committed
<1>2. x.op = "send" \/ x.op = "edit" \/ x.op = "delete" \/ x.op = "read"
  BY <1>1, OpAt
<1>3. CASE x.op = "send"
  <2>1. P!SendStep(x.globalID, x.message) /\ x.globalID \in Nat /\ x.message \in P!Message
    BY <1>3, SendCommits
  <2>2. messages' = P!putRef(messages, x.globalID, x.message) /\ x.globalID \notin DOMAIN messages
    BY <2>1 DEF P!SendStep
  <2> QED BY <1>3, <2>2 DEF P!putRef
<1>4. CASE x.op = "edit"
  <2>1. P!EditStep(x.globalID, x.message.text) /\ x.globalID \in DOMAIN messages
    BY <1>4, EditCommits
  <2>2. messages' = [messages EXCEPT ![x.globalID].text = x.message.text]
    BY <2>1 DEF P!EditStep
  <2>3. DOMAIN messages' = DOMAIN messages
    BY <2>2
  <2>4. ASSUME NEW g \in DOMAIN messages
        PROVE  /\ messages'[g].from = messages[g].from /\ messages'[g].peer = messages[g].peer
               /\ messages'[g].deleted = messages[g].deleted
    <3>1. messages[g] \in P!Message
      BY DEF P!Tables
    <3> QED BY <2>2, <3>1 DEF P!Message
  <2> QED BY <1>4, <2>3, <2>4
<1>5. CASE x.op = "delete"
  <2>1. messages' = [g \in DOMAIN messages |-> [messages[g] EXCEPT !.deleted =
           @ \/ \E k \in DOMAIN x.deleted : refs[x.self][x.deleted[k]].globalID = g]]
    BY <1>5 DEF committed, writtenMessages
  <2>2. DOMAIN messages' = DOMAIN messages
    BY <2>1
  <2>3. ASSUME NEW g \in DOMAIN messages
        PROVE  /\ messages'[g].from = messages[g].from /\ messages'[g].peer = messages[g].peer
               /\ ~messages[g].deleted /\ messageRow(g) \notin h => ~messages'[g].deleted
    <3>1. PICK m \in P!Message : m = messages[g]
      BY DEF P!Tables
    <3>2. messages'[g] = [m EXCEPT !.deleted = m.deleted \/
             \E k \in DOMAIN x.deleted : refs[x.self][x.deleted[k]].globalID = g]
      BY <2>1, <3>1
    <3>3. \A k \in DOMAIN x.deleted : messageRow(refs[x.self][x.deleted[k]].globalID) \in h
      BY <1>1, <1>5 DEF txOK, deleteOK
    <3>4. /\ messages'[g].from = m.from /\ messages'[g].peer = m.peer
          /\ messages'[g].deleted = (m.deleted \/
                \E k \in DOMAIN x.deleted : refs[x.self][x.deleted[k]].globalID = g)
      BY <3>2 DEF P!Message
    <3>5. messageRow(g) \notin h =>
             ~ \E k \in DOMAIN x.deleted : refs[x.self][x.deleted[k]].globalID = g
      BY <3>3
    <3> QED BY <3>1, <3>4, <3>5
  <2> QED BY <1>5, <2>2, <2>3
<1>6. CASE x.op = "read"
  <2>1. messages' = messages
    BY <1>6 DEF committed, writtenMessages
  <2> QED BY <1>6, <2>1
<1> QED BY <1>2, <1>3, <1>4, <1>5, <1>6

-----------------------------------------------------------------------------
(* A commit leaves the other transactions what they rely on *)

\* Their counters: the rows are locked.
LEMMA CommitGivenOK ==
    ASSUME P!Tables, NEW x, NEW h, committed(x, h), NEW y \in Txn, NEW k, txOK(y, k),
           h \cap k = {}
    PROVE  givenOK(y, k)'
<1>1. givenOK(y, k)
  BY DEF txOK
<1>2. ASSUME NEW u \in DOMAIN y.given
      PROVE  userRow(u) \in k /\ y.given[u] = allocated(y, u)'
  <2>1. u \in User
    BY DEF Txn, Given
  <2>2. userRow(u) \in k /\ y.given[u] = allocated(y, u)
    BY <1>1 DEF givenOK
  <2>3. \A v \in allotted(x) : userRow(v) \in h
    BY DEF committed
  <2>4. u \notin allotted(x)
    BY <2>2, <2>3
  <2>5. pts'[u] = pts[u] /\ lastMessageID'[u] = lastMessageID[u]
    BY <2>1, <2>4 DEF committed
  <2> QED BY <2>2, <2>5 DEF allocated
<1> QED BY <1>1, <1>2 DEF givenOK

\* Their messages.
LEMMA CommitMessageOK ==
    ASSUME P!Tables, NEW x, NEW h, committed(x, h), NEW y \in Txn, NEW k, txOK(y, k),
           h \cap k = {}, sequence' = sequence,
           x.op = "send" /\ y.op = "send" => x.globalID # y.globalID
    PROVE  sendOK(y)' /\ editOK(y, k)'
<1>1. /\ DOMAIN messages' = DOMAIN messages \cup (IF x.op = "send" THEN {x.globalID} ELSE {})
      /\ \A g \in DOMAIN messages :
            /\ messages'[g].from = messages[g].from /\ messages'[g].peer = messages[g].peer
            /\ ~messages[g].deleted /\ messageRow(g) \notin h => ~messages'[g].deleted
  BY CommitMessages
<1>2. sendOK(y)'
  BY <1>1 DEF txOK, sendOK
<1>3. y.op = "edit" /\ y.pc # "update" => messageRow(y.globalID) \notin h
  BY DEF txOK, editOK
<1>4. editOK(y, k)'
  BY <1>1, <1>3 DEF txOK, editOK
<1> QED BY <1>2, <1>4

\* Their references and snapshots.
LEMMA StepReadOK ==
    ASSUME P!Tables, P!Tables', P!StoreStep, P!Persist, NEW y \in Txn, NEW k, txOK(y, k)
    PROVE  deleteOK(y, k)' /\ readOK(y)'
<1>1. deleteOK(y, k)'
  <2>1. deleteOK(y, k)
    BY DEF txOK
  <2>2. CASE y.op # "delete"
    BY <2>2 DEF deleteOK
  <2>3. CASE y.op = "delete"
    <3>1. ASSUME NEW n \in DOMAIN y.deleted
          PROVE  /\ y.deleted[n] \in DOMAIN refs'[y.self]
                 /\ messageRow(refs'[y.self][y.deleted[n]].globalID) \in k
      <4>1. y.self \in User /\ y.deleted[n] \in DOMAIN refs[y.self]
            /\ messageRow(refs[y.self][y.deleted[n]].globalID) \in k
        BY <2>1, <2>3 DEF deleteOK
      <4>2. /\ y.deleted[n] \in DOMAIN refs'[y.self]
            /\ refs'[y.self][y.deleted[n]].globalID = refs[y.self][y.deleted[n]].globalID
        BY <4>1 DEF P!Persist
      <4> QED BY <4>1, <4>2
    <3> QED BY <2>1, <3>1 DEF deleteOK
  <2> QED BY <2>2, <2>3
<1>2. readOK(y)'
  <2>1. readOK(y)
    BY DEF txOK
  <2>2. CASE y.op # "read"
    BY <2>2 DEF readOK
  <2>3. CASE y.op = "read"
    <3>1. PICK self, peer, maxID, o :
            self = y.self /\ peer = y.peer /\ maxID = y.maxID /\ o = y.outboxMaxID
      OBVIOUS
    <3>2. self \in User /\ peer \in User /\ maxID \in Nat /\ o \in Nat /\ o <= lastMessageID[peer]
      BY <2>1, <2>3, <3>1 DEF readOK, Txn
    <3>3. /\ \A u \in User : lastMessageID[u] <= lastMessageID'[u]
          /\ maxID <= lastMessageID[self] =>
                /\ P!readIDs(self, peer, maxID)' = P!readIDs(self, peer, maxID)
                /\ P!ackedIDs(self, peer, maxID)' = P!ackedIDs(self, peer, maxID)
      BY <3>2, StoreBounds, P!ReadsStable
    <3>4. \A u \in User : lastMessageID[u] \in Nat /\ lastMessageID'[u] \in Nat
      BY DEF P!Tables
    <3>5. o <= lastMessageID'[peer] /\ (maxID <= lastMessageID[self] => maxID <= lastMessageID'[self])
      BY <3>2, <3>3, <3>4
    <3>6. KnownReads =>
            /\ maxID <= lastMessageID[self] /\ o = P!maxOf(P!ackedIDs(self, peer, maxID))
            /\ y.pc # "match" => y.read = P!readIDs(self, peer, maxID)
      BY <2>1, <2>3, <3>1 DEF readOK
    <3>7. y.pc \in {"match", "mark", "self", "peer", "commit"}
      BY <2>1, <2>3 DEF readOK
    <3>8. PICK r, a : r = P!readIDs(self, peer, maxID) /\ a = P!ackedIDs(self, peer, maxID)
      OBVIOUS
    <3>9. KnownReads =>
            /\ o = P!maxOf(P!ackedIDs(self, peer, maxID)')
            /\ y.pc # "match" => y.read = P!readIDs(self, peer, maxID)'
      BY <3>3, <3>6, <3>8
    <3>10. P!maxOf(P!ackedIDs(self, peer, maxID))' = P!maxOf(P!ackedIDs(self, peer, maxID)')
      BY DEF P!maxOf
    <3> QED BY <3>1, <3>2, <3>5, <3>6, <3>7, <3>9, <3>10 DEF readOK
  <2> QED BY <2>2, <2>3
<1> QED BY <1>1, <1>2

\* A commit that changes the tables: every transaction still has what it relies on.
LEMMA CommitTxs ==
    ASSUME P!Tables, P!Tables', P!StoreStep, P!Persist, TxInv, NEW t \in Tx, Commit(t)
    PROVE  TxInv'
<1>1. PICK x, h : x = tx[t] /\ h = held[t]
  OBVIOUS
<1>2. committed(x, h) /\ end(t) /\ sequence' = sequence
  BY <1>1, CommitWrites
<1>3. /\ tx \in [Tx -> Txn] /\ held = [s \in Tx |-> held[s]] /\ sequence \in Nat
      /\ DOMAIN messages \subseteq 1..sequence
  BY DEF TxInv, TxTypes
<1>4. NoTx \in Txn /\ NoTx.op = "none"
  BY NoTxType
<1>5. tx' \in [Tx -> Txn] /\ tx'[t] = NoTx /\ \A s \in Tx \ {t} : tx'[s] = tx[s]
  BY <1>2, <1>3, <1>4 DEF end
<1>6. /\ held' = [s \in Tx |-> held'[s]] /\ held'[t] = {}
      /\ \A s \in Tx \ {t} : held'[s] = held[s]
  BY <1>2, <1>3 DEF end
<1>7. TxTypes'
  <2>1. DOMAIN messages' = DOMAIN messages \cup (IF x.op = "send" THEN {x.globalID} ELSE {})
    BY <1>2, CommitMessages
  <2>2. x.op = "send" => x.globalID \in 1..sequence
    BY <1>2 DEF committed, txOK, sendOK
  <2>3. DOMAIN messages' \subseteq 1..sequence'
    BY <1>2, <1>3, <2>1, <2>2
  <2> QED BY <1>2, <1>3, <1>5, <1>6, <2>3 DEF TxTypes
<1>8. ASSUME NEW s \in Tx, NEW y, NEW k, y = tx'[s], k = held'[s]
      PROVE  txOK(y, k)'
  <2>1. CASE s = t
    <3>1. y = NoTx
      BY <1>5, <1>8, <2>1
    <3>2. DOMAIN y.given = {} /\ y.op = "none" /\ y.pc = "idle"
      BY <3>1, NoTxType
    <3>3. allotted(y) = {}
      BY <3>2 DEF allotted
    <3> QED BY <3>2, <3>3 DEF txOK, givenOK, sendOK, editOK, deleteOK, readOK
  <2>2. CASE s # t
    <3>1. y = tx[s] /\ k = held[s]
      BY <1>5, <1>6, <1>8, <2>2
    <3>2. y \in Txn /\ txOK(y, k)
      BY <3>1, TxOn
    <3>3. h \cap k = {}
      BY <1>1, <2>2, <3>1 DEF TxInv, LocksApart
    <3>4. x.op = "send" /\ y.op = "send" => x.globalID # y.globalID
      BY <1>1, <2>2, <3>1 DEF TxInv, SendsApart
    <3>5. givenOK(y, k)'
      BY <1>2, <3>2, <3>3, CommitGivenOK
    <3>6. sendOK(y)' /\ editOK(y, k)'
      BY <1>2, <3>2, <3>3, <3>4, CommitMessageOK
    <3>7. deleteOK(y, k)' /\ readOK(y)'
      BY <3>2, StepReadOK
    <3>8. y.op = "none" <=> y.pc = "idle"
      BY <3>2 DEF txOK
    <3> QED BY <3>5, <3>6, <3>7, <3>8 DEF txOK
  <2> QED BY <2>1, <2>2
<1>9. TxsOK'
  BY <1>8 DEF TxsOK
<1>10. LocksApart'
  BY <1>6 DEF TxInv, LocksApart
<1>11. SendsApart'
  BY <1>4, <1>5 DEF TxInv, SendsApart
<1> QED BY <1>7, <1>9, <1>10, <1>11 DEF TxInv

\* A step that leaves the tables leaves what is said of them.
LEMMA TablesStutter ==
    ASSUME UNCHANGED tables
    PROVE  (P!StoreInv => P!StoreInv') /\ (P!ReadsInv => P!ReadsInv')
<1>1. UNCHANGED P!storeVars
  BY DEF tables, P!storeVars
<1> QED BY <1>1, StoreBounds, P!StutterKeeps

\* A commit keeps the invariant, and does to the tables what a store may do.
LEMMA CommitKeeps ==
    ASSUME PgInv, NEW t \in Tx, Commit(t)
    PROVE  PgInv' /\ (UNCHANGED tables \/ (P!Persist /\ P!Log!Next))
<1>1. P!StoreInv /\ (KnownReads => P!ReadsInv) /\ TxInv /\ P!Tables
  BY DEF PgInv, P!StoreInv
<1>2. PICK x, h : x = tx[t] /\ h = held[t]
  OBVIOUS
<1>3. committed(x, h) /\ end(t) /\ sequence' = sequence
  BY <1>1, <1>2, CommitWrites
<1>4. /\ UNCHANGED tables \/ P!StoreStep
      /\ KnownReads => UNCHANGED tables \/ P!ExactStep
  BY <1>1, <1>3, CommitSteps
<1>5. CASE UNCHANGED tables
  <2>1. TxInv'
    BY <1>1, <1>3, <1>5, EndKeeps
  <2>2. P!StoreInv' /\ (KnownReads => P!ReadsInv')
    BY <1>1, <1>5, TablesStutter
  <2> QED BY <1>5, <2>1, <2>2 DEF PgInv
<1>6. CASE ~UNCHANGED tables
  <2>1. P!StoreStep /\ (KnownReads => P!ExactStep)
    BY <1>4, <1>6
  <2>2. P!StoreInv' /\ P!Persist /\ P!Log!Next
    BY <1>1, <2>1, StoreBounds, P!StoreKeeps
  <2>3. KnownReads => P!ReadsInv'
    BY <1>1, <2>1, StoreBounds, P!ExactKeeps
  <2>4. P!Tables'
    BY <2>2 DEF P!StoreInv
  <2>5. TxInv'
    BY <1>1, <2>1, <2>2, <2>4, CommitTxs
  <2> QED BY <2>2, <2>3, <2>5 DEF PgInv
<1> QED BY <1>5, <1>6

-----------------------------------------------------------------------------
(* The store *)

\* An empty database with no transaction.
LEMMA PgInit ==
    ASSUME Init
    PROVE  PgInv
<1>1. Mem!Init /\ sequence = 0 /\ tx = [t \in Tx |-> NoTx] /\ held = [t \in Tx |-> {}]
  BY DEF Init
<1>2. P!Init
  BY <1>1 DEF Mem!Init, P!Init
<1>3. P!StoreInv /\ P!ReadsInv
  BY <1>2, StoreBounds, P!InitStore
<1>4. messages = <<>>
  BY <1>2 DEF P!Init
<1>5. TxTypes
  BY <1>1, <1>4, NoTxType DEF TxTypes
<1>6. TxsOK
  BY <1>1, NoTxOK DEF TxsOK
<1>7. LocksApart /\ SendsApart
  BY <1>1, NoTxType DEF LocksApart, SendsApart
<1> QED BY <1>3, <1>5, <1>6, <1>7 DEF PgInv, TxInv

\* The steps that write no table.
LEMMA QuietSteps ==
    ASSUME P!Tables, TxInv, NEW t \in Tx,
           \/ Begin(t)
           \/ updateMessage(t) \/ deleteMessage(t) \/ matchRefs(t) \/ markRead(t)
           \/ allocateSelf(t) \/ allocatePeer(t)
           \/ Rollback(t) \/ DeadlockVictim(t)
    PROVE  TxInv' /\ UNCHANGED tables
<1>2. LocalID \subseteq Nat
  BY StoreBounds DEF LocalID
<1>3. CASE Begin(t)
  <2>1. ASSUME NEW from \in User, NEW peer \in User, NEW text \in Text,
               NEW randomID \in RandomID, SendMessage(t, from, peer, text, randomID)
        PROVE  TxInv' /\ UNCHANGED tables
    BY <2>1, SendBegins DEF SendMessage
  <2>2. ASSUME NEW self \in User, NEW i \in LocalID, NEW text \in Text,
               EditMessage(t, self, i, text)
        PROVE  TxInv' /\ UNCHANGED tables
    <3>1. i \in Nat
      BY <1>2
    <3> QED BY <2>2, <3>1, EditBegins DEF EditMessage
  <2>3. ASSUME NEW self \in User, NEW n \in 1..MaxDelete, NEW localIDs \in [1..n -> LocalID],
               DeleteMessages(t, self, localIDs)
        PROVE  TxInv' /\ UNCHANGED tables
    <3>1. n \in Nat \ {0}
      BY StoreBounds
    <3>2. localIDs \in [1..n -> Nat]
      BY <1>2
    <3> QED BY <2>3, <3>1, <3>2, DeleteBegins DEF DeleteMessages
  <2>4. ASSUME NEW self \in User, NEW peer \in User, NEW maxID \in LocalID,
               ReadHistory(t, self, peer, maxID)
        PROVE  TxInv' /\ UNCHANGED tables
    <3>1. maxID \in Nat
      BY <1>2
    <3> QED BY <2>4, <3>1, ReadBegins DEF ReadHistory
  <2> QED BY <1>3, <2>1, <2>2, <2>3, <2>4 DEF Begin
<1>4. CASE updateMessage(t)
  BY <1>4, UpdateKeeps DEF updateMessage
<1>5. CASE deleteMessage(t)
  BY <1>5, DeleteTurnKeeps DEF deleteMessage
<1>6. CASE matchRefs(t)
  BY <1>6, MatchKeeps DEF matchRefs
<1>7. CASE markRead(t)
  BY <1>7, MarkKeeps DEF markRead
<1>8. CASE allocateSelf(t)
  BY <1>8, AllocateSelfKeeps DEF allocateSelf
<1>9. CASE allocatePeer(t)
  BY <1>9, AllocatePeerKeeps DEF allocatePeer
<1>10. CASE Rollback(t)
  BY <1>10, EndKeeps DEF Rollback
<1>11. CASE DeadlockVictim(t)
  BY <1>11, EndKeeps DEF DeadlockVictim
<1> QED BY <1>3, <1>4, <1>5, <1>6, <1>7, <1>8, <1>9, <1>10, <1>11

\* Every step keeps the invariant; to the tables it does what a store may do, or nothing.
LEMMA PgNext ==
    ASSUME PgInv, [Next]_vars
    PROVE  PgInv' /\ (UNCHANGED tables \/ (P!Persist /\ P!Log!Next))
<1>1. P!StoreInv /\ (KnownReads => P!ReadsInv) /\ TxInv /\ P!Tables
  BY DEF PgInv, P!StoreInv
<1>2. ASSUME NEW t \in Tx, Commit(t)
      PROVE  PgInv' /\ (UNCHANGED tables \/ (P!Persist /\ P!Log!Next))
  BY <1>2, CommitKeeps
<1>3. ASSUME TxInv', UNCHANGED tables
      PROVE  PgInv' /\ (UNCHANGED tables \/ (P!Persist /\ P!Log!Next))
  <2>1. P!StoreInv' /\ (KnownReads => P!ReadsInv')
    BY <1>1, <1>3, TablesStutter
  <2> QED BY <1>3, <2>1 DEF PgInv
<1>4. CASE UNCHANGED vars
  <2>1. UNCHANGED tables /\ tx' = tx /\ held' = held /\ sequence' = sequence
    BY <1>4 DEF vars, tables
  <2>2. TxTypes'
    BY <1>1, <2>1 DEF TxInv, TxTypes, tables
  <2>3. ASSUME NEW s \in Tx, NEW x, NEW h, x = tx'[s], h = held'[s]
        PROVE  txOK(x, h)'
    <3>1. txOK(x, h)
      BY <1>1, <2>1, <2>3 DEF TxInv, TxsOK
    <3>2. sequence \in Nat /\ sequence' \in Nat /\ sequence <= sequence'
      BY <1>1, <2>1 DEF TxInv, TxTypes
    <3> QED BY <2>1, <3>1, <3>2, QuietOK
  <2>4. TxsOK'
    BY <2>3 DEF TxsOK
  <2>5. LocksApart' /\ SendsApart'
    BY <1>1, <2>1 DEF TxInv, LocksApart, SendsApart
  <2>6. TxInv'
    BY <2>2, <2>4, <2>5 DEF TxInv
  <2> QED BY <1>3, <2>1, <2>6
<1>5. CASE Next
  <2>1. PICK t \in Tx : Begin(t) \/ Statement(t) \/ Rollback(t) \/ DeadlockVictim(t)
    BY <1>5 DEF Next
  <2>2. CASE Commit(t)
    BY <1>2, <2>2
  <2>3. CASE ~Commit(t)
    <3>1. TxInv' /\ UNCHANGED tables
      BY <1>1, <2>1, <2>3, QuietSteps DEF Statement
    <3> QED BY <1>3, <3>1
  <2> QED BY <2>2, <2>3
<1> QED BY <1>4, <1>5

-----------------------------------------------------------------------------
(* The theorems *)

\* The two instances of the in-memory store count alike.
LEMMA SameCount == \A S : P!Cardinality(S) = Mem!Cardinality(S)
  BY Zenon DEF P!Cardinality, Mem!Cardinality

\* And say the same of the tables.
LEMMA SaidOfTables ==
    ASSUME PgInv
    PROVE  Mem!CopiesMatch /\ Mem!LogTellsMessages
<1>1. P!CopiesMatch /\ P!LogTellsMessages
  BY DEF PgInv, P!StoreInv
<1>2. Mem!CopiesMatch
  BY <1>1 DEF P!CopiesMatch, P!refByGlobal, Mem!CopiesMatch, Mem!refByGlobal
<1>3. Mem!LogTellsMessages
  <2>1. ASSUME NEW g \in DOMAIN messages
        PROVE  Mem!Cardinality(Mem!editsOf(messages[g].from, g))
                 = Mem!Cardinality(Mem!editsOf(messages[g].peer, g))
    <3>1. P!Cardinality(P!editsOf(messages[g].from, g))
            = P!Cardinality(P!editsOf(messages[g].peer, g))
      BY <1>1 DEF P!LogTellsMessages
    <3>2. \A u : P!editsOf(u, g) = Mem!editsOf(u, g)
      BY DEF P!editsOf, Mem!editsOf
    <3> QED BY <3>1, <3>2, SameCount
  <2>2. ASSUME NEW u \in User, NEW news, news = {k \in DOMAIN updates[u] : updates[u][k].type = "new"}
        PROVE  /\ \A i \in DOMAIN refs[u] :
                     \E k \in news : /\ updates[u][k].globalID = refs[u][i].globalID
                                     /\ Mem!Cardinality({n \in news : n <= k}) = i
               /\ Mem!Cardinality(news) = lastMessageID[u]
               /\ \A k \in DOMAIN updates[u] : updates[u][k].type = "edit" =>
                     \E n \in news : n < k /\ updates[u][n].globalID = updates[u][k].globalID
               /\ \A k \in DOMAIN updates[u] : updates[u][k].type \in {"new", "edit"} =>
                     Mem!MessageByGlobal(u, updates[u][k].globalID) # {}
    <3>1. /\ \A i \in DOMAIN refs[u] :
                \E k \in news : /\ updates[u][k].globalID = refs[u][i].globalID
                                /\ P!Cardinality({n \in news : n <= k}) = i
          /\ P!Cardinality(news) = lastMessageID[u]
          /\ \A k \in DOMAIN updates[u] : updates[u][k].type = "edit" =>
                \E n \in news : n < k /\ updates[u][n].globalID = updates[u][k].globalID
          /\ \A k \in DOMAIN updates[u] : updates[u][k].type \in {"new", "edit"} =>
                P!MessageByGlobal(u, updates[u][k].globalID) # {}
      BY <1>1, <2>2 DEF P!LogTellsMessages
    <3>2. \A k : P!Cardinality({n \in news : n <= k}) = Mem!Cardinality({n \in news : n <= k})
      BY SameCount
    <3>3. P!Cardinality(news) = Mem!Cardinality(news)
      BY SameCount
    <3>4. \A g : P!MessageByGlobal(u, g) = Mem!MessageByGlobal(u, g)
      BY DEF P!MessageByGlobal, P!refByGlobal, Mem!MessageByGlobal, Mem!refByGlobal
    <3> QED BY <3>1, <3>2, <3>3, <3>4
  <2> QED BY <2>1, <2>2 DEF Mem!LogTellsMessages
<1> QED BY <1>2, <1>3

\* Between any two statements of any number of connections the tables are consistent,
\* no row is locked twice, and each transaction in progress still has what it read under
\* its locks: its counters, its message, its references (allocate's UPDATE ... RETURNING,
\* EditMessage's conditional UPDATE), whoever commits, fails or deadlocks meanwhile.
THEOREM TransactionsHold == Spec => []PgInv
<1>1. Init => PgInv
  BY PgInit
<1>2. PgInv /\ [Next]_vars => PgInv'
  BY PgNext
<1> QED BY <1>1, <1>2, PTL DEF Spec

\* Transactions implement the update stream: although a pts is given out statements
\* before its entry is committed, each commit extends the logs it touches by one entry
\* that starts at the account's pts.
THEOREM PgImplementsUpdateLog == Spec => UpdateStream
<1>1. Init => Mem!Log!Init
  BY DEF Init, Mem!Init, Mem!Log!Init
<1>2. PgInv /\ [Next]_vars => [Mem!Log!Next]_(Mem!Log!logVars)
  <2>1. ASSUME PgInv, [Next]_vars
        PROVE  [Mem!Log!Next]_(Mem!Log!logVars)
    <3>1. UNCHANGED tables \/ P!Log!Next
      BY <2>1, PgNext
    <3>2. UNCHANGED tables => UNCHANGED Mem!Log!logVars
      BY DEF tables, Mem!Log!logVars
    <3>3. P!Log!Next => Mem!Log!Next
      BY DEF P!Log!Next, P!Log!Extended, P!Log!Untouched,
             Mem!Log!Next, Mem!Log!Extended, Mem!Log!Untouched
    <3> QED BY <3>1, <3>2, <3>3
  <2> QED BY <2>1
<1> QED BY <1>1, <1>2, TransactionsHold, PTL DEF Spec, UpdateStream, Mem!UpdateStream, Mem!Log!Spec

\* No commit rebinds a local id, unreads or undeletes a message or edits a deleted one:
\* EditMessage's condition is evaluated on the row it has locked.
THEOREM PgIdsAndDeletionsPersist == Spec => CopiesPersist
<1>1. PgInv /\ [Next]_vars => [P!Persist]_(Mem!storeVars)
  <2>1. ASSUME PgInv, [Next]_vars
        PROVE  [P!Persist]_(Mem!storeVars)
    <3>1. UNCHANGED tables \/ P!Persist
      BY <2>1, PgNext
    <3>2. UNCHANGED tables => UNCHANGED Mem!storeVars
      BY DEF tables, Mem!storeVars
    <3> QED BY <3>1, <3>2
  <2> QED BY <2>1
<1> QED BY <1>1, TransactionsHold, PTL DEF Spec, CopiesPersist, Mem!CopiesPersist, P!Persist

\* Two accounts hold the messages they share in the same order of local ids, although
\* SendMessage takes the two ids in two statements.
THEOREM SharedOrderHolds == Spec => []ConversationOrder
<1>1. PgInv => ConversationOrder
  BY DEF PgInv, P!StoreInv, P!SharedOrder, ConversationOrder
<1> QED BY <1>1, TransactionsHold, PTL

\* Whatever clients read up to, each participant has one copy of a message and no local
\* id is skipped, rollbacks and deadlocks notwithstanding, and the logs announce every
\* message once and every edit to both.
THEOREM PgCopiesAndLogs == Spec => [](Mem!CopiesMatch /\ Mem!LogTellsMessages)
<1>1. PgInv => Mem!CopiesMatch /\ Mem!LogTellsMessages
  BY SaidOfTables
<1> QED BY <1>1, TransactionsHold, PTL

\* When clients read up to ids they were given, receipts and unread flags are exact too:
\* ReadHistory's two snapshots agree, since no step between them changes what they select.
THEOREM PgAsInMemory == KnownReads => (Spec => []AsInMemory)
<1> SUFFICES ASSUME KnownReads
             PROVE  Spec => []AsInMemory
  OBVIOUS
<1>1. PgInv => Mem!ReceiptsExact
  BY DEF PgInv, P!ReadsInv, P!ReceiptsExact, P!refByGlobal, Mem!ReceiptsExact, Mem!refByGlobal
<1>2. PgInv => Mem!UnreadFollowsLog
  BY DEF PgInv, P!ReadsInv, P!UnreadFollowsLog, Mem!UnreadFollowsLog
<1>3. PgInv => AsInMemory
  BY <1>1, <1>2, SaidOfTables DEF AsInMemory
<1> QED BY <1>3, TransactionsHold, PTL
=============================================================================
