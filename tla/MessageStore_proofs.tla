------------------------ MODULE MessageStore_proofs ------------------------
(***************************************************************************)
(* Proofs about MessageStore, for every set of users and texts and every   *)
(* bound.                                                                  *)
(***************************************************************************)
EXTENDS MessageStore, FiniteSetTheorems, SequenceTheorems, WellFoundedInduction, TLAPS

\* A user's references are exactly the local ids given out, and each one names a
\* message that exists: what makes the look-ups of the operations well defined.
RefsDense ==
    \A u \in User :
        /\ Len(refs[u]) = lastMessageID[u]
        /\ \A i \in 1..lastMessageID[u] : refs[u][i].globalID \in 1..Len(messages)

Inv == TypeOK /\ RefsDense

\* The number of positions of a delete request that name a reference is a
\* positive natural number when there is one.
LEMMA DeleteCount ==
    ASSUME NEW n \in Nat, NEW F \in SUBSET (1..n), F # {}
    PROVE  Cardinality(F) \in Nat /\ Cardinality(F) > 0
<1>1. IsFiniteSet(1..n)
  BY FS_Interval
<1>2. IsFiniteSet(F)
  BY <1>1, FS_Subset
<1> QED
  BY <1>2, FS_CardinalityType, FS_EmptySet

\* A non-empty bounded set of natural numbers has a largest element.
LEMMA MaxExists ==
    ASSUME NEW n \in Nat, NEW S \in SUBSET (0..n), S # {}
    PROVE  \E i \in S : \A j \in S : j <= i
<1> DEFINE T == {n - i : i \in S}
           R == OpToRel(<, Nat)
<1>1. T \subseteq Nat /\ T # {}
  <2>1. \A i \in S : n - i \in Nat
    OBVIOUS
  <2>2. \E i \in S : TRUE
    OBVIOUS
  <2> QED BY <2>1, <2>2
<1>2. IsWellFoundedOn(R, Nat)
  BY NatLessThanWellFounded
<1>3. PICK x \in T : \A y \in T : ~(<<y, x>> \in R)
  <2> HIDE DEF T, R
  <2> QED BY <1>1, <1>2, WFMin
<1>4. PICK i \in S : x = n - i
  OBVIOUS
<1>5. ASSUME NEW j \in S
      PROVE  j <= i
  <2>1. n - j \in T /\ n - j \in Nat /\ x \in Nat
    BY <1>1
  <2>2. ~(n - j < x)
    BY <1>3, <2>1 DEF OpToRel
  <2> QED BY <1>4, <2>2
<1> QED BY <1>5

\* maxOf returns an element of a non-empty set of local ids that bounds it.
LEMMA MaxOfProperties ==
    ASSUME NEW n \in Nat, NEW S \in SUBSET (1..n)
    PROVE  /\ maxOf(S) \in Nat
           /\ S = {} => maxOf(S) = 0
           /\ S # {} => maxOf(S) \in S
           /\ \A i \in S : i <= maxOf(S)
<1>1. CASE S = {}
  BY <1>1 DEF maxOf
<1>2. CASE S # {}
  <2>1. \E i \in S : \A j \in S : j <= i
    <3>1. S \in SUBSET (0..n)
      OBVIOUS
    <3> QED BY <3>1, <1>2, MaxExists
  <2>2. maxOf(S) \in S /\ \A j \in S : j <= maxOf(S)
    BY <2>1, <1>2 DEF maxOf
  <2>3. maxOf(S) \in 1..n
    BY <2>2
  <2> QED BY <2>2, <2>3, <1>2
<1> QED BY <1>1, <1>2

\* Storing a row under the next id appends it.
LEMMA PutRefAppends ==
    ASSUME NEW S, NEW m \in Seq(S), NEW r \in S
    PROVE  putRef(m, Len(m) + 1, r) = Append(m, r)
<1>1. DOMAIN m = 1..Len(m) /\ Len(m) \in Nat
  OBVIOUS
<1>2. DOMAIN m \cup {Len(m) + 1} = 1..(Len(m) + 1)
  BY <1>1
<1>3. DOMAIN Append(m, r) = 1..(Len(m) + 1)
  BY <1>1
<1>4. ASSUME NEW k \in 1..(Len(m) + 1)
      PROVE  putRef(m, Len(m) + 1, r)[k] = Append(m, r)[k]
  BY <1>1, <1>2 DEF putRef
<1>5. Append(m, r) \in Seq(S) /\ Len(Append(m, r)) = Len(m) + 1
  BY AppendProperties
<1>6. putRef(m, Len(m) + 1, r) = [k \in 1..(Len(m) + 1) |-> Append(m, r)[k]]
  BY <1>2, <1>4 DEF putRef
<1>7. [k \in 1..(Len(m) + 1) |-> Append(m, r)[k]] = Append(m, r)
  <2>1. Append(m, r) \in [1..(Len(m) + 1) -> S]
    BY <1>5, LenProperties
  <2> QED BY <2>1
<1> QED BY <1>6, <1>7

\* The entries the operations log are log entries.
LEMMA MessageEntryType ==
    ASSUME NEW p \in Nat, NEW g \in Nat
    PROVE  MessageEntry(p, "new", g) \in Entry /\ MessageEntry(p, "edit", g) \in Entry
  BY DEF MessageEntry, Entry, UpdateTypes

\* So are those of a deletion.
LEMMA DeleteEntryType ==
    ASSUME NEW p \in Nat, NEW n \in Nat, NEW ids \in SUBSET Nat
    PROVE  DeleteEntry(p, n, ids) \in Entry
  BY DEF DeleteEntry, Entry, UpdateTypes

\* And those of a read, for the reader and for the peer.
LEMMA ReadEntryType ==
    ASSUME NEW p \in Nat, NEW u \in User, NEW i \in Nat
    PROVE  ReadEntry(p, "readinbox", u, i) \in Entry /\ ReadEntry(p, "readoutbox", u, i) \in Entry
  BY DEF ReadEntry, Entry, UpdateTypes

\* The typing of single tables, so that a step cites only the one it needs.
LEMMA PtsType ==
    ASSUME Inv
    PROVE  pts \in [User -> Nat] /\ \A u \in User : pts[u] + 1 \in Nat
  BY DEF Inv, TypeOK

\* The logs.
LEMMA UpdatesType ==
    ASSUME Inv
    PROVE  updates \in [User -> Seq(Entry)]
  BY DEF Inv, TypeOK

\* The references: a local id names a reference.
LEMMA RefsType ==
    ASSUME Inv
    PROVE  /\ refs \in [User -> Seq(Ref)]
           /\ \A u \in User : /\ refs[u] \in Seq(Ref)
                              /\ \A i \in DOMAIN refs[u] : refs[u][i] \in Ref
<1>1. refs \in [User -> Seq(Ref)]
  BY DEF Inv, TypeOK
<1>2. ASSUME NEW u \in User
      PROVE  refs[u] \in Seq(Ref) /\ \A i \in DOMAIN refs[u] : refs[u][i] \in Ref
  BY <1>1
<1> QED BY <1>1, <1>2

\* The empty store is typed and dense.
LEMMA InitInv == Init => Inv
  BY DEF Init, Inv, TypeOK, RefsDense

\* SendMessage keeps the tables typed and every reference resolvable.
LEMMA SendInv ==
    ASSUME Inv, NEW from \in User, NEW peer \in User, NEW text \in Text,
           NEW randomID \in RandomID, SendMessage(from, peer, text, randomID)
    PROVE  Inv'
<1> DEFINE P == participants(from, peer)
           r(u) == [globalID |-> Len(messages) + 1, out |-> u = from, unread |-> u # from]
<1>1. messages' \in Seq(Message) /\ Len(messages') = Len(messages) + 1 /\ Len(messages) \in Nat
  BY DEF SendMessage, Message, Inv, TypeOK
<1>2. lastMessageID' = [u \in User |-> IF u \in P THEN lastMessageID[u] + 1 ELSE lastMessageID[u]]
  BY DEF SendMessage
<1>3. pts' = [u \in User |-> IF u \in P THEN pts[u] + 1 ELSE pts[u]]
  BY DEF SendMessage
<1>4. ASSUME NEW u \in User
      PROVE  refs'[u] = IF u \in P THEN Append(refs[u], r(u)) ELSE refs[u]
  <2>1. refs[u] \in Seq(Ref) /\ Len(refs[u]) = lastMessageID[u] /\ r(u) \in Ref
    BY DEF Inv, TypeOK, RefsDense, Ref
  <2>2. putRef(refs[u], lastMessageID[u] + 1, r(u)) = Append(refs[u], r(u))
    BY <2>1, PutRefAppends
  <2> QED BY <2>2 DEF SendMessage
<1>5. \A u \in User : r(u) \in Ref /\ r(u).globalID = Len(messages) + 1
  BY <1>1 DEF Ref
<1>6. updates' \in [User -> Seq(Entry)]
  <2>1. \A u \in User : MessageEntry(pts[u] + 1, "new", Len(messages) + 1) \in Entry
    BY <1>1, MessageEntryType, PtsType
  <2> QED BY <2>1 DEF SendMessage, Inv, TypeOK
<1>7. DOMAIN refs' = User /\ refs' = [u \in User |-> refs'[u]]
  BY DEF SendMessage
<1> HIDE DEF P, r
<1>8. lastMessageID' \in [User -> Nat] /\ pts' \in [User -> Nat]
  <2>1. lastMessageID \in [User -> Nat] /\ pts \in [User -> Nat]
    BY DEF Inv, TypeOK
  <2>2. \A n \in Nat : n + 1 \in Nat
    OBVIOUS
  <2>3. lastMessageID' \in [User -> Nat]
    BY <1>2, <2>1, <2>2
  <2> QED BY <1>3, <2>1, <2>2, <2>3
<1>9. ASSUME NEW u \in User
      PROVE  /\ refs'[u] \in Seq(Ref)
             /\ Len(refs'[u]) = lastMessageID'[u]
             /\ \A i \in 1..lastMessageID'[u] : refs'[u][i].globalID \in 1..Len(messages')
  <2>1. /\ refs[u] \in Seq(Ref) /\ Len(refs[u]) = lastMessageID[u] /\ lastMessageID[u] \in Nat
        /\ \A i \in 1..lastMessageID[u] : refs[u][i].globalID \in 1..Len(messages)
    BY DEF Inv, TypeOK, RefsDense
  <2>2. CASE u \in P
    <3>1. refs'[u] = Append(refs[u], r(u)) /\ lastMessageID'[u] = lastMessageID[u] + 1
      BY <1>2, <1>4, <2>2
    <3>2. /\ refs'[u] \in Seq(Ref)
          /\ Len(refs'[u]) = Len(refs[u]) + 1
          /\ \A i \in 1..Len(refs[u]) : refs'[u][i] = refs[u][i]
          /\ refs'[u][Len(refs[u]) + 1] = r(u)
      BY <1>5, <2>1, <3>1, AppendProperties
    <3> QED BY <1>1, <1>5, <2>1, <3>1, <3>2
  <2>3. CASE u \notin P
    BY <1>1, <1>2, <1>4, <2>1, <2>3
  <2> QED BY <2>2, <2>3
<1>10. refs' \in [User -> Seq(Ref)]
  BY <1>7, <1>9
<1> QED BY <1>1, <1>6, <1>8, <1>9, <1>10 DEF Inv, TypeOK, RefsDense

\* EditMessage rewrites one message and gives out no id.
LEMMA EditInv ==
    ASSUME Inv, NEW self \in User, NEW localID \in Nat, NEW text \in Text,
           EditMessage(self, localID, text)
    PROVE  Inv'
<1> DEFINE g == refs[self][localID].globalID
           P == participants(self, messages[g].peer)
<1>1. refs[self] \in Seq(Ref) /\ localID \in 1..lastMessageID[self] /\ g \in 1..Len(messages)
  BY RefsType DEF EditMessage, Inv, RefsDense
<1>2. messages' = [messages EXCEPT ![g].text = text] /\ messages \in Seq(Message)
  BY DEF EditMessage, Inv, TypeOK
<1>3. messages' \in Seq(Message) /\ Len(messages') = Len(messages)
  <2>1. messages[g] \in Message
    BY <1>1, <1>2
  <2>2. [messages[g] EXCEPT !.text = text] \in Message
    BY <2>1 DEF Message
  <2> QED BY <1>1, <1>2, <2>2, ExceptSeq
<1>4. \A u \in User : MessageEntry(pts[u] + 1, "edit", g) \in Entry
  BY <1>1, MessageEntryType, PtsType
<1>5. updates' \in [User -> Seq(Entry)]
  BY <1>4, UpdatesType DEF EditMessage
<1>6. pts' \in [User -> Nat]
  BY PtsType DEF EditMessage
<1>7. lastMessageID' = lastMessageID /\ refs' = refs
  BY DEF EditMessage
<1> HIDE DEF g, P
<1> QED BY <1>3, <1>5, <1>6, <1>7 DEF Inv, TypeOK, RefsDense

\* DeleteMessages marks messages and gives out no id.
LEMMA DeleteInv ==
    ASSUME Inv, NEW self \in User, NEW n \in Nat, NEW localIDs \in [1..n -> Nat],
           DeleteMessages(self, localIDs)
    PROVE  Inv'
<1> DEFINE found == {k \in DOMAIN localIDs : localIDs[k] \in DOMAIN refs[self]}
           deleted == {localIDs[k] : k \in found}
           c == Cardinality(found)
<1>1. c \in Nat /\ c > 0
  BY DeleteCount DEF DeleteMessages
<1>2. messages' \in Seq(Message) /\ Len(messages') = Len(messages)
  <2>1. messages \in Seq(Message) /\ DOMAIN messages = 1..Len(messages) /\ Len(messages) \in Nat
    BY DEF Inv, TypeOK
  <2> DEFINE d(h) == messages[h].deleted \/ \E i \in deleted : refs[self][i].globalID = h
             m(h) == [messages[h] EXCEPT !.deleted = d(h)]
  <2>2. \A h \in 1..Len(messages) : m(h) \in Message
    <3>1. \A h \in 1..Len(messages) : d(h) \in BOOLEAN
      OBVIOUS
    <3>2. \A h \in 1..Len(messages) : messages[h] \in Message
      BY <2>1
    <3>3. \A x \in Message, b \in BOOLEAN : [x EXCEPT !.deleted = b] \in Message
      BY DEF Message
    <3> HIDE DEF d
    <3> QED BY <3>1, <3>2, <3>3
  <2>3. messages' = [h \in 1..Len(messages) |-> m(h)]
    BY <2>1 DEF DeleteMessages
  <2> HIDE DEF m
  <2> QED BY <2>1, <2>2, <2>3
<1>3. DeleteEntry(pts[self] + c, c, deleted) \in Entry
  <2>1. pts[self] + c \in Nat /\ deleted \in SUBSET Nat
    BY <1>1 DEF Inv, TypeOK
  <2> QED BY <1>1, <2>1, DeleteEntryType
<1>4. updates' = [updates EXCEPT ![self] = Append(@, DeleteEntry(pts[self] + c, c, deleted))]
  BY DEF DeleteMessages
<1>5. pts' = [pts EXCEPT ![self] = @ + c]
  BY DEF DeleteMessages
<1>6. lastMessageID' = lastMessageID /\ refs' = refs
  BY DEF DeleteMessages
<1> HIDE DEF found, deleted, c
<1>7. updates' \in [User -> Seq(Entry)]
  BY <1>3, <1>4 DEF Inv, TypeOK
<1>8. pts' \in [User -> Nat]
  BY <1>1, <1>5 DEF Inv, TypeOK
<1> QED BY <1>2, <1>6, <1>7, <1>8 DEF Inv, TypeOK, RefsDense

\* What ReadHistory reports to the peer is 0 or a local id.
LEMMA AckedMax ==
    ASSUME Inv, NEW self \in User, NEW peer \in User, NEW maxID \in Nat
    PROVE  maxOf(ackedIDs(self, peer, maxID)) \in Nat
<1>1. refs[peer] \in Seq(Ref) /\ Len(refs[peer]) \in Nat /\ DOMAIN refs[peer] = 1..Len(refs[peer])
  BY DEF Inv, TypeOK
<1>2. ackedIDs(self, peer, maxID) \in SUBSET (1..Len(refs[peer]))
  BY <1>1 DEF ackedIDs
<1> QED BY <1>1, <1>2, MaxOfProperties

\* ReadHistory rewrites the flags of references and gives out no id.
LEMMA ReadInv ==
    ASSUME Inv, NEW self \in User, NEW peer \in User, NEW maxID \in Nat,
           ReadHistory(self, peer, maxID)
    PROVE  Inv'
<1> DEFINE o == maxOf(ackedIDs(self, peer, maxID))
           S == readIDs(self, peer, maxID)
           f(i) == IF i \in S THEN [refs[self][i] EXCEPT !.unread = FALSE] ELSE refs[self][i]
           row == [i \in 1..Len(refs[self]) |-> f(i)]
<1>1. /\ refs[self] \in Seq(Ref) /\ DOMAIN refs[self] = 1..Len(refs[self])
      /\ Len(refs[self]) \in Nat /\ Len(refs[self]) = lastMessageID[self]
      /\ \A i \in 1..Len(refs[self]) : refs[self][i] \in Ref
  BY DEF Inv, TypeOK, RefsDense
<1>2. refs' = [refs EXCEPT ![self] = row]
  BY <1>1 DEF ReadHistory
<1>3. /\ row \in Seq(Ref) /\ Len(row) = Len(refs[self])
      /\ \A i \in 1..Len(refs[self]) : row[i].globalID = refs[self][i].globalID
  <2> HIDE DEF S
  <2>1. \A x \in Ref : /\ [x EXCEPT !.unread = FALSE] \in Ref
                       /\ [x EXCEPT !.unread = FALSE].globalID = x.globalID
    BY DEF Ref
  <2>2. \A i \in 1..Len(refs[self]) : f(i) \in Ref /\ f(i).globalID = refs[self][i].globalID
    BY <1>1, <2>1
  <2> HIDE DEF f
  <2> QED BY <1>1, <2>2
<1>4. \A u \in User : /\ ReadEntry(pts[u] + 1, "readinbox", peer, maxID) \in Entry
                      /\ ReadEntry(pts[u] + 1, "readoutbox", self, o) \in Entry
  <2>1. o \in Nat
    BY AckedMax
  <2> HIDE DEF o
  <2> QED BY <2>1, ReadEntryType, PtsType
<1>5. updates' \in [User -> Seq(Entry)]
  BY <1>4, UpdatesType DEF ReadHistory
<1>6. pts' \in [User -> Nat]
  <2> DEFINE P == IF o > 0 /\ peer # self THEN {self, peer} ELSE {self}
  <2>1. pts' = [u \in User |-> IF u \in P THEN pts[u] + 1 ELSE pts[u]]
    BY DEF ReadHistory
  <2> HIDE DEF P
  <2> QED BY <2>1, PtsType
<1>7. messages' = messages /\ lastMessageID' = lastMessageID
  BY DEF ReadHistory
<1> HIDE DEF o, S, f, row
<1>8. refs' \in [User -> Seq(Ref)]
  BY <1>2, <1>3 DEF Inv, TypeOK
<1>9. RefsDense'
  BY <1>1, <1>2, <1>3, <1>7 DEF Inv, TypeOK, RefsDense
<1> QED BY <1>5, <1>6, <1>7, <1>8, <1>9 DEF Inv, TypeOK

\* The tables of the store keep their types and every reference stays resolvable,
\* for any set of users and any bounds.
THEOREM RefsResolve == Spec => []Inv
<1>1. Init => Inv
  BY InitInv
<1>2. Inv /\ [Next]_storeVars => Inv'
  <2> SUFFICES ASSUME Inv, [Next]_storeVars
               PROVE  Inv'
    OBVIOUS
  <2>1. ASSUME NEW from \in User, NEW peer \in User, NEW text \in Text,
               NEW randomID \in RandomID, SendMessage(from, peer, text, randomID)
        PROVE  Inv'
    BY <2>1, SendInv
  <2>2. ASSUME NEW self \in User, NEW i \in LocalID, NEW text \in Text,
               EditMessage(self, i, text)
        PROVE  Inv'
    BY <2>2, EditInv, BoundAssumption DEF LocalID
  <2>3. ASSUME NEW self \in User, NEW n \in 1..MaxDelete, NEW localIDs \in [1..n -> LocalID],
               DeleteMessages(self, localIDs)
        PROVE  Inv'
    <3>1. n \in Nat /\ localIDs \in [1..n -> Nat]
      BY BoundAssumption DEF LocalID
    <3> QED BY <2>3, <3>1, DeleteInv
  <2>4. ASSUME NEW self \in User, NEW peer \in User, NEW maxID \in ReadID,
               ReadHistory(self, peer, maxID)
        PROVE  Inv'
    BY <2>4, ReadInv, BoundAssumption DEF ReadID
  <2>5. CASE UNCHANGED storeVars
    BY <2>5 DEF storeVars, Inv, TypeOK, RefsDense
  <2> QED BY <2>1, <2>2, <2>3, <2>4, <2>5 DEF Next
<1> QED BY <1>1, <1>2, PTL DEF Spec

\* Every table keeps its type (memory/db.go's maps), for any set of users and any
\* bounds.
THEOREM TypeCorrect == Spec => []TypeOK
<1>1. Inv => TypeOK
  BY DEF Inv
<1> QED BY <1>1, RefsResolve, PTL

-----------------------------------------------------------------------------
(* What a step may do *)

\* What one step may do to references and deleted messages.
Persist ==
    /\ \A u \in User : \A i \in DOMAIN refs[u] :
          /\ i \in DOMAIN refs'[u]
          /\ refs'[u][i].globalID = refs[u][i].globalID
          /\ refs'[u][i].unread => refs[u][i].unread
    /\ \A g \in DOMAIN messages : messages[g].deleted =>
          messages'[g].deleted /\ messages'[g].text = messages[g].text

\* A step that leaves ids, directions and participants as they are.
SameCopies ==
    /\ lastMessageID' = lastMessageID
    /\ DOMAIN messages' = DOMAIN messages
    /\ \A g \in DOMAIN messages :
          messages'[g].from = messages[g].from /\ messages'[g].peer = messages[g].peer
    /\ \A u \in User :
          /\ DOMAIN refs'[u] = DOMAIN refs[u]
          /\ \A i \in DOMAIN refs[u] : /\ refs'[u][i].globalID = refs[u][i].globalID
                                       /\ refs'[u][i].out = refs[u][i].out

\* Such a step keeps the copies matched.
LEMMA SameCopiesKeep ==
    ASSUME CopiesMatch, SameCopies
    PROVE  CopiesMatch'
<1>1. ASSUME NEW u \in User
      PROVE  DOMAIN refs'[u] = 1..lastMessageID'[u]
  BY DEF CopiesMatch, SameCopies
<1>2. ASSUME NEW g \in DOMAIN messages', NEW u \in User
      PROVE  /\ u \notin {messages'[g].from, messages'[g].peer} => refByGlobal(u, g)' = {}
             /\ u \in {messages'[g].from, messages'[g].peer}
                  => \E i \in DOMAIN refs'[u] :
                        /\ refByGlobal(u, g)' = {i}
                        /\ refs'[u][i].out = (u = messages'[g].from)
  <2>1. g \in DOMAIN messages /\ refByGlobal(u, g)' = refByGlobal(u, g)
        /\ messages'[g].from = messages[g].from /\ messages'[g].peer = messages[g].peer
    BY DEF SameCopies, refByGlobal
  <2>2. CASE u \notin {messages[g].from, messages[g].peer}
    BY <2>1, <2>2 DEF CopiesMatch
  <2>3. CASE u \in {messages[g].from, messages[g].peer}
    <3>1. PICK i \in DOMAIN refs[u] :
              refByGlobal(u, g) = {i} /\ refs[u][i].out = (u = messages[g].from)
      BY <2>1, <2>3 DEF CopiesMatch
    <3>2. i \in DOMAIN refs'[u] /\ refs'[u][i].out = refs[u][i].out
      BY <3>1 DEF SameCopies
    <3> QED BY <2>1, <2>3, <3>1, <3>2
  <2> QED BY <2>1, <2>2, <2>3
<1> QED BY <1>1, <1>2 DEF CopiesMatch

-----------------------------------------------------------------------------
(* Tables and the steps of a store *)

\* The tables of a store whatever gives out its global ids: every reference names a
\* message, and an account's references are its local ids.
Tables ==
    /\ messages = [g \in DOMAIN messages |-> messages[g]]
    /\ \A g \in DOMAIN messages : g \in Nat /\ messages[g] \in Message
    /\ lastMessageID \in [User -> Nat] /\ pts \in [User -> Nat]
    /\ updates \in [User -> Seq(Entry)] /\ refs \in [User -> Seq(Ref)]
    /\ \A u \in User : /\ Len(refs[u]) = lastMessageID[u]
                       /\ \A i \in DOMAIN refs[u] : refs[u][i].globalID \in DOMAIN messages

\* The four operations on the tables: the global id of a message sent, the references
\* marked read and the id of the receipt are left open.
SendStep(g, m) ==
    LET P == {m.from, m.peer}
    IN  /\ g \notin DOMAIN messages
        /\ messages' = putRef(messages, g, m)
        /\ lastMessageID' = [u \in User |->
                IF u \in P THEN lastMessageID[u] + 1 ELSE lastMessageID[u]]
        /\ pts' = [u \in User |-> IF u \in P THEN pts[u] + 1 ELSE pts[u]]
        /\ refs' = [u \in User |->
                IF u \in P
                THEN putRef(refs[u], lastMessageID[u] + 1,
                            [globalID |-> g, out |-> u = m.from, unread |-> u # m.from])
                ELSE refs[u]]
        /\ updates' = [u \in User |->
                IF u \in P THEN Append(updates[u], MessageEntry(pts[u] + 1, "new", g))
                ELSE updates[u]]

EditStep(g, text) ==
    LET P == {messages[g].from, messages[g].peer}
    IN  /\ g \in DOMAIN messages /\ ~messages[g].deleted
        /\ messages' = [messages EXCEPT ![g].text = text]
        /\ pts' = [u \in User |-> IF u \in P THEN pts[u] + 1 ELSE pts[u]]
        /\ updates' = [u \in User |->
                IF u \in P THEN Append(updates[u], MessageEntry(pts[u] + 1, "edit", g))
                ELSE updates[u]]
        /\ UNCHANGED <<lastMessageID, refs>>

DeleteStep(self, ids, n) ==
    /\ messages' = [g \in DOMAIN messages |->
            [messages[g] EXCEPT !.deleted = @ \/ \E i \in ids : refs[self][i].globalID = g]]
    /\ pts' = [pts EXCEPT ![self] = @ + n]
    /\ updates' = [updates EXCEPT ![self] = Append(@, DeleteEntry(pts[self] + n, n, ids))]
    /\ UNCHANGED <<lastMessageID, refs>>

ReadStep(self, peer, maxID, read, ackID) ==
    LET P == IF ackID > 0 /\ peer # self THEN {self, peer} ELSE {self}
    IN  /\ refs' = [refs EXCEPT ![self] =
                [i \in DOMAIN @ |->
                    IF i \in read THEN [@[i] EXCEPT !.unread = FALSE] ELSE @[i]]]
        /\ pts' = [u \in User |-> IF u \in P THEN pts[u] + 1 ELSE pts[u]]
        /\ updates' = [u \in User |->
                IF u = self
                THEN Append(updates[u], ReadEntry(pts[u] + 1, "readinbox", peer, maxID))
                ELSE IF u \in P
                THEN Append(updates[u], ReadEntry(pts[u] + 1, "readoutbox", self, ackID))
                ELSE updates[u]]
        /\ UNCHANGED <<messages, lastMessageID>>

\* The in-memory store's tables are such tables.
LEMMA InvTables ==
    ASSUME Inv
    PROVE  Tables
<1>1. /\ messages \in Seq(Message) /\ DOMAIN messages = 1..Len(messages) /\ Len(messages) \in Nat
      /\ lastMessageID \in [User -> Nat] /\ pts \in [User -> Nat]
      /\ updates \in [User -> Seq(Entry)] /\ refs \in [User -> Seq(Ref)]
  BY DEF Inv, TypeOK
<1>2. messages = [g \in DOMAIN messages |-> messages[g]]
  BY <1>1
<1>3. \A u \in User : /\ Len(refs[u]) = lastMessageID[u]
                      /\ \A i \in DOMAIN refs[u] : refs[u][i].globalID \in DOMAIN messages
  BY <1>1 DEF Inv, RefsDense
<1>4. \A g \in DOMAIN messages : g \in Nat /\ messages[g] \in Message
  BY <1>1
<1> QED BY <1>1, <1>2, <1>3, <1>4 DEF Tables

\* Its operations are such steps.
LEMMA SendIsStep ==
    ASSUME Inv, NEW from \in User, NEW peer \in User, NEW text \in Text,
           NEW randomID \in RandomID, SendMessage(from, peer, text, randomID)
    PROVE  \E g \in Nat, m \in Message : ~m.deleted /\ SendStep(g, m)
<1> DEFINE g == Len(messages) + 1
           m == [from |-> from, peer |-> peer, text |-> text, randomID |-> randomID,
                 deleted |-> FALSE]
<1>1. messages \in Seq(Message) /\ Len(messages) \in Nat /\ DOMAIN messages = 1..Len(messages)
  BY DEF Inv, TypeOK
<1>2. g \in Nat /\ g \notin DOMAIN messages
  BY <1>1
<1>3. m \in Message /\ m.from = from /\ m.peer = peer /\ m.deleted = FALSE
  BY DEF Message
<1>4. participants(from, peer) = {m.from, m.peer}
  BY <1>3 DEF participants
<1>5. /\ messages' = Append(messages, m)
      /\ lastMessageID' = [u \in User |->
            IF u \in participants(from, peer) THEN lastMessageID[u] + 1 ELSE lastMessageID[u]]
      /\ pts' = [u \in User |-> IF u \in participants(from, peer) THEN pts[u] + 1 ELSE pts[u]]
      /\ refs' = [u \in User |->
            IF u \in participants(from, peer)
            THEN putRef(refs[u], lastMessageID[u] + 1,
                        [globalID |-> g, out |-> u = from, unread |-> u # from])
            ELSE refs[u]]
      /\ updates' = [u \in User |->
            IF u \in participants(from, peer)
            THEN Append(updates[u], MessageEntry(pts[u] + 1, "new", g)) ELSE updates[u]]
  BY DEF SendMessage
<1> HIDE DEF m
<1>6. Append(messages, m) = putRef(messages, g, m)
  BY <1>1, <1>3, PutRefAppends
<1> HIDE DEF g
<1>7. SendStep(g, m)
  BY <1>2, <1>3, <1>4, <1>5, <1>6 DEF SendStep
<1> QED BY <1>2, <1>3, <1>7

\* An edit.
LEMMA EditIsStep ==
    ASSUME Inv, NEW self \in User, NEW localID \in Nat, NEW text \in Text,
           EditMessage(self, localID, text)
    PROVE  EditStep(refs[self][localID].globalID, text)
<1>1. refs[self][localID].globalID \in DOMAIN messages
  BY InvTables DEF EditMessage, Tables
<1> QED BY <1>1 DEF EditMessage, EditStep, editable, participants

\* A deletion.
LEMMA DeleteIsStep ==
    ASSUME Inv, NEW self \in User, NEW n \in Nat, NEW localIDs \in [1..n -> Nat],
           DeleteMessages(self, localIDs)
    PROVE  \E ids \in SUBSET DOMAIN refs[self], c \in Nat \ {0} : DeleteStep(self, ids, c)
<1> DEFINE found == {k \in DOMAIN localIDs : localIDs[k] \in DOMAIN refs[self]}
           ids == {localIDs[k] : k \in found}
           c == Cardinality(found)
<1>1. c \in Nat \ {0}
  <2>1. found \in SUBSET (1..n) /\ found # {}
    BY DEF DeleteMessages
  <2> HIDE DEF found
  <2>2. Cardinality(found) \in Nat /\ Cardinality(found) > 0
    BY <2>1, DeleteCount
  <2> QED BY <2>2
<1>2. ids \in SUBSET DOMAIN refs[self]
  OBVIOUS
<1>3. DeleteStep(self, ids, c)
  BY DEF DeleteMessages, DeleteStep
<1> HIDE DEF ids, c
<1> QED BY <1>1, <1>2, <1>3

\* A read.
LEMMA ReadIsStep ==
    ASSUME NEW self, NEW peer, NEW maxID, ReadHistory(self, peer, maxID)
    PROVE  ReadStep(self, peer, maxID, readIDs(self, peer, maxID),
                    maxOf(ackedIDs(self, peer, maxID)))
  BY DEF ReadHistory, ReadStep

-----------------------------------------------------------------------------
(* What the steps do to each table *)

\* The reference u gets to message g.
copyOf(g, m, u) == [globalID |-> g, out |-> u = m.from, unread |-> u # m.from]

\* A step at which the log of u gets the entry e, or none.
logged(u, e) ==
    /\ e \in Entry /\ updates'[u] = Append(updates[u], e)
    /\ e.ptsCount > 0 /\ e.pts = pts[u] + e.ptsCount /\ pts'[u] = e.pts

silent(u) == updates'[u] = updates[u] /\ pts'[u] = pts[u]

\* Sending: the row of a participant.
LEMMA SendRow ==
    ASSUME Tables, NEW g \in Nat, NEW m \in Message, SendStep(g, m),
           NEW u \in User, u \in {m.from, m.peer}
    PROVE  /\ copyOf(g, m, u) \in Ref
           /\ refs'[u] = Append(refs[u], copyOf(g, m, u))
           /\ lastMessageID'[u] = lastMessageID[u] + 1
           /\ logged(u, MessageEntry(pts[u] + 1, "new", g))
<1>1. /\ lastMessageID' = [v \in User |->
            IF v \in {m.from, m.peer} THEN lastMessageID[v] + 1 ELSE lastMessageID[v]]
      /\ pts' = [v \in User |-> IF v \in {m.from, m.peer} THEN pts[v] + 1 ELSE pts[v]]
      /\ refs' = [v \in User |->
            IF v \in {m.from, m.peer} THEN putRef(refs[v], lastMessageID[v] + 1, copyOf(g, m, v))
            ELSE refs[v]]
      /\ updates' = [v \in User |->
            IF v \in {m.from, m.peer}
            THEN Append(updates[v], MessageEntry(pts[v] + 1, "new", g)) ELSE updates[v]]
  BY DEF SendStep, copyOf
<1>2. copyOf(g, m, u) \in Ref
  BY DEF copyOf, Ref
<1>3. refs[u] \in Seq(Ref) /\ Len(refs[u]) = lastMessageID[u]
  BY DEF Tables
<1>4. putRef(refs[u], lastMessageID[u] + 1, copyOf(g, m, u)) = Append(refs[u], copyOf(g, m, u))
  BY <1>2, <1>3, PutRefAppends
<1>5. pts[u] \in Nat /\ pts[u] + 1 \in Nat
  BY DEF Tables
<1>6. MessageEntry(pts[u] + 1, "new", g) \in Entry
  BY <1>5, MessageEntryType
<1>7. /\ MessageEntry(pts[u] + 1, "new", g).ptsCount = 1
      /\ MessageEntry(pts[u] + 1, "new", g).pts = pts[u] + 1
  BY DEF MessageEntry
<1> QED BY <1>1, <1>2, <1>4, <1>5, <1>6, <1>7 DEF logged

\* Everyone else keeps what it had.
LEMMA SendOthers ==
    ASSUME Tables, NEW g, NEW m, SendStep(g, m), NEW u \in User, u \notin {m.from, m.peer}
    PROVE  refs'[u] = refs[u] /\ lastMessageID'[u] = lastMessageID[u] /\ silent(u)
  BY DEF SendStep, silent

\* The message is added, and the tables keep their shape.
LEMMA SendFacts ==
    ASSUME Tables, NEW g \in Nat, NEW m \in Message, SendStep(g, m)
    PROVE  /\ m.from \in User /\ m.peer \in User /\ g \notin DOMAIN messages
           /\ messages' = [h \in DOMAIN messages \cup {g} |-> messages'[h]]
           /\ messages'[g] = m /\ \A h \in DOMAIN messages : messages'[h] = messages[h]
           /\ refs' = [u \in User |-> refs'[u]] /\ updates' = [u \in User |-> updates'[u]]
           /\ lastMessageID' = [u \in User |-> lastMessageID'[u]]
           /\ pts' = [u \in User |-> pts'[u]]
<1>1. m.from \in User /\ m.peer \in User
  BY DEF Message
<1>2. g \notin DOMAIN messages /\ messages' = putRef(messages, g, m)
  BY DEF SendStep
<1>3. /\ messages' = [h \in DOMAIN messages \cup {g} |-> messages'[h]]
      /\ messages'[g] = m /\ \A h \in DOMAIN messages : messages'[h] = messages[h]
  BY <1>2 DEF putRef
<1>4. refs' = [u \in User |-> refs'[u]] /\ updates' = [u \in User |-> updates'[u]]
  BY DEF SendStep
<1>5. lastMessageID' = [u \in User |-> lastMessageID'[u]] /\ pts' = [u \in User |-> pts'[u]]
  BY DEF SendStep
<1> QED BY <1>1, <1>2, <1>3, <1>4, <1>5

\* Editing.
LEMMA EditFacts ==
    ASSUME Tables, NEW g, NEW text \in Text, EditStep(g, text)
    PROVE  /\ g \in DOMAIN messages /\ messages[g].from \in User /\ messages[g].peer \in User
           /\ messages' = [h \in DOMAIN messages |-> messages'[h]]
           /\ messages'[g] = [messages[g] EXCEPT !.text = text]
           /\ \A h \in DOMAIN messages \ {g} : messages'[h] = messages[h]
           /\ lastMessageID' = lastMessageID /\ refs' = refs
           /\ updates' = [u \in User |-> updates'[u]] /\ pts' = [u \in User |-> pts'[u]]
           /\ \A u \in User :
                 /\ u \in {messages[g].from, messages[g].peer} =>
                       logged(u, MessageEntry(pts[u] + 1, "edit", g))
                 /\ u \notin {messages[g].from, messages[g].peer} => silent(u)
<1>1. /\ g \in DOMAIN messages /\ messages' = [messages EXCEPT ![g].text = text]
      /\ lastMessageID' = lastMessageID /\ refs' = refs
      /\ pts' = [u \in User |-> IF u \in {messages[g].from, messages[g].peer}
                                THEN pts[u] + 1 ELSE pts[u]]
      /\ updates' = [u \in User |->
            IF u \in {messages[g].from, messages[g].peer}
            THEN Append(updates[u], MessageEntry(pts[u] + 1, "edit", g)) ELSE updates[u]]
  BY DEF EditStep
<1>2. messages[g] \in Message /\ g \in Nat
  BY <1>1 DEF Tables
<1>3. messages[g].from \in User /\ messages[g].peer \in User
  BY <1>2 DEF Message
<1>4. ASSUME NEW u \in User, u \in {messages[g].from, messages[g].peer}
      PROVE  logged(u, MessageEntry(pts[u] + 1, "edit", g))
  <2>1. pts[u] \in Nat /\ pts[u] + 1 \in Nat
    BY DEF Tables
  <2>2. MessageEntry(pts[u] + 1, "edit", g) \in Entry
    BY <1>2, <2>1, MessageEntryType
  <2>3. /\ MessageEntry(pts[u] + 1, "edit", g).ptsCount = 1
        /\ MessageEntry(pts[u] + 1, "edit", g).pts = pts[u] + 1
    BY DEF MessageEntry
  <2> QED BY <1>1, <1>4, <2>1, <2>2, <2>3 DEF logged
<1>5. ASSUME NEW u \in User, u \notin {messages[g].from, messages[g].peer}
      PROVE  silent(u)
  BY <1>1, <1>5 DEF silent
<1>6. /\ messages' = [h \in DOMAIN messages |-> messages'[h]]
      /\ messages'[g] = [messages[g] EXCEPT !.text = text]
      /\ \A h \in DOMAIN messages \ {g} : messages'[h] = messages[h]
  BY <1>1
<1>7. updates' = [u \in User |-> updates'[u]] /\ pts' = [u \in User |-> pts'[u]]
  BY <1>1
<1> QED BY <1>1, <1>3, <1>4, <1>5, <1>6, <1>7

\* Deleting.
LEMMA DeleteFacts ==
    ASSUME Tables, NEW self \in User, NEW ids \in SUBSET DOMAIN refs[self], NEW n \in Nat \ {0},
           DeleteStep(self, ids, n)
    PROVE  /\ messages' = [h \in DOMAIN messages |-> messages'[h]]
           /\ \A h \in DOMAIN messages :
                 /\ messages'[h] \in Message
                 /\ messages'[h].from = messages[h].from /\ messages'[h].peer = messages[h].peer
                 /\ messages'[h].text = messages[h].text
                 /\ messages[h].deleted => messages'[h].deleted
           /\ lastMessageID' = lastMessageID /\ refs' = refs
           /\ updates' = [u \in User |-> updates'[u]] /\ pts' = [u \in User |-> pts'[u]]
           /\ logged(self, DeleteEntry(pts[self] + n, n, ids))
           /\ \A u \in User \ {self} : silent(u)
<1>1. /\ messages' = [h \in DOMAIN messages |->
            [messages[h] EXCEPT !.deleted = @ \/ \E i \in ids : refs[self][i].globalID = h]]
      /\ pts' = [pts EXCEPT ![self] = pts[self] + n]
      /\ updates' = [updates EXCEPT ![self] =
                        Append(updates[self], DeleteEntry(pts[self] + n, n, ids))]
      /\ lastMessageID' = lastMessageID /\ refs' = refs
  BY DEF DeleteStep, Tables
<1>2. ASSUME NEW h \in DOMAIN messages
      PROVE  /\ messages'[h] \in Message
             /\ messages'[h].from = messages[h].from /\ messages'[h].peer = messages[h].peer
             /\ messages'[h].text = messages[h].text
             /\ messages[h].deleted => messages'[h].deleted
  <2> DEFINE d == messages[h].deleted \/ \E i \in ids : refs[self][i].globalID = h
  <2>1. messages[h] \in Message
    BY DEF Tables
  <2>2. messages'[h] = [messages[h] EXCEPT !.deleted = d]
    BY <1>1
  <2>3. d \in BOOLEAN /\ (messages[h].deleted => d)
    OBVIOUS
  <2> HIDE DEF d
  <2> QED BY <2>1, <2>2, <2>3 DEF Message
<1>3. pts \in [User -> Nat] /\ updates \in [User -> Seq(Entry)] /\ pts[self] \in Nat
      /\ ids \in SUBSET Nat /\ pts[self] + n \in Nat
  BY DEF Tables
<1>4. logged(self, DeleteEntry(pts[self] + n, n, ids))
  <2>1. DeleteEntry(pts[self] + n, n, ids) \in Entry
    BY <1>3, DeleteEntryType
  <2>2. /\ DeleteEntry(pts[self] + n, n, ids).ptsCount = n
        /\ DeleteEntry(pts[self] + n, n, ids).pts = pts[self] + n
    BY DEF DeleteEntry
  <2>3. n > 0
    OBVIOUS
  <2> QED BY <1>1, <1>3, <2>1, <2>2, <2>3 DEF logged
<1>5. \A u \in User \ {self} : silent(u)
  BY <1>1, <1>3 DEF silent
<1>6. /\ updates' = [u \in User |-> updates'[u]] /\ pts' = [u \in User |-> pts'[u]]
      /\ messages' = [h \in DOMAIN messages |-> messages'[h]]
  BY <1>1, <1>3
<1> QED BY <1>1, <1>2, <1>4, <1>5, <1>6

\* Reading.
LEMMA ReadFacts ==
    ASSUME Tables, NEW self \in User, NEW peer \in User, NEW maxID \in Nat, NEW read,
           NEW ackID \in Nat, ReadStep(self, peer, maxID, read, ackID)
    PROVE  /\ messages' = messages /\ lastMessageID' = lastMessageID
           /\ refs' = [u \in User |-> refs'[u]] /\ \A u \in User \ {self} : refs'[u] = refs[u]
           /\ refs'[self] \in Seq(Ref) /\ DOMAIN refs'[self] = DOMAIN refs[self]
           /\ \A i \in DOMAIN refs[self] :
                 /\ refs'[self][i].globalID = refs[self][i].globalID
                 /\ refs'[self][i].out = refs[self][i].out
                 /\ refs'[self][i].unread = (refs[self][i].unread /\ i \notin read)
           /\ updates' = [u \in User |-> updates'[u]] /\ pts' = [u \in User |-> pts'[u]]
           /\ logged(self, ReadEntry(pts[self] + 1, "readinbox", peer, maxID))
           /\ peer # self =>
                 IF ackID > 0 THEN logged(peer, ReadEntry(pts[peer] + 1, "readoutbox", self, ackID))
                              ELSE silent(peer)
           /\ \A u \in User \ {self, peer} : silent(u)
<1> DEFINE P == IF ackID > 0 /\ peer # self THEN {self, peer} ELSE {self}
           row == [i \in DOMAIN refs[self] |->
                      IF i \in read THEN [refs[self][i] EXCEPT !.unread = FALSE]
                      ELSE refs[self][i]]
<1>1. /\ refs' = [refs EXCEPT ![self] = row]
      /\ pts' = [u \in User |-> IF u \in P THEN pts[u] + 1 ELSE pts[u]]
      /\ updates' = [u \in User |->
            IF u = self THEN Append(updates[u], ReadEntry(pts[u] + 1, "readinbox", peer, maxID))
            ELSE IF u \in P
            THEN Append(updates[u], ReadEntry(pts[u] + 1, "readoutbox", self, ackID))
            ELSE updates[u]]
      /\ messages' = messages /\ lastMessageID' = lastMessageID
  BY DEF ReadStep, Tables
<1>2. /\ refs \in [User -> Seq(Ref)] /\ refs[self] \in Seq(Ref)
      /\ \A i \in DOMAIN refs[self] : refs[self][i] \in Ref
  BY DEF Tables
<1>3. ASSUME NEW i \in DOMAIN refs[self]
      PROVE  /\ row[i] \in Ref /\ row[i].globalID = refs[self][i].globalID
             /\ row[i].out = refs[self][i].out
             /\ row[i].unread = (refs[self][i].unread /\ i \notin read)
  <2>1. CASE i \in read
    BY <1>2, <2>1 DEF Ref
  <2>2. CASE i \notin read
    BY <1>2, <2>2 DEF Ref
  <2> QED BY <2>1, <2>2
<1>4. row \in Seq(Ref) /\ DOMAIN row = DOMAIN refs[self]
  <2>1. DOMAIN refs[self] = 1..Len(refs[self]) /\ Len(refs[self]) \in Nat
    BY <1>2
  <2>2. row = [i \in 1..Len(refs[self]) |-> row[i]]
    BY <2>1
  <2>3. \A i \in 1..Len(refs[self]) : row[i] \in Ref
    BY <1>3, <2>1
  <2> HIDE DEF row
  <2>4. row \in [1..Len(refs[self]) -> Ref]
    BY <2>2, <2>3
  <2> QED BY <2>1, <2>4
<1> HIDE DEF row
<1>5. \A u \in User : pts[u] \in Nat /\ pts[u] + 1 \in Nat
  BY DEF Tables
<1>6. logged(self, ReadEntry(pts[self] + 1, "readinbox", peer, maxID))
  <2>1. ReadEntry(pts[self] + 1, "readinbox", peer, maxID) \in Entry
    BY <1>5, ReadEntryType
  <2>2. /\ ReadEntry(pts[self] + 1, "readinbox", peer, maxID).ptsCount = 1
        /\ ReadEntry(pts[self] + 1, "readinbox", peer, maxID).pts = pts[self] + 1
    BY DEF ReadEntry
  <2> QED BY <1>1, <1>5, <2>1, <2>2 DEF logged
<1>7. ASSUME peer # self, ackID > 0
      PROVE  logged(peer, ReadEntry(pts[peer] + 1, "readoutbox", self, ackID))
  <2>1. ReadEntry(pts[peer] + 1, "readoutbox", self, ackID) \in Entry
    BY <1>5, ReadEntryType
  <2>2. /\ ReadEntry(pts[peer] + 1, "readoutbox", self, ackID).ptsCount = 1
        /\ ReadEntry(pts[peer] + 1, "readoutbox", self, ackID).pts = pts[peer] + 1
    BY DEF ReadEntry
  <2> QED BY <1>1, <1>5, <1>7, <2>1, <2>2 DEF logged
<1>8. /\ \A u \in User \ {self, peer} : silent(u)
      /\ peer # self /\ ~(ackID > 0) => silent(peer)
  BY <1>1 DEF silent
<1>9. refs'[self] = row /\ \A u \in User \ {self} : refs'[u] = refs[u]
  BY <1>1, <1>2
<1>10. refs' = [u \in User |-> refs'[u]]
  BY <1>1, <1>2
<1>11. updates' = [u \in User |-> updates'[u]] /\ pts' = [u \in User |-> pts'[u]]
  BY <1>1
<1> QED BY <1>1, <1>3, <1>4, <1>6, <1>7, <1>8, <1>9, <1>10, <1>11

\* Every log has grown by an entry or is as it was.
LogsMove ==
    /\ updates' = [u \in User |-> updates'[u]] /\ pts' = [u \in User |-> pts'[u]]
    /\ \A u \in User : silent(u) \/ \E e : logged(u, e)

\* Such logs are logs, and follow the update stream.
LEMMA LogsMoveOn ==
    ASSUME Tables, LogsMove
    PROVE  updates' \in [User -> Seq(Entry)] /\ pts' \in [User -> Nat] /\ Log!Next
<1>1. ASSUME NEW u \in User
      PROVE  /\ updates'[u] \in Seq(Entry) /\ pts'[u] \in Nat
             /\ Log!Extended(u) \/ Log!Untouched(u)
  <2>1. updates[u] \in Seq(Entry) /\ pts[u] \in Nat /\ Len(updates[u]) \in Nat
    BY DEF Tables
  <2>2. CASE silent(u)
    BY <2>1, <2>2 DEF silent, Log!Untouched
  <2>3. ASSUME NEW e, logged(u, e)
        PROVE  updates'[u] \in Seq(Entry) /\ pts'[u] \in Nat /\ Log!Extended(u)
    <3>1. /\ e \in Entry /\ updates'[u] = Append(updates[u], e)
          /\ e.ptsCount > 0 /\ e.pts = pts[u] + e.ptsCount /\ pts'[u] = e.pts
      BY <2>3 DEF logged
    <3>2. /\ updates'[u] \in Seq(Entry) /\ Len(updates'[u]) = Len(updates[u]) + 1
          /\ updates'[u][Len(updates[u]) + 1] = e
      BY <2>1, <3>1
    <3>3. e.pts \in Nat
      BY <3>1 DEF Entry
    <3> QED BY <3>1, <3>2, <3>3 DEF Log!Extended
  <2> QED BY <2>2, <2>3 DEF LogsMove
<1>2. DOMAIN updates' = User /\ DOMAIN pts' = User
  BY DEF LogsMove
<1> QED BY <1>1, <1>2 DEF LogsMove, Log!Next

\* All four steps move the logs on.
LEMMA SendLogs ==
    ASSUME Tables, NEW g \in Nat, NEW m \in Message, SendStep(g, m)
    PROVE  LogsMove
<1>1. ASSUME NEW u \in User
      PROVE  silent(u) \/ \E e : logged(u, e)
  <2>1. CASE u \in {m.from, m.peer}
    BY <2>1, SendRow
  <2>2. CASE u \notin {m.from, m.peer}
    BY <2>2, SendOthers
  <2> QED BY <2>1, <2>2
<1>2. updates' = [u \in User |-> updates'[u]] /\ pts' = [u \in User |-> pts'[u]]
  BY SendFacts
<1> QED BY <1>1, <1>2 DEF LogsMove

\* An edit.
LEMMA EditLogs ==
    ASSUME Tables, NEW g, NEW text \in Text, EditStep(g, text)
    PROVE  LogsMove
<1>1. ASSUME NEW u \in User
      PROVE  silent(u) \/ \E e : logged(u, e)
  BY EditFacts
<1>2. updates' = [u \in User |-> updates'[u]] /\ pts' = [u \in User |-> pts'[u]]
  BY EditFacts
<1> QED BY <1>1, <1>2 DEF LogsMove

\* A deletion.
LEMMA DeleteLogs ==
    ASSUME Tables, NEW self \in User, NEW ids \in SUBSET DOMAIN refs[self], NEW n \in Nat \ {0},
           DeleteStep(self, ids, n)
    PROVE  LogsMove
<1>1. ASSUME NEW u \in User
      PROVE  silent(u) \/ \E e : logged(u, e)
  BY DeleteFacts
<1>2. updates' = [u \in User |-> updates'[u]] /\ pts' = [u \in User |-> pts'[u]]
  BY DeleteFacts
<1> QED BY <1>1, <1>2 DEF LogsMove

\* A read.
LEMMA ReadLogs ==
    ASSUME Tables, NEW self \in User, NEW peer \in User, NEW maxID \in Nat, NEW read,
           NEW ackID \in Nat, ReadStep(self, peer, maxID, read, ackID)
    PROVE  LogsMove
<1>1. ASSUME NEW u \in User
      PROVE  silent(u) \/ \E e : logged(u, e)
  <2>1. CASE u = self
    BY <2>1, ReadFacts
  <2>2. CASE u = peer /\ u # self
    <3>1. IF ackID > 0 THEN logged(peer, ReadEntry(pts[peer] + 1, "readoutbox", self, ackID))
                       ELSE silent(peer)
      BY <2>2, ReadFacts
    <3> QED BY <2>2, <3>1
  <2>3. CASE u \notin {self, peer}
    BY <2>3, ReadFacts
  <2> QED BY <2>1, <2>2, <2>3
<1>2. updates' = [u \in User |-> updates'[u]] /\ pts' = [u \in User |-> pts'[u]]
  BY ReadFacts
<1> QED BY <1>1, <1>2 DEF LogsMove

\* The three that send nothing keep ids, directions and participants, and stay tables.
LEMMA EditSame ==
    ASSUME Tables, NEW g, NEW text \in Text, EditStep(g, text)
    PROVE  SameCopies /\ Tables' /\ Persist
<1>1. /\ g \in DOMAIN messages /\ messages' = [h \in DOMAIN messages |-> messages'[h]]
      /\ messages'[g] = [messages[g] EXCEPT !.text = text]
      /\ \A h \in DOMAIN messages \ {g} : messages'[h] = messages[h]
      /\ lastMessageID' = lastMessageID /\ refs' = refs
  BY EditFacts
<1>2. ASSUME NEW h \in DOMAIN messages
      PROVE  /\ messages'[h] \in Message /\ messages'[h].from = messages[h].from
             /\ messages'[h].peer = messages[h].peer /\ h \in Nat
  <2>1. messages[h] \in Message /\ h \in Nat
    BY DEF Tables
  <2>2. CASE h = g
    BY <1>1, <2>1, <2>2 DEF Message
  <2>3. CASE h # g
    BY <1>1, <2>1, <2>3
  <2> QED BY <2>2, <2>3
<1>3. DOMAIN messages' = DOMAIN messages
  BY <1>1
<1>4. updates' \in [User -> Seq(Entry)] /\ pts' \in [User -> Nat]
  BY EditLogs, LogsMoveOn
<1>5. Tables'
  BY <1>1, <1>2, <1>3, <1>4 DEF Tables
<1>6. SameCopies
  BY <1>1, <1>2, <1>3 DEF SameCopies
<1>7. ASSUME NEW h \in DOMAIN messages, messages[h].deleted
      PROVE  messages'[h] = messages[h]
  BY <1>1, <1>7 DEF EditStep
<1> QED BY <1>1, <1>5, <1>6, <1>7 DEF Persist

\* A deletion.
LEMMA DeleteSame ==
    ASSUME Tables, NEW self \in User, NEW ids \in SUBSET DOMAIN refs[self], NEW n \in Nat \ {0},
           DeleteStep(self, ids, n)
    PROVE  SameCopies /\ Tables' /\ Persist
<1>1. /\ messages' = [h \in DOMAIN messages |-> messages'[h]]
      /\ \A h \in DOMAIN messages :
            /\ messages'[h] \in Message
            /\ messages'[h].from = messages[h].from /\ messages'[h].peer = messages[h].peer
            /\ messages'[h].text = messages[h].text
            /\ messages[h].deleted => messages'[h].deleted
      /\ lastMessageID' = lastMessageID /\ refs' = refs
  BY DeleteFacts
<1>2. DOMAIN messages' = DOMAIN messages /\ \A h \in DOMAIN messages : h \in Nat
  BY <1>1 DEF Tables
<1>3. updates' \in [User -> Seq(Entry)] /\ pts' \in [User -> Nat]
  BY DeleteLogs, LogsMoveOn
<1>4. Tables'
  BY <1>1, <1>2, <1>3 DEF Tables
<1>5. SameCopies
  BY <1>1, <1>2 DEF SameCopies
<1> QED BY <1>1, <1>4, <1>5 DEF Persist

\* A read.
LEMMA ReadSame ==
    ASSUME Tables, NEW self \in User, NEW peer \in User, NEW maxID \in Nat, NEW read,
           NEW ackID \in Nat, ReadStep(self, peer, maxID, read, ackID)
    PROVE  SameCopies /\ Tables' /\ Persist
<1>1. /\ messages' = messages /\ lastMessageID' = lastMessageID
      /\ refs' = [u \in User |-> refs'[u]] /\ \A u \in User \ {self} : refs'[u] = refs[u]
      /\ refs'[self] \in Seq(Ref) /\ DOMAIN refs'[self] = DOMAIN refs[self]
      /\ \A i \in DOMAIN refs[self] :
            /\ refs'[self][i].globalID = refs[self][i].globalID
            /\ refs'[self][i].out = refs[self][i].out
            /\ refs'[self][i].unread = (refs[self][i].unread /\ i \notin read)
  BY ReadFacts
<1>2. updates' \in [User -> Seq(Entry)] /\ pts' \in [User -> Nat]
  BY ReadLogs, LogsMoveOn
<1>3. ASSUME NEW u \in User
      PROVE  /\ refs'[u] \in Seq(Ref) /\ DOMAIN refs'[u] = DOMAIN refs[u]
             /\ Len(refs'[u]) = Len(refs[u])
             /\ \A i \in DOMAIN refs[u] : /\ refs'[u][i].globalID = refs[u][i].globalID
                                          /\ refs'[u][i].out = refs[u][i].out
                                          /\ refs'[u][i].unread => refs[u][i].unread
  <2>1. refs[u] \in Seq(Ref)
    BY DEF Tables
  <2>2. CASE u # self
    BY <1>1, <2>1, <2>2
  <2>3. CASE u = self
    <3>1. \A i \in DOMAIN refs[self] : refs'[self][i].unread => refs[self][i].unread
      BY <1>1
    <3>2. /\ refs'[u] \in Seq(Ref) /\ DOMAIN refs'[u] = DOMAIN refs[u]
          /\ \A i \in DOMAIN refs[u] : /\ refs'[u][i].globalID = refs[u][i].globalID
                                       /\ refs'[u][i].out = refs[u][i].out
      BY <1>1, <2>3
    <3>3. Len(refs'[u]) = Len(refs[u])
      BY <2>1, <3>2
    <3> QED BY <2>3, <3>1, <3>2, <3>3
  <2> QED BY <2>2, <2>3
<1>4. refs' \in [User -> Seq(Ref)]
  BY <1>1, <1>3
<1>5. Tables'
  <2>1. \A u \in User : /\ Len(refs'[u]) = lastMessageID'[u]
                        /\ \A i \in DOMAIN refs'[u] : refs'[u][i].globalID \in DOMAIN messages'
    BY <1>1, <1>3 DEF Tables
  <2> QED BY <1>1, <1>2, <1>4, <2>1 DEF Tables
<1>6. SameCopies
  BY <1>1, <1>3 DEF SameCopies
<1> QED BY <1>1, <1>3, <1>5, <1>6 DEF Persist

\* Sending adds a row to each table and touches no other.
LEMMA SendTables ==
    ASSUME Tables, NEW g \in Nat, NEW m \in Message, SendStep(g, m)
    PROVE  Tables' /\ Persist
<1>1. /\ messages' = [h \in DOMAIN messages \cup {g} |-> messages'[h]]
      /\ messages'[g] = m /\ (\A h \in DOMAIN messages : messages'[h] = messages[h])
      /\ refs' = [u \in User |-> refs'[u]] /\ lastMessageID' = [u \in User |-> lastMessageID'[u]]
  BY SendFacts
<1>2. DOMAIN messages' = DOMAIN messages \cup {g}
  BY <1>1
<1>3. \A h \in DOMAIN messages' : h \in Nat /\ messages'[h] \in Message
  BY <1>1, <1>2 DEF Tables
<1>4. ASSUME NEW u \in User
      PROVE  /\ refs'[u] \in Seq(Ref) /\ lastMessageID'[u] \in Nat
             /\ Len(refs'[u]) = lastMessageID'[u]
             /\ \A i \in DOMAIN refs'[u] : refs'[u][i].globalID \in DOMAIN messages'
             /\ \A i \in DOMAIN refs[u] : i \in DOMAIN refs'[u] /\ refs'[u][i] = refs[u][i]
  <2>1. /\ refs[u] \in Seq(Ref) /\ Len(refs[u]) = lastMessageID[u] /\ lastMessageID[u] \in Nat
        /\ \A i \in DOMAIN refs[u] : refs[u][i].globalID \in DOMAIN messages
    BY DEF Tables
  <2>2. CASE u \in {m.from, m.peer}
    <3>1. /\ copyOf(g, m, u) \in Ref /\ refs'[u] = Append(refs[u], copyOf(g, m, u))
          /\ lastMessageID'[u] = lastMessageID[u] + 1
      BY <2>2, SendRow
    <3>2. copyOf(g, m, u).globalID = g
      BY DEF copyOf
    <3> HIDE DEF copyOf
    <3>3. /\ refs'[u] \in Seq(Ref) /\ Len(refs'[u]) = Len(refs[u]) + 1
          /\ DOMAIN refs[u] = 1..Len(refs[u]) /\ DOMAIN refs'[u] = 1..(Len(refs[u]) + 1)
          /\ refs'[u][Len(refs[u]) + 1] = copyOf(g, m, u)
          /\ \A i \in 1..Len(refs[u]) : refs'[u][i] = refs[u][i]
      BY <2>1, <3>1
    <3>4. \A i \in DOMAIN refs[u] : i \in DOMAIN refs'[u] /\ refs'[u][i] = refs[u][i]
      BY <2>1, <3>3
    <3>5. ASSUME NEW i \in DOMAIN refs'[u]
          PROVE  refs'[u][i].globalID \in DOMAIN messages'
      <4>1. i = Len(refs[u]) + 1 \/ i \in DOMAIN refs[u]
        BY <2>1, <3>3
      <4> QED BY <1>2, <2>1, <3>2, <3>3, <3>4, <4>1
    <3> QED BY <2>1, <3>1, <3>3, <3>4, <3>5
  <2>3. CASE u \notin {m.from, m.peer}
    BY <1>2, <2>1, <2>3, SendOthers
  <2> QED BY <2>2, <2>3
<1>5. updates' \in [User -> Seq(Entry)] /\ pts' \in [User -> Nat]
  BY SendLogs, LogsMoveOn
<1>6. refs' \in [User -> Seq(Ref)] /\ lastMessageID' \in [User -> Nat]
  BY <1>1, <1>4
<1>7. messages' = [h \in DOMAIN messages' |-> messages'[h]]
  BY <1>1, <1>2
<1>8. Tables'
  BY <1>3, <1>4, <1>5, <1>6, <1>7 DEF Tables
<1> QED BY <1>1, <1>4, <1>8 DEF Persist

-----------------------------------------------------------------------------
(* Copies and their order *)

\* The row a send adds to a participant's references.
LEMMA SendAdds ==
    ASSUME Tables, NEW g \in Nat, NEW m \in Message, SendStep(g, m),
           NEW u \in User, u \in {m.from, m.peer}
    PROVE  /\ lastMessageID[u] \in Nat /\ lastMessageID'[u] = lastMessageID[u] + 1
           /\ DOMAIN refs[u] = 1..lastMessageID[u]
           /\ DOMAIN refs'[u] = 1..(lastMessageID[u] + 1)
           /\ \A i \in DOMAIN refs[u] : refs'[u][i] = refs[u][i]
           /\ refs'[u][lastMessageID[u] + 1].globalID = g
           /\ refs'[u][lastMessageID[u] + 1].out = (u = m.from)
           /\ refs'[u][lastMessageID[u] + 1].unread = (u # m.from)
<1>1. /\ copyOf(g, m, u) \in Ref /\ refs'[u] = Append(refs[u], copyOf(g, m, u))
      /\ lastMessageID'[u] = lastMessageID[u] + 1
  BY SendRow
<1>2. refs[u] \in Seq(Ref) /\ Len(refs[u]) = lastMessageID[u] /\ lastMessageID[u] \in Nat
  BY DEF Tables
<1>3. /\ copyOf(g, m, u).globalID = g /\ copyOf(g, m, u).out = (u = m.from)
      /\ copyOf(g, m, u).unread = (u # m.from)
  BY DEF copyOf
<1>4. /\ DOMAIN refs[u] = 1..lastMessageID[u]
      /\ DOMAIN refs'[u] = 1..(lastMessageID[u] + 1)
      /\ \A i \in DOMAIN refs[u] : refs'[u][i] = refs[u][i]
      /\ refs'[u][lastMessageID[u] + 1] = copyOf(g, m, u)
  BY <1>1, <1>2
<1> QED BY <1>1, <1>2, <1>3, <1>4

\* A send changes nobody's references to another message.
LEMMA SendKeepsRefs ==
    ASSUME Tables, NEW g \in Nat, NEW m \in Message, SendStep(g, m), NEW u \in User
    PROVE  /\ \A i \in DOMAIN refs[u] : i \in DOMAIN refs'[u] /\ refs'[u][i] = refs[u][i]
           /\ \A h \in DOMAIN messages : refByGlobal(u, h)' = refByGlobal(u, h)
           /\ \A i \in DOMAIN refs[u] : refs[u][i].globalID # g
           /\ \A i \in DOMAIN refs'[u] \ DOMAIN refs[u] :
                 u \in {m.from, m.peer} /\ i = lastMessageID[u] + 1 /\ refs'[u][i].globalID = g
<1>1. g \notin DOMAIN messages
  BY SendFacts
<1>2. \A i \in DOMAIN refs[u] : refs[u][i].globalID \in DOMAIN messages
  BY DEF Tables
<1>3. CASE u \in {m.from, m.peer}
  <2>1. /\ lastMessageID[u] \in Nat /\ DOMAIN refs[u] = 1..lastMessageID[u]
        /\ DOMAIN refs'[u] = 1..(lastMessageID[u] + 1)
        /\ \A i \in DOMAIN refs[u] : refs'[u][i] = refs[u][i]
        /\ refs'[u][lastMessageID[u] + 1].globalID = g
    BY <1>3, SendAdds
  <2>2. /\ DOMAIN refs[u] \subseteq DOMAIN refs'[u]
        /\ \A i \in DOMAIN refs'[u] \ DOMAIN refs[u] : i = lastMessageID[u] + 1
    BY <2>1
  <2>3. \A h \in DOMAIN messages : refByGlobal(u, h)' = refByGlobal(u, h)
    BY <1>1, <2>1, <2>2 DEF refByGlobal
  <2> QED BY <1>1, <1>2, <1>3, <2>1, <2>2, <2>3
<1>4. CASE u \notin {m.from, m.peer}
  <2>1. refs'[u] = refs[u]
    BY <1>4, SendOthers
  <2>2. \A h \in DOMAIN messages : refByGlobal(u, h)' = refByGlobal(u, h)
    BY <2>1 DEF refByGlobal
  <2> QED BY <1>1, <1>2, <2>1, <2>2
<1> QED BY <1>3, <1>4

\* The references to the message just sent.
LEMMA SendNewRefs ==
    ASSUME Tables, NEW g \in Nat, NEW m \in Message, SendStep(g, m), NEW u \in User
    PROVE  refByGlobal(u, g)' = IF u \in {m.from, m.peer} THEN {lastMessageID[u] + 1} ELSE {}
<1>1. /\ \A i \in DOMAIN refs[u] : i \in DOMAIN refs'[u] /\ refs'[u][i] = refs[u][i]
      /\ \A i \in DOMAIN refs[u] : refs[u][i].globalID # g
      /\ \A i \in DOMAIN refs'[u] \ DOMAIN refs[u] :
            u \in {m.from, m.peer} /\ i = lastMessageID[u] + 1 /\ refs'[u][i].globalID = g
  BY SendKeepsRefs
<1>2. CASE u \in {m.from, m.peer}
  <2>1. /\ lastMessageID[u] \in Nat /\ DOMAIN refs'[u] = 1..(lastMessageID[u] + 1)
        /\ refs'[u][lastMessageID[u] + 1].globalID = g
    BY <1>2, SendAdds
  <2>2. lastMessageID[u] + 1 \in DOMAIN refs'[u]
    BY <2>1
  <2> QED BY <1>1, <1>2, <2>1, <2>2 DEF refByGlobal
<1>3. CASE u \notin {m.from, m.peer}
  BY <1>1, <1>3 DEF refByGlobal
<1> QED BY <1>2, <1>3

\* A send gives each participant one copy of the new message and leaves the copies of
\* the others.
LEMMA SendCopies ==
    ASSUME Tables, CopiesMatch, NEW g \in Nat, NEW m \in Message, SendStep(g, m)
    PROVE  CopiesMatch'
<1>1. /\ g \notin DOMAIN messages /\ DOMAIN messages' = DOMAIN messages \cup {g}
      /\ messages'[g] = m /\ \A h \in DOMAIN messages : messages'[h] = messages[h]
  BY SendFacts
<1>2. ASSUME NEW u \in User
      PROVE  DOMAIN refs'[u] = 1..lastMessageID'[u]
  <2>1. CASE u \in {m.from, m.peer}
    BY <2>1, SendAdds
  <2>2. CASE u \notin {m.from, m.peer}
    BY <2>2, SendOthers DEF CopiesMatch
  <2> QED BY <2>1, <2>2
<1>3. ASSUME NEW h \in DOMAIN messages', NEW u \in User
      PROVE  /\ u \notin {messages'[h].from, messages'[h].peer} => refByGlobal(u, h)' = {}
             /\ u \in {messages'[h].from, messages'[h].peer}
                  => \E i \in DOMAIN refs'[u] :
                        /\ refByGlobal(u, h)' = {i}
                        /\ refs'[u][i].out = (u = messages'[h].from)
  <2>1. CASE h = g
    <3>1. CASE u \in {m.from, m.peer}
      <4>1. refByGlobal(u, g)' = {lastMessageID[u] + 1}
        BY <3>1, SendNewRefs
      <4>2. /\ lastMessageID[u] + 1 \in DOMAIN refs'[u]
            /\ refs'[u][lastMessageID[u] + 1].out = (u = m.from)
        BY <3>1, SendAdds
      <4> QED BY <1>1, <2>1, <3>1, <4>1, <4>2
    <3>2. CASE u \notin {m.from, m.peer}
      <4>1. refByGlobal(u, g)' = {}
        BY <3>2, SendNewRefs
      <4> QED BY <1>1, <2>1, <3>2, <4>1
    <3> QED BY <3>1, <3>2
  <2>2. CASE h # g
    <3>1. h \in DOMAIN messages /\ messages'[h] = messages[h]
      BY <1>1, <2>2
    <3>2. /\ refByGlobal(u, h)' = refByGlobal(u, h)
          /\ \A i \in DOMAIN refs[u] : i \in DOMAIN refs'[u] /\ refs'[u][i] = refs[u][i]
      BY <3>1, SendKeepsRefs
    <3>3. CASE u \notin {messages[h].from, messages[h].peer}
      BY <3>1, <3>2, <3>3 DEF CopiesMatch
    <3>4. CASE u \in {messages[h].from, messages[h].peer}
      <4>1. PICK i \in DOMAIN refs[u] :
                refByGlobal(u, h) = {i} /\ refs[u][i].out = (u = messages[h].from)
        BY <3>1, <3>4 DEF CopiesMatch
      <4> QED BY <3>1, <3>2, <3>4, <4>1
    <3> QED BY <3>1, <3>3, <3>4
  <2> QED BY <2>1, <2>2
<1> QED BY <1>2, <1>3 DEF CopiesMatch

\* Two accounts hold the messages they share in the same order of local ids.
SharedOrder ==
    \A u, v \in User : \A i, j \in DOMAIN refs[u], k, l \in DOMAIN refs[v] :
        (   /\ refs[u][i].globalID = refs[v][k].globalID
            /\ refs[u][j].globalID = refs[v][l].globalID
            /\ i < j)
        => k < l

\* A step that gives out no id keeps the order.
LEMMA SameOrderKeep ==
    ASSUME SharedOrder, SameCopies
    PROVE  SharedOrder'
<1> SUFFICES ASSUME NEW u \in User, NEW v \in User, NEW i \in DOMAIN refs'[u],
                    NEW j \in DOMAIN refs'[u], NEW k \in DOMAIN refs'[v], NEW l \in DOMAIN refs'[v],
                    refs'[u][i].globalID = refs'[v][k].globalID,
                    refs'[u][j].globalID = refs'[v][l].globalID, i < j
             PROVE  k < l
  BY DEF SharedOrder
<1>1. /\ i \in DOMAIN refs[u] /\ j \in DOMAIN refs[u] /\ k \in DOMAIN refs[v] /\ l \in DOMAIN refs[v]
      /\ refs[u][i].globalID = refs[v][k].globalID /\ refs[u][j].globalID = refs[v][l].globalID
  BY DEF SameCopies
<1> QED BY <1>1 DEF SharedOrder

\* A send gives the new message the last id of both accounts.
LEMMA SendOrder ==
    ASSUME Tables, SharedOrder, NEW g \in Nat, NEW m \in Message, SendStep(g, m)
    PROVE  SharedOrder'
<1> SUFFICES ASSUME NEW u \in User, NEW v \in User, NEW i \in DOMAIN refs'[u],
                    NEW j \in DOMAIN refs'[u], NEW k \in DOMAIN refs'[v], NEW l \in DOMAIN refs'[v],
                    refs'[u][i].globalID = refs'[v][k].globalID,
                    refs'[u][j].globalID = refs'[v][l].globalID, i < j
             PROVE  k < l
  BY DEF SharedOrder
<1>1. ASSUME NEW w \in User
      PROVE  /\ \A n \in DOMAIN refs[w] : n \in DOMAIN refs'[w] /\ refs'[w][n] = refs[w][n]
             /\ \A n \in DOMAIN refs[w] : refs'[w][n].globalID # g
             /\ \A n \in DOMAIN refs'[w] \ DOMAIN refs[w] :
                   n = lastMessageID[w] + 1 /\ refs'[w][n].globalID = g
             /\ DOMAIN refs[w] = 1..lastMessageID[w] /\ lastMessageID[w] \in Nat
  <2>1. DOMAIN refs[w] = 1..lastMessageID[w] /\ lastMessageID[w] \in Nat
    BY DEF Tables
  <2> QED BY <2>1, SendKeepsRefs
<1>2. i \in DOMAIN refs[u]
  <2>1. CASE j \in DOMAIN refs[u]
    BY <1>1, <2>1
  <2>2. CASE j \notin DOMAIN refs[u]
    BY <1>1, <2>2
  <2> QED BY <2>1, <2>2
<1>3. k \in DOMAIN refs[v] /\ refs[u][i].globalID = refs[v][k].globalID
  BY <1>1, <1>2
<1>4. CASE j \in DOMAIN refs[u]
  <2>1. l \in DOMAIN refs[v] /\ refs[u][j].globalID = refs[v][l].globalID
    BY <1>1, <1>4
  <2> QED BY <1>2, <1>3, <1>4, <2>1 DEF SharedOrder
<1>5. CASE j \notin DOMAIN refs[u]
  <2>1. l \notin DOMAIN refs[v]
    BY <1>1, <1>5
  <2>2. l = lastMessageID[v] + 1
    BY <1>1, <2>1
  <2> QED BY <1>1, <1>3, <2>2
<1> QED BY <1>4, <1>5

-----------------------------------------------------------------------------
(* What the log tells of messages *)

\* The announcements in a log, and the edits of message g.
newsIn(log) == {k \in DOMAIN log : log[k].type = "new"}
editsIn(log, g) == {k \in DOMAIN log : log[k].type = "edit" /\ log[k].globalID = g}

\* An account's part of LogTellsMessages: the log announces the references row.
tells(log, row) ==
    /\ \A i \in DOMAIN row :
          \E k \in newsIn(log) : /\ log[k].globalID = row[i].globalID
                                 /\ Cardinality({n \in newsIn(log) : n <= k}) = i
    /\ Cardinality(newsIn(log)) = Len(row)
    /\ \A k \in DOMAIN log : log[k].type = "edit" =>
          \E n \in newsIn(log) : n < k /\ log[n].globalID = log[k].globalID
    /\ \A k \in DOMAIN log : log[k].type \in {"new", "edit"} =>
          \E i \in DOMAIN row : row[i].globalID = log[k].globalID

\* One more entry in a log.
LEMMA LogAppend ==
    ASSUME NEW log \in Seq(Entry), NEW e \in Entry
    PROVE  /\ Len(log) \in Nat /\ DOMAIN log = 1..Len(log) /\ Append(log, e) \in Seq(Entry)
           /\ DOMAIN Append(log, e) = DOMAIN log \cup {Len(log) + 1}
           /\ Append(log, e)[Len(log) + 1] = e /\ Len(log) + 1 \notin DOMAIN log
           /\ \A k \in DOMAIN log : Append(log, e)[k] = log[k] /\ k \in Nat /\ k < Len(log) + 1
<1>1. Len(log) \in Nat /\ DOMAIN log = 1..Len(log) /\ Append(log, e) \in Seq(Entry)
  OBVIOUS
<1>2. DOMAIN Append(log, e) = 1..(Len(log) + 1)
  BY <1>1
<1>3. 1..(Len(log) + 1) = 1..Len(log) \cup {Len(log) + 1}
  BY <1>1
<1>4. Append(log, e)[Len(log) + 1] = e /\ Len(log) + 1 \notin DOMAIN log
  BY <1>1
<1>5. \A k \in DOMAIN log : Append(log, e)[k] = log[k] /\ k \in Nat /\ k < Len(log) + 1
  BY <1>1
<1> QED BY <1>1, <1>2, <1>3, <1>4, <1>5

\* The numbers up to n are finitely many, and a new one counts once.
LEMMA CountOneMore ==
    ASSUME NEW n \in Nat, NEW S \in SUBSET (1..n)
    PROVE  /\ Cardinality(S) \in Nat /\ Cardinality(S \cup {n + 1}) = Cardinality(S) + 1
<1>1. IsFiniteSet(1..n)
  BY FS_Interval
<1>2. IsFiniteSet(S)
  BY <1>1, FS_Subset
<1>3. n + 1 \notin S
  OBVIOUS
<1> QED BY <1>2, <1>3, FS_AddElement, FS_CardinalityType

\* The announcements after one more entry.
LEMMA NewsAppend ==
    ASSUME NEW log \in Seq(Entry), NEW e \in Entry
    PROVE  /\ newsIn(log) \in SUBSET (1..Len(log)) /\ newsIn(log) \subseteq newsIn(Append(log, e))
           /\ e.type = "new" => newsIn(Append(log, e)) = newsIn(log) \cup {Len(log) + 1}
           /\ e.type # "new" => newsIn(Append(log, e)) = newsIn(log)
           /\ \A k \in newsIn(log) :
                 {n \in newsIn(Append(log, e)) : n <= k} = {n \in newsIn(log) : n <= k}
<1>1. /\ Len(log) \in Nat /\ DOMAIN log = 1..Len(log)
      /\ DOMAIN Append(log, e) = DOMAIN log \cup {Len(log) + 1}
      /\ Append(log, e)[Len(log) + 1] = e /\ Len(log) + 1 \notin DOMAIN log
      /\ \A k \in DOMAIN log : Append(log, e)[k] = log[k] /\ k \in Nat /\ k < Len(log) + 1
  BY LogAppend
<1>2. newsIn(log) \in SUBSET (1..Len(log))
  BY <1>1 DEF newsIn
<1>3. e.type = "new" => newsIn(Append(log, e)) = newsIn(log) \cup {Len(log) + 1}
  BY <1>1 DEF newsIn
<1>4. e.type # "new" => newsIn(Append(log, e)) = newsIn(log)
  BY <1>1 DEF newsIn
<1>5. ASSUME NEW k \in newsIn(log)
      PROVE  {n \in newsIn(Append(log, e)) : n <= k} = {n \in newsIn(log) : n <= k}
  <2>1. k \in Nat /\ k <= Len(log) /\ ~(Len(log) + 1 <= k)
    BY <1>1, <1>2
  <2> QED BY <1>3, <1>4, <2>1
<1> QED BY <1>2, <1>3, <1>4, <1>5

\* An entry about no message tells as much as before.
LEMMA TellsOther ==
    ASSUME NEW log \in Seq(Entry), NEW e \in Entry, NEW row, tells(log, row),
           e.type \notin {"new", "edit"}
    PROVE  tells(Append(log, e), row)
<1> DEFINE L == Append(log, e)
<1>1. /\ DOMAIN L = DOMAIN log \cup {Len(log) + 1} /\ L[Len(log) + 1] = e
      /\ \A k \in DOMAIN log : L[k] = log[k]
  BY LogAppend
<1>2. newsIn(L) = newsIn(log) /\ newsIn(log) \subseteq DOMAIN log
  BY NewsAppend DEF newsIn
<1> HIDE DEF L
<1>3. /\ \A i \in DOMAIN row :
            \E k \in newsIn(L) : /\ L[k].globalID = row[i].globalID
                                 /\ Cardinality({n \in newsIn(L) : n <= k}) = i
      /\ Cardinality(newsIn(L)) = Len(row)
  <2>1. ASSUME NEW i \in DOMAIN row
        PROVE  \E k \in newsIn(L) : /\ L[k].globalID = row[i].globalID
                                    /\ Cardinality({n \in newsIn(L) : n <= k}) = i
    <3>1. PICK k \in newsIn(log) : /\ log[k].globalID = row[i].globalID
                                   /\ Cardinality({n \in newsIn(log) : n <= k}) = i
      BY DEF tells
    <3> QED BY <1>1, <1>2, <3>1
  <2>2. Cardinality(newsIn(L)) = Len(row)
    BY <1>2 DEF tells
  <2> QED BY <2>1, <2>2
<1>4. \A k \in DOMAIN L : L[k].type = "edit" =>
          \E n \in newsIn(L) : n < k /\ L[n].globalID = L[k].globalID
  BY <1>1, <1>2 DEF tells
<1>5. \A k \in DOMAIN L : L[k].type \in {"new", "edit"} =>
          \E i \in DOMAIN row : row[i].globalID = L[k].globalID
  BY <1>1 DEF tells
<1> QED BY <1>3, <1>4, <1>5 DEF tells, L

\* An edit of a message the account holds comes after its announcement.
LEMMA TellsEdit ==
    ASSUME NEW log \in Seq(Entry), NEW e \in Entry, NEW row, tells(log, row),
           e.type = "edit", NEW j \in DOMAIN row, row[j].globalID = e.globalID
    PROVE  tells(Append(log, e), row)
<1> DEFINE L == Append(log, e)
<1>1. /\ DOMAIN L = DOMAIN log \cup {Len(log) + 1} /\ L[Len(log) + 1] = e
      /\ \A k \in DOMAIN log : L[k] = log[k] /\ k < Len(log) + 1
  BY LogAppend
<1>2. newsIn(L) = newsIn(log) /\ newsIn(log) \subseteq DOMAIN log
  BY NewsAppend DEF newsIn
<1> HIDE DEF L
<1>3. /\ \A i \in DOMAIN row :
            \E k \in newsIn(L) : /\ L[k].globalID = row[i].globalID
                                 /\ Cardinality({n \in newsIn(L) : n <= k}) = i
      /\ Cardinality(newsIn(L)) = Len(row)
  <2>1. ASSUME NEW i \in DOMAIN row
        PROVE  \E k \in newsIn(L) : /\ L[k].globalID = row[i].globalID
                                    /\ Cardinality({n \in newsIn(L) : n <= k}) = i
    <3>1. PICK k \in newsIn(log) : /\ log[k].globalID = row[i].globalID
                                   /\ Cardinality({n \in newsIn(log) : n <= k}) = i
      BY DEF tells
    <3> QED BY <1>1, <1>2, <3>1
  <2>2. Cardinality(newsIn(L)) = Len(row)
    BY <1>2 DEF tells
  <2> QED BY <2>1, <2>2
<1>4. ASSUME NEW k \in DOMAIN L, L[k].type = "edit"
      PROVE  \E n \in newsIn(L) : n < k /\ L[n].globalID = L[k].globalID
  <2>1. CASE k \in DOMAIN log
    BY <1>1, <1>2, <1>4, <2>1 DEF tells
  <2>2. CASE k = Len(log) + 1
    <3>1. PICK n \in newsIn(log) : log[n].globalID = e.globalID
      BY DEF tells
    <3> QED BY <1>1, <1>2, <2>2, <3>1
  <2> QED BY <1>1, <2>1, <2>2
<1>5. \A k \in DOMAIN L : L[k].type \in {"new", "edit"} =>
          \E i \in DOMAIN row : row[i].globalID = L[k].globalID
  BY <1>1 DEF tells
<1> QED BY <1>3, <1>4, <1>5 DEF tells, L

\* An announcement goes with a reference of its own.
LEMMA TellsNew ==
    ASSUME NEW log \in Seq(Entry), NEW e \in Entry, NEW row \in Seq(Ref), NEW r \in Ref,
           tells(log, row), e.type = "new", r.globalID = e.globalID
    PROVE  tells(Append(log, e), Append(row, r))
<1> DEFINE L == Append(log, e)
           R == Append(row, r)
           N == Len(log) + 1
<1>1. /\ DOMAIN L = DOMAIN log \cup {N} /\ L[N] = e /\ Len(log) \in Nat
      /\ \A k \in DOMAIN log : L[k] = log[k] /\ k \in Nat /\ k < N
  BY LogAppend
<1>2. /\ newsIn(L) = newsIn(log) \cup {N} /\ newsIn(log) \in SUBSET (1..Len(log))
      /\ \A k \in newsIn(log) : {n \in newsIn(L) : n <= k} = {n \in newsIn(log) : n <= k}
  BY NewsAppend
<1>3. newsIn(log) \subseteq DOMAIN log
  BY DEF newsIn
<1>4. /\ Len(row) \in Nat /\ DOMAIN row = 1..Len(row) /\ Len(R) = Len(row) + 1
      /\ DOMAIN R = DOMAIN row \cup {Len(row) + 1} /\ R[Len(row) + 1] = r
      /\ \A i \in DOMAIN row : R[i] = row[i]
  <2>1. Len(row) \in Nat /\ DOMAIN row = 1..Len(row) /\ Len(R) = Len(row) + 1
    OBVIOUS
  <2>2. DOMAIN R = 1..(Len(row) + 1)
    BY <2>1
  <2>3. 1..(Len(row) + 1) = 1..Len(row) \cup {Len(row) + 1}
    BY <2>1
  <2>4. R[Len(row) + 1] = r /\ \A i \in DOMAIN row : R[i] = row[i]
    BY <2>1
  <2> QED BY <2>1, <2>2, <2>3, <2>4
<1>5. Cardinality(newsIn(log)) = Len(row)
  BY DEF tells
<1>6. Cardinality(newsIn(L)) = Len(row) + 1
  BY <1>1, <1>2, <1>5, CountOneMore
<1>7. {n \in newsIn(L) : n <= N} = newsIn(L)
  BY <1>1, <1>2
<1> HIDE DEF L, R, N
<1>8. ASSUME NEW i \in DOMAIN R
      PROVE  \E k \in newsIn(L) : /\ L[k].globalID = R[i].globalID
                                  /\ Cardinality({n \in newsIn(L) : n <= k}) = i
  <2>1. CASE i \in DOMAIN row
    <3>1. PICK k \in newsIn(log) : /\ log[k].globalID = row[i].globalID
                                   /\ Cardinality({n \in newsIn(log) : n <= k}) = i
      BY <2>1 DEF tells
    <3> QED BY <1>1, <1>2, <1>3, <1>4, <2>1, <3>1
  <2>2. CASE i = Len(row) + 1
    BY <1>1, <1>2, <1>4, <1>6, <1>7, <2>2
  <2> QED BY <1>4, <2>1, <2>2
<1>9. ASSUME NEW k \in DOMAIN L, L[k].type = "edit"
      PROVE  \E n \in newsIn(L) : n < k /\ L[n].globalID = L[k].globalID
  <2>1. k \in DOMAIN log
    BY <1>1, <1>9
  <2>2. PICK n \in newsIn(log) : n < k /\ log[n].globalID = log[k].globalID
    BY <1>1, <1>9, <2>1 DEF tells
  <2> QED BY <1>1, <1>2, <1>3, <2>1, <2>2
<1>10. ASSUME NEW k \in DOMAIN L, L[k].type \in {"new", "edit"}
       PROVE  \E i \in DOMAIN R : R[i].globalID = L[k].globalID
  <2>1. CASE k = N
    BY <1>1, <1>4, <2>1
  <2>2. CASE k \in DOMAIN log
    <3>1. PICK i \in DOMAIN row : row[i].globalID = log[k].globalID
      BY <1>1, <1>10, <2>2 DEF tells
    <3> QED BY <1>1, <1>4, <2>2, <3>1
  <2> QED BY <1>1, <2>1, <2>2
<1>11. tells(L, R)
  BY <1>4, <1>6, <1>8, <1>9, <1>10 DEF tells
<1> QED BY <1>11 DEF L, R

\* Flags do not matter.
LEMMA TellsRow ==
    ASSUME NEW log, NEW row, NEW row2, tells(log, row), DOMAIN row2 = DOMAIN row,
           Len(row2) = Len(row), \A i \in DOMAIN row : row2[i].globalID = row[i].globalID
    PROVE  tells(log, row2)
  BY DEF tells

\* The edits after one more entry.
LEMMA EditsAppend ==
    ASSUME NEW log \in Seq(Entry), NEW e \in Entry, NEW g
    PROVE  /\ editsIn(log, g) \in SUBSET (1..Len(log))
           /\ e.type = "edit" /\ e.globalID = g =>
                 editsIn(Append(log, e), g) = editsIn(log, g) \cup {Len(log) + 1}
           /\ ~(e.type = "edit" /\ e.globalID = g) => editsIn(Append(log, e), g) = editsIn(log, g)
<1>1. /\ DOMAIN log = 1..Len(log) /\ DOMAIN Append(log, e) = DOMAIN log \cup {Len(log) + 1}
      /\ Append(log, e)[Len(log) + 1] = e /\ Len(log) + 1 \notin DOMAIN log
      /\ \A k \in DOMAIN log : Append(log, e)[k] = log[k]
  BY LogAppend
<1> QED BY <1>1 DEF editsIn

\* LogTellsMessages by its parts.
LEMMA LogTellsParts ==
    ASSUME Tables, LogTellsMessages
    PROVE  /\ \A u \in User : tells(updates[u], refs[u])
           /\ \A g \in DOMAIN messages :
                 Cardinality(editsIn(updates[messages[g].from], g))
                    = Cardinality(editsIn(updates[messages[g].peer], g))
<1>1. ASSUME NEW u \in User
      PROVE  tells(updates[u], refs[u])
  <2>1. \A k \in DOMAIN updates[u] :
            MessageByGlobal(u, updates[u][k].globalID) # {} =>
                \E i \in DOMAIN refs[u] : refs[u][i].globalID = updates[u][k].globalID
    BY DEF MessageByGlobal, refByGlobal
  <2>2. Len(refs[u]) = lastMessageID[u]
    BY DEF Tables
  <2> QED BY <2>1, <2>2 DEF LogTellsMessages, tells, newsIn
<1>2. \A g \in DOMAIN messages :
          Cardinality(editsIn(updates[messages[g].from], g))
            = Cardinality(editsIn(updates[messages[g].peer], g))
  BY DEF LogTellsMessages, editsOf, editsIn
<1> QED BY <1>1, <1>2

\* The parts in the next state make it whole.
LEMMA LogTellsNext ==
    ASSUME Tables', \A u \in User : tells(updates'[u], refs'[u]),
           \A g \in DOMAIN messages' :
                Cardinality(editsIn(updates'[messages'[g].from], g))
                   = Cardinality(editsIn(updates'[messages'[g].peer], g))
    PROVE  LogTellsMessages'
<1>1. ASSUME NEW u \in User
      PROVE  /\ \A i \in DOMAIN refs'[u] :
                    \E k \in newsIn(updates'[u]) :
                        /\ updates'[u][k].globalID = refs'[u][i].globalID
                        /\ Cardinality({n \in newsIn(updates'[u]) : n <= k}) = i
             /\ Cardinality(newsIn(updates'[u])) = lastMessageID'[u]
             /\ \A k \in DOMAIN updates'[u] : updates'[u][k].type = "edit" =>
                    \E n \in newsIn(updates'[u]) :
                        n < k /\ updates'[u][n].globalID = updates'[u][k].globalID
             /\ \A k \in DOMAIN updates'[u] : updates'[u][k].type \in {"new", "edit"} =>
                    MessageByGlobal(u, updates[u][k].globalID)' # {}
  <2>1. Len(refs'[u]) = lastMessageID'[u]
    BY DEF Tables
  <2>2. tells(updates'[u], refs'[u])
    OBVIOUS
  <2>3. ASSUME NEW k \in DOMAIN updates'[u], updates'[u][k].type \in {"new", "edit"}
        PROVE  MessageByGlobal(u, updates[u][k].globalID)' # {}
    <3>1. \E i \in DOMAIN refs'[u] : refs'[u][i].globalID = updates'[u][k].globalID
      BY <2>2, <2>3 DEF tells
    <3> QED BY <3>1 DEF MessageByGlobal, refByGlobal
  <2> QED BY <2>1, <2>2, <2>3 DEF tells
<1>2. \A g \in DOMAIN messages' :
          Cardinality(editsOf(messages[g].from, g))' = Cardinality(editsOf(messages[g].peer, g))'
  BY DEF editsOf, editsIn
<1> QED BY <1>1, <1>2 DEF LogTellsMessages, newsIn

\* A send is announced to each participant.
LEMMA SendTells ==
    ASSUME Tables, LogTellsMessages, NEW g \in Nat, NEW m \in Message, SendStep(g, m)
    PROVE  LogTellsMessages'
<1>1. /\ g \notin DOMAIN messages /\ DOMAIN messages' = DOMAIN messages \cup {g}
      /\ messages'[g] = m /\ (\A h \in DOMAIN messages : messages'[h] = messages[h])
      /\ m.from \in User /\ m.peer \in User
  BY SendFacts
<1>2. /\ \A u \in User : tells(updates[u], refs[u])
      /\ \A h \in DOMAIN messages :
            Cardinality(editsIn(updates[messages[h].from], h))
                = Cardinality(editsIn(updates[messages[h].peer], h))
  BY LogTellsParts
<1>3. Tables'
  BY SendTables
<1>4. ASSUME NEW u \in User
      PROVE  tells(updates'[u], refs'[u]) /\ \A h : editsIn(updates'[u], h) = editsIn(updates[u], h)
  <2>1. updates[u] \in Seq(Entry) /\ refs[u] \in Seq(Ref)
    BY DEF Tables
  <2>2. CASE u \in {m.from, m.peer}
    <3> DEFINE e == MessageEntry(pts[u] + 1, "new", g)
               r == copyOf(g, m, u)
    <3>1. r \in Ref /\ refs'[u] = Append(refs[u], r) /\ logged(u, e)
      BY <2>2, SendRow
    <3>2. e.type = "new" /\ e.globalID = g /\ r.globalID = g
      BY DEF MessageEntry, copyOf
    <3> HIDE DEF e, r
    <3>3. e \in Entry /\ updates'[u] = Append(updates[u], e)
      BY <3>1 DEF logged
    <3>4. tells(Append(updates[u], e), Append(refs[u], r))
      BY <1>2, <2>1, <3>1, <3>2, <3>3, TellsNew
    <3>5. \A h : editsIn(Append(updates[u], e), h) = editsIn(updates[u], h)
      BY <2>1, <3>2, <3>3, EditsAppend
    <3> QED BY <3>1, <3>3, <3>4, <3>5
  <2>3. CASE u \notin {m.from, m.peer}
    BY <1>2, <2>3, SendOthers DEF silent
  <2> QED BY <2>2, <2>3
<1>5. ASSUME NEW h \in DOMAIN messages'
      PROVE  Cardinality(editsIn(updates'[messages'[h].from], h))
                = Cardinality(editsIn(updates'[messages'[h].peer], h))
  <2>1. CASE h = g
    <3>1. ASSUME NEW u \in User
          PROVE  editsIn(updates[u], g) = {}
      <4>1. \A i \in DOMAIN refs[u] : refs[u][i].globalID # g
        BY SendKeepsRefs
      <4> QED BY <1>2, <4>1 DEF tells, editsIn
    <3> QED BY <1>1, <1>4, <2>1, <3>1
  <2>2. CASE h # g
    <3>1. h \in DOMAIN messages /\ messages'[h] = messages[h] /\ messages[h] \in Message
      BY <1>1, <2>2 DEF Tables
    <3>2. messages[h].from \in User /\ messages[h].peer \in User
      BY <3>1 DEF Message
    <3> QED BY <1>2, <1>4, <3>1, <3>2
  <2> QED BY <2>1, <2>2
<1> QED BY <1>3, <1>4, <1>5, LogTellsNext

\* An edit is announced to both participants, who hold the message.
LEMMA EditTells ==
    ASSUME Tables, CopiesMatch, LogTellsMessages, NEW g, NEW text \in Text, EditStep(g, text)
    PROVE  LogTellsMessages'
<1> DEFINE P == {messages[g].from, messages[g].peer}
<1>1. /\ g \in DOMAIN messages /\ messages[g].from \in User /\ messages[g].peer \in User
      /\ refs' = refs
      /\ \A u \in User : /\ u \in P => logged(u, MessageEntry(pts[u] + 1, "edit", g))
                         /\ u \notin P => silent(u)
  BY EditFacts
<1>2. /\ \A u \in User : tells(updates[u], refs[u])
      /\ \A h \in DOMAIN messages :
            Cardinality(editsIn(updates[messages[h].from], h))
                = Cardinality(editsIn(updates[messages[h].peer], h))
  BY LogTellsParts
<1>3. Tables' /\ SameCopies
  BY EditSame
<1> HIDE DEF P
<1>4. ASSUME NEW u \in User
      PROVE  /\ tells(updates'[u], refs'[u])
             /\ \A h : h # g => editsIn(updates'[u], h) = editsIn(updates[u], h)
             /\ u \in P => Cardinality(editsIn(updates'[u], g))
                              = Cardinality(editsIn(updates[u], g)) + 1
  <2>1. updates[u] \in Seq(Entry) /\ refs[u] \in Seq(Ref) /\ Len(updates[u]) \in Nat
    BY DEF Tables
  <2>2. CASE u \in P
    <3> DEFINE e == MessageEntry(pts[u] + 1, "edit", g)
    <3>1. logged(u, e)
      BY <1>1, <2>2
    <3>2. e.type = "edit" /\ e.globalID = g
      BY DEF MessageEntry
    <3> HIDE DEF e
    <3>3. e \in Entry /\ updates'[u] = Append(updates[u], e)
      BY <3>1 DEF logged
    <3>4. PICK j \in DOMAIN refs[u] : refs[u][j].globalID = g
      <4>1. \E j \in DOMAIN refs[u] : refByGlobal(u, g) = {j}
        BY <1>1, <2>2 DEF CopiesMatch, P
      <4> QED BY <4>1 DEF refByGlobal
    <3>5. tells(Append(updates[u], e), refs[u])
      BY <1>2, <2>1, <3>2, <3>3, <3>4, TellsEdit
    <3>6. /\ \A h : h # g => editsIn(Append(updates[u], e), h) = editsIn(updates[u], h)
          /\ editsIn(Append(updates[u], e), g) = editsIn(updates[u], g) \cup {Len(updates[u]) + 1}
          /\ editsIn(updates[u], g) \in SUBSET (1..Len(updates[u]))
      BY <2>1, <3>2, <3>3, EditsAppend
    <3>7. Cardinality(editsIn(Append(updates[u], e), g))
            = Cardinality(editsIn(updates[u], g)) + 1
      BY <2>1, <3>6, CountOneMore
    <3> QED BY <1>1, <3>3, <3>5, <3>6, <3>7
  <2>3. CASE u \notin P
    BY <1>1, <1>2, <2>3 DEF silent
  <2> QED BY <2>2, <2>3
<1>5. ASSUME NEW h \in DOMAIN messages'
      PROVE  Cardinality(editsIn(updates'[messages'[h].from], h))
                = Cardinality(editsIn(updates'[messages'[h].peer], h))
  <2>1. /\ h \in DOMAIN messages /\ messages'[h].from = messages[h].from
        /\ messages'[h].peer = messages[h].peer /\ messages[h] \in Message
    BY <1>3 DEF SameCopies, Tables
  <2>2. messages[h].from \in User /\ messages[h].peer \in User
    BY <2>1 DEF Message
  <2>3. CASE h = g
    BY <1>2, <1>4, <2>1, <2>2, <2>3 DEF P
  <2>4. CASE h # g
    BY <1>2, <1>4, <2>1, <2>2, <2>4
  <2> QED BY <2>3, <2>4
<1> QED BY <1>3, <1>4, <1>5, LogTellsNext

\* A step whose entries are about no message leaves what the log tells.
LEMMA OtherTells ==
    ASSUME Tables, Tables', SameCopies, LogTellsMessages,
           \A u \in User : silent(u) \/ \E e : logged(u, e) /\ e.type \notin {"new", "edit"}
    PROVE  LogTellsMessages'
<1>1. /\ \A u \in User : tells(updates[u], refs[u])
      /\ \A h \in DOMAIN messages :
            Cardinality(editsIn(updates[messages[h].from], h))
                = Cardinality(editsIn(updates[messages[h].peer], h))
  BY LogTellsParts
<1>2. ASSUME NEW u \in User
      PROVE  /\ tells(updates'[u], refs'[u])
             /\ \A h : editsIn(updates'[u], h) = editsIn(updates[u], h)
  <2>1. /\ updates[u] \in Seq(Entry) /\ DOMAIN refs'[u] = DOMAIN refs[u]
        /\ Len(refs'[u]) = Len(refs[u])
        /\ \A i \in DOMAIN refs[u] : refs'[u][i].globalID = refs[u][i].globalID
    BY DEF Tables, SameCopies
  <2>2. /\ tells(updates'[u], refs[u])
        /\ \A h : editsIn(updates'[u], h) = editsIn(updates[u], h)
    <3>1. CASE silent(u)
      BY <1>1, <3>1 DEF silent
    <3>2. ASSUME NEW e, logged(u, e), e.type \notin {"new", "edit"}
          PROVE  /\ tells(updates'[u], refs[u])
                 /\ \A h : editsIn(updates'[u], h) = editsIn(updates[u], h)
      <4>1. e \in Entry /\ updates'[u] = Append(updates[u], e)
        BY <3>2 DEF logged
      <4>2. tells(Append(updates[u], e), refs[u])
        BY <1>1, <2>1, <3>2, <4>1, TellsOther
      <4>3. \A h : editsIn(Append(updates[u], e), h) = editsIn(updates[u], h)
        BY <2>1, <3>2, <4>1, EditsAppend
      <4> QED BY <4>1, <4>2, <4>3
    <3> QED BY <3>1, <3>2
  <2> QED BY <2>1, <2>2, TellsRow
<1>3. ASSUME NEW h \in DOMAIN messages'
      PROVE  Cardinality(editsIn(updates'[messages'[h].from], h))
                = Cardinality(editsIn(updates'[messages'[h].peer], h))
  <2>1. /\ h \in DOMAIN messages /\ messages'[h].from = messages[h].from
        /\ messages'[h].peer = messages[h].peer /\ messages[h] \in Message
    BY DEF SameCopies, Tables
  <2>2. messages[h].from \in User /\ messages[h].peer \in User
    BY <2>1 DEF Message
  <2> QED BY <1>1, <1>2, <2>1, <2>2
<1> QED BY <1>2, <1>3, LogTellsNext

\* A deletion.
LEMMA DeleteTells ==
    ASSUME Tables, LogTellsMessages, NEW self \in User, NEW ids \in SUBSET DOMAIN refs[self],
           NEW n \in Nat \ {0}, DeleteStep(self, ids, n)
    PROVE  LogTellsMessages'
<1>1. Tables' /\ SameCopies
  BY DeleteSame
<1>2. logged(self, DeleteEntry(pts[self] + n, n, ids)) /\ \A u \in User \ {self} : silent(u)
  BY DeleteFacts
<1>3. DeleteEntry(pts[self] + n, n, ids).type \notin {"new", "edit"}
  BY DEF DeleteEntry
<1>4. \A u \in User : silent(u) \/ \E e : logged(u, e) /\ e.type \notin {"new", "edit"}
  BY <1>2, <1>3
<1> QED BY <1>1, <1>4, OtherTells

\* A read.
LEMMA ReadTells ==
    ASSUME Tables, LogTellsMessages, NEW self \in User, NEW peer \in User, NEW maxID \in Nat,
           NEW read, NEW ackID \in Nat, ReadStep(self, peer, maxID, read, ackID)
    PROVE  LogTellsMessages'
<1>1. Tables' /\ SameCopies
  BY ReadSame
<1>2. /\ logged(self, ReadEntry(pts[self] + 1, "readinbox", peer, maxID))
      /\ peer # self => silent(peer)
                        \/ logged(peer, ReadEntry(pts[peer] + 1, "readoutbox", self, ackID))
      /\ \A u \in User \ {self, peer} : silent(u)
  BY ReadFacts
<1>3. /\ ReadEntry(pts[self] + 1, "readinbox", peer, maxID).type \notin {"new", "edit"}
      /\ ReadEntry(pts[peer] + 1, "readoutbox", self, ackID).type \notin {"new", "edit"}
  BY DEF ReadEntry
<1>4. \A u \in User : silent(u) \/ \E e : logged(u, e) /\ e.type \notin {"new", "edit"}
  BY <1>2, <1>3
<1> QED BY <1>1, <1>4, OtherTells

-----------------------------------------------------------------------------
(* Unread flags and the log *)

\* In the log message g, from f under local id i, has been announced and not read since.
freshIn(log, g, f, i) ==
    \E n \in DOMAIN log :
        /\ log[n].type = "new" /\ log[n].globalID = g
        /\ \A k \in DOMAIN log : ~ /\ k > n
                                   /\ log[k].type = "readinbox"
                                   /\ log[k].peer = f
                                   /\ log[k].maxID >= i

\* An entry that neither announces the message nor reads it makes no difference.
LEMMA FreshOther ==
    ASSUME NEW log \in Seq(Entry), NEW e \in Entry, NEW g, NEW f, NEW i,
           ~(e.type = "new" /\ e.globalID = g),
           ~(e.type = "readinbox" /\ e.peer = f /\ e.maxID >= i)
    PROVE  freshIn(Append(log, e), g, f, i) <=> freshIn(log, g, f, i)
<1> DEFINE L == Append(log, e)
<1>1. /\ DOMAIN L = DOMAIN log \cup {Len(log) + 1} /\ L[Len(log) + 1] = e
      /\ \A k \in DOMAIN log : L[k] = log[k]
  BY LogAppend
<1> HIDE DEF L
<1>2. ASSUME freshIn(L, g, f, i)
      PROVE  freshIn(log, g, f, i)
  <2>1. PICK n \in DOMAIN L :
            /\ L[n].type = "new" /\ L[n].globalID = g
            /\ \A k \in DOMAIN L : ~ /\ k > n /\ L[k].type = "readinbox"
                                     /\ L[k].peer = f /\ L[k].maxID >= i
    BY <1>2 DEF freshIn
  <2>2. n \in DOMAIN log
    BY <1>1, <2>1
  <2> QED BY <1>1, <2>1, <2>2 DEF freshIn
<1>3. ASSUME freshIn(log, g, f, i)
      PROVE  freshIn(L, g, f, i)
  <2>1. PICK n \in DOMAIN log :
            /\ log[n].type = "new" /\ log[n].globalID = g
            /\ \A k \in DOMAIN log : ~ /\ k > n /\ log[k].type = "readinbox"
                                       /\ log[k].peer = f /\ log[k].maxID >= i
    BY <1>3 DEF freshIn
  <2>2. \A k \in DOMAIN L : ~ /\ k > n /\ L[k].type = "readinbox"
                              /\ L[k].peer = f /\ L[k].maxID >= i
    BY <1>1, <2>1
  <2> QED BY <1>1, <2>1, <2>2 DEF freshIn
<1> QED BY <1>2, <1>3 DEF L

\* The announcement makes it fresh, whatever was read before.
LEMMA FreshNew ==
    ASSUME NEW log \in Seq(Entry), NEW e \in Entry, NEW f, NEW i, e.type = "new"
    PROVE  freshIn(Append(log, e), e.globalID, f, i)
<1> DEFINE L == Append(log, e)
<1>1. /\ DOMAIN L = DOMAIN log \cup {Len(log) + 1} /\ L[Len(log) + 1] = e /\ Len(log) \in Nat
      /\ \A k \in DOMAIN log : k \in Nat /\ k < Len(log) + 1
  BY LogAppend
<1> HIDE DEF L
<1>2. \A k \in DOMAIN L : ~(k > Len(log) + 1)
  BY <1>1
<1>3. freshIn(L, e.globalID, f, i)
  BY <1>1, <1>2 DEF freshIn
<1> QED BY <1>3 DEF L

\* A read that covers it ends that.
LEMMA FreshRead ==
    ASSUME NEW log \in Seq(Entry), NEW e \in Entry, NEW g, NEW i,
           e.type = "readinbox", e.maxID >= i
    PROVE  ~freshIn(Append(log, e), g, e.peer, i)
<1> DEFINE L == Append(log, e)
<1>1. /\ DOMAIN L = DOMAIN log \cup {Len(log) + 1} /\ L[Len(log) + 1] = e /\ Len(log) \in Nat
      /\ \A k \in DOMAIN log : L[k] = log[k] /\ k \in Nat /\ k < Len(log) + 1
  BY LogAppend
<1> HIDE DEF L
<1>2. ASSUME NEW n \in DOMAIN L, L[n].type = "new"
      PROVE  Len(log) + 1 > n /\ Len(log) + 1 \in DOMAIN L
  BY <1>1, <1>2
<1>3. ~freshIn(L, g, e.peer, i)
  BY <1>1, <1>2 DEF freshIn
<1> QED BY <1>3 DEF L

\* What an account knows of a message it holds.
LEMMA OwnCopy ==
    ASSUME Tables, CopiesMatch, NEW u \in User, NEW i \in DOMAIN refs[u], NEW g,
           g = refs[u][i].globalID
    PROVE  /\ i \in Nat /\ i > 0 /\ refs[u][i] \in Ref
           /\ g \in DOMAIN messages /\ messages[g] \in Message
           /\ messages[g].from \in User /\ messages[g].peer \in User
           /\ u \in {messages[g].from, messages[g].peer}
           /\ refs[u][i].out = (u = messages[g].from)
           /\ refs[u][i].out => u = messages[g].from
           /\ \A j \in DOMAIN refs[u] : refs[u][j].globalID = g => j = i
<1>1. /\ g \in DOMAIN messages /\ messages[g] \in Message
      /\ i \in Nat /\ i > 0 /\ refs[u][i] \in Ref
  BY DEF Tables
<1>2. messages[g].from \in User /\ messages[g].peer \in User
  BY <1>1 DEF Message
<1>3. i \in refByGlobal(u, g)
  BY DEF refByGlobal
<1>4. u \in {messages[g].from, messages[g].peer}
  BY <1>1, <1>3 DEF CopiesMatch
<1>5. PICK j \in DOMAIN refs[u] :
          refByGlobal(u, g) = {j} /\ refs[u][j].out = (u = messages[g].from)
  BY <1>1, <1>4 DEF CopiesMatch
<1>6. j = i
  BY <1>3, <1>5
<1>7. \A k \in DOMAIN refs[u] : refs[u][k].globalID = g => k = i
  BY <1>5, <1>6 DEF refByGlobal
<1>8. refs[u][i].out = (u = messages[g].from)
  BY <1>5, <1>6
<1> QED BY <1>1, <1>2, <1>4, <1>7, <1>8

\* UnreadFollowsLog, one reference at a time.
LEMMA UnreadParts ==
    ASSUME UnreadFollowsLog, NEW u \in User, NEW i \in DOMAIN refs[u], NEW g,
           g = refs[u][i].globalID, ~refs[u][i].out
    PROVE  refs[u][i].unread <=> freshIn(updates[u], g, messages[g].from, i)
  BY DEF UnreadFollowsLog, freshIn

\* And in the next state.
LEMMA UnreadNext ==
    ASSUME \A u \in User : \A i \in DOMAIN refs'[u] : ~refs'[u][i].out =>
              (refs'[u][i].unread <=> freshIn(updates'[u], refs'[u][i].globalID,
                                              messages'[refs'[u][i].globalID].from, i))
    PROVE  UnreadFollowsLog'
  BY DEF UnreadFollowsLog, freshIn

\* A message just sent is unread, whatever was read before it.
LEMMA SendUnread ==
    ASSUME Tables, UnreadFollowsLog, NEW g \in Nat, NEW m \in Message, SendStep(g, m)
    PROVE  UnreadFollowsLog'
<1> SUFFICES ASSUME NEW u \in User, NEW i \in DOMAIN refs'[u], ~refs'[u][i].out
             PROVE  refs'[u][i].unread <=> freshIn(updates'[u], refs'[u][i].globalID,
                                              messages'[refs'[u][i].globalID].from, i)
  BY UnreadNext
<1>1. g \notin DOMAIN messages /\ \A h \in DOMAIN messages : messages'[h] = messages[h]
  BY SendFacts
<1>2. /\ \A j \in DOMAIN refs[u] : j \in DOMAIN refs'[u] /\ refs'[u][j] = refs[u][j]
      /\ \A j \in DOMAIN refs[u] : refs[u][j].globalID # g
      /\ \A j \in DOMAIN refs'[u] \ DOMAIN refs[u] :
            u \in {m.from, m.peer} /\ j = lastMessageID[u] + 1 /\ refs'[u][j].globalID = g
  BY SendKeepsRefs
<1>3. updates[u] \in Seq(Entry)
  BY DEF Tables
<1> DEFINE e == MessageEntry(pts[u] + 1, "new", g)
<1>4. e.type = "new" /\ e.globalID = g
  BY DEF MessageEntry
<1>5. u \in {m.from, m.peer} => e \in Entry /\ updates'[u] = Append(updates[u], e)
  BY SendRow DEF logged
<1>6. u \notin {m.from, m.peer} => updates'[u] = updates[u]
  BY SendOthers DEF silent
<1> HIDE DEF e
<1>7. CASE i \in DOMAIN refs[u]
  <2> DEFINE h == refs[u][i].globalID
  <2>1. /\ refs'[u][i] = refs[u][i] /\ h # g /\ h \in DOMAIN messages /\ messages'[h] = messages[h]
        /\ ~refs[u][i].out
    BY <1>1, <1>2, <1>7 DEF Tables
  <2>2. refs[u][i].unread <=> freshIn(updates[u], h, messages[h].from, i)
    BY <1>7, <2>1, UnreadParts
  <2>3. freshIn(updates'[u], h, messages[h].from, i) <=> freshIn(updates[u], h, messages[h].from, i)
    <3> HIDE DEF h
    <3>1. CASE u \in {m.from, m.peer}
      <4>1. ~(e.type = "new" /\ e.globalID = h)
        BY <1>4, <2>1
      <4>2. ~(e.type = "readinbox" /\ e.peer = messages[h].from /\ e.maxID >= i)
        BY <1>4
      <4>3. e \in Entry /\ updates'[u] = Append(updates[u], e)
        BY <1>5, <3>1
      <4> QED BY <1>3, <4>1, <4>2, <4>3, FreshOther
    <3>2. CASE u \notin {m.from, m.peer}
      BY <1>6, <3>2
    <3> QED BY <3>1, <3>2
  <2> QED BY <2>1, <2>2, <2>3
<1>8. CASE i \notin DOMAIN refs[u]
  <2>1. u \in {m.from, m.peer} /\ i = lastMessageID[u] + 1 /\ refs'[u][i].globalID = g
    BY <1>2, <1>8
  <2>2. refs'[u][i].out = (u = m.from) /\ refs'[u][i].unread = (u # m.from)
    BY <2>1, SendAdds
  <2>3. \A f : freshIn(updates'[u], g, f, i)
    BY <1>3, <1>4, <1>5, <2>1, FreshNew
  <2> QED BY <2>1, <2>2, <2>3
<1> QED BY <1>7, <1>8

\* A step that reads nothing leaves what is unread.
LEMMA OtherUnread ==
    ASSUME Tables, SameCopies, UnreadFollowsLog, refs' = refs,
           \A u \in User : silent(u) \/ \E e : logged(u, e) /\ e.type \notin {"new", "readinbox"}
    PROVE  UnreadFollowsLog'
<1> SUFFICES ASSUME NEW u \in User, NEW i \in DOMAIN refs'[u], ~refs'[u][i].out
             PROVE  refs'[u][i].unread <=> freshIn(updates'[u], refs'[u][i].globalID,
                                              messages'[refs'[u][i].globalID].from, i)
  BY UnreadNext
<1> DEFINE g == refs[u][i].globalID
<1>1. i \in DOMAIN refs[u] /\ ~refs[u][i].out /\ g \in DOMAIN messages
      /\ updates[u] \in Seq(Entry)
  BY DEF Tables
<1>2. refs[u][i].unread <=> freshIn(updates[u], g, messages[g].from, i)
  BY <1>1, UnreadParts
<1>3. messages'[g].from = messages[g].from
  BY <1>1 DEF SameCopies
<1> HIDE DEF g
<1>4. freshIn(updates'[u], g, messages[g].from, i) <=> freshIn(updates[u], g, messages[g].from, i)
  <2>1. CASE silent(u)
    BY <2>1 DEF silent
  <2>2. ASSUME NEW e, logged(u, e), e.type \notin {"new", "readinbox"}
        PROVE  freshIn(updates'[u], g, messages[g].from, i)
                 <=> freshIn(updates[u], g, messages[g].from, i)
    <3>1. e \in Entry /\ updates'[u] = Append(updates[u], e)
      BY <2>2 DEF logged
    <3> QED BY <1>1, <2>2, <3>1, FreshOther
  <2> QED BY <2>1, <2>2
<1> QED BY <1>2, <1>3, <1>4 DEF g

\* An edit reads nothing.
LEMMA EditUnread ==
    ASSUME Tables, UnreadFollowsLog, NEW g, NEW text \in Text, EditStep(g, text)
    PROVE  UnreadFollowsLog'
<1>1. SameCopies
  BY EditSame
<1>2. /\ refs' = refs
      /\ \A u \in User : logged(u, MessageEntry(pts[u] + 1, "edit", g)) \/ silent(u)
  BY EditFacts
<1>3. \A p : MessageEntry(p, "edit", g).type \notin {"new", "readinbox"}
  BY DEF MessageEntry
<1>4. \A u \in User : silent(u) \/ \E e : logged(u, e) /\ e.type \notin {"new", "readinbox"}
  BY <1>2, <1>3
<1> QED BY <1>1, <1>2, <1>4, OtherUnread

\* Nor does a deletion.
LEMMA DeleteUnread ==
    ASSUME Tables, UnreadFollowsLog, NEW self \in User, NEW ids \in SUBSET DOMAIN refs[self],
           NEW n \in Nat \ {0}, DeleteStep(self, ids, n)
    PROVE  UnreadFollowsLog'
<1>1. SameCopies
  BY DeleteSame
<1>2. /\ refs' = refs /\ logged(self, DeleteEntry(pts[self] + n, n, ids))
      /\ \A u \in User \ {self} : silent(u)
  BY DeleteFacts
<1>3. DeleteEntry(pts[self] + n, n, ids).type \notin {"new", "readinbox"}
  BY DEF DeleteEntry
<1>4. \A u \in User : silent(u) \/ \E e : logged(u, e) /\ e.type \notin {"new", "readinbox"}
  BY <1>2, <1>3
<1> QED BY <1>1, <1>2, <1>4, OtherUnread

\* A read marks exactly what its log entry covers.
LEMMA ReadUnread ==
    ASSUME Tables, CopiesMatch, UnreadFollowsLog, NEW self \in User, NEW peer \in User,
           NEW maxID \in Nat, NEW ackID \in Nat,
           ReadStep(self, peer, maxID, readIDs(self, peer, maxID), ackID)
    PROVE  UnreadFollowsLog'
<1> SUFFICES ASSUME NEW u \in User, NEW i \in DOMAIN refs'[u], ~refs'[u][i].out
             PROVE  refs'[u][i].unread <=> freshIn(updates'[u], refs'[u][i].globalID,
                                              messages'[refs'[u][i].globalID].from, i)
  BY UnreadNext
<1> DEFINE read == readIDs(self, peer, maxID)
           g == refs[u][i].globalID
<1>1. /\ messages' = messages /\ \A v \in User \ {self} : refs'[v] = refs[v]
      /\ DOMAIN refs'[self] = DOMAIN refs[self]
      /\ \A j \in DOMAIN refs[self] :
            /\ refs'[self][j].globalID = refs[self][j].globalID
            /\ refs'[self][j].out = refs[self][j].out
            /\ refs'[self][j].unread = (refs[self][j].unread /\ j \notin read)
  BY ReadFacts
<1>2. /\ logged(self, ReadEntry(pts[self] + 1, "readinbox", peer, maxID))
      /\ peer # self => silent(peer)
                        \/ logged(peer, ReadEntry(pts[peer] + 1, "readoutbox", self, ackID))
      /\ \A v \in User \ {self, peer} : silent(v)
  BY ReadFacts
<1>3. i \in DOMAIN refs[u] /\ ~refs[u][i].out /\ refs'[u][i].globalID = g
  <2>1. CASE u = self
    BY <1>1, <2>1
  <2>2. CASE u # self
    BY <1>1, <2>2
  <2> QED BY <2>1, <2>2
<1>4. /\ i \in Nat /\ messages[g] \in Message /\ u # messages[g].from /\ updates[u] \in Seq(Entry)
  <2>1. i \in Nat /\ messages[g] \in Message /\ refs[u][i].out = (u = messages[g].from)
    BY <1>3, OwnCopy
  <2> QED BY <1>3, <2>1 DEF Tables
<1>5. refs[u][i].unread <=> freshIn(updates[u], g, messages[g].from, i)
  BY <1>3, UnreadParts
<1>6. CASE u = self
  <2> DEFINE e == ReadEntry(pts[self] + 1, "readinbox", peer, maxID)
  <2>1. e \in Entry /\ updates'[u] = Append(updates[u], e)
    BY <1>2, <1>6 DEF logged
  <2>2. e.type = "readinbox" /\ e.peer = peer /\ e.maxID = maxID
    BY DEF ReadEntry
  <2>3. i \in read <=> i <= maxID /\ messages[g].from = peer
    BY <1>3, <1>4, <1>6 DEF readIDs, other
  <2>4. refs'[u][i].unread = (refs[u][i].unread /\ i \notin read)
    BY <1>1, <1>3, <1>6
  <2> HIDE DEF e, read, g
  <2>5. CASE i \in read
    <3>1. ~freshIn(updates'[u], g, messages[g].from, i)
      BY <1>4, <2>1, <2>2, <2>3, <2>5, FreshRead
    <3> QED BY <1>1, <1>3, <2>4, <2>5, <3>1
  <2>6. CASE i \notin read
    <3>1. ~(e.type = "readinbox" /\ e.peer = messages[g].from /\ e.maxID >= i)
      BY <1>4, <2>2, <2>3, <2>6
    <3>2. freshIn(updates'[u], g, messages[g].from, i)
            <=> freshIn(updates[u], g, messages[g].from, i)
      BY <1>4, <2>1, <2>2, <3>1, FreshOther
    <3>3. refs'[u][i].unread <=> refs[u][i].unread
      BY <2>4, <2>6
    <3> QED BY <1>1, <1>3, <1>5, <3>2, <3>3
  <2> QED BY <2>5, <2>6
<1>7. CASE u # self
  <2>1. refs'[u] = refs[u]
    BY <1>1, <1>7
  <2>2. freshIn(updates'[u], g, messages[g].from, i)
          <=> freshIn(updates[u], g, messages[g].from, i)
    <3> HIDE DEF g
    <3>1. CASE silent(u)
      BY <3>1 DEF silent
    <3>2. CASE logged(u, ReadEntry(pts[u] + 1, "readoutbox", self, ackID))
      <4> DEFINE e == ReadEntry(pts[u] + 1, "readoutbox", self, ackID)
      <4>1. e \in Entry /\ updates'[u] = Append(updates[u], e)
        BY <3>2 DEF logged
      <4>2. e.type = "readoutbox"
        BY DEF ReadEntry
      <4> HIDE DEF e
      <4>3. ~(e.type = "new" /\ e.globalID = g)
            /\ ~(e.type = "readinbox" /\ e.peer = messages[g].from /\ e.maxID >= i)
        BY <4>2
      <4> QED BY <1>4, <4>1, <4>3, FreshOther
    <3> QED BY <1>2, <1>7, <3>1, <3>2
  <2> QED BY <1>1, <1>5, <2>1, <2>2
<1> QED BY <1>6, <1>7

-----------------------------------------------------------------------------
(* Receipts *)

\* A receipt in the log, from p, covers local id i.
coveredIn(log, p, i) ==
    \E k \in DOMAIN log : log[k].type = "readoutbox" /\ log[k].peer = p /\ log[k].maxID >= i

\* No receipt reaches beyond the ids given out: the next message starts unread.
ReceiptsBounded ==
    \A u \in User : \A k \in DOMAIN updates[u] :
        updates[u][k].type = "readoutbox" => updates[u][k].maxID <= lastMessageID[u]

\* One more entry covers what it says.
LEMMA CoveredAppend ==
    ASSUME NEW log \in Seq(Entry), NEW e \in Entry, NEW p, NEW i
    PROVE  coveredIn(Append(log, e), p, i)
             <=> coveredIn(log, p, i) \/ (e.type = "readoutbox" /\ e.peer = p /\ e.maxID >= i)
<1> DEFINE L == Append(log, e)
<1>1. /\ DOMAIN L = DOMAIN log \cup {Len(log) + 1} /\ L[Len(log) + 1] = e
      /\ \A k \in DOMAIN log : L[k] = log[k]
  BY LogAppend
<1> HIDE DEF L
<1>2. coveredIn(L, p, i)
        <=> coveredIn(log, p, i) \/ (e.type = "readoutbox" /\ e.peer = p /\ e.maxID >= i)
  BY <1>1 DEF coveredIn
<1> QED BY <1>2 DEF L

\* A log without a new receipt is still bounded.
LEMMA BoundedNext ==
    ASSUME Tables, Tables', ReceiptsBounded, \A u \in User : lastMessageID[u] <= lastMessageID'[u],
           \A u \in User : silent(u) \/ \E e : logged(u, e)
                /\ (e.type = "readoutbox" => e.maxID <= lastMessageID[u])
    PROVE  ReceiptsBounded'
<1> SUFFICES ASSUME NEW u \in User, NEW k \in DOMAIN updates'[u],
                    updates'[u][k].type = "readoutbox"
             PROVE  updates'[u][k].maxID <= lastMessageID'[u]
  BY DEF ReceiptsBounded
<1>1. /\ updates[u] \in Seq(Entry) /\ lastMessageID[u] \in Nat /\ lastMessageID'[u] \in Nat
      /\ updates'[u][k] \in Entry
  BY DEF Tables
<1>2. updates'[u][k].maxID <= lastMessageID[u]
  <2>1. CASE silent(u)
    BY <2>1 DEF silent, ReceiptsBounded
  <2>2. ASSUME NEW e, logged(u, e), e.type = "readoutbox" => e.maxID <= lastMessageID[u]
        PROVE  updates'[u][k].maxID <= lastMessageID[u]
    <3>1. e \in Entry /\ updates'[u] = Append(updates[u], e)
      BY <2>2 DEF logged
    <3>2. /\ DOMAIN updates'[u] = DOMAIN updates[u] \cup {Len(updates[u]) + 1}
          /\ updates'[u][Len(updates[u]) + 1] = e
          /\ \A n \in DOMAIN updates[u] : updates'[u][n] = updates[u][n]
      BY <1>1, <3>1, LogAppend
    <3>3. CASE k \in DOMAIN updates[u]
      BY <3>2, <3>3 DEF ReceiptsBounded
    <3>4. CASE k = Len(updates[u]) + 1
      BY <2>2, <3>2, <3>4
    <3> QED BY <3>2, <3>3, <3>4
  <2> QED BY <2>1, <2>2
<1>3. updates'[u][k].maxID \in Nat /\ lastMessageID[u] <= lastMessageID'[u]
  BY <1>1 DEF Entry
<1> QED BY <1>1, <1>2, <1>3

\* The steps keep receipts bounded.
LEMMA SendBounded ==
    ASSUME Tables, ReceiptsBounded, NEW g \in Nat, NEW m \in Message, SendStep(g, m)
    PROVE  ReceiptsBounded'
<1>1. Tables'
  BY SendTables
<1>2. ASSUME NEW u \in User
      PROVE  /\ lastMessageID[u] <= lastMessageID'[u]
             /\ silent(u) \/ \E e : logged(u, e)
                    /\ (e.type = "readoutbox" => e.maxID <= lastMessageID[u])
  <2>1. lastMessageID[u] \in Nat
    BY DEF Tables
  <2>2. CASE u \in {m.from, m.peer}
    <3>1. /\ lastMessageID'[u] = lastMessageID[u] + 1
          /\ logged(u, MessageEntry(pts[u] + 1, "new", g))
      BY <2>2, SendRow
    <3>2. MessageEntry(pts[u] + 1, "new", g).type # "readoutbox"
      BY DEF MessageEntry
    <3>3. lastMessageID[u] <= lastMessageID'[u]
      BY <2>1, <3>1
    <3> QED BY <3>1, <3>2, <3>3
  <2>3. CASE u \notin {m.from, m.peer}
    BY <2>1, <2>3, SendOthers
  <2> QED BY <2>2, <2>3
<1> QED BY <1>1, <1>2, BoundedNext

\* An edit.
LEMMA EditBounded ==
    ASSUME Tables, ReceiptsBounded, NEW g, NEW text \in Text, EditStep(g, text)
    PROVE  ReceiptsBounded'
<1>0. Tables' /\ lastMessageID' = lastMessageID
  BY EditSame, EditFacts
<1>1. Tables' /\ \A u \in User : lastMessageID[u] <= lastMessageID'[u]
  BY <1>0 DEF Tables
<1>2. \A u \in User : logged(u, MessageEntry(pts[u] + 1, "edit", g)) \/ silent(u)
  BY EditFacts
<1>3. \A p : MessageEntry(p, "edit", g).type # "readoutbox"
  BY DEF MessageEntry
<1> QED BY <1>1, <1>2, <1>3, BoundedNext

\* A deletion.
LEMMA DeleteBounded ==
    ASSUME Tables, ReceiptsBounded, NEW self \in User, NEW ids \in SUBSET DOMAIN refs[self],
           NEW n \in Nat \ {0}, DeleteStep(self, ids, n)
    PROVE  ReceiptsBounded'
<1>1. Tables' /\ lastMessageID' = lastMessageID
  BY DeleteSame, DeleteFacts
<1>2. logged(self, DeleteEntry(pts[self] + n, n, ids)) /\ \A u \in User \ {self} : silent(u)
  BY DeleteFacts
<1>3. DeleteEntry(pts[self] + n, n, ids).type # "readoutbox"
  BY DEF DeleteEntry
<1>4. \A u \in User : lastMessageID[u] <= lastMessageID'[u]
  BY <1>1 DEF Tables
<1>5. \A u \in User : silent(u) \/ \E e : logged(u, e)
          /\ (e.type = "readoutbox" => e.maxID <= lastMessageID[u])
  BY <1>2, <1>3
<1> QED BY <1>1, <1>4, <1>5, BoundedNext

\* A read whose receipt is an id of the peer.
LEMMA ReadBounded ==
    ASSUME Tables, ReceiptsBounded, NEW self \in User, NEW peer \in User, NEW maxID \in Nat,
           NEW read, NEW ackID \in Nat, ackID <= lastMessageID[peer],
           ReadStep(self, peer, maxID, read, ackID)
    PROVE  ReceiptsBounded'
<1>1. Tables' /\ lastMessageID' = lastMessageID
  BY ReadSame, ReadFacts
<1>2. /\ logged(self, ReadEntry(pts[self] + 1, "readinbox", peer, maxID))
      /\ peer # self => silent(peer)
                        \/ logged(peer, ReadEntry(pts[peer] + 1, "readoutbox", self, ackID))
      /\ \A u \in User \ {self, peer} : silent(u)
  BY ReadFacts
<1>3. /\ ReadEntry(pts[self] + 1, "readinbox", peer, maxID).type # "readoutbox"
      /\ ReadEntry(pts[peer] + 1, "readoutbox", self, ackID).maxID = ackID
  BY DEF ReadEntry
<1>4. \A u \in User : lastMessageID[u] <= lastMessageID'[u]
  BY <1>1 DEF Tables
<1>5. \A u \in User : silent(u) \/ \E e : logged(u, e)
          /\ (e.type = "readoutbox" => e.maxID <= lastMessageID[u])
  BY <1>2, <1>3
<1> QED BY <1>1, <1>4, <1>5, BoundedNext

\* ReceiptsExact, one reference at a time.
readByPeer(p, g) == \A j \in refByGlobal(p, g) : ~refs[p][j].unread

\* Its parts.
LEMMA ReceiptsParts ==
    ASSUME ReceiptsExact, NEW u \in User, NEW p \in User, u # p, NEW i \in DOMAIN refs[u], NEW g,
           g = refs[u][i].globalID, refs[u][i].out, messages[g].peer = p
    PROVE  readByPeer(p, g) <=> coveredIn(updates[u], p, i)
  BY DEF ReceiptsExact, coveredIn, readByPeer

\* And in the next state.
LEMMA ReceiptsNext ==
    ASSUME \A u, p \in User : u # p => \A i \in DOMAIN refs'[u] :
              refs'[u][i].out /\ messages'[refs'[u][i].globalID].peer = p =>
                 ((\A j \in refByGlobal(p, refs[u][i].globalID)' : ~refs'[p][j].unread)
                    <=> coveredIn(updates'[u], p, i))
    PROVE  ReceiptsExact'
  BY DEF ReceiptsExact, coveredIn

\* A message just sent is unread, and no receipt covers it yet.
LEMMA SendReceipts ==
    ASSUME Tables, ReceiptsBounded, ReceiptsExact, NEW g \in Nat, NEW m \in Message, SendStep(g, m)
    PROVE  ReceiptsExact'
<1> SUFFICES ASSUME NEW u \in User, NEW p \in User, u # p, NEW i \in DOMAIN refs'[u],
                    refs'[u][i].out, messages'[refs'[u][i].globalID].peer = p
             PROVE  (\A j \in refByGlobal(p, refs[u][i].globalID)' : ~refs'[p][j].unread)
                      <=> coveredIn(updates'[u], p, i)
  BY ReceiptsNext
<1>1. /\ g \notin DOMAIN messages /\ messages'[g] = m
      /\ \A h \in DOMAIN messages : messages'[h] = messages[h]
  BY SendFacts
<1>2. /\ \A j \in DOMAIN refs[u] : j \in DOMAIN refs'[u] /\ refs'[u][j] = refs[u][j]
      /\ \A j \in DOMAIN refs'[u] \ DOMAIN refs[u] :
            u \in {m.from, m.peer} /\ j = lastMessageID[u] + 1 /\ refs'[u][j].globalID = g
  BY SendKeepsRefs
<1>3. updates[u] \in Seq(Entry) /\ lastMessageID[u] \in Nat
  BY DEF Tables
<1>4. coveredIn(updates'[u], p, i) <=> coveredIn(updates[u], p, i)
  <2>1. CASE u \in {m.from, m.peer}
    <3> DEFINE e == MessageEntry(pts[u] + 1, "new", g)
    <3>1. logged(u, e)
      BY <2>1, SendRow
    <3>2. e.type = "new"
      BY DEF MessageEntry
    <3> HIDE DEF e
    <3>3. e \in Entry /\ updates'[u] = Append(updates[u], e)
      BY <3>1 DEF logged
    <3>4. coveredIn(Append(updates[u], e), p, i) <=> coveredIn(updates[u], p, i)
      BY <1>3, <3>2, <3>3, CoveredAppend
    <3> QED BY <3>3, <3>4
  <2>2. CASE u \notin {m.from, m.peer}
    BY <2>2, SendOthers DEF silent
  <2> QED BY <2>1, <2>2
<1>5. CASE i \in DOMAIN refs[u]
  <2> DEFINE h == refs[u][i].globalID
  <2>1. refs'[u][i] = refs[u][i] /\ h \in DOMAIN messages /\ messages'[h] = messages[h]
    BY <1>1, <1>2, <1>5 DEF Tables
  <2>2. /\ refByGlobal(p, h)' = refByGlobal(p, h)
        /\ \A j \in DOMAIN refs[p] : refs'[p][j] = refs[p][j]
    BY <2>1, SendKeepsRefs
  <2>3. refByGlobal(p, refs[u][i].globalID)' = refByGlobal(p, h)
    <3>1. refByGlobal(p, refs[u][i].globalID)' = {j \in DOMAIN refs'[p] : refs'[p][j].globalID = h}
      BY <2>1 DEF refByGlobal
    <3>2. {j \in DOMAIN refs'[p] : refs'[p][j].globalID = h} = refByGlobal(p, h)'
      BY <2>1 DEF refByGlobal
    <3> QED BY <2>2, <3>1, <3>2
  <2>4. readByPeer(p, h) <=> coveredIn(updates[u], p, i)
    BY <1>5, <2>1, ReceiptsParts
  <2>5. (\A j \in refByGlobal(p, h) : ~refs'[p][j].unread) <=> readByPeer(p, h)
    BY <2>2 DEF readByPeer, refByGlobal
  <2> QED BY <1>4, <2>3, <2>4, <2>5
<1>6. CASE i \notin DOMAIN refs[u]
  <2>1. u \in {m.from, m.peer} /\ i = lastMessageID[u] + 1 /\ refs'[u][i].globalID = g
    BY <1>2, <1>6
  <2>2. refs'[u][i].out = (u = m.from)
    BY <2>1, SendAdds
  <2>3. u = m.from /\ p = m.peer /\ p # m.from
    BY <1>1, <2>1, <2>2
  <2>4. /\ lastMessageID[p] + 1 \in DOMAIN refs'[p]
        /\ refs'[p][lastMessageID[p] + 1].globalID = g
        /\ refs'[p][lastMessageID[p] + 1].unread = (p # m.from)
    BY <2>3, SendAdds
  <2>5. lastMessageID[p] + 1 \in refByGlobal(p, refs[u][i].globalID)'
    BY <2>1, <2>4 DEF refByGlobal
  <2>6. ~coveredIn(updates[u], p, i)
    <3>1. ASSUME NEW k \in DOMAIN updates[u], updates[u][k].type = "readoutbox"
          PROVE  ~(updates[u][k].maxID >= i)
      <4>1. updates[u][k].maxID <= lastMessageID[u]
        BY <3>1 DEF ReceiptsBounded
      <4>2. updates[u][k] \in Entry
        BY <1>3, <3>1
      <4>3. updates[u][k].maxID \in Nat
        BY <4>2 DEF Entry
      <4> QED BY <1>3, <2>1, <4>1, <4>3
    <3> QED BY <3>1 DEF coveredIn
  <2> QED BY <1>4, <2>3, <2>4, <2>5, <2>6
<1> QED BY <1>5, <1>6

\* A step that reads nothing and logs no receipt keeps them exact.
LEMMA OtherReceipts ==
    ASSUME Tables, SameCopies, ReceiptsExact, refs' = refs,
           \A u \in User : silent(u) \/ \E e : logged(u, e) /\ e.type # "readoutbox"
    PROVE  ReceiptsExact'
<1> SUFFICES ASSUME NEW u \in User, NEW p \in User, u # p, NEW i \in DOMAIN refs'[u],
                    refs'[u][i].out, messages'[refs'[u][i].globalID].peer = p
             PROVE  (\A j \in refByGlobal(p, refs[u][i].globalID)' : ~refs'[p][j].unread)
                      <=> coveredIn(updates'[u], p, i)
  BY ReceiptsNext
<1> DEFINE h == refs[u][i].globalID
<1>1. /\ i \in DOMAIN refs[u] /\ refs[u][i].out /\ h \in DOMAIN messages /\ messages[h].peer = p
      /\ updates[u] \in Seq(Entry)
  BY DEF Tables, SameCopies
<1>2. readByPeer(p, h) <=> coveredIn(updates[u], p, i)
  BY <1>1, ReceiptsParts
<1>3. (\A j \in refByGlobal(p, refs[u][i].globalID)' : ~refs'[p][j].unread) <=> readByPeer(p, h)
  BY DEF readByPeer, refByGlobal
<1>4. coveredIn(updates'[u], p, i) <=> coveredIn(updates[u], p, i)
  <2>1. CASE silent(u)
    BY <2>1 DEF silent
  <2>2. ASSUME NEW e, logged(u, e), e.type # "readoutbox"
        PROVE  coveredIn(updates'[u], p, i) <=> coveredIn(updates[u], p, i)
    <3>1. e \in Entry /\ updates'[u] = Append(updates[u], e)
      BY <2>2 DEF logged
    <3>2. coveredIn(Append(updates[u], e), p, i) <=> coveredIn(updates[u], p, i)
      BY <1>1, <2>2, <3>1, CoveredAppend
    <3> QED BY <3>1, <3>2
  <2> QED BY <2>1, <2>2
<1> QED BY <1>2, <1>3, <1>4

\* An edit.
LEMMA EditReceipts ==
    ASSUME Tables, ReceiptsExact, NEW g, NEW text \in Text, EditStep(g, text)
    PROVE  ReceiptsExact'
<1>1. SameCopies
  BY EditSame
<1>2. /\ refs' = refs
      /\ \A u \in User : logged(u, MessageEntry(pts[u] + 1, "edit", g)) \/ silent(u)
  BY EditFacts
<1>3. \A p : MessageEntry(p, "edit", g).type # "readoutbox"
  BY DEF MessageEntry
<1> QED BY <1>1, <1>2, <1>3, OtherReceipts

\* A deletion.
LEMMA DeleteReceipts ==
    ASSUME Tables, ReceiptsExact, NEW self \in User, NEW ids \in SUBSET DOMAIN refs[self],
           NEW n \in Nat \ {0}, DeleteStep(self, ids, n)
    PROVE  ReceiptsExact'
<1>1. SameCopies
  BY DeleteSame
<1>2. /\ refs' = refs /\ logged(self, DeleteEntry(pts[self] + n, n, ids))
      /\ \A u \in User \ {self} : silent(u)
  BY DeleteFacts
<1>3. DeleteEntry(pts[self] + n, n, ids).type # "readoutbox"
  BY DEF DeleteEntry
<1>4. \A u \in User : silent(u) \/ \E e : logged(u, e) /\ e.type # "readoutbox"
  BY <1>2, <1>3
<1> QED BY <1>1, <1>2, <1>4, OtherReceipts

\* The receipt reaches a message of peer to self exactly when the read does.
LEMMA ReceiptReaches ==
    ASSUME Tables, CopiesMatch, SharedOrder, NEW self \in User, NEW peer \in User, self # peer,
           NEW maxID \in Nat, NEW i \in DOMAIN refs[peer], NEW j \in DOMAIN refs[self],
           refs[peer][i].out, refs[self][j].globalID = refs[peer][i].globalID
    PROVE  /\ j \in readIDs(self, peer, maxID) <=> j <= maxID
           /\ i <= maxOf(ackedIDs(self, peer, maxID)) <=> j <= maxID
           /\ maxOf(ackedIDs(self, peer, maxID)) \in Nat
<1> DEFINE g == refs[peer][i].globalID
           acked == ackedIDs(self, peer, maxID)
           o == maxOf(acked)
<1>1. i \in Nat /\ i > 0 /\ messages[g].from = peer /\ messages[g] \in Message
  <2>1. g = refs[peer][i].globalID
    OBVIOUS
  <2> HIDE DEF g
  <2>2. i \in Nat /\ i > 0 /\ messages[g] \in Message
    BY <2>1, OwnCopy
  <2>3. peer = messages[g].from
    BY <2>1, OwnCopy
  <2> QED BY <2>2, <2>3
<1>2. /\ j \in Nat /\ refs[self][j].out = (self = messages[g].from)
      /\ \A k \in DOMAIN refs[self] : refs[self][k].globalID = g => k = j
  BY OwnCopy
<1>3. ~refs[self][j].out /\ other(self, messages[g]) = peer
  BY <1>1, <1>2 DEF other
<1>4. j \in readIDs(self, peer, maxID) <=> j <= maxID
  BY <1>3 DEF readIDs
<1>5. PICK n \in Nat : acked \in SUBSET (1..n)
  <2>1. refs[peer] \in Seq(Ref)
    BY DEF Tables
  <2>2. acked \subseteq 1..Len(refs[peer]) /\ Len(refs[peer]) \in Nat
    BY <2>1 DEF ackedIDs
  <2> QED BY <2>2
<1>6. o \in Nat /\ (acked = {} => o = 0) /\ (acked # {} => o \in acked)
      /\ \A k \in acked : k <= o
  <2> HIDE DEF acked
  <2> QED BY <1>5, MaxOfProperties
<1> HIDE DEF o
<1>7. ASSUME j <= maxID
      PROVE  i <= o
  <2>1. i \in acked
    BY <1>4, <1>7 DEF ackedIDs
  <2> QED BY <1>6, <2>1
<1>8. ASSUME i <= o
      PROVE  j <= maxID
  <2>1. o \in acked
    BY <1>1, <1>6, <1>8
  <2>2. PICK k \in readIDs(self, peer, maxID) : refs[self][k].globalID = refs[peer][o].globalID
    BY <2>1 DEF ackedIDs
  <2>3. k \in DOMAIN refs[self] /\ k <= maxID /\ o \in DOMAIN refs[peer] /\ k \in Nat
    BY <2>1, <2>2 DEF readIDs, ackedIDs, Tables
  <2>4. CASE i = o
    BY <1>2, <2>2, <2>3, <2>4
  <2>5. CASE i < o
    <3>1. j < k
      BY <2>2, <2>3, <2>5 DEF SharedOrder
    <3> QED BY <1>2, <2>3, <3>1
  <2> QED BY <1>1, <1>6, <1>8, <2>4, <2>5
<1> QED BY <1>4, <1>6, <1>7, <1>8 DEF o

\* A read marks what its receipt covers.
LEMMA ReadReceipts ==
    ASSUME Tables, CopiesMatch, SharedOrder, ReceiptsExact, NEW self \in User, NEW peer \in User,
           NEW maxID \in Nat, NEW ackID \in Nat, ackID = maxOf(ackedIDs(self, peer, maxID)),
           ReadStep(self, peer, maxID, readIDs(self, peer, maxID), ackID)
    PROVE  ReceiptsExact'
<1> SUFFICES ASSUME NEW u \in User, NEW p \in User, u # p, NEW i \in DOMAIN refs'[u],
                    refs'[u][i].out, messages'[refs'[u][i].globalID].peer = p
             PROVE  (\A j \in refByGlobal(p, refs[u][i].globalID)' : ~refs'[p][j].unread)
                      <=> coveredIn(updates'[u], p, i)
  BY ReceiptsNext
<1> DEFINE read == readIDs(self, peer, maxID)
           g == refs[u][i].globalID
<1>1. /\ messages' = messages /\ \A v \in User \ {self} : refs'[v] = refs[v]
      /\ DOMAIN refs'[self] = DOMAIN refs[self]
      /\ \A j \in DOMAIN refs[self] :
            /\ refs'[self][j].globalID = refs[self][j].globalID
            /\ refs'[self][j].out = refs[self][j].out
            /\ refs'[self][j].unread = (refs[self][j].unread /\ j \notin read)
  BY ReadFacts
<1>2. /\ logged(self, ReadEntry(pts[self] + 1, "readinbox", peer, maxID))
      /\ peer # self =>
            IF ackID > 0 THEN logged(peer, ReadEntry(pts[peer] + 1, "readoutbox", self, ackID))
                         ELSE silent(peer)
      /\ \A v \in User \ {self, peer} : silent(v)
  BY ReadFacts
<1>3. \A v \in User : DOMAIN refs'[v] = DOMAIN refs[v]
         /\ \A j \in DOMAIN refs[v] : /\ refs'[v][j].globalID = refs[v][j].globalID
                                      /\ refs'[v][j].out = refs[v][j].out
  BY <1>1
<1>4. /\ i \in DOMAIN refs[u] /\ refs[u][i].out /\ refs'[u][i].globalID = g
      /\ messages[g].peer = p /\ updates[u] \in Seq(Entry)
  BY <1>1, <1>3 DEF Tables
<1>5. /\ i \in Nat /\ g \in DOMAIN messages /\ messages[g].from = u
      /\ refs[u][i].out = (u = messages[g].from) /\ i > 0
  <2>1. g = refs[u][i].globalID /\ i \in DOMAIN refs[u]
    BY <1>4
  <2> HIDE DEF g
  <2>2. /\ i \in Nat /\ i > 0 /\ g \in DOMAIN messages
        /\ refs[u][i].out = (u = messages[g].from)
    BY <2>1, OwnCopy
  <2> QED BY <1>4, <2>2
<1>6. PICK j \in DOMAIN refs[p] :
          refByGlobal(p, g) = {j} /\ refs[p][j].out = (p = messages[g].from)
  BY <1>4, <1>5 DEF CopiesMatch
<1>7. refs[p][j].globalID = g
  BY <1>6 DEF refByGlobal
<1>8. refByGlobal(p, refs[u][i].globalID)' = {j}
  <2>1. refByGlobal(p, refs[u][i].globalID)' = {k \in DOMAIN refs'[p] : refs'[p][k].globalID = g}
    BY <1>4 DEF refByGlobal
  <2>2. {k \in DOMAIN refs'[p] : refs'[p][k].globalID = g} = refByGlobal(p, g)
    BY <1>3 DEF refByGlobal
  <2> QED BY <1>6, <2>1, <2>2
<1>9. ~refs[p][j].unread <=> coveredIn(updates[u], p, i)
  <2>1. readByPeer(p, g) <=> coveredIn(updates[u], p, i)
    BY <1>4, ReceiptsParts
  <2> QED BY <1>6, <2>1 DEF readByPeer
<1> SUFFICES ~refs'[p][j].unread <=> coveredIn(updates'[u], p, i)
  BY <1>8
<1>10. CASE p = self /\ u = peer
  <2>1. /\ j \in read <=> j <= maxID
        /\ i <= ackID <=> j <= maxID
    <3>1. self # peer /\ i \in DOMAIN refs[peer] /\ j \in DOMAIN refs[self] /\ refs[peer][i].out
          /\ refs[self][j].globalID = refs[peer][i].globalID
      BY <1>4, <1>6, <1>7, <1>10
    <3> QED BY <3>1, ReceiptReaches
  <2>2. refs'[p][j].unread = (refs[p][j].unread /\ j \notin read)
    BY <1>1, <1>6, <1>10
  <2> HIDE DEF read, g
  <2>3. ~refs'[p][j].unread <=> ~refs[p][j].unread \/ i <= ackID
    BY <2>1, <2>2
  <2>4. coveredIn(updates'[u], p, i) <=> coveredIn(updates[u], p, i) \/ i <= ackID
    <3>1. CASE ackID > 0
      <4> DEFINE e == ReadEntry(pts[peer] + 1, "readoutbox", self, ackID)
      <4>1. logged(peer, e)
        BY <1>2, <1>10, <3>1
      <4>2. e.type = "readoutbox" /\ e.peer = self /\ e.maxID = ackID
        BY DEF ReadEntry
      <4> HIDE DEF e
      <4>3. e \in Entry /\ updates'[u] = Append(updates[u], e)
        BY <1>10, <4>1 DEF logged
      <4>4. coveredIn(Append(updates[u], e), p, i)
              <=> coveredIn(updates[u], p, i)
                    \/ (e.type = "readoutbox" /\ e.peer = p /\ e.maxID >= i)
        BY <1>4, <4>3, CoveredAppend
      <4>5. (e.type = "readoutbox" /\ e.peer = p /\ e.maxID >= i) <=> i <= ackID
        BY <1>5, <1>10, <4>2
      <4> QED BY <4>3, <4>4, <4>5
    <3>2. CASE ~(ackID > 0)
      <4>1. updates'[u] = updates[u]
        BY <1>2, <1>10, <3>2 DEF silent
      <4>2. ~(i <= ackID)
        BY <1>5, <3>2
      <4> QED BY <4>1, <4>2
    <3> QED BY <3>1, <3>2
  <2> QED BY <1>9, <2>3, <2>4
<1>11. CASE ~(p = self /\ u = peer)
  <2>1. refs'[p][j].unread <=> refs[p][j].unread
    <3>1. CASE p # self
      BY <1>1, <3>1
    <3>2. CASE p = self
      <4>1. other(self, messages[g]) # peer
        BY <1>5, <1>11, <3>2 DEF other
      <4>2. j \notin read
        BY <1>7, <3>2, <4>1 DEF readIDs
      <4>3. refs'[self][j].unread = (refs[self][j].unread /\ j \notin read)
        BY <1>1, <1>6, <3>2
      <4> HIDE DEF read
      <4> QED BY <3>2, <4>2, <4>3
    <3> QED BY <3>1, <3>2
  <2>2. coveredIn(updates'[u], p, i) <=> coveredIn(updates[u], p, i)
    <3>1. CASE u = self
      <4> DEFINE e == ReadEntry(pts[self] + 1, "readinbox", peer, maxID)
      <4>1. e \in Entry /\ updates'[u] = Append(updates[u], e)
        BY <1>2, <3>1 DEF logged
      <4>2. e.type # "readoutbox"
        BY DEF ReadEntry
      <4> HIDE DEF e
      <4>3. coveredIn(Append(updates[u], e), p, i) <=> coveredIn(updates[u], p, i)
        BY <1>4, <4>1, <4>2, CoveredAppend
      <4> QED BY <4>1, <4>3
    <3>2. CASE u = peer /\ u # self /\ ackID > 0
      <4> DEFINE e == ReadEntry(pts[peer] + 1, "readoutbox", self, ackID)
      <4>1. logged(peer, e)
        BY <1>2, <3>2
      <4>2. e.peer = self
        BY DEF ReadEntry
      <4> HIDE DEF e
      <4>3. e \in Entry /\ updates'[u] = Append(updates[u], e)
        BY <3>2, <4>1 DEF logged
      <4>4. ~(e.type = "readoutbox" /\ e.peer = p /\ e.maxID >= i)
        BY <1>11, <3>2, <4>2
      <4>5. coveredIn(Append(updates[u], e), p, i) <=> coveredIn(updates[u], p, i)
        BY <1>4, <4>3, <4>4, CoveredAppend
      <4> QED BY <4>3, <4>5
    <3>3. CASE u # self /\ ~(u = peer /\ ackID > 0)
      BY <1>2, <3>3 DEF silent
    <3> QED BY <3>1, <3>2, <3>3
  <2> QED BY <1>9, <2>1, <2>2
<1> QED BY <1>10, <1>11
-----------------------------------------------------------------------------
(* What the steps of any such store keep *)

\* The four steps.  A receipt is an id of its addressee's.
StoreStep ==
    \/ \E g \in Nat, m \in Message : SendStep(g, m)
    \/ \E g \in DOMAIN messages, text \in Text : EditStep(g, text)
    \/ \E self \in User : \E ids \in SUBSET DOMAIN refs[self], n \in Nat \ {0} :
            DeleteStep(self, ids, n)
    \/ \E self, peer \in User, maxID, ackID \in Nat, read \in SUBSET Nat :
            ackID <= lastMessageID[peer] /\ ReadStep(self, peer, maxID, read, ackID)

\* A step whose read marks what its log entry and its receipt cover.
exactRead(self, peer, maxID) ==
    ReadStep(self, peer, maxID, readIDs(self, peer, maxID), maxOf(ackedIDs(self, peer, maxID)))

ExactStep ==
    \/ \E g \in Nat, m \in Message : SendStep(g, m)
    \/ \E g \in DOMAIN messages, text \in Text : EditStep(g, text)
    \/ \E self \in User : \E ids \in SUBSET DOMAIN refs[self], n \in Nat \ {0} :
            DeleteStep(self, ids, n)
    \/ \E self, peer \in User, maxID \in Nat : exactRead(self, peer, maxID)

\* What all four steps keep.
StoreInv == Tables /\ CopiesMatch /\ SharedOrder /\ LogTellsMessages /\ ReceiptsBounded

\* What they keep when reads are exact.
ReadsInv == ReceiptsExact /\ UnreadFollowsLog

\* An empty store.
LEMMA InitStore ==
    ASSUME Init
    PROVE  StoreInv /\ ReadsInv
<1> DEFINE none == <<>>
<1>1. none \in Seq(Entry) /\ none \in Seq(Ref) /\ DOMAIN none = {} /\ Len(none) = 0
  OBVIOUS
<1>2. /\ messages = none /\ lastMessageID = [u \in User |-> 0] /\ pts = [u \in User |-> 0]
      /\ refs = [u \in User |-> none] /\ updates = [u \in User |-> none]
  BY DEF Init
<1>3. messages = [g \in DOMAIN messages |-> messages[g]]
  BY <1>2
<1> HIDE DEF none
<1>4. Tables
  BY <1>1, <1>2, <1>3 DEF Tables
<1>5. \A u \in User : DOMAIN refs[u] = 1..lastMessageID[u]
  BY <1>1, <1>2
<1>6. CopiesMatch
  BY <1>1, <1>2, <1>5 DEF CopiesMatch
<1>7. SharedOrder /\ ReceiptsBounded
  BY <1>1, <1>2 DEF SharedOrder, ReceiptsBounded
<1>8. LogTellsMessages
  <2>1. \A u \in User : {k \in DOMAIN updates[u] : updates[u][k].type = "new"} = {}
    BY <1>1, <1>2
  <2>2. Cardinality({}) = 0
    BY FS_EmptySet
  <2> QED BY <1>1, <1>2, <2>1, <2>2 DEF LogTellsMessages
<1>9. ReceiptsExact /\ UnreadFollowsLog
  BY <1>1, <1>2 DEF ReceiptsExact, UnreadFollowsLog
<1> QED BY <1>4, <1>6, <1>7, <1>8, <1>9 DEF StoreInv, ReadsInv

\* Every step keeps the tables, the copies, their order and what the logs tell of them.
LEMMA StoreKeeps ==
    ASSUME StoreInv, StoreStep
    PROVE  StoreInv' /\ Persist /\ Log!Next
<1>1. Tables /\ CopiesMatch /\ SharedOrder /\ LogTellsMessages /\ ReceiptsBounded
  BY DEF StoreInv
<1>2. ASSUME NEW g \in Nat, NEW m \in Message, SendStep(g, m)
      PROVE  StoreInv' /\ Persist /\ Log!Next
  <2>1. Tables' /\ Persist
    BY <1>1, <1>2, SendTables
  <2>2. Log!Next
    BY <1>1, <1>2, SendLogs, LogsMoveOn
  <2>3. CopiesMatch' /\ SharedOrder'
    BY <1>1, <1>2, SendCopies, SendOrder
  <2>4. LogTellsMessages' /\ ReceiptsBounded'
    BY <1>1, <1>2, SendTells, SendBounded
  <2> QED BY <2>1, <2>2, <2>3, <2>4 DEF StoreInv
<1>3. ASSUME NEW g \in DOMAIN messages, NEW text \in Text, EditStep(g, text)
      PROVE  StoreInv' /\ Persist /\ Log!Next
  <2>1. Tables' /\ Persist /\ SameCopies
    BY <1>1, <1>3, EditSame
  <2>2. Log!Next
    BY <1>1, <1>3, EditLogs, LogsMoveOn
  <2>3. CopiesMatch' /\ SharedOrder'
    BY <1>1, <2>1, SameCopiesKeep, SameOrderKeep
  <2>4. LogTellsMessages' /\ ReceiptsBounded'
    BY <1>1, <1>3, EditTells, EditBounded
  <2> QED BY <2>1, <2>2, <2>3, <2>4 DEF StoreInv
<1>4. ASSUME NEW self \in User, NEW ids \in SUBSET DOMAIN refs[self], NEW n \in Nat \ {0},
             DeleteStep(self, ids, n)
      PROVE  StoreInv' /\ Persist /\ Log!Next
  <2>1. Tables' /\ Persist /\ SameCopies
    BY <1>1, <1>4, DeleteSame
  <2>2. Log!Next
    BY <1>1, <1>4, DeleteLogs, LogsMoveOn
  <2>3. CopiesMatch' /\ SharedOrder'
    BY <1>1, <2>1, SameCopiesKeep, SameOrderKeep
  <2>4. LogTellsMessages' /\ ReceiptsBounded'
    BY <1>1, <1>4, DeleteTells, DeleteBounded
  <2> QED BY <2>1, <2>2, <2>3, <2>4 DEF StoreInv
<1>5. ASSUME NEW self \in User, NEW peer \in User, NEW maxID \in Nat, NEW ackID \in Nat,
             NEW read \in SUBSET Nat, ackID <= lastMessageID[peer],
             ReadStep(self, peer, maxID, read, ackID)
      PROVE  StoreInv' /\ Persist /\ Log!Next
  <2>1. Tables' /\ Persist /\ SameCopies
    BY <1>1, <1>5, ReadSame
  <2>2. Log!Next
    BY <1>1, <1>5, ReadLogs, LogsMoveOn
  <2>3. CopiesMatch' /\ SharedOrder'
    BY <1>1, <2>1, SameCopiesKeep, SameOrderKeep
  <2>4. LogTellsMessages' /\ ReceiptsBounded'
    BY <1>1, <1>5, ReadTells, ReadBounded
  <2> QED BY <2>1, <2>2, <2>3, <2>4 DEF StoreInv
<1> QED BY <1>2, <1>3, <1>4, <1>5 DEF StoreStep

\* A step that leaves the tables keeps everything said of them.
LEMMA StutterKeeps ==
    ASSUME UNCHANGED storeVars
    PROVE  (StoreInv => StoreInv') /\ (ReadsInv => ReadsInv')
<1>1. /\ messages' = messages /\ lastMessageID' = lastMessageID /\ pts' = pts
      /\ refs' = refs /\ updates' = updates
  BY DEF storeVars
<1>2. (Tables => Tables') /\ (CopiesMatch => CopiesMatch')
  BY <1>1 DEF Tables, CopiesMatch, refByGlobal
<1>3. (SharedOrder => SharedOrder') /\ (ReceiptsBounded => ReceiptsBounded')
  BY <1>1 DEF SharedOrder, ReceiptsBounded
<1>4. LogTellsMessages => LogTellsMessages'
  BY <1>1 DEF LogTellsMessages, MessageByGlobal, refByGlobal, editsOf
<1>5. (ReceiptsExact => ReceiptsExact') /\ (UnreadFollowsLog => UnreadFollowsLog')
  BY <1>1 DEF ReceiptsExact, UnreadFollowsLog, refByGlobal
<1> QED BY <1>2, <1>3, <1>4, <1>5 DEF StoreInv, ReadsInv

\* The receipt of an exact read is an id of the peer's, or 0.
LEMMA ExactReceipt ==
    ASSUME Tables, NEW self \in User, NEW peer \in User, NEW maxID
    PROVE  /\ maxOf(ackedIDs(self, peer, maxID)) \in Nat
           /\ maxOf(ackedIDs(self, peer, maxID)) <= lastMessageID[peer]
<1> DEFINE S == ackedIDs(self, peer, maxID)
<1>1. lastMessageID[peer] \in Nat /\ S \in SUBSET (1..lastMessageID[peer])
  BY DEF Tables, ackedIDs
<1> HIDE DEF S
<1>2. maxOf(S) \in Nat /\ (S = {} => maxOf(S) = 0) /\ (S # {} => maxOf(S) \in S)
  BY <1>1, MaxOfProperties
<1>3. maxOf(S) <= lastMessageID[peer]
  BY <1>1, <1>2
<1> QED BY <1>2, <1>3 DEF S

\* An exact step is a step.
LEMMA ExactIsStore ==
    ASSUME Tables, ExactStep
    PROVE  StoreStep
<1>1. ASSUME NEW self \in User, NEW peer \in User, NEW maxID \in Nat,
             exactRead(self, peer, maxID)
      PROVE  \E ackID \in Nat, read \in SUBSET Nat :
                ackID <= lastMessageID[peer] /\ ReadStep(self, peer, maxID, read, ackID)
  <2>1. /\ maxOf(ackedIDs(self, peer, maxID)) \in Nat
        /\ maxOf(ackedIDs(self, peer, maxID)) <= lastMessageID[peer]
    BY ExactReceipt
  <2>2. readIDs(self, peer, maxID) \in SUBSET Nat
    BY DEF Tables, readIDs
  <2> QED BY <1>1, <2>1, <2>2 DEF exactRead
<1> QED BY <1>1 DEF ExactStep, StoreStep

\* And keeps receipts and unread flags in step with the logs.
LEMMA ExactKeeps ==
    ASSUME StoreInv, ReadsInv, ExactStep
    PROVE  ReadsInv'
<1>1. /\ Tables /\ CopiesMatch /\ SharedOrder /\ LogTellsMessages /\ ReceiptsBounded
      /\ ReceiptsExact /\ UnreadFollowsLog
  BY DEF StoreInv, ReadsInv
<1>2. ASSUME NEW g \in Nat, NEW m \in Message, SendStep(g, m)
      PROVE  ReceiptsExact' /\ UnreadFollowsLog'
  BY <1>1, <1>2, SendReceipts, SendUnread
<1>3. ASSUME NEW g \in DOMAIN messages, NEW text \in Text, EditStep(g, text)
      PROVE  ReceiptsExact' /\ UnreadFollowsLog'
  BY <1>1, <1>3, EditReceipts, EditUnread
<1>4. ASSUME NEW self \in User, NEW ids \in SUBSET DOMAIN refs[self], NEW n \in Nat \ {0},
             DeleteStep(self, ids, n)
      PROVE  ReceiptsExact' /\ UnreadFollowsLog'
  BY <1>1, <1>4, DeleteReceipts, DeleteUnread
<1>5. ASSUME NEW self \in User, NEW peer \in User, NEW maxID \in Nat,
             exactRead(self, peer, maxID)
      PROVE  ReceiptsExact' /\ UnreadFollowsLog'
  <2>1. maxOf(ackedIDs(self, peer, maxID)) \in Nat
    BY <1>1, ExactReceipt
  <2>2. PICK o \in Nat : o = maxOf(ackedIDs(self, peer, maxID))
    BY <2>1
  <2>3. ReadStep(self, peer, maxID, readIDs(self, peer, maxID), o)
    BY <1>5, <2>2 DEF exactRead
  <2> QED BY <1>1, <2>2, <2>3, ReadReceipts, ReadUnread
<1> QED BY <1>2, <1>3, <1>4, <1>5 DEF ExactStep, ReadsInv

\* What a reader may count on between two steps: the references it selects up to an id
\* already given out, and the peer's copies of them, are not changed by anyone's step.
LEMMA SameReads ==
    ASSUME Tables, SameCopies, NEW self \in User, NEW peer \in User, NEW maxID
    PROVE  /\ readIDs(self, peer, maxID)' = readIDs(self, peer, maxID)
           /\ ackedIDs(self, peer, maxID)' = ackedIDs(self, peer, maxID)
<1>1. ASSUME NEW i \in DOMAIN refs[self]
      PROVE  other(self, messages'[refs'[self][i].globalID])
               = other(self, messages[refs[self][i].globalID])
  <2>1. refs[self][i].globalID \in DOMAIN messages
        /\ refs'[self][i].globalID = refs[self][i].globalID
    BY DEF Tables, SameCopies
  <2> QED BY <2>1 DEF SameCopies, other
<1>2. readIDs(self, peer, maxID)' = readIDs(self, peer, maxID)
  BY <1>1 DEF readIDs, SameCopies
<1>3. \A i \in readIDs(self, peer, maxID) : i \in DOMAIN refs[self]
  BY DEF readIDs
<1> HIDE DEF readIDs
<1>4. ackedIDs(self, peer, maxID)' = ackedIDs(self, peer, maxID)
  BY <1>2, <1>3 DEF ackedIDs, SameCopies
<1> QED BY <1>2, <1>4

\* Sending: the new copy has an id beyond the range.
LEMMA SendReads ==
    ASSUME Tables, NEW g \in Nat, NEW m \in Message, SendStep(g, m),
           NEW self \in User, NEW peer \in User, NEW maxID \in Nat, maxID <= lastMessageID[self]
    PROVE  /\ readIDs(self, peer, maxID)' = readIDs(self, peer, maxID)
           /\ ackedIDs(self, peer, maxID)' = ackedIDs(self, peer, maxID)
<1>1. \A h \in DOMAIN messages : messages'[h] = messages[h]
  BY SendFacts
<1>2. /\ \A i \in DOMAIN refs[self] : i \in DOMAIN refs'[self] /\ refs'[self][i] = refs[self][i]
      /\ \A i \in DOMAIN refs[self] : refs[self][i].globalID # g
      /\ \A i \in DOMAIN refs'[self] \ DOMAIN refs[self] : i = lastMessageID[self] + 1
  BY SendKeepsRefs
<1>3. /\ \A j \in DOMAIN refs[peer] : j \in DOMAIN refs'[peer] /\ refs'[peer][j] = refs[peer][j]
      /\ \A j \in DOMAIN refs'[peer] \ DOMAIN refs[peer] : refs'[peer][j].globalID = g
  BY SendKeepsRefs
<1>4. /\ lastMessageID[self] \in Nat
      /\ \A i \in DOMAIN refs[self] : refs[self][i].globalID \in DOMAIN messages
  BY DEF Tables
<1>5. \A i \in DOMAIN refs'[self] \ DOMAIN refs[self] : ~(i <= maxID)
  BY <1>2, <1>4
<1>6. ASSUME NEW i \in DOMAIN refs[self]
      PROVE  other(self, messages'[refs'[self][i].globalID])
               = other(self, messages[refs[self][i].globalID])
  BY <1>1, <1>2, <1>4
<1>7. readIDs(self, peer, maxID)' = readIDs(self, peer, maxID)
  BY <1>2, <1>5, <1>6 DEF readIDs
<1>8. \A i \in readIDs(self, peer, maxID) :
         refs'[self][i] = refs[self][i] /\ refs[self][i].globalID # g
  BY <1>2 DEF readIDs
<1> HIDE DEF readIDs
<1>9. ackedIDs(self, peer, maxID)' = ackedIDs(self, peer, maxID)
  BY <1>3, <1>7, <1>8 DEF ackedIDs
<1> QED BY <1>7, <1>9

\* Any step; and no counter of local ids goes back.
LEMMA ReadsStable ==
    ASSUME Tables, StoreStep
    PROVE  /\ \A u \in User : lastMessageID[u] <= lastMessageID'[u]
           /\ \A self, peer \in User, maxID \in Nat : maxID <= lastMessageID[self] =>
                 /\ readIDs(self, peer, maxID)' = readIDs(self, peer, maxID)
                 /\ ackedIDs(self, peer, maxID)' = ackedIDs(self, peer, maxID)
<1>1. \A u \in User : lastMessageID[u] \in Nat
  BY DEF Tables
<1>2. CASE SameCopies
  <2>1. \A u \in User : lastMessageID[u] <= lastMessageID'[u]
    BY <1>1, <1>2 DEF SameCopies
  <2> QED BY <1>2, <2>1, SameReads
<1>3. ASSUME NEW g \in Nat, NEW m \in Message, SendStep(g, m)
      PROVE  /\ \A u \in User : lastMessageID[u] <= lastMessageID'[u]
             /\ \A self, peer \in User, maxID \in Nat : maxID <= lastMessageID[self] =>
                   /\ readIDs(self, peer, maxID)' = readIDs(self, peer, maxID)
                   /\ ackedIDs(self, peer, maxID)' = ackedIDs(self, peer, maxID)
  <2>1. ASSUME NEW u \in User
        PROVE  lastMessageID[u] <= lastMessageID'[u]
    <3>1. lastMessageID'[u] = lastMessageID[u] + 1 \/ lastMessageID'[u] = lastMessageID[u]
      BY <1>3, SendRow, SendOthers
    <3> QED BY <1>1, <3>1
  <2> QED BY <1>3, <2>1, SendReads
<1>4. StoreStep => SameCopies \/ \E g \in Nat, m \in Message : SendStep(g, m)
  BY EditSame, DeleteSame, ReadSame DEF StoreStep
<1> QED BY <1>2, <1>3, <1>4

-----------------------------------------------------------------------------
(* The in-memory store *)

\* Its operations are exact steps.
LEMMA NextIsExact ==
    ASSUME Inv, Next
    PROVE  ExactStep
<1>1. ASSUME NEW from \in User, NEW peer \in User, NEW text \in Text,
             NEW randomID \in RandomID, SendMessage(from, peer, text, randomID)
      PROVE  ExactStep
  BY <1>1, SendIsStep DEF ExactStep
<1>2. ASSUME NEW self \in User, NEW i \in LocalID, NEW text \in Text,
             EditMessage(self, i, text)
      PROVE  ExactStep
  <2>1. i \in Nat
    BY BoundAssumption DEF LocalID
  <2>2. EditStep(refs[self][i].globalID, text)
    BY <1>2, <2>1, EditIsStep
  <2>3. refs[self][i].globalID \in DOMAIN messages
    BY <2>2 DEF EditStep
  <2> QED BY <2>2, <2>3 DEF ExactStep
<1>3. ASSUME NEW self \in User, NEW n \in 1..MaxDelete, NEW localIDs \in [1..n -> LocalID],
             DeleteMessages(self, localIDs)
      PROVE  ExactStep
  <2>1. n \in Nat /\ localIDs \in [1..n -> Nat]
    BY BoundAssumption DEF LocalID
  <2> QED BY <1>3, <2>1, DeleteIsStep DEF ExactStep
<1>4. ASSUME NEW self \in User, NEW peer \in User, NEW maxID \in ReadID,
             ReadHistory(self, peer, maxID)
      PROVE  ExactStep
  <2>1. maxID \in Nat
    BY BoundAssumption DEF ReadID
  <2> QED BY <1>4, <2>1, ReadIsStep DEF ExactStep, exactRead
<1> QED BY <1>1, <1>2, <1>3, <1>4 DEF Next

\* The invariant: the tables are dense and resolvable, both accounts hold each message
\* once and in one order, and the logs tell of messages, receipts and reads as they are.
THEOREM StoreHolds == Spec => [](Inv /\ StoreInv /\ ReadsInv)
<1>1. Init => StoreInv /\ ReadsInv
  BY InitStore
<1>2. Inv /\ StoreInv /\ ReadsInv /\ [Next]_storeVars => StoreInv' /\ ReadsInv'
  <2> SUFFICES ASSUME Inv, StoreInv, ReadsInv, [Next]_storeVars
               PROVE  StoreInv' /\ ReadsInv'
    OBVIOUS
  <2>1. CASE Next
    <3>1. ExactStep /\ StoreStep
      BY <2>1, NextIsExact, ExactIsStore DEF StoreInv
    <3> QED BY <3>1, StoreKeeps, ExactKeeps
  <2>2. CASE UNCHANGED storeVars
    BY <2>2, StutterKeeps DEF storeVars
  <2> QED BY <2>1, <2>2
<1> QED BY <1>1, <1>2, RefsResolve, PTL DEF Spec

\* A step of the store, by what it may never do and by what it does to the logs.
LEMMA NextSteps ==
    ASSUME Inv, StoreInv, Next
    PROVE  Persist /\ Log!Next
<1>1. StoreStep
  BY NextIsExact, ExactIsStore DEF StoreInv
<1> QED BY <1>1, StoreKeeps

\* No operation rebinds a local id, marks a read message unread, brings a deleted
\* message back or edits it.
THEOREM IdsAndDeletionsPersist == Spec => CopiesPersist
<1>1. Inv /\ StoreInv /\ [Next]_storeVars => [Persist]_storeVars
  BY NextSteps
<1> QED BY <1>1, StoreHolds, PTL DEF Spec, CopiesPersist, Persist

\* The store implements the update stream of UpdateLog: whatever the operations
\* and their interleaving, a log is only ever extended, by one entry that starts
\* at the account's pts.
THEOREM StoreImplementsUpdateLog == Spec => UpdateStream
<1>1. Init => Log!Init
  BY DEF Init, Log!Init
<1>2. Inv /\ StoreInv /\ [Next]_storeVars => [Log!Next]_(Log!logVars)
  <2>1. ASSUME Inv, StoreInv, Next
        PROVE  Log!Next
    BY <2>1, NextSteps
  <2>2. UNCHANGED storeVars => UNCHANGED Log!logVars
    BY DEF storeVars, Log!logVars
  <2> QED BY <2>1, <2>2
<1> QED BY <1>1, <1>2, StoreHolds, PTL DEF Spec, UpdateStream, Log!Spec

\* One UpdateLog step keeps a log contiguous.
LEMMA ExtendedContiguous ==
    ASSUME NEW u \in User, Inv, Inv', Log!contiguous(updates[u], pts[u]), Log!Extended(u)
    PROVE  Log!contiguous(updates[u], pts[u])'
<1> DEFINE n == Len(updates[u])
           e == updates'[u][n + 1]
<1>1. updates[u] \in Seq(Entry) /\ updates'[u] \in Seq(Entry) /\ n \in Nat
  BY DEF Inv, TypeOK
<1>2. /\ updates'[u] = Append(updates[u], e) /\ Len(updates'[u]) = n + 1
      /\ e.ptsCount > 0 /\ e.pts = pts[u] + e.ptsCount /\ pts'[u] = e.pts
  BY DEF Log!Extended
<1>3. \A k \in 1..n : updates'[u][k] = updates[u][k]
  BY <1>1, <1>2
<1> HIDE DEF n, e
<1>4. pts[u] = IF n + 1 = 1 THEN 0 ELSE updates[u][n].pts
  BY <1>1 DEF Log!contiguous, Log!startOf, n
<1>5. ASSUME NEW k \in 1..(n + 1)
      PROVE  /\ updates'[u][k].ptsCount > 0
             /\ updates'[u][k].pts = (IF k = 1 THEN 0 ELSE updates'[u][k - 1].pts)
                                        + updates'[u][k].ptsCount
  <2>1. CASE k \in 1..n
    <3>1. /\ updates[u][k].ptsCount > 0
          /\ updates[u][k].pts = (IF k = 1 THEN 0 ELSE updates[u][k - 1].pts) + updates[u][k].ptsCount
      BY <2>1 DEF Log!contiguous, Log!startOf, n
    <3>2. k # 1 => k - 1 \in 1..n
      BY <1>1, <2>1
    <3> QED BY <2>1, <3>1, <3>2, <1>3
  <2>2. CASE k = n + 1
    <3>1. n # 0 => n \in 1..n
      BY <1>1
    <3> QED BY <2>2, <3>1, <1>1, <1>2, <1>3, <1>4 DEF e
  <2> QED BY <1>1, <2>1, <2>2
<1>6. pts'[u] = IF n + 2 = 1 THEN 0 ELSE updates'[u][n + 1].pts
  BY <1>1, <1>2 DEF e
<1>7. Len(updates'[u]) = n + 1 /\ Len(updates'[u]) + 1 = n + 2 /\ n \in Nat
  BY <1>1, <1>2
<1> QED BY <1>5, <1>6, <1>7 DEF Log!contiguous, Log!startOf

\* No account's log ever has a hole or an overlap, and its last entry ends at the
\* account's pts: a client that holds every entry up to pts p and sees the next
\* entry's start differ from p has missed something, and only then.
THEOREM LogsContiguous == Spec => []LogContiguous
<1>1. Init => LogContiguous
  BY DEF Init, LogContiguous, Log!contiguous, Log!startOf
<1>2. Inv /\ Inv' /\ StoreInv /\ LogContiguous /\ [Next]_storeVars => LogContiguous'
  <2> SUFFICES ASSUME Inv, Inv', StoreInv, LogContiguous, [Next]_storeVars, NEW u \in User
               PROVE  Log!contiguous(updates[u], pts[u])'
    BY DEF LogContiguous
  <2>1. Log!contiguous(updates[u], pts[u])
    BY DEF LogContiguous
  <2>2. CASE Next
    <3>1. Log!Extended(u) \/ Log!Untouched(u)
      BY <2>2, NextSteps DEF Log!Next
    <3>2. CASE Log!Extended(u)
      BY <2>1, <3>2, ExtendedContiguous
    <3>3. CASE Log!Untouched(u)
      BY <2>1, <3>3 DEF Log!Untouched, Log!contiguous, Log!startOf
    <3> QED BY <3>1, <3>2, <3>3
  <2>3. CASE UNCHANGED storeVars
    BY <2>1, <2>3 DEF storeVars, Log!contiguous, Log!startOf
  <2> QED BY <2>2, <2>3
<1> QED BY <1>1, <1>2, StoreHolds, PTL DEF Spec

\* Both participants of a message, and nobody else, hold exactly one copy of it, the
\* sender's outgoing and the recipient's incoming, under local ids with none skipped
\* (SendMessage's allocate and putRef), for any set of users and any bounds.
THEOREM OneCopyEach == Spec => []CopiesMatch
<1>1. StoreInv => CopiesMatch
  BY DEF StoreInv
<1> QED BY <1>1, StoreHolds, PTL

\* Each log announces the account's messages once and in the order of their ids, edits
\* after them and to both sides, and nothing the account does not hold (logUpdate in
\* SendMessage and EditMessage): updates.getDifference can resolve every entry.
THEOREM LogsTell == Spec => []LogTellsMessages
<1>1. StoreInv => LogTellsMessages
  BY DEF StoreInv
<1> QED BY <1>1, StoreHolds, PTL

\* A message was read by its recipient if and only if a receipt in the sender's log
\* covers it (ReadHistory's OutboxMaxID), for any number of users and conversations.
THEOREM ReceiptsAreExact == Spec => []ReceiptsExact
<1>1. ReadsInv => ReceiptsExact
  BY DEF ReadsInv
<1> QED BY <1>1, StoreHolds, PTL

\* The unread flags are what a client computes from its log (ReadHistory's flags
\* against its readinbox entry), a read beyond the last id included.
THEOREM UnreadIsLogged == Spec => []UnreadFollowsLog
<1>1. ReadsInv => UnreadFollowsLog
  BY DEF ReadsInv
<1> QED BY <1>1, StoreHolds, PTL
=============================================================================
