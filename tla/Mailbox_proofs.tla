--------------------------- MODULE Mailbox_proofs ---------------------------
(***************************************************************************)
(* Proofs about Mailbox, for every set of users, every page size and every *)
(* bound: what a request has read so far stays true while the store        *)
(* changes between its calls.                                              *)
(***************************************************************************)
EXTENDS Mailbox, MessageStore_proofs

-----------------------------------------------------------------------------
(* Queries *)

\* The place of i in S, counted from the newest.
place(S, i) == Cardinality({j \in S : j >= i})

\* The places are counted without a gap.
LEMMA Places ==
    ASSUME NEW m \in Nat, NEW S \in SUBSET (1..m)
    PROVE  /\ IsFiniteSet(S) /\ Cardinality(S) \in Nat
           /\ \A i \in S : place(S, i) \in 1..Cardinality(S)
           /\ \A i, j \in S : j < i => place(S, i) < place(S, j)
           /\ \A k \in 1..Cardinality(S) : \E i \in S : place(S, i) = k
<1> DEFINE c == Cardinality(S)
           up(i) == {j \in S : j >= i}
           f == [i \in S |-> place(S, i)]
<1>1. IsFiniteSet(S) /\ c \in Nat /\ \A i \in S : i \in Nat
  <2>1. IsFiniteSet(1..m)
    BY FS_Interval
  <2>2. IsFiniteSet(S)
    BY <2>1, FS_Subset
  <2> QED BY <2>2, FS_CardinalityType
<1>2. ASSUME NEW i \in S
      PROVE  /\ up(i) \in SUBSET S /\ IsFiniteSet(up(i)) /\ i \in up(i)
             /\ place(S, i) \in 1..c /\ place(S, i) = Cardinality(up(i))
  <2>1. up(i) \in SUBSET S /\ i \in up(i) /\ place(S, i) = Cardinality(up(i))
    BY <1>1 DEF place
  <2> HIDE DEF up
  <2>2. IsFiniteSet(up(i)) /\ Cardinality(up(i)) <= c
    BY <1>1, <2>1, FS_Subset
  <2>3. Cardinality(up(i)) \in Nat /\ Cardinality(up(i)) # 0
    BY <2>1, <2>2, FS_CardinalityType, FS_EmptySet
  <2> QED BY <1>1, <2>1, <2>2, <2>3
<1>3. ASSUME NEW i \in S, NEW j \in S, j < i
      PROVE  place(S, i) < place(S, j)
  <2>1. up(i) \in SUBSET up(j) /\ j \notin up(i)
    <3>1. i \in Nat /\ j \in Nat
      BY <1>1
    <3>2. \A k \in S : k >= i => k >= j
      BY <1>1, <1>3, <3>1
    <3>3. ~(j >= i)
      BY <1>3, <3>1
    <3> QED BY ONLY <3>2, <3>3 DEF up
  <2>2. up(i) # up(j)
    BY <1>2, <2>1
  <2> HIDE DEF up
  <2>3. Cardinality(up(i)) <= Cardinality(up(j)) /\ Cardinality(up(i)) # Cardinality(up(j))
    BY <1>2, <2>1, <2>2, FS_Subset
  <2>4. place(S, i) \in 1..c /\ place(S, j) \in 1..c
    BY <1>2
  <2> QED BY <1>1, <1>2, <2>3, <2>4
<1>4. f \in Injection(S, 1..c)
  <2>1. \A i, j \in S : place(S, i) = place(S, j) => i = j
    <3>1. ASSUME NEW i \in S, NEW j \in S, place(S, i) = place(S, j), i # j
          PROVE  FALSE
      <4>1. i < j \/ j < i
        BY <1>1, <3>1
      <4>2. place(S, i) < place(S, j) \/ place(S, j) < place(S, i)
        BY <1>3, <4>1
      <4>3. place(S, i) \in 1..c
        BY <1>2
      <4> QED BY <3>1, <4>2, <4>3
    <3> QED BY <3>1
  <2>2. f \in [S -> 1..c] /\ \A i \in S : f[i] = place(S, i)
    BY <1>2
  <2> QED BY <2>1, <2>2 DEF Injection, IsInjective
<1>5. IsFiniteSet(1..c) /\ Cardinality(1..c) = c
  <2>1. IsFiniteSet(1..c) /\ Cardinality(1..c) = IF 1 > c THEN 0 ELSE c - 1 + 1
    BY <1>1, FS_Interval
  <2> QED BY <1>1, <2>1
<1>6. f \in Surjection(S, 1..c)
  <2> HIDE DEF f
  <2> QED BY <1>4, <1>5, FS_Injection
<1>7. ASSUME NEW k \in 1..c
      PROVE  \E i \in S : place(S, i) = k
  BY <1>6 DEF Surjection
<1> QED BY <1>1, <1>2, <1>3, <1>7

\* newest lists the largest of a set of local ids in falling order, and leaves one out only
\* if it has as many as it may.
LEMMA NewestListed ==
    ASSUME NEW m \in Nat, NEW S \in SUBSET (1..m), NEW n \in Nat
    PROVE  /\ newest(S, n) \in Seq(S) /\ Len(newest(S, n)) <= n
           /\ n > 0 /\ S # {} => newest(S, n) # <<>>
           /\ \A k, l \in DOMAIN newest(S, n) : k < l => newest(S, n)[l] < newest(S, n)[k]
           /\ \A i \in S : \/ \E k \in DOMAIN newest(S, n) : newest(S, n)[k] = i
                           \/ /\ Len(newest(S, n)) = n
                              /\ \A k \in DOMAIN newest(S, n) : i < newest(S, n)[k]
<1> DEFINE c == Cardinality(S)
           w == IF n < c THEN n ELSE c
           at(k) == CHOOSE i \in S : place(S, i) = k
<1>0. \A i \in S : i \in Nat
  OBVIOUS
<1>1. /\ IsFiniteSet(S) /\ c \in Nat
      /\ \A i \in S : place(S, i) \in 1..c
      /\ \A i, j \in S : j < i => place(S, i) < place(S, j)
      /\ \A k \in 1..c : \E i \in S : place(S, i) = k
  BY Places
<1>2. newest(S, n) = [k \in 1..w |-> at(k)]
  BY DEF newest, place
<1>3. w \in Nat /\ w <= n /\ w <= c /\ (w = n \/ w = c)
  BY <1>1
<1>4. \A k \in 1..w : at(k) \in S /\ place(S, at(k)) = k
  <2> HIDE DEF w
  <2>1. \A k \in 1..w : k \in 1..c
    BY <1>1, <1>3
  <2> QED BY <1>1, <2>1
<1> HIDE DEF at, w
<1>5. PICK q : q = newest(S, n)
  OBVIOUS
<1>6. q \in Seq(S) /\ Len(q) = w /\ DOMAIN q = 1..w /\ \A k \in 1..w : q[k] = at(k)
  BY <1>2, <1>3, <1>4, <1>5
<1>7. ASSUME NEW i \in S, NEW j \in S, place(S, i) < place(S, j)
      PROVE  j < i
  <2>1. i \in Nat /\ j \in Nat /\ place(S, i) \in 1..c /\ place(S, j) \in 1..c
    BY <1>0, <1>1
  <2>2. i < j => place(S, j) < place(S, i)
    BY <1>1
  <2>3. i # j
    BY <1>1, <1>7, <2>1
  <2> QED BY <1>1, <1>7, <2>1, <2>2, <2>3
<1>8. ASSUME NEW k \in DOMAIN q, NEW l \in DOMAIN q, k < l
      PROVE  q[l] < q[k]
  <2>1. q[k] \in S /\ q[l] \in S /\ place(S, q[k]) = k /\ place(S, q[l]) = l
    BY <1>4, <1>6
  <2> QED BY <1>7, <1>8, <2>1
<1>9. ASSUME NEW i \in S, ~ \E k \in DOMAIN q : q[k] = i
      PROVE  Len(q) = n /\ \A k \in DOMAIN q : i < q[k]
  <2>1. place(S, i) \in 1..c
    BY <1>1
  <2>2. place(S, i) \notin 1..w
    <3>1. ASSUME place(S, i) \in 1..w
          PROVE  FALSE
      <4>1. at(place(S, i)) \in S /\ place(S, at(place(S, i))) = place(S, i)
        BY <1>4, <3>1
      <4>2. at(place(S, i)) # i
        BY <1>6, <1>9, <3>1
      <4>3. at(place(S, i)) < i \/ i < at(place(S, i))
        <5>1. i \in Nat /\ at(place(S, i)) \in Nat
          BY <1>0, <4>1
        <5> QED BY <4>2, <5>1
      <4>4. place(S, i) < place(S, i)
        BY <1>1, <4>1, <4>3
      <4> QED BY <2>1, <4>4
    <3> QED BY <3>1
  <2>3. w = n
    BY <1>1, <1>3, <2>1, <2>2
  <2>4. ASSUME NEW k \in DOMAIN q
        PROVE  i < q[k]
    <3>1. k \in 1..w /\ q[k] \in S /\ place(S, q[k]) = k
      BY <1>4, <1>6
    <3>2. k < place(S, i)
      BY <1>1, <1>3, <2>1, <2>2, <3>1
    <3> QED BY <1>7, <3>1, <3>2
  <2> QED BY <1>6, <2>3, <2>4
<1>10. n > 0 /\ S # {} => q # <<>>
  <2>1. S # {} => c # 0
    BY <1>1, FS_EmptySet
  <2> QED BY <1>1, <1>3, <1>6, <2>1
<1>11. Len(q) <= n
  BY <1>3, <1>6
<1> QED BY <1>5, <1>6, <1>8, <1>9, <1>10, <1>11

-----------------------------------------------------------------------------
(* The store between two calls of a request *)

\* A read in the log, of the conversation with p, covers local id i.
inboxIn(log, p, i) ==
    \E k \in DOMAIN log : log[k].type = "readinbox" /\ log[k].peer = p /\ log[k].maxID >= i

\* Entries end at the account's pts or before, reads go up to ids given out, and an incoming
\* message is unread if and only if no read covers it.
inboxOK(u) ==
    /\ \A k \in DOMAIN updates[u] :
          /\ updates[u][k].pts <= pts[u]
          /\ updates[u][k].type = "readinbox" => updates[u][k].maxID <= lastMessageID[u]
    /\ \A i \in DOMAIN refs[u] : ~refs[u][i].out =>
          (refs[u][i].unread <=> ~inboxIn(updates[u], peerOf(u, i), i))

InboxExact == \A u \in User : inboxOK(u)

\* The store as the requests find it.
Store == Inv /\ StoreInv /\ ReadsInv /\ InboxExact

\* What any change leaves a reader of u's mailbox: references keep their conversation and
\* direction, none becomes unread or comes back, new ones have ids beyond the last.
kept(u) ==
    /\ lastMessageID[u] <= lastMessageID'[u]
    /\ \A i \in DOMAIN refs[u] :
          /\ i \in DOMAIN refs'[u] /\ refs'[u][i].out = refs[u][i].out
          /\ refs'[u][i].unread => refs[u][i].unread
          /\ peerOf(u, i)' = peerOf(u, i)
          /\ i \in visible(u)' => i \in visible(u)
    /\ \A i \in DOMAIN refs'[u] \ DOMAIN refs[u] : i > lastMessageID[u]

\* Entries stay, and new ones end after the account's pts.
logKept(u) ==
    /\ pts[u] <= pts'[u]
    /\ \A k \in DOMAIN updates[u] : k \in DOMAIN updates'[u] /\ updates'[u][k] = updates[u][k]
    /\ \A k \in DOMAIN updates'[u] \ DOMAIN updates[u] : updates'[u][k].pts > pts[u]

\* The typed tables of one account.
LEMMA AccountTypes ==
    ASSUME Tables, NEW u \in User
    PROVE  /\ lastMessageID[u] \in Nat /\ pts[u] \in Nat /\ updates[u] \in Seq(Entry)
           /\ refs[u] \in Seq(Ref) /\ DOMAIN refs[u] = 1..lastMessageID[u]
           /\ \A k \in DOMAIN updates[u] :
                 /\ updates[u][k] \in Entry
                 /\ updates[u][k].pts \in Nat /\ updates[u][k].maxID \in Nat
           /\ \A i \in DOMAIN refs[u] :
                 /\ i \in Nat /\ i > 0 /\ refs[u][i] \in Ref
                 /\ refs[u][i].out \in BOOLEAN /\ refs[u][i].unread \in BOOLEAN
                 /\ refs[u][i].globalID \in DOMAIN messages
                 /\ messages[refs[u][i].globalID] \in Message /\ peerOf(u, i) \in User
<1>1. /\ lastMessageID[u] \in Nat /\ pts[u] \in Nat /\ updates[u] \in Seq(Entry)
      /\ refs[u] \in Seq(Ref) /\ Len(refs[u]) = lastMessageID[u]
      /\ \A i \in DOMAIN refs[u] : refs[u][i].globalID \in DOMAIN messages
  BY DEF Tables
<1>2. \A k \in DOMAIN updates[u] : updates[u][k] \in Entry
  BY <1>1
<1>3. \A i \in DOMAIN refs[u] : i \in Nat /\ i > 0 /\ refs[u][i] \in Ref
  BY <1>1
<1>4. \A i \in DOMAIN refs[u] : messages[refs[u][i].globalID] \in Message
  BY <1>1 DEF Tables
<1>5. \A i \in DOMAIN refs[u] : peerOf(u, i) \in User
  BY <1>4 DEF peerOf, other, Message
<1>6. \A k \in DOMAIN updates[u] : updates[u][k].pts \in Nat /\ updates[u][k].maxID \in Nat
  BY <1>2 DEF Entry
<1>7. \A i \in DOMAIN refs[u] : refs[u][i].out \in BOOLEAN /\ refs[u][i].unread \in BOOLEAN
  BY <1>3 DEF Ref
<1>8. DOMAIN refs[u] = 1..lastMessageID[u]
  BY <1>1
<1> QED BY <1>1, <1>2, <1>3, <1>4, <1>5, <1>6, <1>7, <1>8

\* A step that gives out no id.
LEMMA SameKept ==
    ASSUME Tables, SameCopies, Persist, NEW u \in User
    PROVE  kept(u)
<1>1. /\ lastMessageID[u] \in Nat
      /\ \A i \in DOMAIN refs[u] : refs[u][i].globalID \in DOMAIN messages
  BY AccountTypes
<1>2. lastMessageID[u] <= lastMessageID'[u] /\ DOMAIN refs'[u] = DOMAIN refs[u]
  BY <1>1 DEF SameCopies
<1>3. ASSUME NEW i \in DOMAIN refs[u]
      PROVE  /\ i \in DOMAIN refs'[u] /\ refs'[u][i].out = refs[u][i].out
             /\ refs'[u][i].unread => refs[u][i].unread
             /\ peerOf(u, i)' = peerOf(u, i)
             /\ i \in visible(u)' => i \in visible(u)
  <2>1. PICK g : g = refs[u][i].globalID /\ g = refs'[u][i].globalID /\ g \in DOMAIN messages
    BY <1>1 DEF SameCopies
  <2>2. messages'[g].from = messages[g].from /\ messages'[g].peer = messages[g].peer
    BY <2>1 DEF SameCopies
  <2>3. messages[g].deleted => messages'[g].deleted
    BY <2>1 DEF Persist
  <2>4. peerOf(u, i)' = peerOf(u, i)
    BY <2>1, <2>2 DEF peerOf, other
  <2>5. i \in visible(u)' => i \in visible(u)
    BY <2>1, <2>3 DEF visible
  <2> QED BY <2>4, <2>5 DEF SameCopies, Persist
<1> QED BY <1>2, <1>3 DEF kept

\* Sending.
LEMMA SendKept ==
    ASSUME Tables, NEW g \in Nat, NEW m \in Message, SendStep(g, m), NEW u \in User
    PROVE  kept(u)
<1>1. /\ \A i \in DOMAIN refs[u] : i \in DOMAIN refs'[u] /\ refs'[u][i] = refs[u][i]
      /\ \A i \in DOMAIN refs'[u] \ DOMAIN refs[u] : i = lastMessageID[u] + 1
  BY SendKeepsRefs
<1>2. \A h \in DOMAIN messages : messages'[h] = messages[h]
  BY SendFacts
<1>3. /\ lastMessageID[u] \in Nat
      /\ \A i \in DOMAIN refs[u] : refs[u][i].globalID \in DOMAIN messages
  BY AccountTypes
<1>4. lastMessageID'[u] = lastMessageID[u] + 1 \/ lastMessageID'[u] = lastMessageID[u]
  BY SendRow, SendOthers
<1>5. ASSUME NEW i \in DOMAIN refs[u]
      PROVE  /\ peerOf(u, i)' = peerOf(u, i)
             /\ i \in visible(u)' => i \in visible(u)
  BY <1>1, <1>2, <1>3 DEF peerOf, visible
<1>6. lastMessageID[u] <= lastMessageID'[u]
  BY <1>3, <1>4
<1>7. \A i \in DOMAIN refs'[u] \ DOMAIN refs[u] : i > lastMessageID[u]
  BY <1>1, <1>3
<1> QED BY <1>1, <1>5, <1>6, <1>7 DEF kept

\* A log that moved on.
LEMMA LogKept ==
    ASSUME Tables, NEW u \in User, silent(u) \/ \E e : logged(u, e)
    PROVE  logKept(u)
<1>1. updates[u] \in Seq(Entry) /\ pts[u] \in Nat
  BY DEF Tables
<1>2. CASE silent(u)
  BY <1>1, <1>2 DEF silent, logKept
<1>3. ASSUME NEW e, logged(u, e)
      PROVE  logKept(u)
  <2>1. /\ e \in Entry /\ updates'[u] = Append(updates[u], e)
        /\ e.ptsCount > 0 /\ e.pts = pts[u] + e.ptsCount /\ pts'[u] = e.pts
    BY <1>3 DEF logged
  <2>2. e.ptsCount \in Nat
    BY <2>1 DEF Entry
  <2>3. e.pts > pts[u] /\ pts[u] <= pts'[u]
    BY <1>1, <2>1, <2>2
  <2>4. /\ DOMAIN updates'[u] = DOMAIN updates[u] \cup {Len(updates[u]) + 1}
        /\ updates'[u][Len(updates[u]) + 1] = e
        /\ \A n \in DOMAIN updates[u] : updates'[u][n] = updates[u][n]
    BY <1>1, <2>1, LogAppend
  <2> QED BY <2>3, <2>4 DEF logKept
<1> QED BY <1>2, <1>3

\* One more entry covers what it says.
LEMMA InboxAppend ==
    ASSUME NEW log \in Seq(Entry), NEW e \in Entry, NEW p, NEW i
    PROVE  inboxIn(Append(log, e), p, i)
             <=> inboxIn(log, p, i) \/ (e.type = "readinbox" /\ e.peer = p /\ e.maxID >= i)
<1> DEFINE L == Append(log, e)
<1>1. /\ DOMAIN L = DOMAIN log \cup {Len(log) + 1} /\ L[Len(log) + 1] = e
      /\ \A k \in DOMAIN log : L[k] = log[k]
  BY LogAppend
<1> HIDE DEF L
<1>2. inboxIn(L, p, i)
        <=> inboxIn(log, p, i) \/ (e.type = "readinbox" /\ e.peer = p /\ e.maxID >= i)
  BY <1>1 DEF inboxIn
<1> QED BY <1>2 DEF L

\* Entries that end by the account's pts, and reads up to ids given out, after one more.
LEMMA EntriesBounded ==
    ASSUME Tables, Tables', NEW u \in User, inboxOK(u), lastMessageID[u] <= lastMessageID'[u],
           silent(u) \/ \E e : logged(u, e)
                /\ (e.type = "readinbox" => e.maxID <= lastMessageID[u])
    PROVE  \A k \in DOMAIN updates'[u] :
              /\ updates'[u][k].pts <= pts'[u]
              /\ updates'[u][k].type = "readinbox" => updates'[u][k].maxID <= lastMessageID'[u]
<1>1. /\ lastMessageID[u] \in Nat /\ lastMessageID'[u] \in Nat /\ pts[u] \in Nat /\ pts'[u] \in Nat
      /\ updates[u] \in Seq(Entry)
  BY DEF Tables
<1>2. \A k \in DOMAIN updates[u] : updates[u][k].pts \in Nat /\ updates[u][k].maxID \in Nat
  BY AccountTypes
<1>3. CASE silent(u)
  <2>1. updates'[u] = updates[u] /\ pts'[u] = pts[u]
    BY <1>3 DEF silent
  <2>2. ASSUME NEW k \in DOMAIN updates[u]
        PROVE  /\ updates[u][k].pts <= pts[u]
               /\ updates[u][k].type = "readinbox" => updates[u][k].maxID <= lastMessageID'[u]
    BY <1>1, <1>2 DEF inboxOK
  <2> QED BY <2>1, <2>2
<1>4. ASSUME NEW e, logged(u, e), e.type = "readinbox" => e.maxID <= lastMessageID[u],
             NEW k \in DOMAIN updates'[u]
      PROVE  /\ updates'[u][k].pts <= pts'[u]
             /\ updates'[u][k].type = "readinbox" => updates'[u][k].maxID <= lastMessageID'[u]
  <2>1. /\ e \in Entry /\ updates'[u] = Append(updates[u], e)
        /\ e.ptsCount > 0 /\ e.pts = pts[u] + e.ptsCount /\ pts'[u] = e.pts
    BY <1>4 DEF logged
  <2>2. e.ptsCount \in Nat /\ e.pts \in Nat /\ e.maxID \in Nat
    BY <2>1 DEF Entry
  <2>3. /\ DOMAIN updates'[u] = DOMAIN updates[u] \cup {Len(updates[u]) + 1}
        /\ updates'[u][Len(updates[u]) + 1] = e
        /\ \A n \in DOMAIN updates[u] : updates'[u][n] = updates[u][n]
    BY <1>1, <2>1, LogAppend
  <2>4. CASE k \in DOMAIN updates[u]
    <3>1. /\ updates[u][k].pts <= pts[u]
          /\ updates[u][k].type = "readinbox" => updates[u][k].maxID <= lastMessageID[u]
      BY <2>4 DEF inboxOK
    <3>2. updates[u][k].pts \in Nat /\ updates[u][k].maxID \in Nat /\ updates'[u][k] = updates[u][k]
      BY <1>2, <2>3, <2>4
    <3>3. pts[u] <= pts'[u]
      BY <1>1, <2>1, <2>2
    <3> QED BY ONLY <1>1, <3>1, <3>2, <3>3, lastMessageID[u] <= lastMessageID'[u]
  <2>5. CASE k = Len(updates[u]) + 1
    <3>1. updates'[u][k] = e
      BY <2>3, <2>5
    <3> QED BY <1>1, <1>4, <2>1, <2>2, <3>1
  <2> QED BY <2>3, <2>4, <2>5
<1> QED BY <1>3, <1>4

\* A step without a read of u's.
LEMMA InboxOther ==
    ASSUME Tables, Tables', NEW u \in User, inboxOK(u), kept(u),
           silent(u) \/ \E e : logged(u, e) /\ e.type # "readinbox",
           \A i \in DOMAIN refs[u] : refs'[u][i].unread = refs[u][i].unread,
           \A i \in DOMAIN refs'[u] \ DOMAIN refs[u] : ~refs'[u][i].out => refs'[u][i].unread
    PROVE  inboxOK(u)'
<1>1. /\ lastMessageID[u] \in Nat /\ updates[u] \in Seq(Entry)
      /\ \A k \in DOMAIN updates[u] : updates[u][k].maxID \in Nat
      /\ DOMAIN refs[u] = 1..lastMessageID[u]
  BY AccountTypes
<1>2. \A k \in DOMAIN updates'[u] :
          /\ updates'[u][k].pts <= pts'[u]
          /\ updates'[u][k].type = "readinbox" => updates'[u][k].maxID <= lastMessageID'[u]
  BY EntriesBounded DEF kept
<1>3. ASSUME NEW p, NEW i
      PROVE  inboxIn(updates'[u], p, i) <=> inboxIn(updates[u], p, i)
  <2>1. CASE silent(u)
    BY <2>1 DEF silent
  <2>2. ASSUME NEW e, logged(u, e), e.type # "readinbox"
        PROVE  inboxIn(updates'[u], p, i) <=> inboxIn(updates[u], p, i)
    <3>1. e \in Entry /\ updates'[u] = Append(updates[u], e)
      BY <2>2 DEF logged
    <3> QED BY <1>1, <2>2, <3>1, InboxAppend
  <2> QED BY <2>1, <2>2
<1>4. ASSUME NEW i \in DOMAIN refs'[u], ~refs'[u][i].out
      PROVE  refs'[u][i].unread <=> ~inboxIn(updates'[u], peerOf(u, i)', i)
  <2>1. CASE i \in DOMAIN refs[u]
    <3>1. /\ ~refs[u][i].out /\ refs'[u][i].unread = refs[u][i].unread
          /\ peerOf(u, i)' = peerOf(u, i)
      BY <1>4, <2>1 DEF kept
    <3>2. refs[u][i].unread <=> ~inboxIn(updates[u], peerOf(u, i), i)
      BY <2>1, <3>1 DEF inboxOK
    <3> QED BY <1>3, <3>1, <3>2
  <2>2. CASE i \notin DOMAIN refs[u]
    <3>1. refs'[u][i].unread /\ i > lastMessageID[u]
      BY <1>4, <2>2 DEF kept
    <3>2. i \in Nat
      BY AccountTypes, <1>4, Tables' DEF Tables
    <3>3. ASSUME NEW k \in DOMAIN updates[u], updates[u][k].type = "readinbox"
          PROVE  ~(updates[u][k].maxID >= i)
      <4>1. updates[u][k].maxID <= lastMessageID[u] /\ updates[u][k].maxID \in Nat
        BY <1>1, <3>3 DEF inboxOK
      <4> QED BY <1>1, <3>1, <3>2, <4>1
    <3>4. ~inboxIn(updates[u], peerOf(u, i)', i)
      BY <3>3 DEF inboxIn
    <3> QED BY <1>3, <3>1, <3>4
  <2> QED BY <2>1, <2>2
<1> QED BY <1>2, <1>4 DEF inboxOK

\* Sending.
LEMMA SendInbox ==
    ASSUME Tables, InboxExact, NEW g \in Nat, NEW m \in Message, SendStep(g, m)
    PROVE  InboxExact'
<1>1. Tables'
  BY SendTables
<1>2. ASSUME NEW u \in User
      PROVE  inboxOK(u)'
  <2>1. kept(u) /\ inboxOK(u)
    BY SendKept DEF InboxExact
  <2>2. \A i \in DOMAIN refs[u] : refs'[u][i].unread = refs[u][i].unread
    <3>1. \A i \in DOMAIN refs[u] : refs'[u][i] = refs[u][i]
      BY SendKeepsRefs
    <3> QED BY <3>1
  <2>3. \A i \in DOMAIN refs'[u] \ DOMAIN refs[u] : ~refs'[u][i].out => refs'[u][i].unread
    <3>1. ASSUME NEW i \in DOMAIN refs'[u] \ DOMAIN refs[u]
          PROVE  u \in {m.from, m.peer} /\ i = lastMessageID[u] + 1
      BY SendKeepsRefs
    <3>2. u \in {m.from, m.peer} =>
              /\ refs'[u][lastMessageID[u] + 1].out = (u = m.from)
              /\ refs'[u][lastMessageID[u] + 1].unread = (u # m.from)
      BY SendAdds
    <3> QED BY <3>1, <3>2
  <2>4. silent(u) \/ \E e : logged(u, e) /\ e.type # "readinbox"
    <3>1. CASE u \in {m.from, m.peer}
      <4>1. logged(u, MessageEntry(pts[u] + 1, "new", g))
        BY <3>1, SendRow
      <4>2. MessageEntry(pts[u] + 1, "new", g).type # "readinbox"
        BY DEF MessageEntry
      <4> QED BY <4>1, <4>2
    <3>2. CASE u \notin {m.from, m.peer}
      BY <3>2, SendOthers
    <3> QED BY <3>1, <3>2
  <2> QED BY <1>1, <2>1, <2>2, <2>3, <2>4, InboxOther
<1> QED BY <1>2 DEF InboxExact

\* A deletion.
LEMMA DeleteInbox ==
    ASSUME Tables, InboxExact, NEW self \in User, NEW ids \in SUBSET DOMAIN refs[self],
           NEW n \in Nat \ {0}, DeleteStep(self, ids, n)
    PROVE  InboxExact'
<1>1. Tables' /\ SameCopies /\ Persist
  BY DeleteSame
<1>2. refs' = refs
  BY DeleteFacts
<1>3. logged(self, DeleteEntry(pts[self] + n, n, ids)) /\ \A u \in User \ {self} : silent(u)
  BY DeleteFacts
<1>4. DeleteEntry(pts[self] + n, n, ids).type # "readinbox"
  BY DEF DeleteEntry
<1>5. ASSUME NEW u \in User
      PROVE  inboxOK(u)'
  <2>1. kept(u) /\ inboxOK(u)
    BY <1>1, SameKept DEF InboxExact
  <2>2. silent(u) \/ \E e : logged(u, e) /\ e.type # "readinbox"
    BY <1>3, <1>4
  <2> QED BY <1>1, <1>2, <2>1, <2>2, InboxOther
<1> QED BY <1>5 DEF InboxExact

\* A read up to an id given out marks what its entry covers.
LEMMA ReadInbox ==
    ASSUME Tables, InboxExact, NEW self \in User, NEW peer \in User, NEW maxID \in Nat,
           maxID <= lastMessageID[self], exactRead(self, peer, maxID)
    PROVE  InboxExact'
<1>1. PICK o \in Nat : o = maxOf(ackedIDs(self, peer, maxID))
  BY ExactReceipt
<1>2. PICK read : read = readIDs(self, peer, maxID)
  OBVIOUS
<1>3. ReadStep(self, peer, maxID, read, o)
  BY <1>1, <1>2 DEF exactRead
<1>4. Tables' /\ SameCopies /\ Persist
  BY <1>3, ReadSame
<1>5. PICK e : e = ReadEntry(pts[self] + 1, "readinbox", peer, maxID)
  OBVIOUS
<1>6. /\ \A u \in User \ {self} : refs'[u] = refs[u]
      /\ DOMAIN refs'[self] = DOMAIN refs[self]
      /\ \A i \in DOMAIN refs[self] :
            /\ refs'[self][i].out = refs[self][i].out
            /\ refs'[self][i].unread = (refs[self][i].unread /\ i \notin read)
      /\ logged(self, e)
  BY <1>3, <1>5, ReadFacts
<1>7. /\ peer # self => silent(peer)
                        \/ logged(peer, ReadEntry(pts[peer] + 1, "readoutbox", self, o))
      /\ \A u \in User \ {self, peer} : silent(u)
  BY <1>3, ReadFacts
<1>8. /\ e.type = "readinbox" /\ e.peer = peer /\ e.maxID = maxID
      /\ ReadEntry(pts[peer] + 1, "readoutbox", self, o).type # "readinbox"
  BY <1>5 DEF ReadEntry
<1>9. ASSUME NEW u \in User, u # self
      PROVE  inboxOK(u)'
  <2>1. kept(u) /\ inboxOK(u)
    BY <1>4, SameKept DEF InboxExact
  <2>2. silent(u) \/ \E x : logged(u, x) /\ x.type # "readinbox"
    BY <1>7, <1>8, <1>9
  <2> QED BY <1>4, <1>6, <1>9, <2>1, <2>2, InboxOther
<1>10. inboxOK(self)'
  <2>1. kept(self) /\ inboxOK(self)
    BY <1>4, SameKept DEF InboxExact
  <2>2. \A k \in DOMAIN updates'[self] :
            /\ updates'[self][k].pts <= pts'[self]
            /\ updates'[self][k].type = "readinbox" =>
                  updates'[self][k].maxID <= lastMessageID'[self]
    BY <1>4, <1>6, <1>8, <2>1, EntriesBounded DEF kept
  <2>3. e \in Entry /\ updates'[self] = Append(updates[self], e) /\ updates[self] \in Seq(Entry)
    BY <1>6 DEF logged, Tables
  <2>4. ASSUME NEW i \in DOMAIN refs'[self], ~refs'[self][i].out
        PROVE  refs'[self][i].unread <=> ~inboxIn(updates'[self], peerOf(self, i)', i)
    <3>1. /\ i \in DOMAIN refs[self] /\ ~refs[self][i].out /\ peerOf(self, i)' = peerOf(self, i)
          /\ refs'[self][i].unread = (refs[self][i].unread /\ i \notin read)
      BY <1>6, <2>1, <2>4 DEF kept
    <3>2. refs[self][i].unread <=> ~inboxIn(updates[self], peerOf(self, i), i)
      BY <2>1, <3>1 DEF inboxOK
    <3>3. i \in read <=> i <= maxID /\ peerOf(self, i) = peer
      BY <1>2, <3>1 DEF readIDs, peerOf
    <3>4. inboxIn(updates'[self], peerOf(self, i), i)
             <=> inboxIn(updates[self], peerOf(self, i), i) \/ (peer = peerOf(self, i) /\ maxID >= i)
      BY <1>8, <2>3, InboxAppend
    <3>5. i \in Nat
      BY <3>1, AccountTypes
    <3>6. i <= maxID <=> maxID >= i
      BY <3>5
    <3> QED BY <3>1, <3>2, <3>3, <3>4, <3>6
  <2> QED BY <2>2, <2>4 DEF inboxOK
<1> QED BY <1>9, <1>10 DEF InboxExact

\* Whatever other requests do, the store stays as it is known to be, and what was read of
\* a mailbox is kept.
LEMMA ChangeKeeps ==
    ASSUME Store, Change
    PROVE  Store' /\ \A u \in User : kept(u) /\ logKept(u)
<1>1. Inv /\ StoreInv /\ ReadsInv /\ InboxExact /\ Tables
  BY DEF Store, StoreInv
<1>2. ASSUME ExactStep, Inv', InboxExact', LogsMove,
             (SameCopies /\ Persist) \/ \E g \in Nat, m \in Message : SendStep(g, m)
      PROVE  Store' /\ \A u \in User : kept(u) /\ logKept(u)
  <2>1. StoreInv' /\ ReadsInv'
    BY <1>1, <1>2, ExactIsStore, StoreKeeps, ExactKeeps
  <2>2. \A u \in User : kept(u)
    BY <1>1, <1>2, SameKept, SendKept
  <2>3. \A u \in User : logKept(u)
    BY <1>1, <1>2, LogKept DEF LogsMove
  <2> QED BY <1>2, <2>1, <2>2, <2>3 DEF Store
<1>3. ASSUME NEW from \in User, NEW peer \in User, NEW text \in Text, NEW randomID \in RandomID,
             SendMessage(from, peer, text, randomID)
      PROVE  Store' /\ \A u \in User : kept(u) /\ logKept(u)
  <2>1. PICK g \in Nat, m \in Message : SendStep(g, m)
    BY <1>1, <1>3, SendIsStep
  <2>2. Inv' /\ ExactStep /\ InboxExact' /\ LogsMove
    BY <1>1, <1>3, <2>1, SendInv, SendInbox, SendLogs DEF ExactStep
  <2> QED BY <1>2, <2>1, <2>2
<1>4. ASSUME NEW self \in User, NEW i \in visible(self), DeleteMessages(self, <<i>>)
      PROVE  Store' /\ \A u \in User : kept(u) /\ logKept(u)
  <2>1. <<i>> \in [1..1 -> Nat]
    BY <1>1, AccountTypes DEF visible
  <2>2. PICK ids \in SUBSET DOMAIN refs[self], n \in Nat \ {0} : DeleteStep(self, ids, n)
    BY <1>1, <1>4, <2>1, DeleteIsStep
  <2>3. Inv'
    BY <1>1, <1>4, <2>1, DeleteInv
  <2>4. ExactStep /\ InboxExact' /\ LogsMove /\ SameCopies /\ Persist
    BY <1>1, <2>2, DeleteInbox, DeleteLogs, DeleteSame DEF ExactStep
  <2> QED BY <1>2, <2>3, <2>4
<1>5. ASSUME NEW self \in User, NEW peer \in User, NEW i \in GetHistory(self, peer, 0),
             ReadHistory(self, peer, i)
      PROVE  Store' /\ \A u \in User : kept(u) /\ logKept(u)
  <2>1. i \in Nat /\ i <= lastMessageID[self]
    BY <1>1, AccountTypes DEF GetHistory, visible
  <2>2. exactRead(self, peer, i)
    BY <1>5, ReadIsStep DEF exactRead
  <2>3. ExactStep /\ Inv' /\ InboxExact'
    BY <1>1, <1>5, <2>1, <2>2, ReadInv, ReadInbox DEF ExactStep
  <2>4. PICK o \in Nat : ReadStep(self, peer, i, readIDs(self, peer, i), o)
    BY <1>1, <2>2, ExactReceipt DEF exactRead
  <2>5. LogsMove /\ SameCopies /\ Persist
    BY <1>1, <2>1, <2>4, ReadLogs, ReadSame
  <2> QED BY <1>2, <2>3, <2>5
<1> QED BY <1>3, <1>4, <1>5 DEF Change

-----------------------------------------------------------------------------
(* The invariant of the requests *)

Dialog == [peer : User, top : Nat, unreadCount : Nat, readInboxMaxID : Nat, readOutboxMaxID : Nat]

Req == [method : {"none", "history", "dialogs", "peerDialogs"},
        pc : {"done", "page", "dialogs", "drafts", "state", "top"},
        self : User \cup {NoUser}, peers : Seq(User), knew : Nat, held : Nat,
        cut : BOOLEAN, read : Seq(Dialog), drafts : SUBSET User, dialogs : Seq(Dialog), messages : Seq(Nat),
        offsetID : Nat, turn : Nat, state : Nat]

\* What the client knew is so, and a request's step is one of its method.
requestOK(r) ==
    /\ r \in Req /\ IsFiniteSet(r.drafts)
    /\ r.method # "none" =>
          r.self \in User /\ r.held <= lastMessageID[r.self] /\ r.knew <= pts[r.self]
    /\ r.method = "none" => r.pc = "done"
    /\ r.method = "history" => r.pc \in {"page", "done"} /\ Len(r.peers) = 1
    /\ r.pc = "page" => r.method = "history"
    /\ r.pc = "state" => r.method = "peerDialogs"

\* The pages so far fall from one message to the next, and what they lack of the messages
\* the client asked for is below them.
historyOK(r) ==
    r.method = "history" =>
        /\ \A k, l \in DOMAIN r.messages : k < l => r.messages[l] < r.messages[k]
        /\ \A k \in DOMAIN r.messages : /\ r.messages[k] \in DOMAIN refs[r.self]
                                        /\ peerOf(r.self, r.messages[k]) = r.peers[1]
        /\ r.offsetID = IF r.messages = <<>> THEN 0 ELSE Last(r.messages)
        /\ \A i \in GetHistory(r.self, r.peers[1], 0) : i <= r.held =>
              \/ \E k \in DOMAIN r.messages : r.messages[k] = i
              \/ r.pc = "page" /\ (r.offsetID > 0 => i < r.offsetID)

\* No conversation is listed twice.
distinct(ds) == \A k, l \in DOMAIN ds : ds[k].peer = ds[l].peer => k = l

\* A conversation with a message the client asked for is listed, or behind enough others.
listed(u, held, ds) ==
    \A i \in visible(u) : i <= held =>
        \/ \E k \in DOMAIN ds : ds[k].peer = peerOf(u, i)
        \/ Cardinality({k \in DOMAIN ds : ds[k].top > i}) >= DialogsLimit

\* The newest messages are ids given out.
bounded(u, ds) == \A k \in DOMAIN ds : ds[k].top <= lastMessageID[u]

\* With the dialog d comes a message at least as new as those the client asked for and as
\* the newest d tells of, if they are still there.
shown(u, held, d, msgs) ==
    \A i \in GetHistory(u, d.peer, 0) : i <= held \/ i <= d.top =>
        \E k \in DOMAIN msgs : msgs[k] >= i /\ peerOf(u, msgs[k]) = d.peer

\* Every message belongs to a dialog.
owned(u, ds, msgs) ==
    \A k \in DOMAIN msgs : /\ msgs[k] \in DOMAIN refs[u]
                           /\ \E l \in DOMAIN ds : ds[l].peer = peerOf(u, msgs[k])

\* The incoming messages of u with peer that the client asked for and that are there.
inboxOf(u, peer, held) == {i \in GetHistory(u, peer, 0) : i <= held /\ ~refs[u][i].out}

\* The dialog d agrees with u's log: its ticks are in the log, and all that the client knew
\* of; what it counts as unread is a set U of messages the client did not know to be read,
\* with all that still are unread.
agrees(u, held, knew, d) ==
    d.peer # u =>
        /\ d.readOutboxMaxID # 0 =>
              covered(u, "readoutbox", d.peer, d.readOutboxMaxID, pts[u])
        /\ \A i \in GetHistory(u, d.peer, 0) :
              (i <= held /\ refs[u][i].out /\ covered(u, "readoutbox", d.peer, i, knew))
                  => i <= d.readOutboxMaxID
        /\ \E U \in SUBSET DOMAIN refs[u] :
              /\ d.unreadCount = Cardinality(U)
              /\ \A i \in inboxOf(u, d.peer, held) : refs[u][i].unread => i \in U
              /\ \A i \in U : /\ ~refs[u][i].out /\ peerOf(u, i) = d.peer
                              /\ ~covered(u, "readinbox", d.peer, i, knew)
        /\ \A i \in inboxOf(u, d.peer, held) : i <= d.readInboxMaxID => ~refs[u][i].unread

\* Every conversation with a message the client asked for is listed.
complete(u, held, ds) ==
    \A i \in visible(u) : i <= held => \E k \in DOMAIN ds : ds[k].peer = peerOf(u, i)

\* The dialogs of an answer: those read, or zeroes for a peer that was not among them.
fromRead(r) ==
    /\ r.method = "dialogs" => r.dialogs = r.read
    /\ \A k \in DOMAIN r.dialogs :
          \/ \E l \in DOMAIN r.read : r.dialogs[k] = r.read[l]
          \/ \E p \in User : /\ r.dialogs[k] = NoMessages(p)
                             /\ \A l \in DOMAIN r.read : r.read[l].peer # p

\* What getDialogs and getPeerDialogs have read so far, and their answer.
readOK(r) ==
    /\ distinct(r.read) /\ listed(r.self, r.held, r.read) /\ bounded(r.self, r.read)
    /\ ~r.cut => complete(r.self, r.held, r.read)
    /\ \A k \in DOMAIN r.read : agrees(r.self, r.held, r.knew, r.read[k])

topOK(r) ==
    /\ r.turn <= Len(r.dialogs) /\ owned(r.self, r.dialogs, r.messages)
    /\ \A n \in 1..r.turn : shown(r.self, r.held, r.dialogs[n], r.messages)

wholeOK(r) ==
    /\ bounded(r.self, r.dialogs) /\ owned(r.self, r.dialogs, r.messages)
    /\ r.method = "dialogs" => distinct(r.dialogs) /\ listed(r.self, r.held, r.dialogs)
    /\ \A k \in DOMAIN r.dialogs : (r.dialogs[k].top # 0 \/ r.method = "peerDialogs") =>
          shown(r.self, r.held, r.dialogs[k], r.messages)
    /\ \A k \in DOMAIN r.dialogs : (r.dialogs[k].top # 0 \/ ~r.cut) =>
          agrees(r.self, r.held, r.knew, r.dialogs[k])

dialogsOK(r) ==
    r.method \in {"dialogs", "peerDialogs"} =>
        /\ r.pc \in {"drafts", "state", "top"} => readOK(r)
        /\ r.pc \in {"dialogs", "drafts", "state"} => r.messages = <<>> /\ r.turn = 0
        /\ r.pc \in {"state", "top"} => fromRead(r)
        /\ r.pc = "top" => topOK(r)
        /\ r.pc = "done" => wholeOK(r)

DraftsOK ==
    /\ drafts = [u \in User |-> drafts[u]]
    /\ \A u \in User : drafts[u] \subseteq User /\ IsFiniteSet(drafts[u])

MailInv == Store /\ DraftsOK /\ requestOK(request) /\ historyOK(request) /\ dialogsOK(request)

-----------------------------------------------------------------------------
(* What was read stays true while the store changes *)

\* A conversation is what is visible of it.
LEMMA InHistory ==
    ASSUME NEW u, NEW p, NEW i
    PROVE  i \in GetHistory(u, p, 0) <=> i \in visible(u) /\ peerOf(u, i) = p
<1>1. ~(0 > 0)
  OBVIOUS
<1> QED BY <1>1 DEF GetHistory, peerOf

\* The same after a step.
LEMMA InHistoryNext ==
    ASSUME NEW u, NEW p, NEW i
    PROVE  i \in GetHistory(u, p, 0)' <=> i \in visible(u)' /\ peerOf(u, i)' = p
<1>1. ~(0 > 0)
  OBVIOUS
<1> QED BY <1>1 DEF GetHistory, peerOf

\* A message up to an id given out that is there now was there before.
LEMMA HistoryKept ==
    ASSUME Store, Store', NEW u \in User, kept(u), NEW i \in visible(u)', i <= lastMessageID[u]
    PROVE  /\ i \in visible(u) /\ i \in DOMAIN refs[u] /\ peerOf(u, i)' = peerOf(u, i)
           /\ \A p : i \in GetHistory(u, p, 0)' => i \in GetHistory(u, p, 0)
<1>1. lastMessageID[u] \in Nat
  BY AccountTypes DEF Store, StoreInv
<1>2. i \in DOMAIN refs'[u] /\ i \in Nat
  BY AccountTypes DEF Store, StoreInv, visible, Tables
<1>3. i \in DOMAIN refs[u]
  BY <1>1, <1>2 DEF kept
<1>4. i \in visible(u) /\ peerOf(u, i)' = peerOf(u, i)
  BY <1>3 DEF kept
<1>5. ASSUME NEW p, i \in GetHistory(u, p, 0)'
      PROVE  i \in GetHistory(u, p, 0)
  <2>1. peerOf(u, i)' = p
    BY <1>5, InHistoryNext
  <2> QED BY <1>4, <2>1, InHistory
<1> QED BY <1>3, <1>4, <1>5

\* The log up to a pts of the account is as it was; what it covers, it still does.
LEMMA CoveredKept ==
    ASSUME Store, NEW u \in User, logKept(u), Store', NEW type, NEW p, NEW i, NEW t \in Nat,
           t <= pts[u]
    PROVE  /\ covered(u, type, p, i, t)' <=> covered(u, type, p, i, t)
           /\ covered(u, type, p, i, pts[u]) => covered(u, type, p, i, pts[u])'
<1>1. /\ pts[u] \in Nat /\ pts'[u] \in Nat
      /\ \A k \in DOMAIN updates[u] : updates[u][k].pts \in Nat
  BY AccountTypes DEF Store, StoreInv, Tables
<1>2. \A k \in DOMAIN updates'[u] : updates'[u][k].pts \in Nat
  <2>1. updates' \in [User -> Seq(Entry)]
    BY DEF Store, StoreInv, Tables
  <2>2. \A k \in DOMAIN updates'[u] : updates'[u][k] \in Entry
    BY <2>1
  <2> QED BY <2>2 DEF Entry
<1>3. \A k \in DOMAIN updates[u] : k \in DOMAIN updates'[u] /\ updates'[u][k] = updates[u][k]
  BY DEF logKept
<1>4. ASSUME NEW k \in DOMAIN updates'[u], updates'[u][k].pts <= t
      PROVE  k \in DOMAIN updates[u]
  <2>1. k \notin DOMAIN updates[u] => updates'[u][k].pts > pts[u]
    BY DEF logKept
  <2>2. updates'[u][k].pts \in Nat
    BY <1>2
  <2> QED BY <1>1, <1>4, <2>1, <2>2
<1>5. covered(u, type, p, i, t)' <=> covered(u, type, p, i, t)
  BY <1>3, <1>4 DEF covered
<1>6. ASSUME NEW k \in DOMAIN updates[u], updates[u][k].pts <= pts[u]
      PROVE  updates'[u][k].pts <= pts'[u]
  BY <1>1, <1>3, <1>6 DEF logKept
<1>7. covered(u, type, p, i, pts[u]) => covered(u, type, p, i, pts[u])'
  BY <1>3, <1>6 DEF covered
<1> QED BY <1>5, <1>7

\* Pages already fetched.
LEMMA HistoryStays ==
    ASSUME Store, Store', NEW r, requestOK(r), historyOK(r), \A u \in User : kept(u)
    PROVE  historyOK(r)'
<1> SUFFICES ASSUME r.method = "history"
             PROVE  historyOK(r)'
  BY DEF historyOK
<1>1. r.self \in User /\ r.held <= lastMessageID[r.self] /\ r.held \in Nat
  BY DEF requestOK, Req
<1>2. PICK u \in User : u = r.self
  BY <1>1
<1>3. kept(u) /\ lastMessageID[u] \in Nat
  BY AccountTypes DEF Store, StoreInv
<1>4. ASSUME NEW k \in DOMAIN r.messages
      PROVE  r.messages[k] \in DOMAIN refs'[u] /\ peerOf(u, r.messages[k])' = r.peers[1]
  BY <1>2, <1>3 DEF historyOK, kept
<1>5. ASSUME NEW i \in GetHistory(u, r.peers[1], 0)', i <= r.held
      PROVE  i \in GetHistory(u, r.peers[1], 0)
  <2>1. i \in visible(u)' /\ i \in Nat
    BY <1>5, AccountTypes DEF GetHistory, visible, Store, StoreInv, Tables
  <2>2. i <= lastMessageID[u]
    BY <1>1, <1>2, <1>3, <1>5, <2>1
  <2> QED BY <1>3, <1>5, <2>1, <2>2, HistoryKept
<1> QED BY <1>2, <1>4, <1>5 DEF historyOK

\* What of u's mailbox a client asked for and is there now, was there before.
LEMMA AskedKept ==
    ASSUME Store, Store', NEW u \in User, kept(u), NEW h \in Nat, h <= lastMessageID[u],
           NEW i \in visible(u)', i <= h
    PROVE  /\ i \in visible(u) /\ i \in DOMAIN refs[u] /\ peerOf(u, i)' = peerOf(u, i)
           /\ \A p : i \in GetHistory(u, p, 0)' => i \in GetHistory(u, p, 0)
<1>1. lastMessageID[u] \in Nat /\ i \in Nat
  BY AccountTypes DEF Store, StoreInv, visible, Tables
<1>2. i <= lastMessageID[u]
  BY <1>1
<1> QED BY <1>2, HistoryKept

\* A list of dialogs is as complete as it was.
LEMMA ListedStays ==
    ASSUME Store, Store', NEW u \in User, kept(u), NEW held \in Nat, held <= lastMessageID[u],
           NEW ds, listed(u, held, ds)
    PROVE  listed(u, held, ds)'
<1> SUFFICES ASSUME NEW i \in visible(u)', i <= held
             PROVE  \/ \E k \in DOMAIN ds : ds[k].peer = peerOf(u, i)'
                    \/ Cardinality({k \in DOMAIN ds : ds[k].top > i}) >= DialogsLimit
  BY DEF listed
<1>1. i \in visible(u) /\ peerOf(u, i)' = peerOf(u, i)
  BY AskedKept
<1> QED BY <1>1 DEF listed

\* And still lacks nothing if it lacked nothing.
LEMMA CompleteStays ==
    ASSUME Store, Store', NEW u \in User, kept(u), NEW held \in Nat, held <= lastMessageID[u],
           NEW ds, complete(u, held, ds)
    PROVE  complete(u, held, ds)'
<1> SUFFICES ASSUME NEW i \in visible(u)', i <= held
             PROVE  \E k \in DOMAIN ds : ds[k].peer = peerOf(u, i)'
  BY DEF complete
<1>1. i \in visible(u) /\ peerOf(u, i)' = peerOf(u, i)
  BY AskedKept
<1> QED BY <1>1 DEF complete

\* Its newest messages are still ids given out.
LEMMA BoundedStays ==
    ASSUME Store, Store', NEW u \in User, kept(u), NEW ds \in Seq(Dialog), bounded(u, ds)
    PROVE  bounded(u, ds)'
<1>1. lastMessageID[u] \in Nat /\ lastMessageID'[u] \in Nat /\ lastMessageID[u] <= lastMessageID'[u]
  BY DEF Store, StoreInv, Tables, kept
<1>2. \A k \in DOMAIN ds : ds[k].top \in Nat
  <2>1. \A k \in DOMAIN ds : ds[k] \in Dialog
    OBVIOUS
  <2> QED BY <2>1 DEF Dialog
<1> QED BY <1>1, <1>2 DEF bounded

\* A message of an answer stays in its conversation.
LEMMA OwnedStays ==
    ASSUME NEW u, kept(u), NEW ds, NEW msgs, owned(u, ds, msgs)
    PROVE  owned(u, ds, msgs)'
<1> SUFFICES ASSUME NEW k \in DOMAIN msgs
             PROVE  /\ msgs[k] \in DOMAIN refs'[u]
                    /\ \E l \in DOMAIN ds : ds[l].peer = peerOf(u, msgs[k])'
  BY DEF owned
<1>1. msgs[k] \in DOMAIN refs[u] /\ \E l \in DOMAIN ds : ds[l].peer = peerOf(u, msgs[k])
  BY DEF owned
<1>2. msgs[k] \in DOMAIN refs'[u] /\ peerOf(u, msgs[k])' = peerOf(u, msgs[k])
  BY <1>1 DEF kept
<1> QED BY <1>1, <1>2

\* And as new as those asked for that are left.
LEMMA ShownStays ==
    ASSUME Store, Store', NEW u \in User, kept(u), NEW held \in Nat, held <= lastMessageID[u],
           NEW d \in Dialog, d.top <= lastMessageID[u], NEW ds, NEW msgs, owned(u, ds, msgs),
           shown(u, held, d, msgs)
    PROVE  shown(u, held, d, msgs)'
<1> SUFFICES ASSUME NEW i \in GetHistory(u, d.peer, 0)', i <= held \/ i <= d.top
             PROVE  \E k \in DOMAIN msgs : msgs[k] >= i /\ peerOf(u, msgs[k])' = d.peer
  BY DEF shown
<1>1. i \in visible(u)' /\ d.top \in Nat
  BY InHistoryNext DEF Dialog
<1>2. i \in GetHistory(u, d.peer, 0)
  BY <1>1, AskedKept
<1>3. PICK k \in DOMAIN msgs : msgs[k] >= i /\ peerOf(u, msgs[k]) = d.peer
  BY <1>2 DEF shown
<1>4. msgs[k] \in DOMAIN refs[u]
  BY DEF owned
<1> QED BY <1>3, <1>4 DEF kept

\* The read state of a dialog: what is added to the log or deleted takes nothing away.
LEMMA AgreesStays ==
    ASSUME Store, Store', NEW u \in User, kept(u), logKept(u), NEW held \in Nat,
           held <= lastMessageID[u], NEW knew \in Nat, knew <= pts[u], NEW d,
           agrees(u, held, knew, d)
    PROVE  agrees(u, held, knew, d)'
<1> SUFFICES ASSUME d.peer # u
             PROVE  agrees(u, held, knew, d)'
  BY DEF agrees
<1> DEFINE out == d.readOutboxMaxID
<1>1. ASSUME NEW i \in GetHistory(u, d.peer, 0)', i <= held
      PROVE  /\ i \in GetHistory(u, d.peer, 0) /\ i \in DOMAIN refs[u]
             /\ refs'[u][i].out = refs[u][i].out /\ (refs'[u][i].unread => refs[u][i].unread)
  <2>1. i \in visible(u)'
    BY InHistoryNext
  <2>2. i \in GetHistory(u, d.peer, 0) /\ i \in DOMAIN refs[u]
    BY <1>1, <2>1, AskedKept
  <2> QED BY <2>2 DEF kept
<1>2. ASSUME NEW i \in inboxOf(u, d.peer, held)'
      PROVE  i \in inboxOf(u, d.peer, held) /\ (refs'[u][i].unread => refs[u][i].unread)
  BY <1>1, <1>2 DEF inboxOf
<1>3. out # 0 => covered(u, "readoutbox", d.peer, out, pts[u])'
  <2>1. out # 0 => covered(u, "readoutbox", d.peer, out, pts[u])
    BY DEF agrees
  <2> HIDE DEF out
  <2> QED BY <2>1, CoveredKept
<1>4. ASSUME NEW i \in GetHistory(u, d.peer, 0)', i <= held, refs'[u][i].out,
             covered(u, "readoutbox", d.peer, i, knew)'
      PROVE  i <= out
  <2>1. covered(u, "readoutbox", d.peer, i, knew)
    BY <1>4, CoveredKept
  <2> QED BY <1>1, <1>4, <2>1 DEF agrees
<1>5. PICK U \in SUBSET DOMAIN refs[u] :
          /\ d.unreadCount = Cardinality(U)
          /\ \A i \in inboxOf(u, d.peer, held) : refs[u][i].unread => i \in U
          /\ \A i \in U : /\ ~refs[u][i].out /\ peerOf(u, i) = d.peer
                          /\ ~covered(u, "readinbox", d.peer, i, knew)
  BY DEF agrees
<1>6. ASSUME NEW i \in U
      PROVE  /\ i \in DOMAIN refs'[u] /\ ~refs'[u][i].out /\ peerOf(u, i)' = d.peer
             /\ ~covered(u, "readinbox", d.peer, i, knew)'
  <2>1. ~covered(u, "readinbox", d.peer, i, knew)'
    BY <1>5, CoveredKept
  <2> QED BY <1>5, <2>1 DEF kept
<1>7. \E V \in SUBSET DOMAIN refs'[u] :
          /\ d.unreadCount = Cardinality(V)
          /\ \A i \in inboxOf(u, d.peer, held)' : refs'[u][i].unread => i \in V
          /\ \A i \in V : /\ ~refs'[u][i].out /\ peerOf(u, i)' = d.peer
                          /\ ~covered(u, "readinbox", d.peer, i, knew)'
  <2>1. U \in SUBSET DOMAIN refs'[u]
    BY <1>6
  <2>2. \A i \in inboxOf(u, d.peer, held)' : refs'[u][i].unread => i \in U
    BY <1>2, <1>5
  <2> QED BY <1>5, <1>6, <2>1, <2>2
<1>8. ASSUME NEW i \in inboxOf(u, d.peer, held)', i <= d.readInboxMaxID
      PROVE  ~refs'[u][i].unread
  BY <1>2, <1>8 DEF agrees
<1> QED BY <1>3, <1>4, <1>7, <1>8 DEF agrees

\* The dialogs of an answer in the making tell of ids given out.
LEMMA ReadBound ==
    ASSUME Store, NEW r, r.self \in User, readOK(r), fromRead(r), NEW k \in DOMAIN r.dialogs
    PROVE  r.dialogs[k].top <= lastMessageID[r.self]
<1>1. lastMessageID[r.self] \in Nat
  BY DEF Store, StoreInv, Tables
<1>2. ASSUME NEW p \in User, r.dialogs[k] = NoMessages(p)
      PROVE  r.dialogs[k].top <= lastMessageID[r.self]
  BY <1>1, <1>2 DEF NoMessages
<1>3. ASSUME NEW l \in DOMAIN r.read, r.dialogs[k] = r.read[l]
      PROVE  r.dialogs[k].top <= lastMessageID[r.self]
  BY <1>3 DEF readOK, bounded
<1> QED BY <1>2, <1>3 DEF fromRead

\* A request between two calls, whatever others do to the store.
LEMMA RequestStays ==
    ASSUME Store, Store', \A u \in User : kept(u) /\ logKept(u),
           NEW r, requestOK(r), historyOK(r), dialogsOK(r)
    PROVE  requestOK(r)' /\ historyOK(r)' /\ dialogsOK(r)'
<1>1. requestOK(r)'
  <2>1. ASSUME r.method # "none"
        PROVE  r.held <= lastMessageID'[r.self] /\ r.knew <= pts'[r.self]
    <3>1. PICK u \in User : u = r.self
      BY <2>1 DEF requestOK
    <3>2. /\ r.held <= lastMessageID[u] /\ r.knew <= pts[u]
          /\ lastMessageID[u] <= lastMessageID'[u] /\ pts[u] <= pts'[u]
      BY <2>1, <3>1 DEF requestOK, kept, logKept
    <3>3. /\ r.held \in Nat /\ r.knew \in Nat /\ lastMessageID[u] \in Nat /\ pts[u] \in Nat
          /\ lastMessageID'[u] \in Nat /\ pts'[u] \in Nat
      BY DEF requestOK, Req, Store, StoreInv, Tables
    <3> QED BY <3>1, <3>2, <3>3
  <2> QED BY <2>1 DEF requestOK
<1>2. historyOK(r)'
  BY HistoryStays
<1>3. dialogsOK(r)'
  <2> SUFFICES ASSUME r.method \in {"dialogs", "peerDialogs"}
               PROVE  dialogsOK(r)'
    BY DEF dialogsOK
  <2>1. /\ r.self \in User /\ r.held \in Nat /\ r.knew \in Nat
        /\ r.read \in Seq(Dialog) /\ r.dialogs \in Seq(Dialog)
        /\ r.held <= lastMessageID[r.self] /\ r.knew <= pts[r.self]
    BY DEF requestOK, Req
  <2>2. kept(r.self) /\ logKept(r.self)
    BY <2>1
  <2>3. ASSUME readOK(r)
        PROVE  readOK(r)'
    <3>1. listed(r.self, r.held, r.read)' /\ bounded(r.self, r.read)'
      BY <2>1, <2>2, <2>3, ListedStays, BoundedStays DEF readOK
    <3>3. ~r.cut => complete(r.self, r.held, r.read)'
      BY <2>1, <2>2, <2>3, CompleteStays DEF readOK
    <3>2. \A k \in DOMAIN r.read : agrees(r.self, r.held, r.knew, r.read[k])'
      BY <2>1, <2>2, <2>3, AgreesStays DEF readOK
    <3> QED BY <2>3, <3>1, <3>2, <3>3 DEF readOK
  <2>4. ASSUME owned(r.self, r.dialogs, r.messages), NEW k \in DOMAIN r.dialogs,
               r.dialogs[k].top <= lastMessageID[r.self],
               shown(r.self, r.held, r.dialogs[k], r.messages)
        PROVE  shown(r.self, r.held, r.dialogs[k], r.messages)'
    <3>1. r.dialogs[k] \in Dialog
      BY <2>1
    <3> QED BY <2>1, <2>2, <2>4, <3>1, ShownStays
  <2>5. ASSUME topOK(r), readOK(r), fromRead(r)
        PROVE  topOK(r)'
    <3>1. owned(r.self, r.dialogs, r.messages)'
      BY <2>1, <2>2, <2>5, OwnedStays DEF topOK
    <3>2. ASSUME NEW n \in 1..r.turn
          PROVE  shown(r.self, r.held, r.dialogs[n], r.messages)'
      <4>1. n \in DOMAIN r.dialogs
        BY <2>1, <2>5 DEF topOK, requestOK, Req
      <4>2. r.dialogs[n].top <= lastMessageID[r.self]
        BY <2>1, <2>5, <4>1, ReadBound
      <4> QED BY <2>4, <2>5, <4>1, <4>2 DEF topOK
    <3> QED BY <2>5, <3>1, <3>2 DEF topOK
  <2>6. ASSUME wholeOK(r)
        PROVE  wholeOK(r)'
    <3>1. bounded(r.self, r.dialogs)' /\ owned(r.self, r.dialogs, r.messages)'
      BY <2>1, <2>2, <2>6, OwnedStays, BoundedStays DEF wholeOK
    <3>2. r.method = "dialogs" => distinct(r.dialogs) /\ listed(r.self, r.held, r.dialogs)'
      BY <2>1, <2>2, <2>6, ListedStays DEF wholeOK
    <3>3. ASSUME NEW k \in DOMAIN r.dialogs, r.dialogs[k].top # 0 \/ r.method = "peerDialogs"
          PROVE  shown(r.self, r.held, r.dialogs[k], r.messages)'
      BY <2>4, <2>6, <3>3 DEF wholeOK, bounded
    <3>4. ASSUME NEW k \in DOMAIN r.dialogs, r.dialogs[k].top # 0 \/ ~r.cut
          PROVE  agrees(r.self, r.held, r.knew, r.dialogs[k])'
      BY <2>1, <2>2, <2>6, <3>4, AgreesStays DEF wholeOK
    <3> QED BY <3>1, <3>2, <3>3, <3>4 DEF wholeOK
  <2> QED BY <2>3, <2>5, <2>6 DEF dialogsOK, fromRead
<1> QED BY <1>1, <1>2, <1>3

-----------------------------------------------------------------------------
(* Requests *)

\* A call that leaves the store keeps what is said of it and of a request.
LEMMA StoreStutters ==
    ASSUME Store, UNCHANGED storeVars
    PROVE  /\ Store'
           /\ \A r : /\ requestOK(r) => requestOK(r)'
                     /\ historyOK(r) => historyOK(r)'
                     /\ dialogsOK(r) => dialogsOK(r)'
<1>1. /\ messages' = messages /\ lastMessageID' = lastMessageID /\ pts' = pts
      /\ refs' = refs /\ updates' = updates
  BY DEF storeVars
<1>2. Inv' /\ StoreInv' /\ ReadsInv'
  BY <1>1, StutterKeeps DEF Store, Inv, TypeOK, RefsDense
<1>3. InboxExact'
  BY <1>1 DEF Store, InboxExact, inboxOK, peerOf
<1>4. ASSUME NEW r
      PROVE  (requestOK(r) => requestOK(r)') /\ (historyOK(r) => historyOK(r)')
  BY <1>1 DEF requestOK, historyOK, GetHistory, visible, peerOf
<1>5. ASSUME NEW r, dialogsOK(r)
      PROVE  dialogsOK(r)'
  <2>1. ASSUME NEW u, NEW h, NEW k, NEW d, NEW ds, NEW msgs
        PROVE  /\ listed(u, h, ds) => listed(u, h, ds)'
               /\ complete(u, h, ds) => complete(u, h, ds)'
               /\ bounded(u, ds) => bounded(u, ds)'
               /\ owned(u, ds, msgs) => owned(u, ds, msgs)'
               /\ shown(u, h, d, msgs) => shown(u, h, d, msgs)'
               /\ agrees(u, h, k, d) => agrees(u, h, k, d)'
    BY <1>1 DEF listed, complete, bounded, owned, shown, agrees, GetHistory, visible, peerOf, covered, inboxOf
  <2>2. readOK(r) => readOK(r)'
    BY <2>1 DEF readOK
  <2>3. topOK(r) => topOK(r)'
    BY <2>1 DEF topOK
  <2>4. wholeOK(r) => wholeOK(r)'
    BY <2>1 DEF wholeOK
  <2> QED BY <1>5, <2>2, <2>3, <2>4 DEF dialogsOK, fromRead
<1> QED BY <1>2, <1>3, <1>4, <1>5 DEF Store

\* A request that goes on reads and leaves store and drafts.
LEMMA ReplyKeeps ==
    ASSUME Store, DraftsOK, NEW r, request' = r, UNCHANGED <<storeVars, drafts>>,
           requestOK(r), historyOK(r), dialogsOK(r)
    PROVE  MailInv'
<1>1. Store' /\ requestOK(r)' /\ historyOK(r)' /\ dialogsOK(r)'
  BY StoreStutters
<1>2. DraftsOK'
  BY DEF DraftsOK
<1>3. requestOK(request)' /\ historyOK(request)' /\ dialogsOK(request)'
  BY <1>1
<1> QED BY <1>1, <1>2, <1>3 DEF MailInv

\* A new request has read nothing.
fresh(r) ==
    /\ r \in Req
    /\ r.read = <<>> /\ r.drafts = {} /\ r.dialogs = <<>> /\ r.messages = <<>>
    /\ r.offsetID = 0 /\ r.turn = 0
    /\ \/ r.method = "history" /\ r.pc = "page" /\ Len(r.peers) = 1
       \/ r.method \in {"dialogs", "peerDialogs"} /\ r.pc = "dialogs"

\* Such a request begins: what the client knows is the state of now.
LEMMA BeginKeeps ==
    ASSUME MailInv, NEW self \in User, NEW r, fresh(r), Begin(self, r)
    PROVE  MailInv'
<1>1. Store /\ DraftsOK /\ lastMessageID[self] \in Nat /\ pts[self] \in Nat
  BY DEF MailInv, Store, StoreInv, Tables
<1>2. PICK q : q = [r EXCEPT !.self = self, !.knew = pts[self], !.held = lastMessageID[self]]
  OBVIOUS
<1>3. request' = q /\ UNCHANGED <<storeVars, drafts>>
  BY <1>2 DEF Begin
<1>4. r \in Req
  BY DEF fresh
<1>5. /\ q \in Req /\ q.self = self /\ q.knew = pts[self] /\ q.held = lastMessageID[self]
      /\ q.method = r.method /\ q.pc = r.pc /\ q.peers = r.peers /\ q.read = r.read
      /\ q.drafts = r.drafts /\ q.messages = r.messages /\ q.offsetID = r.offsetID
      /\ q.turn = r.turn
  BY <1>1, <1>2, <1>4 DEF Req
<1>6. requestOK(q)
  BY <1>1, <1>5, FS_EmptySet DEF fresh, requestOK
<1>7. historyOK(q)
  <2>1. DOMAIN q.messages = {} /\ ~(q.offsetID > 0)
    BY <1>5 DEF fresh
  <2> QED BY <1>5, <2>1 DEF fresh, historyOK
<1>8. dialogsOK(q)
  BY <1>5 DEF fresh, dialogsOK
<1> QED BY <1>1, <1>3, <1>6, <1>7, <1>8, ReplyKeeps

\* The three requests begin so.
LEMMA AskKeeps ==
    ASSUME MailInv, NEW self \in Viewer, Ask(self)
    PROVE  MailInv'
<1>1. self \in User /\ Peers \in Nat
  BY MailboxAssumption
<1>2. NoRequest \in Req
  <2>1. <<>> \in Seq(User) /\ <<>> \in Seq(Dialog) /\ <<>> \in Seq(Nat) /\ {} \in SUBSET User
    OBVIOUS
  <2> QED BY <2>1 DEF NoRequest, Req
<1>3. ASSUME NEW m \in {"history", "dialogs", "peerDialogs"}, NEW peers \in Seq(User), NEW pc,
             IF m = "history" THEN pc = "page" /\ Len(peers) = 1 ELSE pc = "dialogs",
             NEW r, r = [NoRequest EXCEPT !.method = m, !.pc = pc, !.peers = peers], Begin(self, r)
      PROVE  MailInv'
  <2>1. pc \in {"page", "dialogs"}
    BY <1>3
  <2>2. /\ r \in Req /\ r.method = m /\ r.pc = pc /\ r.peers = peers
        /\ r.read = NoRequest.read /\ r.drafts = NoRequest.drafts /\ r.turn = NoRequest.turn
        /\ r.dialogs = NoRequest.dialogs /\ r.messages = NoRequest.messages
        /\ r.offsetID = NoRequest.offsetID
    BY <1>2, <1>3, <2>1 DEF Req
  <2>3. /\ NoRequest.read = <<>> /\ NoRequest.drafts = {} /\ NoRequest.dialogs = <<>>
        /\ NoRequest.messages = <<>> /\ NoRequest.offsetID = 0 /\ NoRequest.turn = 0
    BY DEF NoRequest
  <2>4. fresh(r)
    BY <1>3, <2>2, <2>3 DEF fresh
  <2> QED BY <1>1, <1>3, <2>4, BeginKeeps
<1>4. ASSUME NEW peer \in User, OpenHistory(self, peer)
      PROVE  MailInv'
  <2>1. <<peer>> \in Seq(User) /\ Len(<<peer>>) = 1
    OBVIOUS
  <2> QED BY <1>3, <1>4, <2>1 DEF OpenHistory
<1>5. CASE messagesGetDialogs(self)
  <2>1. PICK r : r = [NoRequest EXCEPT !.method = "dialogs", !.pc = "dialogs"]
    OBVIOUS
  <2>2. /\ r \in Req /\ r.method = "dialogs" /\ r.pc = "dialogs"
        /\ r.read = NoRequest.read /\ r.drafts = NoRequest.drafts /\ r.turn = NoRequest.turn
        /\ r.dialogs = NoRequest.dialogs /\ r.messages = NoRequest.messages
        /\ r.offsetID = NoRequest.offsetID
    BY <1>2, <2>1 DEF Req
  <2>3. fresh(r)
    BY <1>2, <2>2 DEF fresh, NoRequest
  <2> QED BY <1>1, <1>5, <2>1, <2>3, BeginKeeps DEF messagesGetDialogs
<1>6. ASSUME NEW peers \in [1..Peers -> User], messagesGetPeerDialogs(self, peers)
      PROVE  MailInv'
  <2>1. peers \in Seq(User)
    BY <1>1, SeqDef
  <2> QED BY <1>3, <1>6, <2>1 DEF messagesGetPeerDialogs
<1> QED BY <1>4, <1>5, <1>6 DEF Ask

\* c has the elements of a, then those of b.
joins(a, b, c) ==
    /\ \A k \in DOMAIN c : (\E l \in DOMAIN a : c[k] = a[l]) \/ (\E l \in DOMAIN b : c[k] = b[l])
    /\ \A l \in DOMAIN a : l \in DOMAIN c /\ c[l] = a[l]
    /\ \A l \in DOMAIN b : Len(a) + l \in DOMAIN c /\ c[Len(a) + l] = b[l]

\* So has a concatenation.
LEMMA ConcatRange ==
    ASSUME NEW T, NEW a \in Seq(T), NEW b \in Seq(T)
    PROVE  joins(a, b, a \o b)
<1>1. /\ Len(a) \in Nat /\ Len(b) \in Nat /\ DOMAIN a = 1..Len(a) /\ DOMAIN b = 1..Len(b)
      /\ DOMAIN (a \o b) = 1..(Len(a) + Len(b))
      /\ \A k \in 1..Len(a) : (a \o b)[k] = a[k]
      /\ \A k \in (Len(a) + 1)..(Len(a) + Len(b)) : (a \o b)[k] = b[k - Len(a)]
  OBVIOUS
<1>2. ASSUME NEW k \in DOMAIN (a \o b), k \notin DOMAIN a
      PROVE  k - Len(a) \in DOMAIN b /\ (a \o b)[k] = b[k - Len(a)]
  BY <1>1, <1>2
<1>3. ASSUME NEW l \in DOMAIN b
      PROVE  Len(a) + l \in DOMAIN (a \o b) /\ (a \o b)[Len(a) + l] = b[l]
  <2>1. Len(a) + l \in (Len(a) + 1)..(Len(a) + Len(b)) /\ Len(a) + l - Len(a) = l
    BY <1>1
  <2> QED BY <1>1, <2>1
<1> QED BY <1>1, <1>2, <1>3 DEF joins

\* A page below the last: the ids fall from one message to the next across pages too.
LEMMA FallsOn ==
    ASSUME NEW a \in Seq(Nat), NEW b \in Seq(Nat), NEW o \in Nat,
           \A k, l \in DOMAIN a : k < l => a[l] < a[k],
           \A k, l \in DOMAIN b : k < l => b[l] < b[k],
           a # <<>> => o = a[Len(a)] /\ \A l \in DOMAIN b : b[l] < o
    PROVE  \A k, l \in DOMAIN (a \o b) : k < l => (a \o b)[l] < (a \o b)[k]
<1> DEFINE n == Len(a)
<1>1. /\ n \in Nat /\ Len(b) \in Nat /\ DOMAIN a = 1..n /\ DOMAIN b = 1..Len(b)
      /\ DOMAIN (a \o b) = 1..(n + Len(b))
      /\ \A k \in 1..n : (a \o b)[k] = a[k] /\ a[k] \in Nat
      /\ \A k \in (n + 1)..(n + Len(b)) : (a \o b)[k] = b[k - n] /\ b[k - n] \in Nat /\ k - n \in 1..Len(b)
  OBVIOUS
<1> HIDE DEF n
<1>2. ASSUME NEW k \in DOMAIN (a \o b), NEW l \in DOMAIN (a \o b), k < l
      PROVE  (a \o b)[l] < (a \o b)[k]
  <2>1. CASE l \in 1..n
    <3>1. k \in 1..n
      BY <1>1, <1>2, <2>1
    <3> QED BY <1>1, <1>2, <2>1, <3>1
  <2>2. CASE k \notin 1..n
    <3>1. k \in (n + 1)..(n + Len(b)) /\ l \in (n + 1)..(n + Len(b))
      BY <1>1, <1>2, <2>2
    <3>2. k - n < l - n
      BY <1>1, <1>2, <3>1
    <3> QED BY <1>1, <3>1, <3>2
  <2>3. CASE k \in 1..n /\ l \notin 1..n
    <3>1. l \in (n + 1)..(n + Len(b)) /\ n > 0 /\ n \in 1..n
      BY <1>1, <1>2, <2>3
    <3>2. a # <<>>
      BY <1>1, <3>1
    <3>3. b[l - n] < o /\ o = a[n]
      BY <1>1, <3>1, <3>2 DEF n
    <3>4. a[n] <= a[k]
      <4>1. k = n \/ k < n
        BY <1>1, <2>3
      <4>2. k < n => a[n] < a[k]
        BY <1>1, <2>3, <3>1
      <4> QED BY <1>1, <2>3, <3>1, <4>1, <4>2
    <3>5. PICK x \in Nat : x = a[k] /\ x = (a \o b)[k]
      BY <1>1, <2>3
    <3>6. PICK y \in Nat : y = a[n]
      BY <1>1, <3>1
    <3>7. PICK z \in Nat : z = b[l - n] /\ z = (a \o b)[l]
      BY <1>1, <3>1
    <3>8. z < y /\ y <= x
      BY ONLY <3>3, <3>4, <3>5, <3>6, <3>7
    <3>9. z < x
      BY ONLY <3>8, x \in Nat, y \in Nat, z \in Nat
    <3> QED BY ONLY <3>5, <3>7, <3>9
  <2> QED BY <2>1, <2>2, <2>3
<1> QED BY <1>2

\* A page: it goes on below the last message and leaves out only what is further below.
LEMMA PageKeeps ==
    ASSUME MailInv, getPage(request.peers[1])
    PROVE  MailInv'
<1>1. Store /\ DraftsOK /\ Tables
  BY DEF MailInv, Store, StoreInv
<1>2. PICK r : r = request
  OBVIOUS
<1>3. /\ requestOK(r) /\ historyOK(r) /\ r \in Req /\ r.pc = "page" /\ r.method = "history"
  BY <1>2 DEF MailInv, getPage, requestOK
<1>4. PICK u \in User : u = r.self
  BY <1>3 DEF requestOK
<1>5. PICK peer \in User : peer = r.peers[1]
  BY <1>3 DEF requestOK, Req
<1>6. PICK last \in Nat : last = lastMessageID[u] /\ DOMAIN refs[u] = 1..last
  BY <1>1, AccountTypes
<1>7. PICK o \in Nat : o = r.offsetID
  BY <1>3 DEF Req
<1>8. PICK S : S = GetHistory(u, peer, o)
  OBVIOUS
<1>9. S \in SUBSET (1..last) /\ \A i \in S : i \in DOMAIN refs[u] /\ peerOf(u, i) = peer
      /\ (o > 0 => i < o)
  BY <1>6, <1>8 DEF GetHistory, visible, peerOf
<1>10. PICK msgs : msgs = newest(S, HistoryLimit)
  OBVIOUS
<1>11. /\ msgs \in Seq(S) /\ Len(msgs) <= HistoryLimit
       /\ \A k, l \in DOMAIN msgs : k < l => msgs[l] < msgs[k]
       /\ \A i \in S : \/ \E k \in DOMAIN msgs : msgs[k] = i
                       \/ /\ Len(msgs) = HistoryLimit
                          /\ \A k \in DOMAIN msgs : i < msgs[k]
       /\ HistoryLimit \in Nat /\ HistoryLimit > 0
  <2>1. PICK n \in Nat : n = HistoryLimit /\ n > 0
    BY MailboxAssumption
  <2>2. msgs = newest(S, n)
    BY <1>10, <2>1
  <2> QED BY <1>9, <2>1, <2>2, NewestListed
<1>12. msgs \in Seq(Nat) /\ \A k \in DOMAIN msgs : msgs[k] \in S /\ msgs[k] \in Nat
  <2>1. \A k \in DOMAIN msgs : msgs[k] \in S
    BY <1>11
  <2>2. \A k \in DOMAIN msgs : msgs[k] \in Nat
    BY <1>9, <2>1
  <2> QED BY <1>11, <2>1, <2>2, SeqDef
<1>13. PICK q : q = [r EXCEPT !.messages = @ \o msgs,
                              !.offsetID = IF msgs = <<>> THEN @ ELSE Last(msgs),
                              !.pc = IF Len(msgs) < HistoryLimit THEN "done" ELSE "page"]
  OBVIOUS
<1>14. request' = q /\ UNCHANGED <<storeVars, drafts>>
  BY <1>2, <1>4, <1>5, <1>7, <1>8, <1>10, <1>13 DEF getPage, reply, page
<1>15. PICK a \in Seq(Nat) : a = r.messages
  BY <1>3 DEF Req
<1>16. PICK p : p = IF msgs = <<>> THEN o ELSE Last(msgs)
  OBVIOUS
<1>17. p \in Nat /\ (msgs # <<>> => p = msgs[Len(msgs)] /\ Len(msgs) \in DOMAIN msgs)
  <2>1. msgs # <<>> => Len(msgs) \in DOMAIN msgs
    BY <1>12
  <2> QED BY <1>7, <1>12, <1>16, <2>1 DEF Last
<1>18. PICK c \in {"done", "page"} : c = IF Len(msgs) < HistoryLimit THEN "done" ELSE "page"
  OBVIOUS
<1>19. a \o msgs \in Seq(Nat)
  BY <1>12, <1>15
<1>20. /\ q \in Req /\ q.messages = a \o msgs /\ q.offsetID = p /\ q.pc = c
       /\ q.method = r.method /\ q.self = u /\ q.peers = r.peers /\ q.held = r.held
       /\ q.knew = r.knew /\ q.drafts = r.drafts
  BY <1>3, <1>4, <1>7, <1>13, <1>15, <1>16, <1>17, <1>18, <1>19 DEF Req
<1>21. requestOK(q)
  BY <1>3, <1>4, <1>20 DEF requestOK
<1>22. dialogsOK(q)
  BY <1>3, <1>20 DEF dialogsOK
<1>23. historyOK(q)
  <2>1. /\ \A k, l \in DOMAIN a : k < l => a[l] < a[k]
        /\ \A k \in DOMAIN a : a[k] \in DOMAIN refs[u] /\ peerOf(u, a[k]) = peer
        /\ o = IF a = <<>> THEN 0 ELSE a[Len(a)]
        /\ \A i \in GetHistory(u, peer, 0) : i <= r.held =>
              (\E k \in DOMAIN a : a[k] = i) \/ (o > 0 => i < o)
    BY <1>3, <1>4, <1>5, <1>7, <1>15 DEF historyOK, Last
  <2>2. a # <<>> => o > 0
    <3>1. a # <<>> => Len(a) \in DOMAIN a
      OBVIOUS
    <3> QED BY <1>6, <2>1, <3>1
  <2>3. \A k, l \in DOMAIN (a \o msgs) : k < l => (a \o msgs)[l] < (a \o msgs)[k]
    <3>1. a # <<>> => o = a[Len(a)] /\ \A l \in DOMAIN msgs : msgs[l] < o
      BY <1>9, <1>12, <2>1, <2>2
    <3> QED BY <1>11, <1>12, <2>1, <3>1, FallsOn
  <2>4. /\ \A k \in DOMAIN (a \o msgs) : \/ \E l \in DOMAIN a : (a \o msgs)[k] = a[l]
                                         \/ \E l \in DOMAIN msgs : (a \o msgs)[k] = msgs[l]
        /\ \A l \in DOMAIN a : l \in DOMAIN (a \o msgs) /\ (a \o msgs)[l] = a[l]
        /\ \A l \in DOMAIN msgs : /\ Len(a) + l \in DOMAIN (a \o msgs)
                                  /\ (a \o msgs)[Len(a) + l] = msgs[l]
    <3>1. joins(a, msgs, a \o msgs)
      BY <1>12, <1>15, ConcatRange
    <3> QED BY ONLY <3>1 DEF joins
  <2>5. ASSUME NEW k \in DOMAIN (a \o msgs)
        PROVE  (a \o msgs)[k] \in DOMAIN refs[u] /\ peerOf(u, (a \o msgs)[k]) = peer
    BY <1>9, <1>12, <2>1, <2>4
  <2>6. p = IF a \o msgs = <<>> THEN 0 ELSE Last(a \o msgs)
    <3>1. CASE msgs = <<>>
      BY <1>16, <2>1, <3>1 DEF Last
    <3>2. CASE msgs # <<>>
      <4>1. /\ Len(a \o msgs) = Len(a) + Len(msgs) /\ Len(msgs) \in DOMAIN msgs /\ a \o msgs # <<>>
        BY <1>12, <3>2
      <4> QED BY <1>17, <2>4, <3>2, <4>1 DEF Last
    <3> QED BY <3>1, <3>2
  <2>7. ASSUME NEW i \in GetHistory(u, peer, 0), i <= r.held,
               ~ \E k \in DOMAIN (a \o msgs) : (a \o msgs)[k] = i
        PROVE  c = "page" /\ (p > 0 => i < p)
    <3>1. ~ \E k \in DOMAIN a : a[k] = i
      BY <2>4, <2>7
    <3>2. o > 0 => i < o
      BY <2>1, <2>7, <3>1
    <3>3. i \in S
      BY <1>8, <2>7, <3>2 DEF GetHistory
    <3>4. ~ \E k \in DOMAIN msgs : msgs[k] = i
      BY <2>4, <2>7
    <3>5. Len(msgs) = HistoryLimit /\ \A k \in DOMAIN msgs : i < msgs[k]
      BY <1>11, <3>3, <3>4
    <3>6. msgs # <<>>
      BY <1>11, <3>5
    <3> QED BY <1>11, <1>17, <1>18, <3>5, <3>6
  <2> QED BY <1>5, <1>20, <2>3, <2>5, <2>6, <2>7 DEF historyOK
<1> QED BY <1>1, <1>14, <1>21, <1>22, <1>23, ReplyKeeps

\* messages.getHistory, and messages.getSavedHistory for the conversation with oneself.
LEMMA HistoryKeeps ==
    ASSUME MailInv, messagesGetHistory \/ messagesGetSavedHistory
    PROVE  MailInv'
<1>1. CASE messagesGetHistory
  BY <1>1, PageKeeps DEF messagesGetHistory
<1>2. CASE messagesGetSavedHistory
  <2>1. request.peers[1] = request.self
    BY <1>2 DEF messagesGetSavedHistory
  <2>2. getPage(request.peers[1])
    BY <1>2, <2>1 DEF messagesGetSavedHistory
  <2> QED BY <2>2, PageKeeps
<1> QED BY <1>1, <1>2

\* messages.saveDraft.
LEMMA SaveDraftKeeps ==
    ASSUME MailInv, NEW self \in Viewer, NEW peer \in User, NEW blank \in BOOLEAN,
           messagesSaveDraft(self, peer, blank)
    PROVE  MailInv'
<1>1. self \in User /\ Store /\ DraftsOK /\ UNCHANGED storeVars /\ request' = request
  BY MailboxAssumption DEF MailInv, messagesSaveDraft
<1>2. PICK r : r = request
  OBVIOUS
<1>3. Store' /\ requestOK(r)' /\ historyOK(r)' /\ dialogsOK(r)'
  BY <1>1, <1>2, StoreStutters DEF MailInv
<1>4. requestOK(request)' /\ historyOK(request)' /\ dialogsOK(request)'
  BY <1>1, <1>2, <1>3
<1>5. DraftsOK'
  <2>1. PICK D : D = IF blank THEN drafts[self] \ {peer} ELSE drafts[self] \cup {peer}
    OBVIOUS
  <2>2. drafts[self] \subseteq User /\ IsFiniteSet(drafts[self]) /\ self \in DOMAIN drafts
    BY <1>1 DEF DraftsOK
  <2>3. D \subseteq User /\ IsFiniteSet(D)
    <3>1. IsFiniteSet(drafts[self] \ {peer}) /\ IsFiniteSet(drafts[self] \cup {peer})
      BY <2>2, FS_RemoveElement, FS_AddElement
    <3> QED BY <2>1, <2>2, <3>1
  <2>4. drafts' = [drafts EXCEPT ![self] = D]
    BY <2>1 DEF messagesSaveDraft, SaveDraft
  <2>5. \A u \in User : drafts'[u] = IF u = self THEN D ELSE drafts[u]
    BY <1>1, <2>4 DEF DraftsOK
  <2>6. drafts' = [u \in User |-> drafts'[u]]
    BY <1>1, <2>4 DEF DraftsOK
  <2> QED BY <1>1, <2>3, <2>5, <2>6 DEF DraftsOK
<1> QED BY <1>3, <1>4, <1>5 DEF MailInv

-----------------------------------------------------------------------------
(* GetDialogs *)

\* The outgoing messages the peer has read are those the log has receipts for.
LEMMA TicksLogged ==
    ASSUME Store, NEW u \in User, NEW p \in User, u # p, NEW i \in GetHistory(u, p, 0), refs[u][i].out
    PROVE  i \in dialogReadOutbox(u, p) <=> coveredIn(updates[u], p, i)
<1>1. Tables /\ CopiesMatch /\ ReceiptsExact
  BY DEF Store, StoreInv, ReadsInv
<1>2. i \in DOMAIN refs[u] /\ peerOf(u, i) = p
  BY InHistory DEF visible
<1>3. PICK g : g = refs[u][i].globalID
  OBVIOUS
<1>4. g \in DOMAIN messages /\ u = messages[g].from
  BY <1>1, <1>2, <1>3, OwnCopy
<1>5. messages[g].peer = p
  BY <1>2, <1>3, <1>4 DEF peerOf, other
<1>6. PICK j \in DOMAIN refs[p] : refByGlobal(p, g) = {j} /\ refs[p][j].out = (p = messages[g].from)
  BY <1>1, <1>4, <1>5 DEF CopiesMatch
<1>7. ~refs[p][j].out
  BY <1>4, <1>6
<1>8. readByPeer(p, g) <=> coveredIn(updates[u], p, i)
  BY <1>1, <1>2, <1>3, <1>5, ReceiptsParts
<1>9. i \in dialogReadOutbox(u, p) <=> ~refs[p][j].unread
  BY <1>3, <1>6, <1>7 DEF dialogReadOutbox
<1>10. readByPeer(p, g) <=> ~refs[p][j].unread
  BY <1>6 DEF readByPeer
<1> QED BY <1>8, <1>9, <1>10

\* What GetDialogs says of a conversation agrees with the log.
LEMMA DialogAgrees ==
    ASSUME Store, NEW u \in User, NEW p \in User, NEW held \in Nat, NEW knew \in Nat
    PROVE  /\ dialogWith(u, p) \in Dialog /\ dialogWith(u, p).peer = p
           /\ dialogWith(u, p).top = maxOf(GetHistory(u, p, 0))
           /\ dialogWith(u, p).top <= lastMessageID[u]
           /\ agrees(u, held, knew, dialogWith(u, p))
<1>1. Tables /\ inboxOK(u)
  BY DEF Store, StoreInv, InboxExact
<1>2. PICK last \in Nat : last = lastMessageID[u] /\ DOMAIN refs[u] = 1..last
  BY <1>1, AccountTypes
<1>3. PICK ids : ids = GetHistory(u, p, 0)
  OBVIOUS
<1>4. ids \in SUBSET (1..last) /\ \A i \in ids : i \in DOMAIN refs[u] /\ peerOf(u, i) = p
  BY <1>2, <1>3, InHistory DEF visible
<1>5. PICK U : U = {i \in ids : ~refs[u][i].out /\ refs[u][i].unread}
  OBVIOUS
<1>6. PICK R : R = {i \in ids : ~refs[u][i].out /\ ~refs[u][i].unread}
  OBVIOUS
<1>7. PICK O : O = dialogReadOutbox(u, p)
  OBVIOUS
<1>8. U \in SUBSET (1..last) /\ R \in SUBSET (1..last) /\ O \in SUBSET ids /\ O \in SUBSET (1..last)
      /\ \A i \in O : refs[u][i].out
  BY <1>3, <1>4, <1>5, <1>6, <1>7 DEF dialogReadOutbox
<1>9. PICK d : d = dialogWith(u, p)
  OBVIOUS
<1>10. d = [peer |-> p, top |-> maxOf(ids), unreadCount |-> Cardinality(U),
            readInboxMaxID |-> maxOf(R), readOutboxMaxID |-> maxOf(O)]
  <2>1. /\ {i \in {i \in ids : ~refs[u][i].out} : refs[u][i].unread} = U
        /\ {i \in {i \in ids : ~refs[u][i].out} : ~refs[u][i].unread} = R
    BY <1>5, <1>6
  <2> QED BY <1>3, <1>7, <1>9, <2>1 DEF dialogWith
<1>11. /\ maxOf(ids) \in Nat /\ maxOf(R) \in Nat /\ maxOf(O) \in Nat
       /\ ids = {} => maxOf(ids) = 0
       /\ ids # {} => maxOf(ids) \in ids
       /\ R = {} => maxOf(R) = 0
       /\ R # {} => maxOf(R) \in R
       /\ O = {} => maxOf(O) = 0
       /\ O # {} => maxOf(O) \in O
       /\ \A i \in O : i <= maxOf(O)
  BY <1>4, <1>8, MaxOfProperties
<1>12. Cardinality(U) \in Nat
  <2>1. IsFiniteSet(1..last)
    BY FS_Interval
  <2>2. IsFiniteSet(U)
    BY <1>8, <2>1, FS_Subset
  <2> QED BY <2>2, FS_CardinalityType
<1>13. d \in Dialog /\ d.peer = p /\ d.top = maxOf(ids)
  BY <1>10, <1>11, <1>12 DEF Dialog
<1>14. maxOf(ids) <= lastMessageID[u]
  BY <1>2, <1>4, <1>11
<1>15. ASSUME p # u
       PROVE  agrees(u, held, knew, d)
  <2>1. ASSUME NEW i \in ids, coveredIn(updates[u], p, i)
        PROVE  covered(u, "readoutbox", p, i, pts[u])
    BY <1>1, <2>1 DEF coveredIn, covered, inboxOK
  <2>2. maxOf(O) # 0 => covered(u, "readoutbox", p, maxOf(O), pts[u])
    <3>1. ASSUME maxOf(O) # 0
          PROVE  covered(u, "readoutbox", p, maxOf(O), pts[u])
      <4>1. maxOf(O) \in O /\ maxOf(O) \in ids /\ refs[u][maxOf(O)].out
        BY <1>8, <1>11, <3>1
      <4>2. coveredIn(updates[u], p, maxOf(O))
        BY <1>3, <1>7, <1>15, <4>1, TicksLogged
      <4> QED BY <2>1, <4>1, <4>2
    <3> QED BY <3>1
  <2>3. ASSUME NEW i \in ids, refs[u][i].out, covered(u, "readoutbox", p, i, knew)
        PROVE  i <= maxOf(O)
    <3>1. coveredIn(updates[u], p, i)
      BY <2>3 DEF coveredIn, covered
    <3>2. i \in O
      BY <1>3, <1>7, <1>15, <2>3, <3>1, TicksLogged
    <3> QED BY <1>11, <3>2
  <2>4. U \in SUBSET DOMAIN refs[u]
    BY <1>2, <1>8
  <2>5. \A i \in inboxOf(u, p, held) : refs[u][i].unread => i \in U
    BY <1>3, <1>5 DEF inboxOf
  <2>6. ASSUME NEW i \in U
        PROVE  /\ ~refs[u][i].out /\ peerOf(u, i) = p /\ ~covered(u, "readinbox", p, i, knew)
    <3>1. i \in DOMAIN refs[u] /\ ~refs[u][i].out /\ refs[u][i].unread /\ peerOf(u, i) = p
      BY <1>4, <1>5
    <3>2. ~inboxIn(updates[u], p, i)
      BY <1>1, <3>1 DEF inboxOK
    <3> QED BY <3>1, <3>2 DEF inboxIn, covered
  <2>7. ASSUME NEW i \in inboxOf(u, p, held), i <= maxOf(R)
        PROVE  ~refs[u][i].unread
    <3>1. i \in ids /\ ~refs[u][i].out /\ i \in DOMAIN refs[u] /\ i \in 1..last /\ peerOf(u, i) = p
      BY <1>3, <1>4, <2>7 DEF inboxOf
    <3>2. R # {} /\ maxOf(R) \in R
      BY <1>11, <2>7, <3>1
    <3>3. PICK m : m = maxOf(R) /\ m \in R
      BY <3>2
    <3>10. /\ m \in DOMAIN refs[u] /\ ~refs[u][m].out /\ ~refs[u][m].unread
           /\ peerOf(u, m) = p /\ m \in Nat
      <4>1. m \in ids /\ ~refs[u][m].out /\ ~refs[u][m].unread
        BY <1>6, <3>3
      <4>2. m \in DOMAIN refs[u] /\ peerOf(u, m) = p /\ m \in 1..last
        BY <1>4, <4>1
      <4> QED BY <4>1, <4>2
    <3>4. inboxIn(updates[u], p, m)
      BY <1>1, <3>10 DEF inboxOK
    <3>5. PICK k \in DOMAIN updates[u] :
              updates[u][k].type = "readinbox" /\ updates[u][k].peer = p /\ updates[u][k].maxID >= m
      BY <3>4 DEF inboxIn
    <3>6. updates[u][k].maxID \in Nat /\ i \in Nat
      BY <1>1, <3>1, AccountTypes
    <3>7. updates[u][k].maxID >= i
      BY <2>7, <3>3, <3>5, <3>6, <3>10
    <3>8. inboxIn(updates[u], p, i)
      BY <3>5, <3>7 DEF inboxIn
    <3> QED BY <1>1, <3>1, <3>8 DEF inboxOK
  <2>8. /\ d.peer = p /\ d.unreadCount = Cardinality(U) /\ d.readInboxMaxID = maxOf(R)
        /\ d.readOutboxMaxID = maxOf(O)
    BY <1>10
  <2>9. \E V \in SUBSET DOMAIN refs[u] :
            /\ d.unreadCount = Cardinality(V)
            /\ \A i \in inboxOf(u, p, held) : refs[u][i].unread => i \in V
            /\ \A i \in V : /\ ~refs[u][i].out /\ peerOf(u, i) = p
                            /\ ~covered(u, "readinbox", p, i, knew)
    BY <2>4, <2>5, <2>6, <2>8
  <2> QED BY <1>3, <2>2, <2>3, <2>7, <2>8, <2>9 DEF agrees
<1>16. agrees(u, held, knew, d)
  BY <1>13, <1>15 DEF agrees
<1> QED BY <1>3, <1>9, <1>13, <1>14, <1>16

\* GetDialogs lists no conversation twice and leaves one out only behind DialogsLimit others.
LEMMA DialogsRead ==
    ASSUME Store, NEW u \in User, NEW held \in Nat, NEW knew \in Nat, NEW ds,
           ds = GetDialogs(u, DialogsLimit)
    PROVE  /\ ds \in Seq(Dialog) /\ distinct(ds) /\ listed(u, held, ds) /\ bounded(u, ds)
           /\ \A k \in DOMAIN ds : agrees(u, held, knew, ds[k])
           /\ Cardinality(tops(u)) \in Nat
           /\ ~(Cardinality(tops(u)) > DialogsLimit) => complete(u, held, ds)
<1>1. Tables
  BY DEF Store, StoreInv
<1>2. PICK last \in Nat : last = lastMessageID[u] /\ DOMAIN refs[u] = 1..last
  BY <1>1, AccountTypes
<1>3. PICK T : T = tops(u)
  OBVIOUS
<1>4. ASSUME NEW i \in visible(u)
      PROVE  i \in 1..last /\ peerOf(u, i) \in User
  BY <1>1, <1>2, AccountTypes DEF visible
<1>5. T \in SUBSET (1..last)
      /\ \A i \in T : i \in visible(u) /\ i = maxOf(GetHistory(u, peerOf(u, i), 0))
  BY <1>3, <1>4 DEF tops
<1>6. PICK n \in Nat : n = DialogsLimit
  BY MailboxAssumption
<1>7. PICK q : q = newest(T, n)
  OBVIOUS
<1>8. /\ q \in Seq(T)
      /\ \A k, l \in DOMAIN q : k < l => q[l] < q[k]
      /\ \A i \in T : \/ \E k \in DOMAIN q : q[k] = i
                      \/ Len(q) = n /\ \A k \in DOMAIN q : i < q[k]
  BY <1>5, <1>7, NewestListed
<1>9. DOMAIN q = 1..Len(q) /\ Len(q) \in Nat /\ \A k \in DOMAIN q : q[k] \in T
  BY <1>8
<1>10. ds = [k \in DOMAIN q |-> dialogWith(u, peerOf(u, q[k]))]
  BY <1>3, <1>6, <1>7 DEF GetDialogs
<1>11. ASSUME NEW k \in DOMAIN q
       PROVE  /\ q[k] \in visible(u) /\ q[k] \in 1..last
              /\ ds[k] \in Dialog /\ ds[k].peer = peerOf(u, q[k]) /\ ds[k].top = q[k]
              /\ ds[k].top <= lastMessageID[u] /\ agrees(u, held, knew, ds[k])
  <2>1. q[k] \in T /\ q[k] \in visible(u) /\ q[k] \in 1..last /\ peerOf(u, q[k]) \in User
    BY <1>4, <1>5, <1>9
  <2>2. PICK p \in User : p = peerOf(u, q[k])
    BY <2>1
  <2>3. ds[k] = dialogWith(u, p)
    BY <1>10, <2>2
  <2>4. /\ ds[k] \in Dialog /\ ds[k].peer = p
        /\ ds[k].top = maxOf(GetHistory(u, p, 0))
        /\ ds[k].top <= lastMessageID[u] /\ agrees(u, held, knew, ds[k])
    BY <2>3, DialogAgrees
  <2>5. ds[k].top = q[k]
    BY <1>5, <2>1, <2>2, <2>4
  <2> QED BY <2>1, <2>2, <2>4, <2>5
<1>12. DOMAIN ds = DOMAIN q /\ ds \in Seq(Dialog)
  <2>1. DOMAIN ds = DOMAIN q
    BY <1>10
  <2>2. ds \in [1..Len(q) -> Dialog]
    BY <1>9, <1>10, <1>11
  <2> QED BY <1>9, <2>1, <2>2, SeqDef
<1>13. distinct(ds)
  <2>1. ASSUME NEW k \in DOMAIN q, NEW l \in DOMAIN q, ds[k].peer = ds[l].peer, k # l
        PROVE  FALSE
    <3>1. q[k] \in T /\ q[l] \in T /\ peerOf(u, q[k]) = peerOf(u, q[l])
      BY <1>9, <1>11, <2>1
    <3>2. q[k] = q[l]
      BY <1>5, <3>1
    <3>3. k < l \/ l < k
      BY <1>9, <2>1
    <3>4. q[k] < q[l] \/ q[l] < q[k]
      BY <1>8, <3>3
    <3>5. q[k] \in 1..last
      BY <1>11
    <3> QED BY <3>2, <3>4, <3>5
  <2> QED BY <1>12, <2>1 DEF distinct
<1>18. IsFiniteSet(T) /\ Cardinality(T) \in Nat
  <2>1. IsFiniteSet(1..last)
    BY FS_Interval
  <2>2. IsFiniteSet(T)
    BY <1>5, <2>1, FS_Subset
  <2> QED BY <2>2, FS_CardinalityType
<1>14. ASSUME NEW i \in visible(u)
       PROVE  \/ \E k \in DOMAIN ds : ds[k].peer = peerOf(u, i)
              \/ /\ Cardinality({k \in DOMAIN ds : ds[k].top > i}) >= DialogsLimit
                 /\ Cardinality(T) > DialogsLimit
  <2>1. PICK p \in User : p = peerOf(u, i)
    BY <1>4
  <2>2. PICK H : H = GetHistory(u, p, 0)
    OBVIOUS
  <2>3. H \in SUBSET (1..last) /\ i \in H /\ \A j \in H : j \in visible(u) /\ peerOf(u, j) = p
    BY <1>4, <2>1, <2>2, InHistory
  <2>4. PICK t : t = maxOf(H)
    OBVIOUS
  <2>5. t \in H /\ i <= t /\ t \in Nat /\ i \in Nat
    BY <2>3, <2>4, MaxOfProperties
  <2>6. t \in T
    BY <1>3, <2>2, <2>3, <2>4, <2>5 DEF tops
  <2>7. ASSUME NEW k \in DOMAIN q, q[k] = t
        PROVE  \E l \in DOMAIN ds : ds[l].peer = peerOf(u, i)
    BY <1>11, <1>12, <2>1, <2>3, <2>5, <2>7
  <2>8. ASSUME Len(q) = n, \A k \in DOMAIN q : t < q[k]
        PROVE  /\ Cardinality({k \in DOMAIN ds : ds[k].top > i}) >= DialogsLimit
               /\ Cardinality(T) > DialogsLimit
    <3>1. ASSUME NEW k \in DOMAIN ds
          PROVE  ds[k].top > i
      <4>1. k \in DOMAIN q /\ ds[k].top = q[k] /\ q[k] \in 1..last /\ t < q[k]
        BY <1>11, <1>12, <2>8
      <4> QED BY <2>5, <4>1
    <3>2. {k \in DOMAIN ds : ds[k].top > i} = 1..n /\ DOMAIN q = 1..n
      BY <1>9, <1>12, <2>8, <3>1
    <3>3. Cardinality(1..n) = IF 1 > n THEN 0 ELSE n - 1 + 1
      BY FS_Interval
    <3>4. Cardinality(1..n) = n /\ n >= n
      BY <3>3
    <3>5. Cardinality({k \in DOMAIN ds : ds[k].top > i}) = n
      BY ONLY <3>2, <3>4
    <3>6. Cardinality(T) > n
      <4>2. PICK R : R = T \ {t}
        OBVIOUS
      <4>3. IsFiniteSet(R) /\ Cardinality(R) = Cardinality(T) - 1 /\ Cardinality(T) \in Nat
        BY <1>18, <2>6, <4>2, FS_RemoveElement
      <4>4. ASSUME NEW k \in 1..n
            PROVE  q[k] \in R
        <5>1. q[k] \in T /\ t < q[k] /\ q[k] \in 1..last
          BY <1>9, <1>11, <2>8, <3>2
        <5> QED BY <2>5, <4>2, <5>1
      <4>5. ASSUME NEW k \in 1..n, NEW l \in 1..n, q[k] = q[l]
            PROVE  k = l
        <5>1. k < l \/ l < k \/ k = l
          OBVIOUS
        <5>2. q[k] \in 1..last
          BY <1>11, <3>2
        <5> QED BY <1>8, <3>2, <4>5, <5>1, <5>2
      <4>6. PICK f : f = [k \in 1..n |-> q[k]]
        OBVIOUS
      <4>7. f \in Injection(1..n, R)
        BY <4>4, <4>5, <4>6 DEF Injection, IsInjective
      <4>8. Cardinality(1..n) <= Cardinality(R)
        BY <4>3, <4>7, FS_Injection
      <4> QED BY <3>4, <4>3, <4>8
    <3> QED BY ONLY <1>6, <3>4, <3>5, <3>6
  <2> QED BY <1>8, <2>6, <2>7, <2>8
<1>16. listed(u, held, ds)
  BY <1>14 DEF listed
<1>17. ~(Cardinality(tops(u)) > DialogsLimit) => complete(u, held, ds)
  BY <1>3, <1>14 DEF complete
<1>15. bounded(u, ds)
  BY <1>11, <1>12 DEF bounded
<1> QED BY <1>3, <1>11, <1>12, <1>13, <1>15, <1>16, <1>17, <1>18

\* The first call of getDialogs and getPeerDialogs.
LEMMA ReadDialogsKeeps ==
    ASSUME MailInv, readDialogs
    PROVE  MailInv'
<1>1. Store /\ DraftsOK
  BY DEF MailInv
<1>2. PICK r : r = request
  OBVIOUS
<1>3. /\ requestOK(r) /\ dialogsOK(r) /\ r \in Req /\ r.pc = "dialogs"
      /\ r.method \in {"dialogs", "peerDialogs"}
  BY <1>2 DEF MailInv, readDialogs, requestOK, Req
<1>4. r.self \in User /\ r.held \in Nat /\ r.knew \in Nat
  BY <1>3 DEF requestOK, Req
<1>5. PICK ds : ds = GetDialogs(r.self, DialogsLimit)
  OBVIOUS
<1>6. /\ ds \in Seq(Dialog) /\ distinct(ds) /\ listed(r.self, r.held, ds) /\ bounded(r.self, ds)
      /\ \A k \in DOMAIN ds : agrees(r.self, r.held, r.knew, ds[k])
      /\ Cardinality(tops(r.self)) \in Nat
      /\ ~(Cardinality(tops(r.self)) > DialogsLimit) => complete(r.self, r.held, ds)
  BY <1>1, <1>4, <1>5, DialogsRead
<1>13. PICK c \in BOOLEAN : c = (Cardinality(tops(r.self)) > DialogsLimit)
  <2>1. (Cardinality(tops(r.self)) > DialogsLimit) \in BOOLEAN
    BY <1>6, MailboxAssumption
  <2> QED BY <2>1, Zenon
<1>7. PICK q : q = [r EXCEPT !.read = ds, !.cut = c, !.pc = "drafts"]
  OBVIOUS
<1>8. request' = q /\ UNCHANGED <<storeVars, drafts>>
  BY <1>2, <1>5, <1>7, <1>13 DEF readDialogs, reply
<1>9. /\ q \in Req /\ q.read = ds /\ q.cut = c /\ q.pc = "drafts" /\ q.method = r.method /\ q.self = r.self
      /\ q.held = r.held /\ q.knew = r.knew /\ q.drafts = r.drafts /\ q.peers = r.peers
      /\ q.messages = r.messages /\ q.turn = r.turn
  BY <1>3, <1>6, <1>7 DEF Req
<1>10. requestOK(q) /\ historyOK(q)
  BY <1>3, <1>9 DEF requestOK, historyOK
<1>11. readOK(q)
  BY <1>6, <1>9, <1>13 DEF readOK
<1>12. dialogsOK(q)
  BY <1>3, <1>9, <1>11 DEF dialogsOK
<1> QED BY <1>1, <1>8, <1>10, <1>12, ReplyKeeps

-----------------------------------------------------------------------------
(* The dialogs of the answer *)

\* A conversation without messages, as getPeerDialogs and the drafts show it.
LEMMA NoMessagesType ==
    ASSUME NEW p \in User
    PROVE  NoMessages(p) \in Dialog /\ NoMessages(p).peer = p /\ NoMessages(p).top = 0
  BY DEF NoMessages, Dialog

\* A peer asked for: what was read of it, or nothing if it is not among the dialogs read.
LEMMA ByPeerFound ==
    ASSUME NEW r, r.read \in Seq(Dialog), NEW p \in User
    PROVE  /\ byPeer(r, p) \in Dialog
           /\ \/ \E l \in DOMAIN r.read : byPeer(r, p) = r.read[l]
              \/ byPeer(r, p) = NoMessages(p) /\ \A l \in DOMAIN r.read : r.read[l].peer # p
<1>1. CASE \E l \in DOMAIN r.read : r.read[l].peer = p
  <2>1. PICK l \in DOMAIN r.read : byPeer(r, p) = r.read[l]
    BY <1>1 DEF byPeer
  <2>2. r.read[l] \in Dialog
    OBVIOUS
  <2> QED BY <2>1, <2>2
<1>2. CASE ~ \E l \in DOMAIN r.read : r.read[l].peer = p
  <2>1. byPeer(r, p) = NoMessages(p)
    BY <1>2 DEF byPeer
  <2> QED BY <1>2, <2>1, NoMessagesType
<1> QED BY <1>1, <1>2

\* A request between its first call and its loop.
LEMMA MoreKeeps ==
    ASSUME MailInv, request.pc \in {"drafts", "state"}, NEW q,
           request' = q, UNCHANGED <<storeVars, drafts>>,
           q \in Req, IsFiniteSet(q.drafts), q.pc \in {"state", "top"},
           q.pc = "state" => q.method = "peerDialogs",
           q.method = request.method, q.self = request.self, q.held = request.held,
           q.knew = request.knew, q.read = request.read, q.messages = request.messages,
           q.turn = request.turn, q.cut = request.cut, fromRead(q)
    PROVE  MailInv'
<1>1. Store /\ DraftsOK
  BY DEF MailInv
<1>2. PICK r : r = request
  OBVIOUS
<1>3. requestOK(r) /\ dialogsOK(r) /\ r \in Req /\ r.method \in {"dialogs", "peerDialogs"}
  BY <1>2 DEF MailInv, requestOK, Req
<1>4. readOK(r) /\ r.messages = <<>> /\ r.turn = 0
  BY <1>2, <1>3 DEF dialogsOK
<1>5. requestOK(q) /\ historyOK(q)
  BY <1>2, <1>3 DEF requestOK, historyOK
<1>6. readOK(q)
  BY <1>2, <1>4 DEF readOK
<1>7. topOK(q)
  <2>1. q.dialogs \in Seq(Dialog) /\ q.turn = 0 /\ q.messages = <<>>
    BY <1>2, <1>4 DEF Req
  <2>2. owned(q.self, q.dialogs, q.messages)
    BY <2>1 DEF owned
  <2>3. q.turn <= Len(q.dialogs) /\ 1..q.turn = {}
    BY <2>1
  <2> QED BY <2>2, <2>3 DEF topOK
<1>8. dialogsOK(q)
  BY <1>2, <1>3, <1>4, <1>6, <1>7 DEF dialogsOK
<1> QED BY <1>1, <1>5, <1>8, ReplyKeeps

\* The drafts for the list, the peers asked for for the other.
LEMMA ReadDraftsKeeps ==
    ASSUME MailInv, readDrafts
    PROVE  MailInv'
<1>1. PICK r : r = request
  OBVIOUS
<1>2. /\ requestOK(r) /\ r \in Req /\ r.pc = "drafts" /\ r.method \in {"dialogs", "peerDialogs"}
      /\ DraftsOK
  BY <1>1 DEF MailInv, readDrafts, requestOK, Req
<1>3. r.self \in User /\ r.read \in Seq(Dialog) /\ r.peers \in Seq(User)
  BY <1>2 DEF requestOK, Req
<1>4. PICK D : D = IF r.method = "dialogs" THEN Drafts(r.self) ELSE {}
  OBVIOUS
<1>5. D \in SUBSET User /\ IsFiniteSet(D)
  BY <1>2, <1>3, <1>4, FS_EmptySet DEF Drafts, DraftsOK
<1>6. PICK ds : ds = IF r.method = "dialogs" THEN r.read
                     ELSE [k \in DOMAIN r.peers |-> byPeer(r, r.peers[k])]
  OBVIOUS
<1>7. ASSUME r.method # "dialogs", NEW k \in DOMAIN r.peers
      PROVE  /\ ds[k] \in Dialog
             /\ \/ \E l \in DOMAIN r.read : ds[k] = r.read[l]
                \/ \E p \in User : ds[k] = NoMessages(p) /\ \A l \in DOMAIN r.read : r.read[l].peer # p
  <2>1. PICK p \in User : p = r.peers[k]
    BY <1>3
  <2>2. ds[k] = byPeer(r, p)
    BY <1>6, <1>7, <2>1
  <2> QED BY <1>3, <2>2, ByPeerFound
<1>8. ds \in Seq(Dialog)
  <2>1. CASE r.method = "dialogs"
    BY <1>3, <1>6, <2>1
  <2>2. CASE r.method # "dialogs"
    <3>1. /\ ds = [k \in DOMAIN r.peers |-> byPeer(r, r.peers[k])]
          /\ DOMAIN r.peers = 1..Len(r.peers) /\ Len(r.peers) \in Nat
      BY <1>3, <1>6, <2>2
    <3>2. \A k \in DOMAIN r.peers : ds[k] \in Dialog
      BY <1>7, <2>2
    <3>3. ds \in [1..Len(r.peers) -> Dialog]
      BY <3>1, <3>2
    <3> QED BY <3>1, <3>3, SeqDef
  <2> QED BY <2>1, <2>2
<1>9. PICK c \in {"top", "state"} : c = IF r.method = "dialogs" THEN "top" ELSE "state"
  OBVIOUS
<1>10. PICK q : q = [r EXCEPT !.drafts = D, !.dialogs = ds, !.pc = c]
  OBVIOUS
<1>11. request' = q /\ UNCHANGED <<storeVars, drafts>>
  BY <1>1, <1>4, <1>6, <1>9, <1>10 DEF readDrafts, reply
<1>12. /\ q \in Req /\ q.drafts = D /\ q.dialogs = ds /\ q.pc = c /\ q.method = r.method
       /\ q.self = r.self /\ q.held = r.held /\ q.knew = r.knew /\ q.read = r.read
       /\ q.messages = r.messages /\ q.turn = r.turn /\ q.cut = r.cut
  BY <1>2, <1>5, <1>8, <1>9, <1>10 DEF Req
<1>13. fromRead(q)
  <2>1. CASE r.method = "dialogs"
    BY <1>6, <1>12, <2>1 DEF fromRead
  <2>2. CASE r.method # "dialogs"
    <3>1. DOMAIN ds = DOMAIN r.peers
      BY <1>6, <2>2
    <3> QED BY <1>7, <1>12, <2>2, <3>1 DEF fromRead
  <2> QED BY <2>1, <2>2
<1>14. c = "state" => r.method = "peerDialogs"
  BY <1>2, <1>9
<1> QED BY <1>1, <1>2, <1>5, <1>9, <1>11, <1>12, <1>13, <1>14, MoreKeeps

\* The state getPeerDialogs reports.
LEMMA ReadStateKeeps ==
    ASSUME MailInv, readState
    PROVE  MailInv'
<1>1. PICK r : r = request
  OBVIOUS
<1>2. /\ requestOK(r) /\ dialogsOK(r) /\ r \in Req /\ r.pc = "state" /\ r.method = "peerDialogs"
      /\ IsFiniteSet(r.drafts)
  BY <1>1 DEF MailInv, readState, requestOK
<1>3. pts[r.self] \in Nat
  BY <1>2 DEF requestOK, MailInv, Store, StoreInv, Tables
<1>4. PICK q : q = [r EXCEPT !.state = pts[r.self], !.pc = "top"]
  OBVIOUS
<1>5. request' = q /\ UNCHANGED <<storeVars, drafts>>
  BY <1>1, <1>4 DEF readState, reply
<1>6. /\ q \in Req /\ q.drafts = r.drafts /\ q.dialogs = r.dialogs /\ q.pc = "top"
      /\ q.method = r.method /\ q.self = r.self /\ q.held = r.held /\ q.knew = r.knew
      /\ q.read = r.read /\ q.messages = r.messages /\ q.turn = r.turn /\ q.cut = r.cut
  BY <1>2, <1>3, <1>4 DEF Req
<1>7. fromRead(q)
  BY <1>2, <1>6 DEF dialogsOK, fromRead
<1> QED BY <1>1, <1>2, <1>5, <1>6, <1>7, MoreKeeps

\* One turn of the loop: with the dialog comes the newest message of its conversation.
LEMMA TurnKeeps ==
    ASSUME MailInv, request.pc = "top", request.turn + 1 <= Len(request.dialogs), readTop
    PROVE  MailInv'
<1>1. Store /\ DraftsOK /\ Tables
  BY DEF MailInv, Store, StoreInv
<1>2. PICK r : r = request
  OBVIOUS
<1>3. /\ requestOK(r) /\ dialogsOK(r) /\ r \in Req /\ r.pc = "top"
      /\ r.method \in {"dialogs", "peerDialogs"}
  BY <1>2 DEF MailInv, requestOK, Req
<1>4. readOK(r) /\ fromRead(r) /\ topOK(r)
  BY <1>3 DEF dialogsOK
<1>5. PICK u \in User : u = r.self
  BY <1>3 DEF requestOK
<1>6. PICK ds \in Seq(Dialog) : ds = r.dialogs
  BY <1>3 DEF Req
<1>7. PICK a \in Seq(Nat) : a = r.messages
  BY <1>3 DEF Req
<1>8. PICK t \in Nat : t = r.turn
  BY <1>3 DEF Req
<1>9. PICK n \in DOMAIN ds : n = t + 1
  BY <1>2, <1>6, <1>8
<1>10. PICK p \in User : p = ds[n].peer
  <2>1. ds[n] \in Dialog
    OBVIOUS
  <2> QED BY <2>1 DEF Dialog
<1>11. PICK last \in Nat : last = lastMessageID[u] /\ DOMAIN refs[u] = 1..last
  BY <1>1, AccountTypes
<1>12. PICK S : S = GetHistory(u, p, 0)
  OBVIOUS
<1>13. S \in SUBSET (1..last) /\ \A i \in S : i \in DOMAIN refs[u] /\ peerOf(u, i) = p
  BY <1>11, <1>12, InHistory DEF visible
<1>14. PICK m : m = newest(S, 1)
  OBVIOUS
<1>15. /\ m \in Seq(S)
       /\ S # {} => m # <<>>
       /\ \A i \in S : (\E k \in DOMAIN m : m[k] = i) \/ \A k \in DOMAIN m : i < m[k]
  <2>1. PICK n1 \in Nat : n1 = 1 /\ n1 > 0
    OBVIOUS
  <2>2. m = newest(S, n1)
    BY <1>14, <2>1
  <2> QED BY <1>13, <2>1, <2>2, NewestListed
<1>16. \A k \in DOMAIN m : m[k] \in S /\ m[k] \in Nat
  <2>1. \A k \in DOMAIN m : m[k] \in S
    BY <1>15
  <2>2. \A i \in S : i \in Nat
    BY <1>13
  <2> QED BY <2>1, <2>2
<1>17. m \in Seq(Nat)
  BY <1>15, <1>16, SeqDef
<1>18. ASSUME NEW i \in S
       PROVE  \E k \in DOMAIN m : m[k] >= i
  <2>1. m # <<>> /\ i \in Nat
    BY <1>13, <1>15
  <2>2. 1 \in DOMAIN m
    BY <1>17, <2>1
  <2>3. CASE \E k \in DOMAIN m : m[k] = i
    BY <2>1, <2>3
  <2>4. CASE \A k \in DOMAIN m : i < m[k]
    BY <1>16, <2>1, <2>2, <2>4
  <2> QED BY <1>15, <2>3, <2>4
<1>19. PICK b : b = a \o m
  OBVIOUS
<1>20. b \in Seq(Nat) /\ joins(a, m, b)
  BY <1>17, <1>19, ConcatRange
<1>21. PICK q : q = [r EXCEPT !.messages = b, !.turn = n]
  OBVIOUS
<1>22. request' = q /\ UNCHANGED <<storeVars, drafts>>
  <2>1. topMessage(r.self, r.dialogs[n]) = m
    BY <1>5, <1>6, <1>10, <1>12, <1>14 DEF topMessage, page
  <2> QED BY <1>2, <1>7, <1>8, <1>9, <1>19, <1>21, <2>1 DEF readTop, reply
<1>23. n \in Nat
  BY <1>9
<1>24. /\ q \in Req /\ q.messages = b /\ q.turn = n /\ q.method = r.method /\ q.pc = r.pc
       /\ q.self = u /\ q.held = r.held /\ q.knew = r.knew /\ q.read = r.read /\ q.dialogs = ds
       /\ q.drafts = r.drafts /\ q.peers = r.peers /\ q.cut = r.cut
  BY <1>3, <1>5, <1>6, <1>20, <1>21, <1>23 DEF Req
<1>25. requestOK(q) /\ historyOK(q)
  BY <1>3, <1>5, <1>24 DEF requestOK, historyOK
<1>26. readOK(q) /\ fromRead(q)
  BY <1>4, <1>5, <1>6, <1>24 DEF readOK, fromRead
<1>27. owned(u, ds, b)
  <2>1. ASSUME NEW k \in DOMAIN b
        PROVE  b[k] \in DOMAIN refs[u] /\ \E l \in DOMAIN ds : ds[l].peer = peerOf(u, b[k])
    <3>1. ASSUME NEW l \in DOMAIN a, b[k] = a[l]
          PROVE  b[k] \in DOMAIN refs[u] /\ \E j \in DOMAIN ds : ds[j].peer = peerOf(u, b[k])
      BY <1>4, <1>5, <1>6, <1>7, <3>1 DEF topOK, owned
    <3>2. ASSUME NEW l \in DOMAIN m, b[k] = m[l]
          PROVE  b[k] \in DOMAIN refs[u] /\ \E j \in DOMAIN ds : ds[j].peer = peerOf(u, b[k])
      BY <1>10, <1>13, <1>16, <3>2
    <3> QED BY <1>20, <3>1, <3>2 DEF joins
  <2> QED BY <2>1 DEF owned
<1>28. ASSUME NEW l \in 1..n
       PROVE  shown(u, r.held, ds[l], b)
  <2>1. CASE l = n
    <3>1. ASSUME NEW i \in S
          PROVE  \E k \in DOMAIN b : b[k] >= i /\ peerOf(u, b[k]) = p
      <4>1. PICK k \in DOMAIN m : m[k] >= i
        BY <1>18
      <4>2. peerOf(u, m[k]) = p
        BY <1>13, <1>16
      <4> QED BY <1>20, <4>1, <4>2 DEF joins
    <3> QED BY <1>10, <1>12, <2>1, <3>1 DEF shown
  <2>2. CASE l # n
    <3>1. l \in 1..t
      BY <1>9, <2>2
    <3>2. shown(u, r.held, ds[l], a)
      BY <1>4, <1>5, <1>6, <1>7, <1>8, <3>1 DEF topOK
    <3> QED BY <1>20, <3>2 DEF shown, joins
  <2> QED BY <2>1, <2>2
<1>29. topOK(q)
  <2>1. n <= Len(ds)
    BY <1>9
  <2> QED BY <1>24, <1>27, <1>28, <2>1 DEF topOK
<1>30. dialogsOK(q)
  BY <1>3, <1>24, <1>26, <1>29 DEF dialogsOK
<1> QED BY <1>1, <1>22, <1>25, <1>30, ReplyKeeps

\* A set of dialogs as a sequence, in any order.
LEMMA SeqOfSet ==
    ASSUME NEW S, IsFiniteSet(S)
    PROVE  /\ SetToSeq(S) \in Seq(S)
           /\ \A k, l \in DOMAIN SetToSeq(S) : SetToSeq(S)[k] = SetToSeq(S)[l] => k = l
<1>1. PICK c \in Nat : c = Cardinality(S) /\ ExistsBijection(1..c, S)
  BY FS_CardinalityType
<1>2. \E f \in [1..c -> S] : IsInjective(f)
  BY <1>1 DEF ExistsBijection, Bijection, Injection
<1>3. SetToSeq(S) \in [1..c -> S] /\ IsInjective(SetToSeq(S))
  BY <1>1, <1>2 DEF SetToSeq
<1>4. SetToSeq(S) \in Seq(S)
  BY <1>3, SeqDef
<1> QED BY <1>3, <1>4 DEF IsInjective

\* The dialogs that drafts alone form: one for each peer that was not read.
LEMMA DraftsAlone ==
    ASSUME NEW r, r \in Req, IsFiniteSet(r.drafts), NEW e, e = draftOnly(r)
    PROVE  /\ e \in Seq(Dialog) /\ distinct(e)
           /\ \A k \in DOMAIN e : \E p \in User :
                 e[k] = NoMessages(p) /\ \A l \in DOMAIN r.read : r.read[l].peer # p
<1>1. r.drafts \in SUBSET User
  BY DEF Req
<1>2. PICK P : P = r.drafts \ {r.read[k].peer : k \in DOMAIN r.read}
  OBVIOUS
<1>3. P \in SUBSET r.drafts /\ \A p \in P : p \in User /\ \A l \in DOMAIN r.read : r.read[l].peer # p
  BY <1>1, <1>2
<1>4. IsFiniteSet(P)
  BY <1>3, FS_Subset
<1>5. PICK S : S = {NoMessages(p) : p \in P}
  OBVIOUS
<1>6. IsFiniteSet(S)
  <2>1. PICK f : f = [p \in P |-> NoMessages(p)]
    OBVIOUS
  <2>2. f \in [P -> S] /\ \A s \in S : \E p \in P : f[p] = s
    BY <1>5, <2>1
  <2>3. f \in Surjection(P, S)
    BY <2>2 DEF Surjection
  <2> QED BY <1>4, <2>3, FS_Surjection
<1>7. e = SetToSeq(S)
  BY <1>2, <1>5 DEF draftOnly
<1>8. e \in Seq(S) /\ \A k, l \in DOMAIN e : e[k] = e[l] => k = l
  BY <1>6, <1>7, SeqOfSet
<1>9. \A k \in DOMAIN e : e[k] \in S
  BY <1>8
<1>10. ASSUME NEW k \in DOMAIN e
       PROVE  \E p \in P : e[k] = NoMessages(p) /\ e[k].peer = p /\ e[k] \in Dialog
  <2>1. PICK p \in P : e[k] = NoMessages(p)
    BY <1>5, <1>9
  <2> QED BY <1>3, <2>1, NoMessagesType
<1>11. e \in Seq(Dialog)
  BY <1>8, <1>10, SeqDef
<1>12. distinct(e)
  <2>1. ASSUME NEW k \in DOMAIN e, NEW l \in DOMAIN e, e[k].peer = e[l].peer
        PROVE  k = l
    <3>1. e[k] = e[l]
      BY <1>10, <2>1
    <3> QED BY <1>8, <3>1
  <2> QED BY <2>1 DEF distinct
<1> QED BY <1>3, <1>10, <1>11, <1>12

\* A conversation that a complete list lacks was empty when the client asked, or is now:
\* zeroes agree with the log.
LEMMA AbsentAgrees ==
    ASSUME NEW u \in User, NEW held \in Nat, NEW knew, NEW ds, complete(u, held, ds),
           NEW p \in User, \A l \in DOMAIN ds : ds[l].peer # p
    PROVE  agrees(u, held, knew, NoMessages(p))
<1>2. ASSUME NEW i \in GetHistory(u, p, 0), i <= held
      PROVE  FALSE
  <2>1. i \in visible(u) /\ peerOf(u, i) = p
    BY InHistory
  <2> QED BY <1>2, <2>1 DEF complete
<1>3. PICK d : d = NoMessages(p)
  OBVIOUS
<1>4. d.peer = p /\ d.readOutboxMaxID = 0 /\ d.unreadCount = 0 /\ d.readInboxMaxID = 0
  BY <1>3 DEF NoMessages
<1>5. inboxOf(u, p, held) = {}
  BY <1>2 DEF inboxOf
<1>6. \E U \in SUBSET DOMAIN refs[u] :
          /\ d.unreadCount = Cardinality(U)
          /\ \A i \in inboxOf(u, p, held) : refs[u][i].unread => i \in U
          /\ \A i \in U : /\ ~refs[u][i].out /\ peerOf(u, i) = p
                          /\ ~covered(u, "readinbox", p, i, knew)
  <2>1. {} \in SUBSET DOMAIN refs[u] /\ d.unreadCount = Cardinality({})
    BY <1>4, FS_EmptySet
  <2> QED BY <1>5, <2>1
<1>7. agrees(u, held, knew, d)
  BY <1>2, <1>4, <1>5, <1>6 DEF agrees
<1> QED BY <1>3, <1>7

\* Dialogs put before a list take nothing from it.
LEMMA ListedBehind ==
    ASSUME NEW u, NEW held, NEW e \in Seq(Dialog), NEW ds \in Seq(Dialog), listed(u, held, ds),
           NEW c, c = e \o ds
    PROVE  listed(u, held, c)
<1>1. joins(e, ds, c) /\ c \in Seq(Dialog) /\ Len(e) \in Nat
  BY ConcatRange
<1> SUFFICES ASSUME NEW i \in visible(u), i <= held
             PROVE  \/ \E k \in DOMAIN c : c[k].peer = peerOf(u, i)
                    \/ Cardinality({k \in DOMAIN c : c[k].top > i}) >= DialogsLimit
  BY DEF listed
<1>2. ASSUME NEW k \in DOMAIN ds, ds[k].peer = peerOf(u, i)
      PROVE  \E l \in DOMAIN c : c[l].peer = peerOf(u, i)
  <2>1. Len(e) + k \in DOMAIN c /\ c[Len(e) + k] = ds[k]
    BY <1>1 DEF joins
  <2> QED BY ONLY <1>2, <2>1
<1>3. PICK A : A = {k \in DOMAIN ds : ds[k].top > i}
  OBVIOUS
<1>4. PICK B : B = {k \in DOMAIN c : c[k].top > i}
  OBVIOUS
<1>5. Cardinality(A) <= Cardinality(B) /\ Cardinality(A) \in Nat /\ Cardinality(B) \in Nat
  <2>1. IsFiniteSet(B)
    <3>1. IsFiniteSet(1..Len(c)) /\ DOMAIN c = 1..Len(c)
      BY <1>1, FS_Interval
    <3>2. B \in SUBSET (1..Len(c))
      BY <1>4, <3>1
    <3> QED BY <3>1, <3>2, FS_Subset
  <2>2. PICK f : f = [k \in A |-> Len(e) + k]
    OBVIOUS
  <2>3. ASSUME NEW k \in A
        PROVE  k \in Nat /\ f[k] = Len(e) + k /\ f[k] \in B
    <3>1. k \in DOMAIN ds /\ ds[k].top > i /\ f[k] = Len(e) + k
      BY <1>3, <2>2
    <3>2. Len(e) + k \in DOMAIN c /\ c[Len(e) + k] = ds[k]
      BY <1>1, <3>1 DEF joins
    <3> QED BY <1>4, <3>1, <3>2
  <2>4. f \in Injection(A, B)
    <3>1. f \in [A -> B]
      BY <2>2, <2>3
    <3>2. ASSUME NEW k \in A, NEW l \in A, f[k] = f[l]
          PROVE  k = l
      BY <1>1, <2>3, <3>2
    <3> QED BY <3>1, <3>2 DEF Injection, IsInjective
  <2>5. IsFiniteSet(A) /\ Cardinality(A) <= Cardinality(B)
    BY <2>1, <2>4, FS_Injection
  <2> QED BY <2>1, <2>5, FS_CardinalityType
<1>6. DialogsLimit \in Nat
  BY MailboxAssumption
<1>7. Cardinality(A) >= DialogsLimit => Cardinality(B) >= DialogsLimit
  BY ONLY <1>5, <1>6
<1> QED BY <1>2, <1>3, <1>4, <1>7 DEF listed

\* Nor does a conversation come twice if none of the dialogs in front is in the list.
LEMMA DistinctBehind ==
    ASSUME NEW e \in Seq(Dialog), NEW ds \in Seq(Dialog), distinct(e), distinct(ds),
           \A k \in DOMAIN e, l \in DOMAIN ds : e[k].peer # ds[l].peer, NEW c, c = e \o ds
    PROVE  distinct(c)
<1>1. /\ Len(e) \in Nat /\ Len(ds) \in Nat /\ DOMAIN e = 1..Len(e) /\ DOMAIN ds = 1..Len(ds)
      /\ DOMAIN c = 1..(Len(e) + Len(ds))
      /\ \A k \in 1..Len(e) : c[k] = e[k]
      /\ \A k \in (Len(e) + 1)..(Len(e) + Len(ds)) : c[k] = ds[k - Len(e)]
  OBVIOUS
<1>2. ASSUME NEW k \in DOMAIN c, k \notin DOMAIN e
      PROVE  k - Len(e) \in DOMAIN ds /\ c[k] = ds[k - Len(e)]
  BY <1>1, <1>2
<1>3. ASSUME NEW k \in DOMAIN c, NEW l \in DOMAIN c, c[k].peer = c[l].peer
      PROVE  k = l
  <2>1. CASE k \in DOMAIN e /\ l \in DOMAIN e
    BY <1>1, <1>3, <2>1 DEF distinct
  <2>2. CASE k \notin DOMAIN e /\ l \notin DOMAIN e
    <3>1. k - Len(e) = l - Len(e)
      BY <1>2, <1>3, <2>2 DEF distinct
    <3> QED BY <1>1, <3>1
  <2>3. CASE k \in DOMAIN e /\ l \notin DOMAIN e
    BY <1>1, <1>2, <1>3, <2>3
  <2>4. CASE k \notin DOMAIN e /\ l \in DOMAIN e
    BY <1>1, <1>2, <1>3, <2>4
  <2> QED BY <2>1, <2>2, <2>3, <2>4
<1> QED BY <1>3 DEF distinct

\* The end of the loop: the answer is whole.
LEMMA EndKeeps ==
    ASSUME MailInv, request.pc = "top", ~(request.turn + 1 <= Len(request.dialogs)), readTop
    PROVE  MailInv'
<1>1. Store /\ DraftsOK
  BY DEF MailInv
<1>2. PICK r : r = request
  OBVIOUS
<1>3. /\ requestOK(r) /\ dialogsOK(r) /\ r \in Req /\ r.pc = "top" /\ IsFiniteSet(r.drafts)
      /\ r.method \in {"dialogs", "peerDialogs"}
  BY <1>2 DEF MailInv, requestOK, Req
<1>4. readOK(r) /\ fromRead(r) /\ topOK(r)
  BY <1>3 DEF dialogsOK
<1>5. /\ r.self \in User /\ r.held \in Nat /\ r.knew \in Nat /\ r.turn \in Nat
      /\ r.dialogs \in Seq(Dialog) /\ r.read \in Seq(Dialog)
  BY <1>3 DEF requestOK, Req
<1>6. ASSUME NEW k \in DOMAIN r.dialogs
      PROVE  /\ shown(r.self, r.held, r.dialogs[k], r.messages)
             /\ r.dialogs[k].top <= lastMessageID[r.self]
             /\ r.dialogs[k].top # 0 \/ ~r.cut => agrees(r.self, r.held, r.knew, r.dialogs[k])
  <2>1. k \in 1..r.turn
    BY <1>2, <1>5
  <2>2. shown(r.self, r.held, r.dialogs[k], r.messages)
    BY <1>4, <2>1 DEF topOK
  <2>3. r.dialogs[k].top <= lastMessageID[r.self]
    BY <1>1, <1>4, <1>5, ReadBound
  <2>4. ASSUME NEW l \in DOMAIN r.read, r.dialogs[k] = r.read[l]
        PROVE  agrees(r.self, r.held, r.knew, r.dialogs[k])
    BY <1>4, <2>4 DEF readOK
  <2>5. ASSUME NEW p \in User, r.dialogs[k] = NoMessages(p),
               \A l \in DOMAIN r.read : r.read[l].peer # p,
               r.dialogs[k].top # 0 \/ ~r.cut
        PROVE  agrees(r.self, r.held, r.knew, r.dialogs[k])
    <3>1. ~r.cut
      BY <2>5, NoMessagesType
    <3> QED BY <1>4, <1>5, <2>5, <3>1, AbsentAgrees DEF readOK
  <2> QED BY <1>4, <2>2, <2>3, <2>4, <2>5 DEF fromRead
<1>7. owned(r.self, r.dialogs, r.messages)
  BY <1>4 DEF topOK
<1>8. PICK e : e = draftOnly(r)
  OBVIOUS
<1>9. /\ e \in Seq(Dialog) /\ distinct(e)
      /\ \A k \in DOMAIN e : \E p \in User :
            e[k] = NoMessages(p) /\ \A l \in DOMAIN r.read : r.read[l].peer # p
  BY <1>3, <1>8, DraftsAlone
<1>10. PICK c : c = IF r.method = "dialogs" THEN e \o r.dialogs ELSE r.dialogs
  OBVIOUS
<1>11. c \in Seq(Dialog)
  BY <1>5, <1>9, <1>10
<1>12. PICK q : q = [r EXCEPT !.dialogs = c, !.read = <<>>, !.drafts = {}, !.turn = 0, !.pc = "done"]
  OBVIOUS
<1>13. request' = q /\ UNCHANGED <<storeVars, drafts>>
  BY <1>2, <1>8, <1>10, <1>12 DEF readTop, reply
<1>14. /\ q \in Req /\ q.dialogs = c /\ q.drafts = {} /\ q.pc = "done" /\ q.method = r.method
       /\ q.self = r.self /\ q.held = r.held /\ q.knew = r.knew /\ q.messages = r.messages
       /\ q.cut = r.cut
  <2>1. <<>> \in Seq(Dialog) /\ {} \in SUBSET User /\ 0 \in Nat
    OBVIOUS
  <2> QED BY <1>3, <1>11, <1>12, <2>1 DEF Req
<1>15. requestOK(q) /\ historyOK(q)
  BY <1>3, <1>14, FS_EmptySet DEF requestOK, historyOK
<1>16. wholeOK(q)
  <2>1. CASE r.method = "peerDialogs"
    <3>1. c = r.dialogs
      BY <1>10, <2>1
    <3> QED BY <1>6, <1>7, <1>14, <2>1, <3>1 DEF wholeOK, bounded
  <2>2. CASE r.method = "dialogs"
    <3>1. c = e \o r.dialogs /\ r.dialogs = r.read
      BY <1>4, <1>10, <2>2 DEF fromRead
    <3>2. joins(e, r.dialogs, c)
      BY <1>5, <1>9, <3>1, ConcatRange
    <3>3. listed(r.self, r.held, c)
      <4>1. listed(r.self, r.held, r.dialogs)
        BY <1>4, <3>1 DEF readOK
      <4> QED BY <1>5, <1>9, <3>1, <4>1, ListedBehind
    <3>4. ASSUME NEW k \in DOMAIN e
          PROVE  /\ e[k].top = 0 /\ \A l \in DOMAIN r.dialogs : e[k].peer # r.dialogs[l].peer
                 /\ ~r.cut => agrees(r.self, r.held, r.knew, e[k])
      <4>1. PICK p \in User : e[k] = NoMessages(p) /\ \A l \in DOMAIN r.read : r.read[l].peer # p
        BY <1>9
      <4>2. e[k].top = 0 /\ e[k].peer = p
        BY <4>1, NoMessagesType
      <4>3. ASSUME ~r.cut
            PROVE  agrees(r.self, r.held, r.knew, e[k])
        BY <1>4, <1>5, <4>1, <4>3, AbsentAgrees DEF readOK
      <4> QED BY <3>1, <4>1, <4>2, <4>3
    <3>5. distinct(c)
      <4>1. distinct(r.dialogs)
        BY <1>4, <3>1 DEF readOK
      <4> QED BY <1>5, <1>9, <3>1, <3>4, <4>1, DistinctBehind
    <3>6. owned(r.self, c, r.messages)
      <4>1. \A l \in DOMAIN r.dialogs : \E k \in DOMAIN c : c[k] = r.dialogs[l]
        BY <3>2 DEF joins
      <4> QED BY <1>7, <4>1 DEF owned
    <3>7. lastMessageID[r.self] \in Nat
      BY <1>1, <1>5 DEF Store, StoreInv, Tables
    <3>8. ASSUME NEW k \in DOMAIN c
          PROVE  /\ c[k].top <= lastMessageID[r.self]
                 /\ c[k].top # 0 => shown(r.self, r.held, c[k], r.messages)
                 /\ c[k].top # 0 \/ ~r.cut => agrees(r.self, r.held, r.knew, c[k])
      <4>1. ASSUME NEW l \in DOMAIN e, c[k] = e[l]
            PROVE  /\ c[k].top <= lastMessageID[r.self]
                   /\ c[k].top # 0 => shown(r.self, r.held, c[k], r.messages)
                   /\ c[k].top # 0 \/ ~r.cut => agrees(r.self, r.held, r.knew, c[k])
        BY <3>4, <3>7, <4>1
      <4>2. ASSUME NEW l \in DOMAIN r.dialogs, c[k] = r.dialogs[l]
            PROVE  /\ c[k].top <= lastMessageID[r.self]
                   /\ c[k].top # 0 => shown(r.self, r.held, c[k], r.messages)
                   /\ c[k].top # 0 \/ ~r.cut => agrees(r.self, r.held, r.knew, c[k])
        BY <1>6, <4>2
      <4> QED BY <3>2, <4>1, <4>2 DEF joins
    <3>9. bounded(r.self, c)
      BY <3>8 DEF bounded
    <3> QED BY <1>14, <2>2, <3>3, <3>5, <3>6, <3>8, <3>9 DEF wholeOK
  <2> QED BY <1>3, <2>1, <2>2
<1>17. dialogsOK(q)
  BY <1>14, <1>16 DEF dialogsOK
<1> QED BY <1>1, <1>13, <1>15, <1>17, ReplyKeeps

-----------------------------------------------------------------------------
(* The theorems *)

\* Nothing sent, nothing asked.
LEMMA InitMail ==
    ASSUME MailboxInit
    PROVE  MailInv
<1>1. Init /\ request = NoRequest /\ drafts = [u \in User |-> {}]
  BY DEF MailboxInit
<1>2. Inv /\ StoreInv /\ ReadsInv
  BY <1>1, InitInv, InitStore
<1>3. InboxExact
  <2>1. \A u \in User : updates[u] = <<>> /\ refs[u] = <<>>
    BY <1>1 DEF Init
  <2>2. \A u \in User : DOMAIN updates[u] = {} /\ DOMAIN refs[u] = {}
    BY <2>1
  <2> QED BY <2>2 DEF InboxExact, inboxOK
<1>4. DraftsOK
  BY <1>1, FS_EmptySet DEF DraftsOK
<1>5. NoRequest \in Req /\ NoRequest.method = "none" /\ NoRequest.pc = "done" /\ NoRequest.drafts = {}
  <2>1. <<>> \in Seq(User) /\ <<>> \in Seq(Dialog) /\ <<>> \in Seq(Nat) /\ {} \in SUBSET User
    OBVIOUS
  <2> QED BY <2>1 DEF NoRequest, Req
<1>6. requestOK(request) /\ historyOK(request) /\ dialogsOK(request)
  BY <1>1, <1>5, FS_EmptySet DEF requestOK, historyOK, dialogsOK
<1> QED BY <1>2, <1>3, <1>4, <1>6 DEF MailInv, Store

\* Every step.
LEMMA NextMail ==
    ASSUME MailInv, [MailboxNext]_vars
    PROVE  MailInv'
<1>1. ASSUME Change, UNCHANGED <<drafts, request>>
      PROVE  MailInv'
  <2>1. Store' /\ \A u \in User : kept(u) /\ logKept(u)
    BY <1>1, ChangeKeeps DEF MailInv
  <2>2. PICK r : r = request
    OBVIOUS
  <2>3. requestOK(r)' /\ historyOK(r)' /\ dialogsOK(r)'
    BY <2>1, <2>2, RequestStays DEF MailInv
  <2>4. request' = r /\ DraftsOK'
    BY <1>1, <2>2 DEF MailInv, DraftsOK
  <2> QED BY <2>1, <2>3, <2>4 DEF MailInv
<1>2. CASE readTop
  <2>1. request.pc = "top"
    BY <1>2 DEF readTop
  <2> QED BY <1>2, <2>1, TurnKeeps, EndKeeps
<1>3. CASE UNCHANGED vars
  <2>1. PICK r : r = request
    OBVIOUS
  <2>2. request' = r /\ UNCHANGED <<storeVars, drafts>>
    BY <1>3, <2>1 DEF vars
  <2> QED BY <2>1, <2>2, ReplyKeeps DEF MailInv
<1> QED BY <1>1, <1>2, <1>3, SaveDraftKeeps, AskKeeps, HistoryKeeps, ReadDialogsKeeps,
           ReadDraftsKeeps, ReadStateKeeps DEF MailboxNext

\* What a request has read stays true of the mailbox, whatever the store does between the
\* request's calls.
THEOREM MailboxHolds == MailboxSpec => []MailInv
<1>1. MailboxInit => MailInv
  BY InitMail
<1>2. MailInv /\ [MailboxNext]_vars => MailInv'
  BY NextMail
<1> QED BY <1>1, <1>2, PTL DEF MailboxSpec

\* A client that pages through a conversation sees each of its messages once and misses none
\* (messages.getHistory, messages.getSavedHistory).
THEOREM HistoryIsComplete == MailboxSpec => []HistoryComplete
<1>1. MailInv => HistoryComplete
  <2> SUFFICES ASSUME MailInv, request.method = "history"
               PROVE  HistoryComplete
    BY DEF HistoryComplete
  <2>1. historyOK(request)
    BY DEF MailInv
  <2>2. ASSUME request.pc = "done", NEW i \in GetHistory(request.self, request.peers[1], 0),
               i <= request.held
        PROVE  i \in Range(request.messages)
    BY <2>1, <2>2 DEF historyOK, Range
  <2> QED BY <2>1, <2>2 DEF historyOK, HistoryComplete
<1> QED BY <1>1, MailboxHolds, PTL

\* The dialog list has no peer twice and leaves out no conversation, and the messages that
\* come with an answer are those of its dialogs (messages.getDialogs, getPeerDialogs).
THEOREM DialogsAreWhole == MailboxSpec => []DialogsWhole
<1>1. MailInv => DialogsWhole
  <2> SUFFICES ASSUME MailInv, answered({"dialogs", "peerDialogs"})
               PROVE  DialogsWhole
    BY DEF DialogsWhole
  <2>1. PICK r : r = request
    OBVIOUS
  <2>2. r.method \in {"dialogs", "peerDialogs"} /\ r.pc = "done" /\ requestOK(r)
    BY <2>1 DEF answered, MailInv
  <2>3. wholeOK(r)
    BY <2>1, <2>2 DEF MailInv, dialogsOK
  <2>4. r.self \in User /\ r.held \in Nat
    BY <2>2 DEF requestOK, Req
  <2>5. ASSUME r.method = "dialogs", NEW i \in visible(r.self)
        PROVE  \/ i > r.held
               \/ \E k \in DOMAIN r.dialogs : r.dialogs[k].peer = peerOf(r.self, i)
               \/ Cardinality({k \in DOMAIN r.dialogs : r.dialogs[k].top > i}) >= DialogsLimit
    <3>1. i \in Nat
      BY <2>4, AccountTypes DEF visible, MailInv, Store, StoreInv
    <3>2. i > r.held \/ i <= r.held
      BY <2>4, <3>1
    <3> QED BY <2>3, <2>5, <3>2 DEF wholeOK, listed
  <2>6. ASSUME NEW k \in DOMAIN r.dialogs, r.dialogs[k].top # 0 \/ r.method = "peerDialogs",
               NEW i \in GetHistory(r.self, r.dialogs[k].peer, 0),
               i <= r.held \/ i <= r.dialogs[k].top
        PROVE  \E j \in Range(r.messages) : j >= i /\ peerOf(r.self, j) = r.dialogs[k].peer
    BY <2>3, <2>6 DEF wholeOK, shown, Range
  <2>7. ASSUME NEW i \in Range(r.messages)
        PROVE  \E k \in DOMAIN r.dialogs : r.dialogs[k].peer = peerOf(r.self, i)
    BY <2>3, <2>7 DEF wholeOK, owned, Range
  <2>8. r.method = "dialogs" =>
            \A k, l \in DOMAIN r.dialogs : r.dialogs[k].peer = r.dialogs[l].peer => k = l
    BY <2>3 DEF wholeOK, distinct
  <2> QED BY <2>1, <2>5, <2>6, <2>7, <2>8 DEF DialogsWhole
<1> QED BY <1>1, MailboxHolds, PTL

\* The read state of one dialog.
LEMMA AgreedIsReal ==
    ASSUME Store, NEW u \in User, NEW held \in Nat, NEW knew \in Nat, NEW d \in Dialog,
           agrees(u, held, knew, d), d.peer # u, NEW ids, NEW incoming, NEW maybeUnread,
           ids = {i \in GetHistory(u, d.peer, 0) : i <= held},
           incoming = {i \in ids : ~refs[u][i].out},
           maybeUnread = {i \in DOMAIN refs[u] :
                             /\ ~refs[u][i].out /\ peerOf(u, i) = d.peer
                             /\ ~covered(u, "readinbox", d.peer, i, knew)}
    PROVE  /\ \A i \in ids \ incoming :
                 /\ covered(u, "readoutbox", d.peer, i, knew) => i <= d.readOutboxMaxID
                 /\ i <= d.readOutboxMaxID => covered(u, "readoutbox", d.peer, i, pts[u])
           /\ Cardinality({i \in incoming : refs[u][i].unread}) <= d.unreadCount
           /\ d.unreadCount <= Cardinality(maybeUnread)
           /\ \A i \in incoming : i <= d.readInboxMaxID => ~refs[u][i].unread
<1>1. Tables
  BY DEF Store, StoreInv
<1>2. PICK last \in Nat : DOMAIN refs[u] = 1..last
  BY <1>1, AccountTypes
<1>3. ASSUME NEW i \in ids
      PROVE  i \in Nat /\ i > 0 /\ i \in GetHistory(u, d.peer, 0) /\ i <= held
  BY <1>2 DEF GetHistory, visible
<1>4. incoming = inboxOf(u, d.peer, held)
  BY DEF inboxOf
<1>5. ASSUME NEW i \in ids, i \notin incoming
      PROVE  /\ covered(u, "readoutbox", d.peer, i, knew) => i <= d.readOutboxMaxID
             /\ i <= d.readOutboxMaxID => covered(u, "readoutbox", d.peer, i, pts[u])
  <2>1. refs[u][i].out
    BY <1>5
  <2>2. covered(u, "readoutbox", d.peer, i, knew) => i <= d.readOutboxMaxID
    BY <1>3, <2>1 DEF agrees
  <2>3. ASSUME i <= d.readOutboxMaxID
        PROVE  covered(u, "readoutbox", d.peer, i, pts[u])
    <3>1. PICK m \in Nat : m = d.readOutboxMaxID
      BY DEF Dialog
    <3>2. m # 0 /\ i \in Nat /\ i <= m
      BY <1>3, <2>3, <3>1
    <3>3. covered(u, "readoutbox", d.peer, m, pts[u])
      BY <3>1, <3>2 DEF agrees
    <3>4. PICK k \in DOMAIN updates[u] :
              /\ updates[u][k].type = "readoutbox" /\ updates[u][k].peer = d.peer
              /\ updates[u][k].maxID >= m /\ updates[u][k].pts <= pts[u]
      BY <3>3 DEF covered
    <3>5. updates[u][k].maxID \in Nat
      BY <1>1, AccountTypes
    <3>6. updates[u][k].maxID >= i
      BY ONLY <3>1, <3>2, <3>4, <3>5
    <3> QED BY <3>4, <3>6 DEF covered
  <2> QED BY <2>2, <2>3
<1>6. PICK U \in SUBSET DOMAIN refs[u] :
          /\ d.unreadCount = Cardinality(U)
          /\ \A i \in inboxOf(u, d.peer, held) : refs[u][i].unread => i \in U
          /\ \A i \in U : /\ ~refs[u][i].out /\ peerOf(u, i) = d.peer
                          /\ ~covered(u, "readinbox", d.peer, i, knew)
  BY DEF agrees
<1>7. PICK A : A = {i \in incoming : refs[u][i].unread}
  OBVIOUS
<1>8. A \in SUBSET U /\ U \in SUBSET maybeUnread /\ maybeUnread \in SUBSET (1..last)
  BY <1>2, <1>4, <1>6, <1>7
<1>9. IsFiniteSet(maybeUnread)
  <2>1. IsFiniteSet(1..last)
    BY FS_Interval
  <2> QED BY <1>8, <2>1, FS_Subset
<1>10. IsFiniteSet(U) /\ Cardinality(U) <= Cardinality(maybeUnread)
  BY <1>8, <1>9, FS_Subset
<1>11. Cardinality(A) <= Cardinality(U)
  BY <1>8, <1>10, FS_Subset
<1>12. \A i \in incoming : i <= d.readInboxMaxID => ~refs[u][i].unread
  BY <1>4 DEF agrees
<1> QED BY <1>5, <1>6, <1>7, <1>10, <1>11, <1>12

\* The dialogs of an answer agree with the update stream, all but zeroes shown for a
\* conversation behind those GetDialogs returned.
THEOREM ReadStateIsReal == MailboxSpec => []ReadStateReal
<1>1. MailInv => ReadStateReal
  <2> SUFFICES ASSUME MailInv, answered({"dialogs", "peerDialogs"})
               PROVE  ReadStateReal
    BY DEF ReadStateReal
  <2>1. PICK r : r = request
    OBVIOUS
  <2>2. r.method \in {"dialogs", "peerDialogs"} /\ r.pc = "done" /\ requestOK(r) /\ Store
    BY <2>1 DEF answered, MailInv
  <2>3. wholeOK(r)
    BY <2>1, <2>2 DEF MailInv, dialogsOK
  <2>4. r.self \in User /\ r.held \in Nat /\ r.knew \in Nat /\ r.dialogs \in Seq(Dialog)
    BY <2>2 DEF requestOK, Req
  <2>5. ASSUME NEW k \in DOMAIN r.dialogs, r.dialogs[k].top # 0 \/ ~r.cut
        PROVE  r.dialogs[k] \in Dialog /\ agrees(r.self, r.held, r.knew, r.dialogs[k])
    <3>1. r.dialogs[k] \in Dialog
      BY <2>4
    <3>2. agrees(r.self, r.held, r.knew, r.dialogs[k])
      BY <2>3, <2>5 DEF wholeOK
    <3> QED BY <3>1, <3>2
  <2>6. ASSUME NEW k \in DOMAIN r.dialogs, r.dialogs[k].peer # r.self,
               r.dialogs[k].top # 0 \/ ~r.cut
        PROVE  LET d == r.dialogs[k]
                   ids == {i \in GetHistory(r.self, d.peer, 0) : i <= r.held}
                   incoming == {i \in ids : ~refs[r.self][i].out}
                   maybeUnread == {i \in DOMAIN refs[r.self] :
                       /\ ~refs[r.self][i].out /\ peerOf(r.self, i) = d.peer
                       /\ ~covered(r.self, "readinbox", d.peer, i, r.knew)}
               IN  /\ \A i \in ids \ incoming :
                         /\ covered(r.self, "readoutbox", d.peer, i, r.knew)
                               => i <= d.readOutboxMaxID
                         /\ i <= d.readOutboxMaxID
                               => covered(r.self, "readoutbox", d.peer, i, pts[r.self])
                   /\ Cardinality({i \in incoming : refs[r.self][i].unread}) <= d.unreadCount
                   /\ d.unreadCount <= Cardinality(maybeUnread)
                   /\ \A i \in incoming : i <= d.readInboxMaxID => ~refs[r.self][i].unread
    <3>1. r.dialogs[k] \in Dialog /\ agrees(r.self, r.held, r.knew, r.dialogs[k])
      BY <2>5, <2>6
    <3>2. PICK d \in Dialog : d = r.dialogs[k]
      BY <3>1
    <3> QED BY <2>2, <2>4, <2>6, <3>1, <3>2, AgreedIsReal
  <2> QED BY <2>1, <2>6, Zenon DEF ReadStateReal
<1> QED BY <1>1, MailboxHolds, PTL
=============================================================================
