--------------------------- MODULE Upload_proofs ---------------------------
(***************************************************************************)
(* Proofs about Upload, for every set of clients and files, any number of  *)
(* handlers, readers and faults and any size of a download's chunk.        *)
(***************************************************************************)
EXTENDS Upload, FiniteSetTheorems, SequenceTheorems, WellFoundedInduction, TLAPS

\* A non-empty bounded set of natural numbers has a largest element.
LEMMA MaxExists ==
    ASSUME NEW n \in Nat, NEW S \in SUBSET (0..n), S # {}
    PROVE  \E i \in S : \A j \in S : j <= i
<1> DEFINE T == {n - i : i \in S}
           R == OpToRel(<, Nat)
<1>1. T \subseteq Nat /\ T # {}
  <2>1. \A i \in S : n - i \in Nat
    OBVIOUS
  <2>2. \E i \in S : TRUE
    OBVIOUS
  <2> QED BY <2>1, <2>2
<1>2. IsWellFoundedOn(R, Nat)
  BY NatLessThanWellFounded
<1>3. PICK x \in T : \A y \in T : ~(<<y, x>> \in R)
  <2> HIDE DEF T, R
  <2> QED BY <1>1, <1>2, WFMin
<1>4. PICK i \in S : x = n - i
  OBVIOUS
<1>5. ASSUME NEW j \in S
      PROVE  j <= i
  <2>1. n - j \in T /\ n - j \in Nat /\ x \in Nat
    BY <1>1
  <2>2. ~(n - j < x)
    BY <1>3, <2>1 DEF OpToRel
  <2> QED BY <1>4, <2>2
<1> QED BY <1>5

\* A finite set of part numbers has a bound: the last staged part's number.
Finite == {S \in SUBSET Nat : \E n \in Nat : S \subseteq 0..n}

\* The number of elements of S up to i.
rank(S, i) == Cardinality({j \in S : j <= i})

\* A bounded set of part numbers is finite, so that it has a cardinality.
LEMMA FiniteParts ==
    ASSUME NEW S \in Finite
    PROVE  IsFiniteSet(S) /\ Cardinality(S) \in Nat
<1>1. PICK n \in Nat : S \subseteq 0..n
  BY DEF Finite
<1>2. IsFiniteSet(0..n)
  BY FS_Interval
<1> QED BY <1>1, <1>2, FS_Subset, FS_CardinalityType

\* Some of finitely many part numbers are finitely many.
LEMMA FiniteSubset ==
    ASSUME NEW S \in Finite, NEW T \in SUBSET S
    PROVE  T \in Finite
  BY DEF Finite

\* Every position up to the number of parts is the rank of one of them, so that
\* assemble's CHOOSE finds a part.
LEMMA RankExists ==
    ASSUME NEW S \in Finite, NEW k \in 1..Cardinality(S)
    PROVE  \E i \in S : rank(S, i) = k
<1> DEFINE c == Cardinality(S)
           Bad == {m \in 0..c : m >= 1 /\ ~ \E i \in S : rank(S, i) = m}
<1>1. c \in Nat /\ IsFiniteSet(S) /\ \A j \in S : j \in Nat
  BY FiniteParts DEF Finite
<1>2. SUFFICES ASSUME Bad # {} PROVE FALSE
  BY <1>1
<1>3. PICK m \in Bad : \A j \in Bad : j <= m
  <2> HIDE DEF Bad
  <2>1. Bad \in SUBSET (0..c)
    BY DEF Bad
  <2> QED BY <1>1, <1>2, <2>1, MaxExists
\* The elements of which m is the number, if there are more than m.
<1>4. PICK T \in SUBSET S : Cardinality(T) = m /\ (\E i \in Nat : T = {j \in S : j < i})
  <2>1. CASE m = c
    <3>1. PICK n \in Nat : S \subseteq 0..n
      BY DEF Finite
    <3>2. \A j \in S : j < n + 1
      BY <1>1, <3>1
    <3>3. S = {j \in S : j < n + 1} /\ n + 1 \in Nat
      BY <3>2
    <3> QED BY <2>1, <3>3
  <2>2. CASE m # c
    <3>1. m + 1 \in 0..c /\ m + 1 \notin Bad
      BY <1>1, <1>3, <2>2
    <3>2. PICK i \in S : rank(S, i) = m + 1
      BY <3>1
    <3> DEFINE T == {j \in S : j < i}
    <3>3. i \in Nat /\ T \in SUBSET S /\ i \notin T
      BY <1>1
    <3>4. {j \in S : j <= i} = T \cup {i}
      <4>1. \A j \in S : j <= i <=> j < i \/ j = i
        BY <1>1, <3>3
      <4> QED BY <4>1
    <3>5. IsFiniteSet(T)
      BY <1>1, <3>3, FS_Subset
    <3>6. Cardinality(T \cup {i}) = Cardinality(T) + 1 /\ Cardinality(T) \in Nat
      BY <3>3, <3>5, FS_AddElement, FS_CardinalityType
    <3>7. Cardinality(T) = m
      <4>1. rank(S, i) = Cardinality(T \cup {i})
        BY <3>4 DEF rank
      <4>2. m \in Nat
        BY <1>3
      <4> HIDE DEF T
      <4>3. Cardinality(T) + 1 = m + 1
        BY <3>2, <3>6, <4>1
      <4> QED BY <3>6, <4>2, <4>3
    <3> QED BY <3>3, <3>7
  <2> QED BY <2>1, <2>2
<1>5. T \in Finite /\ T # {}
  <2>1. T # {}
    BY <1>3, <1>4, FS_EmptySet
  <2> QED BY <2>1, FiniteSubset
<1>6. PICK i \in T : \A j \in T : j <= i
  <2>1. PICK n \in Nat : T \in SUBSET (0..n)
    BY <1>5 DEF Finite
  <2> QED BY <1>5, <2>1, MaxExists
<1>7. {j \in S : j <= i} = T
  <2>1. PICK b \in Nat : T = {j \in S : j < b}
    BY <1>4
  <2>2. i \in Nat /\ i < b
    BY <1>1, <1>6, <2>1
  <2>3. \A j \in S : j <= i <=> j \in T
    BY <1>1, <1>6, <2>1, <2>2
  <2> QED BY <2>3
<1> QED
  BY <1>3, <1>4, <1>6, <1>7 DEF rank

\* What a staged file may hold: finitely many parts.
Parts == UNION {[S -> Byte] : S \in Finite}

\* A part more leaves finitely many.
LEMMA WithPartType ==
    ASSUME NEW f \in Parts, NEW i \in Nat, NEW b \in Byte
    PROVE  withPart(f, i, b) \in Parts
<1>1. PICK S \in Finite : f \in [S -> Byte]
  BY DEF Parts
<1>2. S \cup {i} \in Finite
  <2>1. PICK n \in Nat : S \subseteq 0..n
    BY DEF Finite
  <2>2. S \subseteq Nat
    BY DEF Finite
  <2>3. S \cup {i} \subseteq 0..(n + i) /\ n + i \in Nat
    BY <2>1
  <2> QED BY <2>2, <2>3 DEF Finite
<1>3. withPart(f, i, b) \in [S \cup {i} -> Byte]
  BY <1>1 DEF withPart
<1> QED BY <1>2, <1>3 DEF Parts

\* assemble yields a sequence of bytes, one for each part there is.
LEMMA AssembleType ==
    ASSUME NEW f \in Parts
    PROVE  assemble(f) \in Seq(Byte)
<1>1. PICK S \in Finite : f \in [S -> Byte]
  BY DEF Parts
<1>2. DOMAIN f = S /\ Cardinality(S) \in Nat
  BY <1>1, FiniteParts
<1> DEFINE at(k) == CHOOSE i \in DOMAIN f : Cardinality({j \in DOMAIN f : j <= i}) = k
<1>3. ASSUME NEW k \in 1..Cardinality(S)
      PROVE  f[at(k)] \in Byte
  <2>1. \E i \in S : Cardinality({j \in S : j <= i}) = k
    BY RankExists DEF rank
  <2>2. at(k) \in S
    BY <1>2, <2>1
  <2> QED BY <1>1, <2>2
<1>4. assemble(f) = [k \in 1..Cardinality(S) |-> f[at(k)]]
  BY <1>2 DEF assemble
<1> HIDE DEF at
<1>5. assemble(f) \in [1..Cardinality(S) -> Byte]
  BY <1>3, <1>4
<1> QED BY <1>2, <1>5, SeqDef

-----------------------------------------------------------------------------
(* The inductive invariant *)

\* Where a goroutine may stand.
PC == {"idle", "file", "put", "take", "assemble", "copy", "putObject", "saveFile", "sendMessage"}

HandlerState ==
    [pc : PC, client : Client, fileID : FileID, part : Nat, awaited : BOOLEAN, staged : Nat,
     data : Seq(Byte), temp : Seq(Byte), row : Nat, whole : BOOLEAN]

MediaMessage == [from : Client, fileID : FileID, row : Nat, whole : BOOLEAN]

Types ==
    /\ staging \in [Client \X FileID -> Nat]
    /\ staged \in Seq(Parts)
    /\ handler \in [Handler -> HandlerState]
    /\ rows \in Seq(Seq(Byte))
    /\ messages \in Seq(MediaMessage)

\* The staging area names staged files that exist.
StagingFound == \A k \in Client \X FileID : staging[k] # 0 => staging[k] \in 1..Len(staged)

\* An object is what its key says, and what rows and messages refer to is stored.
ObjectsKept ==
    /\ \A k \in DOMAIN objects : objects[k] = k
    /\ \A i \in DOMAIN rows : rows[i] \in DOMAIN objects
    /\ \A m \in DOMAIN messages : messages[m].row \in DOMAIN rows

\* A handler with state r, when n staged files, the objects O and the rows R exist, works
\* on a staged file that exists, its temporary file is the beginning of what it puts, and
\* it has stored what its later steps refer to.
handlerOK(r, n, O, R) ==
    /\ r.pc \in {"file", "put"} => r.part \in Part(r.client)
    /\ r.pc \in {"put", "assemble"} => r.staged \in 1..n
    /\ r.pc = "copy" =>
          Len(r.temp) <= Len(r.data) /\ \A k \in 1..Len(r.temp) : r.temp[k] = r.data[k]
    /\ r.pc \in {"saveFile", "sendMessage"} => r.data \in O
    /\ r.pc = "sendMessage" => r.row \in R

HandlersOK ==
    \A h \in Handler : handlerOK(handler[h], Len(staged), DOMAIN objects, DOMAIN rows)

Inv == Types /\ StagingFound /\ ObjectsKept /\ HandlersOK

\* A handler without a request satisfies it all.
LEMMA IdleOK ==
    /\ Idle \in HandlerState
    /\ \A n, O, R : handlerOK(Idle, n, O, R)
<1>1. (CHOOSE c \in Client : TRUE) \in Client
  BY UploadAssumption
<1>2. 1 \in FileID
  BY UploadAssumption DEF FileID
<1>3. <<>> \in Seq(Byte)
  OBVIOUS
<1> QED BY <1>1, <1>2, <1>3 DEF Idle, HandlerState, PC, handlerOK

\* The empty stores satisfy the invariant.
LEMMA InitInv == Init => Inv
<1> SUFFICES ASSUME Init PROVE Inv
  OBVIOUS
<1> USE DEF Init
<1>1. Types
  BY IdleOK DEF Types
<1>2. StagingFound /\ ObjectsKept
  BY DEF StagingFound, ObjectsKept
<1>3. HandlersOK
  BY IdleOK DEF HandlersOK
<1> QED BY <1>1, <1>2, <1>3 DEF Inv

\* When one handler moves to a good state and the stores lose nothing, every handler is
\* in a good state.
LEMMA HandlerMoves ==
    ASSUME Inv, NEW h \in Handler,
           handler' = [handler EXCEPT ![h] = handler'[h]], handler'[h] \in HandlerState,
           Len(staged) \in Nat, Len(staged') \in Nat, Len(staged) <= Len(staged'),
           DOMAIN objects \subseteq DOMAIN objects', DOMAIN rows \subseteq DOMAIN rows',
           handlerOK(handler'[h], Len(staged'), DOMAIN objects', DOMAIN rows')
    PROVE  handler' \in [Handler -> HandlerState] /\ HandlersOK'
<1>1. handler' \in [Handler -> HandlerState]
  BY DEF Inv, Types
<1>2. ASSUME NEW g \in Handler
      PROVE  handlerOK(handler'[g], Len(staged'), DOMAIN objects', DOMAIN rows')
  <2>1. CASE g = h
    BY <2>1 DEF Inv, Types
  <2>2. CASE g # h
    <3>1. handler'[g] = handler[g]
      BY <2>2 DEF Inv, Types
    <3>2. handlerOK(handler[g], Len(staged), DOMAIN objects, DOMAIN rows)
      BY DEF Inv, HandlersOK
    <3>3. handlerOK(handler[g], Len(staged'), DOMAIN objects', DOMAIN rows')
      BY <3>2 DEF handlerOK
    <3> QED BY <3>1, <3>3
  <2> QED BY <2>1, <2>2
<1> QED BY <1>1, <1>2 DEF HandlersOK

\* Looking a staged file up, or making one, keeps the invariant.
LEMMA StagingFileKeeps ==
    ASSUME Inv, NEW h \in Handler, stagingFile(h)
    PROVE  Inv'
<1> DEFINE k == keyOf(h)
           n == staging'[k]
           r == [handler[h] EXCEPT !.staged = n, !.pc = "put"]
<1>1. k \in Client \X FileID /\ handler[h] \in HandlerState
  BY DEF Inv, Types, keyOf, stagingKey, HandlerState
<1>2. UNCHANGED <<objects, rows, messages>>
  BY DEF stagingFile, stores
<1>3. /\ staging \in [Client \X FileID -> Nat] /\ staged \in Seq(Parts) /\ Len(staged) \in Nat
      /\ StagingFound
  BY DEF Inv, Types
<1>4. /\ staged' \in Seq(Parts) /\ Len(staged') \in Nat /\ Len(staged) <= Len(staged')
      /\ staging' \in [Client \X FileID -> Nat]
      /\ StagingFound'
      /\ n \in 1..Len(staged')
  <2>1. CASE staging[k] = 0
    <3>1. <<>> \in Parts
      <4>1. {} \in Finite /\ <<>> \in [{} -> Byte]
        BY DEF Finite
      <4> QED BY <4>1 DEF Parts
    <3>2. staged' = Append(staged, <<>>) /\ staging' = [staging EXCEPT ![k] = Len(staged) + 1]
      BY <2>1 DEF stagingFile
    <3>3. staged' \in Seq(Parts) /\ Len(staged') = Len(staged) + 1
      BY <1>3, <3>1, <3>2, AppendProperties
    <3> HIDE DEF k
    <3> QED BY <1>1, <1>3, <3>2, <3>3 DEF StagingFound
  <2>2. CASE staging[k] # 0
    <3>1. UNCHANGED <<staged, staging>>
      BY <2>2 DEF stagingFile
    <3> HIDE DEF k
    <3> QED BY <1>1, <1>3, <2>2, <3>1 DEF StagingFound
  <2> QED BY <2>1, <2>2
<1>5. r \in HandlerState /\ handlerOK(r, Len(staged'), DOMAIN objects', DOMAIN rows')
  <2>1. handler[h].part \in Part(handler[h].client)
    BY DEF stagingFile, Inv, HandlersOK, handlerOK
  <2> HIDE DEF n, k
  <2>2. n \in Nat
    BY <1>4
  <2>3. r \in HandlerState
    BY <1>1, <2>2 DEF HandlerState, PC
  <2>4. /\ r.pc = "put" /\ r.staged = n
        /\ r.part = handler[h].part /\ r.client = handler[h].client
    BY <1>1 DEF HandlerState
  <2> HIDE DEF r
  <2> QED BY <1>4, <2>1, <2>3, <2>4 DEF handlerOK
<1>6. handler' = [handler EXCEPT ![h] = r] /\ handler'[h] = r
  BY DEF stagingFile, Inv, Types
<1>7. handler' \in [Handler -> HandlerState] /\ HandlersOK'
  <2> HIDE DEF n, k, r
  <2> QED BY <1>2, <1>3, <1>4, <1>5, <1>6, HandlerMoves
<1>8. Types'
  BY <1>2, <1>4, <1>7 DEF Inv, Types
<1>9. ObjectsKept'
  BY <1>2 DEF Inv, ObjectsKept
<1> QED BY <1>4, <1>7, <1>8, <1>9 DEF Inv

\* A part put into a staged file keeps the invariant.
LEMMA PutPartKeeps ==
    ASSUME Inv, NEW h \in Handler, putPart(h)
    PROVE  Inv'
<1> DEFINE r == handler[h]
<1>1. /\ r \in HandlerState /\ r.pc = "put" /\ r.part \in Part(r.client)
      /\ r.staged \in 1..Len(staged)
  BY DEF putPart, Inv, Types, HandlersOK, handlerOK
<1>2. r.client \in Client /\ r.part \in Nat
  BY <1>1 DEF HandlerState
<1>3. file[r.client][r.part] \in Byte
  BY <1>1, <1>2, UploadAssumption DEF Part
<1>4. staged \in Seq(Parts) /\ Len(staged) \in Nat /\ DOMAIN staged = 1..Len(staged)
  BY DEF Inv, Types
<1>5. withPart(staged[r.staged], r.part, file[r.client][r.part]) \in Parts
  BY <1>1, <1>2, <1>3, <1>4, WithPartType
<1>6. staged' \in Seq(Parts) /\ Len(staged') = Len(staged)
  <2>1. staged' = [staged EXCEPT ![r.staged] =
                      withPart(staged[r.staged], r.part, file[r.client][r.part])]
    BY DEF putPart
  <2> HIDE DEF r
  <2> QED BY <1>1, <1>4, <1>5, <2>1, ExceptSeq
<1>7. UNCHANGED <<staging, objects, rows, messages>>
  BY DEF putPart, stores
<1>8. handler' = [handler EXCEPT ![h] = Idle] /\ handler'[h] = Idle
  BY DEF putPart, Inv, Types
<1>9. handler' \in [Handler -> HandlerState] /\ HandlersOK'
  <2>1. /\ Len(staged') \in Nat /\ Len(staged) <= Len(staged')
        /\ DOMAIN objects \subseteq DOMAIN objects' /\ DOMAIN rows \subseteq DOMAIN rows'
    BY <1>4, <1>6, <1>7
  <2>2. handlerOK(Idle, Len(staged'), DOMAIN objects', DOMAIN rows') /\ Idle \in HandlerState
    BY IdleOK
  <2> QED BY <1>4, <1>8, <2>1, <2>2, HandlerMoves
<1> QED BY <1>6, <1>7, <1>9 DEF Inv, Types, StagingFound, ObjectsKept

\* A handler that moves on, or ends, while nothing but the staging area changes, and that
\* to nothing.
LEMMA StoresSame ==
    ASSUME Inv, NEW h \in Handler,
           UNCHANGED <<staged, objects, rows, messages>>,
           staging' \in [Client \X FileID -> Nat],
           \A k \in Client \X FileID : staging'[k] \in {0, staging[k]},
           handler' = [handler EXCEPT ![h] = handler'[h]], handler'[h] \in HandlerState,
           handlerOK(handler'[h], Len(staged), DOMAIN objects, DOMAIN rows)
    PROVE  Inv'
<1>1. Len(staged) \in Nat
  BY DEF Inv, Types
<1>2. handler' \in [Handler -> HandlerState] /\ HandlersOK'
  BY <1>1, HandlerMoves
<1> QED BY <1>2 DEF Inv, Types, StagingFound, ObjectsKept

\* So does a request that is refused.
LEMMA RefuseKeeps ==
    ASSUME Inv, NEW h \in Handler, refuse(h), UNCHANGED <<staging, staged, stores>>
    PROVE  Inv'
<1>1. handler' = [handler EXCEPT ![h] = Idle] /\ handler'[h] = Idle
  BY DEF refuse, Inv, Types
<1>2. UNCHANGED <<staged, objects, rows, messages>> /\ staging' = staging
  BY DEF stores
<1>3. staging' \in [Client \X FileID -> Nat]
  BY <1>2 DEF Inv, Types
<1>4. handlerOK(Idle, Len(staged), DOMAIN objects, DOMAIN rows) /\ Idle \in HandlerState
  BY IdleOK
<1>5. \A k \in Client \X FileID : staging'[k] \in {0, staging[k]}
  BY <1>2
<1> QED BY <1>1, <1>2, <1>3, <1>4, <1>5, StoresSame

\* Taking a staged file keeps the invariant.
LEMMA TakeKeeps ==
    ASSUME Inv, NEW h \in Handler, take(h)
    PROVE  Inv'
<1> DEFINE k == keyOf(h)
           r == [handler[h] EXCEPT !.staged = staging[k], !.pc = "assemble",
                                   !.whole = k \notin spoilt]
<1>1. k \in Client \X FileID /\ handler[h] \in HandlerState
  BY DEF Inv, Types, keyOf, stagingKey, HandlerState
<1>2. CASE staging[k] = 0
  BY <1>2, RefuseKeeps DEF take
<1>3. CASE staging[k] # 0
  <2>1. /\ staging' = [staging EXCEPT ![k] = 0]
        /\ handler' = [handler EXCEPT ![h] = r] /\ handler'[h] = r
        /\ UNCHANGED <<staged, objects, rows, messages>>
    BY <1>3 DEF take, stores, Inv, Types
  <2>2. staging[k] \in 1..Len(staged) /\ staging[k] \in Nat
    BY <1>1, <1>3 DEF Inv, Types, StagingFound
  <2>3. staging' \in [Client \X FileID -> Nat]
        /\ \A j \in Client \X FileID : staging'[j] \in {0, staging[j]}
    <3> HIDE DEF k
    <3> QED BY <1>1, <2>1 DEF Inv, Types
  <2>4. (k \notin spoilt) \in BOOLEAN
    OBVIOUS
  <2>5. r \in HandlerState /\ r.pc = "assemble" /\ r.staged = staging[k]
    <3> DEFINE w == k \notin spoilt
               n == staging[k]
    <3>1. w \in BOOLEAN /\ n \in Nat
      BY <2>2, <2>4
    <3> HIDE DEF w, n
    <3>2. [handler[h] EXCEPT !.staged = n, !.pc = "assemble", !.whole = w] \in HandlerState
      BY <1>1, <3>1 DEF HandlerState, PC
    <3> USE DEF w, n
    <3> QED BY <1>1, <3>2 DEF HandlerState
  <2>6. handlerOK(r, Len(staged), DOMAIN objects, DOMAIN rows)
    <3> HIDE DEF r, k
    <3> QED BY <2>2, <2>5 DEF handlerOK
  <2> HIDE DEF r, k
  <2> QED BY <2>1, <2>3, <2>5, <2>6, StoresSame
<1> QED BY <1>2, <1>3

\* Assembling the content keeps the invariant.
LEMMA AssembleKeeps ==
    ASSUME Inv, NEW h \in Handler, assembleParts(h)
    PROVE  Inv'
<1> DEFINE data == assemble(staged[handler[h].staged])
           pc == IF backend = "fs" THEN "copy" ELSE "putObject"
           r == [handler[h] EXCEPT !.data = data, !.temp = <<>>, !.pc = pc]
<1>1. /\ handler[h] \in HandlerState /\ handler[h].staged \in 1..Len(staged)
      /\ staging' = staging /\ staging \in [Client \X FileID -> Nat]
  BY DEF assembleParts, Inv, Types, HandlersOK, handlerOK
<1>2. staged[handler[h].staged] \in Parts
  BY <1>1 DEF Inv, Types
<1>3. data \in Seq(Byte) /\ pc \in {"copy", "putObject"} /\ <<>> \in Seq(Byte) /\ Len(<<>>) = 0
  BY <1>2, AssembleType
<1>4. /\ handler' = [handler EXCEPT ![h] = r] /\ handler'[h] = r
      /\ UNCHANGED <<staged, objects, rows, messages>>
  BY DEF assembleParts, stores, Inv, Types
<1> HIDE DEF data, pc
<1>5. r \in HandlerState
  BY <1>1, <1>3 DEF HandlerState, PC
<1>6. r.pc = pc /\ r.data = data /\ r.temp = <<>>
  BY <1>1 DEF HandlerState
<1> HIDE DEF r
<1>7. handlerOK(r, Len(staged), DOMAIN objects, DOMAIN rows)
  <2>1. Len(r.data) \in Nat /\ Len(r.temp) = 0
    BY <1>3, <1>6
  <2> QED BY <1>3, <1>6, <2>1 DEF handlerOK
<1> QED BY <1>1, <1>4, <1>5, <1>7, StoresSame

\* Storing a content under itself as the key, and going on to the file row, keeps the
\* invariant.
LEMMA ObjectStored ==
    ASSUME Inv, NEW h \in Handler, goto(h, "saveFile"),
           objects' = withObject(handler[h].data, handler[h].data),
           UNCHANGED <<staging, staged, rows, messages>>
    PROVE  Inv'
<1> DEFINE r == [handler[h] EXCEPT !.pc = "saveFile"]
           data == handler[h].data
<1>1. handler[h] \in HandlerState /\ Len(staged) \in Nat
  BY DEF Inv, Types
<1>2. DOMAIN objects' = DOMAIN objects \cup {data} /\ \A k \in DOMAIN objects' : objects'[k] = k
  BY DEF withObject, Inv, ObjectsKept
<1>3. handler' = [handler EXCEPT ![h] = r] /\ handler'[h] = r
  BY DEF goto, Inv, Types
<1>4. r \in HandlerState /\ r.pc = "saveFile" /\ r.data = data
  BY <1>1 DEF HandlerState, PC
<1>5. handlerOK(r, Len(staged'), DOMAIN objects', DOMAIN rows')
  <2> HIDE DEF r
  <2> QED BY <1>2, <1>4 DEF handlerOK
<1>6. /\ Len(staged') \in Nat /\ Len(staged) <= Len(staged')
      /\ DOMAIN objects \subseteq DOMAIN objects' /\ DOMAIN rows \subseteq DOMAIN rows'
  BY <1>1, <1>2
<1>7. handler' \in [Handler -> HandlerState] /\ HandlersOK'
  <2> HIDE DEF r, data
  <2> QED BY <1>1, <1>3, <1>4, <1>5, <1>6, HandlerMoves
<1>8. ObjectsKept'
  BY <1>2 DEF Inv, ObjectsKept
<1> QED BY <1>7, <1>8 DEF Inv, Types, StagingFound

\* memory.ObjectStore.Put.
LEMMA PutObjectKeeps ==
    ASSUME Inv, NEW h \in Handler, putObject(h)
    PROVE  Inv'
  BY ObjectStored DEF putObject

\* A piece more in the temporary file leaves it a beginning of the content.
LEMMA CopyKeeps ==
    ASSUME Inv, NEW h \in Handler, copy(h)
    PROVE  Inv'
<1> DEFINE data == handler[h].data
           temp == handler[h].temp
           n == Len(temp) + 1
           t == Append(temp, data[n])
           r == [handler[h] EXCEPT !.temp = t]
<1>1. /\ handler[h] \in HandlerState /\ handler[h].pc = "copy" /\ n <= Len(data)
      /\ \A k \in 1..Len(temp) : temp[k] = data[k]
      /\ staging' = staging /\ staging \in [Client \X FileID -> Nat]
      /\ UNCHANGED <<staged, objects, rows, messages>>
  BY DEF copy, stores, Inv, Types, HandlersOK, handlerOK
<1>2. data \in Seq(Byte) /\ temp \in Seq(Byte)
  BY <1>1 DEF HandlerState
<1>3. handler' = [handler EXCEPT ![h] = r] /\ handler'[h] = r
  BY DEF copy, Inv, Types
<1>4. t \in Seq(Byte) /\ Len(t) = n /\ \A k \in 1..n : t[k] = data[k]
  <2>1. data[n] \in Byte /\ Len(temp) \in Nat
    BY <1>1, <1>2
  <2>2. /\ t \in Seq(Byte) /\ Len(t) = Len(temp) + 1
        /\ \A k \in 1..Len(temp) : t[k] = temp[k]
        /\ t[Len(temp) + 1] = data[n]
    BY <1>2, <2>1, AppendProperties
  <2> QED BY <1>1, <2>1, <2>2
<1> HIDE DEF t
<1>5. r \in HandlerState /\ r.pc = "copy" /\ r.temp = t /\ r.data = data
  BY <1>1, <1>4 DEF HandlerState
<1>6. handlerOK(r, Len(staged), DOMAIN objects, DOMAIN rows)
  <2> HIDE DEF r, data, temp
  <2> QED BY <1>1, <1>4, <1>5 DEF handlerOK
<1> HIDE DEF r
<1>7. \A k \in Client \X FileID : staging'[k] \in {0, staging[k]}
  BY <1>1
<1> QED BY <1>1, <1>3, <1>5, <1>6, <1>7, StoresSame

\* The temporary file that is renamed holds the whole content.
LEMMA RenameKeeps ==
    ASSUME Inv, NEW h \in Handler, rename(h)
    PROVE  Inv'
<1> DEFINE data == handler[h].data
           temp == handler[h].temp
<1>1. /\ handler[h] \in HandlerState /\ Len(temp) = Len(data)
      /\ \A k \in 1..Len(temp) : temp[k] = data[k]
  BY DEF rename, Inv, Types, HandlersOK, handlerOK
<1>2. data \in Seq(Byte) /\ temp \in Seq(Byte)
  BY <1>1 DEF HandlerState
<1>3. temp = data
  <2> HIDE DEF temp, data
  <2> QED BY <1>1, <1>2, SeqEqual
<1> QED BY <1>3, ObjectStored DEF rename

\* A file row for a stored object keeps the invariant.
LEMMA SaveFileKeeps ==
    ASSUME Inv, NEW h \in Handler, saveFile(h)
    PROVE  Inv'
<1> DEFINE data == handler[h].data
           n == Len(rows) + 1
           r == [handler[h] EXCEPT !.row = n, !.pc = "sendMessage"]
<1>1. /\ handler[h] \in HandlerState /\ data \in DOMAIN objects /\ Len(staged) \in Nat
      /\ UNCHANGED <<staging, staged, objects, messages>>
  BY DEF saveFile, Inv, Types, HandlersOK, handlerOK
<1>2. rows \in Seq(Seq(Byte)) /\ data \in Seq(Byte) /\ Len(rows) \in Nat
  BY <1>1 DEF Inv, Types, HandlerState
<1>3. /\ rows' \in Seq(Seq(Byte)) /\ Len(rows') = n
      /\ \A i \in 1..Len(rows) : rows'[i] = rows[i]
      /\ rows'[n] = data
  <2>1. rows' = Append(rows, data)
    BY DEF saveFile
  <2> HIDE DEF data
  <2> QED BY <1>2, <2>1, AppendProperties
<1>4. DOMAIN rows = 1..Len(rows) /\ DOMAIN rows' = 1..n
  BY <1>2, <1>3
<1>5. handler' = [handler EXCEPT ![h] = r] /\ handler'[h] = r
  BY DEF saveFile, Inv, Types
<1>6. r \in HandlerState /\ r.pc = "sendMessage" /\ r.data = data /\ r.row = n
  <2>1. n \in Nat
    BY <1>2
  <2> HIDE DEF n
  <2> QED BY <1>1, <2>1 DEF HandlerState, PC
<1>7. handlerOK(r, Len(staged'), DOMAIN objects', DOMAIN rows')
  <2> HIDE DEF r, data
  <2> QED BY <1>1, <1>2, <1>4, <1>6 DEF handlerOK
<1>8. handler' \in [Handler -> HandlerState] /\ HandlersOK'
  <2>1. /\ Len(staged') \in Nat /\ Len(staged) <= Len(staged')
        /\ DOMAIN objects \subseteq DOMAIN objects' /\ DOMAIN rows \subseteq DOMAIN rows'
    BY <1>1, <1>2, <1>4
  <2> HIDE DEF r, data, n
  <2> QED BY <1>1, <1>5, <1>6, <1>7, <2>1, HandlerMoves
<1>9. ObjectsKept'
  <2> HIDE DEF data
  <2>1. \A i \in DOMAIN rows' : rows'[i] \in DOMAIN objects
    <3>1. \A i \in 1..Len(rows) : rows'[i] \in DOMAIN objects
      BY <1>3, <1>4 DEF Inv, ObjectsKept
    <3>2. \A i \in DOMAIN rows' : i \in 1..Len(rows) \/ i = n
      BY <1>2, <1>4
    <3>3. rows'[n] \in DOMAIN objects
      BY <1>1, <1>3
    <3> HIDE DEF n
    <3> QED BY <3>1, <3>2, <3>3
  <2>2. \A m \in DOMAIN messages : messages[m].row \in DOMAIN rows'
    BY <1>2, <1>4 DEF Inv, ObjectsKept
  <2> QED BY <1>1, <2>1, <2>2 DEF Inv, ObjectsKept
<1> QED BY <1>1, <1>3, <1>8, <1>9 DEF Inv, Types, StagingFound

\* A message with its row keeps the invariant.
LEMMA SendMessageKeeps ==
    ASSUME Inv, NEW h \in Handler, sendMessage(h)
    PROVE  Inv'
<1> DEFINE r == handler[h]
           msg == [from |-> r.client, fileID |-> r.fileID, row |-> r.row, whole |-> r.whole]
<1>1. /\ r \in HandlerState /\ r.row \in DOMAIN rows /\ Len(staged) \in Nat
      /\ UNCHANGED <<staging, staged, objects, rows>>
  BY DEF sendMessage, Inv, Types, HandlersOK, handlerOK
<1>2. msg \in MediaMessage /\ msg.row = r.row
  BY <1>1 DEF MediaMessage, HandlerState
<1>3. messages \in Seq(MediaMessage) /\ Len(messages) \in Nat
  BY DEF Inv, Types
<1>4. /\ messages' \in Seq(MediaMessage) /\ Len(messages') = Len(messages) + 1
      /\ \A m \in 1..Len(messages) : messages'[m] = messages[m]
      /\ messages'[Len(messages) + 1] = msg
  <2>1. messages' = Append(messages, msg)
    BY DEF sendMessage
  <2> HIDE DEF msg
  <2> QED BY <1>2, <1>3, <2>1, AppendProperties
<1>5. ObjectsKept'
  <2>1. DOMAIN messages = 1..Len(messages) /\ DOMAIN messages' = 1..(Len(messages) + 1)
    BY <1>3, <1>4
  <2> HIDE DEF msg
  <2> QED BY <1>1, <1>2, <1>3, <1>4, <2>1 DEF Inv, ObjectsKept
<1>6. handler' = [handler EXCEPT ![h] = Idle] /\ handler'[h] = Idle
  BY DEF sendMessage, Inv, Types
<1>7. handler' \in [Handler -> HandlerState] /\ HandlersOK'
  <2>1. handlerOK(Idle, Len(staged'), DOMAIN objects', DOMAIN rows') /\ Idle \in HandlerState
    BY IdleOK
  <2>2. /\ Len(staged') \in Nat /\ Len(staged) <= Len(staged')
        /\ DOMAIN objects \subseteq DOMAIN objects' /\ DOMAIN rows \subseteq DOMAIN rows'
    BY <1>1
  <2> QED BY <1>1, <1>6, <2>1, <2>2, HandlerMoves
<1> QED BY <1>1, <1>4, <1>5, <1>7 DEF Inv, Types, StagingFound

\* A failing call leaves what the earlier ones stored.
LEMMA FailKeeps ==
    ASSUME Inv, NEW h \in Handler, fail(h)
    PROVE  Inv'
  BY RefuseKeeps DEF fail

\* A restart takes the staged files and the requests that work on them together.
LEMMA RestartKeeps ==
    ASSUME Inv, Restart
    PROVE  Inv'
<1>1. /\ staging' = [k \in DOMAIN staging |-> 0] /\ staged' = <<>>
      /\ handler' = [h \in Handler |-> Idle] /\ UNCHANGED <<objects, rows, messages>>
  BY DEF Restart, stores
<1>2. DOMAIN staging = Client \X FileID
  BY DEF Inv, Types
<1>3. Types'
  BY <1>1, <1>2, IdleOK DEF Inv, Types
<1>4. HandlersOK'
  <2>1. \A h \in Handler : handler'[h] = Idle
    BY <1>1
  <2> QED BY <2>1, IdleOK DEF HandlersOK
<1>5. StagingFound' /\ ObjectsKept'
  BY <1>1, <1>2 DEF Inv, StagingFound, ObjectsKept
<1> QED BY <1>3, <1>4, <1>5 DEF Inv

\* A client that gives up changes nothing the request refers to.
LEMMA TimeoutKeeps ==
    ASSUME Inv, NEW h \in Handler, Timeout(h)
    PROVE  Inv'
<1> DEFINE r == [handler[h] EXCEPT !.awaited = FALSE]
<1>1. /\ handler[h] \in HandlerState
      /\ handlerOK(handler[h], Len(staged), DOMAIN objects, DOMAIN rows)
      /\ staging' = staging /\ staging \in [Client \X FileID -> Nat]
      /\ UNCHANGED <<staged, objects, rows, messages>>
  BY DEF Timeout, stores, Inv, Types, HandlersOK
<1>2. handler' = [handler EXCEPT ![h] = r] /\ handler'[h] = r
  BY DEF Timeout, Inv, Types
<1>3. /\ r \in HandlerState
      /\ r.pc = handler[h].pc /\ r.part = handler[h].part /\ r.client = handler[h].client
      /\ r.staged = handler[h].staged /\ r.data = handler[h].data
      /\ r.temp = handler[h].temp /\ r.row = handler[h].row
  BY <1>1 DEF HandlerState
<1> HIDE DEF r
<1>4. handlerOK(r, Len(staged), DOMAIN objects, DOMAIN rows)
  BY <1>1, <1>3 DEF handlerOK
<1>5. \A k \in Client \X FileID : staging'[k] \in {0, staging[k]}
  BY <1>1
<1> QED BY <1>1, <1>2, <1>3, <1>4, <1>5, StoresSame

\* A new request starts in a good state.
LEMMA BeginKeeps ==
    ASSUME Inv, NEW c \in Client, NEW part \in Nat, NEW pc \in {"file", "take"},
           pc = "file" => part \in Part(c), Begin(c, part, pc)
    PROVE  Inv'
<1> DEFINE g == CHOOSE h \in Handler : handler[h].pc = "idle"
           r == [Idle EXCEPT !.pc = pc, !.client = c, !.fileID = client[c].fileID,
                             !.part = part, !.awaited = TRUE]
<1>1. g \in Handler
  BY DEF Begin
<1>2. /\ handler' = [handler EXCEPT ![g] = r]
      /\ staging' = staging /\ staging \in [Client \X FileID -> Nat]
      /\ UNCHANGED <<staged, objects, rows, messages>>
      /\ client[c].fileID \in FileID
  BY DEF Begin, stores, Inv, Types
<1>3. r \in HandlerState /\ r.pc = pc /\ r.part = part /\ r.client = c
  <2> DEFINE f == client[c].fileID
  <2>1. f \in FileID
    BY <1>2
  <2>2. pc \in PC
    BY DEF PC
  <2>3. Idle \in HandlerState
    BY IdleOK
  <2> HIDE DEF f
  <2>4. [Idle EXCEPT !.pc = pc, !.client = c, !.fileID = f, !.part = part, !.awaited = TRUE]
            \in HandlerState
    BY <2>1, <2>2, <2>3 DEF HandlerState
  <2> USE DEF f
  <2>5. r \in HandlerState
    BY <2>4
  <2> QED BY <2>3, <2>5 DEF HandlerState
<1> HIDE DEF r, g
<1>4. handlerOK(r, Len(staged), DOMAIN objects, DOMAIN rows)
  BY <1>3 DEF handlerOK
<1>5. \A k \in Client \X FileID : staging'[k] \in {0, staging[k]}
  BY <1>2
<1>6. handler'[g] = r
  BY <1>1, <1>2 DEF Inv, Types
<1> QED BY <1>1, <1>2, <1>3, <1>4, <1>5, <1>6, StoresSame

\* So does every request of a client.
LEMMA RequestKeeps ==
    ASSUME Inv, NEW c \in Client, Request(c)
    PROVE  Inv'
<1>1. CASE \E i \in Part(c) : uploadSaveFilePart(c, i)
  <2>1. PICK i \in Part(c) : uploadSaveFilePart(c, i)
    BY <1>1
  <2>2. i \in Nat
    BY UploadAssumption DEF Part
  <2> QED BY <2>1, <2>2, BeginKeeps DEF uploadSaveFilePart
<1>2. CASE messagesSendMedia(c)
  BY <1>2, BeginKeeps DEF messagesSendMedia
<1> QED BY <1>1, <1>2 DEF Request

\* Nothing the invariant speaks of changes.
LEMMA SameKeeps ==
    ASSUME Inv, UNCHANGED <<staging, staged, stores, handler>>
    PROVE  Inv'
  BY DEF stores, Inv, Types, StagingFound, ObjectsKept, HandlersOK, handlerOK

\* Every step keeps the invariant.
LEMMA NextInv == Inv /\ [Next]_vars => Inv'
<1> SUFFICES ASSUME Inv, [Next]_vars PROVE Inv'
  OBVIOUS
<1>1. ASSUME NEW h \in Handler, HandlerStep(h) PROVE Inv'
  BY <1>1, StagingFileKeeps, PutPartKeeps, TakeKeeps, AssembleKeeps, PutObjectKeeps,
     CopyKeeps, RenameKeeps, SaveFileKeeps, SendMessageKeeps DEF HandlerStep
<1>2. ASSUME NEW h \in Handler, fail(h) \/ Timeout(h) PROVE Inv'
  BY <1>2, FailKeeps, TimeoutKeeps
<1>3. ASSUME NEW c \in Client, Request(c) PROVE Inv'
  BY <1>3, RequestKeeps
<1>4. CASE Restart
  BY <1>4, RestartKeeps
<1>5. ASSUME NEW r \in Reader, uploadGetFile(r) \/ \E m \in DOMAIN messages : OpenMedia(r, m)
      PROVE  Inv'
  BY <1>5, SameKeeps DEF uploadGetFile, OpenMedia
<1>6. CASE UNCHANGED vars
  BY <1>6, SameKeeps DEF vars, stores
<1> QED BY <1>1, <1>2, <1>3, <1>4, <1>5, <1>6 DEF Next

\* In every reachable state an object is what its key says, and rows, messages and the
\* handlers' later steps refer only to what has been stored, through failing calls and
\* restarts between any two steps.
THEOREM StoresHold == Spec => []Inv
<1>1. Init => Inv
  BY InitInv
<1>2. Inv /\ [Next]_vars => Inv'
  BY NextInv
<1> QED BY <1>1, <1>2, PTL DEF Spec

-----------------------------------------------------------------------------
(* The refinement *)

\* The length of a sequence given by its domain.
LEMMA LenOf ==
    ASSUME NEW n \in Nat, NEW f, DOMAIN f = 1..n
    PROVE  Len(f) = n
  OBVIOUS

\* The contents that can be read are those of the messages' rows, and they stay.
LEMMA AlbumGrows ==
    ASSUME Inv, Inv',
           Len(messages') \in {Len(messages), Len(messages) + 1},
           \A m \in 1..Len(messages) : messages'[m] = messages[m],
           Len(rows) <= Len(rows'),
           \A i \in 1..Len(rows) : rows'[i] = rows[i]
    PROVE  [Stored!Next]_album
<1>1. /\ Len(messages) \in Nat /\ DOMAIN messages = 1..Len(messages)
      /\ DOMAIN messages' = 1..Len(messages')
      /\ Len(rows) \in Nat /\ DOMAIN rows = 1..Len(rows)
      /\ Len(rows') \in Nat /\ DOMAIN rows' = 1..Len(rows')
  BY DEF Inv, Types
<1>2. DOMAIN album = 1..Len(messages) /\ DOMAIN album' = 1..Len(messages')
  BY <1>1 DEF album
<1>3. Len(album) = Len(messages)
  BY <1>1, <1>2, LenOf
<1>4. ASSUME NEW m \in 1..Len(messages)
      PROVE  album'[m] = album[m]
  <2> DEFINE i == messages[m].row
  <2>a. m \in DOMAIN messages
    BY <1>1
  <2>b. messages'[m] = messages[m]
    OBVIOUS
  <2>c. m \in DOMAIN messages'
    <3>1. Len(messages) \in Nat /\ DOMAIN messages' = 1..Len(messages')
      BY <1>1
    <3>2. CASE Len(messages') = Len(messages)
      BY <3>1, <3>2
    <3>3. CASE Len(messages') = Len(messages) + 1
      BY <3>1, <3>3
    <3> QED BY <3>2, <3>3
  <2>d. i \in DOMAIN rows
    BY <2>a DEF Inv, ObjectsKept
  <2>e. i \in 1..Len(rows)
    BY <1>1, <2>d
  <2>f. i \in 1..Len(rows')
    <3>1. Len(rows) \in Nat /\ Len(rows') \in Nat /\ Len(rows) <= Len(rows')
      BY <1>1
    <3> HIDE DEF i
    <3> QED BY <2>e, <3>1
  <2>1. i \in 1..Len(rows) /\ i \in 1..Len(rows') /\ messages'[m] = messages[m]
        /\ m \in DOMAIN messages /\ m \in DOMAIN messages'
    BY <2>a, <2>b, <2>c, <2>e, <2>f
  <2>2. album[m] = objects[rows[i]] /\ album'[m] = objects'[rows'[i]]
    BY <2>1 DEF album, contentOf
  <2>3. rows'[i] = rows[i] /\ rows[i] \in DOMAIN objects /\ rows'[i] \in DOMAIN objects'
    BY <1>1, <2>1 DEF Inv, ObjectsKept
  <2>4. objects[rows[i]] = rows[i] /\ objects'[rows'[i]] = rows'[i]
    BY <2>3 DEF Inv, ObjectsKept
  <2> QED BY <2>2, <2>3, <2>4
<1>5. CASE Len(messages') = Len(messages)
  <2>1. album = [m \in 1..Len(messages) |-> album[m]]
    BY <1>1 DEF album
  <2>2. album' = [m \in 1..Len(messages) |-> album'[m]]
    BY <1>1, <1>5 DEF album
  <2>3. album' = album
    BY <1>4, <2>1, <2>2
  <2> QED BY <2>3
<1>6. CASE Len(messages') = Len(messages) + 1
  BY <1>2, <1>3, <1>4, <1>6 DEF Stored!Next
<1> QED BY <1>5, <1>6

\* A step adds at most one message and takes back neither a message nor a row.
LEMMA StoresGrow ==
    ASSUME Inv, [Next]_vars
    PROVE  /\ Len(messages') \in {Len(messages), Len(messages) + 1}
           /\ \A m \in 1..Len(messages) : messages'[m] = messages[m]
           /\ Len(rows) <= Len(rows')
           /\ \A i \in 1..Len(rows) : rows'[i] = rows[i]
<1>1. /\ messages \in Seq(MediaMessage) /\ Len(messages) \in Nat
      /\ rows \in Seq(Seq(Byte)) /\ Len(rows) \in Nat
      /\ \A h \in Handler : handler[h] \in HandlerState
  BY DEF Inv, Types
<1>2. CASE UNCHANGED <<rows, messages>>
  BY <1>1, <1>2
<1>3. ASSUME NEW h \in Handler, saveFile(h)
      PROVE  /\ messages' = messages /\ Len(rows) <= Len(rows')
             /\ \A i \in 1..Len(rows) : rows'[i] = rows[i]
  <2>1. handler[h].data \in Seq(Byte)
    BY <1>1 DEF HandlerState
  <2>2. rows' = Append(rows, handler[h].data) /\ messages' = messages
    BY <1>3 DEF saveFile
  <2> QED BY <1>1, <2>1, <2>2, AppendProperties
<1>4. ASSUME NEW h \in Handler, sendMessage(h)
      PROVE  /\ rows' = rows /\ Len(messages') = Len(messages) + 1
             /\ \A m \in 1..Len(messages) : messages'[m] = messages[m]
  <2> DEFINE r == handler[h]
             msg == [from |-> r.client, fileID |-> r.fileID, row |-> r.row, whole |-> r.whole]
  <2>1. msg \in MediaMessage
    BY <1>1 DEF MediaMessage, HandlerState
  <2>2. messages' = Append(messages, msg) /\ rows' = rows
    BY <1>4 DEF sendMessage
  <2> HIDE DEF msg
  <2> QED BY <1>1, <2>1, <2>2, AppendProperties
<1>5. ASSUME NEW h \in Handler,
             \/ HandlerStep(h) /\ ~saveFile(h) /\ ~sendMessage(h)
             \/ fail(h) \/ Timeout(h)
      PROVE  UNCHANGED <<rows, messages>>
  BY <1>5 DEF HandlerStep, stagingFile, putPart, take, assembleParts, putObject, copy, rename,
              fail, Timeout, stores
<1>6. ASSUME NEW c \in Client, Request(c)
      PROVE  UNCHANGED <<rows, messages>>
  BY <1>6 DEF Request, uploadSaveFilePart, messagesSendMedia, Begin, stores
<1>7. ASSUME NEW r \in Reader, uploadGetFile(r) \/ \E m \in DOMAIN messages : OpenMedia(r, m)
      PROVE  UNCHANGED <<rows, messages>>
  BY <1>7 DEF uploadGetFile, OpenMedia, stores
<1>8. Restart \/ UNCHANGED vars => UNCHANGED <<rows, messages>>
  BY DEF Restart, vars, stores
<1> QED BY <1>1, <1>2, <1>3, <1>4, <1>5, <1>6, <1>7, <1>8 DEF Next

\* The stores implement Album, for every number of clients, handlers and faults: what was
\* sent stays readable and unchanged, through concurrent uploads of the same content,
\* failing calls and restarts between any two steps of FS.Put and messages.sendMedia.
THEOREM MediaIsKept == Spec => MediaPersists
<1>1. Init => Stored!Init
  BY DEF Init, Stored!Init, album
<1>2. Inv /\ Inv' /\ [Next]_vars => [Stored!Next]_album
  BY StoresGrow, AlbumGrows
<1> QED BY <1>1, <1>2, StoresHold, PTL DEF Spec, MediaPersists, Stored!Spec

-----------------------------------------------------------------------------
(* Downloads *)

\* s is the beginning of t.
begins(s, t) == Len(s) <= Len(t) /\ \A k \in 1..Len(s) : s[k] = t[k]

Download == [message : Nat, got : Seq(Byte), state : {"reading", "done", "failed"}]

\* A download with state d, when the messages M and the rows R are stored, has the
\* beginning of what was sent, all of it when it is done, and it has not failed.
downloadOK(d, M, R) ==
    IF d.message = 0
    THEN d.got = <<>> /\ d.state = "reading"
    ELSE /\ d.message \in DOMAIN M
         /\ d.state # "failed"
         /\ begins(d.got, R[M[d.message].row])
         /\ d.state = "done" => d.got = R[M[d.message].row]

DownloadsOK ==
    /\ download \in [Reader -> Download]
    /\ \A r \in Reader : downloadOK(download[r], messages, rows)

\* The range after what a download has is the next piece of the content, and a short
\* one is the last.
LEMMA ChunkExact ==
    ASSUME NEW data \in Seq(Byte), NEW got \in Seq(Byte), begins(got, data),
           NEW chunk, chunk = GetRange(data, Len(got))
    PROVE  /\ got \o chunk \in Seq(Byte)
           /\ begins(got \o chunk, data)
           /\ Len(chunk) < Limit => got \o chunk = data
<1> DEFINE n == Len(got)
           e == IF n + Limit < Len(data) THEN n + Limit ELSE Len(data)
<1>1. n \in Nat /\ Len(data) \in Nat /\ Limit \in Nat /\ Limit # 0 /\ n <= Len(data)
  BY UploadAssumption DEF begins
<1>2. e \in Nat /\ n <= e /\ e <= Len(data) /\ (e < n + Limit => e = Len(data))
  BY <1>1
<1>3. chunk = SubSeq(data, n + 1, e)
  BY DEF GetRange
<1> HIDE DEF n, e
<1>4. \A i \in (n + 1)..e : data[i] \in Byte
  <2>1. \A i \in (n + 1)..e : i \in 1..Len(data)
    BY <1>1, <1>2
  <2> QED BY <2>1, ElementOfSeq
<1>5. /\ chunk \in Seq(Byte) /\ Len(chunk) = e - n
      /\ \A i \in 1..(e - n) : chunk[i] = data[n + i]
  <2>1. /\ SubSeq(data, n + 1, e) \in Seq(Byte)
        /\ Len(SubSeq(data, n + 1, e)) = IF n + 1 <= e THEN e - (n + 1) + 1 ELSE 0
        /\ \A i \in 1..(e - (n + 1) + 1) : SubSeq(data, n + 1, e)[i] = data[(n + 1) + i - 1]
    <3>1. n + 1 \in Int /\ e \in Int
      BY <1>1, <1>2
    <3> QED BY <1>4, <3>1, SubSeqProperties
  <2>2. e - (n + 1) + 1 = e - n /\ (IF n + 1 <= e THEN e - (n + 1) + 1 ELSE 0) = e - n
    BY <1>1, <1>2
  <2>3. \A i \in 1..(e - n) : (n + 1) + i - 1 = n + i
    BY <1>1, <1>2
  <2> QED BY <1>3, <2>1, <2>2, <2>3
<1>6. /\ got \o chunk \in Seq(Byte)
      /\ Len(got \o chunk) = e
      /\ \A i \in 1..e : (got \o chunk)[i] = IF i <= n THEN got[i] ELSE chunk[i - n]
  <2>1. /\ got \o chunk \in Seq(Byte)
        /\ Len(got \o chunk) = Len(got) + Len(chunk)
        /\ \A i \in 1..(Len(got) + Len(chunk)) :
              (got \o chunk)[i] = IF i <= Len(got) THEN got[i] ELSE chunk[i - Len(got)]
    BY <1>5, ConcatProperties
  <2>2. Len(got) = n /\ Len(got) + Len(chunk) = e
    BY <1>1, <1>2, <1>5 DEF n
  <2> QED BY <2>1, <2>2
<1>7. ASSUME NEW i \in 1..e
      PROVE  (got \o chunk)[i] = data[i]
  <2>1. CASE i <= n
    <3>1. i \in 1..Len(got)
      BY <1>1, <1>2, <2>1 DEF n
    <3>2. got[i] = data[i]
      BY <3>1 DEF begins
    <3> QED BY <1>6, <2>1, <3>2
  <2>2. CASE ~(i <= n)
    <3>1. i - n \in 1..(e - n) /\ n + (i - n) = i
      BY <1>1, <1>2, <2>2
    <3>2. chunk[i - n] = data[i]
      BY <1>5, <3>1
    <3> QED BY <1>6, <2>2, <3>2
  <2> QED BY <2>1, <2>2
<1>8. begins(got \o chunk, data)
  BY <1>2, <1>6, <1>7 DEF begins
<1>9. ASSUME Len(chunk) < Limit
      PROVE  got \o chunk = data
  <2>1. e = Len(data)
    BY <1>1, <1>2, <1>5, <1>9
  <2> QED BY <1>6, <1>7, <2>1, SeqEqual
<1> QED BY <1>6, <1>8, <1>9

\* A message's row is there and holds bytes, and its object holds the same.
LEMMA RowReadable ==
    ASSUME Inv, NEW m \in DOMAIN messages
    PROVE  /\ messages[m].row \in DOMAIN rows
           /\ rows[messages[m].row] \in Seq(Byte)
           /\ rows[messages[m].row] \in DOMAIN objects
           /\ contentOf(messages[m].row) = rows[messages[m].row]
<1>1. messages[m].row \in DOMAIN rows
  BY DEF Inv, ObjectsKept
<1>2. rows[messages[m].row] \in DOMAIN objects
  BY <1>1 DEF Inv, ObjectsKept
<1>3. objects[rows[messages[m].row]] = rows[messages[m].row]
  BY <1>2 DEF Inv, ObjectsKept
<1>4. rows \in Seq(Seq(Byte))
  BY DEF Inv, Types
<1> QED BY <1>1, <1>2, <1>3, <1>4 DEF contentOf

\* A chunk more: upload.getFile never fails for a message's media.
LEMMA GetFileKeepsDownloads ==
    ASSUME Inv, DownloadsOK, NEW r \in Reader, uploadGetFile(r)
    PROVE  DownloadsOK'
<1> DEFINE d == download[r]
           row == messages[d.message].row
           data == rows[row]
           chunk == GetRange(contentOf(row), Len(d.got))
<1>1. d \in Download /\ d.message # 0 /\ d.state = "reading"
      /\ downloadOK(d, messages, rows)
  BY DEF DownloadsOK, uploadGetFile
<1>2. d.message \in DOMAIN messages /\ begins(d.got, data)
  BY <1>1 DEF downloadOK
<1>3. data \in Seq(Byte) /\ data \in DOMAIN objects /\ contentOf(row) = data
  BY <1>2, RowReadable
<1>4. d.got \in Seq(Byte) /\ d.message \in Nat
  BY <1>1 DEF Download
<1>5. readable(row, Len(d.got))
  BY <1>2, <1>3 DEF readable, begins
<1>6. UNCHANGED <<rows, messages>>
  BY DEF uploadGetFile, stores
<1>7. download' = [download EXCEPT ![r] =
          [d EXCEPT !.got = @ \o chunk, !.state = IF Len(chunk) < Limit THEN "done" ELSE @]]
  BY <1>5 DEF uploadGetFile
<1>8. /\ d.got \o chunk \in Seq(Byte)
      /\ begins(d.got \o chunk, data)
      /\ Len(chunk) < Limit => d.got \o chunk = data
  <2>1. chunk = GetRange(data, Len(d.got))
    BY <1>3
  <2> HIDE DEF chunk, data, d
  <2> QED BY <1>2, <1>3, <1>4, <2>1, ChunkExact
<1> DEFINE end == IF Len(chunk) < Limit THEN "done" ELSE "reading"
           e == [d EXCEPT !.got = d.got \o chunk, !.state = end]
<1>9. download' = [download EXCEPT ![r] = e]
  BY <1>1, <1>7
<1>10. /\ e \in Download
       /\ e.message = d.message /\ e.got = d.got \o chunk /\ e.state = end
  <2>1. end \in {"reading", "done"}
    OBVIOUS
  <2> HIDE DEF chunk, d, end
  <2> QED BY <1>1, <1>4, <1>8, <2>1 DEF Download
<1>11. downloadOK(e, messages, rows)
  <2>1. e.message = d.message /\ e.got = d.got \o chunk
        /\ e.state \in {"reading", "done"} /\ (e.state = "done" => Len(chunk) < Limit)
    <3>1. end \in {"reading", "done"} /\ (end = "done" => Len(chunk) < Limit)
      OBVIOUS
    <3> HIDE DEF e, end, chunk, d
    <3> QED BY <1>10, <3>1
  <2>2. data = rows[messages[d.message].row]
    OBVIOUS
  <2> HIDE DEF e, chunk, data, d
  <2> QED BY <1>1, <1>2, <1>8, <2>1, <2>2 DEF downloadOK
<1> HIDE DEF e
<1>12. \A q \in Reader : q # r => download'[q] = download[q]
  BY <1>9 DEF DownloadsOK
<1>13. download' \in [Reader -> Download] /\ download'[r] = e
  BY <1>9, <1>10 DEF DownloadsOK
<1>14. ASSUME NEW q \in Reader
       PROVE  downloadOK(download'[q], messages', rows')
  <2>1. downloadOK(download[q], messages, rows)
    BY DEF DownloadsOK
  <2> QED BY <1>6, <1>11, <1>12, <1>13, <2>1
<1> QED BY <1>13, <1>14 DEF DownloadsOK

\* A client begins to read a message that is there.
LEMMA OpenKeepsDownloads ==
    ASSUME Inv, DownloadsOK, NEW r \in Reader, NEW m \in DOMAIN messages, OpenMedia(r, m)
    PROVE  DownloadsOK'
<1> DEFINE d == download[r]
           e == [message |-> m, got |-> <<>>, state |-> "reading"]
<1>1. d \in Download /\ d.message = 0 /\ downloadOK(d, messages, rows)
  BY DEF DownloadsOK, OpenMedia
<1>2. d.got = <<>> /\ d.state = "reading"
  BY <1>1 DEF downloadOK
<1>3. [d EXCEPT !.message = m] = e
  <2> HIDE DEF d
  <2> QED BY <1>1, <1>2 DEF Download
<1>4. download' = [download EXCEPT ![r] = e]
  BY <1>3 DEF OpenMedia
<1>5. m \in Nat \ {0} /\ rows[messages[m].row] \in Seq(Byte)
  <2>1. DOMAIN messages = 1..Len(messages)
    BY DEF Inv, Types
  <2> QED BY <2>1, RowReadable
<1>6. e \in Download
  BY <1>5 DEF Download
<1>7. downloadOK(e, messages, rows)
  <2>1. begins(<<>>, rows[messages[m].row])
    BY <1>5 DEF begins
  <2> QED BY <1>5, <2>1 DEF downloadOK
<1> HIDE DEF e
<1>8. /\ download' \in [Reader -> Download] /\ download'[r] = e
      /\ \A q \in Reader : q # r => download'[q] = download[q]
  BY <1>4, <1>6 DEF DownloadsOK
<1>9. UNCHANGED <<rows, messages>>
  BY DEF OpenMedia, stores
<1>10. ASSUME NEW q \in Reader
       PROVE  downloadOK(download'[q], messages', rows')
  <2>1. downloadOK(download[q], messages, rows)
    BY DEF DownloadsOK
  <2> QED BY <1>7, <1>8, <1>9, <2>1
<1> QED BY <1>8, <1>10 DEF DownloadsOK

\* Other steps leave the downloads alone, and what they have read of.
LEMMA OthersKeepDownloads ==
    ASSUME Inv, DownloadsOK, [Next]_vars, UNCHANGED download
    PROVE  DownloadsOK'
<1>1. /\ Len(messages') \in {Len(messages), Len(messages) + 1}
      /\ \A m \in 1..Len(messages) : messages'[m] = messages[m]
      /\ Len(rows) <= Len(rows')
      /\ \A i \in 1..Len(rows) : rows'[i] = rows[i]
  BY StoresGrow
<1>2. Inv'
  BY NextInv
<1>3. /\ Len(messages) \in Nat /\ DOMAIN messages = 1..Len(messages)
      /\ DOMAIN messages' = 1..Len(messages')
      /\ DOMAIN rows = 1..Len(rows)
  BY <1>2 DEF Inv, Types
<1>4. ASSUME NEW m \in DOMAIN messages
      PROVE  /\ m \in DOMAIN messages'
             /\ rows'[messages'[m].row] = rows[messages[m].row]
  <2>1. m \in 1..Len(messages) /\ messages'[m] = messages[m]
    BY <1>1, <1>3
  <2>2. m \in DOMAIN messages'
    <3>1. CASE Len(messages') = Len(messages)
      BY <1>3, <2>1, <3>1
    <3>2. CASE Len(messages') = Len(messages) + 1
      BY <1>3, <2>1, <3>2
    <3> QED BY <1>1, <3>1, <3>2
  <2>3. messages[m].row \in 1..Len(rows)
    BY <1>3, RowReadable
  <2> QED BY <1>1, <2>1, <2>2, <2>3
<1>5. ASSUME NEW r \in Reader
      PROVE  downloadOK(download'[r], messages', rows')
  <2>1. downloadOK(download[r], messages, rows) /\ download'[r] = download[r]
    BY DEF DownloadsOK
  <2>2. CASE download[r].message = 0
    BY <2>1, <2>2 DEF downloadOK
  <2>3. CASE download[r].message # 0
    <3>1. download[r].message \in DOMAIN messages
      BY <2>1, <2>3 DEF downloadOK
    <3> QED BY <1>4, <2>1, <2>3, <3>1 DEF downloadOK
  <2> QED BY <2>2, <2>3
<1> QED BY <1>5 DEF DownloadsOK

\* Every step keeps the downloads right.
LEMMA NextDownloads ==
    ASSUME Inv, DownloadsOK, [Next]_vars
    PROVE  DownloadsOK'
<1>1. CASE \E r \in Reader : uploadGetFile(r)
  BY <1>1, GetFileKeepsDownloads
<1>2. CASE \E r \in Reader, m \in DOMAIN messages : OpenMedia(r, m)
  BY <1>2, OpenKeepsDownloads
<1>3. ASSUME NEW h \in Handler, HandlerStep(h) \/ fail(h) \/ Timeout(h)
      PROVE  UNCHANGED download
  BY <1>3 DEF HandlerStep, stagingFile, putPart, take, assembleParts, putObject, copy, rename,
              saveFile, sendMessage, fail, Timeout
<1>4. ASSUME NEW c \in Client, Request(c)
      PROVE  UNCHANGED download
  BY <1>4 DEF Request, uploadSaveFilePart, messagesSendMedia, Begin
<1>5. Restart \/ UNCHANGED vars => UNCHANGED download
  BY DEF Restart, vars
<1>6. \/ \E r \in Reader : uploadGetFile(r)
      \/ \E r \in Reader, m \in DOMAIN messages : OpenMedia(r, m)
      \/ UNCHANGED download
  BY <1>3, <1>4, <1>5 DEF Next
<1> QED BY <1>1, <1>2, <1>6, OthersKeepDownloads

\* A download that follows its chunks reads the beginning of what was sent, and all of
\* it when it ends, for every chunk size and every content, in both object stores
\* (FS.GetRange, ObjectStore.GetRange), while the same objects are written again.
THEOREM DownloadsAreExact == Spec => []DownloadsExact
<1>1. Init => DownloadsOK
  <2>1. ASSUME Init
        PROVE  DownloadsOK
    <3>1. download = [r \in Reader |-> [message |-> 0, got |-> <<>>, state |-> "reading"]]
      BY <2>1 DEF Init
    <3>2. [message |-> 0, got |-> <<>>, state |-> "reading"] \in Download
      BY DEF Download
    <3> QED BY <3>1, <3>2 DEF DownloadsOK, downloadOK
  <2> QED BY <2>1
<1>2. Inv /\ DownloadsOK /\ [Next]_vars => DownloadsOK'
  BY NextDownloads
<1>3. Inv /\ DownloadsOK => DownloadsExact
  <2>1. ASSUME Inv, DownloadsOK, NEW r \in Reader, download[r].message # 0
        PROVE  LET d == download[r]
                   data == rows[messages[d.message].row]
               IN  /\ d.state # "failed"
                   /\ d.got = SubSeq(data, 1, Len(d.got))
                   /\ d.state = "done" => d.got = data
    <3> DEFINE d == download[r]
               data == rows[messages[d.message].row]
    <3>1. /\ d.message \in DOMAIN messages /\ d.state # "failed" /\ begins(d.got, data)
          /\ d.state = "done" => d.got = data
      BY <2>1 DEF DownloadsOK, downloadOK
    <3>2. data \in Seq(Byte) /\ d.got \in Seq(Byte)
      BY <2>1, <3>1, RowReadable DEF DownloadsOK, Download
    <3> HIDE DEF d, data
    <3>3. Len(d.got) \in Nat /\ Len(data) \in Nat /\ Len(d.got) <= Len(data)
      BY <3>1, <3>2 DEF begins
    <3>4. \A i \in 1..Len(d.got) : data[i] \in Byte
      BY <3>2, <3>3
    <3>5. /\ SubSeq(data, 1, Len(d.got)) \in Seq(Byte)
          /\ Len(SubSeq(data, 1, Len(d.got))) = Len(d.got)
          /\ \A i \in 1..Len(d.got) : SubSeq(data, 1, Len(d.got))[i] = data[i]
      <4>1. /\ SubSeq(data, 1, Len(d.got)) \in Seq(Byte)
            /\ Len(SubSeq(data, 1, Len(d.got)))
                  = IF 1 <= Len(d.got) THEN Len(d.got) - 1 + 1 ELSE 0
            /\ \A i \in 1..(Len(d.got) - 1 + 1) :
                  SubSeq(data, 1, Len(d.got))[i] = data[1 + i - 1]
        BY <3>3, <3>4, SubSeqProperties
      <4> QED BY <3>3, <4>1
    <3>6. d.got = SubSeq(data, 1, Len(d.got))
      BY <3>1, <3>2, <3>5, SeqEqual DEF begins
    <3> QED BY <3>1, <3>6 DEF d, data
  <2> QED BY <2>1 DEF DownloadsExact
<1> QED BY <1>1, <1>2, <1>3, StoresHold, PTL DEF Spec

-----------------------------------------------------------------------------
(* What is sent is the sender's file *)

\* Some of the parts of c's file, each under its number.
partsOf(c) == {[i \in S |-> file[c][i]] : S \in SUBSET Part(c)}

\* The upload a request belongs to.
reqKey(r) == <<r.client, r.fileID>>

\* Where a sendMedia stands: with a content, past the staging area, anywhere.
Late == {"copy", "putObject", "saveFile", "sendMessage"}
Taken == Late \cup {"assemble"}
Taking == Taken \cup {"take"}

\* own[n] is the upload that the n-th staged file was made for: nobody else's parts get
\* into it, and its handlers and the staging area agree on it.
OwnedBy(own) ==
    /\ own \in [1..Len(staged) -> Client \X FileID]
    /\ \A k \in Client \X FileID : staging[k] # 0 => own[staging[k]] = k
    /\ \A n \in 1..Len(staged) : staged[n] \in partsOf(own[n][1])
    /\ \A h \in Handler : handler[h].pc \in {"put", "assemble"} =>
          own[handler[h].staged] = reqKey(handler[h])

\* A request r, when the staging area is area, the staged files are files and the staged
\* files of the uploads in gone were taken or lost: a part goes to the file that will be
\* taken, and sendMedia finds all parts there unless the upload is one of those.
uploadOK(r, area, files, gone) ==
    /\ r.pc = "put" /\ reqKey(r) \notin gone => area[reqKey(r)] = r.staged
    /\ r.pc = "take" /\ reqKey(r) \notin gone =>
          area[reqKey(r)] # 0 /\ DOMAIN files[area[reqKey(r)]] = Part(r.client)
    /\ r.pc = "assemble" /\ r.whole => DOMAIN files[r.staged] = Part(r.client)
    /\ r.whole => r.pc \in Taken

\* The content of a request, and its row when the rows are R.
sendOK(r, R) ==
    /\ r.pc \in Late => /\ \E p \in partsOf(r.client) : r.data = assemble(p)
                        /\ r.whole => r.data = file[r.client]
    /\ r.pc = "sendMessage" => R[r.row] = r.data

UploadsOK == \A h \in Handler : uploadOK(handler[h], staging, staged, spoilt)
SendsOK == \A h \in Handler : sendOK(handler[h], rows)

\* What a client was told is stored is in the staged file of its upload, or that was
\* taken or lost.
ackedOK(c, x, area, files, gone) ==
    <<c, x.fileID>> \notin gone => \A i \in x.acked :
        area[<<c, x.fileID>>] # 0 /\ i \in DOMAIN files[area[<<c, x.fileID>>]]

AckedStaged == \A c \in Client : ackedOK(c, client[c], staging, staged, spoilt)

-----------------------------------------------------------------------------
(* Parts and contents *)

\* A client's file: its parts are numbered from 1, and there is one.
LEMMA FileParts ==
    ASSUME NEW c \in Client
    PROVE  /\ file[c] \in Seq(Byte) /\ Part(c) = 1..Len(file[c]) /\ Len(file[c]) \in Nat
           /\ Part(c) # {} /\ Part(c) \subseteq Nat \ {0}
           /\ file[c] = [i \in Part(c) |-> file[c][i]]
<1>1. file[c] \in Seq(Byte) /\ file[c] # <<>>
  BY UploadAssumption
<1>2. Part(c) = 1..Len(file[c]) /\ Len(file[c]) \in Nat /\ Len(file[c]) # 0
  BY <1>1 DEF Part
<1>3. Part(c) # {} /\ Part(c) \subseteq Nat \ {0}
  <2>1. PICK n \in Nat : n = Len(file[c]) /\ n # 0 /\ Part(c) = 1..n
    BY <1>2
  <2>2. 1 \in 1..n /\ 1..n \subseteq Nat \ {0}
    BY <2>1
  <2> QED BY <2>1, <2>2
<1> QED BY <1>1, <1>2, <1>3 DEF Part

\* All the parts are the file.
LEMMA AllParts ==
    ASSUME NEW c \in Client, NEW p \in partsOf(c), DOMAIN p = Part(c)
    PROVE  p = file[c]
<1>1. PICK S \in SUBSET Part(c) : p = [i \in S |-> file[c][i]]
  BY DEF partsOf
<1>2. S = Part(c)
  BY <1>1
<1>3. file[c] = [i \in Part(c) |-> file[c][i]]
  BY FileParts
<1> QED BY <1>1, <1>2, <1>3

\* A part more is still some of the parts.
LEMMA OnePartMore ==
    ASSUME NEW c \in Client, NEW p \in partsOf(c), NEW i \in Part(c)
    PROVE  /\ withPart(p, i, file[c][i]) \in partsOf(c)
           /\ DOMAIN withPart(p, i, file[c][i]) = DOMAIN p \cup {i}
<1>1. PICK S \in SUBSET Part(c) : p = [j \in S |-> file[c][j]]
  BY DEF partsOf
<1>2. withPart(p, i, file[c][i]) = [j \in S \cup {i} |-> file[c][j]]
  BY <1>1 DEF withPart
<1>3. S \cup {i} \in SUBSET Part(c)
  OBVIOUS
<1> QED BY <1>1, <1>2, <1>3 DEF partsOf

\* Assembling a whole file gives the file.
LEMMA AssembleWhole ==
    ASSUME NEW s \in Seq(Byte)
    PROVE  assemble(s) = s
<1>1. PICK n \in Nat : n = Len(s)
  OBVIOUS
<1>2. DOMAIN s = 1..n /\ s = [k \in 1..n |-> s[k]]
  BY <1>1
<1>3. Cardinality(1..n) = n
  <2>1. n >= 1 => Cardinality(1..n) = n - 1 + 1
    BY FS_Interval
  <2>2. n = 0 => 1..n = {} /\ Cardinality({}) = 0
    BY FS_EmptySet
  <2> QED BY <2>1, <2>2
<1>4. ASSUME NEW k \in 1..n
      PROVE  (CHOOSE i \in 1..n : Cardinality({j \in 1..n : j <= i}) = k) = k
  <2>1. ASSUME NEW i \in 1..n
        PROVE  Cardinality({j \in 1..n : j <= i}) = i
    <3>1. {j \in 1..n : j <= i} = 1..i
      OBVIOUS
    <3>2. Cardinality(1..i) = i - 1 + 1
      BY FS_Interval
    <3>3. i - 1 + 1 = i
      OBVIOUS
    <3> QED BY <3>1, <3>2, <3>3
  <2> QED BY <2>1
<1>5. assemble(s) = [k \in 1..n |->
         s[CHOOSE i \in 1..n : Cardinality({j \in 1..n : j <= i}) = k]]
  BY <1>2, <1>3 DEF assemble
<1> QED BY <1>2, <1>4, <1>5

\* What a step may do to the staging area: files are added, gain parts, are taken.
StagingKept ==
    /\ spoilt \subseteq spoilt'
    /\ \A k \in Client \X FileID :
          staging[k] # 0 /\ k \notin spoilt' => staging'[k] = staging[k]
    /\ \A n \in 1..Len(staged) :
          n \in 1..Len(staged') /\ DOMAIN staged[n] \subseteq DOMAIN staged'[n]

\* The owners after a step, own2, are those before it, own, and the owners of new files.
OwnersKept(own, own2) ==
    /\ own2 \in [1..Len(staged') -> Client \X FileID]
    /\ \A n \in 1..Len(staged') : staged'[n] \in partsOf(own2[n][1])
    /\ \A n \in 1..Len(staged) : own2[n] = own[n]

\* No request: nothing is asked of it.
LEMMA IdleContent ==
    /\ \A A, F, G : uploadOK(Idle, A, F, G)
    /\ \A R : sendOK(Idle, R)
    /\ Idle.pc = "idle" /\ Idle.part = 0 /\ Idle.fileID = 1 /\ Idle.awaited = FALSE
  BY DEF Idle, uploadOK, sendOK, Late, Taken

\* A staged file with all the parts keeps them.
LEMMA FullStays ==
    ASSUME NEW own, OwnedBy(own), NEW own2, OwnersKept(own, own2), StagingKept,
           NEW k \in Client \X FileID, NEW n \in 1..Len(staged), own[n] = k,
           DOMAIN staged[n] = Part(k[1])
    PROVE  DOMAIN staged'[n] = Part(k[1])
<1>1. n \in 1..Len(staged') /\ Part(k[1]) \subseteq DOMAIN staged'[n]
  BY DEF StagingKept
<1>2. staged'[n] \in partsOf(k[1])
  BY <1>1 DEF OwnersKept
<1>3. DOMAIN staged'[n] \subseteq Part(k[1])
  BY <1>2 DEF partsOf
<1> QED BY <1>1, <1>3

\* What holds of a request that does not move.
LEMMA UploadKept ==
    ASSUME Inv, NEW own, OwnedBy(own), NEW own2, OwnersKept(own, own2), StagingKept,
           NEW r \in HandlerState, uploadOK(r, staging, staged, spoilt),
           r.pc \in {"put", "assemble"} =>
              r.staged \in 1..Len(staged) /\ own[r.staged] = reqKey(r)
    PROVE  uploadOK(r, staging', staged', spoilt')
<1>1. PICK k : k = reqKey(r)
  OBVIOUS
<1>2. k \in Client \X FileID /\ k[1] = r.client
  BY <1>1 DEF reqKey, HandlerState
<1>3. Len(staged) \in Nat
  BY DEF Inv, Types
<1>4. ASSUME r.pc = "put", k \notin spoilt'
      PROVE  staging'[k] = r.staged
  <2>1. staging[k] = r.staged /\ r.staged \in 1..Len(staged)
    BY <1>1, <1>4 DEF uploadOK, StagingKept
  <2>2. staging[k] # 0
    BY <1>3, <2>1
  <2> QED BY <1>2, <1>4, <2>1, <2>2 DEF StagingKept
<1>5. ASSUME r.pc = "take", k \notin spoilt'
      PROVE  staging'[k] # 0 /\ DOMAIN staged'[staging'[k]] = Part(r.client)
  <2>1. PICK n : n = staging[k]
    OBVIOUS
  <2>2. n # 0 /\ DOMAIN staged[n] = Part(r.client)
    BY <1>1, <1>5, <2>1 DEF uploadOK, StagingKept
  <2>3. n \in 1..Len(staged) /\ own[n] = k /\ staging'[k] = n
    BY <1>2, <1>5, <2>1, <2>2 DEF Inv, StagingFound, OwnedBy, StagingKept
  <2> QED BY <1>2, <2>2, <2>3, FullStays
<1>6. ASSUME r.pc = "assemble", r.whole
      PROVE  DOMAIN staged'[r.staged] = Part(r.client)
  <2>1. r.staged \in 1..Len(staged) /\ own[r.staged] = k
        /\ DOMAIN staged[r.staged] = Part(r.client)
    BY <1>1, <1>6 DEF uploadOK
  <2> QED BY <1>2, <2>1, FullStays
<1>7. r.whole => r.pc \in Taken
  BY DEF uploadOK
<1> QED BY <1>1, <1>4, <1>5, <1>6, <1>7 DEF uploadOK

\* A step of handler h that moves it to r.
LEMMA ContentMoves ==
    ASSUME Inv, NEW own, OwnedBy(own), UploadsOK, SendsOK, NEW own2, OwnersKept(own, own2),
           StagingKept, \A i \in DOMAIN rows : rows'[i] = rows[i],
           \A k \in Client \X FileID : staging'[k] # 0 => own2[staging'[k]] = k,
           NEW h \in Handler, NEW r, handler' = [handler EXCEPT ![h] = r],
           r.pc \in {"put", "assemble"} => own2[r.staged] = reqKey(r),
           uploadOK(r, staging', staged', spoilt'), sendOK(r, rows')
    PROVE  OwnedBy(own2)' /\ UploadsOK' /\ SendsOK'
<1>1. handler'[h] = r /\ \A g \in Handler \ {h} : handler'[g] = handler[g]
  BY DEF Inv, Types
<1>2. ASSUME NEW g \in Handler \ {h}
      PROVE  /\ uploadOK(handler'[g], staging', staged', spoilt') /\ sendOK(handler'[g], rows')
             /\ handler'[g].pc \in {"put", "assemble"} =>
                   own2[handler'[g].staged] = reqKey(handler'[g])
  <2>1. PICK q : q = handler[g] /\ q = handler'[g]
    BY <1>1
  <2>2. /\ q \in HandlerState /\ handlerOK(q, Len(staged), DOMAIN objects, DOMAIN rows)
        /\ uploadOK(q, staging, staged, spoilt) /\ sendOK(q, rows)
    BY <2>1 DEF Inv, Types, HandlersOK, UploadsOK, SendsOK
  <2>3. q.pc \in {"put", "assemble"} => q.staged \in 1..Len(staged) /\ own[q.staged] = reqKey(q)
    BY <2>1, <2>2 DEF OwnedBy, handlerOK
  <2>4. uploadOK(q, staging', staged', spoilt')
    BY <2>2, <2>3, UploadKept
  <2>5. sendOK(q, rows')
    BY <2>2 DEF sendOK, handlerOK
  <2>6. q.pc \in {"put", "assemble"} => own2[q.staged] = reqKey(q)
    BY <2>3 DEF OwnersKept
  <2> QED BY <2>1, <2>4, <2>5, <2>6
<1>3. UploadsOK' /\ SendsOK'
  BY <1>1, <1>2 DEF UploadsOK, SendsOK
<1>4. OwnedBy(own2)'
  BY <1>1, <1>2 DEF OwnedBy, OwnersKept
<1> QED BY <1>3, <1>4

\* What is acknowledged stays in the staged file.
LEMMA AckedKept ==
    ASSUME Inv, StagingKept, NEW c \in Client, NEW x, x.fileID \in FileID,
           ackedOK(c, x, staging, staged, spoilt)
    PROVE  ackedOK(c, x, staging', staged', spoilt')
<1>1. PICK k : k = <<c, x.fileID>>
  OBVIOUS
<1>2. k \in Client \X FileID
  BY <1>1
<1>3. ASSUME k \notin spoilt', NEW i \in x.acked
      PROVE  staging'[k] # 0 /\ i \in DOMAIN staged'[staging'[k]]
  <2>1. staging[k] # 0 /\ i \in DOMAIN staged[staging[k]]
    BY <1>1, <1>3 DEF ackedOK, StagingKept
  <2>2. staging'[k] = staging[k] /\ staging[k] \in 1..Len(staged)
    BY <1>2, <1>3, <2>1 DEF StagingKept, Inv, StagingFound
  <2> QED BY <2>1, <2>2 DEF StagingKept
<1> QED BY <1>1, <1>3 DEF ackedOK

\* When nothing moves in the staging area.
LEMMA StagingSame ==
    ASSUME Inv, UNCHANGED <<staging, staged, spoilt>>, NEW own, OwnedBy(own)
    PROVE  /\ StagingKept /\ OwnersKept(own, own)
           /\ \A k \in Client \X FileID : staging'[k] # 0 => own[staging'[k]] = k
  BY DEF StagingKept, OwnersKept, OwnedBy

-----------------------------------------------------------------------------
(* Clients, their requests and what faults cost them *)

ClientState == [fileID : FileID, acked : SUBSET Nat, sent : BOOLEAN]

ClientTypes ==
    /\ client \in [Client -> ClientState] /\ faults \in Nat /\ spoilt \subseteq Client \X FileID
    /\ \A c \in Client : client[c].acked \subseteq Part(c)

\* A request r of a client in state x: one that is awaited belongs to the upload in
\* progress, and a sendMedia that is awaited was asked for with every part acknowledged.
requestOf(r, x) ==
    /\ r.fileID <= x.fileID /\ r.part \in Part(r.client) \cup {0}
    /\ r.pc \in Taking => r.part = 0
    /\ r.awaited => r.fileID = x.fileID /\ ~x.sent /\ (r.part = 0 => x.acked = Part(r.client))

Requests == \A h \in Handler : requestOf(handler[h], client[handler[h].client])

\* Nothing else is awaited with a sendMedia.
OneTaker ==
    \A g, h \in Handler :
        /\ g # h /\ handler[g].awaited /\ handler[h].awaited
        /\ handler[g].client = handler[h].client
        => handler[g].part # 0

\* Nothing is staged, or was, under a file id its client has not come to.
UploadsKnown ==
    \A k \in Client \X FileID : k \in spoilt \/ staging[k] # 0 => k[2] <= client[k[1]].fileID

\* A fault has cost client c the upload id: its staged file is gone and nobody it waits
\* for has it, or a sendMedia it gave up on is about to take it.
lostTo(c, id) ==
    \/ /\ <<c, id>> \in spoilt
       /\ ~ \E h \in Handler :
             handler[h].awaited /\ handler[h].client = c /\ handler[h].pc \in Taken
    \/ \E h \in Handler :
          ~handler[h].awaited /\ handler[h].pc = "take" /\ reqKey(handler[h]) = <<c, id>>

\* No client has used more file ids than there were faults.
Budget ==
    \A c \in Client : ~client[c].sent =>
        /\ client[c].fileID + faults <= MaxFaults + 1
        /\ lostTo(c, client[c].fileID) => client[c].fileID + faults <= MaxFaults

ClientInv == ClientTypes /\ Requests /\ OneTaker /\ UploadsKnown /\ Budget

ContentInv == (\E own : OwnedBy(own)) /\ UploadsOK /\ SendsOK /\ AckedStaged

-----------------------------------------------------------------------------
(* What the steps do to the contents *)

\* A handler that moves to r without touching the staging area.
LEMMA MoveContent ==
    ASSUME Inv, ContentInv, ClientTypes, UNCHANGED <<staging, staged, spoilt>>,
           \A i \in DOMAIN rows : rows'[i] = rows[i],
           NEW h \in Handler, NEW r, handler' = [handler EXCEPT ![h] = r],
           r.pc \in {"put", "assemble"} =>
              /\ handler[h].pc = r.pc /\ r.staged = handler[h].staged
              /\ reqKey(r) = reqKey(handler[h]),
           uploadOK(r, staging, staged, spoilt), sendOK(r, rows'),
           \A c \in Client : \/ client'[c].acked = {}
                             \/ /\ client'[c].acked = client[c].acked
                                /\ client'[c].fileID = client[c].fileID
    PROVE  ContentInv'
<1>1. UploadsOK /\ SendsOK /\ AckedStaged
  BY DEF ContentInv
<1>2. PICK own : OwnedBy(own)
  BY DEF ContentInv
<1>3. /\ StagingKept /\ OwnersKept(own, own)
      /\ \A k \in Client \X FileID : staging'[k] # 0 => own[staging'[k]] = k
  BY <1>2, StagingSame
<1>4. r.pc \in {"put", "assemble"} => own[r.staged] = reqKey(r)
  BY <1>2 DEF OwnedBy
<1>5. uploadOK(r, staging', staged', spoilt')
  OBVIOUS
<1>6. OwnedBy(own)' /\ UploadsOK' /\ SendsOK'
  BY <1>1, <1>2, <1>3, <1>4, <1>5, ContentMoves
<1>7. ASSUME NEW c \in Client
      PROVE  ackedOK(c, client'[c], staging', staged', spoilt')
  <2>1. ackedOK(c, client[c], staging, staged, spoilt)
    BY <1>1 DEF AckedStaged
  <2> QED BY <2>1 DEF ackedOK
<1> QED BY <1>6, <1>7 DEF ContentInv, AckedStaged

\* Refusing a sendMedia.
LEMMA RefuseContent ==
    ASSUME Inv, ContentInv, ClientTypes, NEW h \in Handler, refuse(h),
           UNCHANGED <<staging, staged, spoilt, rows>>
    PROVE  ContentInv'
<1>1. handler' = [handler EXCEPT ![h] = Idle]
  BY DEF refuse
<1>2. ASSUME NEW c \in Client
      PROVE  \/ client'[c].acked = {}
             \/ /\ client'[c].acked = client[c].acked
                /\ client'[c].fileID = client[c].fileID
  <2>1. client[c] \in ClientState /\ client \in [Client -> ClientState]
    BY DEF ClientTypes
  <2>2. CASE handler[h].awaited /\ handler[h].client = c
    <3>1. client' = [client EXCEPT ![c].fileID = @ + 1, ![c].acked = {}]
      BY <2>2 DEF refuse
    <3> QED BY <2>1, <3>1 DEF ClientState
  <2>3. CASE ~(handler[h].awaited /\ handler[h].client = c)
    <3>1. client'[c] = client[c]
      BY <2>1, <2>3 DEF refuse
    <3> QED BY <3>1
  <2> QED BY <2>2, <2>3
<1>3. /\ uploadOK(Idle, staging, staged, spoilt) /\ sendOK(Idle, rows') /\ Idle.pc = "idle"
  BY IdleContent
<1> QED BY <1>1, <1>2, <1>3, MoveContent

\* A content is assembled from the staged file: all of the file, if all parts are there.
LEMMA AssembleContent ==
    ASSUME Inv, ContentInv, ClientTypes, NEW h \in Handler, assembleParts(h)
    PROVE  ContentInv'
<1>1. PICK q, d, p : /\ q = handler[h] /\ d = assemble(staged[q.staged])
                     /\ p = IF backend = "fs" THEN "copy" ELSE "putObject"
  OBVIOUS
<1>2. PICK r : r = [q EXCEPT !.data = d, !.temp = <<>>, !.pc = p]
  OBVIOUS
<1>3. /\ q.pc = "assemble" /\ UNCHANGED <<staging, staged, spoilt, rows, client>>
      /\ handler' = [handler EXCEPT ![h] = r] /\ q \in HandlerState
      /\ q.staged \in 1..Len(staged)
  BY <1>1, <1>2 DEF assembleParts, stores, Inv, Types, HandlersOK, handlerOK
<1>4. /\ r.pc = p /\ r.client = q.client /\ r.data = d /\ r.whole = q.whole
      /\ p \in {"copy", "putObject"}
  BY <1>1, <1>2, <1>3 DEF HandlerState
<1>5. q.client \in Client
  BY <1>3 DEF HandlerState
<1>6. staged[q.staged] \in partsOf(q.client)
  <2>1. PICK own : OwnedBy(own)
    BY DEF ContentInv
  <2>2. own[q.staged] = reqKey(q) /\ staged[q.staged] \in partsOf(own[q.staged][1])
    BY <1>1, <1>3, <2>1 DEF OwnedBy
  <2> QED BY <2>2 DEF reqKey
<1>7. q.whole => d = file[q.client]
  <2>1. SUFFICES ASSUME q.whole PROVE d = file[q.client]
    OBVIOUS
  <2>2. DOMAIN staged[q.staged] = Part(q.client)
    BY <1>1, <1>3, <2>1 DEF ContentInv, UploadsOK, uploadOK
  <2>3. staged[q.staged] = file[q.client]
    BY <1>5, <1>6, <2>2, AllParts
  <2>4. file[q.client] \in Seq(Byte)
    BY <1>5, FileParts
  <2> QED BY <1>1, <2>3, <2>4, AssembleWhole
<1>8. sendOK(r, rows')
  BY <1>1, <1>4, <1>6, <1>7 DEF sendOK
<1>9. uploadOK(r, staging, staged, spoilt)
  BY <1>4 DEF uploadOK, Taken, Late
<1> QED BY <1>3, <1>4, <1>8, <1>9, MoveContent

\* The calls that store it leave it as it is.
LEMMA StoreContent ==
    ASSUME Inv, ContentInv, ClientTypes, NEW h \in Handler,
           putObject(h) \/ copy(h) \/ rename(h)
    PROVE  ContentInv'
<1>1. PICK q : q = handler[h]
  OBVIOUS
<1>2. q \in HandlerState /\ handler \in [Handler -> HandlerState]
      /\ uploadOK(q, staging, staged, spoilt) /\ sendOK(q, rows)
  BY <1>1 DEF Inv, Types, ContentInv, UploadsOK, SendsOK
<1>3. q.pc \in {"putObject", "copy"} /\ UNCHANGED <<staging, staged, spoilt, rows, client>>
  BY <1>1 DEF putObject, copy, rename, stores
<1>4. PICK r : /\ handler' = [handler EXCEPT ![h] = r] /\ r.pc \in {"copy", "saveFile"}
               /\ r.client = q.client /\ r.data = q.data /\ r.whole = q.whole
  <2>1. CASE copy(h)
    <3>1. PICK t : handler' = [handler EXCEPT ![h].temp = t]
      BY <2>1 DEF copy
    <3>2. PICK r : r = [q EXCEPT !.temp = t]
      OBVIOUS
    <3>3. /\ r.pc = q.pc /\ r.client = q.client /\ r.data = q.data /\ r.whole = q.whole
      BY <1>2, <3>2 DEF HandlerState
    <3>4. handler' = [handler EXCEPT ![h] = r]
      BY <1>1, <1>2, <3>1, <3>2
    <3>5. q.pc = "copy"
      BY <1>1, <2>1 DEF copy
    <3> QED BY <3>3, <3>4, <3>5
  <2>2. CASE putObject(h) \/ rename(h)
    <3>1. handler' = [handler EXCEPT ![h].pc = "saveFile"]
      BY <2>2 DEF putObject, rename, goto
    <3>2. PICK r : r = [q EXCEPT !.pc = "saveFile"]
      OBVIOUS
    <3>3. /\ r.pc = "saveFile" /\ r.client = q.client /\ r.data = q.data /\ r.whole = q.whole
      BY <1>2, <3>2 DEF HandlerState
    <3>4. handler' = [handler EXCEPT ![h] = r]
      BY <1>1, <1>2, <3>1, <3>2
    <3> QED BY <3>3, <3>4
  <2> QED BY <2>1, <2>2
<1>5. uploadOK(r, staging, staged, spoilt)
  BY <1>4 DEF uploadOK, Taken, Late
<1>6. sendOK(r, rows')
  BY <1>2, <1>3, <1>4 DEF sendOK, Late
<1> QED BY <1>3, <1>4, <1>5, <1>6, MoveContent

\* The file row is one of the content.
LEMMA SaveFileContent ==
    ASSUME Inv, ContentInv, ClientTypes, NEW h \in Handler, saveFile(h)
    PROVE  ContentInv'
<1>1. PICK q, n : q = handler[h] /\ n = Len(rows) + 1
  OBVIOUS
<1>2. q \in HandlerState /\ handler \in [Handler -> HandlerState] /\ sendOK(q, rows)
      /\ rows \in Seq(Seq(Byte)) /\ q.data \in Seq(Byte)
  BY <1>1 DEF Inv, Types, ContentInv, SendsOK, HandlerState
<1>3. q.pc = "saveFile" /\ rows' = Append(rows, q.data)
      /\ UNCHANGED <<staging, staged, spoilt, client>>
      /\ handler' = [handler EXCEPT ![h].row = n, ![h].pc = "sendMessage"]
  BY <1>1 DEF saveFile
<1>4. PICK r : r = [q EXCEPT !.row = n, !.pc = "sendMessage"]
  OBVIOUS
<1>5. /\ r.pc = "sendMessage" /\ r.client = q.client /\ r.data = q.data /\ r.whole = q.whole
      /\ r.row = n
  BY <1>2, <1>4 DEF HandlerState
<1>6. handler' = [handler EXCEPT ![h] = r]
  BY <1>1, <1>2, <1>3, <1>4
<1>7. rows'[n] = q.data /\ \A i \in DOMAIN rows : rows'[i] = rows[i]
  BY <1>1, <1>2, <1>3
<1>8. uploadOK(r, staging, staged, spoilt)
  BY <1>5 DEF uploadOK, Taken, Late
<1>9. sendOK(r, rows')
  BY <1>2, <1>3, <1>5, <1>7 DEF sendOK, Late
<1> QED BY <1>3, <1>5, <1>6, <1>7, <1>8, <1>9, MoveContent

\* Sending it.
LEMMA SendContent ==
    ASSUME Inv, ContentInv, ClientTypes, NEW h \in Handler, sendMessage(h)
    PROVE  ContentInv'
<1>1. handler' = [handler EXCEPT ![h] = Idle] /\ UNCHANGED <<staging, staged, spoilt, rows>>
      /\ client' = [client EXCEPT ![handler[h].client].sent = @ \/ handler[h].awaited]
  BY DEF sendMessage
<1>2. ASSUME NEW c \in Client
      PROVE  client'[c].acked = client[c].acked /\ client'[c].fileID = client[c].fileID
  <2>1. client[c] \in ClientState /\ client \in [Client -> ClientState]
    BY DEF ClientTypes
  <2> QED BY <1>1, <2>1 DEF ClientState
<1>3. /\ uploadOK(Idle, staging, staged, spoilt) /\ sendOK(Idle, rows') /\ Idle.pc = "idle"
  BY IdleContent
<1> QED BY <1>1, <1>2, <1>3, MoveContent

\* A client that stops waiting.
LEMMA TimeoutContent ==
    ASSUME Inv, ContentInv, ClientTypes, NEW h \in Handler, Timeout(h)
    PROVE  ContentInv'
<1>1. PICK q, r : q = handler[h] /\ r = [q EXCEPT !.awaited = FALSE]
  OBVIOUS
<1>2. q \in HandlerState /\ handler \in [Handler -> HandlerState]
      /\ uploadOK(q, staging, staged, spoilt) /\ sendOK(q, rows)
  BY <1>1 DEF Inv, Types, ContentInv, UploadsOK, SendsOK
<1>3. UNCHANGED <<staging, staged, spoilt, rows, client>>
      /\ handler' = [handler EXCEPT ![h].awaited = FALSE]
  BY DEF Timeout, stores
<1>4. /\ r.pc = q.pc /\ r.client = q.client /\ r.data = q.data /\ r.whole = q.whole
      /\ r.row = q.row /\ r.staged = q.staged /\ r.fileID = q.fileID
  BY <1>1, <1>2 DEF HandlerState
<1>5. handler' = [handler EXCEPT ![h] = r]
  BY <1>1, <1>2, <1>3
<1>6. uploadOK(r, staging, staged, spoilt)
  BY <1>2, <1>4 DEF uploadOK, reqKey
<1>7. sendOK(r, rows')
  BY <1>2, <1>3, <1>4 DEF sendOK
<1>8. reqKey(r) = reqKey(q)
  BY <1>4 DEF reqKey
<1> QED BY <1>1, <1>3, <1>4, <1>5, <1>6, <1>7, <1>8, MoveContent

\* No part of a file is some of its parts.
LEMMA NoParts ==
    ASSUME NEW c \in Client
    PROVE  <<>> \in partsOf(c)
<1>1. <<>> = [i \in {} |-> file[c][i]] /\ {} \in SUBSET Part(c)
  OBVIOUS
<1> QED BY <1>1 DEF partsOf

\* The staged file of an upload, found or made for it: nobody else's.
LEMMA StagingFileContent ==
    ASSUME Inv, ContentInv, ClientTypes, NEW h \in Handler, stagingFile(h)
    PROVE  ContentInv'
<1>1. PICK q, k, e : q = handler[h] /\ k = reqKey(q) /\ e = <<>>
  OBVIOUS
<1>2. /\ q \in HandlerState /\ handler \in [Handler -> HandlerState] /\ q.pc = "file"
      /\ k \in Client \X FileID /\ k[1] = q.client /\ q.client \in Client /\ k = keyOf(h)
  BY <1>1 DEF Inv, Types, HandlerState, reqKey, keyOf, stagingKey, stagingFile
<1>3. PICK n, r : n = staging'[k] /\ r = [q EXCEPT !.staged = n, !.pc = "put"]
  OBVIOUS
<1>4. handler' = [handler EXCEPT ![h] = r] /\ UNCHANGED <<spoilt, rows, client>>
  BY <1>1, <1>2, <1>3 DEF stagingFile, stores
<1>5. /\ r.pc = "put" /\ r.client = q.client /\ r.fileID = q.fileID /\ r.staged = n
      /\ r.whole = q.whole /\ reqKey(r) = k
  BY <1>1, <1>2, <1>3 DEF HandlerState, reqKey
<1>6. PICK own : OwnedBy(own)
  BY DEF ContentInv
<1>7. Len(staged) \in Nat /\ staged \in Seq(Parts) /\ staging \in [Client \X FileID -> Nat]
  BY DEF Inv, Types
<1>8. \E own2 : /\ OwnersKept(own, own2) /\ StagingKept /\ own2[n] = k
                /\ \A j \in Client \X FileID : staging'[j] # 0 => own2[staging'[j]] = j
  <2>1. CASE staging[k] # 0
    <3>1. UNCHANGED <<staging, staged, spoilt>>
      BY <1>2, <1>4, <2>1 DEF stagingFile
    <3>2. /\ StagingKept /\ OwnersKept(own, own)
          /\ \A j \in Client \X FileID : staging'[j] # 0 => own[staging'[j]] = j
      BY <1>6, <3>1, StagingSame
    <3> QED BY <1>2, <1>3, <2>1, <3>1, <3>2
  <2>2. CASE staging[k] = 0
    <3>1. staged' = Append(staged, e) /\ staging' = [staging EXCEPT ![k] = Len(staged) + 1]
      BY <1>1, <1>2, <2>2 DEF stagingFile
    <3>2. n = Len(staged) + 1 /\ \A j \in (Client \X FileID) \ {k} : staging'[j] = staging[j]
      BY <1>2, <1>3, <1>7, <3>1
    <3>3. e \in partsOf(k[1])
      BY <1>1, <1>2, NoParts
    <3>4. /\ Len(staged') = n /\ staged'[n] = e
          /\ \A m \in 1..Len(staged) : m \in 1..n /\ m # n /\ staged'[m] = staged[m]
      BY <1>7, <3>1, <3>2
    <3>5. PICK own2 : own2 = [m \in 1..n |-> IF m = n THEN k ELSE own[m]]
      OBVIOUS
    <3>6. own2[n] = k /\ \A m \in 1..Len(staged) : own2[m] = own[m]
      BY <1>7, <3>2, <3>5
    <3>7. \A m \in 1..n : m = n \/ m \in 1..Len(staged)
      BY <1>7, <3>2
    <3>8. own2 \in [1..n -> Client \X FileID]
      BY <1>2, <1>6, <3>5, <3>7 DEF OwnedBy
    <3>9. \A m \in 1..n : staged'[m] \in partsOf(own2[m][1])
      BY <1>6, <3>3, <3>4, <3>6, <3>7 DEF OwnedBy
    <3>10. OwnersKept(own, own2)
      BY <3>4, <3>6, <3>8, <3>9 DEF OwnersKept
    <3>11. StagingKept
      BY <1>4, <2>2, <3>2, <3>4 DEF StagingKept
    <3>12. \A j \in Client \X FileID : staging'[j] # 0 => own2[staging'[j]] = j
      <4>1. ASSUME NEW j \in Client \X FileID, staging'[j] # 0, j # k
            PROVE  own2[staging'[j]] = j
        <5>1. staging'[j] = staging[j] /\ staging[j] \in 1..Len(staged)
          BY <3>2, <4>1 DEF Inv, StagingFound
        <5>2. own[staging[j]] = j
          BY <1>6, <4>1, <5>1 DEF OwnedBy
        <5> QED BY <3>6, <5>1, <5>2
      <4> QED BY <1>3, <3>6, <4>1
    <3> QED BY <3>6, <3>10, <3>11, <3>12
  <2> QED BY <2>1, <2>2
<1>9. PICK own2 : /\ OwnersKept(own, own2) /\ StagingKept /\ own2[n] = k
                  /\ \A j \in Client \X FileID : staging'[j] # 0 => own2[staging'[j]] = j
  BY <1>8
<1>10. uploadOK(r, staging', staged', spoilt') /\ sendOK(r, rows')
  <2>1. q.whole => q.pc \in Taken
    BY <1>1 DEF ContentInv, UploadsOK, uploadOK
  <2>2. ~q.whole
    BY <1>2, <2>1 DEF Taken, Late
  <2> QED BY <1>3, <1>5, <2>2 DEF uploadOK, sendOK, Late
<1>11. OwnedBy(own2)' /\ UploadsOK' /\ SendsOK'
  <2>1. UploadsOK /\ SendsOK /\ \A i \in DOMAIN rows : rows'[i] = rows[i]
    BY <1>4 DEF ContentInv
  <2>2. r.pc \in {"put", "assemble"} => own2[r.staged] = reqKey(r)
    BY <1>5, <1>9
  <2> QED BY <1>4, <1>6, <1>9, <1>10, <2>1, <2>2, ContentMoves
<1>12. AckedStaged'
  <2>1. ASSUME NEW c \in Client
        PROVE  ackedOK(c, client'[c], staging', staged', spoilt')
    <3>1. ackedOK(c, client[c], staging, staged, spoilt) /\ client[c].fileID \in FileID
      BY DEF ContentInv, AckedStaged, ClientTypes, ClientState
    <3>2. ackedOK(c, client[c], staging', staged', spoilt')
      BY <1>9, <3>1, AckedKept
    <3> QED BY <1>4, <3>2
  <2> QED BY <2>1 DEF AckedStaged
<1> QED BY <1>11, <1>12 DEF ContentInv

\* A part is put into the staged file of its own upload, and that is what its client is
\* told.
LEMMA PutPartContent ==
    ASSUME Inv, ContentInv, ClientTypes, Requests, NEW h \in Handler, putPart(h)
    PROVE  ContentInv'
<1>1. PICK q, n, k, p : /\ q = handler[h] /\ n = q.staged /\ k = reqKey(q)
                        /\ p = withPart(staged[n], q.part, file[q.client][q.part])
  OBVIOUS
<1>2. /\ q \in HandlerState /\ handler \in [Handler -> HandlerState] /\ q.pc = "put"
      /\ q.client \in Client /\ k[1] = q.client /\ n \in 1..Len(staged)
      /\ k \in Client \X FileID /\ q.part \in Part(q.client)
  BY <1>1 DEF Inv, Types, HandlerState, reqKey, putPart, HandlersOK, handlerOK
<1>3. /\ handler' = [handler EXCEPT ![h] = Idle] /\ UNCHANGED <<staging, spoilt, rows>>
      /\ staged' = [staged EXCEPT ![n] = p]
      /\ client' = [client EXCEPT ![q.client].acked =
                        IF q.awaited THEN @ \cup {q.part} ELSE @]
  BY <1>1 DEF putPart, stores
<1>4. PICK own : OwnedBy(own)
  BY DEF ContentInv
<1>5. Len(staged) \in Nat /\ staged \in Seq(Parts) /\ DOMAIN staged = 1..Len(staged)
  BY DEF Inv, Types
<1>6. own[n] = k /\ staged[n] \in partsOf(q.client)
  BY <1>1, <1>2, <1>4 DEF OwnedBy
<1>7. p \in partsOf(q.client) /\ DOMAIN p = DOMAIN staged[n] \cup {q.part}
  <2>1. PICK s, c, i : s = staged[n] /\ c = q.client /\ i = q.part
    OBVIOUS
  <2>2. c \in Client /\ s \in partsOf(c) /\ i \in Part(c) /\ p = withPart(s, i, file[c][i])
    BY <1>1, <1>2, <1>6, <2>1
  <2>3. p \in partsOf(c) /\ DOMAIN p = DOMAIN s \cup {i}
    BY <2>2, OnePartMore
  <2> QED BY <2>1, <2>3
<1>8. /\ DOMAIN staged' = 1..Len(staged) /\ Len(staged') = Len(staged)
      /\ staged'[n] = p /\ \A m \in (1..Len(staged)) \ {n} : staged'[m] = staged[m]
  BY <1>2, <1>3, <1>5
<1>9. StagingKept
  BY <1>3, <1>7, <1>8 DEF StagingKept
<1>10. OwnersKept(own, own)
  BY <1>2, <1>4, <1>6, <1>7, <1>8 DEF OwnersKept, OwnedBy
<1>11. OwnedBy(own)' /\ UploadsOK' /\ SendsOK'
  <2>1. UploadsOK /\ SendsOK /\ \A i \in DOMAIN rows : rows'[i] = rows[i]
    BY <1>3 DEF ContentInv
  <2>2. /\ uploadOK(Idle, staging', staged', spoilt') /\ sendOK(Idle, rows')
        /\ Idle.pc \in {"put", "assemble"} => own[Idle.staged] = reqKey(Idle)
    BY IdleContent
  <2>3. \A j \in Client \X FileID : staging'[j] # 0 => own[staging'[j]] = j
    BY <1>3, <1>4 DEF OwnedBy
  <2> QED BY <1>3, <1>4, <1>9, <1>10, <2>1, <2>2, <2>3, ContentMoves
<1>12. ASSUME NEW c \in Client
       PROVE  ackedOK(c, client'[c], staging', staged', spoilt')
  <2>1. /\ ackedOK(c, client[c], staging, staged, spoilt) /\ client[c].fileID \in FileID
        /\ client[c] \in ClientState /\ client \in [Client -> ClientState]
    BY DEF ContentInv, AckedStaged, ClientTypes, ClientState
  <2>2. ackedOK(c, client[c], staging', staged', spoilt')
    BY <1>9, <2>1, AckedKept
  <2>3. CASE c # q.client \/ ~q.awaited
    <3>1. client'[c] = client[c]
      BY <1>2, <1>3, <2>1, <2>3 DEF ClientState
    <3> QED BY <2>2, <3>1
  <2>4. CASE c = q.client /\ q.awaited
    <3>1. client'[c].acked = client[c].acked \cup {q.part} /\ client'[c].fileID = client[c].fileID
      BY <1>2, <1>3, <2>1, <2>4 DEF ClientState
    <3>2. q.fileID = client[c].fileID
      BY <1>1, <2>4 DEF Requests, requestOf
    <3>3. k = <<c, client[c].fileID>>
      BY <1>1, <2>4, <3>2 DEF reqKey
    <3>4. k \notin spoilt => staging[k] = n
      BY <1>1, <1>2 DEF ContentInv, UploadsOK, uploadOK
    <3>5. n # 0
      BY <1>2, <1>5
    <3>6. k \notin spoilt' => staging'[k] # 0 /\ q.part \in DOMAIN staged'[staging'[k]]
      BY <1>3, <1>7, <1>8, <3>4, <3>5
    <3> QED BY <2>2, <3>1, <3>3, <3>6 DEF ackedOK
  <2> QED BY <2>3, <2>4
<1> QED BY <1>11, <1>12 DEF ContentInv, AckedStaged

\* A sendMedia takes the staged file: the one with all the parts its client was told of,
\* when nobody took it before.
LEMMA TakeContent ==
    ASSUME Inv, ContentInv, ClientTypes, NEW h \in Handler, take(h)
    PROVE  ContentInv'
<1>1. PICK q, k, w : q = handler[h] /\ k = reqKey(q) /\ w = (k \notin spoilt)
  OBVIOUS
<1>2. /\ q \in HandlerState /\ handler \in [Handler -> HandlerState] /\ q.pc = "take"
      /\ q.client \in Client /\ k[1] = q.client
      /\ k \in Client \X FileID /\ k = keyOf(h) /\ staging \in [Client \X FileID -> Nat]
  BY <1>1 DEF Inv, Types, HandlerState, reqKey, keyOf, stagingKey, take
<1>3. CASE staging[k] = 0
  <2>1. refuse(h) /\ UNCHANGED <<staging, staged, spoilt, rows>>
    BY <1>2, <1>3 DEF take, stores
  <2> QED BY <2>1, RefuseContent
<1>4. CASE staging[k] # 0
  <2>1. PICK n : n = staging[k]
    OBVIOUS
  <2>2. PICK r : r = [q EXCEPT !.staged = n, !.pc = "assemble", !.whole = w]
    OBVIOUS
  <2>3. /\ UNCHANGED <<staged, rows, client>> /\ staging' = [staging EXCEPT ![k] = 0]
        /\ spoilt' = spoilt \cup {k}
        /\ handler' = [handler EXCEPT ![h].staged = n, ![h].pc = "assemble", ![h].whole = w]
    BY <1>1, <1>2, <1>4, <2>1 DEF take, stores
  <2>4. handler' = [handler EXCEPT ![h] = r]
    BY <1>1, <1>2, <2>2, <2>3
  <2>5. /\ r.pc = "assemble" /\ r.client = q.client /\ r.fileID = q.fileID
        /\ r.staged = n /\ r.whole = w
    BY <1>2, <2>2 DEF HandlerState
  <2>6. reqKey(r) = k
    BY <1>1, <2>5 DEF reqKey
  <2>7. PICK own : OwnedBy(own)
    BY DEF ContentInv
  <2>8. own[n] = k
    BY <1>2, <1>4, <2>1, <2>7 DEF OwnedBy
  <2>9. /\ staging'[k] = 0 /\ \A j \in (Client \X FileID) \ {k} : staging'[j] = staging[j]
    BY <1>2, <2>3
  <2>10. StagingKept /\ OwnersKept(own, own)
    BY <2>3, <2>7, <2>9 DEF StagingKept, OwnersKept, OwnedBy
  <2>11. \A j \in Client \X FileID : staging'[j] # 0 => own[staging'[j]] = j
    BY <2>7, <2>9 DEF OwnedBy
  <2>12. uploadOK(r, staging', staged', spoilt') /\ sendOK(r, rows')
    <3>1. k \notin spoilt => DOMAIN staged[n] = Part(q.client)
      BY <1>1, <1>2, <2>1 DEF ContentInv, UploadsOK, uploadOK
    <3>2. w => DOMAIN staged'[n] = Part(q.client)
      BY <1>1, <2>3, <3>1
    <3> QED BY <2>5, <3>2 DEF uploadOK, sendOK, Taken, Late
  <2>13. OwnedBy(own)' /\ UploadsOK' /\ SendsOK'
    <3>1. UploadsOK /\ SendsOK /\ \A i \in DOMAIN rows : rows'[i] = rows[i]
      BY <2>3 DEF ContentInv
    <3>2. r.pc \in {"put", "assemble"} => own[r.staged] = reqKey(r)
      BY <2>5, <2>6, <2>8
    <3> QED BY <2>4, <2>7, <2>10, <2>11, <2>12, <3>1, <3>2, ContentMoves
  <2>14. AckedStaged'
    <3>1. ASSUME NEW c \in Client
          PROVE  ackedOK(c, client'[c], staging', staged', spoilt')
      <4>1. ackedOK(c, client[c], staging, staged, spoilt) /\ client[c].fileID \in FileID
        BY DEF ContentInv, AckedStaged, ClientTypes, ClientState
      <4>2. ackedOK(c, client[c], staging', staged', spoilt')
        BY <2>10, <4>1, AckedKept
      <4> QED BY <2>3, <4>2
    <3> QED BY <3>1 DEF AckedStaged
  <2> QED BY <2>13, <2>14 DEF ContentInv
<1> QED BY <1>3, <1>4

\* A request r of client c in state x, as it begins.
begun(r, c, x, part, pc) ==
    /\ r.pc = pc /\ r.client = c /\ r.fileID = x.fileID /\ r.part = part
    /\ r.awaited = TRUE /\ r.whole = FALSE

\* A request begins: a goroutine that was free has it.
LEMMA BeginShape ==
    ASSUME Inv, NEW c \in Client, NEW part \in Nat, NEW pc \in {"file", "take"},
           Begin(c, part, pc)
    PROVE  \E g \in Handler : \E r \in HandlerState :
                 /\ handler[g].pc = "idle" /\ handler' = [handler EXCEPT ![g] = r]
                 /\ begun(r, c, client[c], part, pc)
<1>1. PICK f, g : f = client[c].fileID /\ g = CHOOSE h \in Handler : handler[h].pc = "idle"
  OBVIOUS
<1>2. PICK r : r = [Idle EXCEPT !.pc = pc, !.client = c, !.fileID = f, !.part = part,
                                !.awaited = TRUE]
  OBVIOUS
<1>3. g \in Handler /\ handler[g].pc = "idle"
  BY <1>1 DEF Begin
<1>4. f \in FileID /\ pc \in PC /\ Idle \in HandlerState /\ Idle.whole = FALSE
  BY <1>1, IdleOK DEF Begin, PC, Idle
<1>5. /\ r \in HandlerState /\ r.pc = pc /\ r.client = c /\ r.fileID = f /\ r.part = part
      /\ r.awaited = TRUE /\ r.whole = FALSE
  BY <1>2, <1>4 DEF HandlerState
<1>6. handler' = [handler EXCEPT ![g] = r]
  BY <1>1, <1>2 DEF Begin
<1>7. begun(r, c, client[c], part, pc)
  BY <1>1, <1>5 DEF begun
<1> QED BY <1>3, <1>5, <1>6, <1>7

\* A sendMedia begins when its client was told that every part is stored, so every part
\* is in the staged file, unless that was taken or lost.
LEMMA BeginContent ==
    ASSUME Inv, ContentInv, ClientTypes, NEW c \in Client, NEW part \in Nat,
           NEW pc \in {"file", "take"}, Begin(c, part, pc),
           pc = "take" => client[c].acked = Part(c)
    PROVE  ContentInv'
<1>1. /\ client[c].fileID \in FileID /\ UNCHANGED <<staging, staged, rows, client, spoilt>>
  BY DEF Begin, stores
<1>2. PICK g \in Handler, r \in HandlerState :
         handler' = [handler EXCEPT ![g] = r] /\ begun(r, c, client[c], part, pc)
  BY BeginShape
<1>3. PICK k, x : k = reqKey(r) /\ x = client[c]
  OBVIOUS
<1>4. k = <<c, x.fileID>> /\ k \in Client \X FileID
  BY <1>1, <1>2, <1>3 DEF reqKey, begun
<1>5. ASSUME pc = "take", k \notin spoilt
      PROVE  staging[k] # 0 /\ DOMAIN staged[staging[k]] = Part(c)
  <2>1. PICK n : n = staging[k]
    OBVIOUS
  <2>2. Part(c) # {}
    BY FileParts
  <2>3. n # 0 /\ Part(c) \subseteq DOMAIN staged[n]
    BY <1>3, <1>4, <1>5, <2>1, <2>2 DEF ContentInv, AckedStaged, ackedOK
  <2>4. PICK own : OwnedBy(own)
    BY DEF ContentInv
  <2>5. n \in 1..Len(staged) /\ own[n] = k
    BY <1>4, <2>1, <2>3, <2>4 DEF Inv, StagingFound, OwnedBy
  <2>6. staged[n] \in partsOf(c)
    BY <1>4, <2>4, <2>5 DEF OwnedBy
  <2>7. DOMAIN staged[n] \subseteq Part(c)
    BY <2>6 DEF partsOf
  <2> QED BY <2>1, <2>3, <2>7
<1>6. uploadOK(r, staging, staged, spoilt)
  BY <1>2, <1>3, <1>5 DEF uploadOK, begun
<1>7. sendOK(r, rows') /\ r.pc \notin {"put", "assemble"}
  BY <1>2 DEF sendOK, Late, begun
<1> QED BY <1>1, <1>2, <1>6, <1>7, MoveContent

\* A restart loses every staged file with the requests that work on it.
LEMMA RestartContent ==
    ASSUME Inv, ContentInv, ClientTypes, Restart
    PROVE  ContentInv'
<1>1. /\ staging' = [k \in DOMAIN staging |-> 0] /\ staged' = <<>>
      /\ handler' = [h \in Handler |-> Idle] /\ UNCHANGED <<rows, client>>
      /\ spoilt' = spoilt \cup {k \in DOMAIN staging : staging[k] # 0}
  BY DEF Restart, stores
<1>2. DOMAIN staging = Client \X FileID
  BY DEF Inv, Types
<1>3. \A h \in Handler : handler'[h] = Idle
  BY <1>1
<1>4. UploadsOK' /\ SendsOK'
  BY <1>3, IdleContent DEF UploadsOK, SendsOK
<1>5. \E own : OwnedBy(own)'
  <2>1. Len(staged') = 0 /\ 1..Len(staged') = {}
    BY <1>1
  <2>2. PICK own : own \in [1..Len(staged') -> Client \X FileID]
    <3>1. <<>> \in [{} -> Client \X FileID]
      OBVIOUS
    <3> QED BY <2>1, <3>1
  <2>3. /\ \A k \in Client \X FileID : staging'[k] # 0 => own[staging'[k]] = k
        /\ \A n \in 1..Len(staged') : staged'[n] \in partsOf(own[n][1])
        /\ \A h \in Handler : handler'[h].pc \in {"put", "assemble"} =>
              own[handler'[h].staged] = reqKey(handler'[h])
    BY <1>1, <1>2, <1>3, <2>1, IdleContent
  <2> QED BY <2>2, <2>3 DEF OwnedBy
<1>6. ASSUME NEW c \in Client
      PROVE  ackedOK(c, client'[c], staging', staged', spoilt')
  <2>1. PICK x, k : x = client[c] /\ k = <<c, x.fileID>>
    OBVIOUS
  <2>2. k \in Client \X FileID
    BY <2>1 DEF ClientTypes, ClientState
  <2>3. k \notin spoilt' => k \notin spoilt /\ staging[k] = 0
    BY <1>1, <1>2, <2>2
  <2>4. k \notin spoilt => \A i \in x.acked : staging[k] # 0
    BY <2>1 DEF ContentInv, AckedStaged, ackedOK
  <2>5. k \notin spoilt' => x.acked = {}
    BY <2>3, <2>4
  <2>6. client'[c] = x
    BY <1>1, <2>1
  <2> QED BY <2>1, <2>5, <2>6 DEF ackedOK
<1> QED BY <1>4, <1>5, <1>6 DEF ContentInv, AckedStaged

\* Every step keeps what is known of the contents.
LEMMA NextContent ==
    ASSUME Inv, ContentInv, ClientTypes, Requests, [Next]_vars
    PROVE  ContentInv'
<1>1. ASSUME NEW h \in Handler, HandlerStep(h) PROVE ContentInv'
  BY <1>1, StagingFileContent, PutPartContent, TakeContent, AssembleContent, StoreContent,
     SaveFileContent, SendContent DEF HandlerStep
<1>2. ASSUME NEW h \in Handler, fail(h) PROVE ContentInv'
  <2>1. refuse(h) /\ UNCHANGED <<staging, staged, spoilt, rows>>
    BY <1>2 DEF fail, stores
  <2> QED BY <2>1, RefuseContent
<1>3. ASSUME NEW h \in Handler, Timeout(h) PROVE ContentInv'
  BY <1>3, TimeoutContent
<1>4. ASSUME NEW c \in Client, Request(c) PROVE ContentInv'
  <2>1. ASSUME NEW i \in Part(c), uploadSaveFilePart(c, i) PROVE ContentInv'
    <3>1. i \in Nat
      BY FileParts
    <3> QED BY <2>1, <3>1, BeginContent DEF uploadSaveFilePart
  <2>2. CASE messagesSendMedia(c)
    BY <2>2, BeginContent DEF messagesSendMedia
  <2> QED BY <1>4, <2>1, <2>2 DEF Request
<1>5. CASE Restart
  BY <1>5, RestartContent
<1>6. CASE UNCHANGED <<staging, staged, rows, handler, client, spoilt>>
  BY <1>6 DEF ContentInv, OwnedBy, UploadsOK, SendsOK, AckedStaged
<1>7. ASSUME NEW r \in Reader, uploadGetFile(r) \/ \E m \in DOMAIN messages : OpenMedia(r, m)
      PROVE  UNCHANGED <<staging, staged, rows, handler, client, spoilt>>
  BY <1>7 DEF uploadGetFile, OpenMedia, stores
<1>8. UNCHANGED vars => UNCHANGED <<staging, staged, rows, handler, client, spoilt>>
  BY DEF vars
<1> QED BY <1>1, <1>2, <1>3, <1>4, <1>5, <1>6, <1>7, <1>8 DEF Next

-----------------------------------------------------------------------------
(* What the steps do to the clients *)

\* What a client is waiting for does not change when no request begins.
LEMMA TakersKept ==
    ASSUME Inv, OneTaker, NEW h \in Handler, NEW r, handler' = [handler EXCEPT ![h] = r],
           r.awaited => /\ handler[h].awaited /\ r.client = handler[h].client
                        /\ r.part = handler[h].part
    PROVE  OneTaker'
<1>1. handler'[h] = r /\ \A g \in Handler \ {h} : handler'[g] = handler[g]
  BY DEF Inv, Types
<1>2. ASSUME NEW f \in Handler, NEW g \in Handler, f # g, handler'[f].awaited,
             handler'[g].awaited, handler'[f].client = handler'[g].client
      PROVE  handler'[f].part # 0
  <2>1. \A j \in Handler : handler'[j].awaited =>
            /\ handler[j].awaited /\ handler'[j].client = handler[j].client
            /\ handler'[j].part = handler[j].part
    BY <1>1
  <2>2. /\ handler[f].awaited /\ handler[g].awaited /\ handler[f].client = handler[g].client
        /\ handler'[f].part = handler[f].part
    BY <1>2, <2>1
  <2>3. handler[f].part # 0
    BY <1>2, <2>2 DEF OneTaker
  <2> QED BY <2>2, <2>3
<1> QED BY <1>2 DEF OneTaker

\* A client that waits for a sendMedia waits for nothing else.
LEMMA NoOther ==
    ASSUME OneTaker, NEW h \in Handler, handler[h].awaited, handler[h].part = 0,
           NEW g \in Handler \ {h}, handler[g].awaited
    PROVE  handler[g].client # handler[h].client
  BY DEF OneTaker

\* A step of handler h costs nobody an upload, as long as an awaited sendMedia that has
\* taken the file goes on and none that was given up comes to the point of taking one.
LEMMA LostKept ==
    ASSUME Inv, NEW h \in Handler, NEW r, handler' = [handler EXCEPT ![h] = r],
           NEW c, NEW id, spoilt' = spoilt,
           handler[h].awaited /\ handler[h].client = c /\ handler[h].pc \in Taken =>
              r.awaited /\ r.client = c /\ r.pc \in Taken,
           ~(~r.awaited /\ r.pc = "take"),
           lostTo(c, id)'
    PROVE  lostTo(c, id)
<1>1. handler'[h] = r /\ \A g \in Handler \ {h} : handler'[g] = handler[g]
  BY DEF Inv, Types
<1>2. CASE \E g \in Handler :
              ~handler'[g].awaited /\ handler'[g].pc = "take" /\ reqKey(handler'[g]) = <<c, id>>
  <2>1. PICK g \in Handler :
              ~handler'[g].awaited /\ handler'[g].pc = "take" /\ reqKey(handler'[g]) = <<c, id>>
    BY <1>2
  <2>2. g # h
    BY <1>1, <2>1
  <2>3. handler'[g] = handler[g]
    BY <1>1, <2>2
  <2> QED BY <2>1, <2>3 DEF lostTo
<1>3. CASE /\ <<c, id>> \in spoilt
           /\ ~ \E g \in Handler :
                 handler'[g].awaited /\ handler'[g].client = c /\ handler'[g].pc \in Taken
  <2>1. ASSUME NEW g \in Handler,
               handler[g].awaited, handler[g].client = c, handler[g].pc \in Taken
        PROVE  FALSE
    <3>1. CASE g = h
      BY <1>1, <1>3, <2>1, <3>1
    <3>2. CASE g # h
      BY <1>1, <1>3, <2>1, <3>2
    <3> QED BY <3>1, <3>2
  <2> QED BY <1>3, <2>1 DEF lostTo
<1> QED BY <1>2, <1>3 DEF lostTo

\* A request that goes on, from q to r, as far as its client sees it.
goesOn(q, r) ==
    /\ r.client = q.client /\ r.fileID = q.fileID /\ r.part = q.part /\ r.awaited = q.awaited
    /\ q.pc \in Taken => r.pc \in Taken
    /\ r.pc \in Taking => q.pc \in Taking
    /\ r.pc # "take"

\* It changes nothing for the clients.
LEMMA QuietClient ==
    ASSUME Inv, ClientInv, NEW h \in Handler, NEW q, q = handler[h], NEW r, goesOn(q, r),
           handler' = [handler EXCEPT ![h] = r], UNCHANGED <<client, faults, spoilt>>,
           \A k \in Client \X FileID : staging'[k] # 0 => staging[k] # 0 \/ k = reqKey(q)
    PROVE  ClientInv'
<1>1. handler'[h] = r /\ \A g \in Handler \ {h} : handler'[g] = handler[g]
  BY DEF Inv, Types
<1>2. ClientTypes'
  BY DEF ClientInv, ClientTypes
<1>3. requestOf(q, client[q.client])
  BY DEF ClientInv, Requests
<1>4. Requests'
  <2>1. requestOf(r, client[r.client])
    BY <1>3 DEF requestOf, goesOn
  <2>2. \A g \in Handler : requestOf(handler'[g], client[handler'[g].client])
    BY <1>1, <2>1 DEF ClientInv, Requests
  <2> QED BY <2>2 DEF Requests
<1>5. OneTaker'
  BY TakersKept DEF ClientInv, goesOn
<1>6. UploadsKnown'
  <2>1. ASSUME NEW k \in Client \X FileID, k \in spoilt \/ staging'[k] # 0
        PROVE  k[2] <= client[k[1]].fileID
    <3>1. CASE k = reqKey(q)
      BY <1>3, <3>1 DEF requestOf, reqKey
    <3>2. CASE k # reqKey(q)
      BY <2>1, <3>2 DEF ClientInv, UploadsKnown
    <3> QED BY <3>1, <3>2
  <2> QED BY <2>1 DEF UploadsKnown
<1>7. Budget'
  <2>1. ASSUME NEW c \in Client, NEW id, lostTo(c, id)' PROVE lostTo(c, id)
    <3>1. /\ handler[h].awaited /\ handler[h].client = c /\ handler[h].pc \in Taken =>
                r.awaited /\ r.client = c /\ r.pc \in Taken
          /\ ~(~r.awaited /\ r.pc = "take")
      BY DEF goesOn
    <3> QED BY <2>1, <3>1, LostKept
  <2> QED BY <2>1 DEF ClientInv, Budget
<1> QED BY <1>2, <1>4, <1>5, <1>6, <1>7 DEF ClientInv

\* Finding or making a staged file changes nothing for them.
LEMMA StagingFileClient ==
    ASSUME Inv, ClientInv, NEW h \in Handler, stagingFile(h)
    PROVE  ClientInv'
<1>1. PICK q, n : q = handler[h] /\ n = staging'[keyOf(h)]
  OBVIOUS
<1>2. PICK r : r = [q EXCEPT !.staged = n, !.pc = "put"]
  OBVIOUS
<1>3. /\ q \in HandlerState /\ handler' = [handler EXCEPT ![h] = r]
      /\ UNCHANGED <<client, faults, spoilt>> /\ q.pc = "file"
  BY <1>1, <1>2 DEF stagingFile, Inv, Types
<1>4. /\ r.client = q.client /\ r.fileID = q.fileID /\ r.part = q.part /\ r.awaited = q.awaited
      /\ r.pc = "put"
  BY <1>2, <1>3 DEF HandlerState
<1>5. \A k \in Client \X FileID : staging'[k] # 0 => staging[k] # 0 \/ k = reqKey(q)
  BY <1>1 DEF stagingFile, keyOf, stagingKey, reqKey, Inv, Types
<1>6. goesOn(q, r)
  BY <1>3, <1>4 DEF goesOn, Taken, Taking, Late
<1> QED BY <1>1, <1>3, <1>5, <1>6, QuietClient

\* Nor do the steps of a sendMedia between taking the file and sending the message.
LEMMA StoreClient ==
    ASSUME Inv, ClientInv, NEW h \in Handler,
           assembleParts(h) \/ putObject(h) \/ copy(h) \/ rename(h) \/ saveFile(h)
    PROVE  ClientInv'
<1>1. PICK q : q = handler[h]
  OBVIOUS
<1>2. /\ q \in HandlerState /\ handler \in [Handler -> HandlerState]
      /\ UNCHANGED <<client, faults, spoilt, staging>>
      /\ q.pc \in {"assemble", "putObject", "copy", "saveFile"}
  BY <1>1 DEF assembleParts, putObject, copy, rename, saveFile, Inv, Types
<1>3. PICK r : /\ handler' = [handler EXCEPT ![h] = r] /\ r.pc \in Late
               /\ r.client = q.client /\ r.fileID = q.fileID /\ r.part = q.part
               /\ r.awaited = q.awaited
  <2>1. CASE assembleParts(h)
    <3>1. PICK d, p : p = (IF backend = "fs" THEN "copy" ELSE "putObject")
                      /\ d = assemble(staged[q.staged])
      OBVIOUS
    <3>2. PICK r : r = [q EXCEPT !.data = d, !.temp = <<>>, !.pc = p]
      OBVIOUS
    <3>3. handler' = [handler EXCEPT ![h] = r]
      BY <1>1, <2>1, <3>1, <3>2 DEF assembleParts
    <3>4. /\ r.client = q.client /\ r.fileID = q.fileID /\ r.part = q.part
          /\ r.awaited = q.awaited /\ r.pc \in Late
      BY <1>2, <3>1, <3>2 DEF HandlerState, Late
    <3> QED BY <3>3, <3>4
  <2>2. CASE copy(h)
    <3>1. PICK t : handler' = [handler EXCEPT ![h].temp = t]
      BY <2>2 DEF copy
    <3>2. PICK r : r = [q EXCEPT !.temp = t]
      OBVIOUS
    <3>3. handler' = [handler EXCEPT ![h] = r]
      BY <1>1, <1>2, <3>1, <3>2
    <3>4. q.pc = "copy"
      BY <1>1, <2>2 DEF copy
    <3>5. /\ r.client = q.client /\ r.fileID = q.fileID /\ r.part = q.part
          /\ r.awaited = q.awaited /\ r.pc \in Late
      BY <1>2, <3>2, <3>4 DEF HandlerState, Late
    <3> QED BY <3>3, <3>5
  <2>3. CASE putObject(h) \/ rename(h)
    <3>1. handler' = [handler EXCEPT ![h].pc = "saveFile"]
      BY <2>3 DEF putObject, rename, goto
    <3>2. PICK r : r = [q EXCEPT !.pc = "saveFile"]
      OBVIOUS
    <3>3. handler' = [handler EXCEPT ![h] = r]
      BY <1>1, <1>2, <3>1, <3>2
    <3>4. /\ r.client = q.client /\ r.fileID = q.fileID /\ r.part = q.part
          /\ r.awaited = q.awaited /\ r.pc \in Late
      BY <1>2, <3>2 DEF HandlerState, Late
    <3> QED BY <3>3, <3>4
  <2>4. CASE saveFile(h)
    <3>1. PICK w : handler' = [handler EXCEPT ![h].row = w, ![h].pc = "sendMessage"]
      BY <2>4 DEF saveFile
    <3>2. PICK r : r = [q EXCEPT !.row = w, !.pc = "sendMessage"]
      OBVIOUS
    <3>3. handler' = [handler EXCEPT ![h] = r]
      BY <1>1, <1>2, <3>1, <3>2
    <3>4. /\ r.client = q.client /\ r.fileID = q.fileID /\ r.part = q.part
          /\ r.awaited = q.awaited /\ r.pc \in Late
      BY <1>2, <3>2 DEF HandlerState, Late
    <3> QED BY <3>3, <3>4
  <2> QED BY <2>1, <2>2, <2>3, <2>4
<1>4. goesOn(q, r)
  BY <1>2, <1>3 DEF goesOn, Taken, Taking, Late
<1> QED BY <1>1, <1>2, <1>3, <1>4, QuietClient

\* A request that ends leaves those of the others.
LEMMA EndRequests ==
    ASSUME Inv, ClientTypes', NEW h \in Handler, handler' = [handler EXCEPT ![h] = Idle],
           \A g \in Handler \ {h} : requestOf(handler[g], client'[handler[g].client])
    PROVE  Requests'
<1>1. handler'[h] = Idle /\ \A g \in Handler \ {h} : handler'[g] = handler[g]
  BY DEF Inv, Types
<1>2. PICK x : x = client'[Idle.client]
  OBVIOUS
<1>3. Idle.client \in Client
  BY IdleOK DEF HandlerState
<1>4. x.fileID \in FileID
  BY <1>2, <1>3 DEF ClientTypes, ClientState
<1>5. 1 <= x.fileID
  BY <1>4, UploadAssumption DEF FileID
<1>6. requestOf(Idle, x)
  BY <1>5, IdleContent DEF requestOf, Taking, Taken, Late
<1> QED BY <1>1, <1>2, <1>6 DEF Requests

\* A part that is stored: the client knows of one part more.
LEMMA PutPartClient ==
    ASSUME Inv, ClientInv, NEW h \in Handler, putPart(h)
    PROVE  ClientInv'
<1>1. PICK q, b, p : q = handler[h] /\ b = q.client /\ p = q.part
  OBVIOUS
<1>2. /\ q \in HandlerState /\ handler \in [Handler -> HandlerState] /\ q.pc = "put"
      /\ b \in Client /\ p \in Part(b)
  BY <1>1 DEF Inv, Types, HandlerState, putPart, HandlersOK, handlerOK
<1>3. /\ handler' = [handler EXCEPT ![h] = Idle] /\ UNCHANGED <<staging, faults, spoilt>>
      /\ client' = [client EXCEPT ![b].acked = IF q.awaited THEN @ \cup {p} ELSE @]
  BY <1>1 DEF putPart
<1>4. /\ client \in [Client -> ClientState] /\ faults \in Nat /\ spoilt \subseteq Client \X FileID
      /\ \A c \in Client : client[c].acked \subseteq Part(c)
  BY DEF ClientInv, ClientTypes
<1>5. ASSUME NEW c \in Client
      PROVE  /\ client'[c] \in ClientState
             /\ client'[c].fileID = client[c].fileID /\ client'[c].sent = client[c].sent
             /\ client'[c].acked \subseteq Part(c) /\ client[c].acked \subseteq client'[c].acked
  <2>1. client[c] \in ClientState /\ client[c].acked \subseteq Nat
    BY <1>4 DEF ClientState
  <2>2. CASE c = b
    <3>1. PICK a : a = IF q.awaited THEN client[c].acked \cup {p} ELSE client[c].acked
      OBVIOUS
    <3>2. client'[c] = [client[c] EXCEPT !.acked = a]
      BY <1>3, <1>4, <2>2, <3>1
    <3>3. Part(c) \subseteq Nat
      BY FileParts
    <3>4. a \in SUBSET Nat /\ a \subseteq Part(c) /\ client[c].acked \subseteq a
      BY <1>2, <1>4, <2>1, <2>2, <3>1, <3>3
    <3> QED BY <2>1, <3>2, <3>4 DEF ClientState
  <2>3. CASE c # b
    <3>1. client'[c] = client[c]
      BY <1>3, <1>4, <2>3
    <3> QED BY <1>4, <2>1, <3>1
  <2> QED BY <2>2, <2>3
<1>6. ClientTypes'
  <2>1. client' \in [Client -> ClientState]
    <3>1. DOMAIN client' = Client /\ client' = [c \in Client |-> client'[c]]
      BY <1>3, <1>4
    <3> QED BY <1>5, <3>1
  <2> QED BY <1>3, <1>4, <1>5, <2>1 DEF ClientTypes
<1>7. Requests'
  <2>1. ASSUME NEW g \in Handler \ {h}
        PROVE  requestOf(handler[g], client'[handler[g].client])
    <3>1. PICK f, c, x, y : f = handler[g] /\ c = f.client /\ x = client[c] /\ y = client'[c]
      OBVIOUS
    <3>2. c \in Client /\ requestOf(f, x)
      BY <1>2, <3>1 DEF HandlerState, ClientInv, Requests
    <3>3. y.fileID = x.fileID /\ y.sent = x.sent
          /\ y.acked \subseteq Part(c) /\ x.acked \subseteq y.acked
      BY <1>5, <3>1, <3>2
    <3>4. requestOf(f, y)
      BY <3>1, <3>2, <3>3 DEF requestOf
    <3> QED BY <3>1, <3>4
  <2> QED BY <1>3, <1>6, <2>1, EndRequests
<1>8. OneTaker'
  <2>1. ~Idle.awaited
    BY IdleContent
  <2> QED BY <1>3, <2>1, TakersKept DEF ClientInv
<1>9. UploadsKnown'
  <2>1. ASSUME NEW k \in Client \X FileID
        PROVE  k[1] \in Client /\ client'[k[1]].fileID = client[k[1]].fileID
    BY <1>5
  <2> QED BY <1>3, <2>1 DEF ClientInv, UploadsKnown
<1>10. Budget'
  <2>1. ASSUME NEW c \in Client, NEW id, lostTo(c, id)' PROVE lostTo(c, id)
    <3>1. q.pc \notin Taken /\ Idle.pc = "idle"
      BY <1>2, IdleContent DEF Taken, Late
    <3>2. /\ handler[h].awaited /\ handler[h].client = c /\ handler[h].pc \in Taken =>
                Idle.awaited /\ Idle.client = c /\ Idle.pc \in Taken
          /\ ~(~Idle.awaited /\ Idle.pc = "take")
      BY <1>1, <3>1
    <3> QED BY <1>3, <2>1, <3>2, LostKept
  <2> QED BY <1>3, <1>5, <2>1 DEF ClientInv, Budget
<1> QED BY <1>6, <1>7, <1>8, <1>9, <1>10 DEF ClientInv

\* A message that is sent: its client, if it still waits, is done.
LEMMA SendClient ==
    ASSUME Inv, ClientInv, NEW h \in Handler, sendMessage(h)
    PROVE  ClientInv'
<1>1. PICK q, b : q = handler[h] /\ b = q.client
  OBVIOUS
<1>2. /\ q \in HandlerState /\ handler \in [Handler -> HandlerState] /\ q.pc = "sendMessage"
      /\ b \in Client /\ q.awaited \in BOOLEAN
  BY <1>1 DEF Inv, Types, HandlerState, sendMessage
<1>3. /\ handler' = [handler EXCEPT ![h] = Idle] /\ UNCHANGED <<staging, faults, spoilt>>
      /\ client' = [client EXCEPT ![b].sent = @ \/ q.awaited]
  BY <1>1 DEF sendMessage
<1>4. /\ client \in [Client -> ClientState] /\ faults \in Nat /\ spoilt \subseteq Client \X FileID
      /\ \A c \in Client : client[c].acked \subseteq Part(c)
  BY DEF ClientInv, ClientTypes
<1>5. ASSUME NEW c \in Client
      PROVE  /\ client'[c] \in ClientState
             /\ client'[c].fileID = client[c].fileID /\ client'[c].acked = client[c].acked
             /\ ~client'[c].sent => ~client[c].sent /\ ~(c = b /\ q.awaited)
             /\ ~client[c].sent /\ ~(c = b /\ q.awaited) => ~client'[c].sent
  <2>1. client[c] \in ClientState /\ client[c].sent \in BOOLEAN
    BY <1>4 DEF ClientState
  <2>2. CASE c = b
    <3>1. PICK s : s = (client[c].sent \/ q.awaited)
      OBVIOUS
    <3>2. client'[c] = [client[c] EXCEPT !.sent = s]
      BY <1>3, <1>4, <2>2, <3>1
    <3>3. s \in BOOLEAN
      BY <3>1
    <3>4. /\ client'[c] \in ClientState /\ client'[c].fileID = client[c].fileID
          /\ client'[c].acked = client[c].acked /\ client'[c].sent = s
      BY <2>1, <3>2, <3>3 DEF ClientState
    <3> QED BY <2>2, <3>1, <3>4
  <2>3. CASE c # b
    <3>1. client'[c] = client[c]
      BY <1>3, <1>4, <2>3
    <3> QED BY <2>1, <2>3, <3>1
  <2> QED BY <2>2, <2>3
<1>6. ClientTypes'
  <2>1. client' \in [Client -> ClientState]
    <3>1. DOMAIN client' = Client /\ client' = [c \in Client |-> client'[c]]
      BY <1>3, <1>4
    <3> QED BY <1>5, <3>1
  <2> QED BY <1>3, <1>4, <1>5, <2>1 DEF ClientTypes
<1>7. Requests'
  <2>1. ASSUME NEW g \in Handler \ {h}
        PROVE  requestOf(handler[g], client'[handler[g].client])
    <3>1. PICK f, c, x, y : f = handler[g] /\ c = f.client /\ x = client[c] /\ y = client'[c]
      OBVIOUS
    <3>2. c \in Client /\ requestOf(f, x)
      BY <1>2, <3>1 DEF HandlerState, ClientInv, Requests
    <3>3. q.part = 0
      BY <1>1, <1>2 DEF ClientInv, Requests, requestOf, Taking, Taken, Late
    <3>4. f.awaited => ~(c = b /\ q.awaited)
      BY <1>1, <3>1, <3>3, NoOther DEF ClientInv
    <3>5. /\ y.fileID = x.fileID /\ y.acked = x.acked /\ (f.awaited /\ ~x.sent => ~y.sent)
      BY <1>5, <3>1, <3>2, <3>4
    <3>6. requestOf(f, y)
      BY <3>1, <3>2, <3>5 DEF requestOf
    <3> QED BY <3>1, <3>6
  <2> QED BY <1>3, <1>6, <2>1, EndRequests
<1>8. OneTaker'
  <2>1. ~Idle.awaited
    BY IdleContent
  <2> QED BY <1>3, <2>1, TakersKept DEF ClientInv
<1>9. UploadsKnown'
  <2>1. ASSUME NEW k \in Client \X FileID
        PROVE  k[1] \in Client /\ client'[k[1]].fileID = client[k[1]].fileID
    BY <1>5
  <2> QED BY <1>3, <2>1 DEF ClientInv, UploadsKnown
<1>10. Budget'
  <2>1. ASSUME NEW c \in Client, NEW id, ~(c = b /\ q.awaited), lostTo(c, id)'
        PROVE  lostTo(c, id)
    <3>1. /\ handler[h].awaited /\ handler[h].client = c /\ handler[h].pc \in Taken =>
                Idle.awaited /\ Idle.client = c /\ Idle.pc \in Taken
          /\ ~(~Idle.awaited /\ Idle.pc = "take")
      BY <1>1, <2>1, IdleContent
    <3> QED BY <1>3, <2>1, <3>1, LostKept
  <2> QED BY <1>3, <1>5, <2>1 DEF ClientInv, Budget
<1> QED BY <1>6, <1>7, <1>8, <1>9, <1>10 DEF ClientInv

\* Nothing is known of a file id that its client has not come to.
LEMMA NothingLost ==
    ASSUME Inv, ClientInv, NEW c \in Client
    PROVE  /\ <<c, client[c].fileID + 1>> \notin spoilt
           /\ \A h \in Handler : reqKey(handler[h]) # <<c, client[c].fileID + 1>>
<1>1. PICK i : i = client[c].fileID
  OBVIOUS
<1>2. i \in Nat
  BY <1>1, UploadAssumption DEF ClientInv, ClientTypes, ClientState, FileID
<1>3. ASSUME <<c, i + 1>> \in spoilt PROVE FALSE
  <2>1. <<c, i + 1>> \in Client \X FileID
    BY <1>3 DEF ClientInv, ClientTypes
  <2>2. i + 1 <= i
    BY <1>1, <1>3, <2>1 DEF ClientInv, UploadsKnown
  <2> QED BY <1>2, <2>2
<1>4. ASSUME NEW h \in Handler, reqKey(handler[h]) = <<c, i + 1>> PROVE FALSE
  <2>1. handler[h].client = c /\ handler[h].fileID = i + 1
    BY <1>4 DEF reqKey
  <2>2. i + 1 <= i
    BY <1>1, <2>1 DEF ClientInv, Requests, requestOf
  <2> QED BY <1>2, <2>2
<1> QED BY <1>1, <1>3, <1>4

\* A sendMedia that is refused: its client, if it still waits, starts over with a file id
\* of which nothing is known, when a fault has made room for it.
LEMMA RefuseClient ==
    ASSUME Inv, ClientInv, NEW h \in Handler, refuse(h), handler[h].pc \in Taking,
           UNCHANGED <<staging, spoilt>>, faults' \in Nat, faults' <= faults,
           handler[h].awaited =>
              client[handler[h].client].fileID + faults' <= MaxFaults
    PROVE  ClientInv'
<1>1. PICK q, b : q = handler[h] /\ b = q.client
  OBVIOUS
<1>2. /\ q \in HandlerState /\ handler \in [Handler -> HandlerState]
      /\ b \in Client /\ q.awaited \in BOOLEAN
  BY <1>1 DEF Inv, Types, HandlerState
<1>3. /\ handler' = [handler EXCEPT ![h] = Idle]
      /\ client' = IF q.awaited THEN [client EXCEPT ![b].fileID = @ + 1, ![b].acked = {}]
                                ELSE client
  BY <1>1 DEF refuse
<1>4. /\ client \in [Client -> ClientState] /\ faults \in Nat /\ spoilt \subseteq Client \X FileID
      /\ \A c \in Client : client[c].acked \subseteq Part(c)
  BY DEF ClientInv, ClientTypes
<1>5. ASSUME NEW c \in Client, c = b, q.awaited
      PROVE  /\ client'[c] \in ClientState /\ client'[c].fileID = client[c].fileID + 1
             /\ client'[c].acked = {} /\ client'[c].sent = client[c].sent
             /\ client[c].fileID \in Nat
  <2>1. PICK x, i : x = client[c] /\ i = x.fileID
    OBVIOUS
  <2>2. x \in ClientState /\ i \in FileID
    BY <1>4, <2>1 DEF ClientState
  <2>3. i \in Nat /\ i + faults' <= MaxFaults
    BY <1>1, <1>5, <2>1, <2>2, UploadAssumption DEF FileID
  <2>4. i + 1 \in FileID
    <3>1. PICK f \in Nat : f = faults'
      OBVIOUS
    <3>2. i + f <= MaxFaults /\ 1 <= i + 1
      BY <2>3, <3>1
    <3>3. PICK m \in Nat : m = MaxFaults
      BY UploadAssumption
    <3>4. i + 1 <= MaxFaults + 1 /\ i + 1 \in Nat
      <4>1. i \in Nat /\ f \in Nat /\ m \in Nat /\ i + f <= m
        BY <2>3, <3>1, <3>2, <3>3
      <4>2. i + 1 <= m + 1 /\ i + 1 \in Nat
        BY ONLY <4>1
      <4> QED BY <3>3, <4>2
    <3> QED BY <3>2, <3>4, UploadAssumption DEF FileID
  <2>5. client'[c] = [x EXCEPT !.fileID = i + 1, !.acked = {}]
    BY <1>3, <1>4, <1>5, <2>1
  <2> QED BY <2>1, <2>2, <2>3, <2>4, <2>5 DEF ClientState
<1>6. ASSUME NEW c \in Client, ~(c = b /\ q.awaited)
      PROVE  client'[c] = client[c] /\ client'[c] \in ClientState
  BY <1>3, <1>4, <1>6
<1>7. ClientTypes'
  <2>1. client' \in [Client -> ClientState]
    <3>1. DOMAIN client' = Client /\ client' = [c \in Client |-> client'[c]]
      BY <1>3, <1>4
    <3>2. \A c \in Client : client'[c] \in ClientState
      BY <1>5, <1>6
    <3> QED BY <3>1, <3>2
  <2>2. \A c \in Client : client'[c].acked \subseteq Part(c)
    BY <1>4, <1>5, <1>6
  <2> QED BY <1>4, <2>1, <2>2 DEF ClientTypes
<1>8. Requests'
  <2>1. ASSUME NEW g \in Handler \ {h}
        PROVE  requestOf(handler[g], client'[handler[g].client])
    <3>1. PICK f, c, x, y : f = handler[g] /\ c = f.client /\ x = client[c] /\ y = client'[c]
      OBVIOUS
    <3>2. c \in Client /\ requestOf(f, x) /\ f.fileID \in FileID
      BY <1>2, <3>1 DEF HandlerState, ClientInv, Requests
    <3>3. q.part = 0
      BY <1>1 DEF ClientInv, Requests, requestOf
    <3>4. f.awaited => ~(c = b /\ q.awaited)
      BY <1>1, <3>1, <3>3, NoOther DEF ClientInv
    <3>5. CASE c = b /\ q.awaited
      <4>1. y.fileID = x.fileID + 1 /\ x.fileID \in Nat
        BY <1>5, <3>1, <3>2, <3>5
      <4>2. f.fileID <= y.fileID
        BY <3>2, <4>1, UploadAssumption DEF requestOf, FileID
      <4>3. requestOf(f, y)
        BY <3>2, <3>4, <3>5, <4>2 DEF requestOf
      <4> QED BY <3>1, <4>3
    <3>6. CASE ~(c = b /\ q.awaited)
      BY <1>6, <3>1, <3>2, <3>6
    <3> QED BY <3>5, <3>6
  <2> QED BY <1>3, <1>7, <2>1, EndRequests
<1>9. OneTaker'
  <2>1. ~Idle.awaited
    BY IdleContent
  <2> QED BY <1>3, <2>1, TakersKept DEF ClientInv
<1>10. UploadsKnown'
  <2>1. ASSUME NEW k \in Client \X FileID, k \in spoilt \/ staging[k] # 0
        PROVE  k[2] <= client'[k[1]].fileID
    <3>1. PICK c, i, j : c = k[1] /\ i = k[2] /\ j = client[c].fileID
      OBVIOUS
    <3>2. c \in Client /\ i \in FileID /\ i <= j /\ j \in FileID
      BY <1>4, <2>1, <3>1 DEF ClientInv, UploadsKnown, ClientState
    <3>3. client'[c].fileID \in {j, j + 1}
      BY <1>5, <1>6, <3>1, <3>2
    <3>4. i <= client'[c].fileID
      BY <3>2, <3>3, UploadAssumption DEF FileID
    <3> QED BY <3>1, <3>4
  <2> QED BY <2>1 DEF UploadsKnown
<1>11. Budget'
  <2>1. ASSUME NEW c \in Client, c = b, q.awaited
        PROVE  /\ client'[c].fileID + faults' <= MaxFaults + 1
               /\ ~(lostTo(c, client[c].fileID)')
    <3>1. PICK i, f : i = client[c].fileID /\ f = faults'
      OBVIOUS
    <3>2. i \in Nat /\ client'[c].fileID = i + 1
      BY <1>5, <2>1, <3>1
    <3>3. i + f <= MaxFaults /\ f \in Nat
      BY <1>1, <2>1, <3>1
    <3>4. (i + 1) + f <= MaxFaults + 1
      BY <3>2, <3>3, UploadAssumption
    <3>5. /\ <<c, i + 1>> \notin spoilt
          /\ \A g \in Handler : reqKey(handler[g]) # <<c, i + 1>>
      BY <3>1, NothingLost
    <3>6. \A g \in Handler : handler'[g] = Idle \/ handler'[g] = handler[g]
      BY <1>2, <1>3
    <3>7. \A g \in Handler : handler'[g].pc = "take" => reqKey(handler'[g]) # <<c, i + 1>>
      BY <3>5, <3>6, IdleContent
    <3>8. ~(lostTo(c, client[c].fileID)')
      BY <3>2, <3>5, <3>7 DEF lostTo
    <3> QED BY <3>1, <3>2, <3>4, <3>8
  <2>2. ASSUME NEW c \in Client, NEW id, ~(c = b /\ q.awaited), lostTo(c, id)'
        PROVE  lostTo(c, id)
    <3>1. /\ handler[h].awaited /\ handler[h].client = c /\ handler[h].pc \in Taken =>
                Idle.awaited /\ Idle.client = c /\ Idle.pc \in Taken
          /\ ~(~Idle.awaited /\ Idle.pc = "take")
      BY <1>1, <2>2, IdleContent
    <3> QED BY <1>3, <2>2, <3>1, LostKept
  <2>3. ASSUME NEW c \in Client, ~(c = b /\ q.awaited), ~client'[c].sent
        PROVE  /\ client'[c].fileID + faults' <= MaxFaults + 1
               /\ lostTo(c, client[c].fileID)' => client'[c].fileID + faults' <= MaxFaults
    <3>1. PICK i, f : i = client[c].fileID /\ f = faults'
      OBVIOUS
    <3>2. client'[c] = client[c] /\ i \in FileID
      BY <1>4, <1>6, <2>3, <3>1 DEF ClientState
    <3>3. lostTo(c, client[c].fileID)' => lostTo(c, i)
      BY <2>2, <2>3, <3>1, <3>2
    <3>4. /\ i + faults <= MaxFaults + 1 /\ (lostTo(c, i) => i + faults <= MaxFaults)
      BY <2>3, <3>1, <3>2 DEF ClientInv, Budget
    <3>5. /\ i + f <= MaxFaults + 1 /\ (lostTo(c, i) => i + f <= MaxFaults)
      BY <1>4, <3>1, <3>2, <3>4, UploadAssumption DEF FileID
    <3> QED BY <3>1, <3>2, <3>3, <3>5
  <2> QED BY <2>1, <2>3 DEF Budget
<1> QED BY <1>7, <1>8, <1>9, <1>10, <1>11 DEF ClientInv

\* A failing call is a fault, and makes room.
LEMMA FailClient ==
    ASSUME Inv, ClientInv, NEW h \in Handler, fail(h)
    PROVE  ClientInv'
<1>1. PICK q, i, f : q = handler[h] /\ i = client[q.client].fileID /\ f = faults'
  OBVIOUS
<1>2. /\ refuse(h) /\ UNCHANGED <<staging, spoilt>> /\ faults > 0 /\ f = faults - 1
      /\ q.pc \in Taking
  BY <1>1 DEF fail, Taking, Taken, Late
<1>3. q.client \in Client /\ i \in FileID /\ faults \in Nat
  BY <1>1 DEF Inv, Types, HandlerState, ClientInv, ClientTypes, ClientState
<1>4. q.awaited => i + faults <= MaxFaults + 1
  BY <1>1, <1>3 DEF ClientInv, Budget, Requests, requestOf
<1>5. f \in Nat /\ f <= faults /\ (q.awaited => i + f <= MaxFaults)
  BY <1>2, <1>3, <1>4, UploadAssumption DEF FileID
<1> QED BY <1>1, <1>2, <1>5, RefuseClient

\* A sendMedia takes the staged file, or there is none.  Then a fault has cost its client
\* the upload: all its parts were staged, and no request it waits for has taken them.
LEMMA TakeClient ==
    ASSUME Inv, ContentInv, ClientInv, NEW h \in Handler, take(h)
    PROVE  ClientInv'
<1>1. PICK q, k, b, i : /\ q = handler[h] /\ k = reqKey(q) /\ b = q.client
                        /\ i = client[b].fileID
  OBVIOUS
<1>2. /\ q \in HandlerState /\ handler \in [Handler -> HandlerState] /\ q.pc = "take"
      /\ b \in Client /\ k \in Client \X FileID /\ k = keyOf(h) /\ k[1] = b
      /\ staging \in [Client \X FileID -> Nat]
  BY <1>1 DEF Inv, Types, HandlerState, reqKey, keyOf, stagingKey, take
<1>3. q.pc \in Taking /\ q.pc \notin Taken
  BY <1>2 DEF Taking, Taken, Late
<1>4. requestOf(q, client[b]) /\ q.part = 0
  BY <1>1, <1>3 DEF ClientInv, Requests, requestOf
<1>5. CASE staging[k] = 0
  <2>1. refuse(h) /\ UNCHANGED <<staging, spoilt, faults>>
    BY <1>2, <1>5 DEF take
  <2>2. ASSUME q.awaited PROVE i + faults <= MaxFaults
    <3>1. k = <<b, i>> /\ client[b].acked = Part(b) /\ ~client[b].sent
      BY <1>1, <1>4, <2>2 DEF requestOf, reqKey
    <3>2. Part(b) # {}
      BY <1>2, FileParts
    <3>3. k \in spoilt
      BY <1>1, <1>2, <1>5, <3>1, <3>2 DEF ContentInv, AckedStaged, ackedOK
    <3>4. ASSUME NEW g \in Handler, handler[g].awaited, handler[g].client = b,
                 handler[g].pc \in Taken
          PROVE  FALSE
      <4>1. g # h
        BY <1>1, <1>3, <3>4
      <4> QED BY <1>1, <1>4, <2>2, <3>4, <4>1, NoOther DEF ClientInv
    <3>5. lostTo(b, i)
      BY <3>1, <3>3, <3>4 DEF lostTo
    <3> QED BY <1>1, <1>2, <3>1, <3>5 DEF ClientInv, Budget
  <2>3. faults \in Nat
    BY DEF ClientInv, ClientTypes
  <2> QED BY <1>1, <1>3, <2>1, <2>2, <2>3, RefuseClient
<1>6. CASE staging[k] # 0
  <2>1. PICK n, w : n = staging[k] /\ w = (k \notin spoilt)
    OBVIOUS
  <2>2. PICK r : r = [q EXCEPT !.staged = n, !.pc = "assemble", !.whole = w]
    OBVIOUS
  <2>3. /\ UNCHANGED <<client, faults>> /\ staging' = [staging EXCEPT ![k] = 0]
        /\ spoilt' = spoilt \cup {k}
        /\ handler' = [handler EXCEPT ![h].staged = n, ![h].pc = "assemble", ![h].whole = w]
    BY <1>2, <1>6, <2>1 DEF take
  <2>4. handler' = [handler EXCEPT ![h] = r]
    BY <1>1, <1>2, <2>2, <2>3
  <2>5. /\ r.pc = "assemble" /\ r.client = q.client /\ r.fileID = q.fileID
        /\ r.part = q.part /\ r.awaited = q.awaited
    BY <1>2, <2>2 DEF HandlerState
  <2>6. handler'[h] = r /\ \A g \in Handler \ {h} : handler'[g] = handler[g]
    BY <1>2, <2>4
  <2>7. ClientTypes'
    BY <1>2, <2>3 DEF ClientInv, ClientTypes
  <2>8. Requests'
    <3>1. requestOf(r, client[r.client])
      BY <1>1, <1>4, <2>5 DEF requestOf
    <3>2. \A g \in Handler : requestOf(handler'[g], client[handler'[g].client])
      BY <2>6, <3>1 DEF ClientInv, Requests
    <3> QED BY <2>3, <3>2 DEF Requests
  <2>9. OneTaker'
    BY <1>1, <2>4, <2>5, TakersKept DEF ClientInv
  <2>10. UploadsKnown'
    <3>1. k[2] <= client[k[1]].fileID
      BY <1>1, <1>4 DEF requestOf, reqKey
    <3>2. \A j \in Client \X FileID : staging'[j] # 0 => staging[j] # 0
      BY <1>2, <2>3
    <3> QED BY <2>3, <3>1, <3>2 DEF ClientInv, UploadsKnown
  <2>11. ASSUME NEW c \in Client, lostTo(c, client[c].fileID)'
         PROVE  lostTo(c, client[c].fileID)
    <3>1. PICK id : id = client[c].fileID
      OBVIOUS
    <3>2. CASE \E g \in Handler : ~handler'[g].awaited /\ handler'[g].pc = "take"
                                  /\ reqKey(handler'[g]) = <<c, id>>
      <4>1. PICK g \in Handler : ~handler'[g].awaited /\ handler'[g].pc = "take"
                                 /\ reqKey(handler'[g]) = <<c, id>>
        BY <3>2
      <4>2. g # h
        BY <2>5, <2>6, <4>1
      <4>3. handler'[g] = handler[g]
        BY <2>6, <4>2
      <4> QED BY <3>1, <4>1, <4>3 DEF lostTo
    <3>3. CASE /\ <<c, id>> \in spoilt'
               /\ ~ \E g \in Handler : handler'[g].awaited /\ handler'[g].client = c
                                       /\ handler'[g].pc \in Taken
      <4>1. ASSUME NEW g \in Handler, handler[g].awaited, handler[g].client = c,
                   handler[g].pc \in Taken
            PROVE  FALSE
        <5>1. g # h
          BY <1>1, <1>3, <4>1
        <5>2. handler'[g] = handler[g]
          BY <2>6, <5>1
        <5> QED BY <3>3, <4>1, <5>2
      <4>2. CASE <<c, id>> \in spoilt
        BY <3>1, <4>1, <4>2 DEF lostTo
      <4>3. CASE <<c, id>> = k
        <5>1. q.client = c
          BY <1>1, <4>3 DEF reqKey
        <5>2. r.pc \in Taken
          BY <2>5 DEF Taken
        <5>3. ~q.awaited
          BY <2>5, <2>6, <3>3, <5>1, <5>2
        <5> QED BY <1>1, <1>2, <3>1, <4>3, <5>3 DEF lostTo
      <4> QED BY <2>3, <3>3, <4>2, <4>3
    <3>4. client'[c].fileID = id
      BY <2>3, <3>1
    <3> QED BY <2>11, <3>2, <3>3, <3>4 DEF lostTo
  <2>12. Budget'
    BY <2>3, <2>11 DEF ClientInv, Budget
  <2> QED BY <2>7, <2>8, <2>9, <2>10, <2>12 DEF ClientInv
<1> QED BY <1>5, <1>6

\* A fault leaves every client room for another file id.
LEMMA FaultBudget ==
    ASSUME ClientInv, faults > 0, faults' = faults - 1, client' = client
    PROVE  Budget' /\ faults' \in Nat
<1>1. faults \in Nat
  BY DEF ClientInv, ClientTypes
<1>2. ASSUME NEW c \in Client, ~client[c].sent
      PROVE  client[c].fileID + faults' <= MaxFaults
  <2>1. PICK i, f : i = client[c].fileID /\ f = faults'
    OBVIOUS
  <2>2. i \in FileID /\ i + faults <= MaxFaults + 1
    BY <1>2, <2>1 DEF ClientInv, ClientTypes, ClientState, Budget
  <2>3. i + f <= MaxFaults
    BY <1>1, <2>1, <2>2, UploadAssumption DEF FileID
  <2> QED BY <2>1, <2>3
<1>3. ASSUME NEW c \in Client, ~client[c].sent
      PROVE  client[c].fileID + faults' <= MaxFaults + 1
  <2>1. PICK i, f : i = client[c].fileID /\ f = faults'
    OBVIOUS
  <2>2. i \in FileID /\ f \in Nat
    BY <1>1, <2>1 DEF ClientInv, ClientTypes, ClientState
  <2>3. i + f <= MaxFaults
    BY <1>2, <1>3, <2>1
  <2>4. i + f <= MaxFaults + 1
    BY <2>2, <2>3, UploadAssumption DEF FileID
  <2> QED BY <2>1, <2>4
<1> QED BY <1>1, <1>2, <1>3 DEF Budget

\* A client that stops waiting has used up a fault.
LEMMA TimeoutClient ==
    ASSUME Inv, ClientInv, NEW h \in Handler, Timeout(h)
    PROVE  ClientInv'
<1>1. PICK q, r : q = handler[h] /\ r = [q EXCEPT !.awaited = FALSE]
  OBVIOUS
<1>2. q \in HandlerState /\ handler \in [Handler -> HandlerState]
  BY <1>1 DEF Inv, Types
<1>3. /\ UNCHANGED <<staging, spoilt, client>> /\ faults > 0 /\ faults' = faults - 1
      /\ handler' = [handler EXCEPT ![h].awaited = FALSE]
  BY DEF Timeout
<1>4. /\ r.pc = q.pc /\ r.client = q.client /\ r.fileID = q.fileID /\ r.part = q.part
      /\ r.awaited = FALSE
  BY <1>1, <1>2 DEF HandlerState
<1>5. handler' = [handler EXCEPT ![h] = r]
  BY <1>1, <1>2, <1>3
<1>6. handler'[h] = r /\ \A g \in Handler \ {h} : handler'[g] = handler[g]
  BY <1>2, <1>5
<1>7. Budget' /\ faults' \in Nat
  BY <1>3, FaultBudget
<1>8. Requests'
  <2>1. requestOf(q, client[q.client])
    BY <1>1 DEF ClientInv, Requests
  <2>2. requestOf(r, client[r.client])
    BY <1>4, <2>1 DEF requestOf
  <2>3. \A g \in Handler : requestOf(handler'[g], client[handler'[g].client])
    BY <1>6, <2>2 DEF ClientInv, Requests
  <2> QED BY <1>3, <2>3 DEF Requests
<1>9. OneTaker'
  BY <1>4, <1>5, TakersKept DEF ClientInv
<1>10. ClientTypes' /\ UploadsKnown'
  BY <1>3, <1>7 DEF ClientInv, ClientTypes, UploadsKnown
<1> QED BY <1>7, <1>8, <1>9, <1>10 DEF ClientInv

\* A restart is a fault too, and ends every request.
LEMMA RestartClient ==
    ASSUME Inv, ClientInv, Restart
    PROVE  ClientInv'
<1>1. /\ staging' = [k \in DOMAIN staging |-> 0] /\ handler' = [h \in Handler |-> Idle]
      /\ UNCHANGED <<client>> /\ faults > 0 /\ faults' = faults - 1
      /\ spoilt' = spoilt \cup {k \in DOMAIN staging : staging[k] # 0}
  BY DEF Restart
<1>2. DOMAIN staging = Client \X FileID
  BY DEF Inv, Types
<1>3. Budget' /\ faults' \in Nat
  BY <1>1, FaultBudget
<1>4. ClientTypes'
  BY <1>1, <1>2, <1>3 DEF ClientInv, ClientTypes
<1>5. \A h \in Handler : handler'[h] = Idle
  BY <1>1
<1>6. Requests'
  <2>1. PICK x : x = client'[Idle.client]
    OBVIOUS
  <2>2. x.fileID \in FileID
    BY <1>4, <2>1, IdleOK DEF ClientTypes, ClientState, HandlerState
  <2>3. 1 <= x.fileID
    BY <2>2, UploadAssumption DEF FileID
  <2>4. requestOf(Idle, x)
    BY <2>3, IdleContent DEF requestOf, Taking, Taken, Late
  <2> QED BY <1>5, <2>1, <2>4 DEF Requests
<1>7. OneTaker'
  BY <1>5, IdleContent DEF OneTaker
<1>8. UploadsKnown'
  BY <1>1, <1>2 DEF ClientInv, UploadsKnown
<1> QED BY <1>3, <1>4, <1>6, <1>7, <1>8 DEF ClientInv

\* A request begins: its client waits for no sendMedia, and when it asks for one it has
\* waited for every part.
LEMMA BeginClient ==
    ASSUME Inv, ClientInv, NEW c \in Client, NEW part \in Part(c) \cup {0},
           NEW pc \in {"file", "take"}, Begin(c, part, pc), pc = "take" => part = 0,
           part = 0 => client[c].acked = Part(c),
           \A g \in Handler : handler[g].awaited /\ handler[g].client = c =>
              handler[g].part # 0 /\ part # 0
    PROVE  ClientInv'
<1>1. /\ ~client[c].sent /\ UNCHANGED <<staging, spoilt, client, faults>>
  BY DEF Begin
<1>2. part \in Nat
  <2>1. Part(c) \subseteq Nat
    BY FileParts
  <2> QED BY <2>1
<1>3. PICK h \in Handler, r \in HandlerState :
         /\ handler[h].pc = "idle" /\ handler' = [handler EXCEPT ![h] = r]
         /\ begun(r, c, client[c], part, pc)
  BY <1>2, BeginShape
<1>4. /\ r.pc = pc /\ r.client = c /\ r.fileID = client[c].fileID /\ r.part = part
      /\ r.awaited = TRUE
  BY <1>3 DEF begun
<1>5. handler'[h] = r /\ \A g \in Handler \ {h} : handler'[g] = handler[g]
  BY <1>3 DEF Inv, Types
<1>6. Requests'
  <2>1. client[c].fileID \in Nat
    BY UploadAssumption DEF ClientInv, ClientTypes, ClientState, FileID
  <2>2. pc \in Taking => part = 0
    BY DEF Taking, Taken, Late
  <2>3. requestOf(r, client[r.client])
    BY <1>1, <1>4, <2>1, <2>2 DEF requestOf
  <2>4. \A g \in Handler : requestOf(handler'[g], client[handler'[g].client])
    BY <1>5, <2>3 DEF ClientInv, Requests
  <2> QED BY <1>1, <2>4 DEF Requests
<1>7. OneTaker'
  <2>1. ASSUME NEW f \in Handler, NEW g \in Handler, f # g, handler'[f].awaited,
               handler'[g].awaited, handler'[f].client = handler'[g].client
        PROVE  handler'[f].part # 0
    <3>1. CASE f = h
      <4>1. handler[g].awaited /\ handler[g].client = c
        BY <1>4, <1>5, <2>1, <3>1
      <4> QED BY <1>4, <1>5, <3>1, <4>1
    <3>2. CASE g = h
      <4>1. handler[f].awaited /\ handler[f].client = c /\ handler'[f] = handler[f]
        BY <1>4, <1>5, <2>1, <3>2
      <4> QED BY <4>1
    <3>3. CASE f # h /\ g # h
      BY <1>5, <2>1, <3>3 DEF ClientInv, OneTaker
    <3> QED BY <3>1, <3>2, <3>3
  <2> QED BY <2>1 DEF OneTaker
<1>8. ClientTypes' /\ UploadsKnown'
  BY <1>1 DEF ClientInv, ClientTypes, UploadsKnown
<1>9. Budget'
  <2>1. ASSUME NEW b \in Client, NEW id, lostTo(b, id)' PROVE lostTo(b, id)
    <3>1. /\ handler[h].awaited /\ handler[h].client = b /\ handler[h].pc \in Taken =>
                r.awaited /\ r.client = b /\ r.pc \in Taken
          /\ ~(~r.awaited /\ r.pc = "take")
      BY <1>3, <1>4 DEF Taken, Late
    <3> QED BY <1>1, <1>3, <2>1, <3>1, LostKept
  <2> QED BY <1>1, <2>1 DEF ClientInv, Budget
<1> QED BY <1>6, <1>7, <1>8, <1>9 DEF ClientInv

\* So it is with both requests.
LEMMA RequestClient ==
    ASSUME Inv, ClientInv, NEW c \in Client, Request(c)
    PROVE  ClientInv'
<1>1. \A g \in Handler : requestOf(handler[g], client[handler[g].client])
  BY DEF ClientInv, Requests
<1>2. ASSUME NEW i \in Part(c), uploadSaveFilePart(c, i) PROVE ClientInv'
  <2>1. i # 0 /\ i \notin client[c].acked /\ Begin(c, i, "file")
    BY <1>2, FileParts DEF uploadSaveFilePart
  <2>2. \A g \in Handler : handler[g].awaited /\ handler[g].client = c => handler[g].part # 0
    BY <1>1, <2>1 DEF requestOf
  <2> QED BY <2>1, <2>2, BeginClient
<1>3. CASE messagesSendMedia(c)
  <2>1. client[c].acked = Part(c) /\ ~awaiting(c, Part(c) \cup {0}) /\ Begin(c, 0, "take")
    BY <1>3 DEF messagesSendMedia
  <2>2. \A g \in Handler : ~(handler[g].awaited /\ handler[g].client = c)
    BY <1>1, <2>1 DEF requestOf, awaiting
  <2> QED BY <2>1, <2>2, BeginClient
<1> QED BY <1>2, <1>3 DEF Request

\* Every step keeps what is known of the clients.
LEMMA NextClient ==
    ASSUME Inv, ContentInv, ClientInv, [Next]_vars
    PROVE  ClientInv'
<1>1. ASSUME NEW h \in Handler, HandlerStep(h) PROVE ClientInv'
  BY <1>1, StagingFileClient, PutPartClient, TakeClient, StoreClient, SendClient
     DEF HandlerStep
<1>2. ASSUME NEW h \in Handler, fail(h) \/ Timeout(h) PROVE ClientInv'
  BY <1>2, FailClient, TimeoutClient
<1>3. ASSUME NEW c \in Client, Request(c) PROVE ClientInv'
  BY <1>3, RequestClient
<1>4. CASE Restart
  BY <1>4, RestartClient
<1>5. CASE UNCHANGED <<staging, handler, client, faults, spoilt>>
  BY <1>5 DEF ClientInv, ClientTypes, Requests, OneTaker, UploadsKnown, Budget, lostTo
<1>6. ASSUME NEW r \in Reader, uploadGetFile(r) \/ \E m \in DOMAIN messages : OpenMedia(r, m)
      PROVE  UNCHANGED <<staging, handler, client, faults, spoilt>>
  BY <1>6 DEF uploadGetFile, OpenMedia
<1>7. UNCHANGED vars => UNCHANGED <<staging, handler, client, faults, spoilt>>
  BY DEF vars
<1> QED BY <1>1, <1>2, <1>3, <1>4, <1>5, <1>6, <1>7 DEF Next

\* Before the first request nothing is staged and nothing lost.
LEMMA InitContent == Init => ContentInv /\ ClientInv
<1> SUFFICES ASSUME Init PROVE ContentInv /\ ClientInv
  OBVIOUS
<1>1. /\ staging = [k \in Client \X FileID |-> 0] /\ staged = <<>> /\ spoilt = {}
      /\ handler = [h \in Handler |-> Idle] /\ faults = MaxFaults
      /\ client = [c \in Client |-> [fileID |-> 1, acked |-> {}, sent |-> FALSE]]
  BY DEF Init
<1>2. \A h \in Handler : handler[h] = Idle
  BY <1>1
<1>3. ASSUME NEW c \in Client
      PROVE  client[c].fileID = 1 /\ client[c].acked = {} /\ client[c].sent = FALSE
  BY <1>1
<1>4. \E own : OwnedBy(own)
  <2>1. Len(staged) = 0 /\ 1..Len(staged) = {}
    BY <1>1
  <2>2. PICK own : own \in [1..Len(staged) -> Client \X FileID]
    <3>1. <<>> \in [{} -> Client \X FileID]
      OBVIOUS
    <3> QED BY <2>1, <3>1
  <2>3. /\ \A k \in Client \X FileID : staging[k] # 0 => own[staging[k]] = k
        /\ \A n \in 1..Len(staged) : staged[n] \in partsOf(own[n][1])
        /\ \A h \in Handler : handler[h].pc \in {"put", "assemble"} =>
              own[handler[h].staged] = reqKey(handler[h])
    BY <1>1, <1>2, <2>1, IdleContent
  <2> QED BY <2>2, <2>3 DEF OwnedBy
<1>5. ContentInv
  BY <1>2, <1>3, <1>4, IdleContent DEF ContentInv, UploadsOK, SendsOK, AckedStaged, ackedOK
<1>6. 1 \in FileID /\ 1 + MaxFaults <= MaxFaults + 1 /\ MaxFaults \in Nat
  BY UploadAssumption DEF FileID
<1>7. ClientTypes
  <2>1. [fileID |-> 1, acked |-> {}, sent |-> FALSE] \in ClientState
    BY <1>6 DEF ClientState
  <2> QED BY <1>1, <1>3, <1>6, <2>1 DEF ClientTypes
<1>8. Requests
  <2>1. Idle.client \in Client
    BY IdleOK DEF HandlerState
  <2>2. PICK x : x = client[Idle.client]
    OBVIOUS
  <2>3. x.fileID = 1
    BY <1>3, <2>1, <2>2
  <2>4. requestOf(Idle, x)
    BY <2>3, IdleContent DEF requestOf, Taking, Taken, Late
  <2> QED BY <1>2, <2>2, <2>4 DEF Requests
<1>9. OneTaker /\ UploadsKnown
  BY <1>1, <1>2, IdleContent DEF OneTaker, UploadsKnown
<1>10. Budget
  <2>1. \A c \in Client : ~lostTo(c, 1)
    BY <1>1, <1>2, IdleContent DEF lostTo
  <2> QED BY <1>1, <1>3, <1>6, <2>1 DEF Budget
<1> QED BY <1>5, <1>7, <1>8, <1>9, <1>10 DEF ClientInv

-----------------------------------------------------------------------------
(* The theorems *)

\* An object's key is a content.
KeysOK == \A k \in DOMAIN objects : k \in Seq(Byte)

\* No step stores an object under anything else.
LEMMA NextKeys ==
    ASSUME Inv, KeysOK, [Next]_vars
    PROVE  KeysOK'
<1>1. ASSUME NEW h \in Handler, putObject(h) \/ rename(h)
      PROVE  DOMAIN objects' = DOMAIN objects \cup {handler[h].data}
  BY <1>1 DEF putObject, rename, withObject
<1>2. \A h \in Handler : handler[h].data \in Seq(Byte)
  BY DEF Inv, Types, HandlerState
<1>3. CASE objects' = objects
  BY <1>3 DEF KeysOK
<1>4. ASSUME NEW h \in Handler,
             (HandlerStep(h) /\ ~putObject(h) /\ ~rename(h)) \/ fail(h) \/ Timeout(h)
      PROVE  objects' = objects
  BY <1>4 DEF HandlerStep, stagingFile, putPart, take, assembleParts, copy, saveFile,
              sendMessage, fail, Timeout, stores
<1>5. ASSUME NEW c \in Client, Request(c)
      PROVE  objects' = objects
  BY <1>5 DEF Request, uploadSaveFilePart, messagesSendMedia, Begin, stores
<1>6. ASSUME NEW r \in Reader, uploadGetFile(r) \/ \E m \in DOMAIN messages : OpenMedia(r, m)
      PROVE  objects' = objects
  BY <1>6 DEF uploadGetFile, OpenMedia, stores
<1>7. Restart \/ UNCHANGED vars => objects' = objects
  BY DEF Restart, vars, stores
<1>8. ASSUME NEW h \in Handler, putObject(h) \/ rename(h) PROVE KeysOK'
  BY <1>1, <1>2, <1>8 DEF KeysOK
<1> QED BY <1>3, <1>4, <1>5, <1>6, <1>7, <1>8 DEF Next

\* A message msg, when the rows are R, is of the sender's file, and whole if it should be.
sentOK(msg, R) ==
    /\ msg.whole => R[msg.row] = file[msg.from]
    /\ \E p \in partsOf(msg.from) : R[msg.row] = assemble(p)

SentOK == \A m \in DOMAIN messages : sentOK(messages[m], rows)

\* Every message sent is, and stays so.
LEMMA NextSent ==
    ASSUME Inv, ContentInv, SentOK, [Next]_vars
    PROVE  SentOK'
<1>1. /\ messages \in Seq(MediaMessage) /\ Len(messages) \in Nat
      /\ DOMAIN messages = 1..Len(messages) /\ DOMAIN rows = 1..Len(rows)
  BY DEF Inv, Types
<1>2. ASSUME NEW m \in DOMAIN messages
      PROVE  messages'[m] = messages[m] /\ sentOK(messages'[m], rows')
  <2>1. PICK msg : msg = messages[m]
    OBVIOUS
  <2>2. messages'[m] = msg
    BY <1>1, <2>1, StoresGrow
  <2>3. rows'[msg.row] = rows[msg.row]
    BY <1>1, <2>1, StoresGrow DEF Inv, ObjectsKept
  <2>4. sentOK(msg, rows)
    BY <2>1 DEF SentOK
  <2> QED BY <2>1, <2>2, <2>3, <2>4 DEF sentOK
<1>3. ASSUME messages' = messages
      PROVE  SentOK'
  BY <1>2, <1>3 DEF SentOK
<1>4. ASSUME NEW h \in Handler, sendMessage(h)
      PROVE  SentOK'
  <2>1. PICK q, msg : /\ q = handler[h]
                      /\ msg = [from |-> q.client, fileID |-> q.fileID, row |-> q.row,
                                whole |-> q.whole]
    OBVIOUS
  <2>2. q.pc = "sendMessage" /\ messages' = Append(messages, msg) /\ rows' = rows
    BY <1>4, <2>1 DEF sendMessage
  <2>3. q \in HandlerState /\ sendOK(q, rows)
    BY <2>1 DEF Inv, Types, ContentInv, SendsOK
  <2>4. msg \in MediaMessage
    BY <2>1, <2>3 DEF MediaMessage, HandlerState
  <2>5. sentOK(msg, rows')
    BY <2>1, <2>2, <2>3 DEF sentOK, sendOK, Late
  <2>6. DOMAIN messages' = DOMAIN messages \cup {Len(messages) + 1}
        /\ messages'[Len(messages) + 1] = msg
    BY <1>1, <2>2, <2>4
  <2> QED BY <1>2, <2>5, <2>6 DEF SentOK
<1>5. ASSUME NEW h \in Handler, (HandlerStep(h) /\ ~sendMessage(h)) \/ fail(h) \/ Timeout(h)
      PROVE  messages' = messages
  BY <1>5 DEF HandlerStep, stagingFile, putPart, take, assembleParts, putObject, copy, rename,
              saveFile, fail, Timeout, stores
<1>6. ASSUME NEW c \in Client, Request(c)
      PROVE  messages' = messages
  BY <1>6 DEF Request, uploadSaveFilePart, messagesSendMedia, Begin, stores
<1>7. ASSUME NEW r \in Reader, uploadGetFile(r) \/ \E m \in DOMAIN messages : OpenMedia(r, m)
      PROVE  messages' = messages
  BY <1>7 DEF uploadGetFile, OpenMedia, stores
<1>8. Restart \/ UNCHANGED vars => messages' = messages
  BY DEF Restart, vars, stores
<1> QED BY <1>3, <1>4, <1>5, <1>6, <1>7, <1>8 DEF Next

\* In every reachable state a staged file belongs to one upload and holds parts of that
\* client's file only; a part goes to the staged file that sendMedia will take, or that it
\* has taken; a client was told only of parts that are there, unless the file was taken or
\* lost; and every file id a client has used up is paid for by a fault, however late an
\* abandoned saveFilePart or sendMedia of it runs.
THEOREM UploadsHold == Spec => [](Inv /\ ContentInv /\ ClientInv)
<1>1. Init => Inv /\ ContentInv /\ ClientInv
  BY InitInv, InitContent
<1>2. Inv /\ ContentInv /\ ClientInv /\ [Next]_vars => (Inv /\ ContentInv /\ ClientInv)'
  <2> SUFFICES ASSUME Inv, ContentInv, ClientInv, [Next]_vars
               PROVE  Inv' /\ ContentInv' /\ ClientInv'
    OBVIOUS
  <2>1. ClientTypes /\ Requests
    BY DEF ClientInv
  <2> QED BY <2>1, NextInv, NextContent, NextClient
<1> QED BY <1>1, <1>2, PTL DEF Spec

\* Every variable holds values of its type, and no client runs out of file ids: a
\* sendMedia that finds nothing staged is always the consequence of a fault.
THEOREM TypeCorrect == Spec => []TypeOK
<1>1. Init => KeysOK
  BY DEF Init, KeysOK
<1>2. Inv /\ KeysOK /\ [Next]_vars => KeysOK'
  BY NextKeys
<1>3. Inv /\ ContentInv /\ ClientInv /\ KeysOK => TypeOK
  <2> SUFFICES ASSUME Inv, ContentInv, ClientInv, KeysOK PROVE TypeOK
    OBVIOUS
  <2>1. /\ staging \in [Client \X FileID -> Nat] /\ staged \in Seq(Parts) /\ Len(staged) \in Nat
        /\ rows \in Seq(Seq(Byte)) /\ messages \in Seq(MediaMessage)
        /\ DOMAIN staged = 1..Len(staged) /\ DOMAIN messages = 1..Len(messages)
        /\ Len(messages) \in Nat
    BY DEF Inv, Types
  <2>2. staging \in [Client \X FileID -> 0..Len(staged)]
    <3>1. \A k \in Client \X FileID : staging[k] \in 0..Len(staged)
      BY <2>1 DEF Inv, StagingFound
    <3> QED BY <2>1, <3>1
  <2>3. ASSUME NEW n \in DOMAIN staged, NEW i \in DOMAIN staged[n]
        PROVE  i \in Nat \ {0} /\ staged[n][i] \in Byte
    <3>1. PICK own : OwnedBy(own)
      BY DEF ContentInv
    <3>2. PICK c : c = own[n][1]
      OBVIOUS
    <3>3. c \in Client /\ staged[n] \in partsOf(c)
      BY <2>1, <2>3, <3>1, <3>2 DEF OwnedBy
    <3>4. i \in Part(c) /\ staged[n][i] = file[c][i]
      BY <2>3, <3>3 DEF partsOf
    <3>5. Part(c) \subseteq Nat \ {0} /\ file[c] \in Seq(Byte) /\ Part(c) = 1..Len(file[c])
      BY <3>3, FileParts
    <3> QED BY <3>4, <3>5
  <2>4. ASSUME NEW k \in DOMAIN objects
        PROVE  k \in Seq(Byte) /\ objects[k] \in Seq(Byte)
    BY DEF KeysOK, Inv, ObjectsKept
  <2>5. messages \in Seq([from : Client, fileID : FileID, row : DOMAIN rows, whole : BOOLEAN])
    <3>1. ASSUME NEW m \in 1..Len(messages)
          PROVE  messages[m] \in [from : Client, fileID : FileID, row : DOMAIN rows,
                                  whole : BOOLEAN]
      <4>1. messages[m] \in MediaMessage
        BY <2>1
      <4>2. messages[m].row \in DOMAIN rows
        BY <2>1 DEF Inv, ObjectsKept
      <4> QED BY <4>1, <4>2 DEF MediaMessage
    <3>2. PICK M : M = [from : Client, fileID : FileID, row : DOMAIN rows, whole : BOOLEAN]
      OBVIOUS
    <3>3. PICK n \in Nat : n = Len(messages)
      BY <2>1
    <3>4. messages \in [1..n -> MediaMessage]
      BY <2>1, <3>3
    <3>5. \A m \in 1..n : messages[m] \in M
      BY <3>1, <3>2, <3>3
    <3>6. messages \in [1..n -> M]
      BY <3>4, <3>5
    <3>7. messages \in Seq(M)
      BY <3>6, SeqDef
    <3> QED BY <3>2, <3>7
  <2>6. \A c \in Client : client[c].fileID \in FileID /\ client[c].acked \subseteq Part(c)
    BY DEF ClientInv, ClientTypes, ClientState
  <2> QED BY <2>1, <2>2, <2>3, <2>4, <2>5, <2>6 DEF TypeOK
<1> QED BY <1>1, <1>2, <1>3, UploadsHold, PTL DEF Spec

\* The first sendMedia of an upload sends the whole file, in order, whatever parts were
\* repeated or came late and whoever gave up on what, unless a restart lost the staged
\* parts; and nothing but parts of the sender's file is ever sent.
THEOREM SentIsWhole == Spec => []SentWhole
<1>1. Init => SentOK
  BY DEF Init, SentOK
<1>2. Inv /\ ContentInv /\ SentOK /\ [Next]_vars => SentOK'
  BY NextSent
<1>3. SentOK => SentWhole
  <2>1. ASSUME SentOK, NEW m \in DOMAIN messages
        PROVE  LET msg == messages[m]
                   data == rows[msg.row]
               IN  /\ msg.whole => data = file[msg.from]
                   /\ \E S \in SUBSET Part(msg.from) :
                         data = assemble([i \in S |-> file[msg.from][i]])
    <3>1. PICK msg : msg = messages[m]
      OBVIOUS
    <3>2. sentOK(msg, rows)
      BY <2>1, <3>1 DEF SentOK
    <3>3. PICK p \in partsOf(msg.from) : rows[msg.row] = assemble(p)
      BY <3>2 DEF sentOK
    <3>4. PICK S \in SUBSET Part(msg.from) : p = [i \in S |-> file[msg.from][i]]
      BY DEF partsOf
    <3>5. rows[msg.row] = assemble([i \in S |-> file[msg.from][i]])
      BY <3>3, <3>4
    <3>6. msg.whole => rows[msg.row] = file[msg.from]
      BY <3>2 DEF sentOK
    <3> QED BY <3>1, <3>5, <3>6
  <2> QED BY <2>1 DEF SentWhole
<1> QED BY <1>1, <1>2, <1>3, UploadsHold, PTL DEF Spec
=============================================================================
