---------------------------- MODULE Login_proofs ----------------------------
(***************************************************************************)
(* Proofs about Login, for any number of clients, sessions, keys, accounts *)
(* and codes.                                                              *)
(***************************************************************************)
EXTENDS Login, TLAPS

-----------------------------------------------------------------------------
(* The first inductive invariant: accounts and codes *)

Op == {"none", "sendCode", "signIn", "signUp", "importBot", "logOut", "bindTemp"}
PC == {"idle", "resolve", "caller", "track", "op", "user", "create", "bind", "bindSession",
       "bound", "unbind", "unbindSession", "unbound"}

RequestType ==
    [op : Op, pc : PC, auth : Key \cup {None}, name : Account \cup {None},
     hash : Hash \cup {None}, right : BOOLEAN, key : Key \cup {None}, user : Account \cup {None}]

ClientType ==
    [stage : {"start", "code", "signUp", "in", "out"}, hash : Hash \cup {None},
     user : Account \cup {None}]

Types == TypeOK /\ req \in [Session -> RequestType] /\ client \in [Perm -> ClientType]

\* The accounts that exist, and the numbers a code was ever issued for.
exist == {a \in Account : created[a] > 0}
issued == {p \in Phone : \E h \in Hash : codes[h].phone = p}

\* An account that may be logged in to, when the accounts E exist and codes for the
\* numbers I were issued.
allowed(a, E, I) == a \in E /\ (a \in Phone => a \in I)

\* A request r of a client that uses key k is where its operation can be, and what it
\* has found out so far still holds.
requestOK(r, k, E, I) ==
    /\ r.op = "none" => r = NoReq
    /\ r.op # "none" => r.auth = k
    /\ r.op \in {"sendCode", "signIn", "signUp"} => r.name \in Phone
    /\ r.op = "importBot" => r.name \in Token
    /\ r.op = "bindTemp" => r.auth \in Temp
    /\ r.pc \in {"user", "create", "bind", "bindSession", "bound"} =>
          /\ r.op \in {"signIn", "signUp", "importBot"}
          /\ r.name \in Phone => r.name \in I
    /\ r.pc \in {"bind", "bindSession", "bound"} => allowed(r.name, E, I)
    /\ r.pc \in {"unbind", "unbindSession", "unbound"} => r.op = "logOut"
    /\ r.pc \in {"caller", "bindSession", "unbindSession"} => r.key \in Key
    /\ r.pc = "track" => r.user \in Account

\* A live temporary key belongs to somebody.
LiveBound == \A k \in Temp : tempKeys[k].live => tempKeys[k].perm # None

LoginsAllowed == \A k \in Key : sessions[k] # None => allowed(sessions[k], exist, issued)

Inv ==
    /\ Types /\ LiveBound /\ LoginsAllowed /\ OneAccountEach
    /\ \A s \in Session : requestOK(req[s], using[s], exist, issued)

\* No request is a request like any other.
LEMMA NoReqOK ==
    ASSUME NEW k, NEW E, NEW I
    PROVE  NoReq \in RequestType /\ requestOK(NoReq, k, E, I)
<1>1. NoReq \in RequestType
  BY DEF NoReq, RequestType, Op, PC
<1>2. requestOK(NoReq, k, E, I)
  BY DEF NoReq, requestOK
<1> QED BY <1>1, <1>2

\* What a request has found out holds for more accounts and more codes as well.
LEMMA RequestOKGrows ==
    ASSUME NEW r, NEW k, NEW E, NEW I, NEW F, NEW J, E \subseteq F, I \subseteq J,
           requestOK(r, k, E, I)
    PROVE  requestOK(r, k, F, J)
  BY DEF requestOK, allowed

\* Nothing has happened yet.
LEMMA InitInv == Init => Inv
<1> SUFFICES ASSUME Init PROVE Inv
  OBVIOUS
<1>1. TypeOK
  <2>1. created \in [Account -> Nat] /\ codes \in [Hash -> [phone : Phone \cup {None}, live : BOOLEAN]]
    BY DEF Init
  <2>2. sessions \in [Key -> Account \cup {None}] /\ tracked \subseteq Account \X Session
    BY DEF Init
  <2>3. tempKeys \in [Temp -> [perm : Perm \cup {None}, live : BOOLEAN]]
    BY DEF Init
  <2>4. using \in [Session -> Key]
    BY LoginAssumption DEF Init, Key
  <2> QED BY <2>1, <2>2, <2>3, <2>4 DEF TypeOK
<1>2. req \in [Session -> RequestType] /\ \A s \in Session : req[s] = NoReq
  BY NoReqOK DEF Init
<1>3. client \in [Perm -> ClientType]
  BY DEF Init, ClientType
<1>4. LiveBound /\ LoginsAllowed /\ OneAccountEach
  BY DEF Init, LiveBound, LoginsAllowed, OneAccountEach
<1>5. \A s \in Session : requestOK(req[s], using[s], exist, issued)
  BY <1>2, NoReqOK
<1> QED BY <1>1, <1>2, <1>3, <1>4, <1>5 DEF Inv, Types

\* A request of s that goes on to r while the store stays as it is.
LEMMA MoveKeeps ==
    ASSUME Inv, NEW s \in Session, NEW r \in RequestType, req' = [req EXCEPT ![s] = r],
           UNCHANGED <<tables, using>>, tracked' \subseteq Account \X Session,
           client' \in [Perm -> ClientType], requestOK(r, using[s], exist, issued)
    PROVE  Inv'
<1>1. /\ created' = created /\ codes' = codes /\ sessions' = sessions /\ tempKeys' = tempKeys
      /\ using' = using
  BY DEF tables
<1>2. req \in [Session -> RequestType]
  BY DEF Inv, Types
<1>3. Types'
  BY <1>1, <1>2 DEF Inv, Types, TypeOK
<1>4. exist' = exist /\ issued' = issued
  BY <1>1 DEF exist, issued
<1>5. LiveBound' /\ LoginsAllowed' /\ OneAccountEach'
  BY <1>1, <1>4 DEF Inv, LiveBound, LoginsAllowed, OneAccountEach
<1>6. \A t \in Session : requestOK(req'[t], using[t], exist, issued)
  BY <1>2 DEF Inv
<1> QED BY <1>1, <1>3, <1>4, <1>5, <1>6 DEF Inv

\* The request is answered, and the client learns the stage it is in and who it is.
LEMMA AnswerKeeps ==
    ASSUME Inv, NEW s \in Session, NEW stage \in {"start", "code", "signUp", "in", "out"},
           NEW user \in Account \cup {None}, answer(s, stage, user),
           UNCHANGED <<tables, using>>, tracked' \subseteq Account \X Session
    PROVE  Inv'
<1>1. permOf[s] \in Perm
  BY LoginAssumption
<1>2. client \in [Perm -> ClientType] /\ client[permOf[s]] \in ClientType
  BY <1>1 DEF Inv, Types
<1>3. [client[permOf[s]] EXCEPT !.stage = stage, !.user = user] \in ClientType
  BY <1>2 DEF ClientType
<1>4. client' \in [Perm -> ClientType]
  BY <1>1, <1>2, <1>3 DEF answer
<1>5. req' = [req EXCEPT ![s] = NoReq]
  BY DEF answer
<1> QED BY <1>4, <1>5, NoReqOK, MoveKeeps

\* The parts of a request that goes on to another step.
LEMMA GotoMoves ==
    ASSUME Inv, NEW s \in Session, NEW pc \in PC, goto(s, pc)
    PROVE  \E r \in RequestType :
              /\ req' = [req EXCEPT ![s] = r]
              /\ r = [req[s] EXCEPT !.pc = pc] /\ r.pc = pc
              /\ r.op = req[s].op /\ r.auth = req[s].auth /\ r.name = req[s].name
              /\ r.key = req[s].key
<1>1. req[s] \in RequestType
  BY DEF Inv, Types
<1> DEFINE r == [req[s] EXCEPT !.pc = pc]
<1>2. r \in RequestType
  BY <1>1 DEF RequestType
<1>3. /\ r.pc = pc /\ r.op = req[s].op /\ r.auth = req[s].auth /\ r.name = req[s].name
      /\ r.key = req[s].key
  BY <1>1 DEF RequestType
<1>4. req' = [req EXCEPT ![s] = r]
  BY DEF goto
<1> HIDE DEF r
<1> QED BY <1>2, <1>3, <1>4 DEF r

\* A request that goes on to a step its operation allows.
LEMMA GotoKeeps ==
    ASSUME Inv, NEW s \in Session, NEW pc \in PC \ {"track"}, goto(s, pc), req[s].op # "none",
           UNCHANGED <<tables, using, client>>, tracked' \subseteq Account \X Session,
           pc \in {"user", "create", "bind", "bindSession", "bound"} =>
              /\ req[s].op \in {"signIn", "signUp", "importBot"}
              /\ req[s].name \in Phone => req[s].name \in issued,
           pc \in {"bind", "bindSession", "bound"} => allowed(req[s].name, exist, issued),
           pc \in {"unbind", "unbindSession", "unbound"} => req[s].op = "logOut",
           pc \in {"caller", "bindSession", "unbindSession"} => req[s].key \in Key
    PROVE  Inv'
<1>1. PICK r \in RequestType :
          /\ req' = [req EXCEPT ![s] = r] /\ r.pc = pc
          /\ r.op = req[s].op /\ r.auth = req[s].auth /\ r.name = req[s].name
          /\ r.key = req[s].key
  BY GotoMoves
<1>2. requestOK(req[s], using[s], exist, issued)
  BY DEF Inv
<1>3. requestOK(r, using[s], exist, issued)
  BY <1>1, <1>2 DEF requestOK
<1>4. client' \in [Perm -> ClientType] /\ UNCHANGED <<tables, using>>
  BY DEF Inv, Types
<1> QED BY <1>1, <1>3, <1>4, MoveKeeps

\* A request under way has an operation.
LEMMA UnderWay ==
    ASSUME Inv, NEW s \in Session, req[s].pc # "idle"
    PROVE  req[s].op # "none" /\ req[s].auth = using[s] /\ using[s] \in Key
<1>1. requestOK(req[s], using[s], exist, issued)
  BY DEF Inv
<1>2. req[s].op # "none"
  BY <1>1 DEF requestOK, NoReq
<1> QED BY <1>1, <1>2 DEF requestOK, Inv, Types, TypeOK

\* effectiveKeyID yields a key.
LEMMA EffectiveKey ==
    ASSUME Inv, NEW k \in Key
    PROVE  effectiveKeyID(k) \in Key
  BY DEF Inv, Types, TypeOK, LiveBound, effectiveKeyID, Key

-----------------------------------------------------------------------------
(* The steps *)

\* A request the clients may make.
Asks(s) ==
    \E op \in Op, name \in Account \cup {None}, hash \in Hash \cup {None}, right \in BOOLEAN :
        /\ op \notin {"none", "bindTemp"}
        /\ op \in {"sendCode", "signIn", "signUp"} => name \in Phone
        /\ op = "importBot" => name \in Token
        /\ Begin(s, op, name, hash, right)

\* Both kinds of clients make such requests.
LEMMA ClientsAsk ==
    ASSUME Inv, NEW s \in Session, AnyRequest(s) \/ LoginRequest(s)
    PROVE  Asks(s)
<1>1. CASE AnyRequest(s)
  BY <1>1 DEF AnyRequest, Asks, Op, Account
<1>2. CASE LoginRequest(s)
  <2>1. client[permOf[s]].hash \in Hash \cup {None}
    BY LoginAssumption DEF Inv, Types, ClientType
  <2> QED BY <1>2, <2>1 DEF LoginRequest, Asks, Op, Account
<1> QED BY <1>1, <1>2

\* A request begins.
LEMMA AskKeeps ==
    ASSUME Inv, NEW s \in Session, Asks(s)
    PROVE  Inv'
<1>1. PICK op \in Op, name \in Account \cup {None}, hash \in Hash \cup {None}, right \in BOOLEAN :
          /\ op \notin {"none", "bindTemp"}
          /\ op \in {"sendCode", "signIn", "signUp"} => name \in Phone
          /\ op = "importBot" => name \in Token
          /\ Begin(s, op, name, hash, right)
  BY DEF Asks
<1> DEFINE r == [NoReq EXCEPT !.op = op, !.pc = "resolve", !.auth = using[s],
                              !.name = name, !.hash = hash, !.right = right]
<1>2. using[s] \in Key
  BY DEF Inv, Types, TypeOK
<1>3. r \in RequestType
  BY <1>2 DEF NoReq, RequestType, PC
<1>4. requestOK(r, using[s], exist, issued)
  BY <1>1 DEF NoReq, requestOK
<1>5. /\ req' = [req EXCEPT ![s] = r] /\ UNCHANGED <<tables, using>>
      /\ tracked' = tracked /\ client' = client
  BY <1>1 DEF Begin
<1> HIDE DEF r
<1> QED BY <1>3, <1>4, <1>5, MoveKeeps DEF Inv, Types, TypeOK

\* A client takes up a temporary key.
LEMMA RotateKeeps ==
    ASSUME Inv, NEW s \in Session, NEW k \in Temp, Rotate(s, k)
    PROVE  Inv'
<1> DEFINE r == [NoReq EXCEPT !.op = "bindTemp", !.pc = "resolve", !.auth = k]
<1>1. r \in RequestType
  BY DEF NoReq, RequestType, PC, Op, Key
<1>2. requestOK(r, k, exist, issued)
  BY DEF NoReq, requestOK
<1>3. req' = [req EXCEPT ![s] = r] /\ using' = [using EXCEPT ![s] = k]
  BY DEF Rotate
<1> HIDE DEF r
<1>4. UNCHANGED <<created, codes, sessions, tempKeys, tracked, client>>
  BY DEF Rotate, tables
<1>5. Types'
  BY <1>1, <1>3, <1>4 DEF Inv, Types, TypeOK, Key
<1>6. exist' = exist /\ issued' = issued
  BY <1>4 DEF exist, issued
<1>7. LiveBound' /\ LoginsAllowed' /\ OneAccountEach'
  BY <1>4, <1>6 DEF Inv, LiveBound, LoginsAllowed, OneAccountEach
<1>8. \A t \in Session : requestOK(req'[t], using'[t], exist, issued)
  BY <1>2, <1>3 DEF Inv, Types, TypeOK
<1> QED BY <1>5, <1>6, <1>7, <1>8 DEF Inv

\* A key is resolved, or taken as it is.
LEMMA ResolveKeeps ==
    ASSUME Inv, NEW s \in Session, resolve(s) \/ unresolved(s)
    PROVE  Inv'
<1>1. req[s].pc \in {"resolve", "bind", "unbind"}
  BY DEF resolve, unresolved
<1>2. req[s].op # "none" /\ req[s].auth = using[s] /\ using[s] \in Key
  BY <1>1, UnderWay
<1>3. PICK k \in Key, pc \in PC :
          /\ req' = [req EXCEPT ![s].key = k, ![s].pc = pc]
          /\ \/ req[s].pc = "resolve" /\ pc = "caller"
             \/ req[s].pc = "bind" /\ pc = "bindSession"
             \/ req[s].pc = "unbind" /\ pc = "unbindSession"
  <2>1. CASE resolve(s)
    <3>1. effectiveKeyID(req[s].auth) \in Key
      BY <1>2, EffectiveKey
    <3>2. CASE req[s].pc = "resolve"
      BY <2>1, <3>1, <3>2 DEF resolve, PC
    <3>3. CASE req[s].pc = "bind"
      BY <2>1, <3>1, <3>3 DEF resolve, PC
    <3>4. CASE req[s].pc = "unbind"
      BY <2>1, <3>1, <3>4 DEF resolve, PC
    <3> QED BY <1>1, <3>2, <3>3, <3>4
  <2>2. CASE unresolved(s)
    BY <1>2, <2>2 DEF unresolved, PC
  <2> QED BY <2>1, <2>2
<1> DEFINE r == [req[s] EXCEPT !.key = k, !.pc = pc]
<1>4. req[s] \in RequestType
  BY DEF Inv, Types
<1>5. /\ r \in RequestType /\ r.op = req[s].op /\ r.auth = req[s].auth /\ r.name = req[s].name
      /\ r.key = k /\ r.pc = pc
  BY <1>4 DEF RequestType
<1>6. req' = [req EXCEPT ![s] = r]
  BY <1>3
<1> HIDE DEF r
<1>7. requestOK(req[s], using[s], exist, issued)
  BY DEF Inv
<1>8. requestOK(r, using[s], exist, issued)
  BY <1>2, <1>3, <1>5, <1>7 DEF requestOK
<1>9. UNCHANGED <<tables, using>> /\ tracked' = tracked /\ client' = client
  BY DEF resolve, unresolved
<1> QED BY <1>5, <1>6, <1>8, <1>9, MoveKeeps DEF Inv, Types, TypeOK

\* OnMessage finds the caller and tracks its session, or does not.
LEMMA TrackKeeps ==
    ASSUME Inv, NEW s \in Session, lookupCaller(s) \/ untracked(s) \/ track(s)
    PROVE  Inv'
<1>1. req[s].pc \in {"resolve", "caller", "track"}
  BY DEF lookupCaller, untracked, track
<1>2. req[s].op # "none"
  BY <1>1, UnderWay
<1>3. requestOK(req[s], using[s], exist, issued) /\ req[s] \in RequestType
  BY DEF Inv, Types
<1>4. CASE untracked(s)
  <2>1. goto(s, "op") /\ UNCHANGED <<tables, using, client>> /\ tracked' = tracked
    BY <1>4 DEF untracked
  <2> QED BY <1>2, <2>1, GotoKeeps DEF PC, Inv, Types, TypeOK
<1>5. CASE lookupCaller(s)
  <2> DEFINE u == sessions[req[s].key]
             pc == IF u = None THEN "op" ELSE "track"
             r == [req[s] EXCEPT !.user = u, !.pc = pc]
  <2>1. req[s].key \in Key
    BY <1>3, <1>5 DEF requestOK, lookupCaller
  <2>2. u \in Account \cup {None} /\ pc \in {"op", "track"}
    BY <2>1 DEF Inv, Types, TypeOK
  <2>3. req' = [req EXCEPT ![s] = r] /\ UNCHANGED <<tables, using>>
        /\ tracked' = tracked /\ client' = client
    BY <1>5 DEF lookupCaller
  <2> HIDE DEF u, pc
  <2>4. /\ r \in RequestType /\ r.op = req[s].op /\ r.auth = req[s].auth
        /\ r.name = req[s].name /\ r.pc = pc
    BY <1>3, <2>2 DEF RequestType, PC
  <2>t. r.pc = "track" => r.user \in Account
    BY <1>3, <2>2 DEF pc, RequestType
  <2> HIDE DEF r
  <2>5. requestOK(r, using[s], exist, issued)
    BY <1>2, <1>3, <2>2, <2>4, <2>t DEF requestOK
  <2> QED BY <2>3, <2>4, <2>5, MoveKeeps DEF Inv, Types, TypeOK
<1>6. CASE track(s)
  <2>1. goto(s, "op") /\ UNCHANGED <<tables, using, client>>
    BY <1>6 DEF track
  <2>2. tracked' \subseteq Account \X Session
    BY <1>3, <1>6 DEF track, requestOK, Inv, Types, TypeOK
  <2> QED BY <1>2, <2>1, <2>2, GotoKeeps DEF PC
<1> QED BY <1>4, <1>5, <1>6

\* The code is accepted only if one was issued for the number.
LEMMA CheckCodeKeeps ==
    ASSUME Inv, NEW s \in Session, checkCode(s)
    PROVE  Inv'
<1>1. /\ req[s].op \in {"signIn", "signUp"} /\ UNCHANGED <<tables, using>> /\ tracked' = tracked
      /\ requestOK(req[s], using[s], exist, issued) /\ req[s] \in RequestType
      /\ tracked \subseteq Account \X Session
  BY DEF checkCode, Inv, Types, TypeOK
<1>2. CASE codeAccepted(req[s])
  <2>1. goto(s, "user") /\ client' = client
    BY <1>2 DEF checkCode
  <2>2. req[s].hash \in Hash /\ codes[req[s].hash].phone = req[s].name /\ req[s].name \in Phone
    BY <1>1, <1>2 DEF codeAccepted, requestOK, RequestType
  <2>3. req[s].name \in issued
    BY <2>2 DEF issued
  <2> QED BY <1>1, <2>1, <2>3, GotoKeeps DEF PC
<1>3. CASE ~codeAccepted(req[s])
  <2>1. answer(s, "start", keepsUser(s))
    BY <1>3 DEF checkCode
  <2>2. keepsUser(s) \in Account \cup {None}
    BY LoginAssumption DEF keepsUser, Inv, Types, ClientType
  <2> QED BY <1>1, <2>1, <2>2, AnswerKeeps
<1> QED BY <1>2, <1>3

\* The account is found, or is to be made, or its lack is the answer.
LEMMA FindUserKeeps ==
    ASSUME Inv, NEW s \in Session, findUser(s)
    PROVE  Inv'
<1> DEFINE r == req[s]
<1>1. /\ UNCHANGED <<tables, using>> /\ tracked' = tracked /\ r \in RequestType
      /\ requestOK(r, using[s], exist, issued) /\ tracked \subseteq Account \X Session
  BY DEF findUser, Inv, Types, TypeOK
<1>2. r.pc = "user" \/ (r.op = "importBot" /\ r.pc = "op")
  BY DEF findUser
<1>3. /\ r.op \in {"signIn", "signUp", "importBot"} /\ r.name \in Account
      /\ r.name \in Phone => r.name \in issued
  BY <1>1, <1>2, LoginAssumption DEF requestOK, Account
<1>4. keepsUser(s) \in Account \cup {None}
  BY LoginAssumption DEF keepsUser, Inv, Types, ClientType
<1>5. \/ answer(s, "signUp", keepsUser(s)) \/ answer(s, "start", keepsUser(s))
      \/ created[r.name] > 0 /\ goto(s, "bind") /\ client' = client
      \/ goto(s, "create") /\ client' = client
  BY DEF findUser, missingAccount
<1>6. CASE answer(s, "signUp", keepsUser(s)) \/ answer(s, "start", keepsUser(s))
  BY <1>1, <1>4, <1>6, AnswerKeeps
<1>7. CASE created[r.name] > 0 /\ goto(s, "bind") /\ client' = client
  <2>1. allowed(r.name, exist, issued)
    BY <1>3, <1>7 DEF allowed, exist
  <2> QED BY <1>1, <1>3, <1>7, <2>1, GotoKeeps DEF PC
<1>8. CASE goto(s, "create") /\ client' = client
  BY <1>1, <1>3, <1>8, GotoKeeps DEF PC
<1> QED BY <1>5, <1>6, <1>7, <1>8

\* An account is made only where there is none.
LEMMA CreateUserKeeps ==
    ASSUME Inv, NEW s \in Session, createUser(s)
    PROVE  Inv'
<1> DEFINE a == req[s].name
<1>1. /\ UNCHANGED <<codes, sessions, tempKeys, using>> /\ tracked' = tracked
      /\ req[s] \in RequestType /\ requestOK(req[s], using[s], exist, issued)
      /\ tracked \subseteq Account \X Session /\ created \in [Account -> Nat]
      /\ req[s].pc = "create"
  BY DEF createUser, Inv, Types, TypeOK
<1>2. /\ req[s].op \in {"signIn", "signUp", "importBot"} /\ a \in Account
      /\ a \in Phone => a \in issued
  BY <1>1, LoginAssumption DEF requestOK, Account
<1>3. CASE taken(a)
  <2>1. keepsUser(s) \in Account \cup {None}
    BY LoginAssumption DEF keepsUser, Inv, Types, ClientType
  <2>2. answer(s, "start", keepsUser(s)) /\ UNCHANGED <<tables, using>>
    BY <1>1, <1>3 DEF createUser, tables
  <2> QED BY <1>1, <2>1, <2>2, AnswerKeeps
<1>4. CASE ~taken(a)
  <2>1. created' = [created EXCEPT ![a] = @ + 1] /\ goto(s, "bind") /\ client' = client
    BY <1>4 DEF createUser
  <2>2. created[a] = 0
    BY <1>1, <1>2, <1>4 DEF taken
  <2>3. /\ created' \in [Account -> Nat] /\ created'[a] = 1
        /\ \A b \in Account : b # a => created'[b] = created[b]
    BY <1>1, <1>2, <2>1, <2>2
  <2>4. OneAccountEach'
    BY <2>3 DEF Inv, OneAccountEach
  <2>5. exist \subseteq exist' /\ a \in exist' /\ issued' = issued
    BY <1>1, <1>2, <2>3 DEF exist, issued
  <2>6. PICK r \in RequestType :
            /\ req' = [req EXCEPT ![s] = r] /\ r.pc = "bind"
            /\ r.op = req[s].op /\ r.auth = req[s].auth /\ r.name = a
    BY <2>1, GotoMoves DEF PC
  <2>7. requestOK(r, using[s], exist', issued')
    BY <1>1, <1>2, <2>5, <2>6 DEF requestOK, allowed
  <2>8. \A t \in Session : requestOK(req'[t], using'[t], exist', issued')
    <3>1. \A t \in Session : requestOK(req[t], using[t], exist', issued')
      BY <2>5, RequestOKGrows DEF Inv
    <3> QED BY <1>1, <2>6, <2>7, <3>1 DEF Inv, Types
  <2>9. Types'
    BY <1>1, <2>1, <2>3, <2>6 DEF Inv, Types, TypeOK
  <2>10. LiveBound' /\ LoginsAllowed'
    BY <1>1, <2>5 DEF Inv, LiveBound, LoginsAllowed, allowed
  <2> QED BY <2>4, <2>8, <2>9, <2>10 DEF Inv
<1> QED BY <1>3, <1>4

\* A code more.
LEMMA SendCodeKeeps ==
    ASSUME Inv, NEW s \in Session, authSendCode(s)
    PROVE  Inv'
<1>1. /\ req[s].op = "sendCode" /\ req' = [req EXCEPT ![s] = NoReq]
      /\ UNCHANGED <<created, sessions, tempKeys, tracked, using>>
  BY DEF authSendCode
<1>2. PICK h \in Hash :
          /\ codes[h].phone = None
          /\ codes' = [codes EXCEPT ![h] = [phone |-> req[s].name, live |-> TRUE]]
          /\ client' = [client EXCEPT ![permOf[s]].stage = "code", ![permOf[s]].hash = h]
  BY DEF authSendCode
<1>3. req[s].name \in Phone
  BY <1>1 DEF Inv, requestOK
<1>4. codes' \in [Hash -> [phone : Phone \cup {None}, live : BOOLEAN]]
  BY <1>2, <1>3 DEF Inv, Types, TypeOK
<1>5. client' \in [Perm -> ClientType]
  <2>1. permOf[s] \in Perm /\ client \in [Perm -> ClientType]
    BY LoginAssumption DEF Inv, Types
  <2>2. [[client[permOf[s]] EXCEPT !.stage = "code"] EXCEPT !.hash = h] \in ClientType
    BY <2>1 DEF ClientType
  <2>3. client' = [client EXCEPT ![permOf[s]] =
                      [[client[permOf[s]] EXCEPT !.stage = "code"] EXCEPT !.hash = h]]
    BY <1>2, <2>1
  <2> QED BY <2>1, <2>2, <2>3
<1>6. exist' = exist /\ issued \subseteq issued'
  <2>1. ASSUME NEW p \in Phone, NEW g \in Hash, codes[g].phone = p
        PROVE  codes'[g].phone = p
    <3>1. g # h
      BY <1>2, <2>1, LoginAssumption DEF Account
    <3> QED BY <1>2, <2>1, <3>1 DEF Inv, Types, TypeOK
  <2> QED BY <1>1, <2>1 DEF exist, issued
<1>7. \A t \in Session : requestOK(req'[t], using'[t], exist', issued')
  <2>1. \A t \in Session : requestOK(req[t], using[t], exist', issued')
    BY <1>6, RequestOKGrows DEF Inv
  <2> QED BY <1>1, <2>1, NoReqOK DEF Inv, Types
<1>8. Types'
  BY <1>1, <1>4, <1>5, NoReqOK DEF Inv, Types, TypeOK
<1>9. LiveBound' /\ LoginsAllowed' /\ OneAccountEach'
  BY <1>1, <1>6 DEF Inv, LiveBound, LoginsAllowed, allowed, OneAccountEach
<1> QED BY <1>7, <1>8, <1>9 DEF Inv

\* A key is bound to the account of the request, or to none.
LEMMA BindKeeps ==
    ASSUME Inv, NEW s \in Session, BindSession(s) \/ Unbind(s)
    PROVE  Inv'
<1>1. /\ UNCHANGED <<created, codes, tempKeys, tracked, using, client>>
      /\ requestOK(req[s], using[s], exist, issued)
  BY DEF BindSession, Unbind, Inv
<1>2. PICK pc \in {"bound", "unbound"}, a \in Account \cup {None} :
          /\ goto(s, pc) /\ sessions' = [sessions EXCEPT ![req[s].key] = a]
          /\ a = None \/ allowed(a, exist, issued)
          /\ req[s].key \in Key
          /\ pc = "bound" => req[s].pc = "bindSession"
          /\ pc = "unbound" => req[s].pc = "unbindSession"
  <2>1. CASE BindSession(s)
    <3>1. allowed(req[s].name, exist, issued) /\ req[s].key \in Key
      BY <1>1, <2>1 DEF BindSession, requestOK
    <3>2. req[s].name \in Account
      BY <3>1 DEF allowed, exist
    <3> QED BY <2>1, <3>1, <3>2 DEF BindSession, boundKey
  <2>2. CASE Unbind(s)
    BY <1>1, <2>2 DEF Unbind, boundKey, requestOK
  <2> QED BY <2>1, <2>2
<1>3. PICK r \in RequestType :
          /\ req' = [req EXCEPT ![s] = r] /\ r.pc = pc
          /\ r.op = req[s].op /\ r.auth = req[s].auth /\ r.name = req[s].name
  BY <1>2, GotoMoves DEF PC
<1>4. requestOK(r, using[s], exist, issued)
  <2>1. req[s].op # "none"
    BY <1>2, UnderWay
  <2> QED BY <1>1, <1>2, <1>3, <2>1 DEF requestOK
<1>5. exist' = exist /\ issued' = issued
  BY <1>1 DEF exist, issued
<1>6. Types'
  BY <1>1, <1>2, <1>3 DEF Inv, Types, TypeOK
<1>7. LiveBound' /\ LoginsAllowed' /\ OneAccountEach'
  BY <1>1, <1>2, <1>5 DEF Inv, Types, TypeOK, LiveBound, LoginsAllowed, OneAccountEach
<1>8. \A t \in Session : requestOK(req'[t], using'[t], exist, issued)
  BY <1>1, <1>3, <1>4 DEF Inv, Types
<1> QED BY <1>5, <1>6, <1>7, <1>8 DEF Inv

\* A temporary key is bound to a permanent one.
LEMMA BindTempKeeps ==
    ASSUME Inv, NEW s \in Session, authBindTempAuthKey(s)
    PROVE  Inv'
<1>1. /\ req[s].op = "bindTemp" /\ req' = [req EXCEPT ![s] = NoReq]
      /\ tempKeys' = [tempKeys EXCEPT ![req[s].auth] = [perm |-> permOf[s], live |-> TRUE]]
      /\ UNCHANGED <<created, codes, sessions, tracked, using, client>>
  BY DEF authBindTempAuthKey, permAuthKeyID
<1>2. permOf[s] \in Perm /\ permOf[s] # None
  BY LoginAssumption DEF Key
<1>3. tempKeys' \in [Temp -> [perm : Perm \cup {None}, live : BOOLEAN]]
  BY <1>1, <1>2 DEF Inv, Types, TypeOK
<1>4. LiveBound'
  BY <1>1, <1>2 DEF Inv, Types, TypeOK, LiveBound
<1>5. Types'
  BY <1>1, <1>3, NoReqOK DEF Inv, Types, TypeOK
<1>6. exist' = exist /\ issued' = issued
  BY <1>1 DEF exist, issued
<1>7. LoginsAllowed' /\ OneAccountEach'
  BY <1>1, <1>6 DEF Inv, LoginsAllowed, OneAccountEach
<1>8. \A t \in Session : requestOK(req'[t], using'[t], exist, issued)
  BY <1>1, NoReqOK DEF Inv, Types
<1> QED BY <1>4, <1>5, <1>6, <1>7, <1>8 DEF Inv

\* The answer to a login or a logout, the beginning of a logout, and failures.
LEMMA RestKeeps ==
    ASSUME Inv, NEW s \in Session, authorized(s) \/ authLogOut(s) \/ fail(s)
    PROVE  Inv'
<1>1. /\ UNCHANGED <<tables, using>> /\ tracked' = tracked
      /\ tracked \subseteq Account \X Session /\ req[s] \in RequestType
      /\ requestOK(req[s], using[s], exist, issued)
  BY DEF authorized, authLogOut, fail, Inv, Types, TypeOK
<1>2. keepsUser(s) \in Account \cup {None}
  BY LoginAssumption DEF keepsUser, Inv, Types, ClientType
<1>3. CASE authorized(s)
  <2>1. req[s].name \in Account \cup {None}
    BY <1>1 DEF RequestType
  <2> QED BY <1>1, <1>3, <2>1, AnswerKeeps DEF authorized
<1>4. CASE authLogOut(s)
  BY <1>1, <1>4, GotoKeeps DEF authLogOut, PC
<1>5. CASE fail(s)
  <2>1. CASE req[s].op = "bindTemp"
    <3>1. req' = [req EXCEPT ![s] = NoReq] /\ client' = client
      BY <1>5, <2>1 DEF fail
    <3> QED BY <1>1, <3>1, NoReqOK, MoveKeeps DEF Inv, Types
  <2>2. CASE req[s].op # "bindTemp"
    <3>1. answer(s, "start", None) \/ answer(s, "start", keepsUser(s))
      BY <1>5, <2>2 DEF fail
    <3> QED BY <1>1, <1>2, <3>1, AnswerKeeps
  <2> QED BY <2>1, <2>2
<1> QED BY <1>3, <1>4, <1>5

\* Time passes.
LEMMA ExpiryKeeps ==
    ASSUME Inv, (\E h \in Hash : codeExpires(h)) \/ (\E k \in Temp : tempKeyExpires(k))
    PROVE  Inv'
<1>1. UNCHANGED <<created, sessions, tracked, req, using, client>>
  BY DEF codeExpires, tempKeyExpires
<1>2. /\ codes' \in [Hash -> [phone : Phone \cup {None}, live : BOOLEAN]]
      /\ \A g \in Hash : codes'[g].phone = codes[g].phone
  <2>0. codes \in [Hash -> [phone : Phone \cup {None}, live : BOOLEAN]]
    BY DEF Inv, Types, TypeOK
  <2>1. CASE \E h \in Hash : codeExpires(h)
    <3>1. PICK h \in Hash : codes' = [codes EXCEPT ![h] = [@ EXCEPT !.live = FALSE]]
      BY <2>0, <2>1 DEF codeExpires
    <3>2. /\ [codes[h] EXCEPT !.live = FALSE] \in [phone : Phone \cup {None}, live : BOOLEAN]
          /\ [codes[h] EXCEPT !.live = FALSE].phone = codes[h].phone
      BY <2>0
    <3> QED BY <2>0, <3>1, <3>2
  <2>2. CASE \E k \in Temp : tempKeyExpires(k)
    BY <2>0, <2>2 DEF tempKeyExpires
  <2> QED BY <2>1, <2>2
<1>3. /\ tempKeys' \in [Temp -> [perm : Perm \cup {None}, live : BOOLEAN]]
      /\ LiveBound'
  <2>0. tempKeys \in [Temp -> [perm : Perm \cup {None}, live : BOOLEAN]] /\ LiveBound
    BY DEF Inv, Types, TypeOK
  <2>1. CASE \E h \in Hash : codeExpires(h)
    BY <2>0, <2>1 DEF codeExpires, LiveBound
  <2>2. CASE \E k \in Temp : tempKeyExpires(k)
    <3>1. PICK k \in Temp : tempKeys' = [tempKeys EXCEPT ![k] = [@ EXCEPT !.live = FALSE]]
      BY <2>0, <2>2 DEF tempKeyExpires
    <3>2. /\ [tempKeys[k] EXCEPT !.live = FALSE] \in [perm : Perm \cup {None}, live : BOOLEAN]
          /\ [tempKeys[k] EXCEPT !.live = FALSE].live = FALSE
      BY <2>0
    <3> QED BY <2>0, <3>1, <3>2 DEF LiveBound
  <2> QED BY <2>1, <2>2
<1>4. exist' = exist /\ issued' = issued
  BY <1>1, <1>2 DEF exist, issued
<1>5. Types'
  BY <1>1, <1>2, <1>3 DEF Inv, Types, TypeOK
<1>6. LoginsAllowed' /\ OneAccountEach'
  BY <1>1, <1>4 DEF Inv, LoginsAllowed, OneAccountEach
<1> QED BY <1>1, <1>3, <1>4, <1>5, <1>6 DEF Inv

\* A step of either specification.
Step ==
    \/ \E s \in Session : AnyRequest(s) \/ LoginRequest(s) \/ HandlerStep(s)
                          \/ untracked(s) \/ unresolved(s) \/ fail(s)
    \/ \E s \in Session, k \in Temp : Rotate(s, k)
    \/ \E h \in Hash : codeExpires(h)
    \/ \E k \in Temp : tempKeyExpires(k)

\* Every step keeps the invariant.
LEMMA StepInv ==
    ASSUME Inv, [Step]_vars
    PROVE  Inv'
<1>1. ASSUME NEW s \in Session, AnyRequest(s) \/ LoginRequest(s)
      PROVE  Inv'
  BY <1>1, ClientsAsk, AskKeeps
<1>2. ASSUME NEW s \in Session, HandlerStep(s) \/ untracked(s) \/ unresolved(s) \/ fail(s)
      PROVE  Inv'
  BY <1>2, ResolveKeeps, TrackKeeps, CheckCodeKeeps, FindUserKeeps, CreateUserKeeps,
     SendCodeKeeps, BindKeeps, BindTempKeeps, RestKeeps DEF HandlerStep
<1>3. CASE UNCHANGED vars
  <2>1. /\ UNCHANGED <<created, codes, sessions, tempKeys, tracked, req, using, client>>
        /\ exist' = exist /\ issued' = issued
    BY <1>3 DEF vars, exist, issued
  <2> QED BY <2>1 DEF Inv, Types, TypeOK, LiveBound, LoginsAllowed, OneAccountEach
<1> QED BY <1>1, <1>2, <1>3, RotateKeeps, ExpiryKeeps DEF Step

\* The invariant holds for clients that ask anything ...
THEOREM AccountsHold == Spec => []Inv
<1>1. Init => Inv
  BY InitInv
<1>2. Inv /\ [Next]_vars => Inv'
  BY StepInv DEF Next, Step
<1> QED BY <1>1, <1>2, PTL DEF Spec

\* A key is logged in only to an account that exists, and to a phone number's only
\* after a code was issued for that number: what checkCode found, calls before the
\* key is bound, still holds then, whatever other sessions do in between.
THEOREM LoginsNeedCodes == Spec => []LoginNeedsCode
<1>1. Inv => LoginNeedsCode
  BY DEF Inv, LoginsAllowed, LoginNeedsCode, allowed, exist, issued
<1> QED BY <1>1, AccountsHold, PTL

\* ... and for those that log in with numbers and tokens: no number and no token ever
\* has two accounts, although handlers look it up and create it in separate calls.
THEOREM AccountsUnique == LoginSpec => []OneAccountEach
<1>1. Init => Inv
  BY InitInv
<1>2. Inv /\ [\E s \in Session : LoginRequest(s) \/ HandlerStep(s)]_vars => Inv'
  BY StepInv DEF Step
<1>3. Inv => OneAccountEach
  BY DEF Inv
<1> QED BY <1>1, <1>2, <1>3, PTL DEF LoginSpec

\* The variables hold values of their types in every reachable state.
THEOREM TypeCorrect == Spec => []TypeOK
<1>1. Inv => TypeOK
  BY DEF Inv, Types
<1> QED BY <1>1, AccountsHold, PTL

-----------------------------------------------------------------------------
(* The second inductive invariant: the client's key and what it was told *)

\* Session s uses its client's permanent key, or a live temporary key bound to it, or
\* a temporary key nobody has bound and under which it asks for nothing else.
ownKey(s) ==
    /\ using[s] \in Perm => using[s] = permOf[s]
    /\ using[s] \in Temp =>
          \/ tempKeys[using[s]].perm = None /\ req[s].op \in {"none", "bindTemp"}
          \/ tempKeys[using[s]].perm = permOf[s] /\ tempKeys[using[s]].live

\* No two sessions use a temporary key.
Distinct == \A s, t \in Session : s # t /\ using[s] \in Temp => using[s] # using[t]

\* A client has one request under way that changes its login.
Alone ==
    \A s, t \in Session :
        s # t /\ permOf[s] = permOf[t] /\ req[s].op \in AuthOps => req[t].op \notin AuthOps

\* A login is bound to the permanent key; a logout may miss it, when its lookup failed.
Aimed ==
    \A s \in Session :
        /\ req[s].pc = "bindSession" => req[s].key = permOf[s]
        /\ req[s].pc = "unbindSession" => req[s].key \in Temp \cup {permOf[s]}
        /\ req[s].pc = "bound" => sessions[permOf[s]] = req[s].name

\* What client p was told holds, or the answer that corrects it is on its way.
told(p) ==
    client[p].user # None =>
        \/ sessions[p] = client[p].user
        \/ \E s \in Session : permOf[s] = p /\ req[s].pc \in {"bound", "unbound"}

Holds ==
    /\ \A s \in Session : ownKey(s)
    /\ Distinct /\ Alone /\ Aimed
    /\ \A p \in Perm : told(p)

\* Nobody was told anything.
LEMMA InitHolds == Init => Holds
<1> SUFFICES ASSUME Init PROVE Holds
  OBVIOUS
<1>1. \A s \in Session : /\ using[s] = permOf[s] /\ using[s] \in Perm /\ using[s] \notin Temp
                         /\ req[s].op = "none" /\ req[s].pc = "idle"
  BY LoginAssumption DEF Init, NoReq
<1>2. \A p \in Perm : client[p].user = None
  BY DEF Init
<1> QED BY <1>1, <1>2 DEF Holds, ownKey, Distinct, Alone, Aimed, told, AuthOps

\* A step of session s after which its request is r, that leaves the tables of keys
\* alone; its client learns nothing, that nothing is sure, or what its key is bound to.
LEMMA QuietHolds ==
    ASSUME Inv, Holds, NEW s \in Session, NEW r \in RequestType, req' = [req EXCEPT ![s] = r],
           sessions' = sessions, tempKeys' = tempKeys, using' = using,
           \A p \in Perm :
              \/ client'[p].user = None \/ client'[p].user = sessions[p]
              \/ /\ client'[p].user = client[p].user
                 /\ permOf[s] = p => req[s].pc \notin {"bound", "unbound"},
           r.op \in AuthOps =>
              \/ req[s].op \in AuthOps
              \/ \A t \in Session : permOf[t] = permOf[s] => req[t].op \notin AuthOps,
           \/ r.op \in {"none", "bindTemp"}
           \/ using[s] \in Temp => tempKeys[using[s]].perm # None,
           r.pc = "bindSession" => r.key = permOf[s],
           r.pc = "unbindSession" => r.key \in Temp \cup {permOf[s]},
           r.pc # "bound"
    PROVE  Holds'
<1>1. req \in [Session -> RequestType] /\ req'[s] = r /\ \A t \in Session \ {s} : req'[t] = req[t]
  BY DEF Inv, Types
<1>2. \A t \in Session : ownKey(t)'
  BY <1>1 DEF Holds, ownKey
<1>3. Distinct'
  BY DEF Holds, Distinct
<1>4. Alone'
  BY <1>1 DEF Holds, Alone
<1>5. Aimed'
  BY <1>1 DEF Holds, Aimed
<1>6. ASSUME NEW p \in Perm
      PROVE  told(p)'
  <2>1. CASE client'[p].user = None \/ client'[p].user = sessions[p]
    BY <2>1 DEF told
  <2>2. CASE /\ client'[p].user = client[p].user
             /\ permOf[s] = p => req[s].pc \notin {"bound", "unbound"}
    <3>1. told(p)
      BY DEF Holds
    <3>2. ASSUME NEW t \in Session, permOf[t] = p, req[t].pc \in {"bound", "unbound"}
          PROVE  req'[t].pc \in {"bound", "unbound"}
      BY <1>1, <2>2, <3>2
    <3> QED BY <2>2, <3>1, <3>2 DEF told
  <2> QED BY <2>1, <2>2
<1> QED BY <1>2, <1>3, <1>4, <1>5, <1>6 DEF Holds

\* A request that goes on to a step that decides nothing.
LEMMA GotoHolds ==
    ASSUME Inv, Holds, NEW s \in Session, NEW pc \in {"op", "user", "create", "bind", "unbind"},
           goto(s, pc), req[s].pc \notin {"idle", "bound", "unbound"},
           sessions' = sessions, tempKeys' = tempKeys, using' = using, client' = client
    PROVE  Holds'
<1>1. PICK r \in RequestType : /\ req' = [req EXCEPT ![s] = r] /\ r.pc = pc
                               /\ r.op = req[s].op
  BY GotoMoves DEF PC
<1>2. r.op \in {"none", "bindTemp"} \/ (using[s] \in Temp => tempKeys[using[s]].perm # None)
  BY <1>1, LoginAssumption DEF Holds, ownKey, Key
<1> QED BY <1>1, <1>2, QuietHolds

\* A request that is answered.
LEMMA AnswerHolds ==
    ASSUME Inv, Holds, NEW s \in Session, NEW stage, NEW user, answer(s, stage, user),
           sessions' = sessions, tempKeys' = tempKeys, using' = using,
           \/ user = None \/ user = sessions[permOf[s]]
           \/ user = client[permOf[s]].user /\ req[s].pc \notin {"bound", "unbound"}
    PROVE  Holds'
<1>1. req' = [req EXCEPT ![s] = NoReq] /\ NoReq \in RequestType
  BY NoReqOK DEF answer
<1>2. permOf[s] \in Perm /\ client \in [Perm -> ClientType]
  BY LoginAssumption DEF Inv, Types
<1>3. /\ client'[permOf[s]].user = user
      /\ \A p \in Perm \ {permOf[s]} : client'[p] = client[p]
  BY <1>2 DEF answer, ClientType
<1>4. /\ NoReq.op = "none" /\ NoReq.pc = "idle" /\ "none" \notin AuthOps
  BY DEF NoReq, AuthOps
<1>5. \A p \in Perm :
          \/ client'[p].user = None \/ client'[p].user = sessions[p]
          \/ /\ client'[p].user = client[p].user
             /\ permOf[s] = p => req[s].pc \notin {"bound", "unbound"}
  BY <1>3
<1> QED BY <1>1, <1>4, <1>5, QuietHolds

\* The key of a request stands for its client's permanent key.
LEMMA OwnEffective ==
    ASSUME Inv, Holds, NEW s \in Session, req[s].op \notin {"none", "bindTemp"}
    PROVE  effectiveKeyID(req[s].auth) = permOf[s]
<1>1. req[s].auth = using[s] /\ using[s] \in Key
  BY DEF Inv, requestOK, Types, TypeOK
<1> QED BY <1>1, LoginAssumption DEF Holds, ownKey, effectiveKeyID, Key

\* A request begins: its client has no other that changes its login, and a bound key.
LEMMA AskHolds ==
    ASSUME Inv, Holds, NEW s \in Session, Asks(s)
    PROVE  Holds'
<1>1. PICK op \in Op, name \in Account \cup {None}, hash \in Hash \cup {None}, right \in BOOLEAN :
          Begin(s, op, name, hash, right)
  BY DEF Asks
<1> DEFINE r == [NoReq EXCEPT !.op = op, !.pc = "resolve", !.auth = using[s],
                              !.name = name, !.hash = hash, !.right = right]
<1>2. using[s] \in Key
  BY DEF Inv, Types, TypeOK
<1>3. r \in RequestType /\ r.op = op /\ r.pc = "resolve"
  BY <1>2 DEF NoReq, RequestType, PC
<1>4. /\ req' = [req EXCEPT ![s] = r] /\ client' = client
      /\ op \in AuthOps => \A t \in Session : permOf[t] = permOf[s] => req[t].op \notin AuthOps
      /\ using[s] \in Temp => tempKeys[using[s]].perm # None
      /\ sessions' = sessions /\ tempKeys' = tempKeys /\ using' = using /\ req[s].op = "none"
  BY <1>1 DEF Begin, tables
<1>5. req[s].pc = "idle"
  BY <1>4 DEF Inv, requestOK, NoReq
<1> HIDE DEF r
<1> QED BY <1>3, <1>4, <1>5, QuietHolds

\* A client takes up a temporary key nobody else uses.
LEMMA RotateHolds ==
    ASSUME Inv, Holds, NEW s \in Session, NEW k \in Temp, Rotate(s, k)
    PROVE  Holds'
<1> DEFINE r == [NoReq EXCEPT !.op = "bindTemp", !.pc = "resolve", !.auth = k]
<1>1. /\ req' = [req EXCEPT ![s] = r] /\ using' = [using EXCEPT ![s] = k]
      /\ tempKeys[k].perm = None /\ \A t \in Session \ {s} : using[t] # k
      /\ sessions' = sessions /\ tempKeys' = tempKeys /\ client' = client /\ req[s].op = "none"
  BY DEF Rotate, tables
<1>2. r.op = "bindTemp" /\ r.pc = "resolve"
  BY DEF NoReq
<1> HIDE DEF r
<1>3. /\ req'[s] = r /\ \A t \in Session \ {s} : req'[t] = req[t]
      /\ using'[s] = k /\ \A t \in Session \ {s} : using'[t] = using[t]
  BY <1>1 DEF Inv, Types, TypeOK
<1>4. req[s].pc = "idle"
  BY <1>1 DEF Inv, requestOK, NoReq
<1>5. \A t \in Session : ownKey(t)'
  BY <1>1, <1>2, <1>3, LoginAssumption DEF Holds, ownKey
<1>6. Distinct'
  BY <1>1, <1>3 DEF Holds, Distinct
<1>7. Alone' /\ Aimed'
  BY <1>1, <1>2, <1>3 DEF Holds, Alone, Aimed, AuthOps
<1>8. \A p \in Perm : told(p)'
  BY <1>1, <1>3, <1>4 DEF Holds, told
<1> QED BY <1>5, <1>6, <1>7, <1>8 DEF Holds

\* A key is resolved to the permanent key, or a logout takes it as it is.
LEMMA ResolveHolds ==
    ASSUME Inv, Holds, NEW s \in Session, resolve(s) \/ unresolved(s)
    PROVE  Holds'
<1>1. /\ req[s].pc \in {"resolve", "bind", "unbind"}
      /\ sessions' = sessions /\ tempKeys' = tempKeys /\ using' = using /\ client' = client
  BY DEF resolve, unresolved, tables
<1>2. req[s].op # "none" /\ req[s].auth = using[s] /\ using[s] \in Key
  BY <1>1, UnderWay
<1>3. req[s].pc \in {"bind", "unbind"} => req[s].op \notin {"none", "bindTemp"}
  BY DEF Inv, requestOK
<1>4. PICK k \in Key, pc \in PC :
          /\ req' = [req EXCEPT ![s].key = k, ![s].pc = pc]
          /\ \/ req[s].pc = "resolve" /\ pc = "caller"
             \/ req[s].pc = "bind" /\ pc = "bindSession" /\ k = permOf[s]
             \/ req[s].pc = "unbind" /\ pc = "unbindSession" /\ k \in Temp \cup {permOf[s]}
  <2>1. CASE resolve(s)
    <3>1. effectiveKeyID(req[s].auth) \in Key
      BY <1>2, EffectiveKey
    <3>2. CASE req[s].pc = "resolve"
      BY <2>1, <3>1, <3>2 DEF resolve, PC
    <3>3. CASE req[s].pc = "bind"
      BY <1>3, <2>1, <3>1, <3>3, OwnEffective DEF resolve, PC
    <3>4. CASE req[s].pc = "unbind"
      BY <1>3, <2>1, <3>1, <3>4, OwnEffective DEF resolve, PC
    <3> QED BY <1>1, <3>2, <3>3, <3>4
  <2>2. CASE unresolved(s)
    <3>1. using[s] \in Temp \cup {permOf[s]}
      BY <1>2 DEF Key, Holds, ownKey
    <3> QED BY <1>2, <2>2, <3>1 DEF unresolved, PC
  <2> QED BY <2>1, <2>2
<1> DEFINE r == [req[s] EXCEPT !.key = k, !.pc = pc]
<1>5. req[s] \in RequestType
  BY DEF Inv, Types
<1>6. r \in RequestType /\ r.op = req[s].op /\ r.key = k /\ r.pc = pc
  BY <1>5 DEF RequestType
<1>7. req' = [req EXCEPT ![s] = r]
  BY <1>4
<1> HIDE DEF r
<1>8. r.op \in {"none", "bindTemp"} \/ (using[s] \in Temp => tempKeys[using[s]].perm # None)
  BY <1>6, LoginAssumption DEF Holds, ownKey, Key
<1> QED BY <1>1, <1>4, <1>6, <1>7, <1>8, QuietHolds

\* OnMessage's tracking and the first steps of a handler touch no key.
LEMMA HandlerHolds ==
    ASSUME Inv, Holds, NEW s \in Session,
           lookupCaller(s) \/ untracked(s) \/ track(s) \/ authLogOut(s)
           \/ checkCode(s) \/ findUser(s) \/ createUser(s)
    PROVE  Holds'
<1>1. sessions' = sessions /\ tempKeys' = tempKeys /\ using' = using
  BY DEF lookupCaller, untracked, track, authLogOut, checkCode, findUser, createUser, tables
<1>2. req[s].pc \in {"resolve", "caller", "track", "op", "user", "create"}
  BY DEF lookupCaller, untracked, track, authLogOut, checkCode, findUser, createUser
<1>3. CASE untracked(s) \/ track(s) \/ authLogOut(s)
  BY <1>1, <1>2, <1>3, GotoHolds DEF untracked, track, authLogOut
<1>4. CASE checkCode(s) \/ findUser(s) \/ createUser(s)
  <2>1. \/ answer(s, "start", client[permOf[s]].user) \/ answer(s, "signUp", client[permOf[s]].user)
        \/ /\ goto(s, "user") \/ goto(s, "bind") \/ goto(s, "create")
           /\ client' = client
    BY <1>4 DEF checkCode, findUser, createUser, keepsUser, missingAccount
  <2> QED BY <1>1, <1>2, <2>1, GotoHolds, AnswerHolds
<1>5. CASE lookupCaller(s)
  <2> DEFINE u == sessions[req[s].key]
             pc == IF u = None THEN "op" ELSE "track"
             r == [req[s] EXCEPT !.user = u, !.pc = pc]
  <2>1. req[s].key \in Key /\ req[s] \in RequestType
    BY <1>5 DEF Inv, Types, requestOK, lookupCaller
  <2>2. u \in Account \cup {None} /\ pc \in {"op", "track"}
    BY <2>1 DEF Inv, Types, TypeOK
  <2>3. req' = [req EXCEPT ![s] = r] /\ client' = client
    BY <1>5 DEF lookupCaller
  <2> HIDE DEF u, pc
  <2>4. r \in RequestType /\ r.op = req[s].op /\ r.pc = pc
    BY <2>1, <2>2 DEF RequestType, PC
  <2> HIDE DEF r
  <2>5. r.op \in {"none", "bindTemp"} \/ (using[s] \in Temp => tempKeys[using[s]].perm # None)
    BY <2>4, LoginAssumption DEF Holds, ownKey, Key
  <2> QED BY <1>1, <1>2, <2>2, <2>3, <2>4, <2>5, QuietHolds
<1> QED BY <1>3, <1>4, <1>5

\* A code is sent: the client learns its hash.
LEMMA SendCodeHolds ==
    ASSUME Inv, Holds, NEW s \in Session, authSendCode(s)
    PROVE  Holds'
<1>1. PICK h \in Hash : client' = [client EXCEPT ![permOf[s]].stage = "code", ![permOf[s]].hash = h]
  BY DEF authSendCode
<1>2. /\ req' = [req EXCEPT ![s] = NoReq] /\ NoReq \in RequestType /\ req[s].pc = "op"
      /\ sessions' = sessions /\ tempKeys' = tempKeys /\ using' = using
  BY NoReqOK DEF authSendCode
<1>3. \A p \in Perm : client'[p].user = client[p].user
  <2>1. permOf[s] \in Perm /\ client \in [Perm -> ClientType]
    BY LoginAssumption DEF Inv, Types
  <2>2. client' = [client EXCEPT ![permOf[s]] =
                      [[client[permOf[s]] EXCEPT !.stage = "code"] EXCEPT !.hash = h]]
    BY <1>1, <2>1
  <2>3. [[client[permOf[s]] EXCEPT !.stage = "code"] EXCEPT !.hash = h].user = client[permOf[s]].user
    BY <2>1 DEF ClientType
  <2> QED BY <2>1, <2>2, <2>3
<1>4. NoReq.op = "none" /\ NoReq.pc = "idle" /\ "none" \notin AuthOps
  BY DEF NoReq, AuthOps
<1> QED BY <1>2, <1>3, <1>4, QuietHolds

\* A login or a logout takes effect, at the permanent key or at a temporary one; its
\* answer is on its way, and no other of the same client is.
LEMMA BindHolds ==
    ASSUME Inv, Holds, NEW s \in Session, BindSession(s) \/ Unbind(s)
    PROVE  Holds'
<1>1. /\ tempKeys' = tempKeys /\ using' = using /\ client' = client
      /\ req[s].pc \in {"bindSession", "unbindSession"}
  BY DEF BindSession, Unbind
<1>2. req[s].op \in AuthOps /\ req[s].key \in Key
  BY <1>1 DEF Inv, requestOK, AuthOps
<1>3. PICK a \in Account \cup {None}, pc \in {"bound", "unbound"} :
          /\ goto(s, pc) /\ sessions' = [sessions EXCEPT ![req[s].key] = a]
          /\ pc = "bound" => req[s].pc = "bindSession" /\ a = req[s].name
  <2>1. req[s].name \in Account \cup {None}
    BY DEF Inv, Types, RequestType
  <2> QED BY <2>1 DEF BindSession, Unbind, boundKey
<1>4. PICK r \in RequestType : /\ req' = [req EXCEPT ![s] = r] /\ r.pc = pc
                               /\ r.op = req[s].op /\ r.name = req[s].name
  BY <1>3, GotoMoves DEF PC
<1>5. req'[s] = r /\ \A t \in Session \ {s} : req'[t] = req[t]
  BY <1>4 DEF Inv, Types
<1>6. permOf \in [Session -> Perm] /\ Perm \cap Temp = {} /\ sessions \in [Key -> Account \cup {None}]
  BY LoginAssumption DEF Inv, Types, TypeOK
<1>7. /\ req[s].key \in Temp \cup {permOf[s]}
      /\ req[s].pc = "bindSession" => req[s].key = permOf[s]
  BY <1>1, <1>6 DEF Holds, Aimed
<1>8. \A p \in Perm : p # permOf[s] => sessions'[p] = sessions[p]
  BY <1>3, <1>6, <1>7 DEF Key
<1>9. pc = "bound" => sessions'[permOf[s]] = r.name
  BY <1>3, <1>4, <1>6, <1>7 DEF Key
<1>10. \A t \in Session : ownKey(t)'
  BY <1>1, <1>4, <1>5 DEF Holds, ownKey
<1>11. Distinct' /\ Alone'
  BY <1>1, <1>4, <1>5 DEF Holds, Distinct, Alone
<1>12. Aimed'
  <2>1. ASSUME NEW t \in Session \ {s}, req[t].pc = "bound"
        PROVE  permOf[t] # permOf[s]
    <3>1. req[t].op \in AuthOps
      BY <2>1 DEF Inv, requestOK, AuthOps
    <3> QED BY <1>2, <3>1 DEF Holds, Alone
  <2>2. \A t \in Session \ {s} : req[t].pc = "bound" => sessions'[permOf[t]] = req[t].name
    BY <1>6, <1>8, <2>1 DEF Holds, Aimed
  <2> QED BY <1>4, <1>5, <1>9, <2>2 DEF Holds, Aimed
<1>13. ASSUME NEW p \in Perm
       PROVE  told(p)'
  <2>1. CASE p = permOf[s]
    BY <1>4, <1>5, <2>1 DEF told
  <2>2. CASE p # permOf[s]
    BY <1>1, <1>5, <1>8, <2>2 DEF Holds, told
  <2> QED BY <2>1, <2>2
<1> QED BY <1>10, <1>11, <1>12, <1>13 DEF Holds

\* A temporary key is bound for the one session that uses it.
LEMMA BindTempHolds ==
    ASSUME Inv, Holds, NEW s \in Session, authBindTempAuthKey(s)
    PROVE  Holds'
<1>1. /\ req[s].op = "bindTemp" /\ req' = [req EXCEPT ![s] = NoReq] /\ req[s].pc = "op"
      /\ tempKeys' = [tempKeys EXCEPT ![req[s].auth] = [perm |-> permOf[s], live |-> TRUE]]
      /\ sessions' = sessions /\ using' = using /\ client' = client
  BY DEF authBindTempAuthKey, permAuthKeyID
<1>2. req[s].auth = using[s] /\ using[s] \in Temp
  BY <1>1 DEF Inv, requestOK
<1>3. /\ tempKeys'[using[s]].perm = permOf[s] /\ tempKeys'[using[s]].live
      /\ \A k \in Temp : k # using[s] => tempKeys'[k] = tempKeys[k]
  BY <1>1, <1>2 DEF Inv, Types, TypeOK
<1>4. req'[s] = NoReq /\ \A t \in Session \ {s} : req'[t] = req[t] /\ using[t] # using[s]
  BY <1>1, <1>2 DEF Inv, Types, Holds, Distinct
<1>5. NoReq.op = "none" /\ NoReq.pc = "idle" /\ "none" \notin AuthOps
  BY DEF NoReq, AuthOps
<1>6. \A t \in Session : ownKey(t)'
  BY <1>1, <1>2, <1>3, <1>4, LoginAssumption DEF Holds, ownKey
<1>7. Distinct' /\ Alone' /\ Aimed'
  BY <1>1, <1>4, <1>5 DEF Holds, Distinct, Alone, Aimed
<1>8. \A p \in Perm : told(p)'
  BY <1>1, <1>4 DEF Holds, told
<1> QED BY <1>6, <1>7, <1>8 DEF Holds

\* The answer of a login or a logout, and a failure: the client learns what is so, or
\* that it does not know.
LEMMA EndHolds ==
    ASSUME Inv, Holds, NEW s \in Session, authorized(s) \/ fail(s)
    PROVE  Holds'
<1>1. sessions' = sessions /\ tempKeys' = tempKeys /\ using' = using
  BY DEF authorized, fail, tables
<1>2. CASE authorized(s)
  <2>1. \/ answer(s, "in", req[s].name) /\ req[s].name = sessions[permOf[s]]
        \/ answer(s, "out", None)
    BY <1>2 DEF authorized, Holds, Aimed
  <2> QED BY <1>1, <2>1, AnswerHolds
<1>3. CASE fail(s) /\ req[s].op = "bindTemp"
  <2>1. /\ req' = [req EXCEPT ![s] = NoReq] /\ client' = client /\ NoReq \in RequestType
        /\ NoReq.op = "none" /\ NoReq.pc = "idle" /\ "none" \notin AuthOps
    BY <1>3, NoReqOK DEF fail, NoReq, AuthOps
  <2>2. req[s].pc \notin {"bound", "unbound"}
    BY <1>3 DEF Inv, requestOK
  <2> QED BY <1>1, <2>1, <2>2, QuietHolds
<1>4. CASE fail(s) /\ req[s].op # "bindTemp"
  <2>1. \/ answer(s, "start", None)
        \/ answer(s, "start", client[permOf[s]].user) /\ req[s].op \notin AuthOps
    BY <1>4 DEF fail, keepsUser
  <2>2. req[s].op \notin AuthOps => req[s].pc \notin {"bound", "unbound"}
    BY DEF Inv, requestOK, AuthOps
  <2> QED BY <1>1, <2>1, <2>2, AnswerHolds
<1> QED BY <1>2, <1>3, <1>4

\* Time passes: no temporary key expires while a client uses it.
LEMMA ExpiryHolds ==
    ASSUME Inv, Holds, RotatesInTime,
           (\E h \in Hash : codeExpires(h)) \/ (\E k \in Temp : tempKeyExpires(k))
    PROVE  Holds'
<1>1. sessions' = sessions /\ req' = req /\ using' = using /\ client' = client
  BY DEF codeExpires, tempKeyExpires
<1>2. \A s \in Session : using[s] \in Temp => tempKeys'[using[s]] = tempKeys[using[s]]
  BY DEF codeExpires, tempKeyExpires, Inv, Types, TypeOK
<1>3. \A s \in Session : ownKey(s)'
  BY <1>1, <1>2 DEF Holds, ownKey
<1>4. Distinct' /\ Alone' /\ Aimed'
  BY <1>1 DEF Holds, Distinct, Alone, Aimed
<1>5. \A p \in Perm : told(p)'
  BY <1>1 DEF Holds, told
<1> QED BY <1>3, <1>4, <1>5 DEF Holds

\* Every step keeps it.
LEMMA StepHolds ==
    ASSUME Inv, Holds, RotatesInTime, [Step]_vars
    PROVE  Holds'
<1>1. ASSUME NEW s \in Session, AnyRequest(s) \/ LoginRequest(s)
      PROVE  Holds'
  BY <1>1, ClientsAsk, AskHolds
<1>2. ASSUME NEW s \in Session, HandlerStep(s) \/ untracked(s) \/ unresolved(s) \/ fail(s)
      PROVE  Holds'
  BY <1>2, ResolveHolds, HandlerHolds, SendCodeHolds, BindHolds, BindTempHolds, EndHolds
     DEF HandlerStep
<1>3. CASE UNCHANGED vars
  BY <1>3 DEF vars, Holds, ownKey, Distinct, Alone, Aimed, told
<1> QED BY <1>1, <1>2, <1>3, RotateHolds, ExpiryHolds DEF Step

\* A client that was told it is logged in, and has no login or logout under way, is:
\* its permanent key is bound to that account, whichever temporary keys it has moved
\* on to and whatever failed meanwhile, provided it never uses one that has expired.
THEOREM LoginSurvives ==
    ASSUME RotatesInTime
    PROVE  Spec => []LoginHolds
<1>1. Init => Inv /\ Holds
  BY InitInv, InitHolds
<1>2. Inv /\ Holds /\ [Next]_vars => (Inv /\ Holds)'
  BY StepInv, StepHolds DEF Next, Step
<1>3. Inv /\ Holds => LoginHolds
  <2>1. ASSUME Inv, NEW s \in Session, req[s].pc \in {"bound", "unbound"}
        PROVE  req[s].op \in AuthOps
    BY <2>1 DEF Inv, requestOK, AuthOps
  <2> QED BY <2>1 DEF Holds, told, LoginHolds, settled
<1> QED BY <1>1, <1>2, <1>3, PTL DEF Spec
=============================================================================
