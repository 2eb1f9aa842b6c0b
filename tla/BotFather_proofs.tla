-------------------------- MODULE BotFather_proofs --------------------------
(***************************************************************************)
(* Proofs about BotFather, for any number of owners, goroutines, usernames *)
(* and accounts.                                                           *)
(***************************************************************************)
EXTENDS BotFather, WellFoundedInduction, TLAPS

-----------------------------------------------------------------------------
(* The inductive invariant *)

Op == {"none", "botfather", "username", "import"}
Engine == {"engine", "ask", "setName", "lookup", "create", "select", "setToken", "clear"}
PC == Engine \cup {"idle", "setUsername", "createBot"}

Request ==
    [op : Op, pc : PC, caller : Nat, text : Text \cup {NoName}, token : Token, target : Nat,
     alone : BOOLEAN]

Account == [username : Username \cup {NoName}, owner : 0..Humans, token : Token]

\* A token somebody may hold when s secrets were drawn: no later draw makes it again.
used(t, s) == t # NoToken /\ (t[1] = 0 \/ t[2] <= s)

\* A request r is where its operation can be, with n accounts and s secrets drawn.
requestOK(r, n, s) ==
    /\ r.caller \in 0..n /\ r.target \in 0..n
    /\ r.op = "botfather" => r.caller \in Human
    /\ r.pc \in Engine => r.op = "botfather"
    /\ r.pc \in {"lookup", "create"} => r.text \in Username
    /\ r.pc = "setToken" => r.target \in 1..n
    /\ r.pc = "setUsername" => r.text \in Username \cup {NoName}
    /\ r.pc = "createBot" => used(r.token, s)

Types ==
    /\ TypeOK
    /\ req \in [Handler -> Request]
    /\ secrets \in 0..MaxSecrets
    /\ Len(users) \in Humans..MaxAccounts

\* No two accounts hold a token, and each was drawn.
TokensOnce ==
    /\ \A i \in DOMAIN users : users[i].token = NoToken \/ used(users[i].token, secrets)
    /\ \A t \in retired : t = NoToken \/ used(t, secrets)
    /\ \A i, j \in DOMAIN users :
          users[i].token # NoToken /\ users[i].token = users[j].token => i = j

\* The account a token was ever used for holds it still, unless it was revoked.
LoginsKept ==
    \A x \in logins :
        x[1] # NoToken /\ (x[1] \notin retired => users[x[2]].token = x[1])

\* The stored step is the one the owner was told of, also while a message is handled.
Asked == \A u \in Human : talk[u] # "unclear" => botStates[u] = talk[u]

Inv ==
    /\ Types /\ UsernameOnce /\ TokensOnce /\ LoginsKept /\ Asked
    /\ \A h \in Handler : requestOK(req[h], Len(users), secrets)

\* No request is a request like any other.
LEMMA NoReqOK ==
    ASSUME NEW n \in Nat, NEW s
    PROVE  NoReq \in Request /\ requestOK(NoReq, n, s)
<1>1. NoToken \in Token
  BY BotFatherAssumption DEF NoToken, Token
<1>2. NoReq \in Request
  BY <1>1 DEF NoReq, Request, Op, PC
<1>3. requestOK(NoReq, n, s)
  BY DEF NoReq, requestOK, Engine
<1> QED BY <1>2, <1>3

\* More accounts and more secrets do not hurt a request.
LEMMA RequestOKGrows ==
    ASSUME NEW r, NEW n \in Nat, NEW s \in Nat, NEW m \in Nat, NEW z \in Nat, n <= m, s <= z,
           r.pc = "createBot" => r.token \in Token, requestOK(r, n, s)
    PROVE  requestOK(r, m, z)
<1>1. r.pc = "createBot" => used(r.token, z)
  BY DEF requestOK, used, Token
<1> QED BY <1>1 DEF requestOK

\* Only the humans have accounts.
LEMMA InitInv == Init => Inv
<1> SUFFICES ASSUME Init PROVE Inv
  OBVIOUS
<1>1. NoToken \in Token
  BY BotFatherAssumption DEF NoToken, Token
<1>2. /\ users \in [1..Humans -> Account] /\ Humans \in Nat
      /\ \A i \in 1..Humans : users[i].username = NoName /\ users[i].token = NoToken
  <2>1. Humans \in Nat /\ 0 \in 0..Humans
    BY BotFatherAssumption
  <2>2. [username |-> NoName, owner |-> 0, token |-> NoToken] \in Account
    BY <1>1, <2>1 DEF Account
  <2> QED BY <2>1, <2>2 DEF Init, Human
<1>3. users \in Seq(Account) /\ Len(users) = Humans /\ DOMAIN users = 1..Humans
  BY <1>2
<1>4. req \in [Handler -> Request] /\ \A h \in Handler : req[h] = NoReq
  BY NoReqOK DEF Init
<1>5. TypeOK
  <2>1. \A h \in Handler : req[h].caller \in 0..Len(users) /\ req[h].target \in 0..Len(users)
    BY <1>2, <1>3, <1>4 DEF NoReq
  <2>2. botStates \in [Human -> Step] /\ talk \in [Human -> Step \cup {"unclear"}]
    BY DEF Init, Step
  <2> QED BY <1>3, <2>1, <2>2 DEF Init, TypeOK, Account
<1>6. Types
  <2>1. Len(users) \in Humans..MaxAccounts
    BY <1>3, BotFatherAssumption
  <2>2. secrets = 0
    BY DEF Init
  <2>3. secrets \in 0..MaxSecrets
    BY <2>2, BotFatherAssumption
  <2> QED BY <1>4, <1>5, <2>1, <2>3 DEF Types
<1>7. UsernameOnce /\ TokensOnce /\ LoginsKept /\ Asked
  BY <1>2, <1>3 DEF Init, UsernameOnce, TokensOnce, LoginsKept, Asked
<1> QED BY <1>2, <1>3, <1>4, <1>6, <1>7, NoReqOK DEF Inv

-----------------------------------------------------------------------------
(* The dialogue *)

\* A request of h that goes on to r while the accounts stay as they are.
LEMMA MoveKeeps ==
    ASSUME Inv, NEW h \in Handler, NEW r \in Request, req' = [req EXCEPT ![h] = r],
           UNCHANGED <<users, secrets, retired, logins>>,
           requestOK(r, Len(users), secrets),
           botStates' \in [Human -> Step], talk' \in [Human -> Step \cup {"unclear"}], Asked'
    PROVE  Inv'
<1>1. req \in [Handler -> Request] /\ TypeOK
  BY DEF Inv, Types
<1>2. \A g \in Handler : requestOK(req'[g], Len(users), secrets)
  BY <1>1 DEF Inv
<1>3. TypeOK'
  <2>1. \A g \in Handler : req'[g].caller \in 0..Len(users) /\ req'[g].target \in 0..Len(users)
    BY <1>2 DEF requestOK
  <2> QED BY <1>1, <2>1 DEF TypeOK
<1>4. Types'
  BY <1>1, <1>3 DEF Inv, Types
<1>5. UsernameOnce' /\ TokensOnce' /\ LoginsKept'
  BY DEF Inv, UsernameOnce, TokensOnce, LoginsKept
<1> QED BY <1>2, <1>4, <1>5 DEF Inv

\* The parts of a request that goes on to another step.
LEMMA GotoMoves ==
    ASSUME Inv, NEW h \in Handler, NEW pc \in PC, goto(h, pc)
    PROVE  \E r \in Request :
              /\ req' = [req EXCEPT ![h] = r] /\ r.pc = pc
              /\ r.op = req[h].op /\ r.caller = req[h].caller /\ r.text = req[h].text
              /\ r.token = req[h].token /\ r.target = req[h].target
<1>1. req[h] \in Request
  BY DEF Inv, Types
<1> DEFINE r == [req[h] EXCEPT !.pc = pc]
<1>2. r \in Request
  BY <1>1 DEF Request
<1>3. /\ r.pc = pc /\ r.op = req[h].op /\ r.caller = req[h].caller /\ r.text = req[h].text
      /\ r.token = req[h].token /\ r.target = req[h].target
  BY <1>1 DEF Request
<1>4. req' = [req EXCEPT ![h] = r]
  BY DEF goto
<1> HIDE DEF r
<1> QED BY <1>2, <1>3, <1>4 DEF r

\* The engine goes on to another call.
LEMMA GotoKeeps ==
    ASSUME Inv, NEW h \in Handler, NEW pc \in Engine \ {"setToken"}, goto(h, pc),
           req[h].op = "botfather", pc \in {"lookup", "create"} => req[h].text \in Username,
           UNCHANGED <<users, botStates, secrets, retired, logins, talk>>
    PROVE  Inv'
<1>1. PICK r \in Request :
              /\ req' = [req EXCEPT ![h] = r] /\ r.pc = pc
              /\ r.op = req[h].op /\ r.caller = req[h].caller /\ r.text = req[h].text
              /\ r.token = req[h].token /\ r.target = req[h].target
  BY GotoMoves DEF PC
<1>2. requestOK(req[h], Len(users), secrets)
  BY DEF Inv
<1>3. requestOK(r, Len(users), secrets)
  BY <1>1, <1>2 DEF requestOK, Engine
<1>4. /\ botStates' \in [Human -> Step] /\ talk' \in [Human -> Step \cup {"unclear"}]
      /\ Asked'
  BY DEF Inv, Types, TypeOK, Asked
<1> QED BY <1>1, <1>3, <1>4, MoveKeeps

\* BotFather's words leave the owner at the step that is stored, or do not tell.
LEMMA ReplyKeeps ==
    ASSUME Inv, NEW h \in Handler, NEW step \in Step \cup {"same"}, reply(h, step),
           req[h].op = "botfather", UNCHANGED <<users, secrets, retired, logins>>,
           \/ step = "same" /\ botStates' = botStates
           \/ step \in Step /\ botStates' = [botStates EXCEPT ![req[h].caller] = step]
           \/ step = botStates[req[h].caller] /\ botStates' = botStates
    PROVE  Inv'
<1> DEFINE u == req[h].caller
<1>1. /\ u \in Human /\ botStates \in [Human -> Step] /\ Asked
      /\ talk \in [Human -> Step \cup {"unclear"}] /\ Len(users) \in Nat
  BY BotFatherAssumption DEF Inv, Types, TypeOK, requestOK
<1>2. \/ step = "same" /\ talk' = talk
      \/ step # "same" /\ talk' = [talk EXCEPT ![u] = step]
      \/ talk' = [talk EXCEPT ![u] = "unclear"]
  BY DEF reply
<1> HIDE DEF u
<1>3. botStates' \in [Human -> Step]
  BY <1>1 DEF u
<1>4. talk' \in [Human -> Step \cup {"unclear"}]
  BY <1>1, <1>2
<1>5. "same" \notin Step
  BY DEF Step
<1>6. Asked'
  BY <1>1, <1>2, <1>5 DEF Asked, u
<1>7. req' = [req EXCEPT ![h] = NoReq]
  BY DEF reply
<1> QED BY <1>1, <1>3, <1>4, <1>6, <1>7, NoReqOK, MoveKeeps

\* The engine gives up.
LEMMA GiveUpKeeps ==
    ASSUME Inv, NEW h \in Handler, giveUp(h), req[h].op = "botfather",
           UNCHANGED <<users, botStates, secrets, retired, logins>>
    PROVE  Inv'
<1>1. /\ req[h].caller \in Human /\ botStates \in [Human -> Step] /\ Asked
      /\ talk \in [Human -> Step \cup {"unclear"}] /\ Len(users) \in Nat
  BY BotFatherAssumption DEF Inv, Types, TypeOK, requestOK
<1>2. talk' = talk \/ talk' = [talk EXCEPT ![req[h].caller] = "unclear"]
  BY DEF giveUp
<1>3. talk' \in [Human -> Step \cup {"unclear"}] /\ Asked'
  BY <1>1, <1>2 DEF Asked
<1>4. req' = [req EXCEPT ![h] = NoReq]
  BY DEF giveUp
<1> QED BY <1>1, <1>3, <1>4, NoReqOK, MoveKeeps

\* A message is taken up: the requests of its owner that overlap are marked.
LEMMA SayKeeps ==
    ASSUME Inv, NEW h \in Handler, NEW u \in Human, NEW text \in Text, Say(h, u, text)
    PROVE  Inv'
<1>1. /\ UNCHANGED <<users, botStates, secrets, retired, logins>> /\ req' = received(h, u, text)
      /\ talk' = talk \/ talk' = [talk EXCEPT ![u] = "unclear"]
  BY DEF Say
<1>2. /\ req \in [Handler -> Request] /\ Asked /\ talk \in [Human -> Step \cup {"unclear"}]
      /\ Humans \in Nat /\ Len(users) \in Humans..MaxAccounts /\ MaxAccounts \in Nat
      /\ \A g \in Handler : requestOK(req[g], Len(users), secrets)
  BY BotFatherAssumption DEF Inv, Types, TypeOK
<1>3. ASSUME NEW g \in Handler
      PROVE  req'[g] \in Request /\ requestOK(req'[g], Len(users), secrets)
  <2>1. CASE g = h
    <3>h. h \notin busy(u)
      BY DEF Say, NoReq, busy
    <3>1. req'[g] = message(u, text)
      BY <1>1, <2>1, <3>h DEF received
    <3> DEFINE a == busy(u) = {}
               r == [NoReq EXCEPT !.op = "botfather", !.pc = "engine", !.caller = u,
                                  !.text = text, !.alone = a]
    <3>2. a \in BOOLEAN /\ message(u, text) = r
      BY DEF message
    <3> HIDE DEF a
    <3>3. NoReq \in Request /\ u \in 0..Len(users) /\ u \in Nat
      BY <1>2, NoReqOK DEF Human
    <3>4. /\ r \in Request /\ r.op = "botfather" /\ r.pc = "engine" /\ r.caller = u
          /\ r.target = 0
      BY <3>2, <3>3 DEF NoReq, Request, Op, PC, Engine
    <3>5. requestOK(r, Len(users), secrets)
      <4> HIDE DEF r
      <4>1. 0 \in 0..Len(users)
        BY <1>2
      <4> QED BY <3>3, <3>4, <4>1 DEF requestOK
    <3> QED BY <3>1, <3>2, <3>4, <3>5
  <2>2. CASE g # h /\ g \in busy(u)
    <3> DEFINE r == [req[g] EXCEPT !.alone = FALSE]
    <3>1. req'[g] = r
      BY <1>1, <2>2 DEF received
    <3>2. /\ r \in Request /\ r.op = req[g].op /\ r.pc = req[g].pc /\ r.caller = req[g].caller
          /\ r.text = req[g].text /\ r.token = req[g].token /\ r.target = req[g].target
      BY <1>2 DEF Request
    <3> HIDE DEF r
    <3>3. requestOK(r, Len(users), secrets)
      BY <1>2, <3>2 DEF requestOK
    <3> QED BY <3>1, <3>2, <3>3
  <2>3. CASE g # h /\ g \notin busy(u)
    BY <1>1, <1>2, <2>3 DEF received
  <2> QED BY <2>1, <2>2, <2>3
<1>4. req' \in [Handler -> Request]
  <2>1. DOMAIN req' = Handler /\ req' = [g \in Handler |-> req'[g]]
    BY <1>1 DEF received
  <2> QED BY <1>3, <2>1
<1>5. talk' \in [Human -> Step \cup {"unclear"}] /\ Asked'
  BY <1>1, <1>2 DEF Asked
<1>6. TypeOK'
  <2>1. \A g \in Handler : req'[g].caller \in 0..Len(users) /\ req'[g].target \in 0..Len(users)
    BY <1>3 DEF requestOK
  <2> QED BY <1>1, <1>5, <2>1 DEF Inv, Types, TypeOK
<1>7. Types' /\ UsernameOnce' /\ TokensOnce' /\ LoginsKept'
  BY <1>1, <1>4, <1>6 DEF Inv, Types, UsernameOnce, TokensOnce, LoginsKept
<1> QED BY <1>1, <1>3, <1>5, <1>7 DEF Inv

\* The steps of the dialogue that touch no account.
LEMMA EngineKeeps ==
    ASSUME Inv, NEW h \in Handler,
           botFatherCommand(h) \/ askRevoke(h) \/ botFatherEngine(h) \/ botFatherSetName(h)
           \/ botFatherCreate(h) \/ ClearBotFatherState(h) \/ engineFails(h)
    PROVE  Inv'
<1>1. UNCHANGED <<users, secrets, retired, logins>>
  BY DEF botFatherCommand, askRevoke, botFatherEngine, botFatherSetName, botFatherCreate,
         ClearBotFatherState, engineFails
<1>2. req[h].op = "botfather"
  <2>1. req[h].pc \in Engine \/ req[h].op = "botfather"
    BY DEF botFatherCommand, askRevoke, botFatherEngine, botFatherSetName, botFatherCreate,
           ClearBotFatherState, engineFails, Engine
  <2> QED BY <2>1 DEF Inv, requestOK
<1>3. requestOK(req[h], Len(users), secrets)
  BY DEF Inv
<1>4. CASE botFatherCommand(h)
  <2>1. \/ reply(h, "newbot_name") /\ botStates' = [botStates EXCEPT ![req[h].caller] = "newbot_name"]
        \/ reply(h, "same") /\ botStates' = botStates
        \/ reply(h, "") /\ botStates[req[h].caller] = "" /\ botStates' = botStates
        \/ goto(h, "ask") /\ botStates' = botStates /\ talk' = talk
        \/ goto(h, "clear") /\ botStates' = botStates /\ talk' = talk
    BY <1>4 DEF botFatherCommand, setState
  <2>2. CASE goto(h, "ask") /\ botStates' = botStates /\ talk' = talk
    BY <1>1, <1>2, <2>2, GotoKeeps DEF Engine
  <2>3. CASE goto(h, "clear") /\ botStates' = botStates /\ talk' = talk
    BY <1>1, <1>2, <2>3, GotoKeeps DEF Engine
  <2>4. CASE reply(h, "newbot_name") /\ botStates' = [botStates EXCEPT ![req[h].caller] = "newbot_name"]
    BY <1>1, <1>2, <2>4, ReplyKeeps DEF Step
  <2>5. CASE reply(h, "same") /\ botStates' = botStates
    BY <1>1, <1>2, <2>5, ReplyKeeps
  <2>6. CASE reply(h, "") /\ botStates[req[h].caller] = "" /\ botStates' = botStates
    BY <1>1, <1>2, <2>6, ReplyKeeps DEF Step
  <2> QED BY <2>1, <2>2, <2>3, <2>4, <2>5, <2>6
<1>5. CASE askRevoke(h) \/ botFatherSetName(h) \/ ClearBotFatherState(h)
  <2>1. PICK step \in Step :
            reply(h, step) /\ botStates' = [botStates EXCEPT ![req[h].caller] = step]
    BY <1>5 DEF askRevoke, botFatherSetName, ClearBotFatherState, setState, Step
  <2> QED BY <1>1, <1>2, <2>1, ReplyKeeps
<1>6. CASE botFatherEngine(h)
  <2>1. /\ botStates' = botStates
        /\ \/ reply(h, "same")
           \/ /\ talk' = talk
              /\ \/ goto(h, "setName") \/ goto(h, "select")
                 \/ goto(h, "lookup") /\ req[h].text \in Username
    BY <1>6 DEF botFatherEngine, onText, validBotUsername
  <2>2. CASE reply(h, "same")
    BY <1>1, <1>2, <2>1, <2>2, ReplyKeeps
  <2>3. CASE /\ talk' = talk
             /\ \/ goto(h, "setName") \/ goto(h, "select")
                \/ goto(h, "lookup") /\ req[h].text \in Username
    BY <1>1, <1>2, <2>1, <2>3, GotoKeeps DEF Engine
  <2> QED BY <2>1, <2>2, <2>3
<1>7. CASE botFatherCreate(h)
  <2>1. /\ botStates' = botStates /\ req[h].text \in Username
        /\ reply(h, "same") \/ (goto(h, "create") /\ talk' = talk)
    BY <1>3, <1>7 DEF botFatherCreate, requestOK
  <2>2. CASE reply(h, "same")
    BY <1>1, <1>2, <2>1, <2>2, ReplyKeeps
  <2>3. CASE goto(h, "create") /\ talk' = talk
    BY <1>1, <1>2, <2>1, <2>3, GotoKeeps DEF Engine
  <2> QED BY <2>1, <2>2, <2>3
<1>8. CASE engineFails(h)
  BY <1>1, <1>2, <1>8, GiveUpKeeps DEF engineFails
<1> QED BY <1>4, <1>5, <1>6, <1>7, <1>8

-----------------------------------------------------------------------------
(* The accounts *)

\* An account a is added whose username and token nobody has, and h is left with r.
LEMMA AppendKeeps ==
    ASSUME Inv, NEW h \in Handler, NEW r \in Request, req' = [req EXCEPT ![h] = r],
           NEW a \in Account, Len(users) < MaxAccounts, users' = Append(users, a),
           secrets' \in 0..MaxSecrets, secrets <= secrets',
           requestOK(r, Len(users) + 1, secrets'),
           UNCHANGED <<botStates, retired, talk>>,
           a.username = NoName \/ \A i \in DOMAIN users : users[i].username # a.username,
           used(a.token, secrets'), \A i \in DOMAIN users : users[i].token # a.token,
           \/ logins' = logins
           \/ logins' = logins \cup {<<a.token, Len(users) + 1>>}
    PROVE  Inv'
<1> DEFINE n == Len(users)
<1>1. /\ req \in [Handler -> Request] /\ users \in Seq(Account) /\ secrets \in Nat
      /\ secrets' \in Nat /\ n \in Humans..MaxAccounts /\ Humans \in Nat /\ MaxAccounts \in Nat
      /\ n \in Nat /\ MaxSecrets \in Nat
  BY BotFatherAssumption DEF Inv, Types, TypeOK, Account
<1>2. /\ users' \in Seq(Account) /\ Len(users') = n + 1 /\ DOMAIN users' = 1..(n + 1)
      /\ DOMAIN users = 1..n /\ users'[n + 1] = a /\ \A i \in 1..n : users'[i] = users[i]
  BY <1>1
<1>3. ASSUME NEW g \in Handler
      PROVE  requestOK(req'[g], n + 1, secrets')
  <2>1. requestOK(req[g], n, secrets) /\ req[g].token \in Token
    BY <1>1 DEF Inv, Request
  <2>2. requestOK(req[g], n + 1, secrets')
    BY <1>1, <2>1, RequestOKGrows
  <2> QED BY <1>1, <2>2
<1>4. TypeOK'
  <2>1. \A g \in Handler : req'[g].caller \in 0..(n + 1) /\ req'[g].target \in 0..(n + 1)
    BY <1>3 DEF requestOK
  <2>2. logins' \subseteq Token \X DOMAIN users'
    <3>1. a.token \in Token /\ n + 1 \in DOMAIN users' /\ DOMAIN users \subseteq DOMAIN users'
      BY <1>1, <1>2 DEF Account
    <3>2. logins \subseteq Token \X DOMAIN users
      BY DEF Inv, Types, TypeOK
    <3> QED BY <3>1, <3>2
  <2> QED BY <1>2, <2>1, <2>2 DEF Inv, Types, TypeOK, Account
<1>5. Types'
  <2>1. n + 1 \in Humans..MaxAccounts
    BY <1>1
  <2> QED BY <1>1, <1>2, <1>4, <2>1 DEF Types
<1>6. UsernameOnce'
  <2>1. ASSUME NEW i \in DOMAIN users', NEW j \in DOMAIN users', users'[i].username # NoName,
               users'[i].username = users'[j].username
        PROVE  i = j
    <3>1. CASE i \in 1..n /\ j \in 1..n
      BY <1>2, <2>1, <3>1 DEF Inv, UsernameOnce
    <3>2. CASE i = n + 1 \/ j = n + 1
      BY <1>1, <1>2, <2>1, <3>2
    <3> QED BY <1>1, <1>2, <3>1, <3>2
  <2> QED BY <2>1 DEF UsernameOnce
<1>7. TokensOnce'
  <2>1. ASSUME NEW t \in Token, used(t, secrets)
        PROVE  used(t, secrets')
    BY <1>1, <2>1 DEF used, Token
  <2>2. \A i \in DOMAIN users' : users'[i].token = NoToken \/ used(users'[i].token, secrets')
    <3>1. ASSUME NEW i \in 1..n
          PROVE  users[i].token = NoToken \/ used(users[i].token, secrets')
      <4>0. users[i] \in Account
        BY <1>1, <1>2
      <4>1. users[i].token \in Token
        BY <4>0 DEF Account
      <4>2. users[i].token = NoToken \/ used(users[i].token, secrets)
        BY <1>2 DEF Inv, TokensOnce
      <4> QED BY <2>1, <4>1, <4>2
    <3> QED BY <1>1, <1>2, <3>1
  <2>3. \A t \in retired' : t = NoToken \/ used(t, secrets')
    BY <2>1 DEF Inv, TokensOnce, Types, TypeOK
  <2>4. ASSUME NEW i \in DOMAIN users', NEW j \in DOMAIN users', users'[i].token # NoToken,
               users'[i].token = users'[j].token
        PROVE  i = j
    <3>1. CASE i \in 1..n /\ j \in 1..n
      BY <1>2, <2>4, <3>1 DEF Inv, TokensOnce
    <3>2. CASE i = n + 1 \/ j = n + 1
      BY <1>1, <1>2, <2>4, <3>2
    <3> QED BY <1>1, <1>2, <3>1, <3>2
  <2> QED BY <2>2, <2>3, <2>4 DEF TokensOnce
<1>8. LoginsKept'
  <2>1. ASSUME NEW x \in logins'
        PROVE  x[1] # NoToken /\ (x[1] \notin retired' => users'[x[2]].token = x[1])
    <3>1. CASE x \in logins
      <4>1. x[2] \in DOMAIN users
        BY <3>1 DEF Inv, Types, TypeOK
      <4> QED BY <1>2, <3>1, <4>1 DEF Inv, LoginsKept
    <3>2. CASE x = <<a.token, n + 1>>
      BY <1>2, <3>2 DEF used
    <3> QED BY <3>1, <3>2
  <2> QED BY <2>1 DEF LoginsKept
<1>9. Asked'
  BY DEF Inv, Asked
<1> QED BY <1>2, <1>3, <1>5, <1>6, <1>7, <1>8, <1>9 DEF Inv

\* A new token is not one that is or was in use.
LEMMA FreshToken ==
    ASSUME Inv, secrets < MaxSecrets, NEW b \in 1..MaxAccounts
    PROVE  /\ <<b, secrets + 1>> \in Token /\ used(<<b, secrets + 1>>, secrets + 1)
           /\ \A i \in DOMAIN users : users[i].token # <<b, secrets + 1>>
           /\ <<b, secrets + 1>> \notin retired
<1>1. /\ secrets \in Nat /\ secrets + 1 \in 0..(MaxSecrets + 1) /\ b \in 0..MaxAccounts
      /\ MaxAccounts \in Nat
  BY BotFatherAssumption DEF Inv, Types
<1>2. <<b, secrets + 1>> # NoToken
  BY DEF NoToken
<1>3. ~used(<<b, secrets + 1>>, secrets)
  BY <1>1 DEF used
<1>4. /\ \A i \in DOMAIN users : users[i].token # <<b, secrets + 1>>
      /\ <<b, secrets + 1>> \notin retired
  BY <1>2, <1>3 DEF Inv, TokensOnce
<1> QED BY <1>1, <1>2, <1>4 DEF Token, used

\* A bot is created for its owner, unless its username was taken meanwhile.
LEMMA CreateOwnedBotKeeps ==
    ASSUME Inv, NEW h \in Handler, CreateOwnedBot(h)
    PROVE  Inv'
<1> DEFINE n == Len(users)
<1>1. /\ req[h].pc = "create" /\ req[h].op = "botfather" /\ req[h].caller \in Human
      /\ req[h].text \in Username /\ requestOK(req[h], n, secrets)
  BY DEF CreateOwnedBot, Inv, requestOK, Engine
<1>2. UNCHANGED <<botStates, retired, logins>>
  BY DEF CreateOwnedBot
<1>3. CASE usernameTaken(req[h].text, n + 1)
  <2>1. giveUp(h) /\ UNCHANGED <<users, secrets>>
    BY <1>3 DEF CreateOwnedBot
  <2> QED BY <1>1, <1>2, <2>1, GiveUpKeeps
<1>4. CASE ~usernameTaken(req[h].text, n + 1)
  <2> DEFINE t == <<n + 1, secrets + 1>>
             a == [username |-> req[h].text, owner |-> req[h].caller, token |-> t]
  <2>1. /\ n < MaxAccounts /\ secrets < MaxSecrets /\ secrets' = secrets + 1
        /\ users' = Append(users, a) /\ goto(h, "clear") /\ talk' = talk
    BY <1>4 DEF CreateOwnedBot
  <2>2. /\ n \in Nat /\ secrets \in Nat /\ users \in Seq(Account) /\ DOMAIN users = 1..n
        /\ MaxAccounts \in Nat /\ MaxSecrets \in Nat /\ n + 1 \in 1..MaxAccounts
    BY <2>1, BotFatherAssumption DEF Inv, Types, TypeOK, Account
  <2>3. /\ t \in Token /\ used(t, secrets + 1) /\ \A i \in DOMAIN users : users[i].token # t
    BY <2>1, <2>2, FreshToken
  <2> HIDE DEF t
  <2>4. a \in Account /\ a.username = req[h].text /\ a.token = t
    BY <1>1, <2>3 DEF Account, Human
  <2> HIDE DEF a
  <2>5. \A i \in DOMAIN users : users[i].username # req[h].text
    BY <1>1, <1>4, <2>2, BotFatherAssumption DEF usernameTaken, withUsername
  <2>6. PICK r \in Request :
              /\ req' = [req EXCEPT ![h] = r] /\ r.pc = "clear"
              /\ r.op = req[h].op /\ r.caller = req[h].caller /\ r.text = req[h].text
              /\ r.token = req[h].token /\ r.target = req[h].target
    BY <2>1, GotoMoves DEF PC, Engine
  <2>7. requestOK(r, n + 1, secrets')
    BY <1>1, <2>2, <2>6 DEF requestOK, Engine
  <2>8. secrets' \in 0..MaxSecrets /\ secrets <= secrets'
    BY <2>1, <2>2
  <2> QED BY <1>2, <2>1, <2>3, <2>4, <2>5, <2>6, <2>7, <2>8, AppendKeeps
<1> QED BY <1>3, <1>4

\* A bot is made for a token nobody holds by then.
LEMMA CreateBotKeeps ==
    ASSUME Inv, NEW h \in Handler, CreateBot(h)
    PROVE  Inv'
<1> DEFINE n == Len(users)
           t == req[h].token
<1>1. /\ req' = [req EXCEPT ![h] = NoReq] /\ UNCHANGED <<botStates, secrets, retired, talk>>
      /\ req[h].pc = "createBot"
  BY DEF CreateBot
<1>2. /\ n \in Nat /\ n + 1 \in Nat /\ secrets \in 0..MaxSecrets /\ secrets \in Nat
      /\ req[h] \in Request /\ Humans \in Nat
      /\ botStates \in [Human -> Step] /\ talk \in [Human -> Step \cup {"unclear"}] /\ Asked
  BY BotFatherAssumption DEF Inv, Types, TypeOK
<1>3. used(t, secrets) /\ t \in Token
  BY <1>1, <1>2 DEF Inv, requestOK, Request
<1>4. CASE tokenTaken(t)
  <2>1. UNCHANGED <<users, logins>>
    BY <1>4 DEF CreateBot
  <2>2. Asked'
    BY <1>1, <1>2 DEF Asked
  <2> QED BY <1>1, <1>2, <2>1, <2>2, NoReqOK, MoveKeeps
<1>5. CASE ~tokenTaken(t)
  <2> DEFINE a == [username |-> NoName, owner |-> 0, token |-> t]
  <2>1. /\ n < MaxAccounts /\ users' = Append(users, a) /\ logins' = logins \cup {<<t, n + 1>>}
    BY <1>5 DEF CreateBot
  <2>2. a \in Account /\ a.username = NoName /\ a.token = t
    BY <1>2, <1>3 DEF Account
  <2> HIDE DEF a
  <2>3. \A i \in DOMAIN users : users[i].token # t
    BY <1>5 DEF tokenTaken, BotByToken
  <2>4. secrets <= secrets' /\ secrets' \in 0..MaxSecrets
    BY <1>1, <1>2
  <2>5. NoReq \in Request /\ requestOK(NoReq, n + 1, secrets')
    BY <1>2, NoReqOK
  <2> QED BY <1>1, <1>3, <2>1, <2>2, <2>3, <2>4, <2>5, AppendKeeps
<1> QED BY <1>4, <1>5

\* A change of one account's username or token, after which h is left with r.
LEMMA ChangeKeeps ==
    ASSUME Inv, NEW h \in Handler, NEW r \in Request, req' = [req EXCEPT ![h] = r],
           NEW b \in DOMAIN users, NEW a \in Account, users' = [users EXCEPT ![b] = a],
           secrets' \in 0..MaxSecrets, secrets <= secrets',
           requestOK(r, Len(users), secrets'),
           UNCHANGED <<botStates, logins, talk>>, retired' \subseteq Token,
           \/ a.username = NoName \/ a.username = users[b].username
           \/ \A i \in DOMAIN users \ {b} : users[i].username # a.username,
           \/ a.token = users[b].token /\ retired' = retired
           \/ /\ used(a.token, secrets') /\ \A i \in DOMAIN users : users[i].token # a.token
              /\ retired' = retired \cup {users[b].token}
    PROVE  Inv'
<1> DEFINE n == Len(users)
<1>1. /\ req \in [Handler -> Request] /\ users \in Seq(Account) /\ secrets \in Nat
      /\ secrets' \in Nat /\ n \in Nat /\ n \in Humans..MaxAccounts
  BY BotFatherAssumption DEF Inv, Types, TypeOK, Account
<1>2. /\ users' \in Seq(Account) /\ Len(users') = n /\ DOMAIN users' = DOMAIN users
      /\ users'[b] = a /\ \A i \in DOMAIN users \ {b} : users'[i] = users[i]
  BY <1>1
<1>3. ASSUME NEW g \in Handler
      PROVE  requestOK(req'[g], n, secrets')
  <2>1. requestOK(req[g], n, secrets) /\ req[g].token \in Token
    BY <1>1 DEF Inv, Request
  <2>2. requestOK(req[g], n, secrets')
    BY <1>1, <2>1, RequestOKGrows
  <2> QED BY <1>1, <2>2
<1>4. TypeOK'
  <2>1. \A g \in Handler : req'[g].caller \in 0..n /\ req'[g].target \in 0..n
    BY <1>3 DEF requestOK
  <2> QED BY <1>2, <2>1 DEF Inv, Types, TypeOK, Account
<1>5. Types'
  BY <1>1, <1>2, <1>4 DEF Types
<1>6. UsernameOnce'
  <2>1. ASSUME NEW i \in DOMAIN users, NEW j \in DOMAIN users, users'[i].username # NoName,
               users'[i].username = users'[j].username
        PROVE  i = j
    <3>1. CASE i # b /\ j # b
      BY <1>2, <2>1, <3>1 DEF Inv, UsernameOnce
    <3>2. CASE i = b \/ j = b
      BY <1>2, <2>1, <3>2 DEF Inv, UsernameOnce
    <3> QED BY <3>1, <3>2
  <2> QED BY <1>2, <2>1 DEF UsernameOnce
<1>7. TokensOnce'
  <2>1. ASSUME NEW t \in Token, t = NoToken \/ used(t, secrets)
        PROVE  t = NoToken \/ used(t, secrets')
    BY <1>1, <2>1 DEF used, Token
  <2>2. ASSUME NEW i \in DOMAIN users
        PROVE  users[i].token = NoToken \/ used(users[i].token, secrets')
    <3>1. users[i] \in Account
      BY <1>1
    <3>2. users[i].token \in Token
      BY <3>1 DEF Account
    <3> QED BY <2>1, <3>2 DEF Inv, TokensOnce
  <2>3. \A i \in DOMAIN users' : users'[i].token = NoToken \/ used(users'[i].token, secrets')
    BY <1>2, <2>2
  <2>4. \A t \in retired' : t = NoToken \/ used(t, secrets')
    BY <2>1, <2>2 DEF Inv, TokensOnce, Types, TypeOK
  <2>5. ASSUME NEW i \in DOMAIN users, NEW j \in DOMAIN users, users'[i].token # NoToken,
               users'[i].token = users'[j].token
        PROVE  i = j
    <3>1. CASE i # b /\ j # b
      BY <1>2, <2>5, <3>1 DEF Inv, TokensOnce
    <3>2. CASE i = b \/ j = b
      BY <1>2, <2>5, <3>2 DEF Inv, TokensOnce
    <3> QED BY <3>1, <3>2
  <2> QED BY <1>2, <2>3, <2>4, <2>5 DEF TokensOnce
<1>8. LoginsKept'
  <2>1. ASSUME NEW x \in logins
        PROVE  x[1] # NoToken /\ (x[1] \notin retired' => users'[x[2]].token = x[1])
    <3>1. /\ x[2] \in DOMAIN users /\ x[1] # NoToken
          /\ x[1] \notin retired => users[x[2]].token = x[1]
      BY DEF Inv, Types, TypeOK, LoginsKept
    <3>2. CASE x[2] = b
      BY <1>2, <3>1, <3>2
    <3>3. CASE x[2] # b
      BY <1>2, <3>1, <3>3
    <3> QED BY <3>2, <3>3
  <2> QED BY <2>1 DEF LoginsKept
<1>9. Asked'
  BY DEF Inv, Asked
<1> QED BY <1>2, <1>3, <1>5, <1>6, <1>7, <1>8, <1>9 DEF Inv

\* A bot gets a new token, and its old one is out of use.
LEMMA SetBotTokenKeeps ==
    ASSUME Inv, NEW h \in Handler, SetBotToken(h)
    PROVE  Inv'
<1> DEFINE n == Len(users)
           b == req[h].target
           t == <<b, secrets + 1>>
           a == [users[b] EXCEPT !.token = t]
<1>1. /\ req[h].pc = "setToken" /\ secrets < MaxSecrets /\ secrets' = secrets + 1
      /\ users' = [users EXCEPT ![b].token = <<b, secrets'>>] /\ goto(h, "clear")
      /\ retired' = retired \cup {users[b].token} /\ UNCHANGED <<botStates, logins, talk>>
  BY DEF SetBotToken
<1>2. /\ n \in Nat /\ secrets \in Nat /\ users \in Seq(Account) /\ DOMAIN users = 1..n
      /\ MaxAccounts \in Nat /\ MaxSecrets \in Nat /\ n <= MaxAccounts
      /\ requestOK(req[h], n, secrets) /\ retired \subseteq Token
  BY BotFatherAssumption DEF Inv, Types, TypeOK, Account
<1>3. b \in DOMAIN users /\ b \in 1..MaxAccounts /\ users[b] \in Account
  BY <1>1, <1>2 DEF requestOK
<1>4. t \in Token /\ used(t, secrets + 1) /\ \A i \in DOMAIN users : users[i].token # t
  BY <1>1, <1>3, FreshToken
<1>5. users' = [users EXCEPT ![b] = a]
  BY <1>1
<1> HIDE DEF t, b
<1>6. a \in Account /\ a.username = users[b].username /\ a.token = t
  BY <1>3, <1>4 DEF Account
<1> HIDE DEF a
<1>7. retired' \subseteq Token
  BY <1>1, <1>2, <1>3 DEF Account, b
<1>8. PICK r \in Request :
              /\ req' = [req EXCEPT ![h] = r] /\ r.pc = "clear"
              /\ r.op = req[h].op /\ r.caller = req[h].caller /\ r.text = req[h].text
              /\ r.token = req[h].token /\ r.target = req[h].target
  BY <1>1, GotoMoves DEF PC, Engine
<1>9. requestOK(r, n, secrets')
  BY <1>1, <1>2, <1>8 DEF requestOK, Engine
<1>10. secrets' \in 0..MaxSecrets /\ secrets <= secrets'
  BY <1>1, <1>2
<1>11. retired' = retired \cup {users[b].token} /\ used(a.token, secrets')
       /\ \A i \in DOMAIN users : users[i].token # a.token
  BY <1>1, <1>4, <1>6 DEF b
<1> QED BY <1>1, <1>3, <1>5, <1>6, <1>7, <1>8, <1>9, <1>10, <1>11, ChangeKeeps

\* A username is set, unless it was taken meanwhile.
LEMMA SetUsernameKeeps ==
    ASSUME Inv, NEW h \in Handler, SetUsername(h)
    PROVE  Inv'
<1> DEFINE b == req[h].caller
<1>1. /\ req[h].pc = "setUsername" /\ req' = [req EXCEPT ![h] = NoReq]
      /\ UNCHANGED <<botStates, secrets, retired, logins, talk>>
  BY DEF SetUsername
<1>2. /\ Len(users) \in Nat /\ secrets \in 0..MaxSecrets /\ users \in Seq(Account)
      /\ secrets \in Nat
      /\ req[h].text \in Username \cup {NoName} /\ retired \subseteq Token
      /\ botStates \in [Human -> Step] /\ talk \in [Human -> Step \cup {"unclear"}] /\ Asked
  BY <1>1, BotFatherAssumption DEF Inv, Types, TypeOK, Account, requestOK
<1>3. NoReq \in Request /\ requestOK(NoReq, Len(users), secrets)
  BY <1>2, NoReqOK
<1>4. CASE users' = users
  <2>1. Asked'
    BY <1>1, <1>2 DEF Asked
  <2> QED BY <1>1, <1>2, <1>3, <1>4, <2>1, MoveKeeps
<1>5. CASE users' # users
  <2> DEFINE a == [users[b] EXCEPT !.username = req[h].text]
  <2>1. ~usernameTaken(req[h].text, b) /\ users' = [users EXCEPT ![b] = a]
    BY <1>5 DEF SetUsername
  <2>2. b \in DOMAIN users /\ users[b] \in Account
    BY <1>2, <1>5, <2>1
  <2>3. a \in Account /\ a.username = req[h].text /\ a.token = users[b].token
    BY <1>2, <2>2 DEF Account
  <2>4. \/ req[h].text = NoName
        \/ \A i \in DOMAIN users \ {b} : users[i].username # req[h].text
    BY <2>1 DEF usernameTaken, withUsername
  <2> HIDE DEF a, b
  <2>5. /\ secrets' \in 0..MaxSecrets /\ secrets <= secrets' /\ retired' = retired
        /\ requestOK(NoReq, Len(users), secrets')
    BY <1>1, <1>2, <1>3
  <2> QED BY <1>1, <1>2, <1>3, <2>1, <2>2, <2>3, <2>4, <2>5, ChangeKeeps
<1> QED BY <1>4, <1>5

\* A set of account ids has a smallest one: the oldest account.
LEMMA OldestExists ==
    ASSUME NEW T \in SUBSET Nat, T # {}
    PROVE  \E b \in T : \A j \in T : b <= j
<1> DEFINE R == OpToRel(<, Nat)
<1>1. IsWellFoundedOn(R, Nat)
  BY NatLessThanWellFounded
<1>2. PICK b \in T : \A j \in T : ~(<<j, b>> \in R)
  <2> HIDE DEF R
  <2> QED BY <1>1, WFMin
<1>3. ASSUME NEW j \in T
      PROVE  b <= j
  <2>1. j \in Nat /\ b \in Nat
    OBVIOUS
  <2>2. ~(j < b)
    BY <1>2, <2>1 DEF OpToRel
  <2> QED BY <2>1, <2>2
<1> QED BY <1>3

\* The bot to revoke is one of the owner's.
LEMMA RevokeKeeps ==
    ASSUME Inv, NEW h \in Handler, botFatherRevoke(h)
    PROVE  Inv'
<1> DEFINE T == {i \in BotsByOwner(req[h].caller) :
                    /\ req[h].text \in Username /\ users[i].username \in Username
                    /\ fold[users[i].username] = fold[req[h].text]}
<1>1. /\ UNCHANGED <<users, botStates, secrets, retired, logins>> /\ req[h].pc = "select"
      /\ \/ T = {} /\ reply(h, "same")
         \/ /\ T # {} /\ talk' = talk
            /\ req' = [req EXCEPT ![h].pc = "setToken",
                                  ![h].target = CHOOSE i \in T : \A j \in T : i <= j]
  BY DEF botFatherRevoke
<1>2. /\ req[h].op = "botfather" /\ requestOK(req[h], Len(users), secrets)
      /\ req[h] \in Request
  BY <1>1 DEF Inv, Types, requestOK, Engine
<1>3. CASE T = {} /\ reply(h, "same")
  BY <1>1, <1>2, <1>3, ReplyKeeps
<1>4. CASE T # {} /\ talk' = talk
  <2>1. T \subseteq 1..Len(users) /\ Len(users) \in Nat /\ T \subseteq Nat
    BY DEF BotsByOwner, Inv, Types, TypeOK
  <2> HIDE DEF T
  <2>2. PICK b \in T : \A j \in T : b <= j
    BY <1>4, <2>1, OldestExists
  <2>3. (CHOOSE i \in T : \A j \in T : i <= j) \in T
    BY <2>2
  <2> DEFINE c == CHOOSE i \in T : \A j \in T : i <= j
             r == [req[h] EXCEPT !.pc = "setToken", !.target = c]
  <2>4. req' = [req EXCEPT ![h] = r]
    BY <1>1, <1>4
  <2>5. c \in 1..Len(users) /\ c \in Nat
    BY <2>1, <2>3
  <2> HIDE DEF c
  <2>6. /\ r \in Request /\ r.op = "botfather" /\ r.pc = "setToken" /\ r.target = c
        /\ r.caller = req[h].caller
    BY <1>2, <2>5 DEF Request, PC, Engine
  <2> HIDE DEF r
  <2>7. requestOK(r, Len(users), secrets)
    BY <1>2, <2>1, <2>5, <2>6 DEF requestOK
  <2>8. /\ botStates' \in [Human -> Step] /\ talk' \in [Human -> Step \cup {"unclear"}]
        /\ Asked'
    BY <1>1, <1>4 DEF Inv, Types, TypeOK, Asked
  <2> QED BY <1>1, <2>4, <2>6, <2>7, <2>8, MoveKeeps
<1> QED BY <1>1, <1>3, <1>4

\* A username is asked for.
LEMMA UpdateUsernameKeeps ==
    ASSUME Inv, NEW h \in Handler, NEW i \in DOMAIN users, NEW n \in Username \cup {NoName},
           accountUpdateUsername(h, i, n)
    PROVE  Inv'
<1> DEFINE r == [NoReq EXCEPT !.op = "username", !.pc = "setUsername", !.caller = i, !.text = n]
<1>1. req' = [req EXCEPT ![h] = r]
  BY DEF accountUpdateUsername
<1>2. UNCHANGED <<users, botStates, secrets, retired, logins, talk>>
  BY DEF accountUpdateUsername
<1>u. users \in Seq(Account)
  BY DEF Inv, Types, TypeOK, Account
<1>3. Len(users) \in Nat /\ i \in 0..Len(users) /\ i \in Nat /\ NoReq \in Request
  <2>1. Len(users) \in Nat /\ i \in 1..Len(users)
    BY <1>u
  <2> QED BY <2>1, NoReqOK
<1>4. /\ r \in Request /\ r.op = "username" /\ r.pc = "setUsername" /\ r.caller = i
      /\ r.text = n /\ r.target = 0
  BY <1>3 DEF NoReq, Request, Op, PC, Text
<1> HIDE DEF r
<1>5. requestOK(r, Len(users), secrets)
  BY <1>3, <1>4 DEF requestOK, Engine
<1>6. /\ botStates' \in [Human -> Step] /\ talk' \in [Human -> Step \cup {"unclear"}]
      /\ Asked'
  BY <1>2 DEF Inv, Types, TypeOK, Asked
<1> QED BY <1>1, <1>2, <1>4, <1>5, <1>6, MoveKeeps

\* A login by token: the bot that holds it, or a bot to be made.
LEMMA ImportKeeps ==
    ASSUME Inv, NEW h \in Handler, NEW t \in known, authImportBotAuthorization(h, t)
    PROVE  Inv'
<1>1. UNCHANGED <<users, botStates, secrets, retired, talk>>
  BY DEF authImportBotAuthorization
<1>2. t \in Token /\ used(t, secrets)
  <2>1. t # NoToken /\ (t = Foreign \/ t \in retired \/ \E i \in DOMAIN users : t = users[i].token)
    BY DEF known
  <2>2. CASE t = Foreign
    BY <2>1, <2>2, BotFatherAssumption DEF Foreign, Token, used
  <2>3. CASE t \in retired
    BY <2>1, <2>3 DEF Inv, Types, TypeOK, TokensOnce
  <2>4. CASE \E i \in DOMAIN users : t = users[i].token
    <3>1. PICK i \in DOMAIN users : t = users[i].token
      BY <2>4
    <3>2. users \in Seq(Account)
      BY DEF Inv, Types, TypeOK, Account
    <3>3. users[i] \in Account
      BY <3>2
    <3>4. t \in Token
      BY <3>1, <3>3 DEF Account
    <3> QED BY <2>1, <3>1, <3>4 DEF Inv, TokensOnce
  <2> QED BY <2>1, <2>2, <2>3, <2>4
<1>3. CASE req' = req
  <2>1. logins' = logins \cup {<<t, i>> : i \in BotByToken(t)} \/ logins' = logins
    BY DEF authImportBotAuthorization
  <2>2. logins' \subseteq Token \X DOMAIN users
    BY <1>2, <2>1 DEF BotByToken, Inv, Types, TypeOK
  <2>3. LoginsKept'
    BY <1>1, <1>2, <2>1 DEF Inv, LoginsKept, BotByToken, used
  <2>4. Types'
    BY <1>1, <1>3, <2>2 DEF Inv, Types, TypeOK
  <2>5. UsernameOnce' /\ TokensOnce' /\ Asked'
    BY <1>1 DEF Inv, UsernameOnce, TokensOnce, Asked
  <2> QED BY <1>1, <1>3, <2>3, <2>4, <2>5 DEF Inv
<1>4. CASE req' # req
  <2> DEFINE r == [NoReq EXCEPT !.op = "import", !.pc = "createBot", !.token = t]
  <2>1. req' = [req EXCEPT ![h] = r] /\ logins' = logins
    BY <1>4 DEF authImportBotAuthorization
  <2>2. Len(users) \in Nat /\ 0 \in 0..Len(users)
    BY DEF Inv, Types, TypeOK
  <2>3. NoReq \in Request
    BY <2>2, NoReqOK
  <2>4. /\ r \in Request /\ r.op = "import" /\ r.pc = "createBot" /\ r.token = t
        /\ r.caller = 0 /\ r.target = 0
    BY <1>2, <2>3 DEF NoReq, Request, Op, PC
  <2> HIDE DEF r
  <2>5. requestOK(r, Len(users), secrets)
    BY <1>2, <2>2, <2>4 DEF requestOK, Engine
  <2>6. /\ botStates' \in [Human -> Step] /\ talk' \in [Human -> Step \cup {"unclear"}]
        /\ Asked'
    BY <1>1 DEF Inv, Types, TypeOK, Asked
  <2> QED BY <1>1, <2>1, <2>4, <2>5, <2>6, MoveKeeps
<1> QED BY <1>3, <1>4

-----------------------------------------------------------------------------
(* The theorems *)

\* The invariant holds in every reachable state.
THEOREM BotsHold == Spec => []Inv
<1>1. Init => Inv
  BY InitInv
<1>2. Inv /\ [Next]_vars => Inv'
  <2> SUFFICES ASSUME Inv, [Next]_vars PROVE Inv'
    OBVIOUS
  <2>1. CASE Next
    <3>1. PICK h \in Handler :
        \/ \E u \in Human, text \in Text : Say(h, u, text)
        \/ botFatherCommand(h) \/ askRevoke(h) \/ botFatherEngine(h) \/ botFatherSetName(h)
        \/ botFatherCreate(h) \/ CreateOwnedBot(h) \/ botFatherRevoke(h) \/ SetBotToken(h)
        \/ ClearBotFatherState(h) \/ engineFails(h)
        \/ \E i \in DOMAIN users, n \in Username \cup {NoName} : accountUpdateUsername(h, i, n)
        \/ SetUsername(h)
        \/ \E t \in known : authImportBotAuthorization(h, t)
        \/ CreateBot(h)
      BY <2>1 DEF Next
    <3> QED BY <3>1, SayKeeps, EngineKeeps, CreateOwnedBotKeeps, RevokeKeeps, SetBotTokenKeeps,
               UpdateUsernameKeeps, SetUsernameKeeps, ImportKeeps, CreateBotKeeps
  <2>2. CASE UNCHANGED vars
    BY <2>2 DEF vars, Inv, Types, TypeOK, UsernameOnce, TokensOnce, LoginsKept, Asked
  <2> QED BY <2>1, <2>2
<1> QED BY <1>1, <1>2, PTL DEF Spec

\* The variables hold values of their types in every reachable state.
THEOREM TypeCorrect == Spec => []TypeOK
<1>1. Inv => TypeOK
  BY DEF Inv, Types
<1> QED BY <1>1, BotsHold, PTL

\* No two accounts ever have the same username, although BotFather and
\* account.updateUsername look it up and take it in separate calls: the store's own
\* check is enough.
THEOREM UsernamesUnique == Spec => []UsernameOnce
<1>1. Inv => UsernameOnce
  BY DEF Inv
<1> QED BY <1>1, BotsHold, PTL

\* Logins by one token are logins to one account until the token is revoked, although
\* a login looks the bot up and creates it in separate calls.
THEOREM TokensReuse == Spec => []LoginsReuseAccount
<1>1. Inv => LoginsReuseAccount
  <2> SUFFICES ASSUME Inv, NEW x \in logins, NEW y \in logins, x[1] = y[1], x[1] \notin retired
               PROVE  x[2] = y[2]
    BY DEF LoginsReuseAccount
  <2>1. x[2] \in DOMAIN users /\ y[2] \in DOMAIN users
    BY DEF Inv, Types, TypeOK
  <2>2. x[1] # NoToken /\ users[x[2]].token = x[1] /\ users[y[2]].token = x[1]
    BY DEF Inv, LoginsKept
  <2> QED BY <2>1, <2>2 DEF Inv, TokensOnce
<1> QED BY <1>1, BotsHold, PTL

\* The stored step is the question the owner was last asked, whichever call failed.
THEOREM StepsStored == Spec => []AskedIsStored
<1>1. Inv => AskedIsStored
  BY DEF Inv, Asked, AskedIsStored
<1> QED BY <1>1, BotsHold, PTL
=============================================================================
