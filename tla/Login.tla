------------------------------- MODULE Login -------------------------------
(***************************************************************************)
(* Who is logged in: the auth.* handlers of internal/rpc/auth.go, the      *)
(* resolution of a request's auth key to an account (convert.go), the      *)
(* session registry's tracking (handler.go) and the tables of both stores  *)
(* behind them: accounts, login codes, sessions and temporary keys.        *)
(*                                                                         *)
(* A session handles one request at a time; requests of different sessions *)
(* interleave between any two calls of the store.  A client is known by    *)
(* its permanent key, may have several sessions, and may use temporary     *)
(* keys it binds to the permanent one.  An account is named by its phone   *)
(* number or bot token; a code is right or wrong.  The clients are         *)
(* external.                                                               *)
(***************************************************************************)
EXTENDS Integers, FiniteSets

CONSTANTS
    Session,        \* MTProto sessions
    Perm,           \* permanent auth keys: the clients
    Temp,           \* temporary auth keys; each belongs to the first session to use it
    permOf,         \* permOf[s]: the client session s belongs to
    Phone, Token,   \* what names an account of a user and of a bot
    Hash,           \* code hashes: bounds the codes ever issued
    None,           \* no key, account or hash
    RotatesInTime   \* TRUE: no client uses a temporary key after it expires

Account == Phone \cup Token
Key == Perm \cup Temp

ASSUME LoginAssumption ==
    /\ permOf \in [Session -> Perm]
    /\ RotatesInTime \in BOOLEAN
    /\ Perm \cap Temp = {} /\ Phone \cap Token = {}
    /\ None \notin Key \cup Account \cup Hash \cup Session

VARIABLES
    created,   \* created[a]: rows of the users table with that phone or token
    codes,     \* codes[h]: the phone a code was issued for, and whether it is still valid
    sessions,  \* sessions[k]: the account key k is bound to
    tempKeys,  \* tempKeys[k]: the permanent key a temporary key is bound to, until it expires
    tracked,   \* sessionRegistry: accounts and the sessions pushes for them go to
    req,       \* req[s]: the request session s is being served
    using,     \* using[s]: the auth key the client of s uses (external)
    client     \* client[p]: who the client thinks it is, and what it does next (external)

vars == <<created, codes, sessions, tempKeys, tracked, req, using, client>>
tables == <<created, codes, sessions, tempKeys>>

NoReq == [op |-> "none", pc |-> "idle", auth |-> None, name |-> None, hash |-> None,
          right |-> FALSE, key |-> None, user |-> None]

AuthOps == {"signIn", "signUp", "importBot", "logOut"}

\* effectiveKeyID: a live temporary key stands for its permanent key.
effectiveKeyID(k) ==
    IF k \in Temp /\ tempKeys[k].live THEN tempKeys[k].perm ELSE k

goto(s, pc) == req' = [req EXCEPT ![s].pc = pc]

\* The answer: the client learns the stage it is in and, unless it is unsure, who it
\* is.
answer(s, stage, user) ==
    /\ req' = [req EXCEPT ![s] = NoReq]
    /\ client' = [client EXCEPT ![permOf[s]] = [@ EXCEPT !.stage = stage, !.user = user]]

keepsUser(s) == client[permOf[s]].user

-----------------------------------------------------------------------------
(* Requests arrive (external), and OnMessage's first half *)

\* One request per session; a client runs one request at a time that changes its
\* login, and none under a temporary key it has not bound.
Begin(s, op, name, hash, right) ==
    /\ req[s].op = "none"
    /\ op \in AuthOps => \A t \in Session : permOf[t] = permOf[s] => req[t].op \notin AuthOps
    /\ using[s] \in Temp => tempKeys[using[s]].perm # None
    /\ req' = [req EXCEPT ![s] = [NoReq EXCEPT !.op = op, !.pc = "resolve", !.auth = using[s],
                                              !.name = name, !.hash = hash, !.right = right]]
    /\ UNCHANGED <<tables, tracked, using, client>>

\* The client of s takes up a new temporary key and asks to bind it.
Rotate(s, k) ==
    /\ req[s].op = "none"
    /\ tempKeys[k].perm = None
    /\ \A t \in Session \ {s} : using[t] # k
    /\ using' = [using EXCEPT ![s] = k]
    /\ req' = [req EXCEPT ![s] = [NoReq EXCEPT !.op = "bindTemp", !.pc = "resolve", !.auth = k]]
    /\ UNCHANGED <<tables, tracked, client>>

\* effectiveKeyID of the request's key, for OnMessage, bindCaller and authLogOut.
resolve(s) ==
    /\ req[s].pc \in {"resolve", "bind", "unbind"}
    /\ req' = [req EXCEPT ![s].key = effectiveKeyID(req[s].auth),
                          ![s].pc = CASE req[s].pc = "resolve" -> "caller"
                                      [] req[s].pc = "bind" -> "bindSession"
                                      [] req[s].pc = "unbind" -> "unbindSession"]
    /\ UNCHANGED <<tables, tracked, using, client>>

\* SessionUserID, for the registry.
lookupCaller(s) ==
    LET u == sessions[req[s].key] IN
    /\ req[s].pc = "caller"
    /\ req' = [req EXCEPT ![s].user = u, ![s].pc = IF u = None THEN "op" ELSE "track"]
    /\ UNCHANGED <<tables, tracked, using, client>>

\* An error of either lookup only skips the registry.
untracked(s) ==
    /\ req[s].pc \in {"resolve", "caller"}
    /\ goto(s, "op")
    /\ UNCHANGED <<tables, tracked, using, client>>

track(s) ==
    /\ req[s].pc = "track"
    /\ tracked' = tracked \cup {<<req[s].user, s>>}
    /\ goto(s, "op")
    /\ UNCHANGED <<tables, using, client>>

-----------------------------------------------------------------------------
(* The handlers, one store call per step *)

authSendCode(s) ==
    /\ req[s].op = "sendCode" /\ req[s].pc = "op"
    /\ \E h \in Hash :
        /\ codes[h].phone = None
        /\ codes' = [codes EXCEPT ![h] = [phone |-> req[s].name, live |-> TRUE]]
        /\ client' = [client EXCEPT ![permOf[s]].stage = "code", ![permOf[s]].hash = h]
    /\ req' = [req EXCEPT ![s] = NoReq]
    /\ UNCHANGED <<created, sessions, tempKeys, tracked, using>>

\* Mutant of codeAccepted: the hash alone is looked up.
codeAccepted_anyPhone(r) == r.hash # None /\ codes[r.hash].live /\ (r.op = "signUp" \/ r.right)

\* PhoneCode: a live code for this phone under this hash.  signUp carries no code and
\* is checked against the code the phone's number determines.
codeAccepted(r) ==
    /\ r.hash # None
    /\ codes[r.hash] = [phone |-> r.name, live |-> TRUE]
    /\ r.op = "signUp" \/ r.right

checkCode(s) ==
    /\ req[s].op \in {"signIn", "signUp"} /\ req[s].pc = "op"
    /\ IF codeAccepted(req[s])
       THEN goto(s, "user") /\ UNCHANGED client
       ELSE answer(s, "start", keepsUser(s))
    /\ UNCHANGED <<tables, tracked, using>>

\* Mutant of missingAccount: an error like any other.
missingAccount_error == "start"

\* What signIn answers when the phone has no account: sign up.
missingAccount == "signUp"

\* UserByPhone and BotByToken: signIn needs the account, signUp needs it missing, a
\* bot is made when missing.
findUser(s) ==
    LET r == req[s]
        found == created[r.name] > 0
    IN  /\ r.pc = "user" \/ (r.op = "importBot" /\ r.pc = "op")
        /\ CASE r.op = "signIn" /\ ~found -> answer(s, missingAccount, keepsUser(s))
             [] r.op = "signUp" /\ found -> answer(s, "start", keepsUser(s))
             [] OTHER -> /\ goto(s, IF found THEN "bind" ELSE "create")
                         /\ UNCHANGED client
        /\ UNCHANGED <<tables, tracked, using>>

\* Mutant of taken: no account is in the way.
taken_never(a) == FALSE

\* phoneTaken and tokenTaken, or the unique constraints of the users table.
taken(a) == created[a] > 0

\* CreateUser and CreateBot.
createUser(s) ==
    LET a == req[s].name IN
    /\ req[s].pc = "create"
    /\ IF taken(a)
       THEN answer(s, "start", keepsUser(s)) /\ UNCHANGED created
       ELSE /\ created' = [created EXCEPT ![a] = @ + 1]
            /\ goto(s, "bind")
            /\ UNCHANGED client
    /\ UNCHANGED <<codes, sessions, tempKeys, tracked, using>>

\* Mutant of boundKey: the key the request came with.
boundKey_auth(r) == r.auth

\* The key that holds the authorization, as effectiveKeyID gave it.
boundKey(r) == r.key

BindSession(s) ==
    /\ req[s].pc = "bindSession"
    /\ sessions' = [sessions EXCEPT ![boundKey(req[s])] = req[s].name]
    /\ goto(s, "bound")
    /\ UNCHANGED <<created, codes, tempKeys, tracked, using, client>>

\* Mutant of permAuthKeyID: the temporary key itself.
permAuthKeyID_temp(s) == req[s].auth

\* The permanent key the request names.
permAuthKeyID(s) == permOf[s]

authBindTempAuthKey(s) ==
    /\ req[s].op = "bindTemp" /\ req[s].pc = "op"
    /\ tempKeys' = [tempKeys EXCEPT ![req[s].auth] = [perm |-> permAuthKeyID(s), live |-> TRUE]]
    /\ req' = [req EXCEPT ![s] = NoReq]
    /\ UNCHANGED <<created, codes, sessions, tracked, using, client>>

authLogOut(s) ==
    /\ req[s].op = "logOut" /\ req[s].pc = "op"
    /\ goto(s, "unbind")
    /\ UNCHANGED <<tables, tracked, using, client>>

\* authLogOut takes an unresolved key as it is.
unresolved(s) ==
    /\ req[s].pc = "unbind"
    /\ req' = [req EXCEPT ![s].key = req[s].auth, ![s].pc = "unbindSession"]
    /\ UNCHANGED <<tables, tracked, using, client>>

Unbind(s) ==
    /\ req[s].pc = "unbindSession"
    /\ sessions' = [sessions EXCEPT ![boundKey(req[s])] = None]
    /\ goto(s, "unbound")
    /\ UNCHANGED <<created, codes, tempKeys, tracked, using, client>>

\* The client is told what was done: logged in as the account, or logged out.
authorized(s) ==
    /\ \/ req[s].pc = "bound" /\ answer(s, "in", req[s].name)
       \/ req[s].pc = "unbound" /\ answer(s, "out", None)
    /\ UNCHANGED <<tables, tracked, using>>

\* A store call fails, or the answer is lost: the client no longer knows.
fail(s) ==
    /\ req[s].op # "none"
    /\ IF req[s].op = "bindTemp" THEN req' = [req EXCEPT ![s] = NoReq] /\ UNCHANGED client
       ELSE answer(s, "start", IF req[s].op \in AuthOps THEN None ELSE keepsUser(s))
    /\ UNCHANGED <<tables, tracked, using>>

-----------------------------------------------------------------------------
(* Time *)

codeExpires(h) ==
    /\ codes[h].phone # None /\ codes[h].live
    /\ codes' = [codes EXCEPT ![h].live = FALSE]
    /\ UNCHANGED <<created, sessions, tempKeys, tracked, req, using, client>>

tempKeyExpires(k) ==
    /\ tempKeys[k].live
    /\ RotatesInTime => \A s \in Session : using[s] # k /\ req[s].auth # k
    /\ tempKeys' = [tempKeys EXCEPT ![k].live = FALSE]
    /\ UNCHANGED <<created, codes, sessions, tracked, req, using, client>>

-----------------------------------------------------------------------------
Init ==
    /\ created = [a \in Account |-> 0]
    /\ codes = [h \in Hash |-> [phone |-> None, live |-> FALSE]]
    /\ sessions = [k \in Key |-> None]
    /\ tempKeys = [k \in Temp |-> [perm |-> None, live |-> FALSE]]
    /\ tracked = {}
    /\ req = [s \in Session |-> NoReq]
    /\ using = [s \in Session |-> permOf[s]]
    /\ client = [p \in Perm |-> [stage |-> "start", hash |-> None, user |-> None]]

HandlerStep(s) ==
    \/ resolve(s) \/ lookupCaller(s) \/ track(s)
    \/ authSendCode(s) \/ checkCode(s) \/ findUser(s) \/ createUser(s) \/ BindSession(s)
    \/ authBindTempAuthKey(s) \/ authLogOut(s) \/ Unbind(s) \/ authorized(s)

\* Clients that ask anything in any order.
AnyRequest(s) ==
    \/ \E p \in Phone : Begin(s, "sendCode", p, None, FALSE)
    \/ \E p \in Phone, h \in Hash, right \in BOOLEAN : Begin(s, "signIn", p, h, right)
    \/ \E p \in Phone, h \in Hash : Begin(s, "signUp", p, h, FALSE)
    \/ Begin(s, "logOut", None, None, FALSE)

Next ==
    \/ \E s \in Session : AnyRequest(s) \/ HandlerStep(s) \/ untracked(s) \/ unresolved(s) \/ fail(s)
    \/ \E s \in Session, k \in Temp : Rotate(s, k)
    \/ \E h \in Hash : codeExpires(h)
    \/ \E k \in Temp : tempKeyExpires(k)

Spec == Init /\ [][Next]_vars

\* Clients that log in the way the protocol says: a bot with its token; a user with a
\* code, signIn, and signUp if that is what the answer asks for; after an error, from
\* the start.
LoginRequest(s) ==
    LET c == client[permOf[s]] IN
    \/ \E b \in Token : c.stage = "start" /\ Begin(s, "importBot", b, None, FALSE)
    \/ \E p \in Phone :
          \/ c.stage = "start" /\ Begin(s, "sendCode", p, None, FALSE)
          \/ c.stage = "code" /\ Begin(s, "signIn", p, c.hash, TRUE)
          \/ c.stage = "signUp" /\ Begin(s, "signUp", p, c.hash, FALSE)

\* They keep trying, and nothing fails by itself.
LoginSpec ==
    /\ Init /\ [][\E s \in Session : LoginRequest(s) \/ HandlerStep(s)]_vars
    /\ \A s \in Session : WF_vars(LoginRequest(s)) /\ WF_vars(HandlerStep(s))

-----------------------------------------------------------------------------
(* Properties *)

\* Every variable holds values of its type.
TypeOK ==
    /\ created \in [Account -> Nat]
    /\ codes \in [Hash -> [phone : Phone \cup {None}, live : BOOLEAN]]
    /\ sessions \in [Key -> Account \cup {None}]
    /\ tempKeys \in [Temp -> [perm : Perm \cup {None}, live : BOOLEAN]]
    /\ tracked \subseteq Account \X Session
    /\ using \in [Session -> Key]

\* A phone number or token never has two accounts, although the handlers look it up
\* and create it in separate calls and two clients may sign up at once.
OneAccountEach == \A a \in Account : created[a] <= 1

\* A key is bound only to an account that exists, and for a phone number only after
\* a code was issued for that number.
LoginNeedsCode ==
    \A k \in Key : sessions[k] # None =>
        /\ created[sessions[k]] > 0
        /\ sessions[k] \in Phone => \E h \in Hash : codes[h].phone = sessions[k]

\* No request that changes the login of client p is under way.
settled(p) == \A t \in Session : permOf[t] = p => req[t].op \notin AuthOps

\* A client that was told it is logged in is: its permanent key says so, hence every
\* temporary key it moves on to ("so it survives temp-key rotation and reconnects",
\* convert.go).  Needs RotatesInTime.
LoginHolds ==
    \A p \in Perm : settled(p) /\ client[p].user # None => sessions[p] = client[p].user

\* A client that keeps trying is logged in some day, although another may sign up
\* for its number at any moment.
EventuallyLoggedIn == \A p \in Perm : <>(client[p].stage = "in")
=============================================================================
