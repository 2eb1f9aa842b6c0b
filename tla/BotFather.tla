----------------------------- MODULE BotFather -----------------------------
(***************************************************************************)
(* internal/rpc/botfather.go and the requests that touch the same rows:    *)
(* the BotFather dialogue, whose step is kept in the store between the     *)
(* messages of its owner, account.updateUsername, which competes for       *)
(* usernames, and auth.importBotAuthorization, which logs in by token.     *)
(*                                                                         *)
(* A handler is a goroutine that makes one store call per step; several    *)
(* sessions of one owner may talk to BotFather at once.  A token is        *)
(* <<bot id, secret>> and a secret is fresh.  Left out: the texts, the     *)
(* storing of the messages themselves (MessageStore), the binding of the   *)
(* login to a key (Login), bots that talk to BotFather.                    *)
(***************************************************************************)
EXTENDS Integers, Sequences, FiniteSets

CONSTANTS
    Humans,      \* number of human accounts; their ids are 1..Humans
    Username,    \* well-formed bot usernames
    fold,        \* fold[n]: what strings.EqualFold compares
    NoName,      \* no username
    Handler,     \* goroutines
    MaxAccounts, \* bound: accounts of any kind
    MaxSecrets   \* bound: secrets drawn

ASSUME BotFatherAssumption ==
    /\ Humans \in Nat /\ MaxAccounts \in Nat /\ MaxSecrets \in Nat
    /\ Humans <= MaxAccounts
    /\ NoName \notin Username /\ DOMAIN fold = Username

VARIABLES
    users,     \* users[i]: username, owner and token of account i
    botStates, \* botStates[u]: pending step of owner u
    req,       \* req[h]: what handler h is working on
    secrets,   \* secrets drawn so far
    retired,   \* tokens taken out of use by /revoke: history
    logins,    \* logins by token, as <<token, account>>: history
    talk       \* talk[u]: the step BotFather's last words left u at: history

vars == <<users, botStates, req, secrets, retired, logins, talk>>

Human == 1..Humans
Command == {"/newbot", "/revoke", "/cancel", "/help", "/mybots"}

\* What an owner may write: a command, a username (a valid name too), text that is
\* only a valid name, text that is neither.
Text == Command \cup Username \cup {"title", "junk"}
Step == {"", "newbot_name", "newbot_username", "revoke_select"}

\* No token; a well-formed one nobody was given by BotFather.
NoToken == <<0, 0>>
Foreign == <<0, 1>>
known == ({Foreign} \cup retired \cup {users[i].token : i \in DOMAIN users}) \ {NoToken}

NoReq == [op |-> "none", pc |-> "idle", caller |-> 0, text |-> NoName,
          token |-> NoToken, target |-> 0, alone |-> TRUE]

busy(u) == {h \in Handler : req[h].op = "botfather" /\ req[h].caller = u}
withUsername(n) == {i \in DOMAIN users : users[i].username = n}
BotByToken(t) == {i \in DOMAIN users : users[i].token = t}
BotsByOwner(u) == {i \in DOMAIN users : users[i].owner = u}
goto(h, pc) == req' = [req EXCEPT ![h].pc = pc]

-----------------------------------------------------------------------------
(* The dialogue *)

\* A message of u to BotFather, before its handler has made a call.
message(u, text) ==
    [NoReq EXCEPT !.op = "botfather", !.pc = "engine", !.caller = u, !.text = text,
                  !.alone = (busy(u) = {})]

\* It is taken up by h; requests of one owner that overlap are marked, for the history.
received(h, u, text) ==
    [g \in Handler |->
        CASE g = h -> message(u, text)
          [] g \in busy(u) -> [req[g] EXCEPT !.alone = FALSE]
          [] OTHER -> req[g]]

Say(h, u, text) ==
    /\ req[h] = NoReq
    /\ req' = received(h, u, text)
    /\ talk' = IF busy(u) = {} THEN talk ELSE [talk EXCEPT ![u] = "unclear"]
    /\ UNCHANGED <<users, botStates, secrets, retired, logins>>

\* BotFather answers with words that leave the owner at step, or where he was
\* ("same"); the answer is stored as a message, which may fail.
reply(h, step) ==
    LET u == req[h].caller IN
    /\ req' = [req EXCEPT ![h] = NoReq]
    /\ \/ step = "same" /\ req[h].alone /\ UNCHANGED talk
       \/ step # "same" /\ req[h].alone /\ talk' = [talk EXCEPT ![u] = step]
       \/ /\ step # "same" \/ ~req[h].alone
          /\ talk' = [talk EXCEPT ![u] = "unclear"]

setState(u, step) == botStates' = [botStates EXCEPT ![u] = step]

\* botFatherCommand.
botFatherCommand(h) ==
    LET u == req[h].caller IN
    /\ req[h].pc = "engine"
    /\ \/ /\ req[h].text = "/newbot"
          /\ setState(u, "newbot_name")
          /\ reply(h, "newbot_name")
       \/ /\ req[h].text = "/revoke"
          /\ IF BotsByOwner(u) = {} THEN reply(h, "same") ELSE goto(h, "ask") /\ UNCHANGED talk
          /\ UNCHANGED botStates
       \/ /\ req[h].text = "/cancel"
          /\ IF botStates[u] = "" THEN reply(h, "") ELSE goto(h, "clear") /\ UNCHANGED talk
          /\ UNCHANGED botStates
       \/ /\ req[h].text \in {"/help", "/mybots"}
          /\ reply(h, "same")
          /\ UNCHANGED botStates
    /\ UNCHANGED <<users, secrets, retired, logins>>

\* /revoke, second call.
askRevoke(h) ==
    /\ req[h].pc = "ask"
    /\ setState(req[h].caller, "revoke_select")
    /\ reply(h, "revoke_select")
    /\ UNCHANGED <<users, secrets, retired, logins>>

validBotName(text) == text # "junk"
validBotUsername(text) == text \in Username

\* Where botFatherEngine goes with a text that is no command.
onText(step, text) ==
    CASE step = "newbot_name" /\ validBotName(text) -> "setName"
      [] step = "newbot_username" /\ validBotUsername(text) -> "lookup"
      [] step = "revoke_select" -> "select"
      [] OTHER -> "answer"

\* botFatherEngine reads the pending step.
botFatherEngine(h) ==
    /\ req[h].pc = "engine" /\ req[h].text \notin Command
    /\ LET next == onText(botStates[req[h].caller], req[h].text)
       IN  IF next = "answer" THEN reply(h, "same") ELSE goto(h, next) /\ UNCHANGED talk
    /\ UNCHANGED <<users, botStates, secrets, retired, logins>>

botFatherSetName(h) ==
    /\ req[h].pc = "setName"
    /\ setState(req[h].caller, "newbot_username")
    /\ reply(h, "newbot_username")
    /\ UNCHANGED <<users, secrets, retired, logins>>

\* botFatherCreate: the username is looked up...
botFatherCreate(h) ==
    /\ req[h].pc = "lookup"
    /\ IF withUsername(req[h].text) # {} THEN reply(h, "same")
       ELSE goto(h, "create") /\ UNCHANGED talk
    /\ UNCHANGED <<users, botStates, secrets, retired, logins>>

\* Mutant of usernameTaken: the lookup of the handler is relied on.
usernameTaken_never(n, id) == FALSE

\* The store's own check when it gives n to account id.
usernameTaken(n, id) == n # NoName /\ withUsername(n) \ {id} # {}

\* An error of the store: the engine gives up and the owner hears nothing.
giveUp(h) ==
    /\ req' = [req EXCEPT ![h] = NoReq]
    /\ talk' = IF req[h].alone THEN talk ELSE [talk EXCEPT ![req[h].caller] = "unclear"]

\* ...and the bot is created, its token made of its id and a fresh secret.
CreateOwnedBot(h) ==
    LET id == Len(users) + 1 IN
    /\ req[h].pc = "create"
    /\ \/ /\ usernameTaken(req[h].text, id)
          /\ giveUp(h)
          /\ UNCHANGED <<users, secrets>>
       \/ /\ ~usernameTaken(req[h].text, id)
          /\ Len(users) < MaxAccounts /\ secrets < MaxSecrets
          /\ secrets' = secrets + 1
          /\ users' = Append(users, [username |-> req[h].text, owner |-> req[h].caller,
                                     token |-> <<id, secrets'>>])
          /\ goto(h, "clear")
          /\ UNCHANGED talk
    /\ UNCHANGED <<botStates, retired, logins>>

\* botFatherRevoke: the oldest of the owner's bots of that name...
botFatherRevoke(h) ==
    LET n == req[h].text
        T == {i \in BotsByOwner(req[h].caller) :
                /\ n \in Username /\ users[i].username \in Username
                /\ fold[users[i].username] = fold[n]}
    IN  /\ req[h].pc = "select"
        /\ IF T = {} THEN reply(h, "same")
           ELSE /\ req' = [req EXCEPT ![h].pc = "setToken",
                                      ![h].target = CHOOSE i \in T : \A j \in T : i <= j]
                /\ UNCHANGED talk
        /\ UNCHANGED <<users, botStates, secrets, retired, logins>>

\* ...gets a new token.
SetBotToken(h) ==
    LET b == req[h].target IN
    /\ req[h].pc = "setToken"
    /\ secrets < MaxSecrets
    /\ secrets' = secrets + 1
    /\ users' = [users EXCEPT ![b].token = <<b, secrets'>>]
    /\ retired' = retired \cup {users[b].token}
    /\ goto(h, "clear")
    /\ UNCHANGED <<botStates, logins, talk>>

\* Mutants of ClearBotFatherState: the step is left as it was; the row is kept with
\* a step that does not exist.
ClearBotFatherState_kept(h) ==
    /\ req[h].pc = "clear"
    /\ reply(h, "")
    /\ UNCHANGED <<users, botStates, secrets, retired, logins>>

ClearBotFatherState_none(h) ==
    /\ req[h].pc = "clear"
    /\ setState(req[h].caller, "none")
    /\ reply(h, "")
    /\ UNCHANGED <<users, secrets, retired, logins>>

\* The dialogue is over: /cancel, a new bot, a new token.
ClearBotFatherState(h) ==
    /\ req[h].pc = "clear"
    /\ setState(req[h].caller, "")
    /\ reply(h, "")
    /\ UNCHANGED <<users, secrets, retired, logins>>

\* A store call of the engine fails: logged, never told.
engineFails(h) ==
    /\ req[h].op = "botfather"
    /\ giveUp(h)
    /\ UNCHANGED <<users, botStates, secrets, retired, logins>>

-----------------------------------------------------------------------------
(* account.updateUsername *)

\* Of the caller i, which may be a bot; an empty name needs no lookup.
accountUpdateUsername(h, i, n) ==
    /\ req[h] = NoReq
    /\ n # users[i].username
    /\ n # NoName => withUsername(n) \ {i} = {}
    /\ req' = [req EXCEPT ![h] = [NoReq EXCEPT !.op = "username", !.pc = "setUsername",
                                               !.caller = i, !.text = n]]
    /\ UNCHANGED <<users, botStates, secrets, retired, logins, talk>>

SetUsername(h) ==
    LET i == req[h].caller IN
    /\ req[h].pc = "setUsername"
    /\ users' = IF usernameTaken(req[h].text, i) THEN users
                ELSE [users EXCEPT ![i].username = req[h].text]
    /\ req' = [req EXCEPT ![h] = NoReq]
    /\ UNCHANGED <<botStates, secrets, retired, logins, talk>>

-----------------------------------------------------------------------------
(* auth.importBotAuthorization *)

\* BotByToken: the bot that holds the token, or none yet.
authImportBotAuthorization(h, t) ==
    /\ req[h] = NoReq
    /\ \/ /\ BotByToken(t) # {}
          /\ logins' = logins \cup {<<t, i>> : i \in BotByToken(t)}
          /\ UNCHANGED req
       \/ /\ BotByToken(t) = {}
          /\ req' = [req EXCEPT ![h] = [NoReq EXCEPT !.op = "import", !.pc = "createBot",
                                                     !.token = t]]
          /\ UNCHANGED logins
    /\ UNCHANGED <<users, botStates, secrets, retired, talk>>

\* Mutant of tokenTaken: the lookup of the handler is relied on.
tokenTaken_never(t) == FALSE

\* The store's own check.
tokenTaken(t) == BotByToken(t) # {}

\* CreateBot: an account for a token nobody holds, or an error.
CreateBot(h) ==
    LET t == req[h].token
        id == Len(users) + 1
    IN  /\ req[h].pc = "createBot"
        /\ \/ tokenTaken(t) /\ UNCHANGED <<users, logins>>
           \/ /\ ~tokenTaken(t)
              /\ Len(users) < MaxAccounts
              /\ users' = Append(users, [username |-> NoName, owner |-> 0, token |-> t])
              /\ logins' = logins \cup {<<t, id>>}
        /\ req' = [req EXCEPT ![h] = NoReq]
        /\ UNCHANGED <<botStates, secrets, retired, talk>>

-----------------------------------------------------------------------------
Init ==
    /\ users = [i \in Human |-> [username |-> NoName, owner |-> 0, token |-> NoToken]]
    /\ botStates = [u \in Human |-> ""]
    /\ req = [h \in Handler |-> NoReq]
    /\ secrets = 0
    /\ retired = {} /\ logins = {}
    /\ talk = [u \in Human |-> ""]

Next ==
    \E h \in Handler :
        \/ \E u \in Human, text \in Text : Say(h, u, text)
        \/ botFatherCommand(h) \/ askRevoke(h) \/ botFatherEngine(h) \/ botFatherSetName(h)
        \/ botFatherCreate(h) \/ CreateOwnedBot(h) \/ botFatherRevoke(h) \/ SetBotToken(h)
        \/ ClearBotFatherState(h) \/ engineFails(h)
        \/ \E i \in DOMAIN users, n \in Username \cup {NoName} : accountUpdateUsername(h, i, n)
        \/ SetUsername(h)
        \/ \E t \in known : authImportBotAuthorization(h, t)
        \/ CreateBot(h)

Spec == Init /\ [][Next]_vars

-----------------------------------------------------------------------------
(* Properties *)

\* Tokens: the bot's id and its secret.
Token == (0..MaxAccounts) \X (0..(MaxSecrets + 1))

\* Every variable holds values of its type.
TypeOK ==
    /\ users \in Seq([username : Username \cup {NoName}, owner : 0..Humans, token : Token])
    /\ botStates \in [Human -> Step]
    /\ \A h \in Handler : req[h].caller \in 0..Len(users) /\ req[h].target \in 0..Len(users)
    /\ retired \subseteq Token
    /\ logins \subseteq Token \X DOMAIN users
    /\ talk \in [Human -> Step \cup {"unclear"}]

\* No two accounts have the same username, although BotFather and updateUsername
\* look it up and take it in separate calls.
UsernameOnce ==
    \A i, j \in DOMAIN users :
        users[i].username # NoName /\ users[i].username = users[j].username => i = j

\* "the first login with a well-formed token auto-provisions the bot account, and
\* subsequent logins reuse it" (auth.go): two logins by one token are logins to one
\* account, unless the token was revoked in between.
LoginsReuseAccount ==
    \A x, y \in logins : x[1] = y[1] /\ x[1] \notin retired => x[2] = y[2]

\* When BotFather's last words were a question, the stored step is that question,
\* and when they ended the dialogue, none is pending, whichever of its calls failed
\* before ("An empty step means no flow is in progress", bot.go).  Says nothing of
\* owners whose messages overlapped or whose answer was lost.
AskedIsStored ==
    \A u \in Human : busy(u) = {} /\ talk[u] # "unclear" => botStates[u] = talk[u]
=============================================================================
