----------------------------- MODULE Transport -----------------------------
(***************************************************************************)
(* internal/mtproto: one goroutine per transport connection (serveConn)    *)
(* that exchanges keys, resolves a frame's auth key through the cache and  *)
(* the key storage, enters the connection in the registry under the        *)
(* session id of the frame, handles the request and answers it to whatever *)
(* connection the registry holds for that session by then.                 *)
(*                                                                         *)
(* Connections come and go: a client may leave one with frames still       *)
(* unread, the server may restart.  What a request does is left out (the   *)
(* modules UpdateDelivery and Login); encryption is the key's name.  The   *)
(* client and the sockets are external; a client uses one session per      *)
(* connection, although the code takes the session from every frame.       *)
(*                                                                         *)
(* Two things only observe: the connections of clients whose registry      *)
(* entry another connection took (robbed), and the frames whose answer     *)
(* went to a connection the client does not listen on (astray).            *)
(***************************************************************************)
EXTENDS Integers, Sequences, FiniteSets

CONSTANTS
    Session,        \* session ids of the clients
    Key,            \* auth keys
    keyOf,          \* keyOf[s]: the key session s uses
    Conn,           \* transport connections, numbered as they are dialled
    MsgId,          \* message ids of requests: bounds those under way
    Exchange,       \* the first frame of a key exchange
    None,           \* no connection, no session, no frame
    StorageMayFail, \* TRUE: a call of the key storage may fail
    MaxRestarts     \* bound: restarts of the server

ASSUME TransportAssumption ==
    /\ keyOf \in [Session -> Key] /\ Conn \subseteq Nat /\ None \notin Session \cup Conn
    /\ None \notin MsgId \cup {Exchange} /\ Exchange \notin MsgId
    /\ StorageMayFail \in BOOLEAN /\ MaxRestarts \in Nat

VARIABLES
    cache,    \* registry.cache: keys in memory
    stored,   \* keys in the KeyStorage
    conns,    \* registry.conns: conns[s], the connection of session s and its sent flag
    server,   \* server[c]: the goroutine of connection c, its step and frame
    inbox,    \* inbox[c]: frames sent on c and not yet read
    client,   \* client[s]: the client's connection, what it awaits there (external)
    known,    \* keys the clients hold (external)
    robbed,   \* connections of clients that another one took the entry from: history
    restarts  \* restarts so far: bound

vars == <<cache, stored, conns, server, inbox, client, known, robbed, restarts>>

NoEntry == [conn |-> None, sent |-> FALSE]
Idle == [pc |-> "none", session |-> None, frame |-> None]
NoClient == [conn |-> None, wait |-> {}, astray |-> {}]

Frame == MsgId \cup {Exchange}

\* Connections whose goroutine runs, and those a client still listens on.
serving == {c \in Conn : server[c].pc \notin {"none", "ended"}}
open == {client[s].conn : s \in Session} \ {None}

\* The goroutine of c goes on with its frame, or is done with it.
goto(c, pc) ==
    server' = [server EXCEPT ![c].pc = pc,
                             ![c].frame = IF pc \in {"read", "closing", "ended"} THEN None ELSE @]

\* It takes the next frame.
take(c, pc) ==
    /\ inbox[c] # <<>>
    /\ inbox' = [inbox EXCEPT ![c] = Tail(@)]
    /\ server' = [server EXCEPT ![c].pc = pc, ![c].frame = Head(inbox[c])]

\* The client of s learns the outcome of a frame.
answered(s, frame) == client' = [client EXCEPT ![s].wait = @ \ {frame}]

-----------------------------------------------------------------------------
(* Clients and sockets (external) *)

\* The client of s makes a new connection, leaving the one it had, with whatever the
\* server has not read yet; what it waited for it asks again.
Dial(s, c) ==
    /\ server[c].pc = "none" /\ \A d \in Conn : d < c => server[d].pc # "none"
    /\ server' = [server EXCEPT ![c] = [pc |-> "read", session |-> s, frame |-> None]]
    /\ client' = [client EXCEPT ![s] = [conn |-> c, wait |-> {}, astray |-> {}]]
    /\ UNCHANGED <<cache, stored, conns, inbox, known, robbed, restarts>>

\* A key is being made on connection c.
exchanging(c, k) ==
    /\ server[c].session # None /\ keyOf[server[c].session] = k
    /\ server[c].pc = "exchange" \/ \E i \in DOMAIN inbox[c] : inbox[c][i] = Exchange

\* The message ids of no frame and of nothing a client waits for.
fresh ==
    MsgId \ UNION ({{server[c].frame} \cup {inbox[c][i] : i \in DOMAIN inbox[c]} : c \in Conn}
                     \cup {client[s].wait : s \in Session})

Send(s, frame, wait) ==
    LET c == client[s].conn IN
    /\ c # None
    /\ inbox' = [inbox EXCEPT ![c] = Append(@, frame)]
    /\ client' = [client EXCEPT ![s].wait = wait \cup {frame}]
    /\ UNCHANGED <<cache, stored, conns, server, known, robbed, restarts>>

\* It sends a request under its key, without waiting for the answers to earlier ones;
\* an exchange it had begun it gives up.
Request(s) ==
    /\ keyOf[s] \in known
    /\ fresh # {}
    /\ Send(s, CHOOSE i \in fresh : TRUE, client[s].wait \ {Exchange})

\* It starts a key exchange; a client runs one at a time.
StartExchange(s) ==
    /\ client[s].wait = {}
    /\ \A c \in Conn : ~exchanging(c, keyOf[s])
    /\ Send(s, Exchange, {})

-----------------------------------------------------------------------------
(* serveConn *)

readFrame(c) ==
    /\ server[c].pc = "read"
    /\ take(c, IF Head(inbox[c]) = Exchange THEN "exchange" ELSE "lookup")
    /\ UNCHANGED <<cache, stored, conns, client, known, robbed, restarts>>

\* The read fails: the client is gone, or readTimeout passed without a frame.
readFails(c) ==
    /\ server[c].pc = "read"
    /\ inbox[c] = <<>>
    /\ goto(c, "closing")
    /\ UNCHANGED <<cache, stored, conns, inbox, client, known, robbed, restarts>>

\* exchange: both sides have the key, then addSession caches it...  An encrypted
\* frame in its place (UnexpectedEncryptedError) is served as a request; any other
\* error ends the connection.
exchange(c) ==
    LET s == server[c].session IN
    /\ server[c].pc = "exchange"
    /\ \/ /\ c \in open
          /\ known' = known \cup {keyOf[s]}
          /\ answered(s, Exchange)
          /\ cache' = cache \cup {keyOf[s]}
          /\ goto(c, "save")
          /\ UNCHANGED inbox
       \/ /\ take(c, "lookup") /\ Head(inbox[c]) # Exchange
          /\ UNCHANGED <<known, client, cache>>
       \/ /\ goto(c, "closing")
          /\ UNCHANGED <<known, client, cache, inbox>>
    /\ UNCHANGED <<stored, conns, robbed, restarts>>

\* ...and stores it; an error ends the connection and leaves the cache as it is.
save(c) ==
    /\ server[c].pc = "save"
    /\ \/ stored' = stored \cup {keyOf[server[c].session]} /\ goto(c, "read")
       \/ StorageMayFail /\ goto(c, "closing") /\ UNCHANGED stored
    /\ UNCHANGED <<cache, conns, inbox, client, known, robbed, restarts>>

\* Mutant of resolvable: only the cache is consulted.
resolvable_cached(k) == k \in cache

\* A key the server can resolve.
resolvable(k) == k \in cache \cup stored

\* getSession: the cache, then the storage, which fills it.  An unknown key is
\* answered -404, and the client drops it; an error, of the storage or of that send,
\* ends the connection.
lookup(c) ==
    LET s == server[c].session
        k == keyOf[s]
    IN  /\ server[c].pc = "lookup"
        /\ \/ /\ resolvable(k)
              /\ cache' = cache \cup {k}
              /\ goto(c, "create")
              /\ UNCHANGED <<client, known>>
           \/ /\ ~resolvable(k)
              /\ goto(c, "read")
              /\ IF client[s].conn = c
                 THEN known' = known \ {k} /\ answered(s, server[c].frame)
                 ELSE UNCHANGED <<known, client>>
              /\ UNCHANGED cache
           \/ /\ (StorageMayFail /\ k \notin cache) \/ (~resolvable(k) /\ c \notin open)
              /\ goto(c, "closing")
              /\ UNCHANGED <<cache, client, known>>
        /\ UNCHANGED <<stored, conns, inbox, robbed, restarts>>

\* createConnection and sentCreated: the entry is kept only if this connection
\* backs it; a new one has not told the client of its session yet.
create(c) ==
    LET s == server[c].session IN
    /\ server[c].pc = "create"
    /\ conns' = [conns EXCEPT ![s] = [conn |-> c, sent |-> TRUE]]
    /\ robbed' = IF client[s].conn = c THEN robbed \ {c}
                 ELSE robbed \cup ({client[s].conn} \ {None})
    /\ goto(c, IF conns[s] = [conn |-> c, sent |-> TRUE] THEN "handle" ELSE "hello")
    /\ UNCHANGED <<cache, stored, inbox, client, known, restarts>>

\* What is sent on connection d, in answer to a frame of connection c, reaches the client
\* if it listens on d.
reach(c, d, frame) ==
    LET s == server[c].session IN
    IF d = client[s].conn THEN answered(s, frame)
    ELSE client' = [client EXCEPT ![s].astray =
                        IF client[s].conn = c THEN @ \cup ({frame} \cap client[s].wait) ELSE @]

\* Mutant of send: a Send that fails is ignored.
send_ignored(c, next, frame) ==
    LET d == conns[server[c].session].conn IN
    /\ goto(c, next)
    /\ \/ d # None /\ reach(c, d, frame)
       \/ UNCHANGED client

\* Send to the connection the registry holds for the session.  Without an entry it
\* fails, otherwise it may fail (writeTimeout, a broken connection); an error ends the
\* goroutine.
send(c, next, frame) ==
    LET d == conns[server[c].session].conn IN
    \/ d # None /\ goto(c, next) /\ reach(c, d, frame)
    \/ goto(c, "closing") /\ UNCHANGED client

hello(c) ==
    /\ server[c].pc = "hello"
    /\ send(c, "handle", None)
    /\ UNCHANGED <<cache, stored, conns, inbox, known, robbed, restarts>>

\* The handler runs; an error that is not an RPC error ends the connection.
handle(c) ==
    /\ server[c].pc = "handle"
    /\ goto(c, "answer") \/ goto(c, "closing")
    /\ UNCHANGED <<cache, stored, conns, inbox, client, known, robbed, restarts>>

SendResult(c) ==
    /\ server[c].pc = "answer"
    /\ send(c, "read", server[c].frame)
    /\ UNCHANGED <<cache, stored, conns, inbox, known, robbed, restarts>>

\* Mutants of removeConn: the entries stay; the session's entry goes whatever
\* connection backs it; an entry is left without its record.
removeConn_none(c) == conns
removeConn_nil(c) == [s \in Session |-> IF conns[s].conn = c THEN None ELSE conns[s]]
removeConn_session(c) == [conns EXCEPT ![server[c].session] = NoEntry]

\* removeConn: only the entries this connection backs.
removeConn(c) == [s \in Session |-> IF conns[s].conn = c THEN NoEntry ELSE conns[s]]

\* The deferred calls of serveConn: removeConn, then Close, which the client notices.
closeConn(c) ==
    /\ server[c].pc = "closing"
    /\ conns' = removeConn(c)
    /\ goto(c, "ended")
    /\ inbox' = [inbox EXCEPT ![c] = <<>>]
    /\ client' = [s \in Session |-> IF client[s].conn = c THEN NoClient ELSE client[s]]
    /\ robbed' = robbed \ {c}
    /\ UNCHANGED <<cache, stored, known, restarts>>

\* The process ends and starts again: only the key storage and the clients survive.
Restart ==
    /\ restarts < MaxRestarts
    /\ restarts' = restarts + 1
    /\ cache' = {}
    /\ conns' = [s \in Session |-> NoEntry]
    /\ server' = [c \in Conn |->
            IF c \in serving THEN [server[c] EXCEPT !.pc = "ended", !.frame = None] ELSE server[c]]
    /\ inbox' = [c \in Conn |-> <<>>]
    /\ client' = [s \in Session |-> NoClient]
    /\ robbed' = {}
    /\ UNCHANGED <<stored, known>>

-----------------------------------------------------------------------------
Init ==
    /\ cache = {} /\ stored = {} /\ known = {}
    /\ conns = [s \in Session |-> NoEntry]
    /\ server = [c \in Conn |-> Idle]
    /\ inbox = [c \in Conn |-> <<>>]
    /\ client = [s \in Session |-> NoClient]
    /\ robbed = {}
    /\ restarts = 0

serveConn(c) ==
    \/ readFrame(c) \/ exchange(c) \/ save(c) \/ lookup(c) \/ create(c)
    \/ hello(c) \/ handle(c) \/ SendResult(c) \/ closeConn(c)

Next ==
    \/ \E s \in Session, c \in Conn : Dial(s, c)
    \/ \E s \in Session : Request(s) \/ StartExchange(s)
    \/ \E c \in Conn : serveConn(c) \/ readFails(c)
    \/ Restart

Spec == Init /\ [][Next]_vars

\* Every goroutine runs on while it has a frame or a step to make, and a connection
\* its client left is read to its end.
FairSpec ==
    /\ Spec
    /\ \A c \in Conn : WF_vars(serveConn(c)) /\ WF_vars(c \notin open /\ readFails(c))

-----------------------------------------------------------------------------
(* Properties *)

\* Every variable holds values of its type.
TypeOK ==
    /\ cache \subseteq Key /\ stored \subseteq Key /\ known \subseteq Key
    /\ conns \in [Session -> [conn : Conn \cup {None}, sent : BOOLEAN]]
    /\ server \in [Conn -> [pc : {"none", "read", "exchange", "save", "lookup", "create",
                                  "hello", "handle", "answer", "closing", "ended"},
                            session : Session \cup {None}, frame : Frame \cup {None}]]
    /\ inbox \in [Conn -> Seq(Frame)]
    /\ client \in [Session -> [conn : Conn \cup {None}, wait : SUBSET Frame,
                            astray : SUBSET Frame]]
    /\ robbed \subseteq Conn

\* The registry never holds a connection that is no longer served, so nothing is
\* pushed to a dead socket (removeConn against createConnection of any goroutine).
NoDeadEntry == \A s \in Session : conns[s].conn \in serving \cup {None}

\* While the goroutine of a connection works on a request of the client listening
\* there, the registry leads the answer back to it: neither the end of an older
\* connection nor its late answers move the entry.  A frame still read from an older
\* connection does, until the client's next frame (robbed; see ReplacedByNewer).
AnswerReachesClient ==
    \A c \in Conn :
        LET s == server[c].session IN
        (server[c].pc \in {"hello", "handle", "answer"} /\ client[s].conn = c /\ c \notin robbed)
            => conns[s].conn = c

\* A client is told to drop its key only if the key was never stored, also after
\* restarts: "a client can reconnect with an existing key after a restart"
\* (keystorage.go).
StoredKeysServed == [][\A k \in known \ known' : k \notin stored]_vars

\* Every single request, of those sent ahead too, and every exchange is answered, or
\* the client learns that its connection is closed, unless the answer went astray: it
\* was sent to a connection the client has left, whose late frame had taken the entry.
EventuallyAnswered ==
    \A s \in Session : \A frame \in Frame :
        frame \in client[s].wait ~>
            frame \notin client[s].wait \/ frame \in client[s].astray

\* The entry of a session moves only to newer connections ("a reconnect on a new
\* transport replaces the stale entry", registry.go).  Not what the code does: a
\* frame read late from the old connection takes the entry back.
ReplacedByNewer ==
    [][\A s \in Session :
        (conns[s].conn # None /\ conns'[s].conn \notin {None, conns[s].conn})
            => conns[s].conn < conns'[s].conn]_vars
=============================================================================
