-------------------------- MODULE Transport_proofs --------------------------
(***************************************************************************)
(* Proofs about Transport, for any number of sessions, connections, frames *)
(* and restarts.                                                           *)
(***************************************************************************)
EXTENDS Transport, SequenceTheorems, TLAPS

\* The steps of a connection's goroutine.
PC == {"none", "read", "exchange", "save", "lookup", "create", "hello", "handle", "answer",
       "closing", "ended"}

Goroutine == [pc : PC, session : Session \cup {None}, frame : Frame \cup {None}]
Entry == [conn : Conn \cup {None}, sent : BOOLEAN]
ClientState == [conn : Conn \cup {None}, wait : SUBSET Frame, astray : SUBSET Frame]

Types ==
    /\ cache \subseteq Key /\ stored \subseteq Key /\ known \subseteq Key
    /\ conns \in [Session -> Entry]
    /\ server \in [Conn -> Goroutine]
    /\ inbox \in [Conn -> Seq(Frame)]
    /\ client \in [Session -> ClientState]
    /\ robbed \subseteq Conn

\* A connection that was dialled has the session it was dialled for.
Dialled == \A c \in Conn : server[c].pc = "none" \/ server[c].session \in Session

\* A client listens on a connection of its own that is being served.
ClientServed ==
    \A s \in Session : \A c \in Conn :
        client[s].conn = c => c \in serving /\ server[c].session = s

Inv == Types /\ Dialled /\ ClientServed /\ NoDeadEntry

\* A goroutine is served in any state but two.
LEMMA ServingDef ==
    ASSUME NEW c \in Conn
    PROVE  c \in serving <=> server[c].pc \notin {"none", "ended"}
  BY DEF serving

\* Types says the same as TypeOK.
LEMMA TypesOK == Types => TypeOK
  BY DEF Types, TypeOK, PC, Goroutine, Entry, ClientState

\* The server has just started and nobody is connected.
LEMMA InitInv == Init => Inv
<1> SUFFICES ASSUME Init PROVE Inv
  OBVIOUS
<1> USE DEF Init
<1>1. NoEntry \in Entry /\ NoClient \in ClientState /\ Idle \in Goroutine
  BY DEF NoEntry, Entry, NoClient, ClientState, Idle, Goroutine, PC
<1>2. Types
  BY <1>1 DEF Types
<1>3. Dialled
  BY DEF Dialled, Idle
<1>4. ClientServed
  BY TransportAssumption DEF ClientServed, NoClient
<1>5. NoDeadEntry
  BY DEF NoDeadEntry, NoEntry
<1> QED BY <1>2, <1>3, <1>4, <1>5 DEF Inv

-----------------------------------------------------------------------------
(* A goroutine's step: what all of serveConn's steps but the last have in common *)

\* The goroutine of c goes on to step pc, for the same session; no other moves.
Moves(c, pc) ==
    /\ server' \in [Conn -> Goroutine]
    /\ server'[c].pc = pc /\ server'[c].session = server[c].session
    /\ \A d \in Conn : d # c => server'[d] = server[d]

\* A goroutine that goes on with its frame, or leaves it.
LEMMA GotoMoves ==
    ASSUME Types, NEW c \in Conn, NEW pc \in PC, goto(c, pc)
    PROVE  Moves(c, pc)
<1> DEFINE f == IF pc \in {"read", "closing", "ended"} THEN None ELSE server[c].frame
<1>1. server \in [Conn -> Goroutine] /\ server[c] \in Goroutine
  BY DEF Types
<1>2. server' = [server EXCEPT ![c] = [server[c] EXCEPT !.pc = pc, !.frame = f]]
  BY DEF goto
<1>3. f \in Frame \cup {None}
  BY <1>1 DEF Goroutine
<1> HIDE DEF f
<1>4. [server[c] EXCEPT !.pc = pc, !.frame = f] \in Goroutine
      /\ [server[c] EXCEPT !.pc = pc, !.frame = f].pc = pc
      /\ [server[c] EXCEPT !.pc = pc, !.frame = f].session = server[c].session
  BY <1>1, <1>3 DEF Goroutine
<1> QED BY <1>1, <1>2, <1>4 DEF Moves

\* A goroutine that takes the next frame.
LEMMA TakeMoves ==
    ASSUME Types, NEW c \in Conn, NEW pc \in PC, take(c, pc)
    PROVE  /\ Moves(c, pc)
           /\ inbox' \in [Conn -> Seq(Frame)]
<1> DEFINE f == Head(inbox[c])
<1>1. /\ server \in [Conn -> Goroutine] /\ server[c] \in Goroutine
      /\ inbox \in [Conn -> Seq(Frame)] /\ inbox[c] \in Seq(Frame) /\ inbox[c] # <<>>
  BY DEF Types, take
<1>2. f \in Frame /\ Tail(inbox[c]) \in Seq(Frame)
  BY <1>1, HeadTailProperties
<1>3. /\ server' = [server EXCEPT ![c] = [server[c] EXCEPT !.pc = pc, !.frame = f]]
      /\ inbox' = [inbox EXCEPT ![c] = Tail(inbox[c])]
  BY DEF take
<1> HIDE DEF f
<1>4. [server[c] EXCEPT !.pc = pc, !.frame = f] \in Goroutine
      /\ [server[c] EXCEPT !.pc = pc, !.frame = f].pc = pc
      /\ [server[c] EXCEPT !.pc = pc, !.frame = f].session = server[c].session
  BY <1>1, <1>2 DEF Goroutine
<1> QED BY <1>1, <1>2, <1>3, <1>4 DEF Moves

\* Clients listen where they did.
SameClients == \A s \in Session : client'[s].conn = client[s].conn

\* A goroutine in service that goes on keeps the invariant, if the registry is left
\* alone or led to it.
LEMMA MoveKeeps ==
    ASSUME Inv, NEW c \in Conn, NEW pc \in PC \ {"none", "ended"}, Moves(c, pc),
           c \in serving, SameClients, Types',
           \A s \in Session : conns'[s].conn \in {conns[s].conn, c}
    PROVE  Inv'
<1>1. /\ server'[c].pc = pc /\ server'[c].session = server[c].session
      /\ \A d \in Conn : d # c => server'[d] = server[d]
  BY DEF Moves
<1>2. serving' = serving
  BY <1>1 DEF serving
<1>3. Dialled'
  BY <1>1 DEF Inv, Dialled, serving
<1>4. ClientServed'
  BY <1>1, <1>2 DEF Inv, ClientServed, SameClients
<1>5. NoDeadEntry'
  BY <1>2 DEF Inv, NoDeadEntry
<1> QED BY <1>3, <1>4, <1>5 DEF Inv

\* The session of a connection in service has a key.
LEMMA SessionKnown ==
    ASSUME Inv, NEW c \in Conn, c \in serving
    PROVE  server[c].session \in Session /\ keyOf[server[c].session] \in Key
<1>1. server[c].session \in Session
  BY DEF Inv, Dialled, serving
<1> QED BY <1>1, TransportAssumption

\* A client that is answered, or asks more, listens where it did.
LEMMA ClientKeeps ==
    ASSUME Types, NEW s \in Session, NEW W \in SUBSET Frame, NEW A \in SUBSET Frame,
           client' = [client EXCEPT ![s] = [client[s] EXCEPT !.wait = W, !.astray = A]]
    PROVE  client' \in [Session -> ClientState] /\ SameClients
<1>1. client \in [Session -> ClientState] /\ client[s] \in ClientState
  BY DEF Types
<1>2. [client[s] EXCEPT !.wait = W, !.astray = A] \in ClientState
      /\ [client[s] EXCEPT !.wait = W, !.astray = A].conn = client[s].conn
  BY <1>1 DEF ClientState
<1> QED BY <1>1, <1>2 DEF SameClients

\* An answer that arrives.
LEMMA AnsweredKeeps ==
    ASSUME Types, NEW s \in Session, NEW f, answered(s, f)
    PROVE  client' \in [Session -> ClientState] /\ SameClients
<1>1. client[s] \in ClientState
  BY DEF Types
<1>2. client[s].wait \ {f} \in SUBSET Frame /\ client[s].astray \in SUBSET Frame
  BY <1>1 DEF ClientState
<1>3. client' = [client EXCEPT ![s] = [client[s] EXCEPT !.wait = client[s].wait \ {f},
                                                        !.astray = client[s].astray]]
  BY <1>1 DEF answered, ClientState
<1> QED BY <1>2, <1>3, ClientKeeps

\* An answer that arrives or goes to another connection.
LEMMA ReachKeeps ==
    ASSUME Types, NEW c \in Conn, server[c].session \in Session, NEW d, NEW f, reach(c, d, f)
    PROVE  client' \in [Session -> ClientState] /\ SameClients
<1> DEFINE s == server[c].session
           A == IF client[s].conn = c THEN client[s].astray \cup ({f} \cap client[s].wait)
                ELSE client[s].astray
<1>1. CASE d = client[s].conn
  BY <1>1, AnsweredKeeps DEF reach
<1>2. CASE d # client[s].conn
  <2>1. client[s] \in ClientState
    BY DEF Types
  <2>2. client[s].wait \in SUBSET Frame /\ A \in SUBSET Frame
    BY <2>1 DEF ClientState
  <2>3. client' = [client EXCEPT ![s] = [client[s] EXCEPT !.wait = client[s].wait, !.astray = A]]
    BY <1>2, <2>1 DEF reach, ClientState
  <2> HIDE DEF A
  <2> QED BY <2>2, <2>3, ClientKeeps
<1> QED BY <1>1, <1>2

\* A send moves its goroutine on.
LEMMA SendTyped ==
    ASSUME Inv, NEW c \in Conn, c \in serving, NEW next \in PC, NEW f, send(c, next, f)
    PROVE  /\ goto(c, next) \/ goto(c, "closing")
           /\ client' \in [Session -> ClientState] /\ SameClients
<1>1. goto(c, next) \/ goto(c, "closing")
  BY DEF send
<1>2. client' = client \/ \E d : reach(c, d, f)
  BY DEF send
<1>3. CASE client' = client
  BY <1>1, <1>3 DEF Inv, Types, SameClients
<1>4. CASE \E d : reach(c, d, f)
  BY <1>1, <1>4, SessionKnown, ReachKeeps DEF Inv
<1> QED BY <1>2, <1>3, <1>4

\* What the steps of serveConn before its end do: the goroutine goes on, and nothing is
\* registered but the goroutine's own connection.
LEMMA ServeMoves ==
    ASSUME Inv, NEW c \in Conn,
           \/ readFrame(c) \/ readFails(c) \/ exchange(c) \/ save(c) \/ lookup(c)
           \/ create(c) \/ hello(c) \/ handle(c) \/ SendResult(c)
    PROVE  /\ c \in serving /\ Types' /\ SameClients
           /\ \E pc \in PC \ {"none", "ended"} : Moves(c, pc)
           /\ \A s \in Session : conns'[s].conn \in {conns[s].conn, c}
<1>1. c \in serving
  BY DEF serving, readFrame, readFails, exchange, save, lookup, create, hello, handle, SendResult
<1>2. server[c].session \in Session /\ keyOf[server[c].session] \in Key
  BY <1>1, SessionKnown
<1>3. ASSUME NEW pc \in PC, goto(c, pc)
      PROVE  Moves(c, pc) /\ server' \in [Conn -> Goroutine]
  BY <1>3, GotoMoves DEF Inv, Moves
<1>4. Types
  BY DEF Inv
<1>5. CASE readFrame(c)
  <2>1. /\ take(c, "exchange") \/ take(c, "lookup")
        /\ UNCHANGED <<cache, stored, conns, client, known, robbed>>
    BY <1>5 DEF readFrame
  <2>2. /\ Moves(c, "exchange") \/ Moves(c, "lookup")
        /\ inbox' \in [Conn -> Seq(Frame)]
    BY <1>4, <2>1, TakeMoves DEF PC
  <2>3. Types' /\ SameClients
    BY <1>4, <2>1, <2>2 DEF Types, SameClients, Moves
  <2> QED BY <1>1, <2>1, <2>2, <2>3 DEF PC
<1>6. CASE readFails(c)
  <2>1. goto(c, "closing") /\ UNCHANGED <<cache, stored, conns, inbox, client, known, robbed>>
    BY <1>6 DEF readFails
  <2>2. Moves(c, "closing") /\ server' \in [Conn -> Goroutine]
    BY <1>3, <2>1 DEF PC
  <2>3. Types' /\ SameClients
    BY <1>4, <2>1, <2>2 DEF Types, SameClients
  <2> QED BY <1>1, <2>1, <2>2, <2>3 DEF PC
<1>7. CASE exchange(c)
  <2>1. UNCHANGED <<stored, conns, robbed>> /\ known' \subseteq Key /\ cache' \subseteq Key
    BY <1>2, <1>4, <1>7 DEF exchange, Types
  <2>2. \/ goto(c, "save") /\ inbox' = inbox /\ answered(server[c].session, Exchange)
        \/ take(c, "lookup") /\ client' = client
        \/ goto(c, "closing") /\ inbox' = inbox /\ client' = client
    BY <1>7 DEF exchange
  <2>3. /\ Moves(c, "save") \/ Moves(c, "lookup") \/ Moves(c, "closing")
        /\ inbox' \in [Conn -> Seq(Frame)]
    BY <1>3, <1>4, <2>2, TakeMoves DEF PC, Types
  <2>4. client' \in [Session -> ClientState] /\ SameClients
    <3>1. CASE client' = client
      BY <1>4, <3>1 DEF Types, SameClients
    <3>2. CASE answered(server[c].session, Exchange)
      BY <1>2, <1>4, <3>2, AnsweredKeeps
    <3> QED BY <2>2, <3>1, <3>2
  <2>5. Types'
    BY <1>4, <2>1, <2>3, <2>4 DEF Types, Moves
  <2> QED BY <1>1, <2>1, <2>3, <2>4, <2>5 DEF PC
<1>8. CASE save(c)
  <2>1. /\ goto(c, "read") \/ goto(c, "closing")
        /\ stored' \subseteq stored \cup {keyOf[server[c].session]}
        /\ UNCHANGED <<cache, conns, inbox, client, known, robbed>>
    BY <1>8 DEF save
  <2>2. (Moves(c, "read") \/ Moves(c, "closing")) /\ server' \in [Conn -> Goroutine]
    BY <1>3, <2>1 DEF PC
  <2>3. Types' /\ SameClients
    BY <1>2, <1>4, <2>1, <2>2 DEF Types, SameClients
  <2> QED BY <1>1, <2>1, <2>2, <2>3 DEF PC
<1>9. CASE lookup(c)
  <2>1. /\ goto(c, "create") \/ goto(c, "read") \/ goto(c, "closing")
        /\ cache' \subseteq cache \cup {keyOf[server[c].session]} /\ known' \subseteq known
        /\ UNCHANGED <<stored, conns, inbox, robbed>>
    BY <1>9 DEF lookup
  <2>2. client' \in [Session -> ClientState] /\ SameClients
    <3>1. client' = client \/ answered(server[c].session, server[c].frame)
      BY <1>9 DEF lookup
    <3>2. CASE client' = client
      BY <1>4, <3>2 DEF Types, SameClients
    <3> QED BY <1>2, <1>4, <3>1, <3>2, AnsweredKeeps
  <2>3. /\ Moves(c, "create") \/ Moves(c, "read") \/ Moves(c, "closing")
        /\ server' \in [Conn -> Goroutine]
    BY <1>3, <2>1 DEF PC
  <2>4. Types'
    BY <1>2, <1>4, <2>1, <2>2, <2>3 DEF Types
  <2> QED BY <1>1, <2>1, <2>2, <2>3, <2>4 DEF PC
<1>10. CASE create(c)
  <2>1. /\ goto(c, "handle") \/ goto(c, "hello")
        /\ conns' = [conns EXCEPT ![server[c].session] = [conn |-> c, sent |-> TRUE]]
        /\ UNCHANGED <<cache, stored, inbox, client, known>>
    BY <1>10 DEF create
  <2>2. [conn |-> c, sent |-> TRUE] \in Entry
    BY DEF Entry
  <2>3. conns' \in [Session -> Entry] /\ \A s \in Session : conns'[s].conn \in {conns[s].conn, c}
    BY <1>4, <2>1, <2>2 DEF Types
  <2>4. (Moves(c, "handle") \/ Moves(c, "hello")) /\ server' \in [Conn -> Goroutine]
    BY <1>3, <2>1 DEF PC
  <2>5. robbed' \subseteq Conn
    <3>1. client[server[c].session].conn \in Conn \cup {None}
      BY <1>2, <1>4 DEF Types, ClientState
    <3> QED BY <1>4, <1>10, <3>1 DEF create, Types
  <2>6. Types' /\ SameClients
    BY <1>4, <2>1, <2>3, <2>4, <2>5 DEF Types, SameClients
  <2> QED BY <1>1, <2>3, <2>4, <2>6 DEF PC
<1>11. ASSUME NEW next \in PC \ {"none", "ended"}, NEW f, send(c, next, f),
              UNCHANGED <<cache, stored, conns, inbox, known, robbed>>
       PROVE  /\ Types' /\ SameClients /\ \A s \in Session : conns'[s].conn \in {conns[s].conn, c}
              /\ \E pc \in PC \ {"none", "ended"} : Moves(c, pc)
  <2>1. (goto(c, next) \/ goto(c, "closing")) /\ client' \in [Session -> ClientState] /\ SameClients
    BY <1>1, <1>11, SendTyped
  <2>2. (Moves(c, next) \/ Moves(c, "closing")) /\ server' \in [Conn -> Goroutine]
    BY <1>3, <2>1 DEF PC
  <2>3. Types'
    BY <1>4, <1>11, <2>1, <2>2 DEF Types
  <2> QED BY <1>11, <2>1, <2>2, <2>3 DEF PC
<1>12. CASE hello(c)
  <2>1. send(c, "handle", None) /\ UNCHANGED <<cache, stored, conns, inbox, known, robbed>>
    BY <1>12 DEF hello
  <2> QED BY <1>1, <1>11, <2>1 DEF PC
<1>13. CASE handle(c)
  <2>1. /\ goto(c, "answer") \/ goto(c, "closing")
        /\ UNCHANGED <<cache, stored, conns, inbox, client, known, robbed>>
    BY <1>13 DEF handle
  <2>2. (Moves(c, "answer") \/ Moves(c, "closing")) /\ server' \in [Conn -> Goroutine]
    BY <1>3, <2>1 DEF PC
  <2>3. Types' /\ SameClients
    BY <1>4, <2>1, <2>2 DEF Types, SameClients
  <2> QED BY <1>1, <2>1, <2>2, <2>3 DEF PC
<1>14. CASE SendResult(c)
  <2>1. /\ send(c, "read", server[c].frame)
        /\ UNCHANGED <<cache, stored, conns, inbox, known, robbed>>
    BY <1>14 DEF SendResult
  <2> QED BY <1>1, <1>11, <2>1 DEF PC
<1> QED BY <1>5, <1>6, <1>7, <1>8, <1>9, <1>10, <1>12, <1>13, <1>14

-----------------------------------------------------------------------------
(* The other steps *)

\* A new connection is served for its own client and registered for nobody.
LEMMA DialKeeps ==
    ASSUME Inv, NEW s \in Session, NEW c \in Conn, Dial(s, c)
    PROVE  /\ Inv' /\ UNCHANGED <<conns, robbed>>
           /\ server'[c].pc = "read" /\ client'[s].conn = c
           /\ \A d \in Conn : d # c => server'[d] = server[d]
           /\ \A t \in Session : t # s => client'[t] = client[t]
<1> DEFINE g == [pc |-> "read", session |-> s, frame |-> None]
           l == [conn |-> c, wait |-> {}, astray |-> {}]
<1>1. /\ server' = [server EXCEPT ![c] = g] /\ client' = [client EXCEPT ![s] = l]
      /\ UNCHANGED <<cache, stored, conns, inbox, known, robbed>> /\ server[c].pc = "none"
  BY DEF Dial
<1>2. g \in Goroutine /\ l \in ClientState /\ g.pc = "read" /\ g.session = s /\ l.conn = c
  BY DEF Goroutine, PC, ClientState
<1> HIDE DEF g, l
<1>3. Types'
  BY <1>1, <1>2 DEF Inv, Types
<1>4. /\ server'[c] = g /\ \A d \in Conn : d # c => server'[d] = server[d]
      /\ client'[s] = l /\ \A t \in Session : t # s => client'[t] = client[t]
  BY <1>1 DEF Inv, Types
<1>5. c \notin serving /\ serving' = serving \cup {c}
  BY <1>1, <1>2, <1>4 DEF serving
<1>6. Dialled'
  BY <1>2, <1>4 DEF Inv, Dialled
<1>7. ClientServed'
  BY <1>2, <1>4, <1>5 DEF Inv, ClientServed
<1>8. NoDeadEntry'
  BY <1>1, <1>5 DEF Inv, NoDeadEntry
<1> QED BY <1>1, <1>2, <1>3, <1>4, <1>6, <1>7, <1>8 DEF Inv

\* A frame more on the client's connection.
LEMMA RequestKeeps ==
    ASSUME Inv, NEW s \in Session, Request(s) \/ StartExchange(s)
    PROVE  /\ Inv' /\ SameClients /\ UNCHANGED <<server, conns, robbed>>
<1> DEFINE c == client[s].conn
<1>1. Types
  BY DEF Inv
<1>2. PICK f \in Frame, W \in SUBSET Frame : Send(s, f, W)
  <2>1. client[s].wait \in SUBSET Frame
    BY <1>1 DEF Types, ClientState
  <2>2. CASE Request(s)
    <3>1. PICK i \in fresh : i = CHOOSE j \in fresh : TRUE
      BY <2>2 DEF Request
    <3>2. i \in Frame
      BY <3>1 DEF fresh, Frame
    <3>3. client[s].wait \ {Exchange} \in SUBSET Frame
      BY <2>1
    <3> QED BY <2>2, <3>1, <3>2, <3>3 DEF Request
  <2>3. CASE StartExchange(s)
    <3>1. Exchange \in Frame /\ {} \in SUBSET Frame
      BY DEF Frame
    <3> QED BY <2>3, <3>1 DEF StartExchange
  <2> QED BY <2>2, <2>3
<1>3. /\ UNCHANGED <<cache, stored, conns, server, known, robbed>> /\ c # None
      /\ inbox' = [inbox EXCEPT ![c] = Append(inbox[c], f)]
      /\ client' = [client EXCEPT ![s].wait = W \cup {f}]
  BY <1>2 DEF Send
<1>4. client' \in [Session -> ClientState] /\ SameClients
  <2>1. client[s] \in ClientState /\ W \cup {f} \in SUBSET Frame
    BY <1>1 DEF Types
  <2>2. client[s].astray \in SUBSET Frame
    BY <2>1 DEF ClientState
  <2>3. client' = [client EXCEPT ![s] = [client[s] EXCEPT !.wait = W \cup {f},
                                                          !.astray = client[s].astray]]
    BY <1>3, <2>1 DEF ClientState
  <2> QED BY <1>1, <2>1, <2>2, <2>3, ClientKeeps
<1>5. inbox' \in [Conn -> Seq(Frame)]
  <2>1. inbox \in [Conn -> Seq(Frame)] /\ c \in Conn
    BY <1>1, <1>3 DEF Types, ClientState
  <2> HIDE DEF c
  <2> QED BY <1>3, <2>1
<1>6. Types'
  BY <1>1, <1>3, <1>4, <1>5 DEF Types
<1>7. Dialled' /\ ClientServed' /\ NoDeadEntry'
  BY <1>3, <1>4 DEF Inv, Dialled, ClientServed, NoDeadEntry, SameClients, serving
<1> QED BY <1>3, <1>4, <1>6, <1>7 DEF Inv

\* The end of a connection takes it from the registry and from its client.
LEMMA CloseKeeps ==
    ASSUME Inv, NEW c \in Conn, closeConn(c)
    PROVE  /\ Inv' /\ server'[c].pc = "ended" /\ robbed' = robbed \ {c}
           /\ \A d \in Conn : d # c => server'[d] = server[d]
           /\ \A s \in Session :
                 /\ conns'[s].conn = IF conns[s].conn = c THEN None ELSE conns[s].conn
                 /\ client'[s].conn = IF client[s].conn = c THEN None ELSE client[s].conn
<1>1. /\ server[c].pc = "closing" /\ goto(c, "ended") /\ UNCHANGED <<cache, stored, known>>
      /\ inbox' = [inbox EXCEPT ![c] = <<>>] /\ robbed' = robbed \ {c}
      /\ conns' = [s \in Session |-> IF conns[s].conn = c THEN NoEntry ELSE conns[s]]
      /\ client' = [s \in Session |-> IF client[s].conn = c THEN NoClient ELSE client[s]]
  BY DEF closeConn, removeConn
<1>2. /\ server' \in [Conn -> Goroutine] /\ server'[c].pc = "ended"
      /\ server'[c].session = server[c].session
      /\ \A d \in Conn : d # c => server'[d] = server[d]
  BY <1>1, GotoMoves DEF Inv, PC, Moves
<1>3. NoEntry \in Entry /\ NoClient \in ClientState /\ NoEntry.conn = None /\ NoClient.conn = None
  BY DEF NoEntry, Entry, NoClient, ClientState
<1>4. inbox' \in [Conn -> Seq(Frame)]
  BY <1>1 DEF Inv, Types
<1>5. conns' \in [Session -> Entry] /\ client' \in [Session -> ClientState]
  BY <1>1, <1>3 DEF Inv, Types
<1>6. Types'
  BY <1>1, <1>2, <1>4, <1>5 DEF Inv, Types
<1>7. \A s \in Session :
          /\ conns'[s].conn = IF conns[s].conn = c THEN None ELSE conns[s].conn
          /\ client'[s].conn = IF client[s].conn = c THEN None ELSE client[s].conn
  BY <1>1, <1>3
<1>8. c \in serving /\ serving' = serving \ {c}
  BY <1>1, <1>2 DEF serving
<1>9. Dialled'
  BY <1>1, <1>2 DEF Inv, Dialled
<1>10. ClientServed'
  BY <1>2, <1>7, <1>8, TransportAssumption DEF Inv, ClientServed
<1>11. NoDeadEntry'
  BY <1>7, <1>8 DEF Inv, NoDeadEntry
<1> QED BY <1>1, <1>2, <1>6, <1>7, <1>9, <1>10, <1>11 DEF Inv

\* After a restart nobody is connected.
LEMMA RestartKeeps ==
    ASSUME Inv, Restart
    PROVE  /\ Inv'
           /\ \A c \in Conn : server'[c].pc \in {"none", "ended"}
<1>1. /\ UNCHANGED <<stored, known>> /\ cache' = {} /\ robbed' = {}
      /\ conns' = [s \in Session |-> NoEntry] /\ inbox' = [c \in Conn |-> <<>>]
      /\ client' = [s \in Session |-> NoClient]
      /\ server' = [c \in Conn |->
            IF c \in serving THEN [server[c] EXCEPT !.pc = "ended", !.frame = None] ELSE server[c]]
  BY DEF Restart
<1>2. NoEntry \in Entry /\ NoClient \in ClientState /\ NoEntry.conn = None /\ NoClient.conn = None
  BY DEF NoEntry, Entry, NoClient, ClientState
<1>3. ASSUME NEW c \in Conn
      PROVE  /\ server'[c] \in Goroutine /\ server'[c].pc \in {"none", "ended"}
             /\ server'[c].session = server[c].session
             /\ server[c].pc = "none" => server'[c].pc = "none"
  <2>1. server[c] \in Goroutine
    BY DEF Inv, Types
  <2>2. CASE c \in serving
    <3>1. server'[c] = [server[c] EXCEPT !.pc = "ended", !.frame = None]
      BY <1>1, <2>2
    <3>2. server[c].pc # "none"
      BY <2>2 DEF serving
    <3> QED BY <2>1, <3>1, <3>2 DEF Goroutine, PC
  <2>3. CASE c \notin serving
    <3>1. server'[c] = server[c]
      BY <1>1, <2>3
    <3>2. server[c].pc \in {"none", "ended"}
      BY <2>3 DEF serving
    <3> QED BY <2>1, <3>1, <3>2
  <2> QED BY <2>2, <2>3
<1>4. server' \in [Conn -> Goroutine]
  BY <1>1, <1>3
<1>5. Types'
  <2>1. conns' \in [Session -> Entry] /\ client' \in [Session -> ClientState]
    BY <1>1, <1>2
  <2>2. inbox' \in [Conn -> Seq(Frame)]
    <3>1. <<>> \in Seq(Frame)
      OBVIOUS
    <3> QED BY <1>1, <3>1
  <2> QED BY <1>1, <1>4, <2>1, <2>2 DEF Inv, Types
<1>6. Dialled'
  BY <1>3 DEF Inv, Dialled
<1>7. ClientServed' /\ NoDeadEntry'
  BY <1>1, <1>2, TransportAssumption DEF ClientServed, NoDeadEntry
<1> QED BY <1>3, <1>5, <1>6, <1>7 DEF Inv

\* Every step keeps the invariant.
LEMMA NextInv ==
    ASSUME Inv, [Next]_vars
    PROVE  Inv'
<1>1. ASSUME NEW s \in Session, NEW c \in Conn, Dial(s, c)
      PROVE  Inv'
  BY <1>1, DialKeeps
<1>2. ASSUME NEW s \in Session, Request(s) \/ StartExchange(s)
      PROVE  Inv'
  BY <1>2, RequestKeeps
<1>3. ASSUME NEW c \in Conn, serveConn(c) \/ readFails(c)
      PROVE  Inv'
  <2>1. CASE closeConn(c)
    BY <2>1, CloseKeeps
  <2>2. CASE ~closeConn(c)
    <3>1. /\ c \in serving /\ Types' /\ SameClients
          /\ \E pc \in PC \ {"none", "ended"} : Moves(c, pc)
          /\ \A s \in Session : conns'[s].conn \in {conns[s].conn, c}
      BY <1>3, <2>2, ServeMoves DEF serveConn
    <3> QED BY <3>1, MoveKeeps
  <2> QED BY <2>1, <2>2
<1>4. CASE Restart
  BY <1>4, RestartKeeps
<1>5. CASE UNCHANGED vars
  BY <1>5 DEF vars, Inv, Types, Dialled, ClientServed, NoDeadEntry, serving
<1> QED BY <1>1, <1>2, <1>3, <1>4, <1>5 DEF Next

\* The tables keep their types, and a client listens on a connection that is served.
THEOREM RegistryHolds == Spec => []Inv
<1>1. Init => Inv
  BY InitInv
<1>2. Inv /\ [Next]_vars => Inv'
  BY NextInv
<1> QED BY <1>1, <1>2, PTL DEF Spec

\* Every variable of the transport keeps its type.
THEOREM TypeCorrect == Spec => []TypeOK
<1>1. Inv => TypeOK
  BY TypesOK DEF Inv
<1> QED BY <1>1, RegistryHolds, PTL

\* No connection whose goroutine has ended stays in the registry, whatever connections
\* of a session overlap, fail or restart (createConnection, removeConn).
THEOREM NoneDeadRegistered == Spec => []NoDeadEntry
<1>1. Inv => NoDeadEntry
  BY DEF Inv
<1> QED BY <1>1, RegistryHolds, PTL

-----------------------------------------------------------------------------
(* Answers *)

\* The steps in which an answer is still to come.
Owing == {"hello", "handle", "answer"}

\* A goroutine that goes on without entering its connection in the registry.
LEMMA MoveAnswers ==
    ASSUME Inv, AnswerReachesClient, NEW c \in Conn, NEW pc \in PC, Moves(c, pc), SameClients,
           UNCHANGED <<conns, robbed>>, pc \in Owing => server[c].pc \in Owing
    PROVE  AnswerReachesClient'
<1> SUFFICES ASSUME NEW d \in Conn, server'[d].pc \in Owing,
                    client'[server'[d].session].conn = d, d \notin robbed'
             PROVE  conns'[server'[d].session].conn = d
  BY DEF AnswerReachesClient, Owing
<1>1. server'[d].session = server[d].session /\ server[d].pc \in Owing
  BY DEF Moves
<1>2. server[d].session \in Session
  BY <1>1 DEF Inv, Dialled, Owing
<1>3. client[server[d].session].conn = d
  BY <1>1, <1>2 DEF SameClients
<1> QED BY <1>1, <1>3 DEF AnswerReachesClient, Owing

\* createConnection leads the registry to the goroutine's own connection, and notes
\* whose entry it took.
LEMMA CreateAnswers ==
    ASSUME Inv, AnswerReachesClient, NEW c \in Conn, create(c)
    PROVE  AnswerReachesClient'
<1> DEFINE s == server[c].session
<1>1. /\ server[c].pc = "create" /\ (goto(c, "handle") \/ goto(c, "hello"))
      /\ conns' = [conns EXCEPT ![s] = [conn |-> c, sent |-> TRUE]] /\ client' = client
      /\ robbed' = IF client[s].conn = c THEN robbed \ {c}
                   ELSE robbed \cup ({client[s].conn} \ {None})
  BY DEF create
<1>2. /\ server'[c].session = s
      /\ \A d \in Conn : d # c => server'[d] = server[d]
  BY <1>1, GotoMoves DEF Inv, PC, Moves
<1>3. s \in Session
  BY <1>1 DEF Inv, Dialled
<1>4. conns'[s].conn = c /\ \A t \in Session : t # s => conns'[t] = conns[t]
  BY <1>1, <1>3 DEF Inv, Types
<1> SUFFICES ASSUME NEW d \in Conn, server'[d].pc \in Owing,
                    client'[server'[d].session].conn = d, d \notin robbed'
             PROVE  conns'[server'[d].session].conn = d
  BY DEF AnswerReachesClient, Owing
<1>5. CASE d = c
  BY <1>2, <1>4, <1>5
<1>6. CASE d # c
  <2>1. server'[d] = server[d] /\ client[server[d].session].conn = d /\ d # None
    BY <1>1, <1>2, <1>6, TransportAssumption
  <2>2. server[d].session \in Session
    BY <2>1 DEF Inv, Dialled, Owing
  <2>3. server[d].session # s /\ d \notin robbed
    BY <1>1, <1>6, <2>1
  <2>4. conns[server[d].session].conn = d
    BY <2>1, <2>3 DEF AnswerReachesClient, Owing
  <2> QED BY <1>4, <2>1, <2>2, <2>3, <2>4
<1> QED BY <1>5, <1>6

\* On a new connection nothing is owed yet.
LEMMA DialAnswers ==
    ASSUME Inv, AnswerReachesClient, NEW s \in Session, NEW c \in Conn, Dial(s, c)
    PROVE  AnswerReachesClient'
<1>1. /\ UNCHANGED <<conns, robbed>> /\ server'[c].pc = "read" /\ client'[s].conn = c
      /\ \A d \in Conn : d # c => server'[d] = server[d]
      /\ \A t \in Session : t # s => client'[t] = client[t]
  BY DialKeeps
<1> SUFFICES ASSUME NEW d \in Conn, server'[d].pc \in Owing,
                    client'[server'[d].session].conn = d, d \notin robbed'
             PROVE  conns'[server'[d].session].conn = d
  BY DEF AnswerReachesClient, Owing
<1>2. d # c
  BY <1>1 DEF Owing
<1>3. server'[d] = server[d] /\ server[d].session \in Session
  BY <1>1, <1>2 DEF Inv, Dialled, Owing
<1>4. client[server[d].session].conn = d
  BY <1>1, <1>2, <1>3
<1> QED BY <1>1, <1>3, <1>4 DEF AnswerReachesClient, Owing

\* The end of a connection leaves the entries of the others.
LEMMA CloseAnswers ==
    ASSUME Inv, AnswerReachesClient, NEW c \in Conn, closeConn(c)
    PROVE  AnswerReachesClient'
<1>1. /\ server'[c].pc = "ended" /\ robbed' = robbed \ {c}
      /\ \A d \in Conn : d # c => server'[d] = server[d]
      /\ \A s \in Session :
            /\ conns'[s].conn = IF conns[s].conn = c THEN None ELSE conns[s].conn
            /\ client'[s].conn = IF client[s].conn = c THEN None ELSE client[s].conn
  BY CloseKeeps
<1> SUFFICES ASSUME NEW d \in Conn, server'[d].pc \in Owing,
                    client'[server'[d].session].conn = d, d \notin robbed'
             PROVE  conns'[server'[d].session].conn = d
  BY DEF AnswerReachesClient, Owing
<1>2. d # c /\ d # None /\ d \notin robbed
  BY <1>1, TransportAssumption DEF Owing
<1>3. server'[d] = server[d] /\ server[d].session \in Session
  BY <1>1, <1>2 DEF Inv, Dialled, Owing
<1>4. client[server[d].session].conn = d
  BY <1>1, <1>2, <1>3
<1>5. conns[server[d].session].conn = d
  BY <1>2, <1>3, <1>4 DEF AnswerReachesClient, Owing
<1> QED BY <1>1, <1>2, <1>3, <1>5

\* The steps of serveConn that neither end it nor enter it in the registry.
LEMMA ServeAnswers ==
    ASSUME Inv, AnswerReachesClient, NEW c \in Conn,
           \/ readFrame(c) \/ readFails(c) \/ exchange(c) \/ save(c) \/ lookup(c)
           \/ hello(c) \/ handle(c) \/ SendResult(c)
    PROVE  AnswerReachesClient'
<1>1. SameClients /\ Types
  BY ServeMoves DEF Inv
<1>2. UNCHANGED <<conns, robbed>>
  BY DEF readFrame, readFails, exchange, save, lookup, hello, handle, SendResult
<1>3. \E pc \in PC : /\ goto(c, pc) \/ take(c, pc)
                     /\ pc \in Owing => server[c].pc \in Owing
  <2>1. CASE readFrame(c)
    BY <2>1 DEF readFrame, PC, Owing
  <2>2. CASE readFails(c)
    BY <2>2 DEF readFails, PC, Owing
  <2>3. CASE exchange(c)
    BY <2>3 DEF exchange, PC, Owing
  <2>4. CASE save(c)
    BY <2>4 DEF save, PC, Owing
  <2>5. CASE lookup(c)
    BY <2>5 DEF lookup, PC, Owing
  <2>6. CASE hello(c)
    BY <2>6 DEF hello, send, PC, Owing
  <2>7. CASE handle(c)
    BY <2>7 DEF handle, PC, Owing
  <2>8. CASE SendResult(c)
    BY <2>8 DEF SendResult, send, PC, Owing
  <2> QED BY <2>1, <2>2, <2>3, <2>4, <2>5, <2>6, <2>7, <2>8
<1>4. \E pc \in PC : Moves(c, pc) /\ (pc \in Owing => server[c].pc \in Owing)
  BY <1>1, <1>3, GotoMoves, TakeMoves
<1> QED BY <1>1, <1>2, <1>4, MoveAnswers

\* An answer goes to the connection its client listens on, whatever the end of an older
\* connection (removeConn), the answers of others and restarts do, for any number of
\* sessions and connections; only a frame of another connection takes the entry
\* (createConnection), until the client's next frame.
THEOREM AnswersReturn == Spec => []AnswerReachesClient
<1>1. Init => AnswerReachesClient
  BY DEF Init, AnswerReachesClient, Idle
<1>2. Inv /\ AnswerReachesClient /\ [Next]_vars => AnswerReachesClient'
  <2> SUFFICES ASSUME Inv, AnswerReachesClient, [Next]_vars
               PROVE  AnswerReachesClient'
    OBVIOUS
  <2>1. ASSUME NEW s \in Session, NEW c \in Conn, Dial(s, c)
        PROVE  AnswerReachesClient'
    BY <2>1, DialAnswers
  <2>2. ASSUME NEW s \in Session, Request(s) \/ StartExchange(s)
        PROVE  AnswerReachesClient'
    <3>1. SameClients /\ UNCHANGED <<server, conns, robbed>>
      BY <2>2, RequestKeeps
    <3> QED BY <3>1 DEF Inv, Dialled, SameClients, AnswerReachesClient
  <2>3. ASSUME NEW c \in Conn, serveConn(c) \/ readFails(c)
        PROVE  AnswerReachesClient'
    BY <2>3, ServeAnswers, CreateAnswers, CloseAnswers DEF serveConn
  <2>4. CASE Restart
    <3>1. \A c \in Conn : server'[c].pc \in {"none", "ended"}
      BY <2>4, RestartKeeps
    <3> QED BY <3>1 DEF AnswerReachesClient
  <2>5. CASE UNCHANGED vars
    BY <2>5 DEF vars, AnswerReachesClient
  <2> QED BY <2>1, <2>2, <2>3, <2>4, <2>5 DEF Next
<1> QED BY <1>1, <1>2, RegistryHolds, PTL DEF Spec

-----------------------------------------------------------------------------
(* Keys *)

\* Only a look-up takes a key from a client, and only one that it finds neither in the
\* cache nor in the storage.
LEMMA DroppedUnstored ==
    ASSUME [Next]_vars, NEW k \in known \ known'
    PROVE  k \notin stored
<1>1. ASSUME NEW c \in Conn, lookup(c)
      PROVE  k \notin stored
  <2>1. ~resolvable(keyOf[server[c].session]) /\ known' = known \ {keyOf[server[c].session]}
    BY <1>1 DEF lookup
  <2> QED BY <2>1 DEF resolvable
<1>2. ASSUME NEW c \in Conn, exchange(c)
      PROVE  FALSE
  BY <1>2 DEF exchange
<1>3. ASSUME NEW s \in Session, NEW c \in Conn, Dial(s, c)
      PROVE  FALSE
  BY <1>3 DEF Dial
<1>4. ASSUME NEW s \in Session, Request(s) \/ StartExchange(s)
      PROVE  FALSE
  BY <1>4 DEF Request, StartExchange, Send
<1>5. ASSUME NEW c \in Conn,
             \/ readFrame(c) \/ readFails(c) \/ save(c) \/ create(c) \/ hello(c)
             \/ handle(c) \/ SendResult(c) \/ closeConn(c)
      PROVE  FALSE
  BY <1>5 DEF readFrame, readFails, save, create, hello, handle, SendResult, closeConn
<1>6. CASE Restart \/ UNCHANGED vars
  BY <1>6 DEF Restart, vars
<1> QED BY <1>1, <1>2, <1>3, <1>4, <1>5, <1>6 DEF Next, serveConn

\* A client is told to drop its key only if the key was never stored, whatever restarts,
\* failing look-ups and exchanges came before (getSession against Save).
THEOREM StoredKeysResolve == Spec => StoredKeysServed
<1>1. [Next]_vars => [\A k \in known \ known' : k \notin stored]_vars
  BY DroppedUnstored
<1> QED BY <1>1, PTL DEF Spec, StoredKeysServed
=============================================================================
