# A TLA+ development for teled

teled is a self-hosted Telegram-compatible server in Go: an MTProto transport,
RPC handlers for one-to-one messaging, and two interchangeable stores, one in
memory and one on PostgreSQL. This directory holds TLA+ models of the parts where
order, concurrency and failure matter, the TLC runs that check them on small
instances, and TLAPS proofs about all eight of them. `PROJECT.json` is the index: which
definition models which lines, what each run checks, the hazards each property is
for, the findings.

Run a model with `tlc -config MCPgStore.cfg MCPgStore`, check proofs
with `tlapm MessageStore_proofs.tla` (likewise `PgStore_proofs`, `Mailbox_proofs`,
`UpdateDelivery_proofs`, `Upload_proofs`, `Transport_proofs`, `Login_proofs`,
`BotFather_proofs`).

## The system

| part | state it keeps | operations | what is hard |
|---|---|---|---|
| In-memory store (`memory/db.go`) | canonical messages; per account: last local id, pts, references, update log | SendMessage, EditMessage, DeleteMessages, ReadHistory; GetHistory, GetDialogs, GetDifference | two numberings of one message, receipts and unread flags that must agree with the log; one mutex, so no interleaving |
| PostgreSQL store (`internal/db`) | the same in tables | the same, as transactions | READ COMMITTED snapshots per statement, row locks taken in opposite orders, rollback, sequence values that are not given back |
| RPC handlers (`internal/rpc/messages*.go`, `updates.go`) | none: goroutine locals | sendMessage, editMessage, deleteMessages, readHistory, getDifference, push | commit, push and answer are separate steps of concurrent goroutines; pushes are best-effort |
| Session registry (`internal/rpc/registry.go`) | account -> sessions | track, get, untrack | a snapshot is used after the registry changed |
| Login (`internal/rpc/auth.go`, `convert.go`; sessions, codes and keys in both stores) | accounts, codes, key -> account, temporary -> permanent key | sendCode, signIn, signUp, importBotAuthorization, bindTempAuthKey, logOut | look-up and creation in two calls; keys that expire while a request runs |
| Transport (`internal/mtproto`) | key cache, session -> connection | serveConn, key exchange, Send, removeConn | old and new connection of one session at once; restart; a key cached before it is stored |
| Key storage (`internal/mtproto/keystorage.go`, `internal/db/keystore.go`) | auth keys | Save, Get | failure |
| BotFather (`internal/rpc/botfather.go`) | per owner: step and draft name | /newbot, /revoke, /cancel, ... | two sessions of one owner in one dialogue |
| Uploads and media (`media.go`, `staging.go`, `internal/objstore`, `memory/objstore.go`) | staged parts in memory, objects, file rows | saveFilePart, sendMedia, getFile | parts repeated, late and against the assembly; four steps that can each fail; restarts; the same object written while it is read |
| Reading a mailbox (`messages.go`, `messages_more.go`, `drafts.go`) | drafts; else goroutine locals | getHistory, getSavedHistory, getDialogs, getPeerDialogs, saveDraft | an answer put together from several store calls, pages fetched while messages come and go |
| Contacts, profiles, bot commands | one row each | set, delete, list | little |
| Static answers, entities, queue, server assembly, observability | none | | nothing: not modelled |

A request travels: a connection's goroutine reads a frame, resolves its auth key
(cache, then key storage), enters the connection in the connection registry under
the frame's session id, and calls the RPC handler. The handler resolves the key to
an account, tracks the session for pushes, commits to the store, pushes to the
sessions of the other account, and answers through the connection registry.
Clients recover whatever a push did not bring them with `updates.getDifference`.

### What makes the parts correct

- Store: every account's log is a gapless numbering by pts; both participants have
  one copy of each message; receipts, unread flags and dialogs say the same.
- PostgreSQL: the same, whatever transactions interleave and fail; nothing hangs.
- Delivery: of the updates up to its own pts a client misses only what a difference
  left out and what an update of another account's stream hides (both findings below),
  and a connected client gets to the account's pts.
- Transport: no dead connection is registered, an answer goes to the connection of
  the request and nobody waits forever, unless a late frame of an older connection took
  the registry entry (a finding); a stored key is accepted after a restart.
- Uploads: what was sent stays readable and unchanged, a download is exact, the first
  sendMedia of an upload sends the whole file, a client that starts over succeeds.
- Mailbox: paging misses nothing, a dialog list is whole up to its limit although read
  in pieces, and its read state agrees with the update stream, but for the zeroes shown
  of a conversation behind the limit.
- BotFather: usernames are unique, a token leads to its bot, the stored step is the
  question that was asked.
- Login: one account per number, a login needs a code for its number, what a
  client was told about its login is so under its next key.

## Modules

| module | models | composes |
|---|---|---|
| `UpdateLog` | the promise of `teled.DB` about pts and logs: abstract specification | |
| `MessageStore` | the messaging half of `memory/db.go` | INSTANCE UpdateLog, refinement `UpdateStream` |
| `MessageStore_proofs` | theorems about MessageStore | EXTENDS MessageStore |
| `PgStore` | the messaging half of `internal/db`, statement by statement | INSTANCE MessageStore for its helpers and properties; refines UpdateLog through it |
| `PgStore_proofs` | theorems about PgStore | EXTENDS PgStore, INSTANCE MessageStore_proofs for its lemmas |
| `UpdateDelivery` | handlers, session registry, wire and client | INSTANCE UpdateLog as its store |
| `UpdateDelivery_proofs` | theorems about UpdateDelivery | EXTENDS UpdateDelivery |
| `Transport` | `internal/mtproto` connections, keys and restarts | |
| `Transport_proofs` | theorems about Transport | EXTENDS Transport |
| `Login` | `auth.go`, key resolution, tracking, the tables behind them | |
| `Login_proofs` | theorems about Login | EXTENDS Login |
| `BotFather` | `botfather.go`, account.updateUsername, importBotAuthorization, the rows behind them | |
| `BotFather_proofs` | theorems about BotFather | EXTENDS BotFather |
| `Album` | the promise about messages with media: abstract specification | |
| `Upload` | `media.go`, `staging.go`, both object stores, the file rows | INSTANCE Album, refinement `MediaPersists` |
| `Upload_proofs` | theorems about Upload | EXTENDS Upload |
| `Mailbox` | the reading requests of `messages.go` and `messages_more.go`, drafts | EXTENDS MessageStore: the store is its, the requests read it call by call |
| `Mailbox_proofs` | theorems about Mailbox | EXTENDS Mailbox, MessageStore_proofs |
| `MC*` | instances for TLC | |

`MessageStore`. Each exported method is one action, since one mutex guards the
store. `messages` is a sequence indexed by global id, `refs[u]` an account's
references by local id, `updates[u]` its log, all as in the Go maps. Left out:
dates, media, limits of the list queries. A delete request is a function from
positions to ids because the code counts repeated ids again.

`PgStore`. A transaction is a record `tx[t]` with a program counter; a statement is
an action. Writes are kept in the record and reach the tables at Commit: that is
what other transactions can see under READ COMMITTED. An UPDATE needs its rows free,
and its condition is evaluated once they are. It takes their locks together where
Postgres takes them row by row (`markRead`): a row locked earlier could not change, and
the longer waits and cycles of row by row end in a rollback, which the model may take there. `Rollback` may strike at any
statement; `DeadlockVictim` strikes one of a cycle of waits. Locks are Postgres and
external. `sequence` is not rolled back.

`UpdateDelivery`. A handler is a goroutine: it commits, then pushes to a snapshot of
the registry's sessions one by one, untracking those that failed, then answers.
GetDifference is two statements, as in PostgreSQL; under the memory store's one lock
nothing happens between them. The client is external and follows the rules of
docs/research/m4-updates.md: it applies an update that starts at its pts, ignores an
older one and fetches the difference otherwise. The store is any implementation of
UpdateLog; `Commit` extends the logs. `differenceReply` leaves out the entries beyond
DifferenceLimit and, where `LookupMayFail`, any whose message `messageByGlobal` does not
find; the state is the account's pts all the same. A Send may fail on a live connection
too, so that a connected session is untracked. An edit names any peer. Three ghosts
record what this does to a client: `have`, the entries of its log it was given, `lost`,
those a difference left out behind its state, and `foreign`, positions it reached by an
update of another account's stream.

`Transport`. `server[c]` is the goroutine of connection c at a step of `serveConn`.
`create` is createConnection and sentCreated; `send` goes to the connection the
registry holds at that moment, with `writeTimeout` and broken sockets as a failure
that ends the goroutine. `Restart` keeps only the key storage. A frame is the message id
of a request or the first of an exchange; an encrypted frame that meets a running
exchange is served as a request, as the code does. A client may send several requests
ahead and waits for each message id (`wait`), and may leave a connection with frames
unread. Two ghosts: `robbed`, connections whose registry entry a frame of another one
took, until the client's next frame, and `astray`, requests whose answer went to a
connection their client does not listen on. A connection carries one session, fixed when
it is dialled: an assumption about clients, since the code takes the session from each
frame (`internal/mtproto/handle.go:58`).

`BotFather`. A handler makes one store call per step. `users` holds accounts by id
with username, owner and token; a token is its bot's id and a fresh secret.
`botStates[u]` is the stored step. `talk[u]` is history: the step the answers left
the owner at, "unclear" when messages overlapped or an answer was lost. The draft
name and all wording are left out.

`Login`. One request per session, one store call per step. `resolve` is
effectiveKeyID wherever it is called; its failure is ignored by OnMessage
(`untracked`) and by authLogOut (`unresolved`). Binding or unbinding a key and the
answer (`authorized`) are separate steps, so that `fail` includes an answer that was
lost after the login took effect: the client then does not know. Codes are right or
wrong, phone numbers and tokens are names; each hash is issued once.

`Upload`. A handler is a goroutine at a step of saveFilePart or sendMedia. `staging`
maps a client's file id to a staged file and `staged` holds the parts, because the
code looks the file up under the lock and puts the part into it after. sendMedia is
take, assemble, put object, save row, send message; each store call may `fail`.
FS.Put copies into a temporary file and renames it, memory's Put is one step;
`backend` chooses. `Restart` empties staging and handlers and keeps what is on disk.
A byte stands for a part and a content is its own hash. Clients upload one file each,
give up on answers (`Timeout`) while the request goes on, and start over with a new
file id after a refusal.

`Mailbox`. `request` is the one reading request under way with everything it has read
so far; each store call is an action and the store of MessageStore changes in
between (`Change`). Readers change nothing, so one at a time suffices. The ghost `cut`
says whether the list of dialogs was cut at DialogsLimit.

## Runs

Passing runs and what they show:

| run | instance | properties |
|---|---|---|
| store | 2 users, 2 texts, 2 messages, 3 pts each, 2 ids per deletion | TypeOK, LogContiguous, CopiesMatch, LogTellsMessages, ReceiptsExact, UnreadFollowsLog, UpdateStream, CopiesPersist |
| postgres | 2 users, 2 transactions at once, 3 operations | AsInMemory (the in-memory store's invariants hold of the committed tables under interleaved, failing transactions), UpdateStream, CopiesPersist, ConversationOrder, EveryTxEnds |
| delivery | 2 accounts, 1 session each, one writes (its answers and the other's pushes are both streams), the other's connection breaks and sends on it fail, 2 goroutines, 2 pts, differences of 1 entry, look-ups that fail, two-statement GetDifference | TypeOK, MissesExplained, ClientInStep, EventuallyInSync |
| transport | 1 session, 3 connections, 2 requests sent ahead, 1 restart, key storage that fails | TypeOK, NoDeadEntry, AnswerReachesClient, StoredKeysServed, EventuallyAnswered |
| login | 1 client, 2 sessions, 2 temporary keys, 2 numbers, look-ups that fail, answers that are lost | TypeOK, LoginNeedsCode, LoginHolds |
| login_live | 2 clients that follow the protocol, 1 number, 1 bot token | OneAccountEach, EventuallyLoggedIn |
| botfather | 1 owner, 2 goroutines, 2 usernames that differ in case, 2 bots, 2 secrets, calls that fail | TypeOK, UsernameOnce, LoginsReuseAccount, AskedIsStored |
| upload | 1 client with a file of 2 parts, 3 goroutines, 2 faults of any kind, chunks of 1, both object stores | TypeOK, DownloadsExact, SentWhole, MediaPersists, EventuallySent |
| mailbox | 2 users of which one reads, 3 messages, pages of 1, lists of 1 dialog, 2 peers per request, 1 draft | HistoryComplete, DialogsWhole, ReadStateReal |

Runs that are violated, each a finding in `PROJECT.json` with the line it quotes:

| run | what the code does |
|---|---|
| delivery_limit | a difference cut at its limit reports the latest pts (NoMissedUpdate) |
| delivery_edit | an edit that names another peer is pushed there, with a pts of the real peer's stream (PushesOwnStream) |
| transport_stale | a late frame of the old connection takes the registry entry back (ReplacedByNewer) |

Two assumptions about clients are constants of the modules: `KnownReads` (clients
read up to ids they were given) and `RotatesInTime` (a client changes its temporary key
before it expires). Both are TRUE in the passing runs; with `KnownReads` FALSE the
receipts of AsInMemory fail, with `RotatesInTime` FALSE LoginHolds.

The properties that hold only outside a defect of the code name the defect and nothing
more: MissesExplained excepts the entries a difference left out (`lost`) and positions
of another stream (`foreign`), EventuallyAnswered and AnswerReachesClient the requests
and connections a late frame of an older connection robbed (`astray`, `robbed`),
ReadStateReal the zeroes of a list that was cut. Each of these fails in its run when the
exception is dropped. ClientInStep excepts `foreign` positions too; two pts per account
are too few to need it, and the theorem `ClientsInStep` covers the rest.

### Other places where code and text disagree

Met while modelling; the models behave as the code does, and no run is about them.

- DeleteMessages logs the deletion for its caller only (`memory/db.go:886`), while the
  message leaves both mailboxes; docs/research/m3-messaging.md:49 asks for an update
  to the other side.
- `internal/rpc/registry.go:10` says the registry maps logged-in users to their
  sessions; neither logOut (`internal/rpc/auth.go:319`) nor another login untracks
  the session, so the former account's updates go on being pushed to it.
- docs/schema.md:195 calls the staging of uploads "Crash-safe"; it is in memory
  (`internal/rpc/staging.go:55`). After a restart between two parts the remaining ones
  make a shorter file, which sendMedia assembles and sends without notice. SentWhole
  leaves these uploads out.
- A part that is repeated after sendMedia took the staged file starts a new one, and
  a repeated sendMedia sends that fragment; SentWhole speaks of an upload's first
  sendMedia. docs/research/m5-media.md:35 calls the random id a dedup key; it is not
  looked up.
- A failure after the object or the row was stored leaves it unused (the object is
  found again by its hash); a process that ends in FS.Put leaves its temporary file.
- `messageByGlobal` (`internal/rpc/updates.go:110`) takes an error of the store for a
  message that is not there; the difference leaves the entry out and its state (`:106`) is
  past it, so the client misses that update for good, against
  docs/research/m4-updates.md:30 ("Return all events"). NoMissedUpdate fails on it as it
  does on the limit; MissesExplained shows that nothing else is missed.
- getPeerDialogs looks its peers up among the 100 newest conversations
  (`internal/rpc/messages_more.go:167`); an older one is answered with zeroes, although
  the comment (`:117`) asks for the real read state, and so is a draft in getDialogs.
  ReadStateReal leaves these zeroes out; without that it fails in the mailbox run.
  It also reads the dialogs before the state it reports (`:147`), which may be newer.
- Two saveDraft of one account are pushed without an order (`internal/rpc/drafts.go:58`).

- `message.go:15` calls the random id a "sender-provided dedup id"; neither store
  looks it up, so a repeated send is stored twice.
- The unread count ReadHistory reports (`memory/db.go:995`) includes deleted
  messages, the one of GetDialogs does not.
- PostgreSQL's ReadHistory (`internal/db/dialogs.go:72`) computes the receipt and
  marks the messages in two snapshots; with an id not yet given out a message is
  marked without a receipt.
- BotFather says "The previous token has stopped working"
  (`internal/rpc/botfather.go:265`); a login with it still succeeds, since
  importBotAuthorization makes a new account for a token nobody holds
  (`internal/rpc/auth.go:263`).
- Two messages of one owner to BotFather that overlap can undo each other's step:
  it is read in one call and written in a later one (`botfather.go:80`).
- docs/research/m4-updates.md:76 wants commit and push serialised per account; two
  handlers may push in the opposite order of their commits. Clients notice the gap.
- PostgreSQL's GetDifference (`internal/db/updates.go:63`) may return an entry beyond
  the state it reports (m4-updates.md:46, :51); clients fetch it again.
- `internal/rpc/registry.go:54` says a session is tracked again when it reconnects; a
  push that failed earlier can untrack it after that, and it gets no pushes until its
  next request. EventuallyInSync holds either way, since the client polls.
- `internal/mtproto/registry.go:28` says "Auth keys are durable"; a key whose Save
  failed stays in the cache and serves until the restart (`registry.go:51`).
- `internal/rpc/convert.go:164` says a login is bound to the permanent key; on an
  expired temporary key it is bound to that key (`convert.go:172`).
- authLogOut (`internal/rpc/auth.go:315`) goes on with the temporary key when the
  look-up of the permanent one fails, and answers success.

### Bounds

Two accounts are enough for every operation of the store, which touches at most two;
a chat with oneself is included. Two messages and three pts per account let a read,
an edit or a deletion fall between two sends and after each other. Two transactions
suffice for every lock conflict and for the deadlock of two sends; three would only
lengthen the cycle. Two goroutines and two pts let a difference run beside a push, a push
come after a later one was fetched, and a list of one entry be cut. The two goroutines
serve the writer and the listener; two writers whose pushes overtake each other, and the
writer's connection breaking too, are beyond a run that also checks liveness, and are
covered by the proofs, which bound neither. The two requests sent ahead are one in
hand and one unread when the client leaves.
Three operations are two that overlap and one that sees what they left. Three
connections let a session have an old, a current and a next one; the registry's
entries of different sessions never touch.
An upload of two parts has a first and a last one, can miss either, and with chunks of
one byte is a multiple of the chunk; three goroutines are the two parts and a request
of an earlier attempt; two faults are a failure and a failure of its repetition, or a
timeout whose request meets a restart. Three messages in a mailbox are two of one
conversation, so that there is a second page, and one that comes in between; the chat
with oneself is the second conversation, which a list of one dialog leaves out.
Symmetry is used only for safety runs and only over values no definition distinguishes.
Deadlock checking is off: bounded runs stop when their bounds are used up.

### Fairness

- postgres: weak fairness of each transaction's statements and of Postgres'
  deadlock detection. Nothing obliges a client to begin.
- delivery: weak fairness of a goroutine's steps (every Send has a write
  timeout) and of the network while the connection lasts; strong fairness of a
  connected client's getDifference, which its gap and idle timers call again and
  again. No fairness of writing, connecting or disconnecting.
- transport: weak fairness of serveConn's steps, and the end of the read loop
  when the client left (read error or `readTimeout`).
- upload: goroutines go on and clients keep asking; nothing need fail, time out or
  restart, and nobody need read. A client has one file id more than there are faults.
- login_live: clients that keep trying, handlers that finish; neither codes nor calls
  fail by themselves in this run.

## Proofs

Every theorem holds for all values of the constants that satisfy the module's
assumptions. Each rests on an inductive invariant, since the properties alone do not
survive a step; a lemma per action shows that the action keeps it.

`MessageStore_proofs`, from `UserAssumption` and `BoundAssumption`:

- `RefsResolve`: `Inv == TypeOK /\ RefsDense` is inductive. `TypeOK` alone is not:
  an edit or a deletion follows a reference to its message, so one needs that local
  ids are exactly `1..lastMessageID[u]` and that each reference names a message.
- `TypeCorrect`: the tables keep their types.
- `IdsAndDeletionsPersist`: `CopiesPersist`, one lemma per operation.
- `StoreImplementsUpdateLog`: every step of the store is a step of UpdateLog or
  leaves pts and logs alone; for DeleteMessages this needs that the number of
  positions found is a positive natural number (`DeleteCount`), for ReadHistory that
  the receipt's id is a local id (`AckedMax`, `MaxOfProperties`).
- `LogsContiguous`: from the refinement, an UpdateLog step keeps a log contiguous
  (`ExtendedContiguous`).
- `StoreHolds`: the invariant of the store's content, in two parts. `StoreInv` is what
  any store with these tables keeps: dense, resolvable tables, one copy per participant,
  the same order of shared messages on both sides (`SharedOrder`), a log that announces
  each message once, receipts that name ids given out. `ReadsInv` is `ReceiptsExact` and
  `UnreadFollowsLog`. A receipt is exact only because of `SharedOrder`: it names the
  largest id, in the sender's numbering, of what was read up to an id in the reader's.
- `OneCopyEach`, `LogsTell`, `ReceiptsAreExact`, `UnreadIsLogged`: CopiesMatch,
  LogTellsMessages, ReceiptsExact and UnreadFollowsLog, from it.

The lemmas behind StoreHolds speak of steps on the tables (`SendStep`, `EditStep`,
`DeleteStep`, `ReadStep`) in which the global id of a send, the references a read marks
and the id of its receipt are left open. The in-memory operations are such steps, and so
are the commits of PgStore.

`PgStore_proofs`, from `PgAssumption`:

- `TransactionsHold`: `PgInv` is `StoreInv` of the committed tables, `ReadsInv` if
  `KnownReads`, and `TxInv`: no row is locked twice (`LocksApart`), sends in progress
  have different global ids (`SendsApart`), and for each transaction, at each of its
  statements, what it has read and which locks it holds (`TxsOK`). A counter that
  `allocate` returned is the committed one plus what the transaction took until it
  ends, since its row is locked; what ReadHistory selected in its first snapshot is what
  its UPDATE marks in the second, if clients read up to ids they were given.
- A commit is therefore a step of the store, every other statement leaves the tables:
  `PgImplementsUpdateLog` (UpdateStream), `PgIdsAndDeletionsPersist` (CopiesPersist),
  `SharedOrderHolds` (ConversationOrder) and `PgCopiesAndLogs` hold for any number of
  connections, rollbacks and deadlocks; `PgAsInMemory` (AsInMemory) if `KnownReads`.
  Without it the two snapshots of ReadHistory can differ and AsInMemory fails.

`Mailbox_proofs`, from `MailboxAssumption` and those of MessageStore:

- `MailboxHolds`: `MailInv` is the store's invariant with `InboxExact` (an incoming
  message is unread if and only if no read in the log covers it), and for the request
  under way what its answer so far says of the mailbox: the pages fall and lack only
  what is below them (`historyOK`); the dialogs read are distinct, complete up to
  DialogsLimit, and agree with the log up to what the client knew (`readOK`); each
  dialog the loop has passed has its message (`topOK`). Everything speaks of ids up to
  the last one the client knew of, so that a message that arrives between two calls
  cannot break it (`kept`, `logKept`: references keep their conversation, entries stay,
  new ones are beyond both). `RequestStays` shows this once for all changes of the store;
  one lemma per call shows what it adds.
- `HistoryIsComplete`, `DialogsAreWhole`: HistoryComplete and DialogsWhole.
- `ReadStateIsReal`: ReadStateReal, for every DialogsLimit. A peer GetDialogs did not
  return has no conversation unless the list was cut (`complete`, `CompleteStays`), so
  that zeroes of a list that was not cut are exact.
- newest and GetDialogs are defined by rank and not by sorting, so that the proofs can
  use them (`Places`, `NewestListed`).

`UpdateDelivery_proofs`, from `DeliveryAssumption` alone: any number of accounts,
sessions, writers and goroutines, every limit, failing look-ups and edits that name
anybody.

- `DeliveryHolds`: no entry of a log ends inside another (`logOK`); a client holds every
  entry up to its pts but the explained ones (`clientOK`); each message on a wire or in a
  goroutine is an entry of its receiver's log, an update of another's, says that nothing
  was done, or is a state with every entry the client lacks up to there but those named
  `lost` (`messageOK`). The last is kept as logs grow (`MessageGrows`), since new entries
  end after the pts a difference names, and as the client takes other entries in the
  meantime (`HandlerStays`). A Postgres difference between its two statements has a pts
  that was the account's: the entries read later cover it.
- `OnlyExplainedMisses`, `ClientsInStep`, `TypeCorrect`: MissesExplained, ClientInStep and
  TypeOK, for both stores.

`Upload_proofs`, from `UploadAssumption`:

- `StoresHold`: types, staged files that exist, every object under the hash of its
  content, every row with an object, every message with a row, and for each goroutine
  what it has stored so far. The object a `copy` will rename over must be a prefix of
  the content until then: this is what makes the rename harmless to readers.
- `MediaIsKept`: the stores implement Album. `rename` and `putObject` write an object
  that is either new or the same as before; rows and messages are only appended.
- `DownloadsAreExact`: what a download has is a prefix of the content, of a length the
  next request may begin at; `ChunkExact` says what GetRange adds to it, also at the
  very end.
- `UploadsHold`: a staged file belongs to one upload of one client (`OwnedBy`, a history
  the invariant only says to exist) and holds parts of that client's file; a part on its way
  goes to the staged file that sendMedia will take or has taken (`UploadsOK`); what was
  acknowledged is there unless the file was taken or lost (`AckedStaged`); and every
  file id a client used up was paid for by a fault (`Budget`). The last one is why
  `TypeCorrect` holds: a client has always an id left to start over with.
- `SentIsWhole`: SentWhole. When sendMedia takes the staged file for the first time all
  parts are acknowledged, so they are in it, and late parts only repeat what is there.
- assemble is defined with a rank, not recursively, so that these proofs can use it.

`Transport_proofs`, from `TransportAssumption`:

- `RegistryHolds`, `TypeCorrect`, `NoneDeadRegistered`: an entry of the registry is a
  connection whose goroutine has not yet taken the entries of its connection out.
- `AnswersReturn`: AnswerReachesClient, whatever clients leave unread. Between a
  connection's own frame and its answer only `create` of another goroutine of the session
  moves the entry, and that is what `robbed` records.
- `StoredKeysResolve`: StoredKeysServed, an action property: only a look-up that finds
  the key neither in the cache nor in the storage makes a client drop it.

`Login_proofs`, from `LoginAssumption`:

- `AccountsHold`: for each request, what it has found out (`requestOK`) still holds at
  its later calls, because accounts and codes are only added; with it `TypeCorrect`,
  `LoginsNeedCodes` and `AccountsUnique` (for LoginSpec).
- `LoginSurvives`: under `RotatesInTime`, by a second invariant `Holds`: a session uses
  its client's permanent key or a live key bound to it (`ownKey`), one session per
  temporary key (`Distinct`), one login or logout per client at a time (`Alone`), which
  binds the permanent key (`Aimed`); what the client was told is so or the answer that
  corrects it is on its way (`told`).

`BotFather_proofs`, from `BotFatherAssumption`:

- `BotsHold`: usernames once; tokens once, each drawn before (`used`), which is why a new
  secret meets no old token; a token's logins name the account that holds it until it is
  revoked (`LoginsKept`); the stored step is what the owner was told (`Asked`). With it
  `TypeCorrect`, `UsernamesUnique`, `TokensReuse` and `StepsStored`.

Model-checked only: liveness, which the prover has no rules for here
(EventuallyAnswered, EventuallyInSync, EventuallyLoggedIn, EventuallySent,
EveryTxEnds). Every invariant and every action property of a passing run is also a
theorem, for PostgreSQL's AsInMemory and for LoginHolds under the assumption about
clients named above.

## Not modelled

Static answers, entity parsing, the job queue (no job exists), server assembly,
migrations and observability keep no state the protocol depends on. Cryptography is
the name of a key. Presence (`lastSeen`) and typing notices are stored nowhere or read
by nobody here. Search is one query without paging. A saved draft's push has no pts
and no order to check; getAllDrafts is one query. Contacts, profiles and bot commands
are single upserts, deletes and queries on one table, without a push: a property would
only restate the statement. Importing contacts in a loop that fails midway can be
repeated, since adding is an upsert.

## Plan

1. delivery: should getDifference come to send what its limit cuts off in slices and to
   fail when a look-up fails, `lost` goes and NoMissedUpdate becomes the theorem; should
   editMessage push to the message's peer, `foreign` goes with delivery_edit.
2. Pushes of drafts and typing in UpdateDelivery, should the code come to promise an
   order for them.
3. Several sessions on one connection in Transport, should a client that does this be
   supported.
