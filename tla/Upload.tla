------------------------------- MODULE Upload -------------------------------
(***************************************************************************)
(* Files: the parts a client uploads (internal/rpc/media.go), their        *)
(* staging in memory (staging.go), and messages.sendMedia, which takes the *)
(* staged parts, assembles them and makes an object, a file row and a      *)
(* message of them, in stores that fail and outlive the process.           *)
(* Downloads read the object back chunk by chunk.                          *)
(*                                                                         *)
(* A byte stands for a part, and a content is its own SHA-256: the hash is *)
(* taken to be injective.  Requests the handlers refuse at once (no caller,*)
(* no store, unknown peer, empty or oversized part, wrong access hash)     *)
(* change nothing and are left out, and so is the push of the new message, *)
(* which is UpdateDelivery's.  The clients are external.                   *)
(***************************************************************************)
EXTENDS Integers, Sequences, FiniteSets

CONSTANTS
    Client,       \* the accounts that upload, each one file
    Byte,         \* what a part may hold
    file,         \* file[c]: the content of c's file, one byte per part
    Handler,      \* goroutines serving a request: bounds those in progress
    Reader,       \* downloads
    Backend,      \* the object stores to consider, of {"fs", "memory"}
    Limit,        \* bytes a download asks for at a time
    MaxFaults     \* bound: failing calls, restarts, and answers a client gives up on

\* Each fault costs a client at most one attempt, and a new one takes a new file id.
FileID == 1..(MaxFaults + 1)

ASSUME UploadAssumption ==
    /\ Client # {} /\ file \in [Client -> Seq(Byte) \ {<<>>}]
    /\ Backend \subseteq {"fs", "memory"}
    /\ Limit \in Nat \ {0}
    /\ MaxFaults \in Nat

VARIABLES
    staging,   \* uploadStaging.files: key -> number of a staged file, 0 if none
    staged,    \* staged[n]: the parts put into the n-th staged file made since the start
    objects,   \* the object store: key -> content
    rows,      \* rows[i]: the object key of file row i
    messages,  \* messages with media: sender, file id, row; and, as history, `whole`
    handler,   \* handler[h]: the request goroutine h works on
    client,    \* client[c]: the file id in use, the parts acknowledged (external)
    download,  \* download[r]: the message read and the bytes got so far (external)
    backend,   \* the object store the server was started with
    faults,    \* how many faults are left
    spoilt     \* history: keys whose staged file was taken, or lost in a restart

vars == <<staging, staged, objects, rows, messages, handler, client, download,
          backend, faults, spoilt>>
stores == <<objects, rows, messages>>

Part(c) == DOMAIN file[c]

Idle == [pc |-> "idle", client |-> CHOOSE c \in Client : TRUE, fileID |-> 1, part |-> 0,
         awaited |-> FALSE, staged |-> 0, data |-> <<>>, temp |-> <<>>, row |-> 0,
         whole |-> FALSE]

\* File ids are client-chosen, so they are namespaced per user.
stagingKey(c, id) == <<c, id>>

keyOf(h) == stagingKey(handler[h].client, handler[h].fileID)

goto(h, pc) == handler' = [handler EXCEPT ![h].pc = pc]

-----------------------------------------------------------------------------
(* Staging *)

\* Mutant of withPart: parts counted from one.
withPart_shifted(parts, i, b) ==
    [j \in DOMAIN parts \cup {i - 1} |-> IF j = i - 1 THEN b ELSE parts[j]]

\* A staged file's parts with part i set: a repeated part replaces the earlier one.
withPart(parts, i, b) == [j \in DOMAIN parts \cup {i} |-> IF j = i THEN b ELSE parts[j]]

\* assemble: the parts there are, in order; a missing part leaves no trace.
assemble(parts) ==
    [k \in 1..Cardinality(DOMAIN parts) |->
        parts[CHOOSE i \in DOMAIN parts : Cardinality({j \in DOMAIN parts : j <= i}) = k]]

\* Mutant of stagingFile: a new staged file for every part.
stagingFile_fresh(h) ==
    /\ handler[h].pc = "file"
    /\ staged' = Append(staged, <<>>)
    /\ staging' = [staging EXCEPT ![keyOf(h)] = Len(staged) + 1]
    /\ handler' = [handler EXCEPT ![h].staged = Len(staged) + 1, ![h].pc = "put"]
    /\ UNCHANGED <<stores, client, download, backend, faults, spoilt>>

\* upload.saveFilePart and saveBigFilePart: the staged file of the key, made if
\* there is none.
stagingFile(h) ==
    LET k == keyOf(h) IN
    /\ handler[h].pc = "file"
    /\ IF staging[k] = 0
       THEN /\ staged' = Append(staged, <<>>)
            /\ staging' = [staging EXCEPT ![k] = Len(staged) + 1]
       ELSE UNCHANGED <<staged, staging>>
    /\ handler' = [handler EXCEPT ![h].staged = staging'[k], ![h].pc = "put"]
    /\ UNCHANGED <<stores, client, download, backend, faults, spoilt>>

\* The part is put into that file, whether or not sendMedia has taken it since,
\* and the client is told.
putPart(h) ==
    LET r == handler[h] IN
    /\ r.pc = "put"
    /\ staged' = [staged EXCEPT ![r.staged] = withPart(@, r.part, file[r.client][r.part])]
    /\ handler' = [handler EXCEPT ![h] = Idle]
    /\ client' = [client EXCEPT ![r.client].acked = IF r.awaited THEN @ \cup {r.part} ELSE @]
    /\ UNCHANGED <<staging, stores, download, backend, faults, spoilt>>

-----------------------------------------------------------------------------
(* messages.sendMedia *)

\* The answer to a failed sendMedia: the client starts over with a new file id.
refuse(h) ==
    LET r == handler[h] IN
    /\ handler' = [handler EXCEPT ![h] = Idle]
    /\ client' = IF r.awaited
                 THEN [client EXCEPT ![r.client].fileID = @ + 1, ![r.client].acked = {}]
                 ELSE client

\* staging.take: the staged file leaves the staging area; without one the request
\* is refused (FILE_REFERENCE_EMPTY).
take(h) ==
    LET k == keyOf(h) IN
    /\ handler[h].pc = "take"
    /\ IF staging[k] = 0
       THEN refuse(h) /\ UNCHANGED <<staging, spoilt>>
       ELSE /\ staging' = [staging EXCEPT ![k] = 0]
            /\ handler' = [handler EXCEPT ![h].staged = staging[k], ![h].pc = "assemble",
                                          ![h].whole = k \notin spoilt]
            /\ spoilt' = spoilt \cup {k}
            /\ UNCHANGED client
    /\ UNCHANGED <<staged, stores, download, backend, faults>>

\* The content, which is its own object key.
assembleParts(h) ==
    /\ handler[h].pc = "assemble"
    /\ handler' = [handler EXCEPT ![h].data = assemble(staged[handler[h].staged]),
                                  ![h].temp = <<>>,
                                  ![h].pc = IF backend = "fs" THEN "copy" ELSE "putObject"]
    /\ UNCHANGED <<staging, staged, stores, client, download, backend, faults, spoilt>>

\* The object store with content data under key k.
withObject(k, data) ==
    [j \in DOMAIN objects \cup {k} |-> IF j = k THEN data ELSE objects[j]]

\* memory.ObjectStore.Put: under the store's lock.
putObject(h) ==
    /\ handler[h].pc = "putObject"
    /\ objects' = withObject(handler[h].data, handler[h].data)
    /\ goto(h, "saveFile")
    /\ UNCHANGED <<staging, staged, rows, messages, client, download, backend, faults, spoilt>>

\* Mutant of copy: the object's own file is filled.
copy_inPlace(h) ==
    LET r == handler[h]
        n == Len(r.temp) + 1
    IN  /\ r.pc = "copy"
        /\ n <= Len(r.data)
        /\ handler' = [handler EXCEPT ![h].temp = Append(@, r.data[n])]
        /\ objects' = withObject(r.data, Append(r.temp, r.data[n]))
        /\ UNCHANGED <<staging, staged, rows, messages, client, download, backend, faults, spoilt>>

\* FS.Put: a temporary file beside the object, new and empty, is filled piece by
\* piece ...
copy(h) ==
    LET r == handler[h]
        n == Len(r.temp) + 1
    IN  /\ r.pc = "copy"
        /\ n <= Len(r.data)
        /\ handler' = [handler EXCEPT ![h].temp = Append(@, r.data[n])]
        /\ UNCHANGED <<staging, staged, stores, client, download, backend, faults, spoilt>>

\* ... and renamed over the object, atomically.
rename(h) ==
    /\ handler[h].pc = "copy"
    /\ Len(handler[h].temp) = Len(handler[h].data)
    /\ objects' = withObject(handler[h].data, handler[h].temp)
    /\ goto(h, "saveFile")
    /\ UNCHANGED <<staging, staged, rows, messages, client, download, backend, faults, spoilt>>

\* Mutant of saveFile: one row per content, as if its hash were unique.
saveFile_unique(h) ==
    /\ handler[h].pc = "saveFile"
    /\ \A i \in DOMAIN rows : rows[i] # handler[h].data
    /\ rows' = Append(rows, handler[h].data)
    /\ handler' = [handler EXCEPT ![h].row = Len(rows) + 1, ![h].pc = "sendMessage"]
    /\ UNCHANGED <<staging, staged, objects, messages, client, download, backend, faults, spoilt>>

\* DB.SaveFile: a row of its own for every upload, also of a content already stored.
saveFile(h) ==
    /\ handler[h].pc = "saveFile"
    /\ rows' = Append(rows, handler[h].data)
    /\ handler' = [handler EXCEPT ![h].row = Len(rows) + 1, ![h].pc = "sendMessage"]
    /\ UNCHANGED <<staging, staged, objects, messages, client, download, backend, faults, spoilt>>

\* DB.SendMessage with the row as its media, and the answer.
sendMessage(h) ==
    LET r == handler[h] IN
    /\ r.pc = "sendMessage"
    /\ messages' = Append(messages, [from |-> r.client, fileID |-> r.fileID, row |-> r.row,
                                     whole |-> r.whole])
    /\ handler' = [handler EXCEPT ![h] = Idle]
    /\ client' = [client EXCEPT ![r.client].sent = @ \/ r.awaited]
    /\ UNCHANGED <<staging, staged, objects, rows, download, backend, faults, spoilt>>

\* Any of the store's calls fails: INTERNAL, the temporary file is removed, and what
\* the earlier calls stored stays.
fail(h) ==
    /\ handler[h].pc \in {"copy", "putObject", "saveFile", "sendMessage"}
    /\ faults > 0
    /\ faults' = faults - 1
    /\ refuse(h)
    /\ UNCHANGED <<staging, staged, stores, download, backend, spoilt>>

\* The server stops and starts again: staging and requests are gone, the object
\* store on disk and the database stay.
Restart ==
    /\ backend = "fs"
    /\ faults > 0
    /\ faults' = faults - 1
    /\ spoilt' = spoilt \cup {k \in DOMAIN staging : staging[k] # 0}
    /\ staging' = [k \in DOMAIN staging |-> 0]
    /\ staged' = <<>>
    /\ handler' = [h \in Handler |-> Idle]
    /\ UNCHANGED <<stores, client, download, backend>>

-----------------------------------------------------------------------------
(* upload.getFile *)

\* The content of row i, as GetRange finds it: a copy of it in memory, the file open
\* under the object's name on disk.
contentOf(i) == objects[rows[i]]

\* The contents of all messages, as they can be read now.
album == [m \in DOMAIN messages |-> contentOf(messages[m].row)]

Stored == INSTANCE Album

\* Mutant of GetRange: the first byte of a range is left out.
GetRange_skip(data, offset) ==
    SubSeq(data, offset + 2, IF offset + Limit < Len(data) THEN offset + Limit ELSE Len(data))

\* GetRange: what there is of the range, nothing at the very end.
GetRange(data, offset) ==
    SubSeq(data, offset + 1, IF offset + Limit < Len(data) THEN offset + Limit ELSE Len(data))

\* Both stores fail when there is no such object, the one in memory also when the
\* range begins beyond its end.
readable(i, offset) ==
    /\ rows[i] \in DOMAIN objects
    /\ backend = "memory" => offset <= Len(contentOf(i))

\* A chunk for download r, which ends with the first short one.
uploadGetFile(r) ==
    LET d == download[r]
        row == messages[d.message].row
    IN  /\ d.message # 0 /\ d.state = "reading"
        /\ download' = [download EXCEPT ![r] =
                IF readable(row, Len(d.got))
                THEN LET chunk == GetRange(contentOf(row), Len(d.got))
                     IN  [d EXCEPT !.got = @ \o chunk,
                                   !.state = IF Len(chunk) < Limit THEN "done" ELSE @]
                ELSE [d EXCEPT !.state = "failed"]]
        /\ UNCHANGED <<staging, staged, stores, handler, client, backend, faults, spoilt>>

-----------------------------------------------------------------------------
(* The clients.  One has a request for each part under way at most, and asks for the *)
(* message when every part is acknowledged.                                          *)

awaiting(c, p) ==
    \E h \in Handler : handler[h].awaited /\ handler[h].client = c /\ handler[h].part \in p

\* A request is served by a goroutine that is free; which one makes no difference.
Begin(c, part, pc) ==
    /\ ~client[c].sent
    /\ client[c].fileID \in FileID
    /\ \E h \in Handler : handler[h].pc = "idle"
    /\ handler' = [handler EXCEPT ![CHOOSE h \in Handler : handler[h].pc = "idle"] =
            [Idle EXCEPT !.pc = pc, !.client = c, !.fileID = client[c].fileID,
                         !.part = part, !.awaited = TRUE]]
    /\ UNCHANGED <<staging, staged, stores, client, download, backend, faults, spoilt>>

uploadSaveFilePart(c, i) ==
    /\ i \notin client[c].acked
    /\ ~awaiting(c, {i})
    /\ Begin(c, i, "file")

messagesSendMedia(c) ==
    /\ client[c].acked = Part(c)
    /\ ~awaiting(c, Part(c) \cup {0})
    /\ Begin(c, 0, "take")

Request(c) == (\E i \in Part(c) : uploadSaveFilePart(c, i)) \/ messagesSendMedia(c)

\* The client stops waiting; the request goes on.
Timeout(h) ==
    /\ handler[h].awaited
    /\ faults > 0
    /\ faults' = faults - 1
    /\ handler' = [handler EXCEPT ![h].awaited = FALSE]
    /\ UNCHANGED <<staging, staged, stores, client, download, backend, spoilt>>

OpenMedia(r, m) ==
    /\ download[r].message = 0
    /\ download' = [download EXCEPT ![r].message = m]
    /\ UNCHANGED <<staging, staged, stores, handler, client, backend, faults, spoilt>>

-----------------------------------------------------------------------------
Init ==
    /\ staging = [k \in Client \X FileID |-> 0]
    /\ staged = <<>>
    /\ objects = <<>>
    /\ rows = <<>>
    /\ messages = <<>>
    /\ handler = [h \in Handler |-> Idle]
    /\ client = [c \in Client |-> [fileID |-> 1, acked |-> {}, sent |-> FALSE]]
    /\ download = [r \in Reader |-> [message |-> 0, got |-> <<>>, state |-> "reading"]]
    /\ backend \in Backend
    /\ faults = MaxFaults
    /\ spoilt = {}

HandlerStep(h) ==
    \/ stagingFile(h) \/ putPart(h)
    \/ take(h) \/ assembleParts(h) \/ putObject(h) \/ copy(h) \/ rename(h)
    \/ saveFile(h) \/ sendMessage(h)

Next ==
    \/ \E h \in Handler : HandlerStep(h) \/ fail(h) \/ Timeout(h)
    \/ \E c \in Client : Request(c)
    \/ \E r \in Reader : uploadGetFile(r) \/ \E m \in DOMAIN messages : OpenMedia(r, m)
    \/ Restart

Spec == Init /\ [][Next]_vars

\* Goroutines go on, clients keep asking; nothing need fail and nobody need read.
FairSpec ==
    /\ Spec
    /\ \A h \in Handler : WF_vars(HandlerStep(h))
    /\ \A c \in Client : WF_vars(Request(c))

-----------------------------------------------------------------------------
(* Properties *)

\* Every variable holds values of its type; a client never runs out of file ids.
TypeOK ==
    /\ staging \in [Client \X FileID -> 0..Len(staged)]
    /\ \A n \in DOMAIN staged : \A i \in DOMAIN staged[n] : i \in Nat \ {0} /\ staged[n][i] \in Byte
    /\ \A k \in DOMAIN objects : k \in Seq(Byte) /\ objects[k] \in Seq(Byte)
    /\ rows \in Seq(Seq(Byte))
    /\ messages \in Seq([from : Client, fileID : FileID, row : DOMAIN rows, whole : BOOLEAN])
    /\ \A c \in Client : client[c].fileID \in FileID /\ client[c].acked \subseteq Part(c)

\* What is sent stays readable and unchanged, through concurrent uploads of the same
\* content, failing calls and restarts between any two steps: the stores implement
\* Album, where a message's content is found through its row and the object store.
MediaPersists == Stored!Spec

\* A client that reads a message's media chunk by chunk until the first short chunk
\* gets exactly what was sent, also when the size is a multiple of the chunk's and
\* while the object is being written again.
DownloadsExact ==
    \A r \in Reader : download[r].message # 0 =>
        LET d == download[r]
            data == rows[messages[d.message].row]
        IN  /\ d.state # "failed"
            /\ d.got = SubSeq(data, 1, Len(d.got))
            /\ d.state = "done" => d.got = data

\* The first sendMedia of an upload sends the whole file, in order, whatever parts were
\* repeated or came late, unless a restart lost the staged parts; and nothing but parts
\* of the sender's file is ever sent.
SentWhole ==
    \A m \in DOMAIN messages :
        LET msg == messages[m]
            data == rows[msg.row]
        IN  /\ msg.whole => data = file[msg.from]
            /\ \E S \in SUBSET Part(msg.from) : data = assemble([i \in S |-> file[msg.from][i]])

\* A client that starts over after a refusal is told in the end that its file was sent.
EventuallySent == \A c \in Client : <>client[c].sent
=============================================================================
