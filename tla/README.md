# TLA+ models of IM_Chat

IM_Chat is a chat program with file transfer: a Qt client, a single-threaded
Linux server built on epoll, and a second server that does the same through a
reactor. This directory holds TLA+ models of its parts, TLC configurations that
check them on small instances, and proofs, checked by TLAPS, for every value of
the constants: of the safety properties of the upload store, the sessions, the event
loop, the wire protocol, the reactor and the client, and that the detailed models
implement the abstract ones.

Contents: [the system](#1-the-system), [the models](#2-the-models),
[the runs](#3-the-runs), [the proofs](#4-the-proofs),
[where the code and its promises differ](#5-where-the-code-and-its-promises-differ),
[what is not modelled](#6-what-is-not-modelled), [plan](#7-plan).

## 1. The system

| component | state | operations | interacts with |
|---|---|---|---|
| Upload store, `Server/filetransfer.h` | the upload directory; per session a `FileUploadState` (stream, name, declared and received size) | `beginUpload`, `writeChunk`, `endUpload`, `removeIncompleteUpload`, `listFiles`, `readFileInfo`, `openFileForRead` | called by the handlers; all sessions share the directory |
| Sessions and handlers, `Server/chatserver.cpp` | `m_clients`: descriptor to session (name, buffer, upload) | login/rename, chat, upload begin/chunk/end, download, accept, close, cleanup | the store; broadcasts to every session |
| Event loop, `Server/chatserver.cpp` | epoll set, batch of events, receive buffers | `run`, `handleNewConnections`, `handleClientEvent`, `sendPacket`, `closeClient` | the kernel, the clients, the handlers |
| Wire protocol, `protocol.h` (three copies) | none; the buffers belong to its users | `serialize`, `tryParse`, payload codecs | both ends of every connection |
| Qt client, `Client/mainwindow.cpp` | `m_username`, file list, download in progress, local files | the slots of the buttons, `processPacket`, `onDisconnected` | the user, the server, the local disk |
| Reactor, `Server_Reactor/src` | handler tables of the reactor and its demultiplexer | `register_handler`, `remove_handler`, `wait_event` | callbacks into the chat server that change those tables |
| Reactor server, `Server_Reactor/chatserver.cpp` | as the default server, and one handler object per descriptor | as the default server | the reactor |

What is hard here, and what correctness means for each part:

* **Store.** All sessions upload into one directory and a path is all that
  identifies a file. Two uploads of one name truncate and overwrite each other,
  each at its own position; a disconnect removes by name. An upload whose
  sender was told that it succeeded must be in the directory, as sent. Partial
  files must not stay without a reason.
* **Sessions.** Names are unique although they are given, changed and freed at
  any time. Clients hold copies of the user list and the file list, which must
  follow every change. The chunk and end handlers check no login and rely on
  the history of the session. Chats reach everybody in one order.
* **Event loop.** A batch of events holds descriptors; handling one event closes
  descriptors and accepting reuses them. Between any two system calls clients
  send, hang up or stop reading. One thread serves all, so anything that does
  not return stops everybody.
* **Protocol.** recv returns any part of what was sent. Heads may be cut, a
  payload may look like a head, a byte may be damaged.
* **Client.** Modal dialogs run the Qt event loop inside a slot: packets arrive
  and connections break between a check and the action it guards. Packets of a
  download do not say which download they belong to.
* **Reactor.** Callbacks destroy the handlers they were called on, and tables
  kept by three objects must agree.

`PROJECT.json` lists these hazards line by line with the properties for them.

## 2. The models

Each definition that stands for code is mapped to its lines in `PROJECT.json`.

### `FileTransfer` — the upload store
A file is a sequence of blocks; a block is one chunk packet and is named by the
session that sent it. `upload[c]` is the session's `FileUploadState`, with what
is invisible in the C++ object: how much the stream has `written` and still
has `buffered`, whether its file is still `linked` in the directory, and its
badbit. `files` and `content` are the directory. The actions are the service's
calls: `Begin`/`BeginFails` (`beginUpload`, with the truncation of the path and the
silent closing of an upload that is still open), `WriteChunk`, `EndUploadAccepts`,
`EndUploadRejects`, `DropUpload` (the disconnect), `CloseUpload` (cleanup),
`CrashStore`. POSIX is kept where the properties depend on it: truncation under
another stream leaves a `Hole`, a removed file stays writable but is no longer
in the directory. Buffers may reach the system at any time; open, write and
flush may fail when `DiskErrors` is TRUE. `sound`, `finished`, `abandoned` and
`interrupted` are history variables that no action reads.

A chunk is one block, so a declared size is a number of blocks; names are what
`sanitizeFileName` returns. `Dirs` are the names that are directories (`.` and `..`):
an upload to one replaces the session's open upload and then fails to open its file,
whatever the state of the disk. A begin with a broken header or an empty name returns before it
touches anything; it is one of the packets that `ChatServer` refuses.

### `ChatServer` — sessions and handlers
Extends `FileTransfer` with the sessions. One action per handler of
`handlePacket`, plus `Accept`, `CloseClient`, `Refuse` (the packets answered with
an error before they change anything), `DownloadDirectory` (the download of a directory,
which ends the process, see 5), and the life of the process: `Stop`, `CleanupSession`, `Start`,
`Crash`. A handler is one step, as the server has one thread; what happens
between the system calls of a handler is `EventLoop`'s subject. What was sent
is kept only as far as clients depend on it: `userList` and `fileList` are the
last lists sent to each connection, `heard` the chats, `download` the last
download, as announced and as sent. A crash happens between two handlers; one in
the middle leaves a directory that a crash before or after the store's call
leaves, too.

**Abstraction.** `ChatServer` implements `FTSpec`, the specification of the store:
every handler uses the store as the store allows. That is run `server_files`
and theorem `ServerImplementsStore`.

### `EventLoop` — the event loop of the default server
`pc` names the system call the server is at (`wait`, `next`, `accept`, `recv`,
`parse`, `send`); every `accept`, `recv`, `send` and packet is a step, and the
clients' `Connect`, `Send`, `Read`, `Shut` and the kernel interleave with
them. A packet is a unit, and handling one is a broadcast to some of the
sessions; its meaning is `LoopServer`'s. `accept` gives the lowest free
descriptor, as Linux does, so descriptors are reused as soon as they can be.
`Event.of` is the connection the kernel meant; the server never reads it.
`handled` and `refused` are history. The end of the process, `ChatServer`'s subject, is left out.

### `LoopServer` — the loop with its sessions
Extends `EventLoop` with the names and with what logins, chats and disconnects
broadcast. `news` is what the running broadcast sends; each of its sends is a step,
may be lost with its client, and may have to wait for it.

**Abstraction.** `LoopServer` implements `ChatServer` (without files), `ChatSpec`.
A handler is taken to happen where it changes the sessions: what a session was
sent, in the sense of `ChatServer`, is what it was sent plus what `todo` says it
will be sent. So `ChatServer` is right to take a handler for one step.

### `PacketChannel`, `PacketStream`, `Payloads` and `MessageStream` — the protocol
`PacketChannel` is what users of the protocol expect: packets come out once, in
order, as put in, and none is held back. `PacketStream` is `serialize` and
`tryParse` byte by byte (head, length, command, payload, and a checksum that wraps at
2^16 with every byte added) around a socket that delivers any part. The search for a
head is the least of the positions at which the loop may stop. The receive loop of
server and client is the same: append, then parse until `tryParse` returns false. With
`Damage` one byte of the head, the payload or the checksum of a packet may arrive as the next
one modulo 256; the length and the command arrive as they were sent. A payload is at most `MaxPayload` long, just below
2 GiB and half of what the length field holds: the greatest round bound TLC can
count to. `totalSize` is a `size_t`, so `Needs` does not overflow whatever the length.

`Payloads` has the make and parse functions over strings, chats, lists and file
begins as operators on bytes. A reader of a payload is its state: whether all reads
succeeded, the offset, the last value. `MessageStream` is the way of a message from
the server to a client: made into a payload (the server's `protocol.h`), sent as a
packet, received in pieces, parsed by the function `processPacket` has for the
command (the client's copy). For a `CmdFileDownloadEnd` the client prints the name
without asking whether it parsed; that line of the log is left out.

**Abstraction.** `ConversationSpec`: what the client understands is a
`PacketChannel` of the messages the server meant, where a payload made by none of the
functions means that it is invalid. `MessageAssumption` says that the packets have
commands of the server and that `Messages` has what they parse to; TLC's 15 packets
include some whose payload is no message.

### `ChatClient` — the Qt client
The slots, `processPacket`, `closeTransferFiles` and `onDisconnected`, with the
connection and the one session at its other end. `dialog` is the open modal
dialog; a slot that opens one is two actions, and packets and disconnects
come in between. What the server may answer is a nondeterministic abstraction of
the handlers of `ChatServer` (`AnswerLogin`, `AnswerOther`, `AnswerDownload`).
A write to the client's own disk may fail (`LocalErrors`), which nobody notices.
`tainted` (a path chosen while another download was under way, or on which a write
failed), `short` (a download reported as incomplete), `unasked` (the file was opened by a dialog
that outlived its connection, so that no request was sent for it) and `report` are history.

### `Reactor` and `ReactorServer` — the reactor server
The descriptor tables of `EventDemultiplexer`, `ReactorImplementation` and
`ChatServer`, with the epoll set; callbacks (`ClientError`, `ClientReadable`,
`AcceptReady` and the accepts that follow) change the tables while `wait_event`
walks its array. `Regist` and `Remove` follow `EpollDemultiplexer`, with the add
that fails. A handler is named by its connection and lives while
`m_clientHandlers` owns it. A handler that reads takes one packet per step until
none is left or the connection has ended.

`ReactorServer` adds the names, user lists and chats of the sessions to the
callbacks of `Reactor`. A callback is one step that waits until there is room for all
it sends (`Sends`): `sendPacket` repeats a send for as long as the send buffer of a client is
full, so a client that does not read keeps the thread. `outbox` counts, per connection, the
callbacks whose packets the client has yet to read. **Abstraction.** It implements `ChatServer` without files
(`ChatSpec`): a callback on a descriptor is a step of that session, or none.

`MC*` modules give these modules to TLC: sets, payloads and symmetries.

## 3. The runs

| run | question | bounds |
|---|---|---|
| `store` | `StoreInv` (the inductive invariant), `SoundUploadsStored`, `StrayFilesExplained` | 2 sessions, 2 names and a directory, sizes 0..1, 2 chunks per upload, disk errors |
| `finished_is_whole`, `finished_is_present` | expected violations, see 5 | 2 sessions, 2 names, sizes 0..2 |
| `server_people` | `ServerTypeOK`, `UniqueNames`, `UserListCurrent`, `ChatsAgree` | 4 connections, 3 user names, 3 chats (`ChatCounts`), no files |
| `server_files` | `UploadOwnerLoggedIn`, `FileListsCover`, `DownloadIsWhole`, refinement of `FTSpec` | 2 connections, 2 user names, 1 file name, sizes 0..2, disk errors |
| `loop_safety` | `TypeOK`, `EventsCurrent`, `SessionsAreSockets`, `NothingLost`, `OnlyLeaversLose`, refinement of `ChatServer` | 3 connections on 2 descriptors, 2 events per `epoll_wait`, 2 packets per client, 1 name that all want, setup errors |
| `loop_liveness` | `EveryPacketHandled`, `EveryCloseNoticed`, `AlwaysReturns` | 3 connections on 2 descriptors, 2 packets in all, buffers of 1, setup errors, everybody reads |
| `loop_stall` | expected violation, see 5 | 2 connections, 2 packets each, buffers of 1, one client stops reading |
| `packet_stream` | the byte stream and the payload functions implement `PacketChannel`, liveness included; `NothingHeldBack` | 2 packets out of 15: a message of each kind of payload, some with bytes of a head inside, and payloads cut or extended by a byte; pieces of 1, 2, 7 and all bytes |
| `packet_stream_damage` | `OnlyIntact` | 3 packets, all `Plain`, one byte of each may change, pieces of any size |
| `client` | `TypeOK`, `GatedWhenLoggedIn`, `NamesAgree`, `NothingPartialStays`, `CompletedIsWhole`, `EndOnTheWay`, `DownloadEnds` | 3 clicks that send, 2 connections, 2 names, 2 files of 2 and 0 chunks, 2 local paths, disk errors at both ends |
| `reactor` | `ReactorInv`, `EveryCloseNoticed`, `EveryPacketTaken`, refinement of `ChatServer` | 3 connections on 2 descriptors, 3 events, 2 packets in all, send buffers of 1, 2 user names, setup errors |

Why the bounds are enough to be interesting: two sessions and two names give
every collision of two streams on one path and the move of one session between
paths; sizes above one block let a truncation or a lost block in the middle of an
upload be seen. Fewer descriptors than connections forces reuse and `accept`
failing; fewer events than ready descriptors forces a batch to leave some out.
A buffer of one packet makes every second send meet a full buffer. Three packets
put a damaged one between two others. Pieces of one and two bytes cut a packet
everywhere, one of seven bytes ends inside each of the longer fields, and all bytes at
once join packets. One name that three connections want is held, refused, freed and
taken again; two names at once, with renames, are `server_people`'s. `ChatCounts` has the
numbers of chats a connection may have been sent, and bounds `server_people` only: the
modules that implement `ChatServer` take it with all numbers (`ChatCounts <- Nat`), so
that their refinement does not rest on a bound. Two packets in
all let the reactor's clients log in and be seen, or log in and leave. Two connections let state of the client
outlive the first. The proofs of section 4 do without bounds where they apply.

Every property is also run against a mutated definition (`mutants` in
`PROJECT.json`) that it must reject; the mutated forms are the definitions marked
"Mutant of" in the modules.

`CHECK_DEADLOCK FALSE` is set in the modules whose environment is bounded
(`EventLoop`, `LoopServer`, `PacketStream`, `ChatClient`, `ReactorServer`): when the clients have used
up what the bounds let them do and the server waits for events, nothing is
left to happen. The store and the chat server never stop, and are checked for
deadlock.

**Fairness.** Safety runs need none.
* `EventLoop`: weak fairness of the server thread (`run` is a loop on a thread
  that is scheduled), and of reading for the connections in `Readers`. That a client
  reads is not something the server can count on, which is what `loop_stall` shows;
  a client that leaves ends the stall, too. Clients owe nothing else. With a descriptor
  free, `accept` may fail for other reasons (`EINTR`, `ECONNABORTED`), but not for ever: strong
  fairness of `AcceptOne \/ AcceptFails`. While all descriptors are in use a connection waits,
  and `EveryPacketHandled` and `EveryCloseNoticed` let it wait no longer.
* `PacketStream`: weak fairness of delivery (TCP) and of the receive loop.
* `ChatClient`: weak fairness of `processPacket` (Qt's event loop); none of the user, the
  connection or the server, which another client may keep from answering. So what must end
  (`DownloadEnds`) is a download that the server has answered. `EndOnTheWay` is the safety half of
  it: every request is answered by packets that end the download, whatever fails on the way.
* `ReactorServer`: weak fairness of the thread of `event_loop`, and every client reads. As
  above, the second is no promise of the code: `EveryCloseNoticed` and `EveryPacketTaken` say
  that nothing but a client that stays without reading stops the server.
  `Reactor` alone has safety properties only.

## 4. The proofs

All theorems hold for every value of the constants that satisfies the `ASSUME` of
the module: any sets of sessions, names and users, any sizes, with and without
disk errors. TLC evaluates these assumptions in every run.

**`FileTransferProofs`.** `SoundUploadsStored` says that an upload that
`endUpload` accepted, on whose path no other session had a stream and which met
no disk error, is in the directory block for block until its name is used again.
It is not inductive. `StoreInv` adds why it holds: a sound stream is alone on its
path and linked to it, the file holds exactly what it has written, and what it
received is written or buffered (`SoundStreams`); no open stream has the path of a
sound finished upload (`SoundPathsClosed`), so nobody can write to or remove it;
an open stream has a name and, if linked, a directory entry (`LinkedPresent`).
One lemma per action shows that it is preserved; `OwnStep` collects what
steps on a session's own stream have in common, and the lemmas on `PutBlocks`
say that a write at the end of a file appends. `StrayFilesAreExplained`: every
file in the directory is finished, being written, abandoned by a second begin, or
interrupted by the end of the server; so disconnects and rejected uploads
leave nothing.

**`ChatServerProofs`.** `ServerImplementsStore` (refinement: initial state and
every step) carries the store's theorems over to the whole server
(`ServerStoresSoundUploads`, `ServerFilesAreExplained`). `ServerInvariant` proves
the conjunction of type correctness, `FreshDescriptors` (a free descriptor carries
nothing over to its next session, needed because names and uploads are indexed by
descriptor), `UniqueNames`, `UploadOwnerLoggedIn`, `UserListCurrent`,
`FileListsCover` and `ChatsAgree`, one lemma per conjunct.
`DownloadsAreWhole` combines the two: what is downloaded of a sound upload is that
upload, or a part of it when the server failed to open or to read the file.

**`EventLoopProofs`** proves the four safety invariants of the event loop for any
number of connections, descriptors, packets and events per batch, of `EventLoop`
alone and of `LoopServer`, whose steps are shown to be steps of the loop
(`LoopStepIsStep`). The invariant `LoopInv` adds two parts. `OnePlace`: a
connection has not been made, waits once in the backlog with nothing of it handled,
has exactly one descriptor, or is over; without it a descriptor accepted for the
head of the backlog might be the second of its connection. `BatchInv`: the events of
a batch are of different descriptors, none of them the one being read, and a hangup
is of a client that has closed; so closing a descriptor, whether at a hangup or at
the end of its data, leaves the other events true, and costs only a client that left.

**`ReactorProofs`** proves `ReactorInv` for any number of connections and
descriptors and with registrations that fail, of `Reactor` and of `ReactorServer`.
The invariant `IInv` adds `TablesAgree`: the epoll set is the domain of the
demultiplexer's table of handlers. `ReactorInv` includes `SessionsReached`: events reach every session, on a fresh descriptor or
one used before, except those whose registration failed. `ReactorImplementsServer`: every callback, and
every step of the loop between two of them, is a step of `ChatServer` or none. Its
invariant (`SessionInv`) adds that a descriptor without a connection has no name, which is why
a descriptor that is used again starts as `ChatServer`'s `Accept` says.

**`LoopServerProofs`** proves `LoopImplementsServer`: the default server, with each `send`
of a broadcast a step of its own that may fail or wait, implements `ChatServer`. The refinement
mapping lets a broadcast happen at once: `SoonLists` and `SoonHeard` are what each session will have
been sent when the sessions in `todo` have been sent the `news`. `SessionInv` adds to `LoopInv`
that `todo` is empty between broadcasts and names no descriptor twice, and
that only sessions have names. So a `send` changes nothing that `ChatServer` sees,
the step that starts a broadcast is the handler, and a session that is closed before its
turn is gone on both sides. No sum over packets is needed, as `ChatCounts` is `Nat` here.

**`ChatClientProofs`** proves `GatedWhenLoggedIn` and `NamesAgree` for any number of
users, files, connections and packets under way. `SessionInv` adds
`NothingWithoutConnection` (a disconnect leaves nothing under way and no name on either
side) and `DialogsAreOfUsers`: a modal dialog that was opened with a name is closed with
one, or its connection is gone and cannot come back before it is closed. Without the
second, a dialog could send an upload into a new session that has no name yet. The
lemmas on the queues (`OtherReplies`, `NewName`, `TakenName`) say how the last `LoginOk` of a
queue changes when answers are put in and taken out.

**`DownloadProofs`** proves `CompletedIsWhole` and `NothingPartialStays`. The invariant
`OneDownload` says that for a path that is not tainted at most one download is under way,
and in which of four states it is: none (`Quiet`), its request is on the way (`Asked`),
its answer is on the way, begin first and chunks in order (`Answered`), or the client has
taken the begin and `k` chunks and the rest is on the way (`Receiving`), so that the file
holds exactly the first `k` chunks. A rest never has more chunks than the file, so an end
that finds all of them received finds the file whole. One lemma per packet that the
client takes, one for the answer of the server, and one for all steps that touch neither
the disk nor a download. `ClientTyped` is the client's `TypeOK`, of which one part is no
matter of types: however downloads overlap, break off and are begun again,
`m_downloadReceived` is never more than some file has. `ChunksInOrder` is why: what has been received
is less than the number of the next chunk under way, whichever file it is of.
`DownloadsHaveAnEnd` proves `EndOnTheWay`, which needs no path to be free of taint: while a file is open
for a download that the server was asked for, a request is on the way, or an end or an error is.

**`MessageStreamProofs`** is about the wire, for payloads of any content up to
`MaxPayload`, any number of packets and pieces of any size.
* `StreamTyped`: whatever bytes arrive, damaged or not, `tryParse` reads only
  bytes that the buffer has, and leaves a buffer of bytes and at most one packet, whose
  fields are within their widths.
* `LoopTakesAll` (`NothingHeldBack` where no byte is damaged): when the receive loop waits for
  more, the buffer holds no packet that is complete. `tryParse` takes one packet, so this is
  about the loop around it.
* `PacketsInOrder` (`OnlyIntact` where no byte is damaged) and `StreamImplementsChannel`
  (every step is one of `PacketChannel` or none). Their invariant `StreamInv` says that
  the buffer and the wire together are the packets not yet handled, serialized one behind
  the other, and that the buffer is cut from it anywhere. So the buffer always begins with
  a head or is too short to have one, `tryParse` takes a packet exactly when all of it has
  come (`Framed`, `CutAt`), and a payload that looks like a head is never searched.
* `HarmNoticed` (`OnlyIntact` with damage): in however many packets a byte of the head,
  the payload or the checksum arrives changed, what is handled is a prefix of the packets
  that arrive as they were sent. It is about packets that are `Plain`: the two bytes of a head are
  nowhere in them but at their beginning, nor would they be with a byte of that head
  changed. The invariant `HarmInv` says that what is not handled yet of the intact packets is
  on the way: buffer and wire together are a stretch in which no head can be found
  (`Headless`: what is left of a packet that lost its head), and then packets that are sound,
  spoilt behind the head, or without one, in any order (`OnTheWay`, the least such set). The
  search drops bytes of a stretch without a head only (`SearchKeeps`), and a spoilt
  packet is waited for and then dropped (`ParseSpoilt`), because the sum of the payload changes
  with any one byte (`ChecksumNotices`). A changed byte is the next one modulo 256, as
  in the model; for a first byte of the head this matters, as a packet that lost its
  head may end in the first half of one.
* `PayloadsUnderstood` and `NothingElseUnderstood`: parsing gives back what a payload was made of,
  and a payload that parses is the one that would be made of the result. So the make and parse
  functions, which are in two programs, are inverse to each other: no two messages share
  a payload, and cut or extended payloads are refused.
* `StreamImplementsConversation` puts the two together: the client understands the messages the server
  meant, once each and in order.

The loops of `checksum`, `makeStringListPayload` and `parseStringListPayload` are recursive
functions and the wire holds any number of packets, so these proofs need induction. The
library's induction theorems cannot be used, but its theorem that a well-founded order has least
elements can (`WFMin`): the lemma `LeastNumber` cites it, `Induction` is about sets of numbers, and `Recursion` shows that
the recursive functions exist and satisfy their equations.

**Only model-checked.** Liveness, which rests on fairness and `ENABLED`: the liveness properties
of the runs, and of the refinement of `PacketChannel` the part that no packet is held
back (`ConversationSpec` has it; the theorem has every step). `OnlyIntact` with
damage for packets that are not `Plain`, of which it is not true: a payload may contain a whole packet,
which `tryParse` finds when the head before it is damaged.

## 5. Where the code and its promises differ

Shown by a run that TLC finds violated:

* **An accepted upload need not be whole** (`finished_is_whole`,
  `filetransfer.h:99`). `endUpload` compares the session's own counters. When
  another session begins an upload of the same name in between, the file is
  truncated and the first upload is still accepted, against "验证文件完整性" in the
  commented copy of that function.
* **A disconnect removes a finished file** (`finished_is_present`,
  `filetransfer.h:135`). Both upload one name, one finishes, the other disconnects:
  its "incomplete upload" is the finished file.
* **One client that does not read stops the server** (`loop_stall`,
  `chatserver.cpp:396`). `sendPacket` retries at once on `EAGAIN`; the readme
  calls the server non-blocking.

Met while modelling, and kept in the models as the code has it:

* A second begin leaves the first, partial file in the directory
  (`filetransfer.h:65`): one of the causes in `StrayFilesExplained`. The readme says
  that unfinished uploads are cleaned up (`readme.md:167`).
* `writeChunk` counts a chunk whose write failed and returns true
  (`filetransfer.h:85`): such uploads are not `sound`.
* `tryParse` returns false for a damaged packet, which its callers take for "no
  packet yet": a good packet behind it waits until more data arrives
  (`protocol.h:109`). `OnlyIntact` is therefore a prefix property, and
  `packet_stream`, with `NothingHeldBack` and the liveness, has no damage.
* Two downloads that overlap mix their chunks in one file (`mainwindow.cpp:160`);
  the client's properties leave out paths chosen then (`tainted`).
* A save dialog may outlive the connection. The local file is then created, or truncated if it
  was there (`mainwindow.cpp:161`), `sendPacket` drops the request (271), and the client shows a
  download that nothing ends but the next choice of a path or the next disconnect.
  `EndOnTheWay` and `DownloadEnds` leave such downloads out (`unasked`); the former says that
  there is no other way to a download that nothing will end.
* A download of an empty name, of `.` or of `..` ends the server. `readFileInfo` finds that the path
  exists and asks for the `file_size` of a directory, which throws (`filetransfer.h:122`); no
  one catches it. `DownloadDirectory` is a crash in `ChatServer`; `EventLoop`, whose packets have
  no meaning, leaves it out.
* A download may be of a file that is being written or replaced, and is then what the reads
  find. `DownloadIsWhole` is about finished files.
* The reactor server's `sendPacket` repeats a send on `EAGAIN` (`Server_Reactor/chatserver.cpp:555`)
  like that of the default server: one client that stays and does not read stops it, too.
* A hangup event drops the data that arrived before it (`chatserver.cpp:152`).
  `OnlyLeaversLose` says that nobody else loses anything.
* The client counts a chunk that it failed to write, and reports the download as
  completed (`mainwindow.cpp:351`); the client's properties leave out such paths.
* Two examples in comments of `protocol.h` are not what the functions make: the list
  at 250 and 264 lacks the length of its first string, and the chat at 226 and 238 has a
  length of 13 for a text of 11.
* The reactor server ignores a registration that failed: the session stays and no
  event will ever reach it (`ReactorImplementation.cpp:15`). `SessionsReached`, `EveryCloseNoticed`
  and `EveryPacketTaken` of the reactor leave those out (`refused`).
* `SelectDemultiplexer` iterates over its table while callbacks erase from it: undefined
  behaviour at the first disconnect. No build file selects it.
* `Server_Reactor/chatserver.cpp` declares `error` twice in `handleUploadChunk`
  (422-429), so that target does not compile; the same lines write a chunk twice.

## 6. What is not modelled

* The select demultiplexer: `USE_SELECT` is in no build file, and once a callback has
  erased the entry that the range-for stands on every continuation is possible, so
  there is no behaviour to model.
* Uploads and downloads of the reactor server. `handleUploadChunk` does not compile at
  this commit, so that no build has them; its `filetransfer.h` is the default server's
  with comments. `cleanup` is behind an `event_loop` that never returns.
* Downloads and uploads in `LoopServer`: their packets are among those that are refused or
  have no effect on names and chats; `ChatServer` has them, as atomic handlers.
* The directions of the wire are not both composed with payloads: the server parses
  logins and requests with the same functions the client uses.
* The appearance of the client, the wording of messages, addresses and ports.
* The echo demonstration of the reactor (in no CMake target), `main`, build files.
* A client that sends without pause: the receive loop of `handleClientEvent` would
  stay with it. The models bound what a client sends.

## 7. Plan

Done: the modules above; theorems for every safety invariant that
the runs check; the refinements of the store by the server,
of the server by both of its implementations, and of the packet channel by the stream. What could
be added:

1. Uploads and downloads in `LoopServer`, chunk by chunk, so that a download's sends
   interleave with other clients' disconnects; its state space is the obstacle.
2. `sanitizeFileName` as a function on names. The models take the names after it.
