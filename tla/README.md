# TinyFileServer: verification project

TLA+ models of the file server and client in this repository, the TLC runs that
check them on small instances, and theorems about them that TLAPS checks for every
value of the constants. All source references are to `src/`.

## 1. The system

Two programs exchange one-header-one-payload requests over TCP. The header is
`TestHdr_S` (20 bytes, native layout: version, header length, payload length, codec,
command); the payload is encoded as protocol buffers ("PROTO"), JSON or TLV; the
commands are SET (upload), GET (download), LIST (directory) and EXIT.

| Component | Source | State | Operations |
|---|---|---|---|
| Accept loop | `file_server/FileServerMain.c`, `FileServer.c` 168-258 | listening descriptor; descriptor table of the process | socket, bind, listen; accept; create and detach a thread; on failure close the listener and return from `main()` |
| Connection thread | `FileServer.c` 26-166 | `iConnectFd`, byte counts; **the one global `g_stTestHdr`** | receive and check a header, dispatch, close |
| Request handlers | `FileServerDataDeal.c` | buffers, one file or directory descriptor; `g_stTestHdr` again | `DataDeal_setFile`, `DataDeal_getFile`, `DataDeal_listFile`, each for three codecs |
| TLV codec | `FileServerTlv.c`, `FileClientTlv.c` (the same code twice) | none | encode, decode |
| Protocol buffers | `Message.proto`, `Message.pb-c.*` | none | generated pack, unpack |
| Client state machine | `file_client/FileClientState.c` | `m_pCurState`, codec, command, socket | connect, choose codec, choose command, exchange, exit |
| Client requests | `FileClient.c`, `FileClientDataDeal.c` | socket, buffers, file | SET, GET, LIST, EXIT |
| Client input | `FileClientInput.c` | none | read and check numbers and characters |
| Debug macros, Makefiles | | none | |

### How the parts interact

* All connection threads share the address space: every one receives its header
  into `g_stTestHdr` (`FileServer.c:94`), clears it first (`:93`), tests its fields
  one by one, and the handlers read the length and the codec from it again later.
  A GET builds its answer's header in the same variable. There is no lock.
* They share the descriptor table with each other and with `accept()`. A number
  that is closed twice may have been given to someone else in between.
* They share the file system: names, not descriptors, decide what a GET measures
  (`stat`) and what a SET replaces (`remove`, `open(O_EXCL)`).
* A client and its thread exchange bytes. There is no time limit anywhere, no error
  reply, and SIGPIPE is not ignored.
* Every message is received by a loop that stores what each `recv()` brings at the head of
  the buffer (`FileServer.c:36`, `FileClient.c:182`). One that comes in a single `recv()` comes
  through. One that TCP cuts leaves its last piece over the ones before; it takes no failure
  and no second client: a header behind an upload, a payload longer than a segment.

### What is hard, and what "correct" means

| Component | Hard behaviour | Correct means |
|---|---|---|
| Accept loop | accept failing for want of descriptors; thread creation failing | the listener stays open while `main()` runs; one client cannot exhaust the process |
| Thread | a peer leaving between any two pieces of a message; a header in pieces; other threads between two reads of the header | a handler acts on the header its own client sent; a thread that ends has closed its connection; no thread acts after its peer went down; every thread ends when its client does |
| Handlers | failures between `open` and `close`; another thread's header when the answer is built | only what the thread owns is closed; nothing stays open; a body follows a header of its length; a waiting client is answered or disconnected |
| Files | uploads and downloads of one name at the same time | an upload that returned OK is stored; a download is one version of the file; a quiet file is whole |
| Byte loops, codecs | messages in pieces; buffers at their limit; unknown TLV types | what is decoded is what was encoded; nothing is written past a buffer; what pieces laid over each other may lead to is known |
| Client | end of input, numbers out of range, connection failures, messages without numbers or lengths | client and server stay in step; a menu does what was typed; a file keeps its name and what its codec can carry; every request ends |

`PROJECT.json` lists the hazards line by line, with the properties that cover each
one or why none does.

## 2. Modules

| Module | What it is |
|---|---|
| `FileServer.tla` | The server process: accept loop, all threads and handlers, descriptor table, shared header; the clients as far as the server can tell them apart; the properties |
| `MCFileServer.tla` and `*.cfg` | Request sets and bounds for TLC |
| `FileServerProofs.tla` | TLAPS: types, the listener, the shutdown check |
| `FileServerSerialProofs.tla` | TLAPS, clients one at a time: one thread at a time, the shared header |
| `FileServerStreamProofs.tla` | TLAPS, clients one at a time: the stream of requests, the connections, what stays open |
| `FileServerReplyProofs.tla` | TLAPS, clients one at a time: the answers and the headers before them, and what can end the process |
| `AtomicStore.tla` | What the files of the server promise: whole files, replaced at once |
| `FileStore.tla` | The system calls of SET and GET on names and inodes, over several threads; short counts, failing calls, the end of the server |
| `MCFileStore.tla` and `store_*.cfg` | Contents and bounds for TLC |
| `FileStoreProofs.tla` | TLAPS: types, downloads, whole files, `FileStore` implements `AtomicStore` |
| `TlvTransfer.tla` | One TLV message: the encoder, the loop of `recv()`, the decoder, and the buffers at both ends, word by word |
| `MCTlvTransfer.tla`, `tlv.cfg` | Contents that look like nodes, and of sizes around the buffer's |
| `TlvTransferProofs.tla` | TLAPS: types, the round trip, the buffers |
| `Listing.tla` | LIST on the server: the recursive walk through the directories while files come and go |
| `MCListing.tla`, `listing.cfg` | A tree of three directories |
| `ListingProofs.tla` | TLAPS: types, completeness, reasons of failure, what stays open |
| `FileExchange.tla` | What the user of a client may rely on: requests that copy a file between client and server at once, in their order |
| `FileClient.tla` | The client process: state functions, menus, requests, its files, and the server thread at the other end |
| `MCFileClient.tla`, `client.cfg` | Files, input lines and bounds for TLC |
| `FileClientProofs.tla` | TLAPS: types, client and server in step, files that survive, what stays open, crashes, listings, `File_atoi` and the menus, `FileClient` implements `FileExchange` |

`FileServer` and `FileStore` are two views of the same handlers: the first has the
connections, the descriptors and the shared header and keeps of a file only whether a
call on it works, the second has the files and keeps of a connection only that a
request comes. They share no variable, because a handler's calls on files depend on
the header only through its choice of request, which `FileStore` leaves open. `Listing`
has the part of a LIST that `FileServer` shortens to one file or none, and of the other
threads the removals and creations that `FileStore` makes. `TlvTransfer` has the words of the payload
of which `FileServer` and `FileClient` have only the pieces. `FileClient` is the composition of a
client with its thread: several requests over one connection, with the messages on the
way and the files at both ends; its server is `FileServer` with one client, and its `Save`
is `FileStore` with one thread.

### State of `FileServer` and what it stands for

| Variable | In the code |
|---|---|
| `main` | where `Server_dealClientReq` is, `iConnectFd`, and whose connection it is |
| `g_stTestHdr` | the global of the same name |
| `fdTable` | the kernel's descriptor table: free, listener, reserved by a blocked `accept`, connection of a client, file or directory opened by a thread |
| `pc`, `connFd`, `hdrBytes`, `loc` | per thread: program point, `iConnectFd`, `iRecvHdrBytes`, the handler's locals (chosen codec and command, buffer size, length to receive, buffer, file descriptor, packed length) and `words`, how much of the header in hand has come; history: `loc.own`, the header as the thread itself received it, and `loc.torn`, whether one of them came in pieces |
| `backlog` | the kernel's queue of connections |
| `cl`, `cur`, `sent`, `inq`, `outq` | what a client is doing, its last request, how many requests were sent, the bytes in both directions |

`loc.sock` is the socket a blocked `recv` waits on: the kernel looks the number up
once, so a `close` by another thread does not wake it.

### Actions

* Accept loop: `EnterAccept` (reserves the lowest free descriptor or ends the
  process), `Accept`, `Spawn`, `SpawnFails`.
* `server_client_data_deal`: `Top` (memset), `Call`/`RecvHdr`/`CopyCmd`/`RecvPiece`/`RecvEnds`/
  `HdrDown`/`ErrClose` (Server_recvData; `RecvPiece` is a `recv` of a part of the header),
  `CheckVersion`, `CheckLen`, `TestCmd` (one step per `if` of the chain, since each reads the shared
  header), `EndClose`.
* The part the three handlers share: `TestModule`, `SizeBuf`, `ReadNeed`, `Call`/
  `RecvData`/`DataDown`, `CheckData`, `Decode`.
* LIST: `OpenDir`, `SendName`/`NoName`, `CloseDir`, `SendEnd`. GET: `OpenFile`,
  `ReadFile`, `StartReplyHdr`, `FillReplyHdr`, `SendReplyHdr`, `SendBody`,
  `CloseGot`. SET: `CreateFile`, `WriteFile`, `CloseWritten`.
* Clients: `Connect`, `SendHdr`, `SendPayload`, `TakeReply`, `NoticeDown`, `Depart`.

A step reads or writes shared memory, the descriptor table or a socket at most once;
a thread's private computation is part of the step before it.

### Abstractions

* A request is one "hdr" cell and `dlen` "pay" cells. A payload comes in any number of
  pieces, each of whole cells. Payload bytes that another thread's `recv` takes for a header
  have a version other than 1.
* A header comes whole or in pieces of its five words, cut at places in `Cuts`
  (`RecvPiece`). `Overlaid` stores a piece over those before it, word by word: a GET cut in 16
  and 4 bytes has its command (1) for a version and becomes a SET; a TLV request cut in
  12 and 8 has its codec for a version and its command for a header length; of all others the
  version or the length is wrong. A cut inside a word adds nothing to that: what
  it puts into the version, or into the length below it, is never 1 and 20 (the upper bytes of
  codec, command and header length are 0), and no header length of 1 comes of it. The words
  that a number of bytes may look like are few: a data length taken for another word is 0, 20 or
  neither (`LenWords`), a codec or command taken for a length 0 or no more than a cell
  (`FewBytes`).
* A header in one piece arrives in two steps (all words but the last, then the command): the
  kernel's copy is not atomic. One in pieces may be stored at once, piece by piece. The reply
  header is filled in two steps (`StartReplyHdr`, `FillReplyHdr`).
* A client leaves before or after its payload, not between two bytes of one `send`; the end
  of a connection after a part of a payload was received is there, since what is sent need
  not be received before the client leaves. A thread that was given another client's connection
  (by a double close) takes no part of a header of which that client's thread already has one.
* The server's `send` of a header or a body is one step, which fails or does not.
* A directory holds one file or none; a file's contents and name are not there, only
  whether opening, reading or writing succeeds, and the length of the packed answer.
* `Decode` keeps whether the buffer starts with a whole payload of the thread's codec,
  and the command letter it carries. Of anything else, pieces laid over each other above all,
  each codec may make nothing, or a request with the handler's letter; TLV may run off its
  buffer; and JSON that parses and has no command in it makes the handler read through a null
  pointer (`FileServerDataDeal.c:469`, `:904`, `:1433`), which ends the process.
* A buffer overrun (`RecvData` with more cells than `loc.size`) may end the process or
  do nothing; other corruptions are not modelled.
* `send` does not block: the client reads.
* The mutated forms next to some definitions (named `X_Something`, marked "a broken
  X") are not part of the specification. Each is a plausible error in that code and
  shows that a property can tell the difference.

### State of `FileStore` and what it stands for

| Variable | In the code |
|---|---|
| `dir`, `data` | the directory (name to inode) and the bytes of each inode, in the file system |
| `pc`, `req` | per thread: the handler's program point; the request it decoded |
| `fd`, `need`, `done`, `buf` | `iFileFd`; `nBytes`, the total so far and `pBuf` of `fileRead` and `fileWrite` |
| `out` | what the handler returned, with the bytes a download sent |
| `kept` | history: what was under a name when the last upload to it ended; the abstract `store` |

`SetFile` is `Create`/`Exists`/`CreateFails` (open with `O_EXCL`), `Remove`/`RemoveFails`,
`Write`/`WriteFails` (one `write()` of the loop each) and `CloseWritten`; `GetFile` is
`OpenRead`/`OpenReadFails`, `Stat`/`StatFails` (by name), `Read`/`ReadsNothing`/`ReadFails`
and `Reply`. `Crash` ends every thread and keeps `dir` and `data`. One step is one
system call.

Abstractions: a byte is a triple of the name and the contents it was uploaded as and its
place, so that bytes of two uploads never look alike; memory from `malloc` is `Junk`. An
inode is used again when neither a name nor a running handler refers to it (the code
also leaks descriptors, which only makes fewer inodes free; `FileServer` counts those). A
`write()` is not interleaved with a `read()` of the same file. The length of an upload
is the one the client announced, as in the TLV and JSON branches. That a download may
fail at `open()` at any time stands for a file's permissions, which are whatever was on
the stack, as `open(O_CREAT)` gets no mode.

### `TlvTransfer`

`phase` is the program point; `sent` and `got` are the two `cPackBuf`, `wr` and `rd` are
`pcWriteData` and `pcReadData` as offsets, `left` is `uiTlvLenSum`, `file` and `out` the two
`FileData_S`. `WriteRoot` to `WriteSize` are the statements of `tlvEncodeFile`, one node
each; `Recv` is one `recv()` of the loop of `Client_recvData`, which stores every piece at
the start of the buffer; `ReadRoot` and `ReadField` to `ReadUnknown` are the decoder's
loop, one node each. Where the code writes or reads behind a buffer the model ends in
`overrun` or `outside`: what comes of it is not followed. Everything is counted in words
of four bytes, since every length the encoder writes but a content's is a multiple of
four; lengths are unsigned and wrap (`Wrap`).

### `Listing`

`stack` has one frame for each call of `DataDeal_fileListDeal`: its directory, and what
`readdir` may still return there, by the promise POSIX makes: an entry that was there all
the time comes once, one that came or went meanwhile comes or does not (`must`, `may`).
`Opendir`, `Readdir`, `Stat`, `Send` and `Closedir` are the calls in the order the code makes
them, with the return of each failure (`Fail`), which leaves the directories of all levels
open (`lost`). `Remove` and `Create` are the uploads of other threads. The program makes no
directories, so the tree is a constant; the entries `.` and `..`, which the code skips, are not
there.

### `FileClient`

| Variable | In the code |
|---|---|
| `curState` | `m_iCurState`; `outside` is a call of `m_pCurState[-1]`, `killed` the end by a signal |
| `step`, `job` | where a handler is, and its locals: name, file, length |
| `g_stTestHdr` | the client's global of that name |
| `stdin`, `typed` | whether the input has ended; history: the line the menu acts on |
| `disk`, `openFiles` | the client's files, and the descriptors it has of them |
| `sock`, `peer` | `g_iConnectFd`, and the other end of it |
| `toServer`, `toClient` | messages on the way |
| `srv`, `store` | the server's thread and its files |
| `cut` | history: whether a message was received in pieces, and whether client and server lost step by it |

The state functions keep their names. A request is `AskName` (file name, open, stat, read,
pack), `SendHdr`, `SendData`, then `RecvHdr`, `RecvBody`, `Save` for a GET and `RecvName` for
a LIST, with an action for every way a call can fail: `AskNameFails`, `NoMemory`, `SigPipe`,
`NoHdr`, `NoBody`, `RecvFails`, `SaveFails`, `NameLost`. `SetSent` is the end of `setFile` in
the three branches, of which the JSON one does not close the file.

Abstractions. A file is what it is a copy of, its size, and whether the bytes behind its first
NUL are still its own: that is what the codecs differ in. `via` is history, the codecs it
went through.

A message in one piece is received as it was sent. What one in pieces leads to is in actions of its
own: at the client `HdrInPieces` (the answer's length may have come through or not), `BodyInPieces`
(JSON that does not parse, or parses without its items, which is found out when the old file has
been removed; the other codecs make whatever of it), `NameInPieces` (a record shows any name or
none, an end mark is lost, and the rest of a name may begin like the mark); at the server
`HdrTakenInPieces` (the thread returns and leaves the connection open, state `left`; or a GET is
taken for a SET, `wrong`, which `ServeWrong` finds out by the letter, or not), `ServeInPieces` (the
payload does not parse or ends the process, or is decoded to whatever). The history variable `cut`
says whether that has happened (`piece`) or has also made the client take the end of one message for
another's (`astray`); from then on `RecvAstray` takes any number of messages for the one waited for.
An end of connection in the middle of a message is one of these or `NoBody`. A name has at most 11
characters, so it fits each codec's field. A line is a sequence of digits and other characters; one
longer than the buffer is two lines, as for `fgets`. `setFile`, `getFile` and `listFile` end without
`return`; built as the Makefile says (`gcc` without optimization), what is left in the register then
is the codec's number or the result of the last call, and the model takes it for something else than
-1. The variable `ui_cmd` has any value at the end of input. The server at the other end fails at
any time, but keeps to this client's header: what other clients do to it is the matter of
`FileServer`.

The refinement of `FileExchange` has no history variable. `Asked` is the uploads in
`toServer` (each with the codec of the header before it; none once the thread is gone) and
the request in the client's hands: a GET from `SendHdr` to `Save`, a SET until it is sent, while
the thread is there. `Up` is that the thread runs and the client has not crashed, `whole` that no
message was received in pieces: `FileExchange` promises nothing behind one. So an upload
works in `ServeSet`, a download in `Save`, and a request is lost in the step that ends the
client or the thread.

## 3. Runs

`CHECK_DEADLOCK FALSE` in the runs of `FileServer`: a server without clients waits in `accept`, and
that is its normal state.

| Run | Instance | Checks |
|---|---|---|
| `serial` | 2 clients, one alive at a time, 2 requests in all, every command, headers and payloads cut anywhere, FIN and RST at every point, every failure | `TypeOK`, `ActsOnOwnHeader`, `CloseOwn`, `NoOrphanConnection`, `ReplyFramed`, `EndsForReason` |
| `clean` | 2 clients, one at a time, 3 requests in all, headers and payloads cut anywhere, FIN at every point, no failing call, every command and codec but no JSON GET, 3 descriptors beside the listener | `NothingLeftOpen`, `StaysUp` |
| `session` | 1 client, all requests, headers and payloads cut anywhere, departures and failures, fairness | `Answered` |
| `three` | 3 clients, two alive at a time, one TLV GET, its header also cut where the rest may have a version, FIN and RST, 3 descriptors | `ListenerSurvives`, `NoDispatchAfterShutdown` |
| `ends` | 3 clients that come in their order, two alive at a time, 2 GETs, FIN, 3 descriptors, fairness | `ThreadsEnd` |
| `other_header` | 2 clients at once, no departure, no failure | violates `ActsOnOwnHeader` |
| `store_atomic` | 2 threads, 1 name, `Exclusive`, failing `open`, `remove`, `read` and `write`, short counts, crash, fairness | `Atomic` (refinement of `AtomicStore`), `RequestsEnd` |
| `store_races` | 3 threads, 1 name, no restriction on clients | `TypeOK`, `WholeWhenQuiet`, `GetReturnsOneUpload` |
| `store_lost` | 2 threads, 1 name | violates `OkMeansStored` |
| `tlv` | every content of up to 3 words that may be types or lengths, and longer ones around the buffer's size, in 1 to 3 pieces, fairness | `TypeOK`, `RoundTrip`, `FitsIsSafe`, `TransferEnds` |
| `listing` | 2 listings of 3 directories with up to 4 files, 2 removals or creations, every failure, fairness | `TypeOK`, `CompleteAtEnd`, `FailsForReason`, `OnlyFailuresLeak`, `ListingEnds` |
| `client` | 3 requests by every codec, 2 names, a file with and without a NUL and a large one, every failure, messages in pieces, fairness | `TypeOK`, `Aligned`, `WhatSurvives`, `OnlyJsonLeaks`, `OnlyTyped`, `CrashHasCause`, `ListComplete`, `Exchanged` (refinement of `FileExchange`), `RequestEnds` |

What they show. With one client at a time, whose request headers come whole, the server keeps
what it promises but for two things: the JSON GET leaves its file open, and so do the
returns after a failing call, which is why `clean` excludes both; `session` includes them and shows
that a client that used up the descriptors that way is still answered or disconnected. The process
ends for the reasons that `EndReason` lists and no other: descriptors or threads run out, a client
left while it was being answered (SIGPIPE), a TLV request is empty or too long, or a TLV or JSON
payload came in pieces (`InPieces`). So one upload longer than a segment can end the server for
everybody. In the setting of `clean` it ends only with a client that left before it said EXIT, or by
such a payload (`StaysUp`).

A header in pieces, which needs no more than an upload in front of it, breaks more: in most cases
the version test fails and the thread returns without a `close()`, so the connection stays open with
nobody to serve it, its client waits for ever for an answer, and the descriptor is lost; a GET can
become a SET. That is what the exceptions for `torn` in `NoOrphanConnection`, `NothingLeftOpen`,
`StaysUp` and `Answered` are, and that nothing else is behind such a connection, client or
descriptor is what these properties say; `serial`, `clean` and `session` have such headers, at every
cut. `ActsOnOwnHeader`, `CloseOwn`, `ReplyFramed` and `EndsForReason` hold with them.

With several clients the shared header makes handlers work on another client's request
(`other_header`), and what survives is: the listener, the check after a shutdown as long as headers come
whole, and that threads end, but for one that reads a file by a number that has become another
connection: when that one is at its end the read loop never is.

Of the files: clients that leave a name alone while it is uploaded (`Exclusive`) see a store whose
files change at once, whichever of `open`, `remove`, `read` and `write` fail and whenever the server
ends, except that a file whose upload failed or was cut short may be gone, empty or begun, and that
an old file that cannot be removed stays and OK is returned. The files are whole as long as no
`write()` moves less than it was asked to: then the file has the upload's bytes in wrong places, and
OK is returned too (`Made` in `AtomicStore`). Clients that race still never get a mixture of two
versions and never leave one behind; but an upload can be lost and return OK (`store_lost`), a
download of a file that shrinks reads for ever, and uploads that race can keep each other in the
loop of `remove` and `open` as long as new ones keep coming, which is why `RequestsEnd` is checked
with `Exclusive`: it has the loops, but not the file that shrinks.

Of a TLV message: when it comes in one piece it is decoded into what was encoded; if it fits
the buffer, encoder and decoder stay inside. Beyond that size the encoder writes past
it. In several pieces, which `recv()` may return at any time, the message is garbage, and
what holds is that the decoder comes to an end (`TransferEnds`), if not inside its buffer.

Of a listing: whoever gets the end mark got every file that was there all the time; a
listing that breaks off met a removal or a failure, and only then directories stay open.

Of the client: nothing but the order of messages tells client and server which answer is
whose, and they keep it, through every failure; only an answer in pieces can make them lose it
(`Aligned`). A file comes back under its name;
JSON and TLV keep its size, TLV its bytes, JSON those before the first NUL; what a message in
pieces leaves is damaged, and never another file that is taken for it (`WhatSurvives`).
Only the JSON SET leaves a file open. A request ends, if only in a crash, and the
crash has one of the causes that `CrashHasCause` lists: a name that does not exist is one, and
an answer in pieces, which JSON cannot parse. Behind a message in pieces a request may also wait for
ever: for an end mark that was laid over, or an answer of a thread that has returned (`RequestEnds`).
Until then a listing is complete (`ListComplete`).
And as long as all messages come whole, though an upload is over for the client long before the server has it, and up to
`MaxReq` of them can be on their way, requests work as if each copied its file at once when it is
its turn (`Exchanged`): the one that was asked first comes first, an upload brings the file that the
client has then, a download the one that the server has when the client saves it. What may
go wrong is what `FileExchange` says: the end of one side loses the request in hand, whose
file may be gone or damaged, and all uploads behind it; and a `remove` that fails leaves the
old file without a word.

Bounds of `TlvTransfer`: buffers of 24 words leave room for 7 of content, and contents have
up to 11; `Wrap` of 32 is just above the longest message (28), so every length that is
subtracted too often wraps at once. Three pieces have two boundaries, at all places.

Bounds of `Listing`: a file beside a directory, two in it and one two levels down have every
relation of a removed file to the calls in progress (above, in the last, below, beside).
`MaxOpen` of 4 is a listing's three directories and one left by the other listing.

Bounds of `FileClient`: three requests are an upload, a download of what was uploaded, and
one more by another codec or over the connection the second one lost. `MaxCut` lets no third
request begin once a message came in pieces: what can be said of the client then holds whatever it
receives, and the second request meets what the first one left behind. `BufSize` of 3 lies
above two of the files and below the third; `TlvRoom` of 2 below the third only. `Wrap` of
16 lets the two digits `1 7` wrap into the menu.

Bounds of `FileStore`. Two contents of one and two bytes replace each other in both
orders, so that a tail or a size of the wrong one shows. Three threads are two racing
uploads and a download that watches them. With more than one name the calls interfere only
through inodes that are used again, which one name shows as well; that no name touches
another is proved for any number (`CallsImplementStore`, `DownloadSafe`).
There is an inode for every name and every thread, so none is missing, and few enough that
they are used again. The number of requests is not bounded.

Bounds of `FileServer`. `MaxLive` is the number of clients alive together: one separates what the
code promises a single client from interference, two suffices for any race on the shared header
(each is between one thread and "somebody else"). A stolen descriptor needs a third connection, made
after the first close, so `three` and `ends` have three clients. `MaxReq` bounds the requests in
all: two are a request after a request on one connection, so what an earlier request left in the
header or open is met by a later one; `clean` and `session` have a third. `three` has one request:
the thread whose peer left needs none of its own. `Cuts` is every place between two words where
clients come one at a time; `three` has the two places after which a header may still pass a check,
`ends` none. `MaxFd` of 6 gives the process three descriptors beside the listener (connection,
reserved by `accept`, file), so that both "one more" and "none left" occur; `three` and `ends` use
5. For `clean` 6 is the least: with 5, `accept` for the next client finds nothing while a file is
open. `BufRoom` is smaller than an overrunning payload. Payloads of one and two cells arrive whole
or in pieces. Symmetry is used in safety runs only; the clients of `ends`, a liveness run, connect
in their order instead (`InOrder`), since any other order differs only in their names.

Fairness (`FairSpec`): weak fairness of the accept loop and of every thread (the kernel
schedules runnable threads, and every blocking call has a guard that says when it
returns), and of a client taking an answer it waits for or noticing that its connection
is gone. Nothing makes a client connect, send or leave, and no failure has to happen.
`Answered` is a client's `wait` leading to its end, or one of its headers having come in pieces;
`ThreadsEnd` says that if from some time on no client is connected then from some time on no thread
runs but those in the read loop (`spin`), which has content because a thread may wait on a socket
that is not its own.

`FairSpec` of `FileStore`: weak fairness of every handler, but not of `ReadFails`, or a
download at the end of its file would be rescued by a disk error. Clients need not send.

`Spec` of `TlvTransfer` is fair to the two programs; `Spec` of `Listing` to the walk, and not to
uploads; `Spec` of `FileClient` to what the client does without its user (`Goes`) and to the
server's thread (`Serves`), and neither to the user nor to any failure.

## 4. Proofs

`FileServerProofs.tla`, for any set of clients, requests, descriptor limit, bounds and
failures that satisfy `ServerAssumption`:

* `TypeCorrect`: `Spec => []TypeOK`. `TypeOK` is inductive. Typing lemmas for what
  actions do to one variable (`GotoType`, `LocalTypes`, `ClosedType`, `WriteType`, ...)
  come first, then one lemma per group of actions. Its content beyond bookkeeping: payloads
  and their cuts and overlays stay sequences of cells, and every descriptor a thread
  names is within the table.
* `ListenerSafe`: `Spec => []ListenerSurvives`. The property is not inductive: a
  thread could hold 3 as its connection or file. `ListenerInv` adds that neither
  `connFd`, nor `loc.file` where it is in use, nor what `accept` reserved is the
  listener's descriptor. They are kept because each of the three is only ever taken from
  a free slot (`KeepsOpening`, `ListenerAcceptor`) while the listener's is not free.
  `KeepsListener(t)` says what a thread's step may do to these facts; one lemma per
  group of actions shows it.
* `DispatchSafe`: `Spec => []NoDispatchAfterShutdown`, which excepts headers in pieces. As long as
  there was none (`NoTorn`, which once false stays so) `DispatchInv` adds that
  `g_stTestHdr.hlen` is 0 or 20 whoever wrote it, and that a thread between its `recv`
  and the checks counts 1 (peer down) or 20 bytes. The check `iRecvHdrBytes ==
  m_usHdrLen` then only passes with 20. It would not if a reply header could carry
  length 1, or if the value for "peer down" were 0; and a TLV GET header cut in 12 and 8 bytes does
  carry it.

`FileServerSerialProofs.tla`, `FileServerStreamProofs.tla` and `FileServerReplyProofs.tla`, for the
same constants with `MaxLive <= 1`: any number of clients, but only one alive at a time. TLC shows
by `other_header` that two break it. `OwnHeaderSafe` holds for headers in pieces too. The others are
proved as long as every header comes whole: `Spec => [](NoTorn => P)`, where P is the invariant;
what those in pieces lead to is model-checked only (`serial`, `clean`, `session`). Payloads may come
in pieces in all of them.

* `OwnHeaderSafe`: `Spec => []ActsOnOwnHeader`. `SoloInv`: no two clients are alive, the accept
  queue holds at most the one that is, and a thread runs only for a client that came; so while a
  thread runs no other does (`SoloOthers`). `Own`: from its `memset` to the last test of it
  `g_stTestHdr` is what the thread received, but for the command word while the kernel copies
  it. `OwnInv`, the two with `TypeOK`, is inductive (`OwnStep`).
* `CloseOwnSafe` and `NoOrphanConnectionSafe`, of `CloseOwn` and `NoOrphanConnection`. The returns
  after the version and the length test leave the connection open, so the second holds only if they
  are not taken with an open one; that is, if whatever arrives where a header is expected is a
  header with the version and the length that are tested, unless the peer is down and the descriptor
  closed. `Stream(r, p, s)` says of the cells `s` on their way that they go on after part `p` of
  request `r`: its other parts in order, then a header or nothing. `Placed` ties the thread to `r`
  and `p`: it has the header of `r` and received `p` of its parts, or has all of them when it waits
  for the next. `Ended` ties the client to the last cell. The lemmas on `Stream` (`StreamHeader`,
  `StreamPayload`, `StreamRest`) say what the two `send`s and a `recv` of any size do to it;
  `ChainsCover`, that the two if-else chains end in a handler. `Lost` is the state in which the
  thread goes on with zeroes or a part of a payload after `Server_recvData` closed the connection:
  zeroes fail the version test, and a part of a payload decodes to no request (`CutDecodesNothing`).
  `HeldInv` and `TableInv` have who holds which descriptor. `LineInv`, all of them with `OwnInv`, is
  inductive (`LineStep`): one lemma per step shows `KeepsLine`, and `LineThread` that the other
  threads, idle, lose nothing by it.
* `NothingLeftOpenSafe`: under `Tidy`, `Spec => [](NoTorn => NothingLeftOpen)`. `Tidy` is the
  setting in which the code closes what it opens: no failing call, no RST and no GET by JSON, each
  of which leaves a file or a directory open; a header in pieces leaves a connection open. `TidyInv`
  adds to `LineInv` that a file or directory the process holds is the one its thread has in
  `loc.file` and will close (`TidyAt`); with what `TableInv` says of connections, every descriptor
  is accounted for. A failing send cannot come between `open` and `close`, since the descriptor is
  the thread's own connection and the client did not reset it, or the process ends by SIGPIPE.
* `ReplyFramedSafe`: `Spec => [](NoTorn => ReplyFramed)`. A handler writes the length of its reply into
  `g_stTestHdr` and sends it before the body, so a body without its own header in front of it
  would need something sent in between. `Dialogue` relates both directions of a connection to
  the thread: only uploads, which have no answer, come before another request (`Ordered`);
  while the thread owes an answer (`Asking`) or one is on its way, the client waits and has
  sent no further request; when the client may send again (`Quiet`), nothing is on its way to
  it. So a GET starts on an empty connection and its header is alone there when the body
  follows (`Fetching`, `"gbody"`). `ReplyInv` is that with `LineInv`; `KeepsReply` is shown per
  step as `KeepsLine` is, and uses that the bytes of a stream keep their order (`RestOrdered`).

* `EndsForReasonSafe`: `Spec /\ []NoTorn => EndsForReason`. A step that ends the
  process is a failing `accept` or `pthread_create`, a `send` to a client that left, a buffer
  overrun, a TLV decoder that reads outside what it was given, or a JSON document without its
  items; the first three are reasons as they stand. For the others
  `Pieces` follows a payload into the buffer: the buffer has the size its codec declares, and when
  it holds as many cells as were received they lie in the request's order. So it overruns only if
  TLV announces more than `BufRoom` (`EndsInData`), and a payload that came whole decodes to its
  own command (`PayloadHeld`, `EndsInDecode`). One that was laid over itself decodes to whatever the
  model lets it, which may end a TLV and a JSON request (`InPieces`); of PROTO alone nothing does.
* `StaysUpSafe` and `RunsForGood`: under `Staying`, `Spec => []StaysUp`, for any number of clients
  and requests. `Staying` takes away the causes one
  by one: no failing call, no RST, no GET by JSON, TLV requests that are not empty and fit the
  buffer, and three descriptors beside the listener. `StayInv`, which holds
  until a client is killed or a message comes in pieces (`PatientInv`; what was so stays so,
  `EarlyForGood`), then shows
  each reason of `EndReason` absent. Two need an argument. A client that said EXIT, and so is gone,
  is never sent anything: it had all its answers, and what it left on the way is uploads and
  the EXIT (`Leaving`). And a free descriptor is left when `accept` comes round (`FreeFdLeft`):
  every descriptor in use is the listener or the one thread's connection or file.
  `RunsForGood` is `Spec => []Running` if besides no client is killed and no message can be cut:
  `Cuts` is empty and TLV and JSON requests have one cell. Those of PROTO may have any number, in
  any pieces.

`FileStoreProofs.tla`, for any threads, names, contents, sizes and inodes that satisfy
`StoreAssumption`:

* `StoreTypes`: `Spec => []TypeOK`, from `TypeInv`, which adds that no two threads write to
  one inode and that a writer's count is the length of its file; otherwise a write could
  be laid beyond the end of the bytes. It also has that an inode in use goes by one name.
* `DownloadSafe`: `Whole => (Spec => GetReturnsOneUpload)`, where `Whole` says that no call
  moves less than was asked. `Contents` adds that every file in use is empty or one upload to
  its name, and that the bytes a download has are the start of its file, which is complete
  once there was anything to read.
* `FilesWhole`: `Steady => (Spec => []WholeWhenQuiet)`, where `Steady` excludes short counts,
  failing writes and crashes. `Attended` adds that a file that is not whole has its writer.
* `CallsImplementStore`: `Orderly => (Spec => Atomic)`, where `Orderly` says that clients
  are `Exclusive` (and that `NoFile` is no sequence of bytes), and nothing of the calls: any may
  fail, `write` and `read` may be short, and the server may crash. What the code makes of this
  is in `AtomicStore`: an upload whose `remove` fails keeps the old file and says OK
  (`PutRefused`), with short counts an upload and a download have the right length but
  bytes in the wrong places (`Made`, `Given`), and a crash leaves half a file (`Leftovers`).
  `Faithful` relates `kept` to what is under a name: the same, except
  during an upload, whose thread is then alone with the name (`Alone`). `OwnBytes` bounds what
  short counts can do: a writer's file has bytes of its own upload only, a reader's buffer those of
  the file or memory that was never written; without them `Contents` says more. Every action of
  `FileStore` is shown to be an action of `AtomicStore` or to leave its variables alone.

`TlvTransferProofs.tla`, for any size of buffers, commands, names, contents and number of
pieces that satisfy `TlvAssumption`:

* `TransferTypes`: `Spec => []TypeOK`, which bounds both cursors by their buffers and every
  length by `Wrap`.
* `RoundTripHolds` and `FitsIsSafeHolds`: `Spec => []RoundTrip` and `Spec => []FitsIsSafe`, from
  `IInv`: how much of the message the encoder has written and that it is right
  (`WrittenUpTo`, `WrittenRight`); that a message in one piece lies in the receiver's buffer
  as it was sent (`GotRight`); and that the decoder stands behind one of the five nodes,
  with what those before say taken over (`DecodedUpTo`).

`ListingProofs.tla`, for any tree and limits that satisfy `ListingAssumption`:

* `ListingTypes`, `LeaksOnlyByFailure`: inductive together.
* `ListingComplete`: `Spec => []CompleteAtEnd`. `Accounted` says of every steady file where it
  stands in the walk: in each directory above it that is being read, the next name of its
  path is still to be read and there is no record of the file; or it is the one in hand, or
  the next directory on the stack; or it was read and there is one record. `StackInv` has
  that the directories on the stack lie in each other and are not read twice, `MayInv` that
  what `readdir` may leave out was not there all the time.
* `ListingFailsForReason`: `Spec => []FailsForReason`, with what each failing call says.

`FileClientProofs.tla`, for any names, files, sizes, input lines, number of requests and
failures that satisfy `ClientAssumption` and `FirstAssumption` (client and server start with
files that nobody has transferred):

* `InStep`: `Spec => []Aligned`. The property says what is at the head of a queue; the invariant
  says what is in it. Both outlast most messages in pieces: only an answer that was not taken as
  long as it is, or a record that looks like the end mark, leads the client astray (`Lost`), and
  then the parts that tie its step to what arrives are given up. `Pairs`: to the server go headers,
  each with its message behind it and its length in it. `Halves`: the last header is without its
  message exactly while the client is between its two `send()`. `Waiting`: uploads may pile up,
  since nothing answers them, but a question is the last message, and the client waits for its
  answer with the same number. `ToClient`: what may have arrived for each `recv()`. `Serving`: what
  the thread is about to send is for the question in hand, and as long as the header before it said
  (the file is not changed in between, for there is nothing left to be read). `Control` ties `step`
  to the connection: once either end is closed the thread is gone, and then only what has arrived
  matters (`Cut`). One lemma per kind of step shows that the queues are kept.
* `Survives`: `Spec => []WhatSurvives`. `InHand` and `Pairs` have that every file in the
  client's hands or on its way is sound; `CarriedSound` that no codec makes it unsound.
* `Listings`: `Spec => ListComplete`. `Listed`, as long as no message came in pieces: the names
  shown, on their way and still to be sent are together the server's files.
* `Exchanges`: `Spec => Exchanged`, that is, `FileClient` implements `FileExchange`, which promises
  nothing any more once a message came in pieces (`whole`). With `IInv`, the invariant of the
  theorems above, `XInv` is inductive until then (`TransfersInit`, `TransfersNext`) and has what the
  mapping needs. `Current`: an upload on its way, or in hand, is what its codec makes of the file
  that the client has *now*. Between them the client may have downloaded to the same name, had it
  not waited behind its uploads: while a question is answered nothing else is on its way
  (`Waiting`), and only a download writes to the client's files. `Numbered`: uploads are on their
  way in the order of their numbers, all below the request in hand. `Fetching`: an answer that is on
  its way, has arrived or is being saved is the file that the server has *now*, or a part and the
  thread has ended; no upload is left that could change it. `Coded`: it comes by the codec the
  request was made with. `QueuedAdded`, `QueuedTaken` say what a `send` and a request that the
  thread takes do to `Asked`; then one lemma per kind of step (`AskNameExchange`, `SaveExchange`,
  `ServeSetExchange`, ...) names the action of `FileExchange` it is, and `ExchangeStep` puts them
  together.
* `ClientTypes`, `JsonLeaks` (from `OpenInv`, which counts the descriptor of the upload in
  hand), and `Causes`, which with `Control` is inductive; a message in pieces is one of the causes.
* `AtoiWraps`: for a line of digits of any length `File_atoi`, which keeps an int's width at every
  digit, returns the number the line spells modulo `Wrap`. `OnlyTypedSafe`: `Spec => []OnlyTyped`
  follows from it and from `Control`. Both are inductions over the length of a line. The
  library's induction theorem takes a predicate, which the provers cannot instantiate; `Induction`
  states it for a set of numbers instead, from `WFMin`, which does.

Only model-checked: `Answered`, `ThreadsEnd`, `RequestsEnd`, `TransferEnds`, `ListingEnds` and
`RequestEnds`, because liveness under fairness and ENABLED are out of the prover's reach; and what
a server does to which a header came in pieces (`serial`, `clean`, `session`), except for
`OwnHeaderSafe`, `ListenerSafe` and `TypeCorrect`, which hold then as well.

## 5. Not modelled

* `socket`/`bind`/`listen` failing at start: nothing runs before them.
* `Message.pb-c.*` (generated), the debug macros, the Makefiles.
* `File_stateExit`, which no state function returns to, and `File_inputChar`, which nothing
  calls.
* The text of a JSON document and the wire format of protocol buffers, which libraries
  write and read: of them the models have which fields a message has and where a string
  ends.
* Links, and directories that come or go while they are listed: the program makes none.
* What a program does after it wrote or read outside a buffer.

## 6. How it was built

| # | Modules | Theorems |
|---|---|---|
| 1 | `FileServer` | `TypeCorrect`, `ListenerSafe`, `DispatchSafe` |
| 2 | `FileStore`, `AtomicStore` | `StoreTypes`, `DownloadSafe`, `FilesWhole`, `CallsImplementStore` |
| 3 | `TlvTransfer` | `TransferTypes`, `RoundTripHolds`, `FitsIsSafeHolds` |
| 4 | `Listing` | `ListingTypes`, `ListingComplete`, `ListingFailsForReason`, `LeaksOnlyByFailure` |
| 5 | `FileClient`, `FileExchange` | `ClientTypes`, `InStep`, `Survives`, `JsonLeaks`, `Causes`, `Listings`, `AtoiWraps`, `OnlyTypedSafe`, `Exchanges` |
| 6 | `FileServer`, one client at a time | `OwnHeaderSafe`, `CloseOwnSafe`, `NoOrphanConnectionSafe`, `NothingLeftOpenSafe`, `ReplyFramedSafe`, `EndsForReasonSafe`, `StaysUpSafe`, `RunsForGood` |

Every invariant, every action property and both refinements that the passing runs check are
theorems, most under the same assumptions as the run; those of one client at a time, but for its own
header, up to the first header in pieces. What would come next: the two-client interleavings that
are safe although the header is shared, if the code is changed to give each thread its own.
