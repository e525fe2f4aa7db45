------------------------------ MODULE FileClient ------------------------------
(***************************************************************************)
(* The client process of file_client/: the table of state functions that   *)
(* fileStateMain() runs, the menus on standard input, the requests over    *)
(* the one connection, and the client's own files; with the server thread  *)
(* at the other end of the connection, as far as this client can tell.     *)
(*                                                                         *)
(* A message is one header, one packed request or answer, or one record of *)
(* a listing.  Each is received by a loop that stores every piece at the   *)
(* head of the buffer: a message in one piece comes through, one that TCP  *)
(* cut leaves the last piece over the others (TlvTransfer has the bytes of *)
(* one codec, FileServer the words of a header).                           *)
(***************************************************************************)
EXTENDS Integers, Sequences, FiniteSets

CONSTANTS Names,      \* file names
          Absent,     \* what is under a name that has no file
          Contents,   \* files as somebody wrote them, before any transfer
          Original,   \* content -> [name, size, text]: its first name, its bytes,
                      \* and those of them before a NUL
          FirstDisk, FirstStore, \* what client and server may start with
          BufSize,    \* BUFSIZE of the codecs
          TlvRoom,    \* the largest content a TLV buffer has room for
          Wrap,       \* 2^32: where an unsigned int wraps
          Other,      \* a character that is no digit
          Eof,        \* no line, but the end of input
          Lines,      \* what a user may type at a menu: sequences of characters
          MaxReq,     \* bound: requests of one client
          MaxCut,     \* bound: those of them after a message came in pieces
          Faults      \* what may happen: failing "connect", "io" (open, stat,
                      \* malloc, read, write), "remove" or "server", and
                      \* messages received in pieces ("cut")

Mods == {"PROTO", "JSON", "TLV"}
Cmds == {"SET", "GET", "LIST", "EXIT"}
ModuleMenu == <<"PROTO", "JSON", "TLV">>
CmdMenu == <<"SET", "GET", "LIST", "help", "EXIT">>
HdrLen == 20
VersionOne == 1

\* A file by what it is a copy of: as many bytes as its size says, of which
\* those behind the original's first NUL (tail) are its own or were lost; via
\* is history, the codecs it came through and whether it came only in part.
File == [of : Contents, size : Nat, tail : {"own", "junk"}, via : SUBSET (Mods \cup {"part"})]
Files == [Names -> File \cup {Absent}]

Digit == 0..9
IsNumber(line) == \A i \in 1..Len(line) : line[i] \in Digit

ASSUME ClientAssumption ==
    /\ Original \in [Contents -> [name : Names, size : Nat, text : Nat]]
    /\ \A c \in Contents : Original[c].text <= Original[c].size
    /\ FirstDisk \subseteq Files /\ FirstStore \subseteq Files /\ Absent \notin File
    /\ Contents # {} /\ Names # {}
    /\ BufSize \in Nat /\ TlvRoom \in Nat /\ MaxReq \in Nat /\ MaxCut \in Nat
    /\ Wrap \in Nat /\ Wrap > 9
    /\ Lines \subseteq Seq(Digit \cup {Other}) /\ Other \notin Digit /\ Eof \notin Lines
    /\ Faults \subseteq {"connect", "io", "remove", "server", "cut"}

VARIABLES
    curState,    \* g_stFileState.m_iCurState; "outside" is m_pCurState[-1]
    step,        \* where Client_dataInteraction is
    g_stTestHdr, \* the client's global header
    stdin,       \* "open", or "eof" for good
    job,         \* locals of the request: [name, file, len]
    shown,       \* file names printed by the LIST in hand
    openFiles,   \* descriptors of files, the connection not among them
    disk,        \* the client's files
    sock,        \* g_iConnectFd: "none", "open", "closed"
    peer,        \* the server's end: "none", "up", "fin" (closed), "rst"
    toServer, toClient, \* messages on the way
    srv,         \* the server's thread: [pc, hdr, name, left, id]
    store,       \* the server's files
    round,       \* requests so far
    typed,       \* history: the line the last menu took its choice from
    jsonSets,    \* history: the JSON uploads that went out
    trouble,     \* history: a call on a file failed
    cut          \* history: "none", a message was received in pieces ("piece"),
                 \* or client and server lost step by that ("astray")

menu == <<g_stTestHdr, stdin, typed>>
own == <<job, shown, openFiles, disk>>
conn == <<sock, peer, toServer, toClient>>
server == <<srv, store>>
history == <<jsonSets, trouble, cut>>
vars == <<curState, step, menu, own, conn, server, round, history>>

-----------------------------------------------------------------------------
(* What becomes of a file on its way through a codec.                      *)

Kept(f, n) == IF n > Original[f.of].text THEN "junk" ELSE f.tail

\* (a broken CarriedByJson: the length of the string and its NUL)
X_CarriedByJson(f) == [f EXCEPT !.size = Original[f.of].text + 1, !.tail = "junk"]
\* a JSON string ends at the first NUL, but goes with the file's size
CarriedByJson(f) == [f EXCEPT !.tail = Kept(f, f.size)]

\* protoPack copies a string and not the size; the receiver writes BUFSIZE
CarriedByProto(f) == [f EXCEPT !.size = BufSize, !.tail = Kept(f, BufSize)]

Carried(m, f) ==
    [(IF m = "PROTO" THEN CarriedByProto(f) ELSE IF m = "JSON" THEN CarriedByJson(f) ELSE f)
        EXCEPT !.via = @ \cup {m}]

\* tlvEncodeFile and the recv() of a TLV message write past a buffer of BUFSIZE
Overruns(m, f) == m = "TLV" /\ f.size > TlvRoom

\* what is made of a message that came only in part, or of a write() that failed
Part == [of |-> CHOOSE c \in Contents : TRUE, size |-> 0, tail |-> "junk", via |-> {"part"}]

-----------------------------------------------------------------------------
(* Headers and messages.  id, the request a message belongs to, is history. *)

ZeroHdr == [ver |-> 0, hlen |-> 0, dlen |-> 0, mod |-> "PROTO", cmd |-> "SET"]
Header == [ver : Nat, hlen : Nat, dlen : Nat, mod : Mods, cmd : Cmds]
Sized(hdr, n) == [hdr EXCEPT !.ver = VersionOne, !.dlen = n, !.hlen = HdrLen]
\* the server clears its header for the PROTO answer and sets the one field in it
Answer(hdr, n) == IF hdr.mod = "PROTO" THEN [ZeroHdr EXCEPT !.dlen = n] ELSE Sized(hdr, n)

\* the length of a packed message: its command and its file
PackedLen(f) == 1 + f.size

HdrMsg(h, i) == [kind |-> "hdr", hdr |-> h, id |-> i]
DataMsg(n, f, i) == [kind |-> "data", name |-> n, file |-> f, id |-> i]
\* a record of a listing begins with "./", the end mark does not
NameMsg(n, i) == [kind |-> "name", path |-> "./", name |-> n, id |-> i]
EndMsg(i) == [kind |-> "name", path |-> "end", name |-> CHOOSE n \in Names : TRUE, id |-> i]

NoFile == [Part EXCEPT !.via = {}]
NoJob == [name |-> CHOOSE n \in Names : TRUE, file |-> NoFile, len |-> 0]

-----------------------------------------------------------------------------
(* Standard input: lines as File_inputString leaves them, without their     *)
(* last character.                                                          *)

\* File_atoi: an unsigned int takes a digit at a time
File_atoi(line) ==
    LET f[i \in 0..Len(line)] == IF i = 0 THEN 0 ELSE (f[i - 1] * 10 + line[i]) % Wrap
    IN  f[Len(line)]

\* (a broken Chosen: a line of too many digits is cut)
X_Chosen(line, initially) ==
    IF line = Eof THEN initially
    ELSE IF IsNumber(line) /\ line # <<>> THEN {line[1]} ELSE {}
\* the values File_inputInt may leave in the menu's variable: at the end of
\* input what was there before, since no menu looks for FILEINPUT_RET_FAIL
Chosen(line, initially) ==
    IF line = Eof THEN initially ELSE IF IsNumber(line) THEN {File_atoi(line)} ELSE {}

\* fgets; after the end of input there is no other line
Reads(line) == /\ line = Eof \/ stdin = "open"
               /\ stdin' = IF line = Eof THEN "eof" ELSE stdin

-----------------------------------------------------------------------------
(* The state functions of FileClientState.c.                               *)

Return(s) == curState' = s /\ step' = "start"
\* -1, for which fileStateMain calls m_pCurState[-1], which is no function
Fail == Return("outside")
\* ended by a signal, in the middle of a state function
Killed == Return("killed")
Ended == curState \in {"max", "outside", "killed"}

File_stateTcpInit ==
    /\ curState = "tcpInit"
    /\ \/ Return("module") /\ sock' = "open" /\ peer' = "up"
       \/ "connect" \in Faults /\ Fail /\ UNCHANGED <<sock, peer>>
    /\ UNCHANGED <<menu, own, toServer, toClient, server, round, history>>

\* clears the header first; without a valid choice it is called again
File_stateSelModule ==
    /\ curState = "module" /\ round < IF cut = "none" THEN MaxReq ELSE MaxCut
    /\ \E line \in Lines \cup {Eof} :
         LET choice == Chosen(line, {0}) \cap DOMAIN ModuleMenu IN
         /\ Reads(line)
         /\ \/ \E v \in choice : /\ g_stTestHdr' = [ZeroHdr EXCEPT !.mod = ModuleMenu[v]]
                                 /\ typed' = line
                                 /\ Return("cmd")
            \/ choice = {} /\ g_stTestHdr' = ZeroHdr /\ UNCHANGED <<curState, step, typed>>
    /\ UNCHANGED <<own, conn, server, round, history>>

\* at the end of input ui_cmd has whatever was on the stack
File_stateSelCmd ==
    /\ curState = "cmd"
    /\ \E line \in Lines \cup {Eof} :
         LET values == Chosen(line, 0..6)
             commands == {v \in DOMAIN CmdMenu : CmdMenu[v] # "help"} IN
         /\ Reads(line)
         /\ \/ \E v \in values \cap commands :
                 /\ g_stTestHdr' = [g_stTestHdr EXCEPT !.cmd = CmdMenu[v]]
                 /\ typed' = line
                 /\ Return("dataDeal")
            \/ /\ values = {} \/ ~(values \subseteq commands)
               /\ UNCHANGED <<curState, step, g_stTestHdr, typed>>
    /\ UNCHANGED <<own, conn, server, round, history>>

\* Client_dataInteraction: the command decides on the handler
File_stateDataDeal ==
    /\ curState = "dataDeal" /\ step = "start"
    /\ step' = IF g_stTestHdr.cmd \in {"SET", "GET"} THEN "name" ELSE "sendHdr"
    /\ job' = NoJob /\ shown' = {}
    /\ round' = round + 1
    /\ typed' = <<>>
    /\ UNCHANGED <<curState, g_stTestHdr, stdin, openFiles, disk, conn, server, history>>

-----------------------------------------------------------------------------
(* The requests: DataDeal_setFile, getFile, listFile and exitFile.         *)

mod == g_stTestHdr.mod
cmd == g_stTestHdr.cmd

\* File_inputString, and for an upload: open, stat, read and pack
AskName ==
    /\ step = "name" /\ stdin = "open"
    /\ \E n \in Names :
         /\ cmd = "SET" => disk[n] # Absent
         /\ job' = [name |-> n, len |-> 0,
                    file |-> IF cmd = "SET" THEN Carried(mod, disk[n]) ELSE NoFile]
         /\ \/ /\ step' = "sendHdr" /\ UNCHANGED curState
               /\ openFiles' = IF cmd = "SET" /\ mod # "PROTO" THEN openFiles + 1 ELSE openFiles
            \/ /\ cmd = "SET" /\ Overruns(mod, disk[n])
               /\ Killed /\ UNCHANGED openFiles
    /\ UNCHANGED <<menu, shown, disk, conn, server, round, history>>

\* the input ends, there is no such file, or a call on it fails
AskNameFails ==
    /\ step = "name"
    /\ \/ stdin' = "eof" /\ UNCHANGED <<job, trouble>>
       \/ /\ stdin = "open" /\ UNCHANGED stdin
          /\ \E n \in Names : job' = [NoJob EXCEPT !.name = n]
          /\ \/ cmd = "SET" /\ disk[job'.name] = Absent /\ UNCHANGED trouble
             \/ "io" \in Faults /\ (cmd = "SET" \/ mod = "PROTO") /\ trouble' = TRUE
    /\ Fail
    /\ UNCHANGED <<g_stTestHdr, typed, shown, openFiles, disk, conn, server, round, jsonSets,
                   cut>>

\* malloc() fails: in protoPack, or for the answer
NoMemory ==
    /\ "io" \in Faults
    /\ \/ step = "sendHdr" /\ cmd = "LIST" /\ mod = "PROTO"
       \/ step = "recvBody" /\ mod # "TLV"
    /\ Fail /\ trouble' = TRUE
    /\ UNCHANGED <<menu, own, conn, server, round, jsonSets, cut>>

\* send() of one message: what the program is told, "ok" or "error"
Sends(msg, told) ==
    \/ /\ sock = "open" /\ peer = "up" /\ told = "ok"
       /\ toServer' = Append(toServer, msg) /\ UNCHANGED peer
    \* the other end is closed: the message is lost, and answered with RST
    \/ /\ sock = "open" /\ peer = "fin" /\ told = "ok"
       /\ peer' = "rst" /\ UNCHANGED toServer
    \/ (sock # "open" \/ peer = "rst") /\ told = "error" /\ UNCHANGED <<peer, toServer>>

\* SIGPIPE, which nothing ignores
SigPipe == /\ step \in {"sendHdr", "sendData"} /\ sock = "open" /\ peer = "rst"
           /\ Killed
           /\ UNCHANGED <<menu, own, conn, server, round, history>>

\* whether it was sent is not looked at: iRet is tested, which is another call's
SendHdr ==
    /\ step = "sendHdr"
    /\ LET len == IF cmd = "EXIT" THEN 0 ELSE PackedLen(job.file)
           hdr == Sized(g_stTestHdr, len) IN
       /\ g_stTestHdr' = hdr
       /\ \E told \in {"ok", "error"} : Sends(HdrMsg(hdr, round), told)
    /\ IF cmd = "EXIT" THEN Return("max") ELSE step' = "sendData" /\ UNCHANGED curState
    /\ UNCHANGED <<stdin, typed, own, sock, toClient, server, round, history>>

\* (a broken SetSent: the file is closed in every branch, twice in one)
X_SetSentCloses == /\ Return("module")
                   /\ openFiles' = openFiles - 1
                   /\ jsonSets' = IF mod = "JSON" THEN jsonSets + 1 ELSE jsonSets
\* (a broken SetSent: what is left in the register is taken for a failure)
X_SetSentFails == Fail /\ UNCHANGED <<openFiles, jsonSets>>
\* (a broken SetSent: the file is not closed)
X_SetSentOpen == /\ Return("module")
                 /\ openFiles' = openFiles
                 /\ jsonSets' = IF mod = "JSON" THEN jsonSets + 1 ELSE jsonSets
\* the rest of DataDeal_setFile: PROTO has closed the file, JSON never does
SetSent == /\ Return("module")
           /\ openFiles' = IF mod = "TLV" THEN openFiles - 1 ELSE openFiles
           /\ jsonSets' = IF mod = "JSON" THEN jsonSets + 1 ELSE jsonSets

SendData ==
    /\ step = "sendData"
    /\ \/ /\ Sends(DataMsg(job.name, job.file, round), "ok")
          /\ \/ cmd = "SET" /\ SetSent
             \/ /\ cmd # "SET" /\ step' = (IF cmd = "GET" THEN "recvHdr" ELSE "recvName")
                /\ UNCHANGED <<curState, openFiles, jsonSets>>
       \/ /\ Sends(DataMsg(job.name, job.file, round), "error")
          /\ Fail /\ UNCHANGED <<openFiles, jsonSets>>
    /\ UNCHANGED <<menu, job, shown, disk, sock, toClient, server, round, trouble, cut>>

\* recv() of a message in one piece: what has arrived comes first
Recv == cut # "astray" /\ sock = "open" /\ toClient # <<>> /\ toClient' = Tail(toClient)
\* the same message in pieces
InPieces == /\ "cut" \in Faults /\ Recv
            /\ cut' \in {"piece", "astray"}
\* FILE_CLIENT_RECV_PEER_DOWN, and FILE_CLIENT_ERROR: both close the socket
PeerDown == sock = "open" /\ toClient = <<>> /\ peer = "fin" /\ sock' = "closed"
RecvError == (sock # "open" \/ (toClient = <<>> /\ peer = "rst")) /\ sock' = "closed"

RecvHdr == /\ step = "recvHdr"
           /\ Recv
           /\ job' = [job EXCEPT !.len = Head(toClient).hdr.dlen]
           /\ step' = "recvBody"
           /\ UNCHANGED <<curState, menu, shown, openFiles, disk, sock, peer, toServer,
                          server, round, history>>

\* the name to save under is the one in the answer, or the typed one (JSON)
RecvBody ==
    /\ step = "recvBody"
    /\ Recv
    /\ LET msg == Head(toClient) IN
       /\ job' = [job EXCEPT !.file = msg.file, !.name = IF mod = "JSON" THEN @ ELSE msg.name]
       /\ \/ step' = "save" /\ UNCHANGED curState
          \/ Overruns(mod, msg.file) /\ Killed
    /\ UNCHANGED <<menu, shown, openFiles, disk, sock, peer, toServer, server, round, history>>

\* of a header in pieces the length may have come through, or not
HdrInPieces ==
    /\ step = "recvHdr" /\ InPieces
    /\ job' = [job EXCEPT !.len = IF cut' = "piece" THEN Head(toClient).hdr.dlen ELSE 0]
    /\ step' = "recvBody"
    /\ UNCHANGED <<curState, menu, shown, openFiles, disk, sock, peer, toServer,
                   server, round, jsonSets, trouble>>

\* an answer in pieces: JSON that does not parse, or without its items, which is
\* found out when the old file is gone; the others may decode to whatever
BodyInPieces ==
    /\ step = "recvBody" /\ InPieces /\ cut' = "piece"
    /\ \/ Fail /\ UNCHANGED <<job, disk, trouble>>
       \/ /\ mod = "JSON" /\ UNCHANGED job
          /\ \/ /\ Killed /\ disk' = [disk EXCEPT ![job.name] = Part] /\ UNCHANGED trouble
             \/ /\ "remove" \in Faults /\ disk[job.name] # Absent
                /\ Return("module") /\ trouble' = TRUE /\ UNCHANGED disk
             \/ /\ "io" \in Faults
                /\ Fail /\ trouble' = TRUE /\ disk' = [disk EXCEPT ![job.name] = Absent]
       \/ /\ mod # "JSON" /\ UNCHANGED <<disk, trouble>>
          /\ \/ Killed /\ UNCHANGED job
             \/ /\ step' = "save" /\ UNCHANGED curState
                /\ \E n \in Names : job' = [job EXCEPT !.file = Part, !.name = n]
    /\ UNCHANGED <<menu, shown, openFiles, sock, peer, toServer, server, round, jsonSets>>

\* the peer is down: of 0 bytes no answer can be decoded.  But cJSON_Parse sees
\* bytes of an earlier allocation, and when they parse, the handler makes an
\* empty file of the typed name before it uses the string that is not there.
NoHdr ==
    /\ step = "recvHdr"
    /\ PeerDown
    /\ \/ Fail /\ UNCHANGED disk
       \/ mod = "JSON" /\ Killed /\ disk' = [disk EXCEPT ![job.name] = Part]
    /\ UNCHANGED <<menu, job, shown, openFiles, peer, toServer, toClient, server, round, history>>

\* a buffer with less than the answer in it is decoded all the same
NoBody ==
    /\ step = "recvBody"
    /\ PeerDown
    /\ \/ (Fail \/ Killed) /\ UNCHANGED job
       \/ /\ step' = "save" /\ UNCHANGED curState
          /\ job' = [job EXCEPT !.file = Part]
    /\ UNCHANGED <<menu, shown, openFiles, disk, peer, toServer, toClient, server, round, history>>

RecvFails == /\ step \in {"recvHdr", "recvBody"}
             /\ RecvError
             /\ Fail
             /\ UNCHANGED <<menu, own, peer, toServer, toClient, server, round, history>>

\* open(O_EXCL), remove and open again, write, close: nobody else is there
\* (a broken Save: a file that was in the way is removed, but not opened again)
X_Save == /\ step = "save"
          /\ disk' = [disk EXCEPT ![job.name] = IF @ = Absent THEN job.file ELSE Absent]
          /\ Return("module")
          /\ UNCHANGED <<menu, job, shown, openFiles, conn, server, round, history>>
Save == /\ step = "save"
        /\ disk' = [disk EXCEPT ![job.name] = job.file]
        /\ Return("module")
        /\ UNCHANGED <<menu, job, shown, openFiles, conn, server, round, history>>

\* remove() failing returns 0; any other failure -1, wherever it is
SaveFails ==
    /\ step = "save"
    /\ \/ /\ "remove" \in Faults /\ disk[job.name] # Absent
          /\ Return("module") /\ UNCHANGED disk
       \/ /\ "io" \in Faults
          /\ Fail
          /\ \E f \in {disk[job.name], Absent, Part} : disk' = [disk EXCEPT ![job.name] = f]
    /\ trouble' = TRUE
    /\ UNCHANGED <<menu, job, shown, openFiles, conn, server, round, jsonSets, cut>>

\* (a broken RecvName: it is content with one record)
X_RecvName == /\ step = "recvName"
              /\ Recv
              /\ shown' = shown \cup {Head(toClient).name}
              /\ Return("module")
              /\ UNCHANGED <<menu, job, openFiles, disk, sock, peer, toServer, server, round, history>>
RecvName ==
    /\ step = "recvName"
    /\ Recv
    /\ IF Head(toClient).path = "end"
       THEN Return("module") /\ UNCHANGED shown
       ELSE shown' = shown \cup {Head(toClient).name} /\ UNCHANGED <<curState, step>>
    /\ UNCHANGED <<menu, job, openFiles, disk, sock, peer, toServer, server, round, history>>

\* a record in pieces shows any name or none, and the end mark is lost; the rest
\* of a name may begin like the mark, and what follows is left to the next recv()
NameInPieces ==
    /\ step = "recvName" /\ InPieces
    /\ \/ /\ cut' = "piece" /\ UNCHANGED <<curState, step>>
          /\ \E seen \in SUBSET Names : Cardinality(seen) <= 1 /\ shown' = shown \cup seen
       \/ /\ cut' = "astray" /\ Head(toClient).path # "end"
          /\ Return("module") /\ UNCHANGED shown
    /\ UNCHANGED <<menu, job, openFiles, disk, sock, peer, toServer, server, round,
                   jsonSets, trouble>>

\* Out of step the client takes as many bytes as it takes for whatever it waits for.
RecvAstray ==
    /\ cut = "astray" /\ step \in {"recvHdr", "recvBody", "recvName"} /\ sock = "open"
    /\ \E k \in 0..Len(toClient) : toClient' = SubSeq(toClient, k + 1, Len(toClient))
    /\ \/ UNCHANGED <<curState, step, job, shown, disk>>
       \/ /\ step = "recvHdr" /\ step' = "recvBody" /\ UNCHANGED <<curState, job, shown, disk>>
       \/ /\ step = "recvBody" /\ UNCHANGED shown
          /\ \/ (Fail \/ Killed) /\ UNCHANGED <<job, disk>>
             \/ mod = "JSON" /\ Killed /\ UNCHANGED job /\ disk' = [disk EXCEPT ![job.name] = Part]
             \/ /\ step' = "save" /\ UNCHANGED <<curState, disk>>
                /\ \E n \in IF mod = "JSON" THEN {job.name} ELSE Names :
                     job' = [job EXCEPT !.file = Part, !.name = n]
       \/ /\ step = "recvName" /\ UNCHANGED <<job, disk>>
          /\ \/ \E n \in Names : shown' = shown \cup {n} /\ UNCHANGED <<curState, step>>
             \/ Return("module") /\ UNCHANGED shown
    /\ UNCHANGED <<menu, openFiles, sock, peer, toServer, server, round, history>>

\* (a broken NameLost: the closed socket is tried again, as often as it takes)
X_NameLost == /\ step = "recvName" /\ (PeerDown \/ RecvError)
              /\ UNCHANGED <<curState, step, menu, own, peer, toServer, toClient, server, round,
                             history>>
\* PEER_DOWN is not looked at: an empty line is printed, and recv() called again.
\* -1 is, but in the PROTO branch as if the listing were complete.
NameLost ==
    /\ step = "recvName"
    /\ \/ PeerDown /\ UNCHANGED <<curState, step>>
       \/ RecvError /\ IF mod = "PROTO" THEN Return("module") ELSE Fail
    /\ UNCHANGED <<menu, own, peer, toServer, toClient, server, round, history>>

\* what the client does without its user
GoesWhole == \/ File_stateDataDeal \/ SigPipe \/ SendHdr \/ SendData
             \/ RecvHdr \/ RecvBody \/ NoHdr \/ NoBody \/ RecvFails
             \/ Save \/ RecvName \/ NameLost
GoesCut == HdrInPieces \/ BodyInPieces \/ NameInPieces \/ RecvAstray
Goes == GoesWhole \/ GoesCut

-----------------------------------------------------------------------------
(* The server's thread, by what this client gets to see of it (FileServer   *)
(* and FileStore have the rest): one request after the other.               *)

\* close() with something unread resets the connection
HangUp == /\ peer' = IF peer = "rst" \/ toServer' # <<>> THEN "rst" ELSE "fin"
          /\ srv' = [srv EXCEPT !.pc = "gone"]

TakeHdr ==
    /\ srv.pc = "idle" /\ toServer # <<>>
    /\ toServer' = Tail(toServer)
    /\ LET msg == Head(toServer) IN
       IF msg.hdr.cmd = "EXIT"
       THEN HangUp
       ELSE /\ srv' = [srv EXCEPT !.pc = "data", !.hdr = msg.hdr, !.id = msg.id]
            /\ UNCHANGED peer
    /\ UNCHANGED <<curState, step, menu, own, sock, toClient, store, round, history>>

\* A header in pieces fails the check of its version or its length, and the thread
\* returns without a close(); but of a GET cut before the command, which is 1 as
\* the version is, both are right, and the command left behind is 0, a SET.
HdrTakenInPieces ==
    /\ "cut" \in Faults /\ cut' = (IF cut = "none" THEN "piece" ELSE cut)
    /\ srv.pc = "idle" /\ toServer # <<>>
    /\ toServer' = Tail(toServer)
    /\ \E pc \in {"left"} \cup IF Head(toServer).hdr.cmd = "GET" THEN {"wrong"} ELSE {} :
         srv' = [srv EXCEPT !.pc = pc]
    /\ UNCHANGED <<curState, step, menu, own, sock, peer, toClient, store, round,
                   jsonSets, trouble>>

\* the upload of a GET: the letter of its command is found wrong, or too little
\* was taken of it; or it comes in pieces too, and is stored as a file
ServeWrong ==
    /\ srv.pc = "wrong" /\ toServer # <<>>
    /\ \/ toServer' \in {toServer, Tail(toServer)} /\ HangUp /\ UNCHANGED store
       \/ /\ toServer' = Tail(toServer)
          /\ \E n \in Names : store' = [store EXCEPT ![n] = Part]
          /\ srv' = [srv EXCEPT !.pc = "idle"] /\ UNCHANGED peer
    /\ UNCHANGED <<curState, step, menu, own, sock, toClient, round, history>>

\* files that a request in hand may become, when a call fails
Spoilt(n) == {store[n], Absent, Part}

ServeSet == LET msg == Head(toServer) IN
    /\ srv.pc = "data" /\ srv.hdr.cmd = "SET" /\ toServer # <<>>
    /\ toServer' = Tail(toServer)
    /\ \/ /\ store' = [store EXCEPT ![msg.name] = msg.file]
          /\ srv' = [srv EXCEPT !.pc = "idle"] /\ UNCHANGED peer
       \/ /\ "server" \in Faults \/ Overruns(srv.hdr.mod, msg.file)
          /\ \E f \in Spoilt(msg.name) : store' = [store EXCEPT ![msg.name] = f]
          /\ HangUp
       \* remove() failing returns 0
       \/ /\ "remove" \in Faults /\ store[msg.name] # Absent
          /\ srv' = [srv EXCEPT !.pc = "idle"] /\ UNCHANGED <<store, peer>>
    /\ UNCHANGED <<curState, step, menu, own, sock, toClient, round, history>>

AnswersGet(n) ==
    /\ toClient' = Append(toClient, HdrMsg(Answer(srv.hdr, PackedLen(Carried(srv.hdr.mod, store[n]))),
                                          srv.id))
    /\ srv' = [srv EXCEPT !.pc = "body", !.name = n]

ServeGet == LET msg == Head(toServer) file == store[msg.name] IN
    /\ srv.pc = "data" /\ srv.hdr.cmd = "GET" /\ toServer # <<>>
    /\ toServer' = Tail(toServer)
    /\ \/ file # Absent /\ AnswersGet(msg.name) /\ UNCHANGED peer
       \/ /\ file # Absent => Overruns(srv.hdr.mod, file)
          /\ HangUp /\ UNCHANGED toClient
    /\ UNCHANGED <<curState, step, menu, own, sock, store, round, history>>

\* A payload in pieces: it does not parse, or ends the process; or, but for JSON,
\* is decoded to whatever.
ServeInPieces ==
    /\ "cut" \in Faults /\ cut' = (IF cut = "none" THEN "piece" ELSE cut)
    /\ srv.pc = "data" /\ toServer # <<>>
    /\ toServer' = Tail(toServer)
    /\ \/ HangUp /\ UNCHANGED <<store, toClient>>
       \/ /\ srv.hdr.mod # "JSON" /\ UNCHANGED peer
          /\ \E n \in Names :
               \/ /\ srv.hdr.cmd = "SET" /\ store' = [store EXCEPT ![n] = Part]
                  /\ srv' = [srv EXCEPT !.pc = "idle"] /\ UNCHANGED toClient
               \/ /\ srv.hdr.cmd = "GET" /\ store[n] # Absent /\ UNCHANGED store
                  /\ AnswersGet(n)
    /\ UNCHANGED <<curState, step, menu, own, sock, round, jsonSets, trouble>>

SendBody ==
    /\ srv.pc = "body"
    /\ toClient' = Append(toClient, DataMsg(srv.name, Carried(srv.hdr.mod, store[srv.name]), srv.id))
    /\ srv' = [srv EXCEPT !.pc = "idle"]
    /\ UNCHANGED <<curState, step, menu, own, sock, peer, toServer, store, round, history>>

ServeList ==
    /\ srv.pc = "data" /\ srv.hdr.cmd = "LIST" /\ toServer # <<>>
    /\ toServer' = Tail(toServer)
    /\ srv' = [srv EXCEPT !.pc = "list", !.left = {n \in Names : store[n] # Absent}]
    /\ UNCHANGED <<curState, step, menu, own, sock, peer, toClient, store, round, history>>

\* (a broken SendName: the last record is left out)
X_SendName ==
    /\ srv.pc = "list"
    /\ \/ \E n \in srv.left : /\ Cardinality(srv.left) > 1
                             /\ toClient' = Append(toClient, NameMsg(n, srv.id))
                             /\ srv' = [srv EXCEPT !.left = @ \ {n}]
       \/ /\ Cardinality(srv.left) <= 1
          /\ toClient' = Append(toClient, EndMsg(srv.id))
          /\ srv' = [srv EXCEPT !.pc = "idle"]
    /\ UNCHANGED <<curState, step, menu, own, sock, peer, toServer, store, round, history>>
SendName ==
    /\ srv.pc = "list"
    /\ \/ \E n \in srv.left : /\ toClient' = Append(toClient, NameMsg(n, srv.id))
                             /\ srv' = [srv EXCEPT !.left = @ \ {n}]
       \/ /\ srv.left = {}
          /\ toClient' = Append(toClient, EndMsg(srv.id))
          /\ srv' = [srv EXCEPT !.pc = "idle"]
    /\ UNCHANGED <<curState, step, menu, own, sock, peer, toServer, store, round, history>>

\* a call fails, or another client's request ends the process
ServerEnds == /\ srv.pc # "gone" /\ peer = "up" /\ "server" \in Faults
              /\ UNCHANGED toServer /\ HangUp
              /\ UNCHANGED <<curState, step, menu, own, sock, toClient, store, round, history>>

ServesWhole == TakeHdr \/ ServeSet \/ ServeGet \/ SendBody \/ ServeList \/ SendName
ServesCut == HdrTakenInPieces \/ ServeWrong \/ ServeInPieces
Serves == ServesWhole \/ ServesCut

-----------------------------------------------------------------------------
Init ==
    /\ curState = "tcpInit" /\ step = "start"
    /\ g_stTestHdr = ZeroHdr /\ stdin = "open" /\ typed = <<>>
    /\ job = NoJob /\ shown = {} /\ openFiles = 0
    /\ disk \in FirstDisk /\ store \in FirstStore
    /\ sock = "none" /\ peer = "none" /\ toServer = <<>> /\ toClient = <<>>
    /\ srv = [pc |-> "idle", hdr |-> ZeroHdr, name |-> NoJob.name, left |-> {}, id |-> 0]
    /\ round = 0 /\ jsonSets = 0 /\ trouble = FALSE /\ cut = "none"

Menus == File_stateTcpInit \/ File_stateSelModule \/ File_stateSelCmd \/ AskName
Failures == AskNameFails \/ NoMemory \/ SaveFails \/ ServerEnds
Next == Menus \/ Goes \/ Serves \/ Failures

\* nobody has to type anything, and nothing has to fail
Spec == Init /\ [][Next]_vars /\ WF_vars(Goes) /\ WF_vars(Serves)

-----------------------------------------------------------------------------
(* Properties.                                                             *)

Message == [kind : {"hdr"}, hdr : Header, id : Nat]
           \cup [kind : {"data"}, name : Names, file : File, id : Nat]
           \cup [kind : {"name"}, path : {"./", "end"}, name : Names, id : Nat]
Steps == {"start", "name", "sendHdr", "sendData", "recvHdr", "recvBody", "save", "recvName"}

\* Every variable keeps its type, and no handler closes a file it did not open.
TypeOK ==
    /\ curState \in {"tcpInit", "module", "cmd", "dataDeal", "max", "outside", "killed"}
    /\ step \in Steps
    /\ g_stTestHdr \in Header
    /\ stdin \in {"open", "eof"} /\ typed \in Lines \cup {Eof, <<>>}
    /\ job \in [name : Names, file : File, len : Nat]
    /\ shown \in SUBSET Names /\ openFiles \in Nat
    /\ disk \in Files /\ store \in Files
    /\ sock \in {"none", "open", "closed"} /\ peer \in {"none", "up", "fin", "rst"}
    /\ toServer \in Seq(Message) /\ toClient \in Seq(Message)
    /\ srv \in [pc : {"idle", "data", "body", "list", "left", "wrong", "gone"}, hdr : Header, name : Names,
                left : SUBSET Names, id : Nat]
    /\ round \in Nat /\ jsonSets \in Nat /\ trouble \in BOOLEAN
    /\ cut \in {"none", "piece", "astray"}

\* What a recv() waits for.
Awaited == CASE step = "recvHdr" -> "hdr" [] step = "recvBody" -> "data"
             [] step = "recvName" -> "name" [] OTHER -> "nothing"

\* Client and server keep step: nothing but the length in a header and the end
\* mark tells them where a message ends, and yet what a recv() finds is of the
\* kind it takes it for and of the request in hand, at both ends; and what
\* arrives is as long as its header said.  Only the client loses step, by the
\* length of an answer that came in pieces, or a record of which the last piece
\* begins like the end mark; at the server a request in pieces ends the thread.
Aligned ==
    /\ cut # "astray" /\ sock = "open" /\ ~Ended /\ toClient # <<>> =>
         Head(toClient).kind = Awaited /\ Head(toClient).id = round
    /\ cut # "astray" /\ step = "recvBody" /\ sock = "open" /\ toClient # <<>> =>
         job.len = PackedLen(Head(toClient).file)
    /\ srv.pc = "idle" /\ toServer # <<>> => Head(toServer).kind = "hdr"
    /\ srv.pc = "data" /\ toServer # <<>> => /\ Head(toServer).kind = "data"
                                            /\ Head(toServer).id = srv.id
                                            /\ srv.hdr.dlen = PackedLen(Head(toServer).file)

\* What comes through: whatever was sent in which direction how often, a file
\* has the name it always had, what went by JSON and TLV only has the size it
\* always had, and by TLV only, or without a NUL in it, its bytes.  (PROTO makes
\* every file BUFSIZE bytes long.)  What a message in pieces or a failing write()
\* made of a file is damaged, and no transfer takes it for another.
Sound(n, f) ==
    f = Absent \/ "part" \in f.via \/
    LET o == Original[f.of] IN
    /\ o.name = n
    /\ f.via \subseteq {"JSON", "TLV"} => f.size = o.size
    /\ f.via \subseteq {"TLV"} \/ (f.via \subseteq {"JSON", "TLV"} /\ o.text = o.size)
         => f.tail = "own"
WhatSurvives == \A n \in Names : Sound(n, disk[n]) /\ Sound(n, store[n])

\* What client and server start with nobody has transferred yet.
ASSUME FirstAssumption == \A d \in FirstDisk \cup FirstStore : \A n \in Names : Sound(n, d[n])

\* Between requests the client has as many files open as it uploaded by JSON,
\* which is the one branch without a close(): each costs a descriptor.
OnlyJsonLeaks == curState \in {"module", "cmd"} => openFiles = jsonSets

\* A menu acts on the number that was typed, if it is one that an unsigned int
\* can hold (no check comes before File_atoi has wrapped it) and the input had
\* not ended.
Value[line \in Seq(Digit)] ==
    IF line = <<>> THEN 0
    ELSE Value[SubSeq(line, 1, Len(line) - 1)] * 10 + line[Len(line)]
Plain == typed # Eof /\ typed # <<>> /\ Value[typed] < Wrap
OnlyTyped ==
    /\ curState = "cmd" /\ Plain => \E v \in DOMAIN ModuleMenu :
                                       v = Value[typed] /\ mod = ModuleMenu[v]
    /\ curState = "dataDeal" /\ step = "start" /\ Plain => \E v \in DOMAIN CmdMenu :
                                       v = Value[typed] /\ cmd = CmdMenu[v]

\* The call of m_pCurState[-1] has a cause: the input ended in a request, there
\* is no such file, a call on a file failed, the connection did, or a message was
\* received in pieces (JSON does not parse then, with nothing else the matter).
CrashHasCause ==
    curState = "outside" =>
        \/ stdin = "eof" \/ trouble \/ peer # "up" \/ sock # "open" \/ cut # "none"
        \/ cmd = "SET" /\ disk[job.name] = Absent

\* A LIST that comes back to the menu over a connection that is still there has
\* shown the server's files, all of them and nothing else, as long as no message
\* was received in pieces.
ListComplete ==
    [][step = "recvName" /\ curState' = "module" /\ sock' = "open" /\ cut' = "none"
         => shown' = {n \in Names : store[n] # Absent}]_vars

-----------------------------------------------------------------------------
(* What a user may rely on: module FileExchange.                           *)

\* The upload requests in a queue of messages behind the header hdr.
HdrOf(queue, hdr, i) == IF i = 1 THEN hdr ELSE queue[i - 1].hdr
UploadsIn(queue, hdr) ==
    {i \in DOMAIN queue : queue[i].kind = "data" /\ HdrOf(queue, hdr, i).cmd = "SET"}
Request(i, o, n, m) == [id |-> i, op |-> o, name |-> n, codec |-> m]
Queued(queue, hdr) ==
    {Request(queue[i].id, "SET", queue[i].name, HdrOf(queue, hdr, i).mod) :
        i \in UploadsIn(queue, hdr)}

\* Uploads still to be served, as long as somebody is there to serve them; and
\* the request in the client's hands.
Underway == IF srv.pc = "gone" THEN {} ELSE Queued(toServer, srv.hdr)
AtHand ==
    IF \/ cmd = "GET" /\ step \in {"sendHdr", "sendData", "recvHdr", "recvBody", "save"}
       \/ cmd = "SET" /\ step \in {"sendHdr", "sendData"} /\ srv.pc # "gone"
    THEN {Request(round, cmd, job.name, mod)}
    ELSE {}

Asked == Underway \cup AtHand
Up == srv.pc # "gone" /\ curState \notin {"outside", "killed"}
Exchange == INSTANCE FileExchange WITH
    Codecs <- Mods, Copy <- Carried, Torn <- Part, asked <- Asked, up <- Up,
    whole <- cut = "none"

\* Though an upload is over for the client when it is sent and the server gets to
\* it later, all requests of a client work as if each copied its file at once, in
\* the order they were made: an upload brings the file that the client has when
\* the server stores it, a download the one the server has when the client saves
\* it, under the name that was asked for; and none is left out while both ends
\* are up, but for the failing remove() that is not told.  All that is promised up
\* to the first message received in pieces.
Exchanged == Exchange!Spec

\* A request for which all was typed comes back to the menu or ends the process,
\* whatever fails at the server, as long as its thread keeps to this client's
\* header (FileServer has what another client's does to it), and no message is
\* received in pieces: a listing without its end mark, and an answer that a
\* thread without its header never sends, are waited for for ever.
RequestEnds == step \notin {"start", "name"} ~> step = "start" \/ cut # "none"

=============================================================================
