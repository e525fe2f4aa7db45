------------------------------ MODULE FileServer ------------------------------
(***************************************************************************)
(* The server process of file_server/: the accept loop of main(), one      *)
(* detached thread per accepted connection, the descriptor table they all  *)
(* share, and the one global header g_stTestHdr every thread receives its  *)
(* requests into and builds its GET replies in.                            *)
(*                                                                         *)
(* A request is one "hdr" cell followed by dlen "pay" cells, the parts the *)
(* network may deliver its payload in.  A header has five words, and may   *)
(* come in several pieces too.                                             *)
(***************************************************************************)
EXTENDS Naturals, Sequences, FiniteSets

CONSTANTS Clients,     \* client connections, each served by one thread
          Nobody,      \* the "who" of a descriptor that belongs to no client
          Requests,    \* the requests a client may send: [mod, cmd, dlen]
          ReplyLens,   \* sizes the packed answer to a GET may have
          MaxFd,       \* descriptor limit of the process (RLIMIT_NOFILE)
          MaxLive,     \* bound: clients that may be connected at a time
          MaxReq,      \* bound: requests the clients send in all
          Departures,  \* how a client may vanish: "closed" (FIN), "reset"
          Faults,      \* what may fail: "spawn", "open" (or opendir), "io"
                       \* (stat, malloc, read, write, remove), "shrink" (a
                       \* file is replaced while a GET reads it)
          Cuts,        \* after which of its words a header may be cut in pieces
          BufRoom      \* cells of the fixed TLV buffer (BUFSIZE)

ListenFd == 3          \* first descriptor after stdin, stdout and stderr
Fds == ListenFd..MaxFd
HdrLen == 20           \* sizeof(TestHdr_S)
PeerDown == 1          \* FILE_SERVER_RECV_PEER_DOWN
VersionOne == 1
NotAVersion == 4       \* what other bytes look like in m_enVersion
HdrWords == 5          \* version, header length, data length, module, command
ModWord == [PROTO |-> 0, TLV |-> 1, JSON |-> 2]
CmdWord == [SET |-> 0, GET |-> 1, LIST |-> 2, EXIT |-> 3]

CmdOrder == <<"SET", "GET", "LIST", "EXIT">>   \* the order they are tested in
ModOrder == <<"PROTO", "JSON", "TLV">>
Cmds == {"SET", "GET", "LIST", "EXIT"}
Mods == {"PROTO", "JSON", "TLV"}

ASSUME ServerAssumption ==
    /\ Nobody \notin Clients
    /\ MaxFd \in Nat /\ MaxFd >= ListenFd
    /\ MaxLive \in Nat /\ MaxReq \in Nat
    /\ Requests \subseteq [mod : Mods, cmd : Cmds, dlen : Nat]
    /\ \A r \in Requests : r.cmd # "EXIT" => r.dlen > 0
    /\ ReplyLens \subseteq Nat
    /\ Departures \subseteq {"closed", "reset"}
    /\ Faults \subseteq {"spawn", "open", "io", "shrink"}
    /\ Cuts \subseteq 1 .. HdrWords - 1
    /\ BufRoom \in Nat

VARIABLES
    main,        \* the accept loop: [pc, fd (iConnectFd), who]
    g_stTestHdr, \* the global header
    fdTable,     \* descriptor -> [kind, who]
    pc,          \* thread of client c -> where it is
    connFd,      \* thread -> its argument iConnectFd
    hdrBytes,    \* thread -> iRecvHdrBytes
    loc,         \* thread -> the other locals
    backlog,     \* established connections not yet accepted
    cl,          \* client -> what it is doing
    cur,         \* client -> the request it sent last
    sent,        \* number of requests sent so far
    inq,         \* client -> cells the server has not received yet
    outq         \* client -> cells the server sent, not yet consumed

threadVars == <<pc, connFd, hdrBytes, loc>>
clientVars == <<backlog, cl, cur, sent>>
vars == <<main, g_stTestHdr, fdTable, threadVars, clientVars, inq, outq>>

-----------------------------------------------------------------------------
(* Headers, cells and descriptors.                                         *)

\* mod is "none" where the word is no codec's
Header == [ver : Nat, hlen : Nat, dlen : Nat, mod : Mods \cup {"none"}, cmd : Cmds]
ZeroHdr == [ver |-> 0, hlen |-> 0, dlen |-> 0, mod |-> "PROTO", cmd |-> "SET"]
ForeignHdr == [ZeroHdr EXCEPT !.ver = NotAVersion]  \* payload read as a header
HdrOf(r) == [ver |-> VersionOne, hlen |-> HdrLen,
             dlen |-> r.dlen, mod |-> r.mod, cmd |-> r.cmd]

HdrCell(r) == [kind |-> "hdr", req |-> r, part |-> 0]
Payload(r) == [i \in 1..r.dlen |-> [kind |-> "pay", req |-> r, part |-> i]]
HdrSeen(cell) == IF cell.kind = "hdr" THEN HdrOf(cell.req) ELSE ForeignHdr

\* what the data length of r, in bytes, may look like to a reader that takes it for
\* something else (a request of 20 bytes has the length of a header)
LenWords(r) == IF r.dlen = 0 THEN {0} ELSE {HdrLen, NotAVersion}
Words(r, b) == <<VersionOne, HdrLen, b, ModWord[r.mod], CmdWord[r.cmd]>>
\* a module or command number taken for a length: no byte, or so few that they
\* are no more than a cell
FewBytes(w) == IF w = 0 THEN 0 ELSE 1
ModSeen == <<"PROTO", "TLV", "JSON", "none">>
\* Header h when n words of r's header, whose length looks like b, are stored at
\* its start, which is where Server_recvData puts every piece; k came before them.
Overlaid(h, r, k, n, b) ==
    LET w == Words(r, b) IN
    [h EXCEPT !.ver = w[k + 1],
              !.hlen = IF n < 2 THEN @ ELSE w[k + 2],
              !.dlen = IF n < 3 THEN @ ELSE IF k = 0 THEN r.dlen ELSE FewBytes(w[k + 3]),
              !.mod = IF n < 4 THEN @ ELSE IF k = 0 THEN r.mod ELSE ModSeen[w[k + 4] + 1]]

FreeFd == [kind |-> "free", who |-> Nobody]
Listener == [kind |-> "listen", who |-> Nobody]
Reserved == [kind |-> "reserved", who |-> Nobody]
Conn(c) == [kind |-> "conn", who |-> c]
File(c) == [kind |-> "file", who |-> c]

Running == main.pc # "exited"
IsLowestFree(f) ==
    /\ fdTable[f] = FreeFd
    /\ \A g \in Fds : fdTable[g] = FreeFd => f <= g
NoFreeFd == \A f \in Fds : fdTable[f] # FreeFd
\* close(f): EBADF when the number is free or only reserved by a blocked accept
Closed(f) == IF fdTable[f] \in {FreeFd, Reserved}
             THEN fdTable ELSE [fdTable EXCEPT ![f] = FreeFd]
\* the process ends, by exit or by a fatal signal
Die == /\ main' = [main EXCEPT !.pc = "exited"]
       /\ fdTable' = [f \in Fds |-> FreeFd]

NoRequest == [mod |-> "PROTO", cmd |-> "none", dlen |-> 0]
NoLocals == [k |-> 1, sock |-> FreeFd, own |-> ZeroHdr, cmd |-> "EXIT",
             mod |-> "PROTO", size |-> 0, need |-> 0, got |-> 0, buf |-> <<>>,
             file |-> MaxFd, reply |-> 0, words |-> 0, torn |-> FALSE]
\* torn (history): a request header of this connection came in pieces
Cleared(t) == [NoLocals EXCEPT !.torn = loc[t].torn]

Connected(c) == cl[c] \in {"ready", "half", "wait"}
HasEof(c) == inq[c] = <<>> /\ cl[c] \in {"closed", "hungup"}

-----------------------------------------------------------------------------
(* The clients, as far as the server can tell.                             *)

\* neither a descriptor nor a blocked recv() holds the client's socket
ServerGone(c) ==
    \/ ~Running
    \/ /\ c \notin {backlog[i] : i \in DOMAIN backlog}
       /\ cl[c] # "off"
       /\ \A f \in Fds : fdTable[f] # Conn(c)
       /\ \A t \in Clients : pc[t] \in {"recv", "data"} => loc[t].sock # Conn(c)

\* a connection that is alive, or whose thread still runs
Live(c) == \/ Connected(c)
           \/ cl[c] # "off" /\ Running /\ pc[c] # "done"

Connect(c) ==
    /\ cl[c] = "off" /\ Running
    /\ Cardinality({d \in Clients : Live(d)}) < MaxLive
    /\ cl' = [cl EXCEPT ![c] = "ready"]
    /\ backlog' = Append(backlog, c)
    /\ UNCHANGED <<main, g_stTestHdr, fdTable, threadVars, cur, sent, inq, outq>>

\* The header is sent with one send() and the payload with a second one; the
\* EXIT command has no payload and the client ends after it.
SendHdr(c) ==
    /\ cl[c] = "ready" /\ sent < MaxReq
    /\ \E r \in Requests :
         /\ inq' = [inq EXCEPT ![c] = Append(@, HdrCell(r))]
         /\ cur' = [cur EXCEPT ![c] = r]
         /\ cl' = [cl EXCEPT ![c] = IF r.cmd = "EXIT" THEN "closed" ELSE "half"]
    /\ sent' = sent + 1
    /\ UNCHANGED <<main, g_stTestHdr, fdTable, threadVars, backlog, outq>>

SendPayload(c) ==
    /\ cl[c] = "half"
    /\ inq' = [inq EXCEPT ![c] = @ \o Payload(cur[c])]
    /\ cl' = [cl EXCEPT ![c] = IF cur[c].cmd = "SET" THEN "ready" ELSE "wait"]
    /\ UNCHANGED <<main, g_stTestHdr, fdTable, threadVars, backlog, cur, sent, outq>>

\* A GET is answered by a header and a body, a LIST by names and an end mark.
TakeReply(c) ==
    /\ cl[c] = "wait"
    /\ \E i \in DOMAIN outq[c] :
         outq[c][i].kind = (IF cur[c].cmd = "GET" THEN "body" ELSE "end")
    /\ cl' = [cl EXCEPT ![c] = "ready"]
    /\ outq' = [outq EXCEPT ![c] = <<>>]
    /\ UNCHANGED <<main, g_stTestHdr, fdTable, threadVars, backlog, cur, sent, inq>>

\* the client finds the connection gone and gives up
NoticeDown(c) ==
    /\ Connected(c) /\ ServerGone(c)
    /\ cl' = [cl EXCEPT ![c] = "closed"]
    /\ UNCHANGED <<main, g_stTestHdr, fdTable, threadVars, backlog, cur, sent, inq, outq>>

\* the client is killed or its host goes away, at any point of the exchange
Depart(c) ==
    /\ Connected(c)
    /\ \E how \in Departures : cl' = [cl EXCEPT ![c] = how]
    /\ UNCHANGED <<main, g_stTestHdr, fdTable, threadVars, backlog, cur, sent, inq, outq>>

Client(c) == \/ Connect(c) \/ SendHdr(c) \/ SendPayload(c)
             \/ TakeReply(c) \/ NoticeDown(c) \/ Depart(c)

-----------------------------------------------------------------------------
(* The accept loop.  accept() reserves the lowest free descriptor before   *)
(* it blocks, and fails at once when there is none.                        *)

\* (a broken EnterAccept: accept() fails, the listener is closed, the loop goes on)
EnterAccept_Continues ==
    /\ main.pc = "loop"
    /\ \/ /\ \E f \in Fds : /\ IsLowestFree(f)
                            /\ fdTable' = [fdTable EXCEPT ![f] = Reserved]
                            /\ main' = [main EXCEPT !.pc = "accept", !.fd = f]
       \/ NoFreeFd /\ fdTable' = Closed(ListenFd) /\ UNCHANGED main
    /\ UNCHANGED <<g_stTestHdr, threadVars, clientVars, inq, outq>>

EnterAccept ==
    /\ main.pc = "loop"
    /\ \/ /\ \E f \in Fds : /\ IsLowestFree(f)
                            /\ fdTable' = [fdTable EXCEPT ![f] = Reserved]
                            /\ main' = [main EXCEPT !.pc = "accept", !.fd = f]
       \/ NoFreeFd /\ Die
    /\ UNCHANGED <<g_stTestHdr, threadVars, clientVars, inq, outq>>

Accept ==
    /\ main.pc = "accept" /\ backlog # <<>>
    /\ main' = [main EXCEPT !.pc = "spawn", !.who = Head(backlog)]
    /\ fdTable' = [fdTable EXCEPT ![main.fd] = Conn(Head(backlog))]
    /\ backlog' = Tail(backlog)
    /\ UNCHANGED <<g_stTestHdr, threadVars, cl, cur, sent, inq, outq>>

Spawn ==
    /\ main.pc = "spawn"
    /\ pc' = [pc EXCEPT ![main.who] = "top"]
    /\ connFd' = [connFd EXCEPT ![main.who] = main.fd]
    /\ main' = [main EXCEPT !.pc = "loop"]
    /\ UNCHANGED <<g_stTestHdr, fdTable, hdrBytes, loc, clientVars, inq, outq>>

\* pthread_create or pthread_detach fails: main() returns and every thread dies
SpawnFails ==
    /\ main.pc = "spawn" /\ "spawn" \in Faults
    /\ Die
    /\ UNCHANGED <<g_stTestHdr, threadVars, clientVars, inq, outq>>

Server_dealClientReq == EnterAccept \/ Accept \/ Spawn \/ SpawnFails

-----------------------------------------------------------------------------
(* server_client_data_deal: receiving and checking the header.  Every      *)
(* step that reads or writes g_stTestHdr or the descriptor table is an     *)
(* action of its own, since another thread may come in between.            *)

Goto(t, p) == pc' = [pc EXCEPT ![t] = p]
SetLoc(t, field, v) == loc' = [loc EXCEPT ![t][field] = v]

\* memset(pstTestHdr, 0, sizeof(TestHdr_S)); the locals start afresh
Top(t) ==
    /\ pc[t] = "top"
    /\ g_stTestHdr' = ZeroHdr
    /\ loc' = [loc EXCEPT ![t] = Cleared(t)]
    /\ Goto(t, "hcall")
    /\ UNCHANGED <<main, fdTable, connFd, hdrBytes, clientVars, inq, outq>>

\* recv() looks its descriptor up once and then waits on that socket, even
\* when the descriptor is closed meanwhile
Call(t, from, to) ==
    /\ pc[t] = from
    /\ SetLoc(t, "sock", fdTable[connFd[t]])
    /\ Goto(t, to)
    /\ UNCHANGED <<main, g_stTestHdr, fdTable, connFd, hdrBytes, clientVars, inq, outq>>

RecvEof(t) == loc[t].sock.kind = "conn" /\ HasEof(loc[t].sock.who)
RecvFails(t) == loc[t].sock.kind = "conn" => cl[loc[t].sock.who] = "reset"
CanRecv(t) == loc[t].sock.kind = "conn" /\ inq[loc[t].sock.who] # <<>>

\* The header arrives whole.  The kernel's copy is not atomic: the command word,
\* the last one, is written after the others.
RecvHdr(t) ==
    /\ pc[t] = "recv" /\ CanRecv(t)
    /\ loc[t].words = 0 \/ Head(inq[loc[t].sock.who]).kind = "pay"
    /\ LET c == loc[t].sock.who
           h == HdrSeen(Head(inq[c]))
       IN  /\ inq' = [inq EXCEPT ![c] = Tail(@)]
           /\ g_stTestHdr' = [h EXCEPT !.cmd = g_stTestHdr.cmd]
           /\ SetLoc(t, "own", h)
    /\ hdrBytes' = [hdrBytes EXCEPT ![t] = HdrLen]
    /\ Goto(t, "copy")
    /\ UNCHANGED <<main, fdTable, connFd, clientVars, outq>>

\* Some words of the header arrive, over those that came before.  The call that
\* brings the last one ends the loop, whatever the header looks like then.
RecvPiece(t) ==
    /\ pc[t] = "recv" /\ CanRecv(t)
    /\ LET c == loc[t].sock.who
           l == loc[t]
           r == Head(inq[c]).req IN
       /\ Head(inq[c]).kind = "hdr"
       /\ \E n \in 1 .. HdrWords - 1, b \in LenWords(r) :
            /\ l.words + n \in Cuts \cup {HdrWords}
            /\ g_stTestHdr' = Overlaid(g_stTestHdr, r, l.words, n, b)
            /\ loc' = [loc EXCEPT ![t] = [l EXCEPT
                           !.own = Overlaid(l.own, r, l.words, n, b), !.torn = TRUE,
                           !.words = (l.words + n) % HdrWords]]
            /\ \/ /\ l.words + n < HdrWords /\ Goto(t, "hcall")
                  /\ UNCHANGED <<inq, hdrBytes>>
               \/ /\ l.words + n = HdrWords /\ Goto(t, "ver")
                  /\ inq' = [inq EXCEPT ![c] = Tail(@)]
                  /\ hdrBytes' = [hdrBytes EXCEPT ![t] = HdrLen]
    /\ UNCHANGED <<main, fdTable, connFd, clientVars, outq>>

\* (a broken CopyCmd: one field too few is received)
CopyCmd_TooShort(t) ==
    /\ pc[t] = "copy"
    /\ Goto(t, "ver")
    /\ UNCHANGED <<main, g_stTestHdr, fdTable, connFd, hdrBytes, loc, clientVars, inq, outq>>

CopyCmd(t) ==
    /\ pc[t] = "copy"
    /\ g_stTestHdr' = [g_stTestHdr EXCEPT !.cmd = loc[t].own.cmd]
    /\ Goto(t, "ver")
    /\ UNCHANGED <<main, fdTable, connFd, hdrBytes, loc, clientVars, inq, outq>>

\* (a broken RecvEnds: a recv() of 0 bytes is only "no progress")
RecvEnds_NoEof(t) ==
    /\ pc[t] \in {"recv", "data"} /\ RecvFails(t)
    /\ Goto(t, "errclose")
    /\ UNCHANGED <<main, g_stTestHdr, fdTable, connFd, hdrBytes, loc, clientVars, inq, outq>>

\* recv() returned 0 or -1, for the header or for the payload
RecvEnds(t) ==
    /\ pc[t] \in {"recv", "data"}
    /\ \/ RecvEof(t) /\ Goto(t, IF pc[t] = "recv" THEN "hdrdown" ELSE "datadown")
       \/ RecvFails(t) /\ Goto(t, "errclose")
    /\ UNCHANGED <<main, g_stTestHdr, fdTable, connFd, hdrBytes, loc, clientVars, inq, outq>>

\* close() of a descriptor, and where the thread goes from there
CloseFd(t, f, next) ==
    /\ fdTable' = Closed(f)
    /\ Goto(t, next)
    /\ UNCHANGED <<main, g_stTestHdr, connFd, clientVars, inq, outq>>

\* (a broken HdrDown: the caller gets a count of bytes nobody sent)
HdrDown_Count(t) ==
    /\ pc[t] = "hdrdown"
    /\ CloseFd(t, connFd[t], "ver")
    /\ hdrBytes' = [hdrBytes EXCEPT ![t] = @ + HdrLen + 1]
    /\ UNCHANGED loc

\* Server_recvData finds the peer gone: it closes the connection, and the
\* callers go on with what they have (the header's caller has zeroes)
HdrDown(t) ==
    /\ pc[t] = "hdrdown"
    /\ CloseFd(t, connFd[t], "ver")
    /\ hdrBytes' = [hdrBytes EXCEPT ![t] = PeerDown]
    /\ UNCHANGED loc

DataDown(t) ==
    /\ pc[t] = "datadown"
    /\ CloseFd(t, connFd[t], "decode")
    /\ UNCHANGED <<hdrBytes, loc>>

\* Server_recvData closes on an error, and its callers close once more
ErrClose(t) ==
    /\ pc[t] = "errclose"
    /\ CloseFd(t, connFd[t], "endclose")
    /\ UNCHANGED <<hdrBytes, loc>>

\* server_client_data_deal returns, and the thread's frame is gone
Return(t) == loc' = [loc EXCEPT ![t] = Cleared(t)]

\* (a broken EndClose: it returns without closing, as the checks below do)
EndClose_Leaks(t) ==
    /\ pc[t] = "endclose" /\ Goto(t, "done") /\ Return(t)
    /\ UNCHANGED <<main, g_stTestHdr, fdTable, connFd, hdrBytes, clientVars, inq, outq>>

\* the close() before the return
EndClose(t) ==
    /\ pc[t] = "endclose"
    /\ CloseFd(t, connFd[t], "done")
    /\ Return(t)
    /\ UNCHANGED hdrBytes

\* a step of the thread that changes nothing but its own pc and locals
Private == UNCHANGED <<main, g_stTestHdr, fdTable, connFd, hdrBytes,
                       clientVars, inq, outq>>

\* Both checks return without closing the connection.
CheckVersion(t) ==
    /\ pc[t] = "ver"
    /\ \/ g_stTestHdr.ver = VersionOne /\ Goto(t, "len") /\ UNCHANGED loc
       \/ g_stTestHdr.ver # VersionOne /\ Goto(t, "done") /\ Return(t)
    /\ Private

\* (a broken CheckLen: the check is missing)
CheckLen_Skipped(t) ==
    /\ pc[t] = "len" /\ Goto(t, "cmd") /\ UNCHANGED loc /\ Private

CheckLen(t) ==
    /\ pc[t] = "len"
    /\ \/ hdrBytes[t] = g_stTestHdr.hlen /\ Goto(t, "cmd") /\ UNCHANGED loc
       \/ hdrBytes[t] # g_stTestHdr.hlen /\ Goto(t, "done") /\ Return(t)
    /\ Private

\* The if-else chain over m_enCmd reads the global header at every test; when
\* no test matches the loop starts over.
TestCmd(t) ==
    /\ pc[t] = "cmd"
    /\ LET k == loc[t].k IN
       \/ /\ g_stTestHdr.cmd = CmdOrder[k]
          /\ loc' = [loc EXCEPT ![t] = [@ EXCEPT !.cmd = CmdOrder[k], !.k = 1]]
          /\ Goto(t, IF CmdOrder[k] = "EXIT" THEN "endclose" ELSE "mod")
       \/ /\ g_stTestHdr.cmd # CmdOrder[k] /\ k < Len(CmdOrder)
          /\ SetLoc(t, "k", k + 1) /\ UNCHANGED pc
       \/ /\ g_stTestHdr.cmd # CmdOrder[k] /\ k = Len(CmdOrder)
          /\ Goto(t, "top") /\ UNCHANGED loc
    /\ Private

-----------------------------------------------------------------------------
(* DataDeal_setFile, DataDeal_getFile and DataDeal_listFile: the part they *)
(* share, from the choice of the codec to the decoded request.             *)

\* the chain over m_enModule; a module none of them knows is answered by "OK"
TestModule(t) ==
    /\ pc[t] = "mod"
    /\ LET k == loc[t].k IN
       \/ /\ k <= Len(ModOrder) /\ g_stTestHdr.mod = ModOrder[k]
          /\ loc' = [loc EXCEPT ![t] = [@ EXCEPT !.mod = ModOrder[k], !.size = BufRoom]]
          /\ Goto(t, IF ModOrder[k] = "TLV" THEN "need" ELSE "size")
       \/ /\ g_stTestHdr.mod # ModOrder[k] /\ k < Len(ModOrder)
          /\ SetLoc(t, "k", k + 1) /\ UNCHANGED pc
       \/ /\ g_stTestHdr.mod # ModOrder[k] /\ k = Len(ModOrder)
          /\ Goto(t, "top") /\ UNCHANGED loc
    /\ Private

\* (a broken SizeBuf: the buffer has no place for the last cell)
SizeBuf_OneLess(t) ==
    /\ pc[t] = "size"
    /\ SetLoc(t, "size", IF g_stTestHdr.dlen = 0 THEN 0 ELSE g_stTestHdr.dlen - 1)
    /\ Goto(t, "need")
    /\ Private

\* PROTO and JSON declare a buffer of m_uiDataLen ...
SizeBuf(t) ==
    /\ pc[t] = "size"
    /\ SetLoc(t, "size", g_stTestHdr.dlen)
    /\ Goto(t, "need")
    /\ Private

\* ... and every codec then receives m_uiDataLen, read anew, into its buffer
ReadNeed(t) ==
    /\ pc[t] = "need"
    /\ SetLoc(t, "need", g_stTestHdr.dlen)
    /\ Goto(t, IF g_stTestHdr.dlen = 0 THEN "check" ELSE "dcall")
    /\ Private

\* pBuf is not advanced: every chunk lands at the start of the buffer
Overlay(buf, chunk) == chunk \o SubSeq(buf, Len(chunk) + 1, Len(buf))

\* One recv() of the payload, of the n cells the kernel has.  More cells than
\* the buffer holds overwrite the stack, which may end the process.
RecvData(t) ==
    /\ pc[t] = "data" /\ CanRecv(t)
    /\ LET c == loc[t].sock.who
           l == loc[t] IN
       \E n \in 1..Len(inq[c]) :
         /\ n <= l.need - l.got
         /\ inq' = [inq EXCEPT ![c] = SubSeq(@, n + 1, Len(@))]
         /\ loc' = [loc EXCEPT ![t] = [l EXCEPT
                        !.got = l.got + n, !.buf = Overlay(l.buf, SubSeq(inq[c], 1, n))]]
         /\ \/ /\ Goto(t, IF l.got + n = l.need THEN "check" ELSE "dcall")
               /\ UNCHANGED <<main, fdTable>>
            \/ n > l.size /\ Die /\ UNCHANGED pc
    /\ UNCHANGED <<g_stTestHdr, connFd, hdrBytes, clientVars, outq>>

\* SET and GET compare what they received with m_uiDataLen; LIST does not
CheckData(t) ==
    /\ pc[t] = "check"
    /\ Goto(t, IF loc[t].cmd = "LIST" \/ loc[t].need = g_stTestHdr.dlen
               THEN "decode" ELSE "endclose")
    /\ UNCHANGED loc /\ Private

\* the buffer starts with the whole payload of request r
Holds(buf, r) == /\ r.dlen <= Len(buf)
                 /\ r.dlen > 0
                 /\ SubSeq(buf, 1, r.dlen) = Payload(r)

\* the codec makes request r of the buffer; PROTO and TLV are given m_uiDataLen
Decodes(t, r) ==
    /\ Holds(loc[t].buf, r) /\ r.mod = loc[t].mod
    /\ r.mod \in {"PROTO", "TLV"} => g_stTestHdr.dlen = r.dlen

HandlerPc(cmd) == IF cmd = "SET" THEN "set" ELSE IF cmd = "GET" THEN "get" ELSE "list"

\* Decoding the request and checking its command letter.  An empty PROTO
\* message has no letter to check: LIST goes on to the end mark, and SET and GET
\* fail to open a null name.  Of pieces laid over each other the codec may make
\* nothing or anything, the handler's letter included.  TLV has nothing to put the
\* content of a SET in when the handler is another one, and it runs off its buffer
\* on other data; pieces that are JSON of some kind, but have no command in it, make
\* the handler read through a null pointer.
Decode(t) ==
    /\ pc[t] = "decode"
    /\ \/ /\ \E r \in Requests :
               /\ Decodes(t, r)
               /\ ~(r.mod = "TLV" /\ r.cmd = "SET" /\ loc[t].cmd # "SET")
               /\ Goto(t, IF r.cmd = loc[t].cmd THEN HandlerPc(r.cmd) ELSE "endclose")
          /\ UNCHANGED <<main, fdTable>>
       \/ /\ \A r \in Requests : ~Decodes(t, r)
          /\ \/ Goto(t, IF /\ loc[t].mod = "PROTO" /\ g_stTestHdr.dlen = 0
                           /\ loc[t].cmd = "LIST"
                        THEN "lend" ELSE "endclose")
             \/ loc[t].buf # <<>> /\ Goto(t, HandlerPc(loc[t].cmd))
          /\ UNCHANGED <<main, fdTable>>
       \/ /\ loc[t].mod = "JSON" /\ loc[t].buf # <<>>
          /\ \A r \in Requests : ~Decodes(t, r)
          /\ Die /\ UNCHANGED pc
       \/ /\ loc[t].mod = "TLV"
          /\ \A r \in Requests : Decodes(t, r) => r.cmd = "SET" /\ loc[t].cmd # "SET"
          /\ Die /\ UNCHANGED pc
    /\ UNCHANGED <<g_stTestHdr, connFd, hdrBytes, loc, clientVars, inq, outq>>

-----------------------------------------------------------------------------
(* What the handlers share: sending one cell, and opening a file.          *)

NameCell == [kind |-> "name", len |-> 0, ver |-> 0]
EndCell == [kind |-> "end", len |-> 0, ver |-> 0]
HdrReply == [kind |-> "hdr", len |-> g_stTestHdr.dlen, ver |-> g_stTestHdr.ver]
BodyCell(n) == [kind |-> "body", len |-> n, ver |-> 0]
JunkCell == [kind |-> "junk", len |-> 0, ver |-> 0]

\* A write to descriptor f that succeeds or fails.  The first send after the
\* peer's FIN succeeds and draws a RST; the next one raises SIGPIPE, which
\* nothing in the server ignores.
Delivers(f, cell) ==
    /\ fdTable[f].kind = "conn"
    /\ LET c == fdTable[f].who IN
       \/ /\ Connected(c)
          /\ outq' = [outq EXCEPT ![c] = Append(@, cell)] /\ UNCHANGED cl
       \/ /\ cl[c] = "closed"
          /\ cl' = [cl EXCEPT ![c] = "hungup"] /\ UNCHANGED outq
    /\ UNCHANGED <<main, fdTable>>
SendFails(f) ==
    /\ fdTable[f].kind = "conn" => cl[fdTable[f].who] = "reset"
    /\ UNCHANGED <<main, fdTable, cl, outq>>
SigPipe(f) ==
    /\ fdTable[f].kind = "conn" /\ cl[fdTable[f].who] \in {"hungup", "reset"}
    /\ Die /\ UNCHANGED <<cl, outq>>

\* server_sendData(connFd[t], cell)
Send(t, from, cell, sentTo, failedTo) ==
    /\ pc[t] = from
    /\ \/ Delivers(connFd[t], cell) /\ Goto(t, sentTo)
       \/ SendFails(connFd[t]) /\ Goto(t, failedTo)
       \/ SigPipe(connFd[t]) /\ UNCHANGED pc
    /\ UNCHANGED <<g_stTestHdr, connFd, hdrBytes, loc, backlog, cur, sent, inq>>

\* open() or opendir() gives the lowest free descriptor ...
Opens(t, from, openedTo) ==
    /\ pc[t] = from
    /\ \E f \in Fds : /\ IsLowestFree(f)
                      /\ fdTable' = [fdTable EXCEPT ![f] = File(t)]
                      /\ SetLoc(t, "file", f)
    /\ Goto(t, openedTo)
    /\ UNCHANGED <<main, g_stTestHdr, connFd, hdrBytes, clientVars, inq, outq>>

\* ... or fails: no descriptor is left, or the file cannot be opened
OpenFails(t, from, mayFail) ==
    /\ pc[t] = from
    /\ NoFreeFd \/ mayFail
    /\ Goto(t, "endclose")
    /\ UNCHANGED loc /\ Private

CloseFile(t, from, next) ==
    /\ pc[t] = from
    /\ CloseFd(t, loc[t].file, next)
    /\ UNCHANGED <<hdrBytes, loc>>

-----------------------------------------------------------------------------
(* DataDeal_listFile and DataDeal_fileListDeal: opendir, one record per    *)
(* file (here one file or none), closedir, the end mark.                   *)

OpenDir(t) == \/ Opens(t, "list", "names")
              \/ OpenFails(t, "list", "open" \in Faults)

SendName(t) == Send(t, "names", NameCell, "lclose", "endclose")

\* the directory is empty, or stat() of an entry fails, which returns without
\* closing the directory
NoName(t) ==
    /\ pc[t] = "names"
    /\ \/ Goto(t, "lclose")
       \/ "io" \in Faults /\ Goto(t, "endclose")
    /\ UNCHANGED loc /\ Private

CloseDir(t) == CloseFile(t, "lclose", "lend")

SendEnd(t) == Send(t, "lend", EndCell, "top", "endclose")

ListFile(t) == OpenDir(t) \/ SendName(t) \/ NoName(t) \/ CloseDir(t) \/ SendEnd(t)

-----------------------------------------------------------------------------
(* DataDeal_getFile: open, read, build the header in g_stTestHdr, send it, *)
(* send the body.                                                          *)

\* a file that does not exist is always a possible answer of open()
OpenFile(t) == Opens(t, "get", "gread") \/ OpenFails(t, "get", TRUE)

\* stat, malloc, read, pack.  The failures return without closing the file; a
\* file that became shorter than stat() said makes the read loop spin.
ReadFile(t) ==
    /\ pc[t] = "gread"
    /\ \/ /\ fdTable[loc[t].file].kind = "file"
          /\ \E n \in ReplyLens : SetLoc(t, "reply", n)
          /\ Goto(t, "ghdr") /\ UNCHANGED inq
       \/ /\ \/ fdTable[loc[t].file].kind \notin {"file", "conn"}
             \/ "io" \in Faults
          /\ Goto(t, "endclose") /\ UNCHANGED <<loc, inq>>
       \/ /\ "shrink" \in Faults
          /\ Goto(t, "spin") /\ UNCHANGED <<loc, inq>>
       \/ \* the descriptor is another client's connection by now
          /\ fdTable[loc[t].file].kind = "conn"
          /\ LET c == fdTable[loc[t].file].who IN
             \/ /\ inq[c] # <<>>
                /\ inq' = [inq EXCEPT ![c] = Tail(@)]
                /\ \E n \in ReplyLens : SetLoc(t, "reply", n)
                /\ Goto(t, "ghdr")
             \/ /\ HasEof(c) /\ Goto(t, "spin") /\ UNCHANGED <<loc, inq>>
             \/ /\ cl[c] = "reset" /\ Goto(t, "endclose") /\ UNCHANGED <<loc, inq>>
    /\ UNCHANGED <<main, g_stTestHdr, fdTable, connFd, hdrBytes, clientVars, outq>>

\* PROTO clears the whole header first, JSON and TLV set the version
StartReplyHdr(t) ==
    /\ pc[t] = "ghdr"
    /\ g_stTestHdr' = IF loc[t].mod = "PROTO" THEN ZeroHdr
                      ELSE [g_stTestHdr EXCEPT !.ver = VersionOne]
    /\ Goto(t, "glen")
    /\ UNCHANGED <<main, fdTable, connFd, hdrBytes, loc, clientVars, inq, outq>>

\* (a broken FillReplyHdr: the header keeps the length of the request)
FillReplyHdr_NoLen(t) ==
    /\ pc[t] = "glen" /\ Goto(t, "gsend")
    /\ UNCHANGED <<main, g_stTestHdr, fdTable, connFd, hdrBytes, loc, clientVars, inq, outq>>

\* the length of the packed answer; JSON and TLV set m_usHdrLen after it
FillReplyHdr(t) ==
    /\ pc[t] = "glen"
    /\ g_stTestHdr' = [g_stTestHdr EXCEPT
                         !.dlen = loc[t].reply,
                         !.hlen = IF loc[t].mod = "PROTO" THEN @ ELSE HdrLen]
    /\ Goto(t, "gsend")
    /\ UNCHANGED <<main, fdTable, connFd, hdrBytes, loc, clientVars, inq, outq>>

\* the global header as it is now; whether the send fails is never looked at
SendReplyHdr(t) == Send(t, "gsend", HdrReply, "gbody", "gbody")

SendBody(t) == Send(t, "gbody", BodyCell(loc[t].reply), "gclose", "endclose")

\* (a broken CloseGot: no codec closes the file)
CloseGot_Never(t) ==
    pc[t] = "gclose" /\ Goto(t, "top") /\ UNCHANGED loc /\ Private

\* JSON leaves the file open
CloseGot(t) == \/ loc[t].mod # "JSON" /\ CloseFile(t, "gclose", "top")
               \/ /\ loc[t].mod = "JSON" /\ pc[t] = "gclose"
                  /\ Goto(t, "top") /\ UNCHANGED loc /\ Private

GetFile(t) == \/ OpenFile(t) \/ ReadFile(t) \/ StartReplyHdr(t) \/ FillReplyHdr(t)
              \/ SendReplyHdr(t) \/ SendBody(t) \/ CloseGot(t)

-----------------------------------------------------------------------------
(* DataDeal_setFile: create the file, removing an older one of its name    *)
(* first, and write it.  The client gets no answer.                        *)

CreateFile(t) ==
    \/ Opens(t, "set", "write")
    \/ OpenFails(t, "set", "open" \in Faults)
    \/ \* remove() fails: "return 0", which is FILEDATA_DEAL_RET_OK
       /\ pc[t] = "set" /\ "io" \in Faults
       /\ Goto(t, "top")
       /\ UNCHANGED loc /\ Private

\* a failing write returns without closing the file
WriteFile(t) ==
    /\ pc[t] = "write"
    /\ \/ /\ fdTable[loc[t].file].kind = "file"
          /\ Goto(t, "sclose") /\ UNCHANGED <<main, fdTable, cl, outq>>
       \/ /\ fdTable[loc[t].file].kind \notin {"file", "conn"} \/ "io" \in Faults
          /\ Goto(t, "endclose") /\ UNCHANGED <<main, fdTable, cl, outq>>
       \/ \* the descriptor is another client's connection by now
          /\ fdTable[loc[t].file].kind = "conn"
          /\ \/ Delivers(loc[t].file, JunkCell) /\ Goto(t, "sclose")
             \/ SendFails(loc[t].file) /\ Goto(t, "endclose")
             \/ SigPipe(loc[t].file) /\ UNCHANGED pc
    /\ UNCHANGED <<g_stTestHdr, connFd, hdrBytes, loc, backlog, cur, sent, inq>>

\* (a broken CloseWritten: the file is closed a second time)
CloseWritten_Twice(t) == CloseFile(t, "sclose", "lclose")

CloseWritten(t) == CloseFile(t, "sclose", "top")

SetFile(t) == CreateFile(t) \/ WriteFile(t) \/ CloseWritten(t)

-----------------------------------------------------------------------------
RecvHeader(t) == \/ Top(t) \/ Call(t, "hcall", "recv") \/ RecvHdr(t) \/ RecvPiece(t)
                 \/ CopyCmd(t) \/ HdrDown(t) \/ CheckVersion(t) \/ CheckLen(t) \/ TestCmd(t)
RecvRequest(t) == \/ TestModule(t) \/ SizeBuf(t) \/ ReadNeed(t)
                  \/ Call(t, "dcall", "data") \/ RecvData(t) \/ DataDown(t)
                  \/ CheckData(t) \/ Decode(t)
Thread(t) ==
    /\ Running
    /\ \/ RecvHeader(t) \/ RecvRequest(t)
       \/ RecvEnds(t) \/ ErrClose(t) \/ EndClose(t)
       \/ ListFile(t) \/ GetFile(t) \/ SetFile(t)

Init ==
    /\ main = [pc |-> "loop", fd |-> ListenFd, who |-> Nobody]
    /\ g_stTestHdr = ZeroHdr
    /\ fdTable = [f \in Fds |-> IF f = ListenFd THEN Listener ELSE FreeFd]
    /\ pc = [c \in Clients |-> "none"]
    /\ connFd = [c \in Clients |-> MaxFd]
    /\ hdrBytes = [c \in Clients |-> 0]
    /\ loc = [c \in Clients |-> NoLocals]
    /\ backlog = <<>>
    /\ cl = [c \in Clients |-> "off"]
    /\ cur = [c \in Clients |-> NoRequest]
    /\ sent = 0
    /\ inq = [c \in Clients |-> <<>>]
    /\ outq = [c \in Clients |-> <<>>]

Next == \/ Server_dealClientReq
        \/ \E t \in Clients : Thread(t)
        \/ \E c \in Clients : Client(c)

Spec == Init /\ [][Next]_vars

(* The kernel schedules every runnable thread, and a client that waits for *)
(* an answer takes it, or sees its connection fall.  Nothing makes a       *)
(* client connect, send a request or leave.                                *)
Fairness == /\ WF_vars(EnterAccept \/ Accept \/ Spawn)
            /\ \A t \in Clients : WF_vars(Thread(t))
            /\ \A c \in Clients : WF_vars(TakeReply(c) \/ NoticeDown(c))
FairSpec == Spec /\ Fairness

-----------------------------------------------------------------------------
(* Properties.                                                             *)

Pcs == {"none", "top", "hcall", "recv", "copy", "hdrdown", "datadown", "errclose",
        "endclose", "done", "ver", "len", "cmd", "mod", "size", "need", "dcall",
        "data", "check", "decode", "list", "names", "lclose", "lend", "get", "gread",
        "spin", "ghdr", "glen", "gsend", "gbody", "gclose", "set", "write", "sclose"}
\* a thread that passed both checks of its header, up to its next request
Handling == Pcs \ {"none", "top", "hcall", "recv", "copy", "hdrdown", "ver", "len",
                   "errclose", "endclose", "done"}
Cells == [kind : {"hdr", "pay"}, req : Requests, part : Nat]
Replies == [kind : {"name", "end", "hdr", "body", "junk"}, len : Nat, ver : Nat]
FdEntry == {FreeFd, Listener, Reserved} \cup {Conn(c) : c \in Clients}
                                        \cup {File(c) : c \in Clients}
MainLoop == [pc : {"loop", "accept", "spawn", "exited"}, fd : Fds,
             who : Clients \cup {Nobody}]
Locals == [k : 1..4, sock : FdEntry, own : Header, cmd : Cmds, mod : Mods, size : Nat,
           need : Nat, got : Nat, buf : Seq(Cells), file : Fds, reply : Nat,
           words : 0 .. HdrWords - 1, torn : BOOLEAN]

\* Every variable has its type.
TypeOK ==
    /\ main \in MainLoop
    /\ g_stTestHdr \in Header
    /\ fdTable \in [Fds -> FdEntry]
    /\ pc \in [Clients -> Pcs]
    /\ connFd \in [Clients -> Fds]
    /\ hdrBytes \in [Clients -> {0, PeerDown, HdrLen}]
    /\ loc \in [Clients -> Locals]
    /\ backlog \in Seq(Clients)
    /\ cl \in [Clients -> {"off", "ready", "half", "wait", "closed", "hungup", "reset"}]
    /\ cur \in [Clients -> Requests \cup {NoRequest}]
    /\ sent \in 0..MaxReq
    /\ inq \in [Clients -> Seq(Cells)]
    /\ outq \in [Clients -> Seq(Replies)]

\* The double close()s of failing threads never take the listening socket: as
\* long as main() runs, its descriptor is the one main() accepts on.
ListenerSurvives == Running => fdTable[ListenFd] = Listener

\* A thread whose peer was down when it received the header does not act on the
\* header another thread left there: Server_recvData closed the descriptor, the
\* caller does not return, and only the length check keeps it from a handler.  (A
\* header in pieces can leave a length of 1 behind, which is PeerDown: then it does.)
NoDispatchAfterShutdown ==
    Running /\ (\A u \in Clients : ~loc[u].torn) =>
      \A t \in Clients : pc[t] \in Handling => hdrBytes[t] = HdrLen

\* A handler acts on what its own thread received into g_stTestHdr, and on no other
\* header (with one client at a time): command, codec and length are those of the
\* request, or, when the header came in pieces, those its overlaid words make.
ActsOnOwnHeader ==
    Running => \A t \in Clients :
      LET l == loc[t] IN
      /\ pc[t] \in Handling \ {"cmd"} => l.cmd = l.own.cmd
      /\ pc[t] \in Handling \ {"cmd", "mod"} => l.mod = l.own.mod
      /\ pc[t] \in Handling \ {"cmd", "mod", "size", "need"} => l.need = l.own.dlen

\* What a thread is about to close is its own connection or file, or nothing.
CloseOwn ==
    Running => \A t \in Clients :
      /\ pc[t] \in {"hdrdown", "datadown", "errclose", "endclose"} =>
           fdTable[connFd[t]] \in {Conn(t), FreeFd, Reserved}
      /\ pc[t] \in {"lclose", "gclose", "sclose"} => fdTable[loc[t].file] = File(t)

\* A thread that ended has closed its connection, unless a header came in pieces:
\* no whole header a client sends, and no end of its connection, fails a check.
NoOrphanConnection ==
    Running => \A t \in Clients : pc[t] = "done" /\ ~loc[t].torn =>
      \A f \in Fds : fdTable[f] # Conn(t)

\* Every body a client gets follows a header that announces its length.
ReplyFramed ==
    \A c \in Clients : \A i \in DOMAIN outq[c] :
      outq[c][i].kind = "body" =>
        i > 1 /\ outq[c][i-1].kind = "hdr" /\ outq[c][i-1].len = outq[c][i].len

\* Descriptors: when no thread is at work, the process holds the listener, what
\* accept() reserved and the connections on which a header came in pieces; nothing
\* else is lost from one client to the next.
NothingLeftOpen ==
    (Running /\ \A t \in Clients : pc[t] \in {"none", "done"}) =>
      \A f \in Fds : f # ListenFd =>
        \/ fdTable[f] \in {FreeFd, Reserved}
        \/ main.pc = "spawn" /\ f = main.fd
        \/ \E t \in Clients : loc[t].torn /\ fdTable[f] = Conn(t)

\* The payload of a TLV or JSON request is there laid over itself, or (after EOF)
\* not at all; the PROTO decoder survives anything.
InPieces(t) == /\ pc[t] = "decode" /\ loc[t].own.mod # "PROTO"
               /\ Len(loc[t].buf) < loc[t].own.dlen
Sending == {"names", "lend", "gsend", "gbody"}

\* The process ends only when accept() finds no descriptor, no thread can be
\* created, a client left while its thread still answers it, a TLV request is
\* empty or does not fit the buffer, or a TLV or JSON one came in pieces: nothing
\* else a client sends can end it (with one client at a time).
EndReason ==
    \/ main.pc = "loop" /\ NoFreeFd
    \/ main.pc = "spawn" /\ "spawn" \in Faults
    \/ \E t \in Clients :
         \/ pc[t] \in Sending /\ cl[t] \in {"hungup", "reset"}
         \/ /\ loc[t].own.mod = "TLV"
            /\ \/ pc[t] = "data" /\ loc[t].own.dlen > BufRoom
               \/ pc[t] = "decode" /\ loc[t].own.dlen = 0
         \/ InPieces(t)
EndsForReason == [][Running /\ ~Running' => EndReason]_vars

\* Only a client that leaves before it says EXIT, or a message in pieces, can end
\* the process, when no call fails and no handler leaves a file open: clients that
\* say EXIT, one at a time, and whose messages come whole, are served for ever.
LeftEarly(c) == cl[c] \in {"closed", "hungup", "reset"} /\ cur[c].cmd # "EXIT"
StaysUp == Running \/ \E c \in Clients : LeftEarly(c) \/ loc[c].torn \/ InPieces(c)

\* A client that waits for an answer gets it or learns that there is none, as long
\* as its headers come whole: after one in pieces its thread may be gone, and the
\* connection open.
Answered == \A c \in Clients : cl[c] = "wait" ~> cl[c] # "wait" \/ loc[c].torn

\* Once no client is connected any more, every thread ends, whatever it read from
\* the shared header on the way, or reads the connection of another client for a
\* file: that one is at its end, and the loop of DataDeal_fileRead never is.
ThreadsEnd ==
    <>[](\A c \in Clients : ~Connected(c))
      => <>[](~Running \/ \A t \in Clients : pc[t] \in {"none", "done", "spin"})
=============================================================================
