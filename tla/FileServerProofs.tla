-------------------------- MODULE FileServerProofs --------------------------
(***************************************************************************)
(* What holds of the server for any number of clients, any descriptor      *)
(* limit, any requests and any of the modelled failures: type correctness, *)
(* that the double closes never reach the listening socket, and that no    *)
(* thread dispatches a header after its peer went away, as long as headers *)
(* come whole.                                                             *)
(***************************************************************************)
EXTENDS FileServer, SequenceTheorems, TLAPS

-----------------------------------------------------------------------------
(* The payload of a request is a sequence of cells, and stays one under    *)
(* the cuts and overlays that receiving makes.                             *)

\* The payload a client sends is a sequence of cells.
LEMMA PayloadType ==
  ASSUME NEW r \in Requests
  PROVE  Payload(r) \in Seq(Cells)
<1>1. r.dlen \in Nat
  BY ServerAssumption
<1>2. Payload(r) \in [1..r.dlen -> Cells]
  BY <1>1 DEF Payload, Cells
<1> QED
  BY <1>1, <1>2, SeqDef

\* A prefix, a suffix and an overlay of cells are cells.
LEMMA CutType ==
  ASSUME NEW s \in Seq(Cells), NEW n \in 1..Len(s)
  PROVE  /\ SubSeq(s, 1, n) \in Seq(Cells) /\ Len(SubSeq(s, 1, n)) = n
         /\ SubSeq(s, n + 1, Len(s)) \in Seq(Cells)
<1>1. Len(s) \in Nat
  BY LenProperties
<1>2. \A i \in 1..n : s[i] \in Cells
  BY <1>1, ElementOfSeq
<1>3. \A i \in n+1..Len(s) : s[i] \in Cells
  BY <1>1, ElementOfSeq
<1> QED
  BY <1>1, <1>2, <1>3, SubSeqProperties

\* A prefix laid over a buffer makes a buffer.
LEMMA OverlayType ==
  ASSUME NEW buf \in Seq(Cells), NEW chunk \in Seq(Cells)
  PROVE  Overlay(buf, chunk) \in Seq(Cells)
<1>1. Len(buf) \in Nat /\ Len(chunk) \in Nat
  BY LenProperties
<1>2. \A i \in Len(chunk)+1..Len(buf) : buf[i] \in Cells
  BY <1>1, ElementOfSeq
<1>3. SubSeq(buf, Len(chunk) + 1, Len(buf)) \in Seq(Cells)
  BY <1>1, <1>2, SubSeqProperties
<1> QED
  BY <1>3, ConcatProperties DEF Overlay

-----------------------------------------------------------------------------
(* Headers in pieces.                                                      *)

\* The words of a header are five numbers.
LEMMA WordsType ==
  ASSUME NEW r \in Requests, NEW b \in LenWords(r)
  PROVE  /\ b \in Nat /\ r.dlen \in Nat /\ r.mod \in Mods /\ r.cmd \in Cmds
         /\ ModWord[r.mod] \in 0..2 /\ CmdWord[r.cmd] \in 0..3
         /\ \A i \in 1..HdrWords : Words(r, b)[i] \in Nat
         /\ Words(r, b)[4] \in 0..2 /\ Words(r, b)[5] \in 0..3
<1>1. r.dlen \in Nat /\ r.mod \in Mods /\ r.cmd \in Cmds
  BY ServerAssumption
<1>2. b \in Nat
  BY DEF LenWords, HdrLen, NotAVersion
<1>3. ModWord[r.mod] \in 0..2
  BY <1>1 DEF ModWord, Mods
<1>4. CmdWord[r.cmd] \in 0..3
  BY <1>1 DEF CmdWord, Cmds
<1> DEFINE m == ModWord[r.mod]
           c == CmdWord[r.cmd]
<1>5. Words(r, b) = <<VersionOne, HdrLen, b, m, c>>
  BY DEF Words
<1> HIDE DEF m, c
<1>6. \A i \in 1..HdrWords : i = 1 \/ i = 2 \/ i = 3 \/ i = 4 \/ i = 5
  BY DEF HdrWords
<1>7. /\ Words(r, b)[1] = 1 /\ Words(r, b)[2] = 20 /\ Words(r, b)[3] = b
      /\ Words(r, b)[4] = m /\ Words(r, b)[5] = c
  BY <1>5 DEF VersionOne, HdrLen
<1>8. m \in Nat /\ c \in Nat
  BY <1>3, <1>4 DEF m, c
<1>9. \A i \in 1..HdrWords : Words(r, b)[i] \in Nat
  BY <1>2, <1>6, <1>7, <1>8
<1> QED
  BY <1>1, <1>2, <1>3, <1>4, <1>7, <1>9 DEF m, c

\* A piece laid over a header makes a header.
LEMMA OverlaidType ==
  ASSUME NEW h \in Header, NEW r \in Requests, NEW b \in LenWords(r),
         NEW k \in 0 .. HdrWords - 1, NEW n \in 1 .. HdrWords - 1, k + n <= HdrWords
  PROVE  Overlaid(h, r, k, n, b) \in Header
<1> DEFINE w == Words(r, b)
           ver == w[k + 1]
           hlen == IF n < 2 THEN h.hlen ELSE w[k + 2]
           dlen == IF n < 3 THEN h.dlen ELSE IF k = 0 THEN r.dlen ELSE FewBytes(w[k + 3])
           mod == IF n < 4 THEN h.mod ELSE IF k = 0 THEN r.mod ELSE ModSeen[w[k + 4] + 1]
<1>1. Overlaid(h, r, k, n, b)
        = [h EXCEPT !.ver = ver, !.hlen = hlen, !.dlen = dlen, !.mod = mod]
  BY DEF Overlaid
<1>2. k \in Nat /\ n \in Nat /\ k + n <= 5 /\ HdrWords = 5
  BY DEF HdrWords
<1>3. h.hlen \in Nat /\ h.dlen \in Nat /\ h.mod \in Mods \cup {"none"}
  BY DEF Header
<1>4. ver \in Nat /\ hlen \in Nat
  BY <1>2, <1>3, WordsType
<1>5. dlen \in Nat
  BY <1>2, <1>3, WordsType DEF FewBytes
<1>6. mod \in Mods \cup {"none"}
  <2>1. CASE n < 4 \/ k = 0
    BY <1>3, <2>1, WordsType
  <2>2. CASE ~(n < 4) /\ k # 0
    <3>1. n = 4 /\ k = 1
      BY <1>2, <2>2
    <3>2. w[5] \in 0..3 /\ mod = ModSeen[w[5] + 1]
      BY <2>2, <3>1, WordsType
    <3> HIDE DEF w
    <3>3. w[5] + 1 \in {1, 2, 3, 4}
      BY <3>2
    <3> QED
      BY <3>2, <3>3 DEF ModSeen, Mods
  <2> QED
    BY <2>1, <2>2
<1> HIDE DEF ver, hlen, dlen, mod
<1> QED
  BY <1>1, <1>4, <1>5, <1>6 DEF Header

-----------------------------------------------------------------------------
(* Type correctness.                                                       *)

\* The values the constants of the specification stand for have their types.
LEMMA ValueTypes ==
  /\ ListenFd \in Fds /\ MaxFd \in Fds /\ Nobody \notin Clients
  /\ ZeroHdr \in Header /\ ForeignHdr \in Header
  /\ FreeFd \in FdEntry /\ Listener \in FdEntry /\ Reserved \in FdEntry
  /\ \A c \in Clients : Conn(c) \in FdEntry /\ File(c) \in FdEntry
  /\ NoLocals \in Locals
  /\ \A r \in Requests : HdrOf(r) \in Header /\ HdrCell(r) \in Cells
<1>1. ListenFd \in Fds /\ MaxFd \in Fds /\ Nobody \notin Clients
  BY ServerAssumption DEF Fds, ListenFd
<1>2. ZeroHdr \in Header /\ ForeignHdr \in Header
  BY DEF ZeroHdr, ForeignHdr, Header, Mods, Cmds, NotAVersion
<1>3. /\ FreeFd \in FdEntry /\ Listener \in FdEntry /\ Reserved \in FdEntry
      /\ \A c \in Clients : Conn(c) \in FdEntry /\ File(c) \in FdEntry
  BY DEF FdEntry
<1>4. <<>> \in Seq(Cells)
  BY EmptySeq
<1>5. NoLocals \in Locals
  BY <1>1, <1>2, <1>3, <1>4 DEF NoLocals, Locals, Cmds, Mods, HdrWords
<1>6. \A r \in Requests : HdrOf(r) \in Header /\ HdrCell(r) \in Cells
  BY ServerAssumption DEF HdrOf, Header, HdrCell, Cells, VersionOne, HdrLen
<1> QED
  BY <1>1, <1>2, <1>3, <1>5, <1>6

\* The server starts well typed.
LEMMA TypeInit == Init => TypeOK
<1> SUFFICES ASSUME Init PROVE TypeOK
  OBVIOUS
<1>1. <<>> \in Seq(Clients) /\ <<>> \in Seq(Cells) /\ <<>> \in Seq(Replies)
  BY EmptySeq
<1>2. fdTable \in [Fds -> FdEntry]
  BY ValueTypes DEF Init
<1>3. pc \in [Clients -> Pcs]
  BY DEF Init, Pcs
<1>4. main \in MainLoop
  BY ValueTypes DEF Init, MainLoop
<1> QED
  BY <1>1, <1>2, <1>3, <1>4, ValueTypes, ServerAssumption DEF Init, TypeOK, HdrLen, PeerDown

\* The clients' actions preserve the types.
LEMMA TypeClient ==
  ASSUME TypeOK, NEW c \in Clients, Client(c)
  PROVE  TypeOK'
<1>1. CASE Connect(c)
  <2>1. backlog' \in Seq(Clients)
    BY <1>1, AppendProperties DEF Connect, TypeOK
  <2> QED
    BY <1>1, <2>1 DEF Connect, TypeOK, threadVars
<1>2. CASE SendHdr(c)
  <2>1. inq' \in [Clients -> Seq(Cells)]
    BY <1>2, ValueTypes, AppendProperties DEF SendHdr, TypeOK
  <2>2. sent' \in 0..MaxReq
    BY <1>2, ServerAssumption DEF SendHdr, TypeOK
  <2> QED
    BY <1>2, <2>1, <2>2 DEF SendHdr, TypeOK, threadVars
<1>3. CASE SendPayload(c)
  <2>1. Payload(cur[c]) \in Seq(Cells)
    <3>1. CASE cur[c] \in Requests
      BY <3>1, PayloadType
    <3>2. CASE cur[c] = NoRequest
      <4>1. Payload(cur[c]) \in [1..0 -> Cells]
        BY <3>2 DEF NoRequest, Payload
      <4> QED
        BY <4>1, SeqDef
    <3> QED
      BY <3>1, <3>2 DEF TypeOK
  <2>2. inq' \in [Clients -> Seq(Cells)]
    BY <1>3, <2>1, ConcatProperties DEF SendPayload, TypeOK
  <2> QED
    BY <1>3, <2>2 DEF SendPayload, TypeOK, threadVars
<1>4. CASE TakeReply(c)
  <2>1. outq' \in [Clients -> Seq(Replies)]
    BY <1>4, EmptySeq DEF TakeReply, TypeOK
  <2> QED
    BY <1>4, <2>1 DEF TakeReply, TypeOK, threadVars
<1>5. CASE NoticeDown(c)
  BY <1>5 DEF NoticeDown, TypeOK, threadVars
<1>6. CASE Depart(c)
  <2>1. PICK how \in Departures : cl' = [cl EXCEPT ![c] = how]
    BY <1>6 DEF Depart
  <2> QED
    BY <1>6, <2>1, ServerAssumption DEF Depart, TypeOK, threadVars
<1> QED
  BY <1>1, <1>2, <1>3, <1>4, <1>5, <1>6 DEF Client

\* The process ending, and a close(), leave main and the descriptors typed.
LEMMA DieType ==
  ASSUME main \in MainLoop, fdTable \in [Fds -> FdEntry], Die \/ UNCHANGED <<main, fdTable>>
  PROVE  main' \in MainLoop /\ fdTable' \in [Fds -> FdEntry]
<1>1. CASE Die
  BY <1>1, ValueTypes DEF Die, MainLoop
<1>2. CASE UNCHANGED <<main, fdTable>>
  BY <1>2
<1> QED
  BY <1>1, <1>2

\* A close() leaves the descriptor table typed.
LEMMA ClosedType ==
  ASSUME fdTable \in [Fds -> FdEntry], NEW f \in Fds
  PROVE  Closed(f) \in [Fds -> FdEntry]
BY ValueTypes DEF Closed

\* So do the actions of the accept loop.
LEMMA TypeAcceptor ==
  ASSUME TypeOK, Server_dealClientReq
  PROVE  TypeOK'
<1>1. CASE EnterAccept
  <2>1. CASE Die
    <3>1. main' \in MainLoop /\ fdTable' \in [Fds -> FdEntry]
      BY <2>1, DieType DEF TypeOK
    <3> QED
      BY <1>1, <3>1 DEF EnterAccept, TypeOK, threadVars, clientVars
  <2>2. CASE ~Die
    <3>1. PICK f \in Fds : /\ fdTable' = [fdTable EXCEPT ![f] = Reserved]
                           /\ main' = [main EXCEPT !.pc = "accept", !.fd = f]
      BY <1>1, <2>2 DEF EnterAccept
    <3>2. main' \in MainLoop
      BY <3>1 DEF TypeOK, MainLoop
    <3>3. fdTable' \in [Fds -> FdEntry]
      BY <3>1, ValueTypes DEF TypeOK
    <3> QED
      BY <1>1, <3>2, <3>3 DEF EnterAccept, TypeOK, threadVars, clientVars
  <2> QED
    BY <2>1, <2>2
<1>2. CASE Accept
  <2>1. Head(backlog) \in Clients /\ backlog' \in Seq(Clients)
    BY <1>2, HeadTailProperties DEF Accept, TypeOK
  <2>2. main' \in MainLoop
    BY <1>2, <2>1 DEF Accept, TypeOK, MainLoop
  <2>3. fdTable' \in [Fds -> FdEntry]
    BY <1>2, <2>1, ValueTypes DEF Accept, TypeOK
  <2> QED
    BY <1>2, <2>1, <2>2, <2>3 DEF Accept, TypeOK, threadVars
<1>3. CASE Spawn
  <2>1. "top" \in Pcs
    BY DEF Pcs
  <2>2. main.fd \in Fds /\ main' \in MainLoop
    BY <1>3 DEF Spawn, TypeOK, MainLoop
  <2>3. pc' \in [Clients -> Pcs] /\ connFd' \in [Clients -> Fds]
    BY <1>3, <2>1, <2>2 DEF Spawn, TypeOK
  <2> QED
    BY <1>3, <2>2, <2>3 DEF Spawn, TypeOK, clientVars
<1>4. CASE SpawnFails
  <2>1. main' \in MainLoop /\ fdTable' \in [Fds -> FdEntry]
    BY <1>4, DieType DEF SpawnFails, TypeOK
  <2> QED
    BY <1>4, <2>1 DEF SpawnFails, TypeOK, threadVars, clientVars
<1> QED
  BY <1>1, <1>2, <1>3, <1>4 DEF Server_dealClientReq

-----------------------------------------------------------------------------
(* What the thread's actions do to each variable, typed once for all.      *)

\* The parts of a typed state that the actions look up.
LEMMA Lookups ==
  ASSUME TypeOK, NEW t \in Clients
  PROVE  /\ connFd[t] \in Fds /\ pc[t] \in Pcs /\ loc[t] \in Locals
         /\ loc[t].k \in 1..4 /\ loc[t].sock \in FdEntry /\ loc[t].own \in Header
         /\ loc[t].cmd \in Cmds /\ loc[t].mod \in Mods /\ loc[t].size \in Nat
         /\ loc[t].need \in Nat /\ loc[t].got \in Nat /\ loc[t].buf \in Seq(Cells)
         /\ loc[t].file \in Fds /\ loc[t].reply \in Nat
         /\ loc[t].words \in 0 .. HdrWords - 1 /\ loc[t].torn \in BOOLEAN
<1>1. connFd[t] \in Fds /\ pc[t] \in Pcs /\ loc[t] \in Locals
  BY DEF TypeOK
<1> QED
  BY <1>1 DEF Locals

\* A descriptor of kind "conn" belongs to a client.
LEMMA ConnOwner ==
  ASSUME NEW e \in FdEntry, e.kind = "conn"
  PROVE  e.who \in Clients
BY DEF FdEntry, FreeFd, Listener, Reserved, Conn, File

\* A jump leaves the program counters typed.
LEMMA GotoType ==
  ASSUME TypeOK, NEW t \in Clients, NEW p \in Pcs, Goto(t, p)
  PROVE  pc' \in [Clients -> Pcs]
BY DEF TypeOK, Goto

\* The assignments to two locals at once leave a thread's locals typed.
LEMMA UpdateTypes ==
  ASSUME NEW l \in Locals
  PROVE  /\ \A v \in Cmds : [l EXCEPT !.cmd = v, !.k = 1] \in Locals
         /\ \A v \in Mods, n \in Nat : [l EXCEPT !.mod = v, !.size = n] \in Locals
         /\ \A n \in Nat, s \in Seq(Cells) : [l EXCEPT !.got = n, !.buf = s] \in Locals
         /\ \A h \in Header, n \in 0 .. HdrWords - 1 :
              [l EXCEPT !.own = h, !.torn = TRUE, !.words = n] \in Locals
<1>1. \A v \in Cmds : [l EXCEPT !.cmd = v, !.k = 1] \in Locals
  <2>1. \A v \in Cmds, n \in 1..4 : [l EXCEPT !.cmd = v, !.k = n] \in Locals
    BY DEF Locals
  <2>2. 1 \in 1..4
    OBVIOUS
  <2> QED
    BY <2>1, <2>2, Zenon
<1>2. \A v \in Mods, n \in Nat : [l EXCEPT !.mod = v, !.size = n] \in Locals
  BY DEF Locals
<1>3. \A n \in Nat, s \in Seq(Cells) : [l EXCEPT !.got = n, !.buf = s] \in Locals
  BY DEF Locals
<1>4. \A h \in Header, n \in 0 .. HdrWords - 1 :
        [l EXCEPT !.own = h, !.torn = TRUE, !.words = n] \in Locals
  BY DEF Locals
<1> QED
  BY <1>1, <1>2, <1>3, <1>4

\* The locals a thread starts afresh with, or leaves behind.
LEMMA ClearedType ==
  ASSUME TypeOK, NEW t \in Clients
  PROVE  Cleared(t) \in Locals /\ Cleared(t).torn = loc[t].torn
<1>1. NoLocals \in Locals /\ loc[t].torn \in BOOLEAN
  BY ValueTypes, Lookups
<1>2. \A b \in BOOLEAN : [NoLocals EXCEPT !.torn = b] \in Locals
  BY <1>1 DEF Locals
<1>3. \A b : [NoLocals EXCEPT !.torn = b].torn = b
  BY DEF NoLocals
<1> QED
  BY <1>1, <1>2, <1>3 DEF Cleared

\* An assignment to one local, and a return, leave the locals typed.
LEMMA LocalTypes ==
  ASSUME TypeOK, NEW t \in Clients
  PROVE  /\ UNCHANGED loc \/ Return(t) => loc' \in [Clients -> Locals]
         /\ \A v \in 1..4 : SetLoc(t, "k", v) => loc' \in [Clients -> Locals]
         /\ \A v \in FdEntry : SetLoc(t, "sock", v) => loc' \in [Clients -> Locals]
         /\ \A v \in Header : SetLoc(t, "own", v) => loc' \in [Clients -> Locals]
         /\ \A v \in Nat : SetLoc(t, "size", v) => loc' \in [Clients -> Locals]
         /\ \A v \in Nat : SetLoc(t, "need", v) => loc' \in [Clients -> Locals]
         /\ \A v \in Fds : SetLoc(t, "file", v) => loc' \in [Clients -> Locals]
         /\ \A v \in Nat : SetLoc(t, "reply", v) => loc' \in [Clients -> Locals]
<1>1. loc \in [Clients -> Locals] /\ loc[t] \in Locals
  BY DEF TypeOK
<1>2. UNCHANGED loc \/ Return(t) => loc' \in [Clients -> Locals]
  BY <1>1, ClearedType DEF Return
<1>3. \A v \in 1..4 : [loc[t] EXCEPT !["k"] = v] \in Locals
  BY <1>1 DEF Locals
<1>4. \A v \in FdEntry : [loc[t] EXCEPT !["sock"] = v] \in Locals
  BY <1>1 DEF Locals
<1>5. \A v \in Header : [loc[t] EXCEPT !["own"] = v] \in Locals
  BY <1>1 DEF Locals
<1>6. \A v \in Nat : [loc[t] EXCEPT !["size"] = v] \in Locals
  BY <1>1 DEF Locals
<1>7. \A v \in Nat : [loc[t] EXCEPT !["need"] = v] \in Locals
  BY <1>1 DEF Locals
<1>8. \A v \in Fds : [loc[t] EXCEPT !["file"] = v] \in Locals
  BY <1>1 DEF Locals
<1>9. \A v \in Nat : [loc[t] EXCEPT !["reply"] = v] \in Locals
  BY <1>1 DEF Locals
<1>10. \A v \in 1..4 : SetLoc(t, "k", v) => loc' \in [Clients -> Locals]
  BY <1>1, <1>3 DEF SetLoc
<1>11. \A v \in FdEntry : SetLoc(t, "sock", v) => loc' \in [Clients -> Locals]
  BY <1>1, <1>4 DEF SetLoc
<1>12. \A v \in Header : SetLoc(t, "own", v) => loc' \in [Clients -> Locals]
  BY <1>1, <1>5 DEF SetLoc
<1>13. \A v \in Nat : SetLoc(t, "size", v) => loc' \in [Clients -> Locals]
  BY <1>1, <1>6 DEF SetLoc
<1>14. \A v \in Nat : SetLoc(t, "need", v) => loc' \in [Clients -> Locals]
  BY <1>1, <1>7 DEF SetLoc
<1>15. \A v \in Fds : SetLoc(t, "file", v) => loc' \in [Clients -> Locals]
  BY <1>1, <1>8 DEF SetLoc
<1>16. \A v \in Nat : SetLoc(t, "reply", v) => loc' \in [Clients -> Locals]
  BY <1>1, <1>9 DEF SetLoc
<1> QED
  BY <1>2, <1>10, <1>11, <1>12, <1>13, <1>14, <1>15, <1>16

\* Where the threads may go is one of their program counters.
LEMMA PcValues ==
  {"top", "hcall", "recv", "copy", "hdrdown", "datadown", "errclose", "endclose",
   "done", "ver", "len", "cmd", "mod", "size", "need", "dcall", "data", "check",
   "decode", "list", "names", "lclose", "lend", "get", "gread", "spin", "ghdr",
   "glen", "gsend", "gbody", "gclose", "set", "write", "sclose"} \subseteq Pcs
BY DEF Pcs

\* A close() by a thread changes the descriptors and the program counters only.
LEMMA CloseFdType ==
  ASSUME TypeOK, NEW t \in Clients, NEW f \in Fds, NEW p \in Pcs, CloseFd(t, f, p)
  PROVE  /\ fdTable' \in [Fds -> FdEntry] /\ pc' \in [Clients -> Pcs]
         /\ UNCHANGED <<main, g_stTestHdr, connFd, clientVars, inq, outq>>
<1>1. fdTable' = Closed(f) /\ Goto(t, p)
  BY DEF CloseFd
<1>2. fdTable \in [Fds -> FdEntry]
  BY DEF TypeOK
<1> QED
  BY <1>1, <1>2, ClosedType, GotoType DEF CloseFd

\* A step that changes the program counters and the locals only.
LEMMA PrivateType ==
  ASSUME TypeOK, Private, pc' \in [Clients -> Pcs], loc' \in [Clients -> Locals]
  PROVE  TypeOK'
BY DEF TypeOK, Private, clientVars

\* The call of recv() looks the descriptor up.
LEMMA TypeCall ==
  ASSUME TypeOK, NEW t \in Clients, NEW from, NEW to \in Pcs, Call(t, from, to)
  PROVE  TypeOK'
<1>1. fdTable[connFd[t]] \in FdEntry
  BY Lookups DEF TypeOK
<1>2. loc' \in [Clients -> Locals]
  BY <1>1, LocalTypes DEF Call
<1>3. pc' \in [Clients -> Pcs]
  BY GotoType DEF Call
<1> QED
  BY <1>2, <1>3 DEF Call, TypeOK, clientVars

\* Thread t receives n words of the header of request r from client c; the length
\* of r's payload looks like b.
PieceOf(t, c, r, n, b) ==
    LET k == loc[t].words
        own == Overlaid(loc[t].own, r, k, n, b)
    IN /\ c = loc[t].sock.who /\ loc[t].sock.kind = "conn"
       /\ inq[c] # <<>> /\ Head(inq[c]) \in Cells
       /\ Head(inq[c]).kind = "hdr" /\ Head(inq[c]).req = r
       /\ k \in 0 .. HdrWords - 1 /\ k + n <= HdrWords /\ k + n \in Cuts \cup {HdrWords}
       /\ own \in Header
       /\ g_stTestHdr' = Overlaid(g_stTestHdr, r, k, n, b)
       /\ \E m \in 0 .. HdrWords - 1 :
            /\ loc' = [loc EXCEPT ![t] = [loc[t] EXCEPT !.own = own, !.torn = TRUE,
                                                        !.words = m]]
            /\ \/ /\ k + n < HdrWords /\ m = k + n /\ Goto(t, "hcall")
                  /\ UNCHANGED <<inq, hdrBytes>>
               \/ /\ k + n = HdrWords /\ m = 0 /\ Goto(t, "ver")
                  /\ inq' = [inq EXCEPT ![c] = Tail(inq[c])]
                  /\ hdrBytes' = [hdrBytes EXCEPT ![t] = HdrLen]

\* What RecvPiece does is that.
LEMMA PieceFacts ==
  ASSUME TypeOK, NEW t \in Clients, RecvPiece(t)
  PROVE  \E c \in Clients, r \in Requests, n \in 1 .. HdrWords - 1 :
           \E b \in LenWords(r) : PieceOf(t, c, r, n, b)
<1> DEFINE c == loc[t].sock.who
           r == Head(inq[c]).req
           k == loc[t].words
<1>1. c \in Clients /\ inq[c] # <<>> /\ loc[t].sock.kind = "conn"
  BY Lookups, ConnOwner DEF RecvPiece, CanRecv
<1>2. inq[c] \in Seq(Cells)
  BY <1>1 DEF TypeOK
<1>3. Head(inq[c]) \in Cells
  BY <1>1, <1>2, HeadTailProperties
<1>4. r \in Requests
  BY <1>3 DEF Cells
<1>5. PICK n \in 1 .. HdrWords - 1, b \in LenWords(r) :
        /\ k + n \in Cuts \cup {HdrWords}
        /\ g_stTestHdr' = Overlaid(g_stTestHdr, r, k, n, b)
        /\ loc' = [loc EXCEPT ![t] = [loc[t] EXCEPT
                      !.own = Overlaid(loc[t].own, r, k, n, b), !.torn = TRUE,
                      !.words = (k + n) % HdrWords]]
        /\ \/ k + n < HdrWords /\ Goto(t, "hcall") /\ UNCHANGED <<inq, hdrBytes>>
           \/ /\ k + n = HdrWords /\ Goto(t, "ver")
              /\ inq' = [inq EXCEPT ![c] = Tail(inq[c])]
              /\ hdrBytes' = [hdrBytes EXCEPT ![t] = HdrLen]
  BY DEF RecvPiece
<1>6. k \in 0 .. HdrWords - 1
  BY Lookups
<1>7. k + n <= HdrWords
  BY <1>5, <1>6, ServerAssumption DEF HdrWords
<1>8. /\ (k + n) % HdrWords \in 0 .. HdrWords - 1
      /\ k + n < HdrWords => (k + n) % HdrWords = k + n
      /\ k + n = HdrWords => (k + n) % HdrWords = 0
  BY <1>6, <1>7 DEF HdrWords
<1>9. loc[t].own \in Header
  BY Lookups
<1>10. Overlaid(loc[t].own, r, k, n, b) \in Header
  BY <1>4, <1>6, <1>7, <1>9, OverlaidType
<1>11. Head(inq[c]).kind = "hdr"
  BY DEF RecvPiece
<1>12. PieceOf(t, c, r, n, b)
  BY <1>1, <1>3, <1>5, <1>6, <1>7, <1>8, <1>10, <1>11 DEF PieceOf
<1> HIDE DEF c, r, k
<1> QED
  BY <1>1, <1>4, <1>12

\* A piece of a header preserves the types.
LEMMA TypeRecvPiece ==
  ASSUME TypeOK, NEW t \in Clients, RecvPiece(t)
  PROVE  TypeOK'
<1>1. PICK c \in Clients, r \in Requests, n \in 1 .. HdrWords - 1 :
        \E b \in LenWords(r) : PieceOf(t, c, r, n, b)
  BY PieceFacts
<1>2. PICK b \in LenWords(r) : PieceOf(t, c, r, n, b)
  BY <1>1
<1> DEFINE own == Overlaid(loc[t].own, r, loc[t].words, n, b)
<1>3. PICK m \in 0 .. HdrWords - 1 :
        loc' = [loc EXCEPT ![t] = [loc[t] EXCEPT !.own = own, !.torn = TRUE, !.words = m]]
  BY <1>2 DEF PieceOf
<1>4. /\ own \in Header /\ inq[c] # <<>>
      /\ g_stTestHdr' = Overlaid(g_stTestHdr, r, loc[t].words, n, b)
      /\ loc[t].words \in 0 .. HdrWords - 1 /\ loc[t].words + n <= HdrWords
      /\ \/ Goto(t, "hcall") /\ UNCHANGED <<inq, hdrBytes>>
         \/ /\ Goto(t, "ver")
            /\ inq' = [inq EXCEPT ![c] = Tail(inq[c])]
            /\ hdrBytes' = [hdrBytes EXCEPT ![t] = HdrLen]
  BY <1>2 DEF PieceOf
<1> HIDE DEF own
<1>5. g_stTestHdr \in Header /\ loc[t] \in Locals
  BY DEF TypeOK
<1>6. g_stTestHdr' \in Header
  BY <1>4, <1>5, OverlaidType
<1>7. [loc[t] EXCEPT !.own = own, !.torn = TRUE, !.words = m] \in Locals
  BY <1>4, <1>5, UpdateTypes
<1>8. loc' \in [Clients -> Locals]
  BY <1>3, <1>7, Zenon DEF TypeOK
<1>9. pc' \in [Clients -> Pcs]
  BY <1>4, PcValues, GotoType
<1>10. inq' \in [Clients -> Seq(Cells)]
  <2>1. inq \in [Clients -> Seq(Cells)] /\ inq[c] \in Seq(Cells)
    BY DEF TypeOK
  <2>2. Tail(inq[c]) \in Seq(Cells)
    BY <1>4, <2>1, HeadTailProperties
  <2> QED
    BY <1>4, <2>1, <2>2
<1>11. hdrBytes' \in [Clients -> {0, PeerDown, HdrLen}]
  BY <1>4 DEF TypeOK
<1>12. UNCHANGED <<main, fdTable, connFd, clientVars, outq>>
  BY DEF RecvPiece
<1> QED
  BY <1>6, <1>8, <1>9, <1>10, <1>11, <1>12 DEF TypeOK, clientVars

\* Receiving and checking a header preserves the types.
LEMMA TypeRecvHeader ==
  ASSUME TypeOK, NEW t \in Clients, RecvHeader(t)
  PROVE  TypeOK'
<1>1. CASE Top(t)
  <2>1. pc' \in [Clients -> Pcs]
    BY <1>1, PcValues, GotoType DEF Top
  <2>2. loc' \in [Clients -> Locals]
    BY <1>1, LocalTypes DEF Top, Return
  <2>3. g_stTestHdr' \in Header
    BY <1>1, ValueTypes DEF Top
  <2> QED
    BY <1>1, <2>1, <2>2, <2>3 DEF Top, TypeOK, clientVars
<1>2. CASE Call(t, "hcall", "recv")
  BY <1>2, PcValues, TypeCall
<1>3. CASE RecvHdr(t)
  <2> DEFINE c == loc[t].sock.who
             h == HdrSeen(Head(inq[c]))
  <2>1. c \in Clients /\ inq[c] # <<>>
    BY <1>3, Lookups, ConnOwner DEF RecvHdr, CanRecv
  <2>2. inq[c] \in Seq(Cells)
    BY <2>1 DEF TypeOK
  <2>3. Head(inq[c]) \in Cells /\ Tail(inq[c]) \in Seq(Cells)
    BY <2>1, <2>2, HeadTailProperties
  <2>4. h \in Header
    BY <2>3, ValueTypes DEF HdrSeen, Cells
  <2>5. g_stTestHdr' = [h EXCEPT !.cmd = g_stTestHdr.cmd] /\ g_stTestHdr \in Header
    BY <1>3 DEF RecvHdr, TypeOK
  <2>6. g_stTestHdr' \in Header
    BY <2>4, <2>5 DEF Header
  <2>7. SetLoc(t, "own", h) /\ Goto(t, "copy")
    BY <1>3 DEF RecvHdr
  <2>8. loc' \in [Clients -> Locals]
    BY <2>4, <2>7, LocalTypes
  <2>9. pc' \in [Clients -> Pcs]
    BY <2>7, PcValues, GotoType
  <2>10. inq' \in [Clients -> Seq(Cells)]
    BY <1>3, <2>3 DEF RecvHdr, TypeOK
  <2>11. hdrBytes' \in [Clients -> {0, PeerDown, HdrLen}]
    BY <1>3 DEF RecvHdr, TypeOK
  <2> QED
    BY <1>3, <2>6, <2>8, <2>9, <2>10, <2>11 DEF RecvHdr, TypeOK, clientVars
<1>4. CASE CopyCmd(t)
  <2>1. pc' \in [Clients -> Pcs]
    BY <1>4, PcValues, GotoType DEF CopyCmd
  <2>2. loc[t].own.cmd \in Cmds /\ g_stTestHdr \in Header
    BY Lookups DEF TypeOK, Header
  <2>3. g_stTestHdr' = [g_stTestHdr EXCEPT !.cmd = loc[t].own.cmd]
    BY <1>4 DEF CopyCmd
  <2>4. g_stTestHdr' \in Header
    BY <2>2, <2>3 DEF Header
  <2> QED
    BY <1>4, <2>1, <2>4 DEF CopyCmd, TypeOK, clientVars
<1>5. CASE HdrDown(t)
  <2>1. CloseFd(t, connFd[t], "ver")
    BY <1>5 DEF HdrDown
  <2>2. /\ fdTable' \in [Fds -> FdEntry] /\ pc' \in [Clients -> Pcs]
        /\ UNCHANGED <<main, g_stTestHdr, connFd, clientVars, inq, outq>>
    BY <2>1, Lookups, PcValues, CloseFdType
  <2> QED
    BY <1>5, <2>2 DEF HdrDown, TypeOK, clientVars
<1>6. CASE CheckVersion(t)
  <2>1. Goto(t, "len") \/ Goto(t, "done")
    BY <1>6 DEF CheckVersion
  <2>2. pc' \in [Clients -> Pcs]
    BY <2>1, PcValues, GotoType
  <2>3. loc' \in [Clients -> Locals]
    BY <1>6, LocalTypes DEF CheckVersion
  <2> QED
    BY <1>6, <2>2, <2>3, PrivateType DEF CheckVersion
<1>7. CASE CheckLen(t)
  <2>1. Goto(t, "cmd") \/ Goto(t, "done")
    BY <1>7 DEF CheckLen
  <2>2. pc' \in [Clients -> Pcs]
    BY <2>1, PcValues, GotoType
  <2>3. loc' \in [Clients -> Locals]
    BY <1>7, LocalTypes DEF CheckLen
  <2> QED
    BY <1>7, <2>2, <2>3, PrivateType DEF CheckLen
<1>8. CASE TestCmd(t)
  <2> DEFINE k == loc[t].k
  <2>1. loc[t] \in Locals /\ k \in 1..4 /\ Len(CmdOrder) = 4
    BY Lookups DEF CmdOrder
  <2>2. CmdOrder[k] \in Cmds
    BY <2>1 DEF CmdOrder, Cmds
  <2>3. Private
    BY <1>8 DEF TestCmd
  <2>4. CASE g_stTestHdr.cmd = CmdOrder[k]
    <3>1. /\ loc' = [loc EXCEPT ![t] = [@ EXCEPT !.cmd = CmdOrder[k], !.k = 1]]
          /\ Goto(t, IF CmdOrder[k] = "EXIT" THEN "endclose" ELSE "mod")
      BY <1>8, <2>4 DEF TestCmd
    <3>2. [loc[t] EXCEPT !.cmd = CmdOrder[k], !.k = 1] \in Locals
      BY <2>1, <2>2, UpdateTypes
    <3>3. loc' \in [Clients -> Locals]
      <4> DEFINE new == [loc[t] EXCEPT !.cmd = CmdOrder[k], !.k = 1]
      <4>1. loc' = [loc EXCEPT ![t] = new] /\ new \in Locals
        BY <3>1, <3>2
      <4> HIDE DEF new
      <4> QED
        BY <4>1 DEF TypeOK
    <3>4. pc' \in [Clients -> Pcs]
      BY <3>1, PcValues, GotoType
    <3> QED
      BY <2>3, <3>3, <3>4, PrivateType
  <2>5. CASE g_stTestHdr.cmd # CmdOrder[k] /\ k < Len(CmdOrder)
    <3>1. SetLoc(t, "k", k + 1) /\ UNCHANGED pc /\ k + 1 \in 1..4
      BY <1>8, <2>1, <2>5 DEF TestCmd
    <3>2. loc' \in [Clients -> Locals] /\ pc' \in [Clients -> Pcs]
      BY <3>1, LocalTypes DEF TypeOK
    <3> QED
      BY <2>3, <3>2, PrivateType
  <2>6. CASE g_stTestHdr.cmd # CmdOrder[k] /\ k = Len(CmdOrder)
    <3>1. UNCHANGED loc /\ Goto(t, "top")
      BY <1>8, <2>6 DEF TestCmd
    <3>2. loc' \in [Clients -> Locals] /\ pc' \in [Clients -> Pcs]
      BY <3>1, LocalTypes, PcValues, GotoType
    <3> QED
      BY <2>3, <3>2, PrivateType
  <2> QED
    BY <1>8, <2>1, <2>4, <2>5, <2>6 DEF TestCmd
<1>9. CASE RecvPiece(t)
  BY <1>9, TypeRecvPiece
<1> QED
  BY <1>1, <1>2, <1>3, <1>4, <1>5, <1>6, <1>7, <1>8, <1>9 DEF RecvHeader

\* Receiving and decoding a payload preserves the types.  (A module test beyond
\* the third is not reached, so the index stays within its range.)
LEMMA TypeRecvRequest ==
  ASSUME TypeOK, NEW t \in Clients, RecvRequest(t)
  PROVE  TypeOK'
<1>1. CASE TestModule(t)
  <2> DEFINE k == loc[t].k
  <2>1. loc[t] \in Locals /\ k \in 1..4 /\ Len(ModOrder) = 3 /\ BufRoom \in Nat
    BY Lookups, ServerAssumption DEF ModOrder
  <2>2. Private
    BY <1>1 DEF TestModule
  <2>3. CASE k <= Len(ModOrder) /\ g_stTestHdr.mod = ModOrder[k]
    <3>1. /\ loc' = [loc EXCEPT ![t] = [@ EXCEPT !.mod = ModOrder[k], !.size = BufRoom]]
          /\ Goto(t, IF ModOrder[k] = "TLV" THEN "need" ELSE "size")
      BY <1>1, <2>3 DEF TestModule
    <3>2. ModOrder[k] \in Mods
      BY <2>1, <2>3 DEF ModOrder, Mods
    <3>3. [loc[t] EXCEPT !.mod = ModOrder[k], !.size = BufRoom] \in Locals
      BY <2>1, <3>2 DEF Locals
    <3>4. loc' \in [Clients -> Locals]
      BY <3>1, <3>3 DEF TypeOK
    <3>5. pc' \in [Clients -> Pcs]
      BY <3>1, PcValues, GotoType
    <3> QED
      BY <2>2, <3>4, <3>5, PrivateType
  <2>4. CASE g_stTestHdr.mod # ModOrder[k] /\ k < Len(ModOrder)
    <3>1. SetLoc(t, "k", k + 1) /\ UNCHANGED pc /\ k + 1 \in 1..4
      BY <1>1, <2>1, <2>4 DEF TestModule
    <3>2. loc' \in [Clients -> Locals] /\ pc' \in [Clients -> Pcs]
      BY <3>1, LocalTypes DEF TypeOK
    <3> QED
      BY <2>2, <3>2, PrivateType
  <2>5. CASE g_stTestHdr.mod # ModOrder[k] /\ k = Len(ModOrder)
    <3>1. UNCHANGED loc /\ Goto(t, "top")
      BY <1>1, <2>5 DEF TestModule
    <3>2. loc' \in [Clients -> Locals] /\ pc' \in [Clients -> Pcs]
      BY <3>1, LocalTypes, PcValues, GotoType
    <3> QED
      BY <2>2, <3>2, PrivateType
  <2> QED
    BY <1>1, <2>3, <2>4, <2>5 DEF TestModule
<1>2. CASE SizeBuf(t)
  <2>1. g_stTestHdr.dlen \in Nat
    BY DEF TypeOK, Header
  <2>2. loc' \in [Clients -> Locals] /\ pc' \in [Clients -> Pcs]
    BY <1>2, <2>1, LocalTypes, PcValues, GotoType DEF SizeBuf
  <2> QED
    BY <1>2, <2>2, PrivateType DEF SizeBuf
<1>3. CASE ReadNeed(t)
  <2>1. g_stTestHdr.dlen \in Nat
    BY DEF TypeOK, Header
  <2>2. Goto(t, "check") \/ Goto(t, "dcall")
    BY <1>3 DEF ReadNeed
  <2>3. loc' \in [Clients -> Locals] /\ pc' \in [Clients -> Pcs]
    BY <1>3, <2>1, <2>2, LocalTypes, PcValues, GotoType DEF ReadNeed
  <2> QED
    BY <1>3, <2>3, PrivateType DEF ReadNeed
<1>4. CASE Call(t, "dcall", "data")
  BY <1>4, PcValues, TypeCall
<1>5. CASE RecvData(t)
  <2> DEFINE c == loc[t].sock.who
             new(n) == [loc[t] EXCEPT !.got = loc[t].got + n,
                           !.buf = Overlay(loc[t].buf, SubSeq(inq[c], 1, n))]
  <2>1. c \in Clients /\ loc[t] \in Locals
    BY <1>5, Lookups, ConnOwner DEF RecvData, CanRecv
  <2>2. inq[c] \in Seq(Cells)
    BY <2>1 DEF TypeOK
  <2>3. PICK n \in 1..Len(inq[c]) :
          /\ inq' = [inq EXCEPT ![c] = SubSeq(@, n + 1, Len(@))]
          /\ loc' = [loc EXCEPT ![t] = new(n)]
          /\ \/ /\ Goto(t, IF loc[t].got + n = loc[t].need THEN "check" ELSE "dcall")
                /\ UNCHANGED <<main, fdTable>>
             \/ Die /\ UNCHANGED pc
    BY <1>5 DEF RecvData
  <2>4. /\ SubSeq(inq[c], 1, n) \in Seq(Cells)
        /\ SubSeq(inq[c], n + 1, Len(inq[c])) \in Seq(Cells)
    BY <2>2, CutType
  <2>5. Overlay(loc[t].buf, SubSeq(inq[c], 1, n)) \in Seq(Cells)
    BY <2>4, Lookups, OverlayType
  <2>6. loc[t].got + n \in Nat
    BY <2>2, LenProperties, Lookups
  <2>7. new(n) \in Locals
    BY <2>1, <2>5, <2>6, UpdateTypes
  <2> HIDE DEF new
  <2>8. loc' \in [Clients -> Locals]
    BY <2>3, <2>7 DEF TypeOK
  <2>9. inq' \in [Clients -> Seq(Cells)]
    BY <2>1, <2>3, <2>4 DEF TypeOK
  <2>10. pc' \in [Clients -> Pcs]
    <3>1. CASE UNCHANGED pc
      BY <3>1 DEF TypeOK
    <3>2. CASE Goto(t, IF loc[t].got + n = loc[t].need THEN "check" ELSE "dcall")
      BY <3>2, PcValues, GotoType
    <3> QED
      BY <2>3, <3>1, <3>2
  <2>11. main' \in MainLoop /\ fdTable' \in [Fds -> FdEntry]
    BY <2>3, DieType DEF TypeOK
  <2> QED
    BY <1>5, <2>8, <2>9, <2>10, <2>11 DEF RecvData, TypeOK, clientVars
<1>6. CASE DataDown(t)
  <2>1. CloseFd(t, connFd[t], "decode")
    BY <1>6 DEF DataDown
  <2>2. /\ fdTable' \in [Fds -> FdEntry] /\ pc' \in [Clients -> Pcs]
        /\ UNCHANGED <<main, g_stTestHdr, connFd, clientVars, inq, outq>>
    BY <2>1, Lookups, PcValues, CloseFdType
  <2> QED
    BY <1>6, <2>2 DEF DataDown, TypeOK, clientVars
<1>7. CASE CheckData(t)
  <2>1. Goto(t, "decode") \/ Goto(t, "endclose")
    BY <1>7 DEF CheckData
  <2>2. loc' \in [Clients -> Locals] /\ pc' \in [Clients -> Pcs]
    BY <1>7, <2>1, LocalTypes, PcValues, GotoType DEF CheckData
  <2> QED
    BY <1>7, <2>2, PrivateType DEF CheckData
<1>8. CASE Decode(t)
  <2>1. \/ UNCHANGED pc
        \/ Goto(t, "set") \/ Goto(t, "get") \/ Goto(t, "list")
        \/ Goto(t, "lend") \/ Goto(t, "endclose")
    BY <1>8 DEF Decode, HandlerPc
  <2>2. pc' \in [Clients -> Pcs]
    <3>1. CASE UNCHANGED pc
      BY <3>1 DEF TypeOK
    <3> QED
      BY <2>1, <3>1, PcValues, GotoType
  <2>3. Die \/ UNCHANGED <<main, fdTable>>
    BY <1>8 DEF Decode
  <2>4. main' \in MainLoop /\ fdTable' \in [Fds -> FdEntry]
    BY <2>3, DieType DEF TypeOK
  <2> QED
    BY <1>8, <2>2, <2>4 DEF Decode, TypeOK, clientVars
<1> QED
  BY <1>1, <1>2, <1>3, <1>4, <1>5, <1>6, <1>7, <1>8 DEF RecvRequest

\* The ends of a recv() and the closes that follow preserve the types.
LEMMA TypeEnds ==
  ASSUME TypeOK, NEW t \in Clients, RecvEnds(t) \/ ErrClose(t) \/ EndClose(t)
  PROVE  TypeOK'
<1>1. CASE RecvEnds(t)
  <2>1. Goto(t, "hdrdown") \/ Goto(t, "datadown") \/ Goto(t, "errclose")
    BY <1>1 DEF RecvEnds
  <2>2. pc' \in [Clients -> Pcs]
    BY <2>1, PcValues, GotoType
  <2> QED
    BY <1>1, <2>2 DEF RecvEnds, TypeOK, clientVars
<1>2. CASE ErrClose(t)
  <2>1. CloseFd(t, connFd[t], "endclose")
    BY <1>2 DEF ErrClose
  <2>2. /\ fdTable' \in [Fds -> FdEntry] /\ pc' \in [Clients -> Pcs]
        /\ UNCHANGED <<main, g_stTestHdr, connFd, clientVars, inq, outq>>
    BY <2>1, Lookups, PcValues, CloseFdType
  <2> QED
    BY <1>2, <2>2 DEF ErrClose, TypeOK, clientVars
<1>3. CASE EndClose(t)
  <2>1. CloseFd(t, connFd[t], "done")
    BY <1>3 DEF EndClose
  <2>2. /\ fdTable' \in [Fds -> FdEntry] /\ pc' \in [Clients -> Pcs]
        /\ UNCHANGED <<main, g_stTestHdr, connFd, clientVars, inq, outq>>
    BY <2>1, Lookups, PcValues, CloseFdType
  <2>3. loc' \in [Clients -> Locals]
    BY <1>3, LocalTypes DEF EndClose
  <2> QED
    BY <1>3, <2>2, <2>3 DEF EndClose, TypeOK, clientVars
<1> QED
  BY <1>1, <1>2, <1>3

\* The cells the server sends are replies.
LEMMA CellTypes ==
  ASSUME TypeOK
  PROVE  /\ NameCell \in Replies /\ EndCell \in Replies /\ JunkCell \in Replies
         /\ HdrReply \in Replies /\ \A n \in Nat : BodyCell(n) \in Replies
<1>1. g_stTestHdr.dlen \in Nat /\ g_stTestHdr.ver \in Nat
  BY DEF TypeOK, Header
<1> QED
  BY <1>1 DEF NameCell, EndCell, JunkCell, HdrReply, BodyCell, Replies

\* A write to a descriptor, whatever becomes of it.
LEMMA WriteType ==
  ASSUME TypeOK, NEW f \in Fds, NEW cell \in Replies,
         Delivers(f, cell) \/ SendFails(f) \/ SigPipe(f)
  PROVE  /\ main' \in MainLoop /\ fdTable' \in [Fds -> FdEntry]
         /\ cl' \in [Clients -> {"off", "ready", "half", "wait", "closed",
                                 "hungup", "reset"}]
         /\ outq' \in [Clients -> Seq(Replies)]
<1>1. main' \in MainLoop /\ fdTable' \in [Fds -> FdEntry]
  <2>1. Die \/ UNCHANGED <<main, fdTable>>
    BY DEF Delivers, SendFails, SigPipe
  <2> QED
    BY <2>1, DieType DEF TypeOK
<1>2. CASE Delivers(f, cell)
  <2> DEFINE c == fdTable[f].who
  <2>1. fdTable[f] \in FdEntry
    BY DEF TypeOK
  <2>2. c \in Clients
    BY <1>2, <2>1, ConnOwner DEF Delivers
  <2>3. \/ outq' = [outq EXCEPT ![c] = Append(outq[c], cell)] /\ UNCHANGED cl
        \/ cl' = [cl EXCEPT ![c] = "hungup"] /\ UNCHANGED outq
    BY <1>2 DEF Delivers
  <2>4. outq \in [Clients -> Seq(Replies)] /\ Append(outq[c], cell) \in Seq(Replies)
    BY <2>2, AppendProperties DEF TypeOK
  <2> HIDE DEF c
  <2>5. outq' \in [Clients -> Seq(Replies)]
    BY <2>3, <2>4
  <2>6. cl' \in [Clients -> {"off", "ready", "half", "wait", "closed",
                             "hungup", "reset"}]
    BY <2>3 DEF TypeOK
  <2> QED
    BY <1>1, <2>5, <2>6
<1>3. CASE SendFails(f) \/ SigPipe(f)
  <2>1. UNCHANGED <<cl, outq>>
    BY <1>3 DEF SendFails, SigPipe
  <2> QED
    BY <1>1, <2>1 DEF TypeOK
<1> QED
  BY <1>2, <1>3

\* Sending a cell to the thread's client.
LEMMA TypeSend ==
  ASSUME TypeOK, NEW t \in Clients, NEW from, NEW cell \in Replies,
         NEW p \in Pcs, NEW q \in Pcs, Send(t, from, cell, p, q)
  PROVE  TypeOK'
<1>1. /\ main' \in MainLoop /\ fdTable' \in [Fds -> FdEntry]
      /\ cl' \in [Clients -> {"off", "ready", "half", "wait", "closed",
                              "hungup", "reset"}]
      /\ outq' \in [Clients -> Seq(Replies)]
  BY Lookups, WriteType DEF Send
<1>2. pc' \in [Clients -> Pcs]
  <2>1. CASE UNCHANGED pc
    BY <2>1 DEF TypeOK
  <2> QED
    BY <2>1, GotoType DEF Send
<1> QED
  BY <1>1, <1>2 DEF Send, TypeOK

\* Opening a file, failing to, and closing it.
LEMMA TypeOpens ==
  ASSUME TypeOK, NEW t \in Clients, NEW from, NEW p \in Pcs, Opens(t, from, p)
  PROVE  TypeOK'
<1>1. PICK f \in Fds : /\ fdTable' = [fdTable EXCEPT ![f] = File(t)]
                       /\ SetLoc(t, "file", f)
  BY DEF Opens
<1>2. fdTable' \in [Fds -> FdEntry]
  BY <1>1, ValueTypes DEF TypeOK
<1>3. loc' \in [Clients -> Locals]
  BY <1>1, LocalTypes
<1>4. pc' \in [Clients -> Pcs]
  BY GotoType DEF Opens
<1> QED
  BY <1>2, <1>3, <1>4 DEF Opens, TypeOK, clientVars

\* A failed open only moves the thread.
LEMMA TypeOpenFails ==
  ASSUME TypeOK, NEW t \in Clients, NEW from, NEW mayFail, OpenFails(t, from, mayFail)
  PROVE  TypeOK'
<1>1. pc' \in [Clients -> Pcs] /\ loc' \in [Clients -> Locals]
  BY PcValues, GotoType, LocalTypes DEF OpenFails
<1> QED
  BY <1>1, PrivateType DEF OpenFails

\* Closing a file, too.
LEMMA TypeCloseFile ==
  ASSUME TypeOK, NEW t \in Clients, NEW from, NEW p \in Pcs, CloseFile(t, from, p)
  PROVE  TypeOK'
<1>1. CloseFd(t, loc[t].file, p) /\ UNCHANGED <<hdrBytes, loc>>
  BY DEF CloseFile
<1>2. /\ fdTable' \in [Fds -> FdEntry] /\ pc' \in [Clients -> Pcs]
      /\ UNCHANGED <<main, g_stTestHdr, connFd, clientVars, inq, outq>>
  BY <1>1, Lookups, CloseFdType
<1> QED
  BY <1>1, <1>2 DEF TypeOK, clientVars

\* A step that only moves the thread.
LEMMA TypeMove ==
  ASSUME TypeOK, NEW t \in Clients, NEW p \in Pcs, Goto(t, p), UNCHANGED loc, Private
  PROVE  TypeOK'
<1>1. pc' \in [Clients -> Pcs] /\ loc' \in [Clients -> Locals]
  BY GotoType, LocalTypes
<1> QED
  BY <1>1, PrivateType

\* The LIST handler preserves the types.
LEMMA TypeListFile ==
  ASSUME TypeOK, NEW t \in Clients, ListFile(t)
  PROVE  TypeOK'
<1>1. CASE OpenDir(t)
  BY <1>1, PcValues, TypeOpens, TypeOpenFails DEF OpenDir
<1>2. CASE SendName(t)
  BY <1>2, PcValues, CellTypes, TypeSend DEF SendName
<1>3. CASE NoName(t)
  BY <1>3, PcValues, TypeMove DEF NoName
<1>4. CASE CloseDir(t)
  BY <1>4, PcValues, TypeCloseFile DEF CloseDir
<1>5. CASE SendEnd(t)
  BY <1>5, PcValues, CellTypes, TypeSend DEF SendEnd
<1> QED
  BY <1>1, <1>2, <1>3, <1>4, <1>5 DEF ListFile

\* The GET handler preserves the types.
LEMMA TypeGetFile ==
  ASSUME TypeOK, NEW t \in Clients, GetFile(t)
  PROVE  TypeOK'
<1>1. CASE OpenFile(t)
  BY <1>1, PcValues, TypeOpens, TypeOpenFails DEF OpenFile
<1>2. CASE ReadFile(t)
  <2>1. Goto(t, "ghdr") \/ Goto(t, "endclose") \/ Goto(t, "spin")
    BY <1>2 DEF ReadFile
  <2>2. pc' \in [Clients -> Pcs]
    BY <2>1, PcValues, GotoType
  <2>3. UNCHANGED loc \/ \E n \in ReplyLens : SetLoc(t, "reply", n)
    BY <1>2 DEF ReadFile
  <2>4. ReplyLens \subseteq Nat
    BY ServerAssumption
  <2>5. loc' \in [Clients -> Locals]
    BY <2>3, <2>4, LocalTypes
  <2>6. inq' \in [Clients -> Seq(Cells)]
    <3>1. CASE UNCHANGED inq
      BY <3>1 DEF TypeOK
    <3>2. CASE ~UNCHANGED inq
      <4> DEFINE c == fdTable[loc[t].file].who
      <4>1. /\ fdTable[loc[t].file].kind = "conn"
            /\ inq[c] # <<>> /\ inq' = [inq EXCEPT ![c] = Tail(inq[c])]
        BY <1>2, <3>2 DEF ReadFile
      <4>2. fdTable[loc[t].file] \in FdEntry
        BY Lookups DEF TypeOK
      <4>3. c \in Clients
        BY <4>1, <4>2, ConnOwner
      <4>4. inq \in [Clients -> Seq(Cells)] /\ Tail(inq[c]) \in Seq(Cells)
        BY <4>1, <4>3, HeadTailProperties DEF TypeOK
      <4> HIDE DEF c
      <4> QED
        BY <4>1, <4>4
    <3> QED
      BY <3>1, <3>2
  <2> QED
    BY <1>2, <2>2, <2>5, <2>6 DEF ReadFile, TypeOK, clientVars
<1>3. CASE StartReplyHdr(t)
  <2>1. [g_stTestHdr EXCEPT !.ver = VersionOne] \in Header
    BY DEF TypeOK, Header, VersionOne
  <2>2. g_stTestHdr' \in Header
    BY <1>3, <2>1, ValueTypes DEF StartReplyHdr
  <2>3. pc' \in [Clients -> Pcs]
    BY <1>3, PcValues, GotoType DEF StartReplyHdr
  <2> QED
    BY <1>3, <2>2, <2>3 DEF StartReplyHdr, TypeOK, clientVars
<1>4. CASE FillReplyHdr(t)
  <2>1. /\ g_stTestHdr \in Header /\ loc[t].reply \in Nat /\ HdrLen \in Nat
    BY Lookups DEF TypeOK, HdrLen
  <2>2. \/ g_stTestHdr' = [g_stTestHdr EXCEPT !.dlen = loc[t].reply,
                                              !.hlen = g_stTestHdr.hlen]
        \/ g_stTestHdr' = [g_stTestHdr EXCEPT !.dlen = loc[t].reply, !.hlen = HdrLen]
    BY <1>4 DEF FillReplyHdr
  <2>3. \A h \in Nat : [g_stTestHdr EXCEPT !.dlen = loc[t].reply, !.hlen = h] \in Header
    BY <2>1 DEF Header
  <2>4. g_stTestHdr.hlen \in Nat
    BY <2>1 DEF Header
  <2>5. g_stTestHdr' \in Header
    BY <2>1, <2>2, <2>3, <2>4
  <2>6. pc' \in [Clients -> Pcs]
    BY <1>4, PcValues, GotoType DEF FillReplyHdr
  <2> QED
    BY <1>4, <2>5, <2>6 DEF FillReplyHdr, TypeOK, clientVars
<1>5. CASE SendReplyHdr(t)
  BY <1>5, PcValues, CellTypes, TypeSend DEF SendReplyHdr
<1>6. CASE SendBody(t)
  BY <1>6, Lookups, PcValues, CellTypes, TypeSend DEF SendBody
<1>7. CASE CloseGot(t)
  BY <1>7, PcValues, TypeCloseFile, TypeMove DEF CloseGot
<1> QED
  BY <1>1, <1>2, <1>3, <1>4, <1>5, <1>6, <1>7 DEF GetFile

\* The SET handler preserves the types.
LEMMA TypeSetFile ==
  ASSUME TypeOK, NEW t \in Clients, SetFile(t)
  PROVE  TypeOK'
<1>1. CASE CreateFile(t)
  BY <1>1, PcValues, TypeOpens, TypeOpenFails, TypeMove DEF CreateFile
<1>2. CASE WriteFile(t)
  <2> DEFINE f == loc[t].file
  <2>1. \/ UNCHANGED <<main, fdTable, cl, outq>>
        \/ Delivers(f, JunkCell) \/ SendFails(f) \/ SigPipe(f)
    BY <1>2 DEF WriteFile
  <2>2. /\ main' \in MainLoop /\ fdTable' \in [Fds -> FdEntry]
        /\ cl' \in [Clients -> {"off", "ready", "half", "wait", "closed",
                                "hungup", "reset"}]
        /\ outq' \in [Clients -> Seq(Replies)]
    <3>1. CASE UNCHANGED <<main, fdTable, cl, outq>>
      BY <3>1 DEF TypeOK
    <3> QED
      BY <2>1, <3>1, Lookups, CellTypes, WriteType
  <2>3. UNCHANGED pc \/ Goto(t, "sclose") \/ Goto(t, "endclose")
    BY <1>2 DEF WriteFile
  <2>4. pc' \in [Clients -> Pcs]
    <3>1. CASE UNCHANGED pc
      BY <3>1 DEF TypeOK
    <3> QED
      BY <2>3, <3>1, PcValues, GotoType
  <2> QED
    BY <1>2, <2>2, <2>4 DEF WriteFile, TypeOK
<1>3. CASE CloseWritten(t)
  BY <1>3, PcValues, TypeCloseFile DEF CloseWritten
<1> QED
  BY <1>1, <1>2, <1>3 DEF SetFile

\* Every step of the server and its clients preserves the types.
LEMMA TypeNext == TypeOK /\ [Next]_vars => TypeOK'
<1> SUFFICES ASSUME TypeOK, [Next]_vars PROVE TypeOK'
  OBVIOUS
<1>1. CASE Server_dealClientReq
  BY <1>1, TypeAcceptor
<1>2. CASE \E t \in Clients : Thread(t)
  BY <1>2, TypeRecvHeader, TypeRecvRequest, TypeEnds, TypeListFile, TypeGetFile,
     TypeSetFile DEF Thread
<1>3. CASE \E c \in Clients : Client(c)
  BY <1>3, TypeClient
<1>4. CASE UNCHANGED vars
  BY <1>4 DEF vars, TypeOK, threadVars, clientVars
<1> QED
  BY <1>1, <1>2, <1>3, <1>4 DEF Next

\* The type invariant: whatever the threads, the clients and the accept loop
\* do, every variable of the server keeps its type.
THEOREM TypeCorrect == Spec => []TypeOK
<1>1. Init => TypeOK
  BY TypeInit
<1> QED
  BY <1>1, TypeNext, PTL DEF Spec

-----------------------------------------------------------------------------
(* The listening socket survives.  open(), opendir() and accept() only     *)
(* ever hand out free descriptors, and the listener's never is one; so no  *)
(* thread has it as its connection or as its file, and every close() in    *)
(* the threads is of one of these two.                                     *)

\* where a thread holds, in loc.file, what open() or opendir() gave it
FileHeld == {"names", "lclose", "gread", "ghdr", "glen", "gsend", "gbody",
             "gclose", "write", "sclose"}
ListenerInv ==
    /\ TypeOK
    /\ Running => fdTable[ListenFd] = Listener
    /\ main.pc \in {"accept", "spawn"} => main.fd # ListenFd
    /\ \A t \in Clients : pc[t] # "none" => connFd[t] # ListenFd
    /\ \A t \in Clients : pc[t] \in FileHeld => loc[t].file # ListenFd

\* what a step of thread t may do to the things ListenerInv speaks of
KeepsListener(t) ==
    /\ pc[t] # "none" /\ UNCHANGED connFd
    /\ \A u \in Clients \ {t} : pc'[u] = pc[u] /\ loc'[u] = loc[u]
    /\ main'.pc = "exited" \/ (UNCHANGED main /\ fdTable'[ListenFd] = fdTable[ListenFd])
    /\ pc'[t] \in FileHeld => loc'[t].file # ListenFd

\* Different kinds of descriptors are different.
LEMMA KindsDiffer ==
  /\ FreeFd # Listener /\ Reserved # Listener /\ FreeFd # Reserved
  /\ \A c \in Clients : Conn(c) # Listener /\ File(c) # Listener
BY DEF FreeFd, Listener, Reserved, Conn, File

\* Dying is the end of the accept loop.
LEMMA DieEnds ==
  ASSUME TypeOK, Die
  PROVE  main'.pc = "exited"
BY DEF TypeOK, MainLoop, Die

\* Closing another descriptor leaves the listener alone.
LEMMA ClosedKeeps ==
  ASSUME TypeOK, NEW f \in Fds, f # ListenFd
  PROVE  Closed(f)[ListenFd] = fdTable[ListenFd]
BY ValueTypes DEF Closed, TypeOK

\* A jump and an assignment to a local touch one thread only.
LEMMA OtherThreads ==
  ASSUME TypeOK, NEW t \in Clients, NEW u \in Clients, u # t
  PROVE  /\ \A p : Goto(t, p) => pc'[u] = pc[u]
         /\ \A field, v : SetLoc(t, field, v) => loc'[u] = loc[u]
         /\ Return(t) => loc'[u] = loc[u]
<1>1. pc \in [Clients -> Pcs] /\ loc \in [Clients -> Locals]
  BY DEF TypeOK
<1>2. \A p : Goto(t, p) => pc'[u] = pc[u]
  BY <1>1 DEF Goto
<1>3. \A field, v : SetLoc(t, field, v) => loc'[u] = loc[u]
  BY <1>1 DEF SetLoc
<1>4. Return(t) => loc'[u] = loc[u]
  BY <1>1 DEF Return
<1> QED
  BY <1>2, <1>3, <1>4

\* A jump takes the thread where it says.
LEMMA GotoThere ==
  ASSUME TypeOK, NEW t \in Clients, NEW p, Goto(t, p)
  PROVE  pc'[t] = p
BY DEF TypeOK, Goto

\* The steps of a thread that move it to a place where it holds no file.
LEMMA KeepsPlain ==
  ASSUME ListenerInv, NEW t \in Clients, pc[t] # "none", UNCHANGED connFd,
         NEW p, Goto(t, p), p \notin FileHeld,
         \A u \in Clients \ {t} : loc'[u] = loc[u],
         UNCHANGED main, fdTable'[ListenFd] = fdTable[ListenFd]
  PROVE  KeepsListener(t)
BY OtherThreads, GotoThere DEF ListenerInv, KeepsListener

\* The steps that move a thread from one place where it holds a file to another.
LEMMA KeepsHolding ==
  ASSUME ListenerInv, NEW t \in Clients, pc[t] \in FileHeld, UNCHANGED connFd,
         NEW p, Goto(t, p),
         \A u \in Clients \ {t} : loc'[u] = loc[u], loc'[t].file = loc[t].file,
         UNCHANGED main, fdTable'[ListenFd] = fdTable[ListenFd]
  PROVE  KeepsListener(t)
<1>1. pc[t] # "none" /\ loc[t].file # ListenFd
  BY DEF ListenerInv, FileHeld
<1> QED
  BY <1>1, OtherThreads, GotoThere DEF ListenerInv, KeepsListener

\* Any step that ends the process.
LEMMA KeepsDying ==
  ASSUME ListenerInv, NEW t \in Clients, pc[t] # "none", connFd' = connFd, pc' = pc, Die,
         \A u \in Clients \ {t} : loc'[u] = loc[u],
         pc[t] \in FileHeld => loc'[t].file = loc[t].file
  PROVE  KeepsListener(t)
<1>1. pc'[t] \in FileHeld => loc'[t].file # ListenFd
  BY DEF ListenerInv
<1>2. \A u \in Clients \ {t} : pc'[u] = pc[u] /\ loc'[u] = loc[u]
  OBVIOUS
<1>3. main'.pc = "exited"
  BY DieEnds DEF ListenerInv
<1> QED
  BY <1>1, <1>2, <1>3 DEF KeepsListener

\* A close() of the thread's connection or file.
LEMMA KeepsClosing ==
  ASSUME ListenerInv, NEW t \in Clients, pc[t] # "none", NEW f \in Fds, f # ListenFd,
         NEW p, p \notin FileHeld, CloseFd(t, f, p),
         \A u \in Clients \ {t} : loc'[u] = loc[u]
  PROVE  KeepsListener(t)
<1>1. TypeOK /\ Goto(t, p) /\ UNCHANGED connFd /\ UNCHANGED main /\ fdTable' = Closed(f)
  BY DEF ListenerInv, CloseFd
<1>2. fdTable'[ListenFd] = fdTable[ListenFd]
  BY <1>1, ClosedKeeps
<1> QED
  BY <1>1, <1>2, KeepsPlain

\* A thread's descriptors in a state of the invariant.
LEMMA HeldFds ==
  ASSUME ListenerInv, NEW t \in Clients
  PROVE  /\ TypeOK /\ connFd[t] \in Fds /\ loc[t].file \in Fds
         /\ pc[t] # "none" => connFd[t] # ListenFd
         /\ pc[t] \in FileHeld => loc[t].file # ListenFd
BY Lookups DEF ListenerInv

\* Sending leaves the listener alone.
LEMMA KeepsSending ==
  ASSUME ListenerInv, NEW t \in Clients, NEW from, from # "none",
         NEW cell, NEW p, NEW q, Send(t, from, cell, p, q),
         p \in FileHeld => from \in FileHeld, q \in FileHeld => from \in FileHeld
  PROVE  KeepsListener(t)
<1>1. /\ pc[t] = from /\ UNCHANGED <<connFd, loc>>
      /\ \A u \in Clients \ {t} : loc'[u] = loc[u]
  BY DEF Send
<1>2. CASE SigPipe(connFd[t]) /\ UNCHANGED pc
  BY <1>1, <1>2, KeepsDying DEF SigPipe
<1>3. CASE \E r \in {p, q} : Goto(t, r) /\ UNCHANGED <<main, fdTable>>
  <2>1. PICK r \in {p, q} : Goto(t, r)
    BY <1>3
  <2>2. UNCHANGED main /\ fdTable'[ListenFd] = fdTable[ListenFd]
    BY <1>3
  <2>3. CASE r \in FileHeld
    BY <1>1, <2>1, <2>2, <2>3, KeepsHolding
  <2>4. CASE r \notin FileHeld
    BY <1>1, <2>1, <2>2, <2>4, KeepsPlain
  <2> QED
    BY <2>3, <2>4
<1> QED
  BY <1>2, <1>3 DEF Send, Delivers, SendFails

\* Opening takes a free descriptor, which the listener's is not.
LEMMA KeepsOpening ==
  ASSUME ListenerInv, Running, NEW t \in Clients, NEW from, from # "none",
         NEW p, Opens(t, from, p)
  PROVE  KeepsListener(t)
<1>1. PICK f \in Fds : /\ IsLowestFree(f)
                       /\ fdTable' = [fdTable EXCEPT ![f] = File(t)]
                       /\ SetLoc(t, "file", f)
  BY DEF Opens
<1>2. f # ListenFd
  BY <1>1, KindsDiffer DEF IsLowestFree, ListenerInv
<1>3. fdTable'[ListenFd] = fdTable[ListenFd]
  BY <1>1, <1>2, ValueTypes DEF ListenerInv, TypeOK
<1>4. loc'[t].file = f
  <2>1. [loc[t] EXCEPT !["file"] = f].file = f
    BY HeldFds, Lookups DEF Locals
  <2>2. loc \in [Clients -> Locals]
    BY DEF ListenerInv, TypeOK
  <2> QED
    BY <1>1, <2>1, <2>2 DEF SetLoc
<1>5. \A u \in Clients \ {t} : pc'[u] = pc[u] /\ loc'[u] = loc[u]
  BY <1>1, HeldFds, OtherThreads DEF Opens
<1> QED
  BY <1>2, <1>3, <1>4, <1>5 DEF Opens, KeepsListener

\* A failed open, a jump, and the close of a file.
LEMMA KeepsFailing ==
  ASSUME ListenerInv, NEW t \in Clients, NEW from, from # "none", NEW mayFail,
         OpenFails(t, from, mayFail)
  PROVE  KeepsListener(t)
BY KeepsPlain DEF OpenFails, Private, FileHeld

\* A private jump to a place without a file.
LEMMA KeepsMoving ==
  ASSUME ListenerInv, NEW t \in Clients, pc[t] # "none", NEW p, p \notin FileHeld,
         Goto(t, p), UNCHANGED loc, Private
  PROVE  KeepsListener(t)
BY KeepsPlain DEF Private

\* The close of a file, which is not the listener.
LEMMA KeepsClosingFile ==
  ASSUME ListenerInv, NEW t \in Clients, NEW from, from \in FileHeld,
         NEW p, p \notin FileHeld, CloseFile(t, from, p)
  PROVE  KeepsListener(t)
<1>1. pc[t] \in FileHeld /\ CloseFd(t, loc[t].file, p) /\ UNCHANGED loc
  BY DEF CloseFile
<1>2. pc[t] # "none"
  BY <1>1 DEF FileHeld
<1> QED
  BY <1>1, <1>2, HeldFds, KeepsClosing

\* Receiving and checking a header leaves the listener alone.
LEMMA KeepsRecvHeader ==
  ASSUME ListenerInv, NEW t \in Clients, RecvHeader(t)
  PROVE  KeepsListener(t)
<1>0. /\ TypeOK
      /\ \A p : Goto(t, p) => \A u \in Clients \ {t} : pc'[u] = pc[u]
      /\ \A v : SetLoc(t, "sock", v) => \A u \in Clients \ {t} : loc'[u] = loc[u]
      /\ \A v : SetLoc(t, "own", v) => \A u \in Clients \ {t} : loc'[u] = loc[u]
      /\ \A v : SetLoc(t, "k", v) => \A u \in Clients \ {t} : loc'[u] = loc[u]
      /\ Return(t) => \A u \in Clients \ {t} : loc'[u] = loc[u]
  BY HeldFds, OtherThreads
<1>1. CASE Top(t)
  BY <1>0, <1>1, KeepsPlain DEF Top, Return, FileHeld
<1>2. CASE Call(t, "hcall", "recv")
  BY <1>0, <1>2, KeepsPlain DEF Call, FileHeld
<1>3. CASE RecvHdr(t)
  BY <1>0, <1>3, KeepsPlain DEF RecvHdr, FileHeld
<1>4. CASE CopyCmd(t)
  BY <1>4, KeepsPlain DEF CopyCmd, FileHeld
<1>5. CASE HdrDown(t)
  BY <1>5, HeldFds, KeepsClosing DEF HdrDown, FileHeld
<1>6. CASE CheckVersion(t)
  BY <1>0, <1>6, KeepsPlain DEF CheckVersion, Private, FileHeld
<1>7. CASE CheckLen(t)
  BY <1>0, <1>7, KeepsPlain DEF CheckLen, Private, FileHeld
<1>8. CASE TestCmd(t)
  <2>1. pc[t] = "cmd" /\ UNCHANGED <<main, fdTable, connFd>>
    BY <1>8 DEF TestCmd, Private
  <2>2. \A u \in Clients \ {t} : loc'[u] = loc[u]
    BY <1>0, <1>8 DEF TestCmd, TypeOK
  <2>3. Goto(t, "endclose") \/ Goto(t, "mod") \/ Goto(t, "top") \/ UNCHANGED pc
    BY <1>8 DEF TestCmd
  <2>4. CASE UNCHANGED pc
    BY <2>1, <2>2, <2>4 DEF KeepsListener, FileHeld
  <2> QED
    BY <2>1, <2>2, <2>3, <2>4, KeepsPlain DEF FileHeld
<1>9. CASE RecvPiece(t)
  <2>1. (Goto(t, "hcall") \/ Goto(t, "ver")) /\ UNCHANGED <<main, fdTable, connFd>>
    BY <1>9 DEF RecvPiece
  <2>2. \A u \in Clients \ {t} : loc'[u] = loc[u]
    <3>1. \E new : loc' = [loc EXCEPT ![t] = new]
      BY <1>9 DEF RecvPiece
    <3> QED
      BY <1>0, <3>1 DEF TypeOK
  <2>3. pc[t] = "recv"
    BY <1>9 DEF RecvPiece
  <2> QED
    BY <2>1, <2>2, <2>3, KeepsPlain DEF FileHeld
<1> QED
  BY <1>1, <1>2, <1>3, <1>4, <1>5, <1>6, <1>7, <1>8, <1>9 DEF RecvHeader

\* So does receiving and decoding a payload.
LEMMA KeepsRecvRequest ==
  ASSUME ListenerInv, NEW t \in Clients, RecvRequest(t)
  PROVE  KeepsListener(t)
<1>0. /\ TypeOK
      /\ \A v : SetLoc(t, "sock", v) => \A u \in Clients \ {t} : loc'[u] = loc[u]
      /\ \A v : SetLoc(t, "size", v) => \A u \in Clients \ {t} : loc'[u] = loc[u]
      /\ \A v : SetLoc(t, "need", v) => \A u \in Clients \ {t} : loc'[u] = loc[u]
      /\ \A v : SetLoc(t, "k", v) => \A u \in Clients \ {t} : loc'[u] = loc[u]
  BY HeldFds, OtherThreads
<1>1. CASE TestModule(t)
  <2>1. pc[t] = "mod" /\ UNCHANGED <<main, fdTable, connFd>>
    BY <1>1 DEF TestModule, Private
  <2>2. \A u \in Clients \ {t} : loc'[u] = loc[u]
    BY <1>0, <1>1 DEF TestModule, TypeOK
  <2>3. Goto(t, "need") \/ Goto(t, "size") \/ Goto(t, "top") \/ UNCHANGED pc
    BY <1>1 DEF TestModule
  <2>4. CASE UNCHANGED pc
    BY <2>1, <2>2, <2>4 DEF KeepsListener, FileHeld
  <2> QED
    BY <2>1, <2>2, <2>3, <2>4, KeepsPlain DEF FileHeld
<1>2. CASE SizeBuf(t)
  BY <1>0, <1>2, KeepsPlain DEF SizeBuf, Private, FileHeld
<1>3. CASE ReadNeed(t)
  <2>1. Goto(t, "check") \/ Goto(t, "dcall")
    BY <1>3 DEF ReadNeed
  <2> QED
    BY <1>0, <1>3, <2>1, KeepsPlain DEF ReadNeed, Private, FileHeld
<1>4. CASE Call(t, "dcall", "data")
  BY <1>0, <1>4, KeepsPlain DEF Call, FileHeld
<1>5. CASE RecvData(t)
  <2>1. pc[t] = "data" /\ UNCHANGED connFd
    BY <1>5 DEF RecvData
  <2>2. \A u \in Clients \ {t} : loc'[u] = loc[u]
    BY <1>0, <1>5 DEF RecvData, TypeOK
  <2>3. \/ (Goto(t, "check") \/ Goto(t, "dcall")) /\ UNCHANGED <<main, fdTable>>
        \/ Die /\ UNCHANGED pc
    BY <1>5 DEF RecvData
  <2>4. CASE Die /\ UNCHANGED pc
    BY <2>1, <2>2, <2>4, KeepsDying DEF FileHeld
  <2> QED
    BY <2>1, <2>2, <2>3, <2>4, KeepsPlain DEF FileHeld
<1>6. CASE DataDown(t)
  BY <1>6, HeldFds, KeepsClosing DEF DataDown, FileHeld
<1>7. CASE CheckData(t)
  <2>1. Goto(t, "decode") \/ Goto(t, "endclose")
    BY <1>7 DEF CheckData
  <2> QED
    BY <1>7, <2>1, KeepsMoving DEF CheckData, FileHeld
<1>8. CASE Decode(t)
  <2>1. pc[t] = "decode" /\ UNCHANGED <<connFd, loc>>
    BY <1>8 DEF Decode
  <2>2. \/ /\ \/ Goto(t, "set") \/ Goto(t, "get") \/ Goto(t, "list")
              \/ Goto(t, "lend") \/ Goto(t, "endclose")
           /\ UNCHANGED <<main, fdTable>>
        \/ Die /\ UNCHANGED pc
    BY <1>8 DEF Decode, HandlerPc
  <2>3. CASE Die /\ UNCHANGED pc
    BY <2>1, <2>3, KeepsDying DEF FileHeld
  <2> QED
    BY <2>1, <2>2, <2>3, KeepsPlain DEF FileHeld
<1> QED
  BY <1>1, <1>2, <1>3, <1>4, <1>5, <1>6, <1>7, <1>8 DEF RecvRequest

\* So do the ends of a recv() and the closes that follow.
LEMMA KeepsEnds ==
  ASSUME ListenerInv, NEW t \in Clients, RecvEnds(t) \/ ErrClose(t) \/ EndClose(t)
  PROVE  KeepsListener(t)
<1>1. CASE RecvEnds(t)
  <2>1. Goto(t, "hdrdown") \/ Goto(t, "datadown") \/ Goto(t, "errclose")
    BY <1>1 DEF RecvEnds
  <2> QED
    BY <1>1, <2>1, KeepsPlain DEF RecvEnds, FileHeld
<1>2. CASE ErrClose(t)
  BY <1>2, HeldFds, KeepsClosing DEF ErrClose, FileHeld
<1>3. CASE EndClose(t)
  <2>1. \A u \in Clients \ {t} : loc'[u] = loc[u]
    BY <1>3, HeldFds, OtherThreads DEF EndClose
  <2> QED
    BY <1>3, <2>1, HeldFds, KeepsClosing DEF EndClose, FileHeld
<1> QED
  BY <1>1, <1>2, <1>3

\* So does the LIST handler.
LEMMA KeepsListFile ==
  ASSUME ListenerInv, Running, NEW t \in Clients, ListFile(t)
  PROVE  KeepsListener(t)
<1>1. CASE OpenDir(t)
  BY <1>1, KeepsOpening, KeepsFailing DEF OpenDir
<1>2. CASE SendName(t)
  BY <1>2, KeepsSending DEF SendName, FileHeld
<1>3. CASE NoName(t)
  <2>1. pc[t] = "names" /\ UNCHANGED <<main, fdTable, connFd, loc>>
    BY <1>3 DEF NoName, Private
  <2>2. CASE Goto(t, "lclose")
    BY <2>1, <2>2, KeepsHolding DEF FileHeld
  <2>3. CASE Goto(t, "endclose")
    BY <2>1, <2>3, KeepsPlain DEF FileHeld
  <2> QED
    BY <1>3, <2>2, <2>3 DEF NoName
<1>4. CASE CloseDir(t)
  BY <1>4, KeepsClosingFile DEF CloseDir, FileHeld
<1>5. CASE SendEnd(t)
  BY <1>5, KeepsSending DEF SendEnd, FileHeld
<1> QED
  BY <1>1, <1>2, <1>3, <1>4, <1>5 DEF ListFile

\* So does the GET handler.
LEMMA KeepsGetFile ==
  ASSUME ListenerInv, Running, NEW t \in Clients, GetFile(t)
  PROVE  KeepsListener(t)
<1>1. CASE OpenFile(t)
  BY <1>1, KeepsOpening, KeepsFailing DEF OpenFile
<1>2. CASE ReadFile(t)
  <2>1. pc[t] = "gread" /\ UNCHANGED <<main, fdTable, connFd>>
    BY <1>2 DEF ReadFile
  <2>2. UNCHANGED loc \/ \E n : SetLoc(t, "reply", n)
    BY <1>2 DEF ReadFile
  <2>3. \A u \in Clients \ {t} : loc'[u] = loc[u]
    BY <2>2, HeldFds, OtherThreads
  <2>4. loc'[t].file = loc[t].file
    <3>1. loc \in [Clients -> Locals] /\ loc[t] \in Locals
      BY DEF ListenerInv, TypeOK
    <3>2. \A n : [loc[t] EXCEPT !["reply"] = n].file = loc[t].file
      BY <3>1 DEF Locals
    <3> QED
      BY <2>2, <3>1, <3>2 DEF SetLoc
  <2>5. CASE Goto(t, "ghdr")
    BY <2>1, <2>3, <2>4, <2>5, KeepsHolding DEF FileHeld
  <2>6. CASE Goto(t, "endclose") \/ Goto(t, "spin")
    BY <2>1, <2>3, <2>6, KeepsPlain DEF FileHeld
  <2> QED
    BY <1>2, <2>5, <2>6 DEF ReadFile
<1>3. CASE StartReplyHdr(t)
  BY <1>3, KeepsHolding DEF StartReplyHdr, FileHeld
<1>4. CASE FillReplyHdr(t)
  BY <1>4, KeepsHolding DEF FillReplyHdr, FileHeld
<1>5. CASE SendReplyHdr(t)
  BY <1>5, KeepsSending DEF SendReplyHdr, FileHeld
<1>6. CASE SendBody(t)
  BY <1>6, KeepsSending DEF SendBody, FileHeld
<1>7. CASE CloseGot(t)
  BY <1>7, KeepsClosingFile, KeepsMoving DEF CloseGot, FileHeld
<1> QED
  BY <1>1, <1>2, <1>3, <1>4, <1>5, <1>6, <1>7 DEF GetFile

\* So does the SET handler.
LEMMA KeepsSetFile ==
  ASSUME ListenerInv, Running, NEW t \in Clients, SetFile(t)
  PROVE  KeepsListener(t)
<1>1. CASE CreateFile(t)
  BY <1>1, KeepsOpening, KeepsFailing, KeepsMoving DEF CreateFile, FileHeld
<1>2. CASE WriteFile(t)
  <2>1. pc[t] = "write" /\ UNCHANGED <<connFd, loc>>
    BY <1>2 DEF WriteFile
  <2>2. \/ Goto(t, "sclose") /\ UNCHANGED <<main, fdTable>>
        \/ Goto(t, "endclose") /\ UNCHANGED <<main, fdTable>>
        \/ Die /\ UNCHANGED pc
    BY <1>2 DEF WriteFile, Delivers, SendFails, SigPipe
  <2>3. CASE Goto(t, "sclose") /\ UNCHANGED <<main, fdTable>>
    BY <2>1, <2>3, KeepsHolding DEF FileHeld
  <2>4. CASE Goto(t, "endclose") /\ UNCHANGED <<main, fdTable>>
    BY <2>1, <2>4, KeepsPlain DEF FileHeld
  <2>5. CASE Die /\ UNCHANGED pc
    BY <2>1, <2>5, KeepsDying DEF FileHeld
  <2> QED
    BY <2>2, <2>3, <2>4, <2>5
<1>3. CASE CloseWritten(t)
  BY <1>3, KeepsClosingFile DEF CloseWritten, FileHeld
<1> QED
  BY <1>1, <1>2, <1>3 DEF SetFile

\* A thread's step keeps the invariant.
LEMMA ListenerThread ==
  ASSUME ListenerInv, TypeOK', NEW t \in Clients, Thread(t)
  PROVE  ListenerInv'
<1>1. Running /\ KeepsListener(t)
  BY KeepsRecvHeader, KeepsRecvRequest, KeepsEnds, KeepsListFile, KeepsGetFile,
     KeepsSetFile DEF Thread
<1>2. /\ Running' => fdTable'[ListenFd] = Listener
      /\ main'.pc \in {"accept", "spawn"} => main'.fd # ListenFd
  BY <1>1 DEF KeepsListener, ListenerInv, Running
<1>3. ASSUME NEW u \in Clients
      PROVE  /\ pc'[u] # "none" => connFd'[u] # ListenFd
             /\ pc'[u] \in FileHeld => loc'[u].file # ListenFd
  BY <1>1 DEF KeepsListener, ListenerInv
<1> QED
  BY <1>2, <1>3 DEF ListenerInv, Running

\* The accept loop keeps it: accept() reserves a free descriptor, and the loop
\* closes nothing.
LEMMA ListenerAcceptor ==
  ASSUME ListenerInv, TypeOK', Server_dealClientReq
  PROVE  ListenerInv'
<1>0. TypeOK /\ main \in MainLoop
  BY DEF ListenerInv, TypeOK
<1>1. CASE Die /\ UNCHANGED <<pc, connFd, loc>>
  <2>1. main'.pc = "exited"
    BY <1>0, <1>1, DieEnds
  <2> QED
    BY <1>1, <2>1 DEF ListenerInv, Running
<1>2. CASE EnterAccept /\ ~Die
  <2>1. PICK f \in Fds : /\ IsLowestFree(f)
                         /\ fdTable' = [fdTable EXCEPT ![f] = Reserved]
                         /\ main' = [main EXCEPT !.pc = "accept", !.fd = f]
    BY <1>2 DEF EnterAccept
  <2>2. Running /\ UNCHANGED <<pc, connFd, loc>>
    BY <1>2 DEF EnterAccept, Running, threadVars
  <2>3. f # ListenFd
    BY <2>1, <2>2, KindsDiffer DEF IsLowestFree, ListenerInv
  <2>4. fdTable'[ListenFd] = fdTable[ListenFd] /\ main'.fd = f
    BY <1>0, <2>1, <2>3, ValueTypes DEF TypeOK, MainLoop
  <2> QED
    BY <2>2, <2>3, <2>4 DEF ListenerInv, Running
<1>3. CASE Accept
  <2>1. main.pc = "accept" /\ UNCHANGED <<pc, connFd, loc>> /\ main.fd \in Fds
    BY <1>0, <1>3 DEF Accept, threadVars, MainLoop
  <2>2. main.fd # ListenFd /\ fdTable[ListenFd] = Listener
    BY <2>1 DEF ListenerInv, Running
  <2>3. fdTable' = [fdTable EXCEPT ![main.fd] = Conn(Head(backlog))]
    BY <1>3 DEF Accept
  <2>4. fdTable'[ListenFd] = Listener
    BY <1>0, <2>1, <2>2, <2>3, ValueTypes DEF TypeOK
  <2>5. main'.fd = main.fd
    BY <1>0, <1>3 DEF Accept, MainLoop
  <2> QED
    BY <2>1, <2>2, <2>4, <2>5 DEF ListenerInv, Running
<1>4. CASE Spawn
  <2>1. main.pc = "spawn" /\ main.fd # ListenFd /\ UNCHANGED <<fdTable, loc>>
    BY <1>4 DEF Spawn, ListenerInv
  <2>2. main'.pc = "loop" /\ Running
    BY <1>0, <1>4 DEF Spawn, MainLoop, Running
  <2>3. ASSUME NEW u \in Clients
        PROVE  /\ pc'[u] # "none" => connFd'[u] # ListenFd
               /\ pc'[u] \in FileHeld => loc'[u].file # ListenFd
    <3>1. CASE u = main.who
      <4>1. pc'[u] = "top" /\ connFd'[u] = main.fd
        BY <1>0, <1>4, <3>1 DEF Spawn, TypeOK
      <4> QED
        BY <2>1, <4>1 DEF FileHeld
    <3>2. CASE u # main.who
      <4>1. pc'[u] = pc[u] /\ connFd'[u] = connFd[u] /\ loc'[u] = loc[u]
        BY <1>0, <1>4, <2>1, <3>2 DEF Spawn, TypeOK
      <4> QED
        BY <4>1 DEF ListenerInv
    <3> QED
      BY <3>1, <3>2
  <2> QED
    BY <2>1, <2>2, <2>3 DEF ListenerInv, Running
<1> QED
  BY <1>1, <1>2, <1>3, <1>4 DEF Server_dealClientReq, EnterAccept, SpawnFails, threadVars

\* ListenerInv is inductive.
LEMMA ListenerStep == ListenerInv /\ [Next]_vars => ListenerInv'
<1> SUFFICES ASSUME ListenerInv, [Next]_vars PROVE ListenerInv'
  OBVIOUS
<1>1. TypeOK'
  BY TypeNext DEF ListenerInv
<1>2. CASE Server_dealClientReq
  BY <1>1, <1>2, ListenerAcceptor
<1>3. CASE \E t \in Clients : Thread(t)
  BY <1>1, <1>3, ListenerThread
<1>4. CASE UNCHANGED <<main, fdTable, pc, connFd, loc>>
  BY <1>1, <1>4 DEF ListenerInv, Running
<1>5. CASE \E c \in Clients : Client(c)
  BY <1>4, <1>5 DEF Client, Connect, SendHdr, SendPayload, TakeReply, NoticeDown, Depart,
     threadVars
<1> QED
  BY <1>2, <1>3, <1>4, <1>5 DEF Next, vars, threadVars

\* The listening socket survives every double close(): as long as main() runs,
\* the descriptor it accepts on is the listener's.
THEOREM ListenerSafe == Spec => []ListenerSurvives
<1>1. Init => ListenerInv
  <2> SUFFICES ASSUME Init PROVE ListenerInv
    OBVIOUS
  <2>1. TypeOK /\ fdTable[ListenFd] = Listener /\ main.pc = "loop"
    BY TypeInit, ValueTypes DEF Init
  <2>2. \A t \in Clients : pc[t] = "none"
    BY DEF Init
  <2> QED
    BY <2>1, <2>2 DEF ListenerInv, FileHeld
<1>2. ListenerInv => ListenerSurvives
  BY DEF ListenerInv, ListenerSurvives
<1> QED
  BY <1>1, <1>2, ListenerStep, PTL DEF Spec

-----------------------------------------------------------------------------
(* The history of a connection is never forgotten.                         *)

\* no header of this connection has been cut so far
Unbegun(l) == l.words = 0 /\ ~l.torn
KeepsTorn == \A u \in Clients : /\ loc[u].torn => loc'[u].torn
                                /\ Cuts = {} /\ Unbegun(loc[u]) => Unbegun(loc'[u])

\* Assignments to the other locals, and a return, keep it.
LEMMA TornKept ==
  ASSUME TypeOK, NEW t \in Clients
  PROVE  /\ UNCHANGED loc \/ Return(t) => KeepsTorn
         /\ \A v : \A f \in {"k", "sock", "own", "size", "need", "file", "reply"} :
              SetLoc(t, f, v) => KeepsTorn
<1>1. loc \in [Clients -> Locals]
  BY DEF TypeOK
<1>2. UNCHANGED loc \/ Return(t) => KeepsTorn
  <2>1. Cleared(t).torn = loc[t].torn /\ Cleared(t).words = 0
    BY ClearedType DEF Cleared, NoLocals
  <2> QED
    BY <1>1, <2>1 DEF Return, KeepsTorn, Unbegun
<1>3. \A v : \A l \in Locals, f \in {"k", "sock", "own", "size", "need", "file", "reply"} :
        [l EXCEPT ![f] = v].torn = l.torn /\ [l EXCEPT ![f] = v].words = l.words
  BY DEF Locals
<1>4. ASSUME NEW f \in {"k", "sock", "own", "size", "need", "file", "reply"}, NEW v,
             SetLoc(t, f, v)
      PROVE  KeepsTorn
  BY <1>1, <1>3, <1>4 DEF SetLoc, KeepsTorn, Unbegun
<1> QED
  BY <1>2, <1>4

\* So does every step.
LEMMA TornHandlers ==
  ASSUME TypeOK, NEW t \in Clients, ListFile(t) \/ GetFile(t) \/ SetFile(t)
  PROVE  KeepsTorn
<1>1. \A p, q : Opens(t, p, q) => KeepsTorn
  BY TornKept DEF Opens
<1>2. \A p, b : OpenFails(t, p, b) => KeepsTorn
  BY TornKept DEF OpenFails
<1>3. \A p, q : CloseFile(t, p, q) => KeepsTorn
  BY TornKept DEF CloseFile
<1>4. \A p, x, q, r : Send(t, p, x, q, r) => KeepsTorn
  BY TornKept DEF Send
<1>5. CASE ListFile(t)
  BY <1>1, <1>2, <1>3, <1>4, <1>5, TornKept
     DEF ListFile, OpenDir, SendName, NoName, CloseDir, SendEnd
<1>6. CASE GetFile(t)
  <2>1. CASE ReadFile(t)
    BY <2>1, TornKept DEF ReadFile
  <2> QED
    BY <1>1, <1>2, <1>3, <1>4, <1>6, <2>1, TornKept
       DEF GetFile, OpenFile, StartReplyHdr, FillReplyHdr, SendReplyHdr, SendBody, CloseGot
<1>7. CASE SetFile(t)
  BY <1>1, <1>2, <1>3, <1>7, TornKept DEF SetFile, CreateFile, WriteFile, CloseWritten
<1> QED
  BY <1>5, <1>6, <1>7

\* The same of receiving and decoding a request ...
LEMMA TornRequest ==
  ASSUME TypeOK, NEW t \in Clients, RecvRequest(t)
  PROVE  KeepsTorn
<1>0. loc \in [Clients -> Locals]
  BY DEF TypeOK
<1>1. CASE TestModule(t)
  <2>1. \A v, n : \A l \in Locals : /\ [l EXCEPT !.mod = v, !.size = n].torn = l.torn
                                    /\ [l EXCEPT !.mod = v, !.size = n].words = l.words
    BY DEF Locals
  <2>2. \/ \E v, n : loc' = [loc EXCEPT ![t] = [loc[t] EXCEPT !.mod = v, !.size = n]]
        \/ UNCHANGED loc
        \/ \E v : SetLoc(t, "k", v)
    BY <1>1 DEF TestModule
  <2>3. CASE \E v, n : loc' = [loc EXCEPT ![t] = [loc[t] EXCEPT !.mod = v, !.size = n]]
    BY <1>0, <2>1, <2>3 DEF KeepsTorn, Unbegun
  <2> QED
    BY <2>2, <2>3, TornKept
<1>2. CASE RecvData(t)
  <2>1. \A v, n : \A l \in Locals : /\ [l EXCEPT !.got = v, !.buf = n].torn = l.torn
                                    /\ [l EXCEPT !.got = v, !.buf = n].words = l.words
    BY DEF Locals
  <2>2. \E v, n : loc' = [loc EXCEPT ![t] = [loc[t] EXCEPT !.got = v, !.buf = n]]
    BY <1>2 DEF RecvData
  <2> QED
    BY <1>0, <2>1, <2>2 DEF KeepsTorn, Unbegun
<1> QED
  BY <1>1, <1>2, TornKept DEF RecvRequest, SizeBuf, ReadNeed, Call, DataDown, CheckData, Decode

\* ... and of receiving a header; without a place to cut it no piece of one begins.
LEMMA TornHeader ==
  ASSUME TypeOK, NEW t \in Clients, RecvHeader(t)
  PROVE  KeepsTorn
<1>0. loc \in [Clients -> Locals]
  BY DEF TypeOK
<1>1. CASE TestCmd(t)
  <2>1. \A v, n : \A l \in Locals : /\ [l EXCEPT !.cmd = v, !.k = n].torn = l.torn
                                    /\ [l EXCEPT !.cmd = v, !.k = n].words = l.words
    BY DEF Locals
  <2>2. \/ \E v, n : loc' = [loc EXCEPT ![t] = [loc[t] EXCEPT !.cmd = v, !.k = n]]
        \/ UNCHANGED loc
        \/ \E v : SetLoc(t, "k", v)
    BY <1>1 DEF TestCmd
  <2>3. CASE \E v, n : loc' = [loc EXCEPT ![t] = [loc[t] EXCEPT !.cmd = v, !.k = n]]
    BY <1>0, <2>1, <2>3 DEF KeepsTorn, Unbegun
  <2> QED
    BY <2>2, <2>3, TornKept
<1>2. CASE RecvPiece(t)
  <2>1. \A v, n : \A l \in Locals :
          [l EXCEPT !.own = v, !.torn = TRUE, !.words = n].torn
    BY DEF Locals
  <2>2. \E v, n : loc' = [loc EXCEPT ![t] =
                           [loc[t] EXCEPT !.own = v, !.torn = TRUE, !.words = n]]
    BY <1>2 DEF RecvPiece
  <2>3. ~(Cuts = {} /\ Unbegun(loc[t]))
    <3>1. PICK n \in 1 .. HdrWords - 1 : loc[t].words + n \in Cuts \cup {HdrWords}
      BY <1>2 DEF RecvPiece
    <3> QED
      BY <3>1 DEF Unbegun, HdrWords
  <2> QED
    BY <1>0, <2>1, <2>2, <2>3 DEF KeepsTorn
<1>3. CASE Top(t)
  BY <1>3, TornKept DEF Top, Return
<1> QED
  BY <1>1, <1>2, <1>3, TornKept
     DEF RecvHeader, Call, RecvHdr, CopyCmd, HdrDown, CheckVersion, CheckLen

\* What was torn stays so.
LEMMA TornStays == TypeOK /\ [Next]_vars => KeepsTorn
<1> SUFFICES ASSUME TypeOK, [Next]_vars PROVE KeepsTorn
  OBVIOUS
<1>1. CASE \E t \in Clients : Thread(t)
  <2>1. PICK t \in Clients : Thread(t)
    BY <1>1
  <2> QED
    BY <2>1, TornHeader, TornRequest, TornHandlers, TornKept
       DEF Thread, RecvEnds, ErrClose, EndClose
<1>2. CASE UNCHANGED loc
  BY <1>2 DEF KeepsTorn
<1> QED
  BY <1>1, <1>2 DEF Next, Server_dealClientReq, EnterAccept, Accept, Spawn, SpawnFails, Client,
     Connect, SendHdr, SendPayload, TakeReply, NoticeDown, Depart, vars, threadVars

\* A piece of a header is remembered.
LEMMA PieceTears ==
  ASSUME TypeOK, NEW t \in Clients, RecvPiece(t)
  PROVE  loc'[t].torn
<1>1. \A v, n : \A l \in Locals :
        [l EXCEPT !.own = v, !.torn = TRUE, !.words = n].torn
  BY DEF Locals
<1>2. \E v, n : loc' = [loc EXCEPT ![t] =
                         [loc[t] EXCEPT !.own = v, !.torn = TRUE, !.words = n]]
  BY DEF RecvPiece
<1> QED
  BY <1>1, <1>2 DEF TypeOK

-----------------------------------------------------------------------------
(* No dispatch after a shutdown.  As long as every header came whole,      *)
(* m_usHdrLen of the global header is 0 or 20, whoever wrote it last; a    *)
(* thread whose peer went down holds the count 1; so the length check      *)
(* cannot pass, whatever the other threads do between the close and the    *)
(* check.                                                                  *)

NoTorn == \A u \in Clients : ~loc[u].torn

\* between the header's recv() and the end of its checks
Checking == {"copy", "ver", "len"}
DispatchInv ==
    /\ TypeOK
    /\ g_stTestHdr.hlen \in {0, HdrLen}
    /\ \A t \in Clients : pc[t] \in Checking => hdrBytes[t] \in {PeerDown, HdrLen}
    /\ \A t \in Clients : pc[t] \in Handling => hdrBytes[t] = HdrLen

\* what a step of thread t may do to the things DispatchInv speaks of
KeepsDispatch(t) ==
    /\ \A u \in Clients \ {t} : pc'[u] = pc[u] /\ hdrBytes'[u] = hdrBytes[u]
    /\ g_stTestHdr'.hlen \in {0, HdrLen}
    /\ pc'[t] \in Checking => hdrBytes'[t] \in {PeerDown, HdrLen}
    /\ pc'[t] \in Handling => hdrBytes'[t] = HdrLen

\* Which program counters are in a handler.
LEMMA HandlingPcs ==
  /\ {"cmd", "mod", "size", "need", "dcall", "data", "datadown", "check", "decode",
      "list", "names", "lclose", "lend", "get", "gread", "spin", "ghdr", "glen",
      "gsend", "gbody", "gclose", "set", "write", "sclose"} \subseteq Handling
  /\ \A p \in {"none", "top", "hcall", "recv", "copy", "hdrdown", "ver", "len",
               "errclose", "endclose", "done"} : p \notin Handling
BY DEF Handling, Pcs

\* A jump within a handler, or out of it.
LEMMA DispatchMove ==
  ASSUME DispatchInv, NEW t \in Clients, NEW p, Goto(t, p), p \notin Checking,
         p \in Handling => pc[t] \in Handling,
         UNCHANGED hdrBytes, g_stTestHdr'.hlen \in {0, HdrLen}
  PROVE  KeepsDispatch(t)
BY OtherThreads, GotoThere DEF DispatchInv, KeepsDispatch

\* A step that leaves the thread where it is.
LEMMA DispatchStay ==
  ASSUME DispatchInv, NEW t \in Clients, UNCHANGED pc,
         UNCHANGED hdrBytes, g_stTestHdr'.hlen \in {0, HdrLen}
  PROVE  KeepsDispatch(t)
BY DEF DispatchInv, KeepsDispatch

\* The steps the handlers share.
LEMMA DispatchShared ==
  ASSUME DispatchInv, NEW t \in Clients, NEW from \in Handling, NEW p, p \notin Checking
  PROVE  /\ Opens(t, from, p) => KeepsDispatch(t)
         /\ \A mayFail : OpenFails(t, from, mayFail) => KeepsDispatch(t)
         /\ CloseFile(t, from, p) => KeepsDispatch(t)
         /\ \A cell, q : Send(t, from, cell, p, q) /\ q \notin Checking => KeepsDispatch(t)
<1>1. g_stTestHdr.hlen \in {0, HdrLen} /\ "endclose" \notin Handling \cup Checking
  BY HandlingPcs DEF DispatchInv, Checking
<1>2. Opens(t, from, p) => KeepsDispatch(t)
  BY <1>1, DispatchMove DEF Opens
<1>3. \A mayFail : OpenFails(t, from, mayFail) => KeepsDispatch(t)
  BY <1>1, DispatchMove DEF OpenFails, Private
<1>4. CloseFile(t, from, p) => KeepsDispatch(t)
  BY <1>1, DispatchMove DEF CloseFile, CloseFd
<1>5. ASSUME NEW cell, NEW q, Send(t, from, cell, p, q), q \notin Checking
      PROVE  KeepsDispatch(t)
  <2>1. Goto(t, p) \/ Goto(t, q) \/ UNCHANGED pc
    BY <1>5 DEF Send
  <2>2. pc[t] = from /\ UNCHANGED <<hdrBytes, g_stTestHdr>>
    BY <1>5 DEF Send
  <2> QED
    BY <1>1, <1>5, <2>1, <2>2, DispatchMove, DispatchStay
<1> QED
  BY <1>2, <1>3, <1>4, <1>5

\* Receiving and checking a header: this is where the count matters.
LEMMA DispatchRecvHeader ==
  ASSUME DispatchInv, NEW t \in Clients, RecvHeader(t), NoTorn'
  PROVE  KeepsDispatch(t)
<1>0. /\ TypeOK /\ g_stTestHdr.hlen \in {0, HdrLen} /\ g_stTestHdr \in Header
      /\ hdrBytes \in [Clients -> {0, PeerDown, HdrLen}]
  BY DEF DispatchInv, TypeOK
<1>1. CASE Top(t)
  BY <1>1, HandlingPcs, DispatchMove DEF Top, Checking, ZeroHdr
<1>2. CASE Call(t, "hcall", "recv")
  BY <1>0, <1>2, HandlingPcs, DispatchMove DEF Call, Checking
<1>3. CASE RecvHdr(t)
  <2> DEFINE h == HdrSeen(Head(inq[loc[t].sock.who]))
  <2>1. h.hlen \in {0, HdrLen}
    BY DEF HdrSeen, HdrOf, ForeignHdr, ZeroHdr
  <2>2. [h EXCEPT !.cmd = g_stTestHdr.cmd].hlen = h.hlen
    BY DEF HdrSeen, HdrOf, ForeignHdr, ZeroHdr
  <2>3. g_stTestHdr'.hlen \in {0, HdrLen}
    BY <1>3, <2>1, <2>2 DEF RecvHdr
  <2>4. /\ hdrBytes'[t] = HdrLen /\ pc'[t] = "copy"
        /\ \A u \in Clients \ {t} : pc'[u] = pc[u] /\ hdrBytes'[u] = hdrBytes[u]
    BY <1>0, <1>3, OtherThreads, GotoThere DEF RecvHdr
  <2> QED
    BY <2>3, <2>4 DEF KeepsDispatch
<1>4. CASE CopyCmd(t)
  <2>1. g_stTestHdr'.hlen = g_stTestHdr.hlen
    BY <1>0, <1>4 DEF CopyCmd, Header
  <2>2. pc[t] \in Checking /\ pc'[t] = "ver" /\ UNCHANGED hdrBytes
    BY <1>0, <1>4, GotoThere DEF CopyCmd, Checking
  <2>3. \A u \in Clients \ {t} : pc'[u] = pc[u]
    BY <1>0, <1>4, OtherThreads DEF CopyCmd
  <2>4. "ver" \notin Handling
    BY HandlingPcs
  <2>5. hdrBytes[t] \in {PeerDown, HdrLen}
    BY <2>2 DEF DispatchInv
  <2> QED
    BY <1>0, <2>1, <2>2, <2>3, <2>4, <2>5 DEF KeepsDispatch
<1>5. CASE HdrDown(t)
  <2>1. pc'[t] = "ver" /\ UNCHANGED g_stTestHdr /\ Goto(t, "ver")
    BY <1>0, <1>5, GotoThere DEF HdrDown, CloseFd
  <2>2. /\ hdrBytes'[t] = PeerDown
        /\ \A u \in Clients \ {t} : pc'[u] = pc[u] /\ hdrBytes'[u] = hdrBytes[u]
    BY <1>0, <1>5, <2>1, OtherThreads DEF HdrDown
  <2>3. "ver" \notin Handling
    BY HandlingPcs
  <2> QED
    BY <1>0, <2>1, <2>2, <2>3 DEF KeepsDispatch
<1>6. CASE CheckVersion(t)
  <2>1. pc[t] = "ver" /\ UNCHANGED <<g_stTestHdr, hdrBytes>>
    BY <1>6 DEF CheckVersion, Private
  <2>2. CASE Goto(t, "len")
    <3>1. pc'[t] = "len" /\ "len" \notin Handling
      BY <1>0, <2>2, GotoThere, HandlingPcs
    <3>2. hdrBytes[t] \in {PeerDown, HdrLen}
      BY <2>1 DEF DispatchInv, Checking
    <3>3. \A u \in Clients \ {t} : pc'[u] = pc[u]
      BY <1>0, <2>2, OtherThreads
    <3> QED
      BY <1>0, <2>1, <3>1, <3>2, <3>3 DEF KeepsDispatch
  <2>3. CASE Goto(t, "done")
    BY <1>0, <2>1, <2>3, HandlingPcs, DispatchMove DEF Checking
  <2> QED
    BY <1>6, <2>2, <2>3 DEF CheckVersion
<1>7. CASE CheckLen(t)
  <2>1. pc[t] = "len" /\ UNCHANGED <<g_stTestHdr, hdrBytes>>
    BY <1>7 DEF CheckLen, Private
  <2>2. CASE hdrBytes[t] = g_stTestHdr.hlen /\ Goto(t, "cmd")
    <3>1. hdrBytes[t] \in {PeerDown, HdrLen}
      BY <2>1 DEF DispatchInv, Checking
    <3>2. hdrBytes[t] = HdrLen
      BY <1>0, <2>2, <3>1 DEF PeerDown, HdrLen
    <3>3. pc'[t] = "cmd" /\ "cmd" \notin Checking
      BY <1>0, <2>2, GotoThere DEF Checking
    <3>4. \A u \in Clients \ {t} : pc'[u] = pc[u]
      BY <1>0, <2>2, OtherThreads
    <3> QED
      BY <1>0, <2>1, <3>2, <3>3, <3>4 DEF KeepsDispatch
  <2>3. CASE Goto(t, "done")
    BY <1>0, <2>1, <2>3, HandlingPcs, DispatchMove DEF Checking
  <2> QED
    BY <1>7, <2>2, <2>3 DEF CheckLen
<1>8. CASE TestCmd(t)
  <2>1. pc[t] = "cmd" /\ UNCHANGED <<g_stTestHdr, hdrBytes>>
    BY <1>8 DEF TestCmd, Private
  <2>2. Goto(t, "endclose") \/ Goto(t, "mod") \/ Goto(t, "top") \/ UNCHANGED pc
    BY <1>8 DEF TestCmd
  <2> QED
    BY <1>0, <2>1, <2>2, HandlingPcs, DispatchMove, DispatchStay DEF Checking
<1>9. CASE RecvPiece(t)
  <2>1. loc'[t].torn
    BY <1>0, <1>9, PieceTears
  <2> QED
    BY <2>1 DEF NoTorn
<1> QED
  BY <1>1, <1>2, <1>3, <1>4, <1>5, <1>6, <1>7, <1>8, <1>9 DEF RecvHeader

\* Receiving and decoding a payload stays within the handler or leaves it.
LEMMA DispatchRecvRequest ==
  ASSUME DispatchInv, NEW t \in Clients, RecvRequest(t)
  PROVE  KeepsDispatch(t)
<1>1. pc[t] \in Handling /\ UNCHANGED <<g_stTestHdr, hdrBytes>>
  BY HandlingPcs DEF RecvRequest, TestModule, SizeBuf, ReadNeed, Call, RecvData,
     DataDown, CloseFd, CheckData, Decode, Private
<1>2. \/ UNCHANGED pc
      \/ \E p \in {"need", "size", "top", "check", "dcall", "data", "decode", "set", "get",
                   "list", "lend", "endclose"} : Goto(t, p)
  <2>1. CASE TestModule(t)
    BY <2>1 DEF TestModule
  <2>2. CASE SizeBuf(t) \/ ReadNeed(t)
    BY <2>2 DEF SizeBuf, ReadNeed
  <2>3. CASE Call(t, "dcall", "data")
    BY <2>3 DEF Call
  <2>4. CASE RecvData(t)
    BY <2>4 DEF RecvData
  <2>5. CASE DataDown(t) \/ CheckData(t)
    BY <2>5 DEF DataDown, CloseFd, CheckData
  <2>6. CASE Decode(t)
    BY <2>6 DEF Decode, HandlerPc
  <2> QED
    BY <2>1, <2>2, <2>3, <2>4, <2>5, <2>6 DEF RecvRequest
<1>3. g_stTestHdr'.hlen \in {0, HdrLen}
  BY <1>1 DEF DispatchInv
<1> QED
  BY <1>1, <1>2, <1>3, DispatchMove, DispatchStay DEF Checking

\* The end of a recv() that was for the payload is in the handler, too.
LEMMA DispatchEnds ==
  ASSUME DispatchInv, NEW t \in Clients, RecvEnds(t) \/ ErrClose(t) \/ EndClose(t)
  PROVE  KeepsDispatch(t)
<1>0. g_stTestHdr.hlen \in {0, HdrLen}
  BY DEF DispatchInv
<1>1. CASE RecvEnds(t)
  <2>1. \/ Goto(t, "hdrdown") \/ Goto(t, "errclose")
        \/ pc[t] = "data" /\ Goto(t, "datadown")
    BY <1>1 DEF RecvEnds
  <2>2. UNCHANGED <<g_stTestHdr, hdrBytes>>
    BY <1>1 DEF RecvEnds
  <2> QED
    BY <1>0, <2>1, <2>2, HandlingPcs, DispatchMove DEF Checking
<1>2. CASE ErrClose(t) \/ EndClose(t)
  <2>1. Goto(t, "endclose") \/ Goto(t, "done")
    BY <1>2 DEF ErrClose, EndClose, CloseFd
  <2>2. UNCHANGED <<g_stTestHdr, hdrBytes>>
    BY <1>2 DEF ErrClose, EndClose, CloseFd
  <2> QED
    BY <1>0, <2>1, <2>2, HandlingPcs, DispatchMove DEF Checking
<1> QED
  BY <1>1, <1>2

\* The three handlers keep the thread's count, and the header's length is
\* written only as 0 or 20.
LEMMA DispatchHandlers ==
  ASSUME DispatchInv, NEW t \in Clients, ListFile(t) \/ GetFile(t) \/ SetFile(t)
  PROVE  KeepsDispatch(t)
<1>0. /\ TypeOK /\ g_stTestHdr \in Header /\ g_stTestHdr.hlen \in {0, HdrLen}
      /\ {"names", "lclose", "lend", "top", "gread", "ghdr", "glen", "gsend", "gbody",
          "gclose", "write", "sclose", "endclose", "spin"} \cap Checking = {}
  BY DEF DispatchInv, TypeOK, Checking
<1>1. CASE ListFile(t)
  <2>1. CASE OpenDir(t) \/ SendName(t) \/ CloseDir(t) \/ SendEnd(t)
    BY <1>0, <2>1, HandlingPcs, DispatchShared DEF OpenDir, SendName, CloseDir, SendEnd
  <2>2. CASE NoName(t)
    <3>1. /\ pc[t] = "names" /\ UNCHANGED <<g_stTestHdr, hdrBytes>>
          /\ Goto(t, "lclose") \/ Goto(t, "endclose")
      BY <2>2 DEF NoName, Private
    <3> QED
      BY <1>0, <3>1, HandlingPcs, DispatchMove
  <2> QED
    BY <1>1, <2>1, <2>2 DEF ListFile
<1>2. CASE GetFile(t)
  <2>1. CASE OpenFile(t) \/ SendReplyHdr(t) \/ SendBody(t)
    BY <1>0, <2>1, HandlingPcs, DispatchShared DEF OpenFile, SendReplyHdr, SendBody
  <2>2. CASE ReadFile(t)
    <3>1. /\ pc[t] = "gread" /\ UNCHANGED <<g_stTestHdr, hdrBytes>>
          /\ Goto(t, "ghdr") \/ Goto(t, "endclose") \/ Goto(t, "spin")
      BY <2>2 DEF ReadFile
    <3> QED
      BY <1>0, <3>1, HandlingPcs, DispatchMove
  <2>3. CASE StartReplyHdr(t)
    <3>1. [g_stTestHdr EXCEPT !.ver = VersionOne].hlen = g_stTestHdr.hlen
      BY <1>0 DEF Header
    <3>2. g_stTestHdr'.hlen \in {0, HdrLen}
      BY <1>0, <2>3, <3>1 DEF StartReplyHdr, ZeroHdr
    <3> QED
      BY <1>0, <2>3, <3>2, HandlingPcs, DispatchMove DEF StartReplyHdr
  <2>4. CASE FillReplyHdr(t)
    <3>1. g_stTestHdr'.hlen \in {g_stTestHdr.hlen, HdrLen}
      BY <1>0, <2>4 DEF FillReplyHdr, Header
    <3>2. g_stTestHdr'.hlen \in {0, HdrLen}
      BY <1>0, <3>1
    <3> QED
      BY <1>0, <2>4, <3>2, HandlingPcs, DispatchMove DEF FillReplyHdr
  <2>5. CASE CloseGot(t)
    <3>1. CASE CloseFile(t, "gclose", "top")
      BY <1>0, <3>1, HandlingPcs, DispatchShared
    <3>2. CASE Goto(t, "top") /\ Private
      BY <1>0, <3>2, HandlingPcs, DispatchMove DEF Private
    <3> QED
      BY <2>5, <3>1, <3>2 DEF CloseGot
  <2> QED
    BY <1>2, <2>1, <2>2, <2>3, <2>4, <2>5 DEF GetFile
<1>3. CASE SetFile(t)
  <2>1. CASE CreateFile(t)
    <3>1. CASE Goto(t, "top") /\ Private
      BY <1>0, <3>1, HandlingPcs, DispatchMove DEF Private
    <3> QED
      BY <1>0, <2>1, <3>1, HandlingPcs, DispatchShared DEF CreateFile
  <2>2. CASE WriteFile(t)
    <3>1. /\ pc[t] = "write" /\ UNCHANGED <<g_stTestHdr, hdrBytes>>
          /\ Goto(t, "sclose") \/ Goto(t, "endclose") \/ UNCHANGED pc
      BY <2>2 DEF WriteFile
    <3> QED
      BY <1>0, <3>1, HandlingPcs, DispatchMove, DispatchStay
  <2>3. CASE CloseWritten(t)
    BY <1>0, <2>3, HandlingPcs, DispatchShared DEF CloseWritten
  <2> QED
    BY <1>3, <2>1, <2>2, <2>3 DEF SetFile
<1> QED
  BY <1>1, <1>2, <1>3

\* DispatchInv is preserved, as long as no header came in pieces.
LEMMA DispatchStep == DispatchInv /\ [Next]_vars /\ NoTorn' => DispatchInv'
<1> SUFFICES ASSUME DispatchInv, [Next]_vars, NoTorn' PROVE DispatchInv'
  OBVIOUS
<1>1. TypeOK' /\ TypeOK
  BY TypeNext DEF DispatchInv
<1>2. CASE \E t \in Clients : Thread(t)
  <2>1. PICK t \in Clients : KeepsDispatch(t)
    BY <1>2, DispatchRecvHeader, DispatchRecvRequest, DispatchEnds, DispatchHandlers
       DEF Thread
  <2>2. ASSUME NEW u \in Clients
        PROVE  /\ pc'[u] \in Checking => hdrBytes'[u] \in {PeerDown, HdrLen}
               /\ pc'[u] \in Handling => hdrBytes'[u] = HdrLen
    BY <2>1 DEF KeepsDispatch, DispatchInv
  <2> QED
    BY <1>1, <2>1, <2>2 DEF KeepsDispatch, DispatchInv
<1>3. CASE UNCHANGED <<g_stTestHdr, hdrBytes, pc>>
  BY <1>1, <1>3 DEF DispatchInv
<1>4. CASE Spawn
  <2>1. UNCHANGED <<g_stTestHdr, hdrBytes>>
    BY <1>4 DEF Spawn
  <2>2. \A u \in Clients : pc'[u] \in {pc[u], "top"}
    BY <1>1, <1>4 DEF Spawn, TypeOK
  <2>3. "top" \notin Handling \cup Checking
    BY HandlingPcs DEF Checking
  <2> QED
    BY <1>1, <2>1, <2>2, <2>3 DEF DispatchInv
<1>5. CASE Server_dealClientReq
  BY <1>3, <1>4, <1>5 DEF Server_dealClientReq, EnterAccept, Accept, SpawnFails, threadVars
<1>6. CASE \E c \in Clients : Client(c)
  BY <1>3, <1>6 DEF Client, Connect, SendHdr, SendPayload, TakeReply, NoticeDown, Depart,
     threadVars
<1> QED
  BY <1>2, <1>3, <1>5, <1>6 DEF Next, vars, threadVars

\* A thread whose peer was down when it received the header never dispatches
\* what another thread left in g_stTestHdr, until a header comes in pieces.
THEOREM DispatchSafe == Spec => []NoDispatchAfterShutdown
<1> DEFINE WholeInv == TypeOK /\ (NoTorn => DispatchInv)
<1>1. Init => WholeInv
  <2> SUFFICES ASSUME Init PROVE WholeInv
    OBVIOUS
  <2>1. TypeOK /\ g_stTestHdr.hlen = 0
    BY TypeInit DEF Init, ZeroHdr
  <2>2. \A t \in Clients : pc[t] = "none"
    BY DEF Init
  <2> QED
    BY <2>1, <2>2, HandlingPcs DEF DispatchInv, Checking
<1>2. WholeInv /\ [Next]_vars => WholeInv'
  <2> SUFFICES ASSUME WholeInv, [Next]_vars PROVE WholeInv'
    OBVIOUS
  <2>1. TypeOK' /\ KeepsTorn
    BY TypeNext, TornStays
  <2>2. NoTorn' => NoTorn
    BY <2>1 DEF NoTorn, KeepsTorn
  <2> QED
    BY <2>1, <2>2, DispatchStep
<1>3. WholeInv => NoDispatchAfterShutdown
  BY DEF DispatchInv, NoTorn, NoDispatchAfterShutdown
<1> HIDE DEF WholeInv
<1> QED
  BY <1>1, <1>2, <1>3, PTL DEF Spec

=============================================================================
