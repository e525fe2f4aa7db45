--------------------------- MODULE FileClientProofs ---------------------------
(***************************************************************************)
(* Proofs about FileClient, for any files, names, sizes, input lines and   *)
(* failures: types, that client and server stay in step, what a file is    *)
(* after any number of transfers, what stays open, what a crash or a       *)
(* listing that came through says, that a menu does what was typed, and    *)
(* that the client implements the exchange of files (FileExchange).        *)
(*                                                                         *)
(* All of them rest on what is on the way in both directions (Pairs,       *)
(* Waiting, ToClient, Serving): the client may be any number of uploads    *)
(* ahead of the server, but asks one question at a time, as its last       *)
(* message, and an answer is only for the question it waits with.          *)
(***************************************************************************)
EXTENDS FileClient, SequenceTheorems, WellFoundedInduction, TLAPS

Alive == srv.pc # "gone"
\* the message behind a header that was taken is still to come
Behind == srv.pc \in {"data", "left", "wrong"}
\* the client is at its end, or takes no message for what it is
Lost == Ended \/ cut = "astray"
Question == step \in {"recvHdr", "recvBody", "recvName"}
Present == {n \in Names : store[n] # Absent}

\* Where the client is, and what that says of its connection.
Control ==
    /\ step # "start" => curState = "dataDeal"
    /\ curState = "tcpInit" => sock = "none"
    /\ sock = "none" <=> peer = "none"
    /\ peer = "none" => srv.pc = "idle" /\ toServer = <<>> /\ curState \in {"tcpInit", "outside"}
    /\ ~Alive <=> peer \in {"fin", "rst"}
    /\ sock = "closed" => ~Alive /\ toClient = <<>>
    /\ step = "name" => cmd \in {"SET", "GET"}
    /\ step = "sendData" => cmd # "EXIT" /\ g_stTestHdr.dlen = PackedLen(job.file)
    /\ step \in {"recvHdr", "recvBody", "save"} => cmd = "GET"
    /\ step = "recvName" => cmd = "LIST"
    /\ srv.pc \in {"left", "wrong"} => cut # "none"

\* Of a request that sent no file yet, the file it has open is not counted.
OpenInv ==
    ~Ended => openFiles = jsonSets +
        IF step \in {"sendHdr", "sendData"} /\ cmd = "SET" /\ mod # "PROTO" THEN 1 ELSE 0

\* To the server go headers, each with its message behind it.
Pair(h, id, msg) ==
    /\ msg.kind = "data" /\ msg.id = id /\ h.dlen = PackedLen(msg.file)
    /\ h.cmd = "SET" => Sound(msg.name, msg.file)
Pairs ==
    Alive =>
    /\ srv.pc = "data" /\ toServer # <<>> => Pair(srv.hdr, srv.id, toServer[1])
    /\ Behind /\ toServer # <<>> => toServer[1].kind = "data"
    /\ ~Behind /\ toServer # <<>> => toServer[1].kind = "hdr"
    /\ \A i \in 1 .. Len(toServer) - 1 :
         IF toServer[i].kind = "hdr"
         THEN Pair(toServer[i].hdr, toServer[i].id, toServer[i + 1])
         ELSE toServer[i + 1].kind = "hdr"

\* The last header is without its message only between the client's two sends.
Half == IF toServer = <<>> THEN Behind ELSE toServer[Len(toServer)].kind = "hdr"
LastHdr == IF toServer = <<>> THEN srv.hdr ELSE toServer[Len(toServer)].hdr
LastId == IF toServer = <<>> THEN srv.id ELSE toServer[Len(toServer)].id
Halves ==
    Alive => /\ Half => step = "sendData" \/ curState = "max"
             /\ step = "sendData" => Half
             /\ step = "sendData" /\ (toServer # <<>> \/ srv.pc = "data") =>
                  LastHdr = g_stTestHdr /\ LastId = round

\* What is asked is asked last, and the client waits for the answer.
Asks(h) == h.cmd \in {"GET", "LIST"}
Waits(h, id, n) ==
    /\ id = round
    /\ h.cmd = "GET" => step = "recvHdr" /\ n = job.name /\ h.mod = mod
    /\ h.cmd = "LIST" => step = "recvName"
Waiting ==
    Alive /\ ~Lost =>
    /\ srv.pc = "data" /\ toServer # <<>> /\ Asks(srv.hdr) =>
         Len(toServer) = 1 /\ Waits(srv.hdr, srv.id, toServer[1].name)
    /\ \A i \in 1 .. Len(toServer) - 1 :
         toServer[i].kind = "hdr" /\ Asks(toServer[i].hdr) =>
            i + 1 = Len(toServer) /\ Waits(toServer[i].hdr, toServer[i].id, toServer[i + 1].name)

\* What may have arrived, for each recv().
Named(n) == n = job.name \/ (cut # "none" /\ mod # "JSON")
Body(msg, n) == /\ msg.kind = "data" /\ msg.id = round /\ n = PackedLen(msg.file)
                /\ Named(msg.name) /\ Sound(msg.name, msg.file)
ToClient ==
    ~Lost =>
    /\ step = "recvHdr" => \/ toClient = <<>>
                           \/ /\ toClient[1].kind = "hdr" /\ toClient[1].id = round
                              /\ \/ Len(toClient) = 1
                                 \/ Len(toClient) = 2 /\ Body(toClient[2], toClient[1].hdr.dlen)
    /\ step = "recvBody" => \/ toClient = <<>>
                            \/ Len(toClient) = 1 /\ Body(toClient[1], job.len)
    /\ step = "recvName" => \A i \in 1..Len(toClient) :
                              /\ toClient[i].kind = "name" /\ toClient[i].id = round
                              /\ toClient[i].path = "end" => i = Len(toClient)
    /\ ~Question => toClient = <<>>

\* What the server is about to send is for the question in hand.
BodyLen == PackedLen(Carried(srv.hdr.mod, store[srv.name]))
Serving ==
    ~Lost /\ Alive =>
    /\ Behind \/ toServer # <<>> => toClient = <<>>
    /\ srv.pc = "body" =>
         /\ toServer = <<>> /\ srv.id = round /\ Named(srv.name)
         /\ \/ step = "recvHdr" /\ Len(toClient) = 1 /\ toClient[1].hdr.dlen = BodyLen
            \/ step = "recvBody" /\ toClient = <<>> /\ job.len = BodyLen
    /\ srv.pc = "list" =>
         /\ toServer = <<>> /\ srv.id = round /\ step = "recvName"
         /\ \A i \in 1..Len(toClient) : toClient[i].path # "end"

Queues == Pairs /\ Halves /\ Waiting /\ ToClient /\ Serving

\* Files in the client's hands are sound, and there is one to be sent.
InHand ==
    /\ step \in {"sendHdr", "sendData"} /\ cmd = "SET" => Sound(job.name, job.file)
    /\ step = "save" => Sound(job.name, job.file)
    /\ srv.pc = "body" => store[srv.name] # Absent

\* The records shown, on their way and to be sent are the server's files.
InTransit == {toClient[i].name : i \in {j \in 1..Len(toClient) : toClient[j].path # "end"}}
Listed ==
    /\ step \in {"name", "sendHdr", "sendData"} => shown = {}
    /\ step = "recvName" =>
       /\ Alive /\ (srv.pc = "data" \/ toServer # <<>>) => shown = {}
       /\ srv.pc = "list" => shown \cup InTransit \cup srv.left = Present
       /\ toClient # <<>> /\ toClient[Len(toClient)].path = "end"
            => shown \cup InTransit = Present

IInv == /\ TypeOK /\ Control /\ OpenInv /\ CrashHasCause
        /\ InHand /\ WhatSurvives /\ Queues
        /\ cut = "none" => Listed

\* The steps that take every message in one piece, and those that do not.
NextWhole == Menus \/ GoesWhole \/ ServesWhole \/ Failures
NextCut == GoesCut \/ ServesCut
\* A step may be the first that takes a message in pieces.
Cutting == cut' = cut \/ (cut = "none" /\ cut' = "piece")

-----------------------------------------------------------------------------
(* Records and queues.                                                     *)

\* The values the definitions stand for have their types.
LEMMA ValueTypes ==
  /\ ZeroHdr \in Header /\ Part \in File /\ NoFile \in File
  /\ NoJob \in [name : Names, file : File, len : Nat]
<1>1. PICK c \in Contents : c = CHOOSE d \in Contents : TRUE
  BY ClientAssumption
<1>2. PICK n \in Names : n = CHOOSE m \in Names : TRUE
  BY ClientAssumption
<1>3. ZeroHdr \in Header
  BY DEF ZeroHdr, Header, Mods, Cmds
<1>4. Part \in File /\ NoFile \in File
  BY <1>1 DEF Part, NoFile, File
<1> QED
  BY <1>2, <1>3, <1>4 DEF NoJob

\* A file goes through a codec as a file.
LEMMA CarriedTypes ==
  ASSUME NEW m \in Mods, NEW f \in File
  PROVE  /\ Carried(m, f) \in File /\ PackedLen(f) \in Nat
         /\ f # Absent /\ Carried(m, f) # Absent
<1>1. Original[f.of].text \in Nat
  BY ClientAssumption DEF File
<1>2. CarriedByProto(f) \in File /\ CarriedByJson(f) \in File
  BY <1>1, ClientAssumption DEF File, CarriedByProto, CarriedByJson, Kept
<1>3. Carried(m, f) \in File
  BY <1>2 DEF Carried, File
<1> QED
  BY <1>3, ClientAssumption DEF PackedLen, File

\* No codec makes an unsound file of a sound one.
LEMMA CarriedSound ==
  ASSUME NEW m \in Mods, NEW f \in File, NEW n \in Names, Sound(n, f)
  PROVE  Sound(n, Carried(m, f))
<1> DEFINE g == Carried(m, f)
<1>1. g \in File /\ g # Absent /\ f # Absent
  BY CarriedTypes
<1>2. g.via = f.via \cup {m} /\ g.of = f.of
  BY DEF Carried, CarriedByProto, CarriedByJson, File
<1>3. CASE "part" \in f.via
  BY <1>2, <1>3 DEF Sound
<1>4. CASE "part" \notin f.via /\ m = "PROTO"
  <2>1. Original[f.of].name = n
    BY <1>1, <1>4 DEF Sound
  <2> QED
    BY <1>2, <1>4, <2>1 DEF Sound
<1>5. CASE "part" \notin f.via /\ m = "TLV"
  <2>1. g.size = f.size /\ g.tail = f.tail
    BY <1>5 DEF Carried, File
  <2>2. /\ f.via \subseteq {"JSON", "TLV"} <=> g.via \subseteq {"JSON", "TLV"}
        /\ f.via \subseteq {"TLV"} <=> g.via \subseteq {"TLV"}
    BY <1>2, <1>5
  <2> QED
    BY <1>1, <1>2, <1>5, <2>1, <2>2 DEF Sound
<1>6. CASE "part" \notin f.via /\ m = "JSON"
  <2>1. g.size = f.size /\ g.tail = Kept(f, f.size)
    BY <1>6 DEF Carried, CarriedByJson, File
  <2>2. /\ f.via \subseteq {"JSON", "TLV"} <=> g.via \subseteq {"JSON", "TLV"}
        /\ ~(g.via \subseteq {"TLV"})
    BY <1>2, <1>6
  <2>3. /\ Original[f.of].name = n
        /\ f.via \subseteq {"JSON", "TLV"} => f.size = Original[f.of].size
        /\ f.via \subseteq {"JSON", "TLV"} /\ Original[f.of].text = Original[f.of].size
             => f.tail = "own"
    BY <1>1, <1>6 DEF Sound
  <2>4. Original[f.of].text \in Nat /\ f.size \in Nat
    BY ClientAssumption DEF File
  <2>5. f.size = Original[f.of].text => Kept(f, f.size) = f.tail
    BY <2>4 DEF Kept
  <2> QED
    BY <1>1, <1>2, <2>1, <2>2, <2>3, <2>5 DEF Sound
<1> QED
  BY <1>3, <1>4, <1>5, <1>6 DEF Mods

\* What every message of a kind has.
LEMMA MessageFields ==
  ASSUME NEW msg \in Message
  PROVE  /\ msg.id \in Nat
         /\ msg.kind = "hdr" => msg.hdr \in Header
         /\ msg.kind = "data" => msg.name \in Names /\ msg.file \in File
         /\ msg.kind = "name" => msg.name \in Names
BY DEF Message

LEMMA Messages ==
  ASSUME NEW i \in Nat
  PROVE  /\ \A h \in Header : /\ HdrMsg(h, i) \in Message /\ HdrMsg(h, i).kind = "hdr"
                              /\ HdrMsg(h, i).hdr = h /\ HdrMsg(h, i).id = i
         /\ \A n \in Names, f \in File :
              /\ DataMsg(n, f, i) \in Message /\ DataMsg(n, f, i).kind = "data"
              /\ DataMsg(n, f, i).name = n /\ DataMsg(n, f, i).file = f
              /\ DataMsg(n, f, i).id = i
         /\ \A n \in Names : /\ NameMsg(n, i) \in Message /\ NameMsg(n, i).kind = "name"
                             /\ NameMsg(n, i).path = "./" /\ NameMsg(n, i).name = n
                             /\ NameMsg(n, i).id = i
         /\ EndMsg(i) \in Message /\ EndMsg(i).kind = "name"
         /\ EndMsg(i).path = "end" /\ EndMsg(i).id = i
<1>1. (CHOOSE n \in Names : TRUE) \in Names
  BY ClientAssumption
<1> QED
  BY <1>1 DEF HdrMsg, DataMsg, NameMsg, EndMsg, Message

\* A header with a length in it is a header.
LEMMA HeaderTypes ==
  ASSUME NEW h \in Header, NEW n \in Nat
  PROVE  /\ Sized(h, n) \in Header /\ Sized(h, n).dlen = n
         /\ Sized(h, n).mod = h.mod /\ Sized(h, n).cmd = h.cmd
         /\ Answer(h, n) \in Header /\ Answer(h, n).dlen = n
         /\ h.mod \in Mods /\ h.cmd \in Cmds /\ h.dlen \in Nat
BY ValueTypes DEF Sized, Answer, Header, VersionOne, HdrLen, ZeroHdr, Mods, Cmds

\* Taking from a queue, and adding to it.
LEMMA Taken ==
  ASSUME NEW S, NEW q \in Seq(S), q # <<>>
  PROVE  /\ Head(q) = q[1] /\ q[1] \in S
         /\ Tail(q) \in Seq(S) /\ Len(Tail(q)) = Len(q) - 1
         /\ Len(q) \in Nat \ {0}
         /\ Tail(q) = <<>> <=> Len(q) = 1
         /\ \A i \in 1 .. Len(q) - 1 : Tail(q)[i] = q[i + 1] /\ q[i + 1] \in S
<1>1. /\ Head(q) = q[1] /\ q[1] \in S
      /\ Tail(q) \in Seq(S) /\ Len(Tail(q)) = Len(q) - 1
      /\ Len(q) \in Nat \ {0}
      /\ \A i \in 1 .. Len(q) - 1 : Tail(q)[i] = q[i + 1] /\ q[i + 1] \in S
  BY HeadTailProperties
<1>2. Tail(q) = <<>> <=> Len(Tail(q)) = 0
  BY <1>1, EmptySeq
<1> QED
  BY <1>1, <1>2

LEMMA Added ==
  ASSUME NEW S, NEW q \in Seq(S), NEW e \in S
  PROVE  /\ Append(q, e) \in Seq(S) /\ Append(q, e) # <<>>
         /\ Len(Append(q, e)) = Len(q) + 1 /\ Len(q) \in Nat
         /\ \A i \in 1..Len(q) : Append(q, e)[i] = q[i]
         /\ Append(q, e)[Len(q) + 1] = e
         /\ q = <<>> <=> Len(q) = 0
BY AppendProperties, EmptySeq, LenProperties


-----------------------------------------------------------------------------
(* Types.                                                                  *)

\* What a menu offers.
LEMMA MenuTypes ==
  /\ \A v \in DOMAIN ModuleMenu : ModuleMenu[v] \in Mods
  /\ \A v \in DOMAIN CmdMenu : CmdMenu[v] # "help" => CmdMenu[v] \in Cmds
BY DEF ModuleMenu, CmdMenu, Mods, Cmds

\* The parts of the state that are read most.
LEMMA Fields ==
  ASSUME TypeOK
  PROVE  /\ mod \in Mods /\ cmd \in Cmds /\ g_stTestHdr.dlen \in Nat
         /\ job.name \in Names /\ job.file \in File /\ job.len \in Nat
         /\ srv.hdr \in Header /\ srv.name \in Names /\ srv.left \subseteq Names /\ srv.id \in Nat
         /\ srv.hdr.mod \in Mods /\ srv.hdr.cmd \in Cmds /\ srv.hdr.dlen \in Nat
BY DEF TypeOK, Header, mod, cmd

\* A command and a length come into a header, and a header into the client.
LEMMA HeaderParts ==
  /\ \A m \in Mods : [ZeroHdr EXCEPT !.mod = m] \in Header
  /\ \A h \in Header, c \in Cmds : [h EXCEPT !.cmd = c] \in Header
BY ValueTypes DEF Header

\* The menus and the calls before a request is sent.
LEMMA MenuStepTypes ==
  ASSUME TypeOK, File_stateTcpInit \/ File_stateSelModule \/ File_stateSelCmd \/ File_stateDataDeal
  PROVE  TypeOK'
<1>1. CASE File_stateTcpInit
  BY <1>1 DEF TypeOK, File_stateTcpInit, Return, Fail, menu, own, server, history, Steps
<1>2. CASE File_stateSelModule
  <2>1. PICK line \in Lines \cup {Eof} :
          /\ Reads(line)
          /\ \/ \E v \in DOMAIN ModuleMenu : /\ g_stTestHdr' = [ZeroHdr EXCEPT !.mod = ModuleMenu[v]]
                                             /\ typed' = line
                                             /\ Return("cmd")
             \/ g_stTestHdr' = ZeroHdr /\ UNCHANGED <<curState, step, typed>>
    BY <1>2 DEF File_stateSelModule
  <2>2. g_stTestHdr' \in Header
    BY <2>1, MenuTypes, HeaderParts, ValueTypes
  <2>3. UNCHANGED <<own, conn, server, round, history>>
    BY <1>2 DEF File_stateSelModule
  <2>4. stdin' \in {"open", "eof"}
    BY <2>1 DEF Reads, TypeOK
  <2>5. typed' \in Lines \cup {Eof, <<>>} /\ curState' \in {curState, "cmd"} /\ step' \in {step, "start"}
    BY <2>1 DEF TypeOK, Return
  <2> QED
    BY <2>2, <2>3, <2>4, <2>5 DEF TypeOK, own, conn, server, history, Steps
<1>3. CASE File_stateSelCmd
  <2>1. PICK line \in Lines \cup {Eof} :
          /\ Reads(line)
          /\ \/ \E v \in DOMAIN CmdMenu : /\ CmdMenu[v] # "help"
                                          /\ g_stTestHdr' = [g_stTestHdr EXCEPT !.cmd = CmdMenu[v]]
                                          /\ typed' = line
                                          /\ Return("dataDeal")
             \/ UNCHANGED <<curState, step, g_stTestHdr, typed>>
    BY <1>3 DEF File_stateSelCmd
  <2>2. g_stTestHdr' \in Header
    BY <2>1, MenuTypes, HeaderParts DEF TypeOK
  <2>3. UNCHANGED <<own, conn, server, round, history>>
    BY <1>3 DEF File_stateSelCmd
  <2>4. stdin' \in {"open", "eof"}
    BY <2>1 DEF Reads, TypeOK
  <2>5. typed' \in Lines \cup {Eof, <<>>} /\ curState' \in {curState, "dataDeal"} /\ step' \in {step, "start"}
    BY <2>1 DEF TypeOK, Return
  <2> QED
    BY <2>2, <2>3, <2>4, <2>5 DEF TypeOK, own, conn, server, history, Steps
<1>4. CASE File_stateDataDeal
  BY <1>4, ValueTypes DEF TypeOK, File_stateDataDeal, conn, server, history, Steps
<1> QED
  BY <1>1, <1>2, <1>3, <1>4

LEMMA AskNameTypes ==
  ASSUME TypeOK, AskName \/ AskNameFails \/ NoMemory \/ SigPipe
  PROVE  TypeOK'
<1>1. CASE AskName
  <2>1. PICK n \in Names :
          /\ cmd = "SET" => disk[n] # Absent
          /\ job' = [name |-> n, len |-> 0,
                     file |-> IF cmd = "SET" THEN Carried(mod, disk[n]) ELSE NoFile]
          /\ \/ step' = "sendHdr" /\ UNCHANGED curState /\ openFiles' \in {openFiles, openFiles + 1}
             \/ Killed /\ UNCHANGED openFiles
    BY <1>1 DEF AskName
  <2>2. cmd = "SET" => disk[n] \in File
    BY <2>1 DEF TypeOK, Files
  <2>3. job' \in [name : Names, file : File, len : Nat]
    BY <2>1, <2>2, CarriedTypes, Fields, ValueTypes
  <2>4. UNCHANGED <<menu, shown, disk, conn, server, round, history>>
    BY <1>1 DEF AskName
  <2>5. openFiles' \in Nat /\ curState' \in {curState, "killed"} /\ step' \in {"sendHdr", "start"}
    BY <2>1 DEF TypeOK, Killed, Return
  <2> QED
    BY <2>3, <2>4, <2>5 DEF TypeOK, menu, conn, server, history, Steps
<1>2. CASE AskNameFails
  <2>1. job' \in [name : Names, file : File, len : Nat]
    BY <1>2, ValueTypes DEF AskNameFails, TypeOK
  <2>2. trouble' \in BOOLEAN /\ stdin' \in {"open", "eof"} /\ curState' = "outside" /\ step' = "start"
    BY <1>2 DEF AskNameFails, TypeOK, Fail, Return
  <2>3. UNCHANGED <<g_stTestHdr, typed, shown, openFiles, disk, conn, server, round, jsonSets, cut>>
    BY <1>2 DEF AskNameFails
  <2> QED
    BY <2>1, <2>2, <2>3 DEF TypeOK, conn, server, Steps
<1>3. CASE NoMemory
  BY <1>3 DEF TypeOK, NoMemory, menu, own, conn, server, Fail, Return, Steps
<1>4. CASE SigPipe
  BY <1>4 DEF TypeOK, SigPipe, menu, own, conn, server, history, Killed, Return, Steps
<1> QED
  BY <1>1, <1>2, <1>3, <1>4

\* What a send() does to the connection.
LEMMA SendTypes ==
  ASSUME TypeOK, NEW msg \in Message, NEW told, Sends(msg, told)
  PROVE  toServer' \in Seq(Message) /\ peer' \in {"none", "up", "fin", "rst"}
<1>1. toServer \in Seq(Message) /\ peer \in {"none", "up", "fin", "rst"}
  BY DEF TypeOK
<1>2. Append(toServer, msg) \in Seq(Message)
  BY <1>1, Added
<1> QED
  BY <1>1, <1>2 DEF Sends

LEMMA SendStepTypes ==
  ASSUME TypeOK, OpenInv, Control, SendHdr \/ SendData
  PROVE  TypeOK'
<1>1. CASE SendHdr
  <2> DEFINE len == IF cmd = "EXIT" THEN 0 ELSE PackedLen(job.file)
             hdr == Sized(g_stTestHdr, len)
  <2>1. len \in Nat
    BY Fields, CarriedTypes
  <2> HIDE DEF len
  <2>2. hdr \in Header
    BY <2>1, HeaderTypes DEF TypeOK
  <2> HIDE DEF hdr
  <2>3. HdrMsg(hdr, round) \in Message
    BY <2>2, Messages DEF TypeOK
  <2>4. g_stTestHdr' = hdr /\ \E told \in {"ok", "error"} : Sends(HdrMsg(hdr, round), told)
    BY <1>1 DEF SendHdr, hdr, len
  <2>5. toServer' \in Seq(Message) /\ peer' \in {"none", "up", "fin", "rst"}
    BY <2>3, <2>4, SendTypes
  <2>6. curState' \in {curState, "max"} /\ step' \in {"start", "sendData"}
    BY <1>1 DEF SendHdr, Return
  <2>7. UNCHANGED <<stdin, typed, own, sock, toClient, server, round, history>>
    BY <1>1 DEF SendHdr
  <2> QED
    BY <2>2, <2>4, <2>5, <2>6, <2>7 DEF TypeOK, own, server, history, Steps
<1>2. CASE SendData
  <2>1. DataMsg(job.name, job.file, round) \in Message
    BY Fields, Messages DEF TypeOK
  <2>2. \E told \in {"ok", "error"} : Sends(DataMsg(job.name, job.file, round), told)
    BY <1>2 DEF SendData
  <2>3. toServer' \in Seq(Message) /\ peer' \in {"none", "up", "fin", "rst"}
    BY <2>1, <2>2, SendTypes
  <2>4. \/ cmd = "SET" /\ SetSent
        \/ step' \in {"recvHdr", "recvName"} /\ UNCHANGED <<curState, openFiles, jsonSets>>
        \/ Fail /\ UNCHANGED <<openFiles, jsonSets>>
    BY <1>2 DEF SendData
  <2>5. openFiles' \in Nat /\ jsonSets' \in Nat
    <3>1. openFiles \in Nat /\ jsonSets \in Nat
      BY DEF TypeOK
    <3>2. CASE cmd = "SET" /\ SetSent /\ mod = "TLV"
      <4>1. openFiles = jsonSets + 1
        BY <1>2, <3>2 DEF OpenInv, SendData, Control, Ended
      <4> QED
        BY <3>1, <3>2, <4>1 DEF SetSent
    <3> QED
      BY <2>4, <3>1, <3>2 DEF SetSent
  <2>6. curState' \in {curState, "module", "outside"} /\ step' \in {"start", "recvHdr", "recvName"}
    BY <2>4 DEF SetSent, Fail, Return
  <2>7. UNCHANGED <<menu, job, shown, disk, sock, toClient, server, round, trouble, cut>>
    BY <1>2 DEF SendData
  <2> QED
    BY <2>3, <2>5, <2>6, <2>7 DEF TypeOK, menu, server, Steps
<1> QED
  BY <1>1, <1>2

\* The answer to take is of the kind its recv() takes it for.
LEMMA Arrived ==
  ASSUME TypeOK, ToClient, ~Ended, Recv
  PROVE  /\ toClient[1] \in Message /\ Head(toClient) = toClient[1]
         /\ toClient' \in Seq(Message) /\ Len(toClient') = Len(toClient) - 1
         /\ Len(toClient) \in Nat \ {0}
         /\ toClient' = <<>> <=> Len(toClient) = 1
         /\ \A i \in 1 .. Len(toClient) - 1 : toClient'[i] = toClient[i + 1]
         /\ step = "recvHdr" => toClient[1].kind = "hdr" /\ toClient[1].id = round
         /\ step = "recvBody" => Len(toClient) = 1 /\ Body(toClient[1], job.len)
         /\ step = "recvName" => toClient[1].kind = "name" /\ toClient[1].id = round
<1>0. ~Lost
  BY DEF Lost, Recv
<1>1. toClient \in Seq(Message) /\ toClient # <<>> /\ toClient' = Tail(toClient)
  BY DEF TypeOK, Recv
<1>2. /\ Head(toClient) = toClient[1] /\ toClient[1] \in Message
      /\ Tail(toClient) \in Seq(Message) /\ Len(Tail(toClient)) = Len(toClient) - 1
      /\ Len(toClient) \in Nat \ {0}
      /\ \A i \in 1 .. Len(toClient) - 1 : Tail(toClient)[i] = toClient[i + 1]
  BY <1>1, Taken
<1>3. toClient' = <<>> <=> Len(toClient) = 1
  BY <1>1, Taken
<1>4. step = "recvName" => toClient[1].kind = "name" /\ toClient[1].id = round
  <2>1. step = "recvName" => \A i \in 1..Len(toClient) : toClient[i].kind = "name" /\ toClient[i].id = round
    BY <1>0 DEF ToClient
  <2>2. 1 \in 1..Len(toClient)
    BY <1>2
  <2> QED
    BY <2>1, <2>2
<1>5. step = "recvHdr" => toClient[1].kind = "hdr" /\ toClient[1].id = round
  BY <1>0, <1>1 DEF ToClient
<1>6. step = "recvBody" => Len(toClient) = 1 /\ Body(toClient[1], job.len)
  BY <1>0, <1>1 DEF ToClient
<1> QED
  BY <1>1, <1>2, <1>3, <1>4, <1>5, <1>6

LEMMA RecvStepTypes ==
  ASSUME TypeOK, Control, ToClient, RecvHdr \/ RecvBody \/ RecvName
  PROVE  TypeOK'
<1>0. ~Ended
  BY DEF Control, RecvHdr, RecvBody, RecvName, Ended
<1>1. CASE RecvHdr
  <2>1. step = "recvHdr" /\ Recv
    BY <1>1 DEF RecvHdr
  <2>2. toClient' \in Seq(Message) /\ Head(toClient).hdr \in Header
    BY <1>0, <2>1, Arrived, MessageFields
  <2>3. Head(toClient).hdr.dlen \in Nat
    BY <2>2, HeaderTypes
  <2>4. job' = [job EXCEPT !.len = Head(toClient).hdr.dlen]
    BY <1>1 DEF RecvHdr
  <2>5. job' \in [name : Names, file : File, len : Nat]
    BY <2>3, <2>4 DEF TypeOK
  <2>6. step' = "recvBody" /\ UNCHANGED <<curState, menu, shown, openFiles, disk, sock, peer, toServer,
                          server, round, history>>
    BY <1>1 DEF RecvHdr
  <2> QED
    BY <2>2, <2>5, <2>6 DEF TypeOK, menu, server, history, Steps
<1>2. CASE RecvBody
  <2>1. step = "recvBody" /\ Recv
    BY <1>2 DEF RecvBody
  <2>2. /\ toClient' \in Seq(Message) /\ Head(toClient) \in Message
        /\ Head(toClient).kind = "data"
    BY <1>0, <2>1, Arrived DEF Body
  <2>3. Head(toClient).name \in Names /\ Head(toClient).file \in File
    BY <2>2, MessageFields
  <2>4. job' = [job EXCEPT !.file = Head(toClient).file,
                           !.name = IF mod = "JSON" THEN @ ELSE Head(toClient).name]
    BY <1>2 DEF RecvBody
  <2>5. job' \in [name : Names, file : File, len : Nat]
    BY <2>3, <2>4 DEF TypeOK
  <2>6. /\ step' \in {"save", "start"} /\ curState' \in {curState, "killed"}
        /\ UNCHANGED <<menu, shown, openFiles, disk, sock, peer, toServer, server, round, history>>
    BY <1>2 DEF RecvBody, Killed, Return
  <2> QED
    BY <2>2, <2>5, <2>6 DEF TypeOK, menu, server, history, Steps
<1>3. CASE RecvName
  <2>1. step = "recvName" /\ Recv
    BY <1>3 DEF RecvName
  <2>2. toClient' \in Seq(Message) /\ Head(toClient) \in Message /\ Head(toClient).kind = "name"
    BY <1>0, <2>1, Arrived
  <2>3. Head(toClient).name \in Names
    BY <2>2, MessageFields
  <2>4. shown' \in SUBSET Names /\ curState' \in {curState, "module"} /\ step' \in {step, "start"}
    BY <1>3, <2>3 DEF RecvName, TypeOK, Return
  <2>5. UNCHANGED <<menu, job, openFiles, disk, sock, peer, toServer, server, round, history>>
    BY <1>3 DEF RecvName
  <2> QED
    BY <2>2, <2>4, <2>5 DEF TypeOK, menu, server, history, Steps
<1> QED
  BY <1>1, <1>2, <1>3

\* A file is written whole, or not.
LEMMA DiskTypes ==
  ASSUME TypeOK, NEW n \in Names, NEW f \in File \cup {Absent}
  PROVE  [disk EXCEPT ![n] = f] \in Files /\ [store EXCEPT ![n] = f] \in Files
BY DEF TypeOK, Files

LEMMA EndStepTypes ==
  ASSUME TypeOK, NoHdr \/ NoBody \/ RecvFails \/ Save \/ SaveFails \/ NameLost
  PROVE  TypeOK'
<1>1. CASE NoHdr
  <2>1. [disk EXCEPT ![job.name] = Part] \in Files /\ disk \in Files
    BY DiskTypes, Fields, ValueTypes DEF TypeOK
  <2>2. disk' \in Files
    BY <1>1, <2>1 DEF NoHdr
  <2> QED
    BY <1>1, <2>2 DEF TypeOK, NoHdr, PeerDown, menu, server, history, Fail, Killed, Return, Steps
<1>2. CASE NoBody
  <2>1. job' \in [name : Names, file : File, len : Nat]
    BY <1>2, ValueTypes DEF NoBody, TypeOK
  <2>2. curState' \in {curState, "outside", "killed"} /\ step' \in {"save", "start"} /\ sock' = "closed"
    BY <1>2 DEF NoBody, PeerDown, Fail, Killed, Return
  <2>3. UNCHANGED <<menu, shown, openFiles, disk, peer, toServer, toClient, server, round, history>>
    BY <1>2 DEF NoBody
  <2> QED
    BY <2>1, <2>2, <2>3 DEF TypeOK, menu, server, history, Steps
<1>3. CASE RecvFails
  BY <1>3 DEF TypeOK, RecvFails, RecvError, menu, own, server, history, Fail, Return, Steps
<1>4. CASE Save
  <2>1. disk' \in Files
    BY <1>4, DiskTypes, Fields DEF Save
  <2> QED
    BY <1>4, <2>1 DEF TypeOK, Save, menu, conn, server, history, Return, Steps
<1>5. CASE SaveFails
  <2>1. disk[job.name] \in File \cup {Absent}
    BY Fields DEF TypeOK, Files
  <2>2. disk' \in Files
    <3>1. disk \in Files /\ {disk[job.name], Absent, Part} \subseteq File \cup {Absent}
      BY <2>1, ValueTypes DEF TypeOK
    <3>2. \A f \in File \cup {Absent} : [disk EXCEPT ![job.name] = f] \in Files
      BY Fields, DiskTypes
    <3>3. \/ UNCHANGED disk
          \/ \E f \in {disk[job.name], Absent, Part} : disk' = [disk EXCEPT ![job.name] = f]
      BY <1>5 DEF SaveFails
    <3> QED
      BY <3>1, <3>2, <3>3
  <2>3. curState' \in {"module", "outside"} /\ step' = "start" /\ trouble' = TRUE
    BY <1>5 DEF SaveFails, Fail, Return
  <2>4. UNCHANGED <<menu, job, shown, openFiles, conn, server, round, jsonSets, cut>>
    BY <1>5 DEF SaveFails
  <2> QED
    BY <2>2, <2>3, <2>4 DEF TypeOK, menu, conn, server, Steps
<1>6. CASE NameLost
  BY <1>6 DEF TypeOK, NameLost, RecvError, PeerDown, menu, own, server, history, Fail, Return, Steps
<1> QED
  BY <1>1, <1>2, <1>3, <1>4, <1>5, <1>6

\* The server takes a header where there is one, and else a request.
LEMMA Served ==
  ASSUME TypeOK, Pairs, Alive, toServer # <<>>, toServer' = Tail(toServer)
  PROVE  /\ toServer[1] \in Message /\ Head(toServer) = toServer[1]
         /\ toServer' \in Seq(Message) /\ Len(toServer') = Len(toServer) - 1
         /\ Len(toServer) \in Nat \ {0}
         /\ toServer' = <<>> <=> Len(toServer) = 1
         /\ \A i \in 1 .. Len(toServer) - 1 : toServer'[i] = toServer[i + 1]
         /\ srv.pc = "data" => Pair(srv.hdr, srv.id, toServer[1])
         /\ Behind => toServer[1].kind = "data"
         /\ ~Behind => toServer[1].kind = "hdr"
<1>1. toServer \in Seq(Message)
  BY DEF TypeOK
<1>2. /\ Head(toServer) = toServer[1] /\ toServer[1] \in Message
      /\ Tail(toServer) \in Seq(Message) /\ Len(Tail(toServer)) = Len(toServer) - 1
      /\ Len(toServer) \in Nat \ {0}
      /\ \A i \in 1 .. Len(toServer) - 1 : Tail(toServer)[i] = toServer[i + 1]
  BY <1>1, Taken
<1>3. toServer' = <<>> <=> Len(toServer) = 1
  BY <1>1, Taken
<1>4. /\ srv.pc = "data" => Pair(srv.hdr, srv.id, toServer[1])
      /\ Behind => toServer[1].kind = "data"
      /\ ~Behind => toServer[1].kind = "hdr"
  BY DEF Pairs
<1> QED
  BY <1>2, <1>3, <1>4

\* What is left of the types when the server takes a step.
LEMMA ServerTypes ==
  ASSUME TypeOK, toServer' \in Seq(Message), toClient' \in Seq(Message), store' \in Files,
         peer' \in {"none", "up", "fin", "rst"},
         srv' \in [pc : {"idle", "data", "body", "list", "left", "wrong", "gone"}, hdr : Header, name : Names,
                   left : SUBSET Names, id : Nat],
         UNCHANGED <<curState, step, menu, own, sock, round, history>>
  PROVE  TypeOK'
BY DEF TypeOK, menu, own, history

LEMMA HangUpTypes ==
  ASSUME TypeOK, HangUp
  PROVE  /\ peer' \in {"none", "up", "fin", "rst"}
         /\ srv' \in [pc : {"idle", "data", "body", "list", "left", "wrong", "gone"}, hdr : Header, name : Names,
                      left : SUBSET Names, id : Nat]
BY DEF TypeOK, HangUp

LEMMA TakeTypes ==
  ASSUME TypeOK, Pairs, TakeHdr \/ ServeSet \/ ServerEnds
  PROVE  TypeOK'
<1> DEFINE SrvType == [pc : {"idle", "data", "body", "list", "left", "wrong", "gone"}, hdr : Header, name : Names,
                       left : SUBSET Names, id : Nat]
           msg == Head(toServer)
<1>0. /\ srv \in SrvType /\ peer \in {"none", "up", "fin", "rst"} /\ toServer \in Seq(Message)
      /\ toClient \in Seq(Message) /\ store \in Files
  BY DEF TypeOK
<1>1. CASE TakeHdr
  <2>1. /\ Alive /\ ~Behind /\ toServer # <<>> /\ toServer' = Tail(toServer)
        /\ UNCHANGED <<toClient, store>>
    BY <1>1 DEF TakeHdr, Alive, Behind
  <2>2. msg \in Message /\ msg.kind = "hdr" /\ toServer' \in Seq(Message)
    BY <2>1, Served
  <2>3. msg.hdr \in Header /\ msg.id \in Nat
    BY <2>2, MessageFields
  <2>4. CASE HangUp
    BY <1>0, <1>1, <2>1, <2>2, <2>4, HangUpTypes, ServerTypes DEF TakeHdr
  <2>5. CASE srv' = [srv EXCEPT !.pc = "data", !.hdr = msg.hdr, !.id = msg.id] /\ UNCHANGED peer
    <3>1. srv' \in SrvType
      BY <1>0, <2>3, <2>5
    <3> QED
      BY <1>0, <1>1, <2>1, <2>2, <2>5, <3>1, ServerTypes DEF TakeHdr
  <2> QED
    BY <1>1, <2>4, <2>5 DEF TakeHdr
<1>2. CASE ServeSet
  <2>1. /\ Alive /\ srv.pc = "data" /\ toServer # <<>> /\ toServer' = Tail(toServer)
        /\ UNCHANGED toClient
    BY <1>2 DEF ServeSet, Alive
  <2>2. msg \in Message /\ msg.kind = "data" /\ toServer' \in Seq(Message)
    BY <2>1, Served DEF Pair
  <2>3. msg.name \in Names /\ msg.file \in File
    BY <2>2, MessageFields
  <2>4. Spoilt(msg.name) \subseteq File \cup {Absent}
    BY <1>0, <2>3, ValueTypes DEF Spoilt, Files
  <2>5. /\ \/ srv' = [srv EXCEPT !.pc = "idle"] /\ UNCHANGED peer
           \/ HangUp
        /\ \/ UNCHANGED store
           \/ \E f \in File \cup {Absent} : store' = [store EXCEPT ![msg.name] = f]
    BY <1>2, <2>3, <2>4 DEF ServeSet
  <2>6. store' \in Files
    <3>1. \A f \in File \cup {Absent} : [store EXCEPT ![msg.name] = f] \in Files
      BY <2>3, DiskTypes
    <3> QED
      BY <1>0, <2>5, <3>1
  <2>7. srv' \in SrvType /\ peer' \in {"none", "up", "fin", "rst"}
    BY <1>0, <2>5, HangUpTypes
  <2> QED
    BY <1>0, <1>2, <2>1, <2>2, <2>6, <2>7, ServerTypes DEF ServeSet
<1>3. CASE ServerEnds
  BY <1>0, <1>3, HangUpTypes, ServerTypes DEF ServerEnds
<1> QED
  BY <1>1, <1>2, <1>3

LEMMA AnswerTypes ==
  ASSUME TypeOK, Pairs, InHand, ServeGet \/ SendBody \/ ServeList \/ SendName
  PROVE  TypeOK'
<1> DEFINE SrvType == [pc : {"idle", "data", "body", "list", "left", "wrong", "gone"}, hdr : Header, name : Names,
                       left : SUBSET Names, id : Nat]
           msg == Head(toServer)
<1>0. /\ srv \in SrvType /\ peer \in {"none", "up", "fin", "rst"} /\ toServer \in Seq(Message)
      /\ toClient \in Seq(Message) /\ store \in Files
  BY DEF TypeOK
<1>1. CASE ServeGet
  <2>1. Alive /\ srv.pc = "data" /\ toServer # <<>> /\ toServer' = Tail(toServer) /\ UNCHANGED store
    BY <1>1 DEF ServeGet, AnswersGet, Alive
  <2>2. msg \in Message /\ msg.kind = "data" /\ toServer' \in Seq(Message)
    BY <2>1, Served DEF Pair
  <2>3. msg.name \in Names
    BY <2>2, MessageFields
  <2>4. CASE HangUp /\ UNCHANGED toClient
    BY <1>0, <1>1, <2>1, <2>2, <2>4, HangUpTypes, ServerTypes DEF ServeGet, AnswersGet
  <2> DEFINE h == Answer(srv.hdr, PackedLen(Carried(srv.hdr.mod, store[msg.name])))
  <2>5. CASE /\ store[msg.name] # Absent /\ toClient' = Append(toClient, HdrMsg(h, srv.id))
             /\ srv' = [srv EXCEPT !.pc = "body", !.name = msg.name] /\ UNCHANGED peer
    <3>1. store[msg.name] \in File
      BY <1>0, <2>3, <2>5 DEF Files
    <3>2. PackedLen(Carried(srv.hdr.mod, store[msg.name])) \in Nat
      BY <3>1, Fields, CarriedTypes
    <3>3. h \in Header
      BY <3>2, Fields, HeaderTypes
    <3> HIDE DEF h
    <3>4. HdrMsg(h, srv.id) \in Message
      BY <3>3, Fields, Messages
    <3>5. toClient' \in Seq(Message)
      BY <1>0, <2>5, <3>4, Added
    <3>6. srv' \in SrvType
      BY <1>0, <2>3, <2>5
    <3> QED
      BY <1>0, <1>1, <2>1, <2>2, <2>5, <3>5, <3>6, ServerTypes DEF ServeGet, AnswersGet
  <2> QED
    BY <1>1, <2>4, <2>5 DEF ServeGet, AnswersGet
<1>2. CASE SendBody
  <2>1. store[srv.name] \in File
    BY <1>0, <1>2, Fields DEF SendBody, InHand, Files
  <2>2. Carried(srv.hdr.mod, store[srv.name]) \in File
    BY <2>1, Fields, CarriedTypes
  <2>3. DataMsg(srv.name, Carried(srv.hdr.mod, store[srv.name]), srv.id) \in Message
    BY <2>2, Fields, Messages
  <2>4. toClient' \in Seq(Message)
    BY <1>0, <1>2, <2>3, Added DEF SendBody
  <2>5. srv' \in SrvType
    BY <1>0, <1>2 DEF SendBody
  <2> QED
    BY <1>0, <1>2, <2>4, <2>5, ServerTypes DEF SendBody
<1>3. CASE ServeList
  <2>1. Alive /\ srv.pc = "data" /\ toServer # <<>> /\ toServer' = Tail(toServer)
    BY <1>3 DEF ServeList, Alive
  <2>2. toServer' \in Seq(Message)
    BY <2>1, Served
  <2>3. srv' \in SrvType
    BY <1>0, <1>3 DEF ServeList
  <2> QED
    BY <1>0, <1>3, <2>2, <2>3, ServerTypes DEF ServeList
<1>4. CASE SendName
  <2>1. \A n \in Names : NameMsg(n, srv.id) \in Message
    BY Fields, Messages
  <2>2. EndMsg(srv.id) \in Message
    BY Fields, Messages
  <2>3. \E m \in Message : toClient' = Append(toClient, m)
    BY <1>4, <2>1, <2>2, Fields DEF SendName
  <2>4. toClient' \in Seq(Message)
    BY <1>0, <2>3, Added
  <2>5. srv' \in SrvType
    BY <1>0, <1>4 DEF SendName
  <2> QED
    BY <1>0, <1>4, <2>4, <2>5, ServerTypes DEF SendName
<1> QED
  BY <1>1, <1>2, <1>3, <1>4

-----------------------------------------------------------------------------
(* Where the client is, what it has open, and why it crashed.               *)

\* What send() does to the ends of the connection.
LEMMA SendsOn ==
  ASSUME NEW msg, NEW told, Sends(msg, told)
  PROVE  /\ peer' = peer \/ (peer = "fin" /\ peer' = "rst")
         /\ peer # "up" => UNCHANGED toServer
         /\ told = "error" => sock # "open" \/ peer = "rst"
BY DEF Sends

\* A request's header is its menu's, and as long as its message.
LEMMA HdrSent ==
  ASSUME TypeOK, SendHdr
  PROVE  /\ cmd' = cmd /\ mod' = mod
         /\ cmd # "EXIT" => g_stTestHdr'.dlen = PackedLen(job.file)
         /\ step = "sendHdr" /\ curState' = IF cmd = "EXIT" THEN "max" ELSE curState
         /\ step' = IF cmd = "EXIT" THEN "start" ELSE "sendData"
         /\ UNCHANGED <<stdin, own, sock, toClient, server, round, history>>
<1>1. PackedLen(job.file) \in Nat /\ g_stTestHdr \in Header
  BY Fields, CarriedTypes DEF TypeOK
<1>2. \A n \in Nat : /\ Sized(g_stTestHdr, n).cmd = cmd /\ Sized(g_stTestHdr, n).mod = mod
                     /\ Sized(g_stTestHdr, n).dlen = n
  BY <1>1, HeaderTypes DEF cmd, mod
<1>3. /\ cmd' = cmd /\ mod' = mod
      /\ cmd # "EXIT" => g_stTestHdr'.dlen = PackedLen(job.file)
  BY <1>1, <1>2 DEF SendHdr, cmd, mod
<1> QED
  BY <1>3 DEF SendHdr, Return

LEMMA ControlMenus ==
  ASSUME TypeOK, Control, Menus \/ AskNameFails \/ NoMemory \/ File_stateDataDeal \/ SigPipe
  PROVE  Control'
<1> USE DEF own, conn, server, history
<1>0. sock \in {"none", "open", "closed"} /\ peer \in {"none", "up", "fin", "rst"}
  BY DEF TypeOK
<1>1. CASE File_stateTcpInit
  BY <1>0, <1>1 DEF File_stateTcpInit, Return, Fail, Control, Alive
<1>2. CASE File_stateSelModule
  BY <1>2 DEF File_stateSelModule, Return, Control, Alive
<1>3. CASE File_stateSelCmd
  BY <1>3 DEF File_stateSelCmd, Return, Control, Alive
<1>4. CASE File_stateDataDeal
  BY <1>4 DEF File_stateDataDeal, Control, Alive, cmd
<1>5. CASE AskName
  BY <1>5 DEF AskName, Killed, Return, Control, Alive
<1>6. CASE AskNameFails
  BY <1>6 DEF AskNameFails, Fail, Return, Control, Alive
<1>7. CASE NoMemory \/ SigPipe
  BY <1>7 DEF NoMemory, SigPipe, Fail, Killed, Return, Control, Alive
<1> QED
  BY <1>1, <1>2, <1>3, <1>4, <1>5, <1>6, <1>7 DEF Menus

LEMMA ControlRequest ==
  ASSUME TypeOK, Control,
         \/ SendHdr \/ SendData \/ RecvHdr \/ RecvBody \/ NoHdr \/ NoBody \/ RecvFails
         \/ Save \/ SaveFails \/ RecvName \/ NameLost
  PROVE  Control'
<1> USE DEF menu, own, conn, server, history
<1>0. sock \in {"none", "open", "closed"} /\ peer \in {"none", "up", "fin", "rst"}
  BY DEF TypeOK
<1>1. CASE SendHdr
  <2>1. PICK msg, told : Sends(msg, told)
    BY <1>1 DEF SendHdr
  <2>2. /\ peer' = peer \/ (peer = "fin" /\ peer' = "rst")
        /\ peer # "up" => UNCHANGED toServer
    BY <2>1, SendsOn
  <2> QED
    BY <1>1, <2>2, HdrSent DEF Control, Alive, cmd, PackedLen
<1>2. CASE SendData
  <2>1. PICK told : Sends(DataMsg(job.name, job.file, round), told)
    BY <1>2 DEF SendData
  <2>2. /\ step = "sendData" /\ curState' \in {curState, "module", "outside"}
        /\ UNCHANGED <<menu, sock, toClient, server, cut>>
        /\ \/ step' = "start"
           \/ step' = "recvHdr" /\ cmd = "GET" /\ UNCHANGED curState
           \/ step' = "recvName" /\ cmd \notin {"GET", "SET"} /\ UNCHANGED curState
    BY <1>2 DEF SendData, SetSent, Return, Fail
  <2>3. /\ peer' = peer \/ (peer = "fin" /\ peer' = "rst")
        /\ peer # "up" => UNCHANGED toServer
    BY <2>1, SendsOn
  <2>4. cmd' = cmd /\ (step' = "recvHdr" => cmd = "GET") /\ (step' = "recvName" => cmd = "LIST")
    BY <2>2, Fields DEF Control, Cmds, cmd
  <2>5. curState = "dataDeal" /\ curState' # "tcpInit" /\ (step' # "start" => curState' = "dataDeal")
    BY <2>2 DEF Control
  <2>6. step' \notin {"name", "sendData", "recvBody", "save"}
    BY <2>2
  <2> QED
    BY <2>2, <2>3, <2>4, <2>5, <2>6 DEF Control, Alive
<1>3. CASE RecvHdr \/ RecvBody
  BY <1>3 DEF RecvHdr, RecvBody, Recv, Killed, Return, Control, Alive, cmd
<1>4. CASE NoHdr \/ NoBody
  BY <1>4 DEF NoHdr, NoBody, PeerDown, Fail, Killed, Return, Control, Alive, cmd
<1>5. CASE RecvFails
  BY <1>0, <1>5 DEF RecvFails, RecvError, Fail, Return, Control, Alive, cmd
<1>6. CASE Save \/ SaveFails
  BY <1>6 DEF Save, SaveFails, Fail, Return, Control, Alive
<1>7. CASE RecvName
  BY <1>7 DEF RecvName, Recv, Return, Control, Alive, cmd
<1>8. CASE NameLost
  BY <1>0, <1>8 DEF NameLost, PeerDown, RecvError, Fail, Return, Control, Alive, cmd
<1> QED
  BY <1>1, <1>2, <1>3, <1>4, <1>5, <1>6, <1>7, <1>8

LEMMA ControlServer ==
  ASSUME TypeOK, Control, ServesWhole \/ ServerEnds
  PROVE  Control'
<1>0. UNCHANGED <<curState, step, g_stTestHdr, job, sock, cut>>
  BY DEF ServesWhole, TakeHdr, ServeSet, ServeGet, AnswersGet, SendBody, ServeList, SendName, ServerEnds, menu, own,
         history
<1>1. Alive /\ peer # "none"
  BY DEF ServesWhole, TakeHdr, ServeSet, ServeGet, AnswersGet, SendBody, ServeList, SendName, ServerEnds, Alive, Control
<1>2. CASE HangUp
  <2>1. ~Alive' /\ peer' \in {"fin", "rst"} /\ srv'.pc = "gone"
    BY <1>2 DEF HangUp, Alive, TypeOK
  <2>2. UNCHANGED toClient
    BY <1>1, <1>2 DEF HangUp, ServesWhole, TakeHdr, ServeSet, ServeGet, AnswersGet, SendBody, ServeList, SendName, ServerEnds,
              Alive, TypeOK
  <2> QED
    BY <1>0, <1>1, <2>1, <2>2 DEF Control, cmd
<1>3. CASE Alive' /\ srv'.pc \notin {"left", "wrong"} /\ UNCHANGED peer
  BY <1>0, <1>1, <1>3 DEF Control, cmd
<1>4. HangUp \/ (Alive' /\ srv'.pc \notin {"left", "wrong"} /\ UNCHANGED peer)
  BY DEF ServesWhole, TakeHdr, ServeSet, ServeGet, AnswersGet, SendBody, ServeList, SendName, ServerEnds, Alive, TypeOK
<1> QED
  BY <1>2, <1>3, <1>4

\* An upload's descriptor is accounted for when it has gone.
LEMMA OpenStep ==
  ASSUME TypeOK, Control, OpenInv, NextWhole
  PROVE  OpenInv'
<1>0. openFiles \in Nat /\ jsonSets \in Nat
  BY DEF TypeOK
<1>1. CASE \/ File_stateTcpInit \/ File_stateSelModule \/ File_stateSelCmd \/ AskNameFails \/ NoMemory \/ SigPipe
  BY <1>1 DEF File_stateTcpInit, File_stateSelModule, File_stateSelCmd, AskNameFails, NoMemory, SigPipe,
              Fail, Killed, Return, Control, Ended, OpenInv, own, history
<1>2. CASE File_stateDataDeal
  BY <1>2 DEF File_stateDataDeal, Ended, OpenInv, history, cmd
<1>3. CASE AskName
  BY <1>0, <1>3 DEF AskName, Killed, Return, Control, Ended, OpenInv, history, menu, cmd, mod
<1>4. CASE SendHdr
  BY <1>4, HdrSent DEF Control, Ended, OpenInv, own, history
<1>5. CASE SendData
  <2>1. openFiles = jsonSets + IF cmd = "SET" /\ mod # "PROTO" THEN 1 ELSE 0
    BY <1>5 DEF SendData, OpenInv, Ended, Control
  <2>2. CASE cmd = "SET" /\ SetSent
    BY <1>0, <2>1, <2>2, Fields DEF SetSent, Return, OpenInv, Mods
  <2>3. CASE cmd # "SET" /\ step' \in {"recvHdr", "recvName"} /\ UNCHANGED <<openFiles, jsonSets>>
    BY <1>0, <2>1, <2>3 DEF OpenInv
  <2>4. CASE Fail
    BY <2>4 DEF Fail, Return, OpenInv, Ended
  <2> QED
    BY <1>5, <2>2, <2>3, <2>4 DEF SendData
<1>6. CASE \/ RecvHdr \/ RecvBody \/ NoHdr \/ NoBody \/ RecvFails \/ Save \/ SaveFails \/ RecvName \/ NameLost
  <2>1. /\ step \notin {"start", "sendHdr", "sendData"} /\ step' \notin {"sendHdr", "sendData"}
        /\ UNCHANGED <<openFiles, jsonSets>>
    BY <1>6 DEF RecvHdr, RecvBody, NoHdr, NoBody, RecvFails, Save, SaveFails, RecvName, NameLost,
                Fail, Killed, Return, own, history
  <2> QED
    BY <1>0, <2>1 DEF Control, Ended, OpenInv
<1>7. CASE ServesWhole \/ ServerEnds
  <2>1. UNCHANGED <<curState, step, cmd, mod, openFiles, jsonSets>>
    BY <1>7 DEF ServesWhole, TakeHdr, ServeSet, ServeGet, AnswersGet, SendBody, ServeList, SendName, ServerEnds,
                own, history, menu, cmd, mod
  <2> QED
    BY <2>1 DEF Ended, OpenInv
<1> QED
  BY <1>1, <1>2, <1>3, <1>4, <1>5, <1>6, <1>7 DEF NextWhole, Menus, GoesWhole, Failures

LEMMA CauseStep ==
  ASSUME TypeOK, Control, CrashHasCause, NextWhole
  PROVE  CrashHasCause'
<1>1. CASE File_stateTcpInit \/ AskNameFails \/ NoMemory \/ SaveFails
  BY <1>1 DEF File_stateTcpInit, AskNameFails, NoMemory, SaveFails, Control, CrashHasCause, Fail, Return, cmd
<1>2. CASE SendData \/ NoHdr \/ NoBody \/ RecvFails \/ NameLost
  <2>1. Fail => sock' # "open" \/ peer' = "rst"
    <3>1. CASE SendData
      <4>1. Fail => \E msg : Sends(msg, "error")
        BY <3>1 DEF SendData, SetSent, Fail, Return, Control
      <4>2. \A msg : Sends(msg, "error") => UNCHANGED peer /\ (sock # "open" \/ peer = "rst")
        BY DEF Sends
      <4> QED
        BY <3>1, <4>1, <4>2 DEF SendData
    <3>2. CASE NoHdr \/ NoBody \/ RecvFails \/ NameLost
      BY <3>2 DEF NoHdr, NoBody, RecvFails, NameLost, PeerDown, RecvError
    <3> QED
      BY <1>2, <3>1, <3>2
  <2>2. curState' = "outside" => Fail
    BY <1>2 DEF SendData, NoHdr, NoBody, RecvFails, NameLost, SetSent, Killed, Fail, Return, Control
  <2> QED
    BY <2>1, <2>2 DEF CrashHasCause
<1>3. CASE \/ File_stateSelModule \/ File_stateSelCmd \/ File_stateDataDeal \/ AskName \/ SigPipe
           \/ SendHdr \/ RecvHdr \/ RecvBody \/ Save \/ RecvName
  <2>1. curState' # "outside"
    BY <1>3 DEF File_stateSelModule, File_stateSelCmd, File_stateDataDeal, AskName, SigPipe, SendHdr,
                RecvHdr, RecvBody, Save, RecvName, Killed, Return, Control
  <2> QED
    BY <2>1 DEF CrashHasCause
<1>4. CASE ServesWhole \/ ServerEnds
  <2>1. /\ UNCHANGED <<curState, stdin, trouble, sock, cmd, disk, job, cut>>
        /\ peer' \in {peer, "fin", "rst"}
    BY <1>4 DEF ServesWhole, TakeHdr, ServeSet, ServeGet, AnswersGet, SendBody, ServeList, SendName, ServerEnds,
                HangUp, own, history, menu, cmd
  <2> QED
    BY <2>1 DEF CrashHasCause
<1> QED
  BY <1>1, <1>2, <1>3, <1>4 DEF NextWhole, Menus, GoesWhole, Failures

\* What may be under a name without being anybody's file.
LEMMA PartSound == \A n \in Names : Sound(n, Absent) /\ Sound(n, Part)
BY DEF Sound, Part

\* A sound file under its name leaves everything sound.
LEMMA Written ==
  ASSUME TypeOK, WhatSurvives, NEW n \in Names, NEW f, Sound(n, f)
  PROVE  /\ \A m \in Names : Sound(m, [disk EXCEPT ![n] = f][m])
         /\ \A m \in Names : Sound(m, [store EXCEPT ![n] = f][m])
BY DEF TypeOK, Files, WhatSurvives

\* Nothing is written, and nothing new comes into the client's hands.
LEMMA HandsEmpty ==
  ASSUME InHand, WhatSurvives, UNCHANGED <<disk, store, srv>>,
         \/ step' \notin {"sendHdr", "sendData", "save"}
         \/ step' = "sendHdr" /\ cmd' # "SET"
         \/ UNCHANGED <<step, job, cmd>>
         \/ step = "sendHdr" /\ step' = "sendData" /\ UNCHANGED <<job, cmd>>
  PROVE  InHand' /\ WhatSurvives'
BY DEF InHand, WhatSurvives

LEMMA HandsMenus ==
  ASSUME TypeOK, Control, InHand, WhatSurvives, Menus \/ AskNameFails \/ NoMemory \/ File_stateDataDeal \/ SigPipe
  PROVE  InHand' /\ WhatSurvives'
<1>1. CASE File_stateTcpInit
  BY <1>1, HandsEmpty DEF File_stateTcpInit, Return, Fail, own, server
<1>2. CASE File_stateSelModule
  BY <1>2, HandsEmpty DEF File_stateSelModule, Return, own, server, Control
<1>3. CASE File_stateSelCmd
  BY <1>3, HandsEmpty DEF File_stateSelCmd, Return, own, server, Control
<1>4. CASE File_stateDataDeal
  BY <1>4, HandsEmpty DEF File_stateDataDeal, server, cmd
<1>5. CASE AskName
  <2>1. PICK n \in Names :
          /\ cmd = "SET" => disk[n] # Absent
          /\ cmd = "SET" => job'.name = n /\ job'.file = Carried(mod, disk[n])
    BY <1>5 DEF AskName
  <2>2. CASE cmd = "SET"
    <3>1. disk[n] \in File /\ Sound(n, disk[n]) /\ mod \in Mods
      BY <2>1, <2>2, Fields DEF TypeOK, Files, WhatSurvives
    <3>2. Sound(job'.name, job'.file)
      BY <2>1, <2>2, <3>1, CarriedSound
    <3>3. step' \in {"sendHdr", "start"} /\ UNCHANGED <<disk, store, srv>>
      BY <1>5 DEF AskName, Killed, Return, server
    <3> QED
      BY <3>2, <3>3 DEF InHand, WhatSurvives
  <2>3. CASE cmd # "SET"
    BY <1>5, <2>3, HandsEmpty DEF AskName, Killed, Return, server, menu, cmd
  <2> QED
    BY <2>2, <2>3
<1>6. CASE AskNameFails
  BY <1>6, HandsEmpty DEF AskNameFails, Fail, Return, server
<1>7. CASE NoMemory
  BY <1>7, HandsEmpty DEF NoMemory, Fail, Return, server, own
<1>8. CASE SigPipe
  BY <1>8, HandsEmpty DEF SigPipe, Killed, Return, server, own
<1> QED
  BY <1>1, <1>2, <1>3, <1>4, <1>5, <1>6, <1>7, <1>8 DEF Menus

LEMMA HandsRequest ==
  ASSUME TypeOK, Control, ToClient, InHand, WhatSurvives,
         \/ SendHdr \/ SendData \/ RecvHdr \/ RecvBody \/ NoHdr \/ NoBody \/ RecvFails
         \/ Save \/ SaveFails \/ RecvName \/ NameLost
  PROVE  InHand' /\ WhatSurvives'
<1>1. CASE SendHdr
  <2>1. cmd' = cmd
    BY <1>1 DEF SendHdr, Sized, cmd, TypeOK, Header
  <2> QED
    BY <1>1, <2>1, HandsEmpty DEF SendHdr, Return, own, server
<1>2. CASE SendData
  BY <1>2, HandsEmpty DEF SendData, SetSent, Fail, Return, server
<1>3. CASE RecvHdr
  BY <1>3, HandsEmpty DEF RecvHdr, server
<1>4. CASE RecvBody
  <2>1. step = "recvBody" /\ Recv /\ ~Ended
    BY <1>4 DEF RecvBody, Control, Ended
  <2>2. Named(Head(toClient).name) /\ Sound(Head(toClient).name, Head(toClient).file)
    BY <2>1, Arrived DEF Body
  <2>3. job'.file = Head(toClient).file /\ job'.name = Head(toClient).name
    BY <1>4, <2>2 DEF RecvBody, TypeOK, Named
  <2>4. step' \in {"save", "start"} /\ UNCHANGED <<disk, store, srv>>
    BY <1>4 DEF RecvBody, Killed, Return, server
  <2> QED
    BY <2>2, <2>3, <2>4 DEF InHand, WhatSurvives
<1>5. CASE NoHdr
  <2>1. \A m \in Names : Sound(m, disk'[m])
    <3>1. \A m \in Names : Sound(m, [disk EXCEPT ![job.name] = Part][m])
      BY Written, PartSound, Fields
    <3> QED
      BY <1>5, <3>1 DEF NoHdr, WhatSurvives
  <2>2. step' = "start" /\ UNCHANGED <<store, srv>>
    BY <1>5 DEF NoHdr, Fail, Killed, Return, server
  <2> QED
    BY <2>1, <2>2 DEF InHand, WhatSurvives
<1>6. CASE NoBody
  <2>1. step' \in {"save", "start"} /\ UNCHANGED <<disk, store, srv>>
    BY <1>6 DEF NoBody, Fail, Killed, Return, server
  <2>2. step' = "save" => Sound(job'.name, job'.file)
    <3>1. step' = "save" => job'.name = job.name /\ job'.file = Part
      BY <1>6 DEF NoBody, Fail, Killed, Return, TypeOK
    <3> QED
      BY <3>1, PartSound, Fields
  <2> QED
    BY <2>1, <2>2 DEF InHand, WhatSurvives
<1>7. CASE RecvFails
  BY <1>7, HandsEmpty DEF RecvFails, Fail, Return, own, server
<1>8. CASE Save
  <2>1. \A m \in Names : Sound(m, disk'[m])
    BY <1>8, Written, Fields DEF Save, InHand
  <2>2. step' = "start" /\ UNCHANGED <<store, srv>>
    BY <1>8 DEF Save, Return, server
  <2> QED
    BY <2>1, <2>2 DEF InHand, WhatSurvives
<1>9. CASE SaveFails
  <2>1. \A f \in {disk[job.name], Absent, Part} : Sound(job.name, f)
    BY Fields, PartSound DEF WhatSurvives
  <2>2. \A f \in {disk[job.name], Absent, Part} : \A m \in Names : Sound(m, [disk EXCEPT ![job.name] = f][m])
    BY <2>1, Written, Fields
  <2>3. \A m \in Names : Sound(m, disk'[m])
    BY <1>9, <2>2 DEF SaveFails, WhatSurvives
  <2>4. step' = "start" /\ UNCHANGED <<store, srv>>
    BY <1>9 DEF SaveFails, Fail, Return, server
  <2> QED
    BY <2>3, <2>4 DEF InHand, WhatSurvives
<1>10. CASE RecvName
  BY <1>10, HandsEmpty DEF RecvName, Return, server
<1>11. CASE NameLost
  BY <1>11, HandsEmpty DEF NameLost, Fail, Return, own, server
<1> QED
  BY <1>1, <1>2, <1>3, <1>4, <1>5, <1>6, <1>7, <1>8, <1>9, <1>10, <1>11

\* The server's steps leave the client's files alone.
LEMMA HandsServer ==
  ASSUME TypeOK, Pairs, InHand, WhatSurvives, ServesWhole \/ ServerEnds
  PROVE  InHand' /\ WhatSurvives'
<1> USE DEF menu, own
<1>0. /\ \A p : [srv EXCEPT !.pc = p].pc = p /\ \A l : [srv EXCEPT !.left = l].pc = srv.pc
  BY DEF TypeOK
<1>1. UNCHANGED <<step, job, cmd, disk>>
  BY DEF ServesWhole, TakeHdr, ServeSet, ServeGet, AnswersGet, SendBody, ServeList, SendName, ServerEnds, cmd
<1>2. CASE ServeSet
  <2> DEFINE msg == Head(toServer)
  <2>1. /\ Alive /\ srv.pc = "data" /\ toServer # <<>> /\ toServer' = Tail(toServer) /\ srv.hdr.cmd = "SET"
    BY <1>2 DEF ServeSet, Alive
  <2>2. msg \in Message /\ msg.kind = "data" /\ Sound(msg.name, msg.file)
    BY <2>1, Served DEF Pair
  <2>3. msg.name \in Names
    BY <2>2, MessageFields
  <2>4. \A f \in Spoilt(msg.name) : Sound(msg.name, f)
    BY <2>3, PartSound DEF Spoilt, WhatSurvives
  <2>5. \/ UNCHANGED store
        \/ \E f : Sound(msg.name, f) /\ store' = [store EXCEPT ![msg.name] = f]
    BY <1>2, <2>2, <2>4 DEF ServeSet
  <2>6. \A m \in Names : Sound(m, store'[m])
    BY <2>3, <2>5, Written DEF WhatSurvives
  <2>7. srv'.pc \in {"idle", "gone"}
    BY <1>0, <1>2 DEF ServeSet, HangUp
  <2> QED
    BY <1>1, <2>6, <2>7 DEF InHand, WhatSurvives
<1>3. CASE ServeGet
  <2>1. UNCHANGED store /\ (srv'.pc = "body" => store[srv'.name] # Absent)
    BY <1>0, <1>3 DEF ServeGet, AnswersGet, HangUp, TypeOK
  <2> QED
    BY <1>1, <2>1 DEF InHand, WhatSurvives
<1>4. CASE TakeHdr \/ SendBody \/ ServeList \/ SendName \/ ServerEnds
  <2>1. UNCHANGED store
    BY <1>4 DEF TakeHdr, SendBody, ServeList, SendName, ServerEnds
  <2>2. srv'.pc # "body"
    <3>1. CASE TakeHdr
      BY <3>1 DEF TakeHdr, HangUp, TypeOK
    <3>2. CASE SendName
      BY <1>0, <3>2 DEF SendName
    <3>3. CASE SendBody \/ ServeList \/ ServerEnds
      BY <3>3 DEF SendBody, ServeList, ServerEnds, HangUp, TypeOK
    <3> QED
      BY <1>4, <3>1, <3>2, <3>3
  <2> QED
    BY <1>1, <2>1, <2>2 DEF InHand, WhatSurvives
<1> QED
  BY <1>2, <1>3, <1>4 DEF ServesWhole

-----------------------------------------------------------------------------
(* What is on the way.                                                     *)

\* A client that asks nothing is asked nothing of.
LEMMA NoQuestion ==
  ASSUME Queues, Alive, ~Lost, ~Question
  PROVE  /\ toClient = <<>> /\ srv.pc \notin {"body", "list"}
         /\ srv.pc = "data" /\ toServer # <<>> => ~Asks(srv.hdr)
         /\ \A i \in 1 .. Len(toServer) - 1 : toServer[i].kind = "hdr" => ~Asks(toServer[i].hdr)
BY DEF Queues, ToClient, Serving, Waiting, Waits, Asks, Question

\* Steps of the client alone, outside a request on the way.
LEMMA Quiet ==
  ASSUME Queues, ~Ended, ~Question, step # "sendData", ~Question', step' # "sendData",
         UNCHANGED <<toServer, toClient, srv, store, cut>>
  PROVE  Queues'
<1>1. ~Lost' => ~Lost
  BY DEF Lost
<1>2. Pairs'
  BY DEF Queues, Pairs, Alive, Behind
<1>3. Halves'
  BY DEF Queues, Halves, Half, Behind, Alive, Ended
<1>4. CASE Lost'
  BY <1>2, <1>3, <1>4 DEF Queues, Waiting, ToClient, Serving
<1>5. CASE ~Lost
  <2>1. toClient' = <<>>
    BY <1>5 DEF Queues, ToClient
  <2>2. Waiting'
    BY <1>5, NoQuestion DEF Waiting, Asks, Alive
  <2>3. ToClient' /\ Serving'
    BY <1>5, <2>1, NoQuestion DEF ToClient, Serving, Question, Alive
  <2> QED
    BY <1>2, <1>3, <2>2, <2>3 DEF Queues
<1> QED
  BY <1>1, <1>4, <1>5

\* The client ends, and not between the two messages of a request.
LEMMA Ends ==
  ASSUME Queues, Ended', step' = "start", Alive => step # "sendData" /\ ~Ended,
         UNCHANGED <<toServer, srv, store>>
  PROVE  Queues'
<1>2. Pairs'
  BY DEF Queues, Pairs, Alive, Behind
<1>3. Halves'
  <2>1. Alive => ~Half
    BY DEF Queues, Halves, Ended
  <2>2. CASE Alive
    <3>1. ~Half' /\ ~(step = "sendData")
      BY <2>1, <2>2 DEF Half, Behind
    <3> QED
      BY <3>1 DEF Halves, Alive
  <2> QED
    BY <2>2 DEF Halves, Alive
<1>4. Waiting'
  BY DEF Waiting, Lost
<1>5. ToClient' /\ Serving'
  BY DEF ToClient, Serving, Lost
<1> QED
  BY <1>2, <1>3, <1>4, <1>5 DEF Queues

\* With the server's thread gone, only what has arrived matters.
LEMMA PeerGone ==
  ASSUME ~Alive', ToClient'
  PROVE  Queues'
BY DEF Queues, Pairs, Halves, Waiting, Serving

LEMMA SameToClient ==
  ASSUME ToClient, UNCHANGED <<curState, step, toClient, round, job, g_stTestHdr>>, Cutting
  PROVE  ToClient'
BY DEF ToClient, Body, Named, Ended, Lost, Question, Cutting, mod

LEMMA QueuesQuiet ==
  ASSUME TypeOK, Control, Queues,
         Menus \/ AskNameFails \/ NoMemory \/ File_stateDataDeal \/ SigPipe \/ Save \/ SaveFails
  PROVE  Queues'
<1> USE DEF conn, server, history
<1>1. CASE File_stateTcpInit
  <2>1. step = "start" /\ curState = "tcpInit" /\ step' = "start" /\ UNCHANGED <<toServer, toClient, srv, store, cut>>
    BY <1>1 DEF File_stateTcpInit, Control, Return, Fail
  <2> QED
    BY <2>1, Quiet DEF Question, Ended
<1>2. CASE File_stateSelModule \/ File_stateSelCmd
  <2>1. step = "start" /\ ~Ended /\ step' = "start" /\ UNCHANGED <<toServer, toClient, srv, store, cut>>
    BY <1>2 DEF File_stateSelModule, File_stateSelCmd, Control, Return, Ended
  <2> QED
    BY <2>1, Quiet DEF Question
<1>3. CASE File_stateDataDeal
  <2>1. /\ step = "start" /\ ~Ended /\ step' \in {"name", "sendHdr"}
        /\ UNCHANGED <<toServer, toClient, srv, store, cut>>
    BY <1>3 DEF File_stateDataDeal, Ended
  <2> QED
    BY <2>1, Quiet DEF Question
<1>4. CASE AskName
  <2>1. /\ step = "name" /\ ~Ended /\ step' \in {"start", "sendHdr"}
        /\ UNCHANGED <<toServer, toClient, srv, store, cut>>
    BY <1>4 DEF AskName, Control, Ended, Killed, Return
  <2> QED
    BY <2>1, Quiet DEF Question
<1>5. CASE Save \/ SaveFails
  <2>1. /\ step = "save" /\ ~Ended /\ step' = "start"
        /\ UNCHANGED <<toServer, toClient, srv, store, cut>>
    BY <1>5 DEF Save, SaveFails, Control, Ended, Fail, Return
  <2> QED
    BY <2>1, Quiet DEF Question
<1>6. CASE AskNameFails \/ NoMemory
  <2>1. /\ step \in {"name", "sendHdr", "recvBody"} /\ ~Ended /\ Ended' /\ step' = "start"
        /\ UNCHANGED <<toServer, srv, store>>
    BY <1>6 DEF AskNameFails, NoMemory, Control, Ended, Fail, Return
  <2> QED
    BY <2>1, Ends
<1>7. CASE SigPipe
  <2>1. ~Alive /\ Ended' /\ step' = "start" /\ UNCHANGED <<toServer, srv, store>>
    BY <1>7 DEF SigPipe, Control, Ended, Killed, Return
  <2> QED
    BY <2>1, Ends
<1> QED
  BY <1>1, <1>2, <1>3, <1>4, <1>5, <1>6, <1>7 DEF Menus

\* To a thread that is there, a message gets through.
LEMMA SendAlive ==
  ASSUME TypeOK, Control, NEW msg, NEW told, Sends(msg, told), Alive, curState = "dataDeal"
  PROVE  told = "ok" /\ toServer' = Append(toServer, msg)
<1>1. peer = "up" /\ sock = "open"
  BY DEF TypeOK, Control
<1> QED
  BY <1>1 DEF Sends

LEMMA QueuesSendHdr ==
  ASSUME TypeOK, Control, Queues, SendHdr
  PROVE  Queues'
<1> DEFINE len == IF cmd = "EXIT" THEN 0 ELSE PackedLen(job.file)
           hdr == Sized(g_stTestHdr, len)
           msg == HdrMsg(hdr, round)
<1>1. PICK told : g_stTestHdr' = hdr /\ Sends(msg, told)
  BY DEF SendHdr
<1>2. /\ step = "sendHdr" /\ curState = "dataDeal" /\ ~Ended /\ ~Question /\ ~Question'
      /\ step' = "sendData" \/ curState' = "max"
      /\ UNCHANGED <<toClient, srv, store, round, cut>> /\ (~Lost' => ~Lost)
  BY DEF SendHdr, Control, Ended, Lost, Question, Return, server, history
<1>3. msg \in Message /\ msg.kind = "hdr" /\ msg.hdr = hdr /\ msg.id = round
  <2>1. len \in Nat
    BY Fields, CarriedTypes
  <2> HIDE DEF len
  <2>2. hdr \in Header /\ round \in Nat
    BY <2>1, HeaderTypes DEF TypeOK
  <2> HIDE DEF hdr
  <2> QED
    BY <2>2, Messages
<1> HIDE DEF msg, hdr
<1>4. ToClient'
  BY <1>2 DEF Queues, ToClient
<1>5. CASE ~Alive
  BY <1>2, <1>4, <1>5, PeerGone DEF Alive
<1>6. CASE Alive
  <2>1. toServer' = Append(toServer, msg) /\ toServer \in Seq(Message)
    BY <1>1, <1>2, <1>6, SendAlive DEF TypeOK
  <2>2. /\ Len(toServer') = Len(toServer) + 1 /\ Len(toServer) \in Nat /\ toServer' # <<>>
        /\ \A i \in 1..Len(toServer) : toServer'[i] = toServer[i]
        /\ toServer'[Len(toServer) + 1] = msg
        /\ toServer = <<>> <=> Len(toServer) = 0
    BY <1>3, <2>1, Added
  <2>3. ~Half
    BY <1>2, <1>6 DEF Queues, Halves, Ended
  <2>4. ~Lost =>
        /\ toClient = <<>> /\ srv.pc \notin {"body", "list"}
        /\ srv.pc = "data" /\ toServer # <<>> => ~Asks(srv.hdr)
        /\ \A i \in 1 .. Len(toServer) - 1 : toServer[i].kind = "hdr" => ~Asks(toServer[i].hdr)
    BY <1>2, <1>6, NoQuestion
  <2>5. Behind => toServer # <<>>
    BY <2>3 DEF Half
  <2>6. toServer # <<>> => toServer[Len(toServer)].kind # "hdr"
    BY <2>3 DEF Half
  <2>7. Pairs'
    <3>1. toServer # <<>> => toServer'[1] = toServer[1]
      BY <2>2
    <3>2. toServer = <<>> => toServer'[1] = msg
      BY <2>2
    <3>3. /\ srv.pc = "data" => Pair(srv.hdr, srv.id, toServer'[1])
          /\ Behind => toServer'[1].kind = "data"
      BY <1>6, <2>5, <3>1 DEF Queues, Pairs, Behind
    <3>4. ~Behind => toServer'[1].kind = "hdr"
      BY <1>3, <1>6, <3>1, <3>2 DEF Queues, Pairs
    <3>5. ASSUME NEW i \in 1 .. Len(toServer') - 1
          PROVE  IF toServer'[i].kind = "hdr"
                 THEN Pair(toServer'[i].hdr, toServer'[i].id, toServer'[i + 1])
                 ELSE toServer'[i + 1].kind = "hdr"
      <4>1. CASE i = Len(toServer)
        <5>1. toServer'[i] = toServer[i] /\ toServer'[i + 1] = msg /\ toServer # <<>>
          BY <2>2, <3>5, <4>1
        <5> QED
          BY <1>3, <2>6, <4>1, <5>1
      <4>2. CASE i # Len(toServer)
        <5>1. i \in 1 .. Len(toServer) - 1 /\ toServer'[i] = toServer[i] /\ toServer'[i + 1] = toServer[i + 1]
          BY <2>2, <3>5, <4>2
        <5> QED
          BY <1>6, <5>1 DEF Queues, Pairs
      <4> QED
        BY <4>1, <4>2
    <3> QED
      BY <1>2, <3>3, <3>4, <3>5 DEF Pairs, Behind
  <2>8. Halves'
    <3>1. toServer'[Len(toServer')] = msg
      BY <2>2
    <3> QED
      BY <1>1, <1>2, <1>3, <2>2, <3>1 DEF Halves, Half, Behind, LastHdr, LastId
  <2>9. ~Lost => Waiting'
    <3> SUFFICES ASSUME ~Lost PROVE Waiting'
      OBVIOUS
    <3>1. ASSUME NEW i \in 1 .. Len(toServer') - 1
          PROVE  toServer'[i].kind = "hdr" => ~Asks(toServer'[i].hdr)
      <4>1. CASE i = Len(toServer)
        <5>1. toServer'[i] = toServer[i] /\ toServer # <<>>
          BY <2>2, <3>1, <4>1
        <5> QED
          BY <2>6, <4>1, <5>1
      <4>2. CASE i # Len(toServer)
        <5>1. i \in 1 .. Len(toServer) - 1 /\ toServer'[i] = toServer[i]
          BY <2>2, <3>1, <4>2
        <5> QED
          BY <2>4, <5>1
      <4> QED
        BY <4>1, <4>2
    <3>2. srv.pc = "data" => ~Asks(srv.hdr)
      BY <2>4, <2>5 DEF Behind
    <3> QED
      BY <1>2, <3>1, <3>2 DEF Waiting, Asks
  <2>10. ~Lost => Serving'
    BY <1>2, <2>4 DEF Serving, Behind
  <2>11. Lost => Waiting' /\ Serving'
    BY <1>2 DEF Waiting, Serving
  <2> QED
    BY <1>4, <2>7, <2>8, <2>9, <2>10, <2>11 DEF Queues
<1> QED
  BY <1>5, <1>6

LEMMA QueuesSendData ==
  ASSUME TypeOK, Control, InHand, Queues, SendData
  PROVE  Queues'
<1> DEFINE msg == DataMsg(job.name, job.file, round)
<1>1. PICK told : Sends(msg, told)
  BY DEF SendData
<1>2. /\ step = "sendData" /\ curState = "dataDeal" /\ ~Ended /\ ~Question
      /\ UNCHANGED <<toClient, srv, store, round, job, g_stTestHdr, cut>>
      /\ step' # "sendData" /\ step' # "recvBody" /\ (~Lost' => ~Lost)
  BY DEF SendData, Control, Ended, Lost, Question, SetSent, Fail, Return, server, menu
<1>3. /\ msg \in Message /\ msg.kind = "data" /\ msg.id = round
      /\ msg.name = job.name /\ msg.file = job.file
  BY Fields, Messages DEF TypeOK
<1>4. ~Lost => toClient = <<>>
  BY <1>2 DEF Queues, ToClient
<1>5. ToClient'
  BY <1>2, <1>4 DEF ToClient
<1>6. CASE ~Alive
  BY <1>2, <1>5, <1>6, PeerGone DEF Alive
<1>7. CASE Alive
  <2> HIDE DEF msg
  <2>1. told = "ok" /\ toServer' = Append(toServer, msg) /\ toServer \in Seq(Message)
    BY <1>1, <1>2, <1>7, SendAlive DEF TypeOK
  <2>2. /\ Len(toServer') = Len(toServer) + 1 /\ Len(toServer) \in Nat /\ toServer' # <<>>
        /\ \A i \in 1..Len(toServer) : toServer'[i] = toServer[i]
        /\ toServer'[Len(toServer) + 1] = msg
        /\ toServer = <<>> <=> Len(toServer) = 0
    BY <1>3, <2>1, Added
  <2>3. /\ Half
        /\ toServer # <<>> \/ srv.pc = "data" => LastHdr = g_stTestHdr /\ LastId = round
    BY <1>2, <1>7 DEF Queues, Halves
  <2>4. ~Lost =>
        /\ srv.pc \notin {"body", "list"}
        /\ srv.pc = "data" /\ toServer # <<>> => ~Asks(srv.hdr)
        /\ \A i \in 1 .. Len(toServer) - 1 : toServer[i].kind = "hdr" => ~Asks(toServer[i].hdr)
    BY <1>2, <1>7, NoQuestion
  <2>5. Pair(g_stTestHdr, round, msg)
    BY <1>2, <1>3 DEF Pair, Control, InHand, cmd
  <2>6. /\ g_stTestHdr.cmd = "GET" => step' = "recvHdr"
        /\ g_stTestHdr.cmd = "LIST" => step' = "recvName"
    <3>1. \A t : Sends(msg, t) => t = "ok"
      BY <1>2, <1>7, SendAlive
    <3> QED
      BY <3>1 DEF SendData, msg, cmd
  <2>7. /\ round' = round
        /\ g_stTestHdr.cmd = "GET" => step' = "recvHdr" /\ msg.name = job'.name
        /\ g_stTestHdr.cmd = "LIST" => step' = "recvName"
    BY <1>2, <1>3, <2>6
  <2>8. CASE toServer = <<>>
    <3>1. Behind /\ (srv.pc = "data" => srv.hdr = g_stTestHdr /\ srv.id = round)
      BY <2>3, <2>8 DEF Half, LastHdr, LastId
    <3>2. Len(toServer') = 1 /\ toServer'[1] = msg
      BY <2>2, <2>8
    <3>3. Pairs'
      BY <1>2, <1>3, <2>5, <3>1, <3>2 DEF Pairs, Behind
    <3>4. Halves'
      BY <1>2, <1>3, <2>2, <3>2 DEF Halves, Half
    <3>5. Waiting'
      BY <1>2, <2>7, <3>1, <3>2 DEF Waiting, Waits, mod
    <3>6. Serving'
      BY <1>2, <1>4, <2>4 DEF Serving, Behind
    <3> QED
      BY <1>5, <3>3, <3>4, <3>5, <3>6 DEF Queues
  <2>9. CASE toServer # <<>>
    <3> DEFINE n == Len(toServer)
    <3>1. /\ toServer[n].kind = "hdr" /\ toServer[n].hdr = g_stTestHdr /\ toServer[n].id = round
      BY <2>3, <2>9 DEF Half, LastHdr, LastId
    <3>2. n \in Nat \ {0} /\ toServer'[1] = toServer[1] /\ toServer'[n] = toServer[n]
          /\ toServer'[n + 1] = msg /\ Len(toServer') = n + 1
      BY <2>2, <2>9
    <3>3. \A i \in 1 .. n - 1 : toServer'[i] = toServer[i] /\ toServer'[i + 1] = toServer[i + 1]
      BY <2>2
    <3> HIDE DEF n
    <3>4. ASSUME NEW i \in 1 .. Len(toServer') - 1
          PROVE  IF toServer'[i].kind = "hdr"
                 THEN Pair(toServer'[i].hdr, toServer'[i].id, toServer'[i + 1])
                 ELSE toServer'[i + 1].kind = "hdr"
      <4>1. CASE i = n
        BY <2>5, <3>1, <3>2, <4>1
      <4>2. CASE i # n
        <5>1. i \in 1 .. n - 1
          BY <3>2, <3>4, <4>2
        <5> QED
          BY <1>7, <3>3, <5>1 DEF Queues, Pairs, n
      <4> QED
        BY <4>1, <4>2
    <3>5. Pairs'
      BY <1>2, <1>7, <2>9, <3>2, <3>4 DEF Queues, Pairs, Behind
    <3>6. Halves'
      BY <1>2, <1>3, <2>2, <3>2 DEF Halves, Half
    <3>7. ASSUME ~Lost, NEW i \in 1 .. Len(toServer') - 1, toServer'[i].kind = "hdr", Asks(toServer'[i].hdr)
          PROVE  i + 1 = Len(toServer') /\ toServer'[i] = toServer[n]
      <4>1. CASE i = n
        BY <3>2, <4>1
      <4>2. CASE i # n
        <5>1. i \in 1 .. n - 1
          BY <3>2, <3>7, <4>2
        <5> QED
          BY <2>4, <3>3, <3>7, <5>1 DEF n
      <4> QED
        BY <4>1, <4>2
    <3>8. Waiting'
      <4> SUFFICES ASSUME ~Lost PROVE Waiting'
        BY <1>2 DEF Waiting
      <4>1. srv.pc = "data" => ~Asks(srv.hdr)
        BY <2>4, <2>9
      <4>2. ASSUME NEW i \in 1 .. Len(toServer') - 1, toServer'[i].kind = "hdr", Asks(toServer'[i].hdr)
            PROVE  /\ i + 1 = Len(toServer') /\ toServer'[i].id = round'
                   /\ toServer'[i].hdr.cmd = "GET" =>
                        /\ step' = "recvHdr" /\ toServer'[i + 1].name = job'.name
                        /\ toServer'[i].hdr.mod = mod'
                   /\ toServer'[i].hdr.cmd = "LIST" => step' = "recvName"
        <5>1. i + 1 = Len(toServer') /\ toServer'[i] = toServer[n]
          BY <3>7, <4>2
        <5>2. toServer'[i + 1] = msg
          BY <3>2, <5>1
        <5>3. mod' = g_stTestHdr.mod
          BY <1>2 DEF mod
        <5> QED
          BY <2>7, <3>1, <5>1, <5>2, <5>3
      <4> QED
        BY <1>2, <4>1, <4>2 DEF Waiting, Asks, Waits
    <3>9. Serving'
      BY <1>2, <1>4, <2>4 DEF Serving, Behind
    <3> QED
      BY <1>5, <3>5, <3>6, <3>8, <3>9 DEF Queues
  <2> QED
    BY <2>8, <2>9
<1> QED
  BY <1>6, <1>7

\* An answer that has arrived came after all that was sent.
LEMMA Answered ==
  ASSUME Queues, Alive, ~Lost, toClient # <<>>
  PROVE  ~Behind /\ srv.pc # "data" /\ toServer = <<>>
BY DEF Queues, Serving, Behind

\* With nothing on the way to it, the server has no half of anything.
LEMMA NothingSent ==
  ASSUME toServer = <<>>, ~Behind, UNCHANGED <<toServer, srv>>, step' # "sendData"
  PROVE  Pairs' /\ Halves' /\ Waiting'
<1>1. Len(toServer) = 0
  BY EmptySeq
<1> QED
  BY <1>1 DEF Pairs, Halves, Half, Behind, Waiting

LEMMA QueuesRecv ==
  ASSUME TypeOK, Control, Queues, RecvHdr \/ RecvBody \/ RecvName
  PROVE  Queues'
<1>0. /\ ~Ended /\ Recv /\ toClient # <<>> /\ step' # "sendData"
      /\ UNCHANGED <<toServer, srv, store, round, g_stTestHdr, cut>> /\ ~Lost
  BY DEF RecvHdr, RecvBody, RecvName, Control, Ended, Lost, Recv, Killed, Return, server, menu, history
<1>1. ToClient /\ Alive' = Alive
  BY <1>0 DEF Queues, Alive
<1>2. /\ Len(toClient') = Len(toClient) - 1 /\ Len(toClient) \in Nat \ {0}
      /\ toClient' = <<>> <=> Len(toClient) = 1
      /\ \A i \in 1 .. Len(toClient) - 1 : toClient'[i] = toClient[i + 1]
  BY <1>0, <1>1, Arrived
<1>3. Alive => ~Behind /\ srv.pc # "data" /\ toServer = <<>>
  BY <1>0, Answered
<1>4. Alive => Pairs' /\ Halves' /\ Waiting'
  BY <1>0, <1>3, NothingSent
<1>5. CASE RecvHdr
  <2>1. /\ step = "recvHdr" /\ step' = "recvBody" /\ UNCHANGED curState
        /\ job'.name = job.name /\ job'.len = toClient[1].hdr.dlen
    BY <1>0, <1>1, <1>5, Arrived DEF RecvHdr, TypeOK
  <2>2. Len(toClient) = 1 \/ (Len(toClient) = 2 /\ Body(toClient[2], toClient[1].hdr.dlen))
    BY <1>0, <1>1, <2>1 DEF ToClient
  <2>3. ToClient'
    <3>1. CASE Len(toClient) = 1
      BY <1>2, <2>1, <3>1 DEF ToClient, Question
    <3>2. CASE Len(toClient) = 2 /\ Body(toClient[2], toClient[1].hdr.dlen)
      <4>1. Len(toClient') = 1 /\ toClient'[1] = toClient[2]
        BY <1>2, <3>2
      <4> QED
        BY <1>0, <2>1, <3>2, <4>1 DEF ToClient, Question, Body, Named, mod
    <3> QED
      BY <2>2, <3>1, <3>2
  <2>4. Alive => Serving'
    <3>1. CASE Alive /\ srv.pc = "body"
      <4>1. /\ srv.id = round /\ Named(srv.name)
            /\ Len(toClient) = 1 /\ toClient[1].hdr.dlen = BodyLen
        BY <1>0, <2>1, <3>1 DEF Queues, Serving
      <4>2. toClient' = <<>> /\ job'.len = BodyLen /\ BodyLen' = BodyLen
        BY <1>0, <1>2, <2>1, <4>1 DEF BodyLen
      <4> QED
        BY <1>0, <1>3, <2>1, <3>1, <4>1, <4>2 DEF Serving, Behind, Named, mod
    <3>2. CASE Alive /\ srv.pc # "body"
      <4>1. srv.pc # "list"
        BY <1>0, <2>1, <3>2 DEF Queues, Serving
      <4> QED
        BY <1>0, <1>3, <3>2, <4>1 DEF Serving, Behind, Named, mod
    <3> QED
      BY <3>1, <3>2
  <2> QED
    BY <1>1, <1>4, <2>3, <2>4, PeerGone DEF Queues
<1>6. CASE RecvBody
  <2>1. step = "recvBody" /\ step' \in {"save", "start"} /\ toClient' = <<>>
    <3>1. step = "recvBody" /\ step' \in {"save", "start"}
      BY <1>6 DEF RecvBody, Killed, Return
    <3>2. Len(toClient) = 1
      BY <1>0, <1>1, <3>1, Arrived
    <3> QED
      BY <1>2, <3>1, <3>2
  <2>2. ToClient'
    BY <2>1 DEF ToClient, Question
  <2>3. Alive => Serving'
    <3>1. Alive => srv.pc \notin {"body", "list"}
      BY <1>0, <2>1 DEF Queues, Serving
    <3> QED
      BY <1>0, <1>3, <3>1 DEF Serving, Behind, Named, mod
  <2> QED
    BY <1>1, <1>4, <2>2, <2>3, PeerGone DEF Queues
<1>7. CASE RecvName
  <2>1. /\ step = "recvName" /\ UNCHANGED job
        /\ \A i \in 1..Len(toClient) : /\ toClient[i].kind = "name" /\ toClient[i].id = round
                                       /\ toClient[i].path = "end" => i = Len(toClient)
        /\ IF toClient[1].path = "end" THEN step' = "start" ELSE UNCHANGED <<curState, step>>
    BY <1>0, <1>1, <1>7, Arrived DEF RecvName, ToClient, Return
  <2>2. CASE toClient[1].path = "end"
    <3>1. toClient' = <<>>
      BY <1>2, <2>1, <2>2
    <3>2. ToClient'
      BY <2>1, <2>2, <3>1 DEF ToClient, Question
    <3>3. Alive => srv.pc \notin {"body", "list"}
      BY <1>0, <1>2, <2>1, <2>2 DEF Queues, Serving
    <3>4. Alive => Serving'
      BY <1>0, <1>3, <3>3 DEF Serving, Behind, Named, mod
    <3> QED
      BY <1>1, <1>4, <3>2, <3>4, PeerGone DEF Queues
  <2>3. CASE toClient[1].path # "end"
    <3>1. step' = "recvName" /\ UNCHANGED curState
      BY <2>1, <2>3
    <3>2. ASSUME NEW i \in 1..Len(toClient')
          PROVE  /\ i + 1 \in 1..Len(toClient) /\ toClient'[i] = toClient[i + 1]
                 /\ i + 1 = Len(toClient) => i = Len(toClient')
      BY <1>2, <3>2
    <3>3. ToClient'
      BY <1>0, <2>1, <3>1, <3>2 DEF ToClient, Question
    <3>4. Alive => Serving'
      <4>1. Alive => srv.pc # "body"
        BY <1>0, <2>1 DEF Queues, Serving
      <4>2. Alive /\ srv.pc = "list" => /\ srv.id = round
                                        /\ \A i \in 1..Len(toClient) : toClient[i].path # "end"
        BY <1>0 DEF Queues, Serving
      <4> QED
        BY <1>0, <1>3, <3>1, <3>2, <4>1, <4>2 DEF Serving, Behind, Named, mod
    <3> QED
      BY <1>1, <1>4, <3>3, <3>4, PeerGone DEF Queues
  <2> QED
    BY <2>2, <2>3
<1> QED
  BY <1>5, <1>6, <1>7

\* Whatever recv() finds out about the connection, the server's thread is gone.
LEMMA QueuesLost ==
  ASSUME TypeOK, Control, Queues, NoHdr \/ NoBody \/ RecvFails \/ NameLost
  PROVE  Queues'
<1>1. ~Alive /\ toClient = <<>>
  <2>1. step # "start" /\ (PeerDown \/ RecvError)
    BY DEF NoHdr, NoBody, RecvFails, NameLost
  <2>2. sock \in {"open", "closed"}
    BY <2>1 DEF Control, TypeOK
  <2> QED
    BY <2>1, <2>2 DEF PeerDown, RecvError, Control
<1>2. toClient' = <<>> /\ srv' = srv
  BY <1>1 DEF NoHdr, NoBody, RecvFails, NameLost, server
<1>3. Len(toClient') = 0
  BY <1>2, EmptySeq
<1>4. ToClient'
  BY <1>2, <1>3 DEF ToClient
<1> QED
  BY <1>1, <1>2, <1>4, PeerGone DEF Alive

-----------------------------------------------------------------------------
(* What the server's thread takes and sends.                               *)

\* A header it takes has its message behind it.
LEMMA HdrTaken ==
  ASSUME TypeOK, Queues, Alive, ~Behind, toServer # <<>>, toServer' = Tail(toServer), Cutting,
         \/ srv'.pc = "data" /\ srv'.hdr = toServer[1].hdr /\ srv'.id = toServer[1].id
         \/ srv'.pc \in {"left", "wrong"},
         UNCHANGED <<curState, step, round, job, g_stTestHdr>>
  PROVE  Pairs' /\ Halves' /\ Waiting'
<1> DEFINE n == Len(toServer)
<1>1. /\ Len(toServer') = n - 1 /\ n \in Nat \ {0}
      /\ toServer' = <<>> <=> n = 1
      /\ \A i \in 1 .. n - 1 : toServer'[i] = toServer[i + 1]
      /\ toServer[1].kind = "hdr"
  BY Served DEF Queues
<1> HIDE DEF n
<1>2. \A i \in 1 .. n - 1 : IF toServer[i].kind = "hdr"
                            THEN Pair(toServer[i].hdr, toServer[i].id, toServer[i + 1])
                            ELSE toServer[i + 1].kind = "hdr"
  BY DEF Queues, Pairs, n
<1>3. Pairs'
  <2>1. toServer' # <<>> => /\ srv'.pc = "data" => Pair(srv'.hdr, srv'.id, toServer'[1])
                            /\ toServer'[1].kind = "data"
    <3>1. toServer' # <<>> => 1 \in 1 .. n - 1
      BY <1>1
    <3>2. toServer' # <<>> => Pair(toServer[1].hdr, toServer[1].id, toServer[1 + 1]) /\ toServer'[1] = toServer[1 + 1]
      BY <1>1, <1>2, <3>1
    <3> QED
      BY <3>2 DEF Pair
  <2>2. ASSUME NEW i \in 1 .. Len(toServer') - 1
        PROVE  IF toServer'[i].kind = "hdr"
               THEN Pair(toServer'[i].hdr, toServer'[i].id, toServer'[i + 1])
               ELSE toServer'[i + 1].kind = "hdr"
    <3>1. i \in 1 .. n - 1 /\ i + 1 \in 1 .. n - 1
      BY <1>1, <2>2
    <3>2. toServer'[i] = toServer[i + 1] /\ toServer'[i + 1] = toServer[(i + 1) + 1]
      BY <1>1, <3>1
    <3> QED
      BY <1>2, <3>1, <3>2
  <2> QED
    BY <2>1, <2>2 DEF Pairs, Behind
<1>4. Halves'
  <2>1. /\ Half' = Half
        /\ toServer' # <<>> \/ srv'.pc = "data" => LastHdr' = LastHdr /\ LastId' = LastId
    <3>1. CASE n = 1
      <4>1. Half' /\ Half
        BY <1>1, <3>1 DEF Half, Behind, n
      <4>2. LastHdr' = srv'.hdr /\ LastHdr = toServer[1].hdr /\ LastId' = srv'.id /\ LastId = toServer[1].id
        BY <1>1, <3>1 DEF LastHdr, LastId, n
      <4> QED
        BY <1>1, <3>1, <4>1, <4>2 DEF Half
    <3>2. CASE n # 1
      <4>1. toServer' # <<>> /\ toServer'[Len(toServer')] = toServer[n]
        <5>1. n - 1 \in 1 .. n - 1 /\ (n - 1) + 1 = n
          BY <1>1, <3>2
        <5> QED
          BY <1>1, <3>2, <5>1
      <4> QED
        BY <4>1 DEF Half, LastHdr, LastId, n
    <3> QED
      BY <3>1, <3>2
  <2> QED
    BY <2>1 DEF Queues, Halves, Alive
<1>5. Waiting'
  <2>0. SUFFICES ASSUME ~Lost PROVE Waiting'
    BY DEF Waiting, Lost, Ended, Cutting
  <2>1. \A i \in 1 .. n - 1 : toServer[i].kind = "hdr" /\ Asks(toServer[i].hdr) =>
           i + 1 = n /\ Waits(toServer[i].hdr, toServer[i].id, toServer[i + 1].name)
    BY <2>0 DEF Queues, Waiting, n
  <2>2. srv'.pc = "data" /\ toServer' # <<>> /\ Asks(srv'.hdr) =>
           Len(toServer') = 1 /\ Waits(srv'.hdr, srv'.id, toServer'[1].name)
    <3>1. CASE srv'.pc = "data" /\ toServer' # <<>> /\ Asks(srv'.hdr)
      <4>1. 1 \in 1 .. n - 1
        BY <1>1, <3>1
      <4>2. 1 + 1 = n /\ Waits(toServer[1].hdr, toServer[1].id, toServer[1 + 1].name)
        BY <1>1, <2>1, <3>1, <4>1
      <4>3. Len(toServer') = 1 /\ toServer'[1] = toServer[1 + 1]
        BY <1>1, <4>1, <4>2
      <4> QED
        BY <4>2, <4>3
    <3> QED
      BY <3>1
  <2>3. ASSUME NEW i \in 1 .. Len(toServer') - 1, toServer'[i].kind = "hdr", Asks(toServer'[i].hdr)
        PROVE  /\ i + 1 = Len(toServer')
               /\ Waits(toServer'[i].hdr, toServer'[i].id, toServer'[i + 1].name)
    <3>1. i \in 1 .. n - 1 /\ i + 1 \in 1 .. n - 1
      BY <1>1, <2>3
    <3>2. toServer'[i] = toServer[i + 1] /\ toServer'[i + 1] = toServer[(i + 1) + 1]
      BY <1>1, <3>1
    <3>3. (i + 1) + 1 = n /\ Waits(toServer[i + 1].hdr, toServer[i + 1].id, toServer[(i + 1) + 1].name)
      BY <2>1, <2>3, <3>1, <3>2
    <3> QED
      BY <1>1, <3>2, <3>3
  <2> QED
    BY <2>2, <2>3 DEF Waiting, Waits, Asks, mod
<1> QED
  BY <1>3, <1>4, <1>5

\* A message it takes is the second of two.
LEMMA DataTaken ==
  ASSUME TypeOK, Queues, Alive, Behind, toServer # <<>>, toServer' = Tail(toServer), Cutting,
         srv'.pc \in {"idle", "body", "list"},
         UNCHANGED <<curState, step, round, job, g_stTestHdr>>
  PROVE  Pairs' /\ Halves' /\ Waiting'
<1> DEFINE n == Len(toServer)
<1>1. /\ Len(toServer') = n - 1 /\ n \in Nat \ {0}
      /\ toServer' = <<>> <=> n = 1
      /\ \A i \in 1 .. n - 1 : toServer'[i] = toServer[i + 1]
      /\ toServer[1].kind = "data"
  BY Served DEF Queues
<1> HIDE DEF n
<1>2. \A i \in 1 .. n - 1 : IF toServer[i].kind = "hdr"
                            THEN Pair(toServer[i].hdr, toServer[i].id, toServer[i + 1])
                            ELSE toServer[i + 1].kind = "hdr"
  BY DEF Queues, Pairs, n
<1>3. Pairs'
  <2>1. toServer' # <<>> => toServer'[1].kind = "hdr"
    <3>1. toServer' # <<>> => 1 \in 1 .. n - 1
      BY <1>1
    <3>2. toServer' # <<>> => toServer[1 + 1].kind = "hdr" /\ toServer'[1] = toServer[1 + 1]
      BY <1>1, <1>2, <3>1
    <3> QED
      BY <3>2
  <2>2. ASSUME NEW i \in 1 .. Len(toServer') - 1
        PROVE  IF toServer'[i].kind = "hdr"
               THEN Pair(toServer'[i].hdr, toServer'[i].id, toServer'[i + 1])
               ELSE toServer'[i + 1].kind = "hdr"
    <3>1. i \in 1 .. n - 1 /\ i + 1 \in 1 .. n - 1
      BY <1>1, <2>2
    <3>2. toServer'[i] = toServer[i + 1] /\ toServer'[i + 1] = toServer[(i + 1) + 1]
      BY <1>1, <3>1
    <3> QED
      BY <1>2, <3>1, <3>2
  <2> QED
    BY <2>1, <2>2 DEF Pairs, Behind
<1>4. Halves'
  <2>1. CASE n = 1
    <3>1. ~Half' /\ ~Half
      BY <1>1, <2>1 DEF Half, Behind, n
    <3> QED
      BY <3>1 DEF Queues, Halves
  <2>2. CASE n # 1
    <3>1. toServer' # <<>> /\ toServer'[Len(toServer')] = toServer[n]
      <4>1. n - 1 \in 1 .. n - 1 /\ (n - 1) + 1 = n
        BY <1>1, <2>2
      <4> QED
        BY <1>1, <2>2, <4>1
    <3>2. Half' = Half /\ LastHdr' = LastHdr /\ LastId' = LastId
      BY <3>1 DEF Half, LastHdr, LastId, n
    <3> QED
      BY <3>2 DEF Queues, Halves
  <2> QED
    BY <2>1, <2>2
<1>5. Waiting'
  <2>0. SUFFICES ASSUME ~Lost PROVE Waiting'
    BY DEF Waiting, Lost, Ended, Cutting
  <2>1. \A i \in 1 .. n - 1 : toServer[i].kind = "hdr" /\ Asks(toServer[i].hdr) =>
           i + 1 = n /\ Waits(toServer[i].hdr, toServer[i].id, toServer[i + 1].name)
    BY <2>0 DEF Queues, Waiting, n
  <2>3. ASSUME NEW i \in 1 .. Len(toServer') - 1, toServer'[i].kind = "hdr", Asks(toServer'[i].hdr)
        PROVE  /\ i + 1 = Len(toServer')
               /\ Waits(toServer'[i].hdr, toServer'[i].id, toServer'[i + 1].name)
    <3>1. i \in 1 .. n - 1 /\ i + 1 \in 1 .. n - 1
      BY <1>1, <2>3
    <3>2. toServer'[i] = toServer[i + 1] /\ toServer'[i + 1] = toServer[(i + 1) + 1]
      BY <1>1, <3>1
    <3>3. (i + 1) + 1 = n /\ Waits(toServer[i + 1].hdr, toServer[i + 1].id, toServer[(i + 1) + 1].name)
      BY <2>1, <2>3, <3>1, <3>2
    <3> QED
      BY <1>1, <3>2, <3>3
  <2> QED
    BY <2>3 DEF Waiting, Waits, Asks, mod
<1> QED
  BY <1>3, <1>4, <1>5

\* An answer is no message to the server.
LEMMA NothingTaken ==
  ASSUME Queues, Alive, ~Behind, ~Behind',
         UNCHANGED <<curState, step, toServer, round, job, g_stTestHdr, cut>>
  PROVE  Pairs' /\ Halves' /\ Waiting'
<1>1. Alive' => Pairs'
  BY DEF Queues, Pairs, Behind
<1>2. (Half' <=> Half) /\ (toServer # <<>> => LastHdr' = LastHdr /\ LastId' = LastId)
  BY DEF Half, LastHdr, LastId
<1>3. Half => toServer # <<>>
  BY DEF Half
<1>4. Halves'
  BY <1>2, <1>3 DEF Queues, Halves, Behind
<1>5. Waiting'
  BY DEF Queues, Waiting, Waits, Lost, Ended, Behind, mod
<1> QED
  BY <1>1, <1>4, <1>5 DEF Pairs

\* The thread ends: the queue it leaves behind is no longer read.
LEMMA QueuesHangUp ==
  ASSUME TypeOK, Queues, HangUp, UNCHANGED <<curState, step, toClient, round, job, g_stTestHdr>>,
         Cutting
  PROVE  Queues'
<1>1. ~Alive'
  BY DEF HangUp, Alive, TypeOK
<1> QED
  BY <1>1, SameToClient, PeerGone DEF Queues

LEMMA QueuesTake ==
  ASSUME TypeOK, Queues, TakeHdr \/ ServeSet \/ ServerEnds
  PROVE  Queues'
<1>1. CASE HangUp
  <2>1. UNCHANGED <<curState, step, toClient, round, job, g_stTestHdr, cut>>
    BY DEF TakeHdr, ServeSet, ServerEnds, own, menu, history
  <2> QED
    BY <1>1, <2>1, QueuesHangUp DEF Cutting
<1>2. CASE TakeHdr /\ ~HangUp
  <2> DEFINE msg == Head(toServer)
  <2>1. /\ Alive /\ ~Behind /\ toServer # <<>> /\ toServer' = Tail(toServer)
        /\ UNCHANGED <<curState, step, toClient, round, job, g_stTestHdr, cut>>
        /\ srv' = [srv EXCEPT !.pc = "data", !.hdr = msg.hdr, !.id = msg.id]
    BY <1>2 DEF TakeHdr, Alive, Behind, own, menu, history
  <2>2. msg = toServer[1]
    BY <2>1, Served DEF Queues
  <2>3. srv'.pc = "data" /\ srv'.hdr = toServer[1].hdr /\ srv'.id = toServer[1].id
    BY <2>1, <2>2 DEF TypeOK
  <2>4. Pairs' /\ Halves' /\ Waiting'
    BY <2>1, <2>3, HdrTaken DEF Cutting
  <2>5. ToClient'
    BY <2>1, SameToClient DEF Queues, Cutting
  <2>6. Serving'
    BY <2>1, <2>3 DEF Queues, Serving, Lost, Ended
  <2> QED
    BY <2>4, <2>5, <2>6 DEF Queues
<1>3. CASE ServeSet /\ ~HangUp
  <2>1. /\ Alive /\ srv.pc = "data" /\ toServer # <<>> /\ toServer' = Tail(toServer)
        /\ UNCHANGED <<curState, step, toClient, round, job, g_stTestHdr, cut>>
        /\ srv'.pc = "idle"
    BY <1>3 DEF ServeSet, Alive, own, menu, history, TypeOK
  <2>2. Pairs' /\ Halves' /\ Waiting'
    BY <2>1, DataTaken DEF Behind, Cutting
  <2>3. ToClient'
    BY <2>1, SameToClient DEF Queues, Cutting
  <2>4. Serving'
    BY <2>1 DEF Queues, Serving, Lost, Ended, Behind
  <2> QED
    BY <2>2, <2>3, <2>4 DEF Queues
<1>4. ServerEnds => HangUp
  BY DEF ServerEnds
<1> QED
  BY <1>1, <1>2, <1>3, <1>4

\* A question that is taken is the last message, and the client waits.
LEMMA QuestionTaken ==
  ASSUME TypeOK, Queues, srv.pc = "data", srv.hdr.cmd \in {"GET", "LIST"}, toServer # <<>>,
         toServer' = Tail(toServer), ~Lost
  PROVE  /\ toClient = <<>> /\ toServer' = <<>> /\ srv.id = round
         /\ srv.hdr.cmd = "GET" => /\ step = "recvHdr" /\ Head(toServer).name = job.name
                                   /\ srv.hdr.mod = mod
         /\ srv.hdr.cmd = "LIST" => step = "recvName"
<1>1. Alive
  BY DEF Alive
<1>2. Len(toServer) = 1 /\ Waits(srv.hdr, srv.id, toServer[1].name)
  BY <1>1 DEF Queues, Waiting, Asks
<1>3. Head(toServer) = toServer[1] /\ toServer' = <<>>
  BY <1>1, <1>2, Served DEF Queues
<1>4. toClient = <<>>
  BY <1>1 DEF Queues, Serving, Behind
<1> QED
  BY <1>2, <1>3, <1>4 DEF Waits

\* The queue with an answer more in it.
LEMMA AnswerAdded ==
  ASSUME TypeOK, NEW msg \in Message, toClient' = Append(toClient, msg)
  PROVE  /\ Len(toClient') = Len(toClient) + 1 /\ Len(toClient) \in Nat
         /\ \A i \in 1..Len(toClient) : toClient'[i] = toClient[i]
         /\ toClient'[Len(toClient) + 1] = msg
         /\ toClient = <<>> <=> Len(toClient) = 0
BY Added DEF TypeOK

\* The answer to a GET is begun, for the name that was asked for or, of a request
\* in pieces, another.
LEMMA QueuesAnswersGet ==
  ASSUME TypeOK, Queues, Cutting, NEW name \in Names, AnswersGet(name), store[name] # Absent,
         srv.pc = "data", srv.hdr.cmd = "GET", toServer # <<>>, toServer' = Tail(toServer),
         ~Lost => Named(name)',
         UNCHANGED <<curState, step, round, job, g_stTestHdr, store>>
  PROVE  Queues'
<1> DEFINE dlen == PackedLen(Carried(srv.hdr.mod, store[name]))
           hdr == Answer(srv.hdr, dlen)
<1>1. /\ srv'.pc = "body" /\ srv'.name = name /\ srv'.hdr = srv.hdr /\ srv'.id = srv.id
      /\ toClient' = Append(toClient, HdrMsg(hdr, srv.id))
      /\ Alive /\ Behind
  BY DEF TypeOK, AnswersGet, Alive, Behind
<1>2. Pairs' /\ Halves' /\ Waiting'
  BY <1>1, DataTaken
<1>3. CASE Lost
  <2>1. Lost'
    BY <1>3 DEF Lost, Ended, Cutting
  <2> QED
    BY <1>2, <2>1 DEF Queues, ToClient, Serving
<1>4. CASE ~Lost
  <2>1. toClient = <<>> /\ toServer' = <<>> /\ srv.id = round /\ step = "recvHdr"
    BY <1>4, QuestionTaken
  <2>2. hdr \in Header /\ hdr.dlen = dlen
    <3>1. store[name] \in File
      BY DEF TypeOK, Files
    <3>2. dlen \in Nat
      BY <3>1, Fields, CarriedTypes
    <3> HIDE DEF dlen
    <3> QED
      BY <3>2, Fields, HeaderTypes
  <2>3. dlen = BodyLen'
    BY <1>1 DEF BodyLen
  <2> HIDE DEF hdr, dlen
  <2>4. /\ HdrMsg(hdr, srv.id) \in Message /\ HdrMsg(hdr, srv.id).kind = "hdr"
        /\ HdrMsg(hdr, srv.id).hdr = hdr /\ HdrMsg(hdr, srv.id).id = srv.id
    BY <2>2, Fields, Messages
  <2>5. Len(toClient') = 1 /\ toClient'[1] = HdrMsg(hdr, srv.id)
    BY <1>1, <2>1, <2>4, AnswerAdded
  <2>6. ToClient'
    BY <2>1, <2>4, <2>5 DEF ToClient, Question
  <2>7. Named(srv.name)'
    BY <1>1, <1>4 DEF Named, mod
  <2>8. Serving'
    BY <1>1, <2>1, <2>2, <2>3, <2>4, <2>5, <2>7 DEF Serving, Behind
  <2> QED
    BY <1>2, <2>6, <2>8 DEF Queues
<1> QED
  BY <1>3, <1>4

LEMMA QueuesServeGet ==
  ASSUME TypeOK, Queues, ServeGet
  PROVE  Queues'
<1>1. /\ srv.pc = "data" /\ srv.hdr.cmd = "GET" /\ toServer # <<>>
      /\ toServer' = Tail(toServer) /\ Cutting
      /\ UNCHANGED <<curState, step, round, job, g_stTestHdr, store>>
  BY DEF ServeGet, own, menu, history, Cutting
<1>2. PICK name \in Names : name = Head(toServer).name
  <2>1. Head(toServer) \in Message /\ Head(toServer).kind = "data"
    BY <1>1, Served DEF Queues, Alive, Behind
  <2> QED
    BY <2>1, MessageFields
<1>3. CASE HangUp /\ UNCHANGED toClient
  BY <1>1, <1>3, QueuesHangUp
<1>4. CASE store[name] # Absent /\ AnswersGet(name)
  <2>1. ~Lost => name = job.name
    BY <1>1, <1>2, QuestionTaken
  <2>2. ~Lost => Named(name)'
    BY <1>1, <2>1 DEF Named
  <2> QED
    BY <1>1, <1>4, <2>2, QueuesAnswersGet
<1> QED
  BY <1>2, <1>3, <1>4 DEF ServeGet

LEMMA QueuesSendBody ==
  ASSUME TypeOK, Queues, InHand, WhatSurvives, SendBody
  PROVE  Queues'
<1> DEFINE file == Carried(srv.hdr.mod, store[srv.name])
           msg == DataMsg(srv.name, file, srv.id)
<1>1. /\ Alive /\ srv.pc = "body" /\ toClient' = Append(toClient, msg)
      /\ UNCHANGED <<curState, step, round, job, g_stTestHdr, toServer, cut>>
      /\ srv'.pc = "idle"
  BY DEF SendBody, Alive, own, menu, history, TypeOK
<1>2. Pairs' /\ Halves' /\ Waiting'
  BY <1>1, NothingTaken DEF Behind
<1>3. CASE Lost
  BY <1>1, <1>2, <1>3 DEF Queues, ToClient, Serving, Lost, Ended
<1>4. CASE ~Lost
  <2>1. /\ toServer = <<>> /\ srv.id = round /\ Named(srv.name)
        /\ \/ step = "recvHdr" /\ Len(toClient) = 1 /\ toClient[1].hdr.dlen = BodyLen
           \/ step = "recvBody" /\ toClient = <<>> /\ job.len = BodyLen
    BY <1>1, <1>4 DEF Queues, Serving
  <2>2. file \in File /\ Sound(srv.name, file)
    <3>1. store[srv.name] \in File /\ Sound(srv.name, store[srv.name])
      BY <1>1, Fields DEF TypeOK, Files, InHand, WhatSurvives
    <3> QED
      BY <3>1, Fields, CarriedTypes, CarriedSound
  <2>3. BodyLen = PackedLen(file)
    BY DEF BodyLen
  <2> HIDE DEF file
  <2>4. /\ msg \in Message /\ msg.kind = "data" /\ msg.name = srv.name /\ msg.file = file
        /\ msg.id = srv.id
    BY <2>2, Fields, Messages
  <2> HIDE DEF msg
  <2>5. /\ Len(toClient') = Len(toClient) + 1
        /\ \A i \in 1..Len(toClient) : toClient'[i] = toClient[i]
        /\ toClient'[Len(toClient) + 1] = msg
        /\ toClient = <<>> <=> Len(toClient) = 0
    BY <1>1, <2>4, AnswerAdded
  <2>6. Serving'
    BY <1>1, <2>1 DEF Serving, Behind
  <2>7. CASE step = "recvHdr" /\ Len(toClient) = 1 /\ toClient[1].hdr.dlen = BodyLen
    <3>1. Len(toClient') = 2 /\ toClient'[1] = toClient[1] /\ toClient'[2] = msg /\ toClient # <<>>
      BY <2>5, <2>7
    <3>2. toClient[1].kind = "hdr" /\ toClient[1].id = round
      BY <1>4, <2>7, <3>1 DEF Queues, ToClient
    <3>3. ToClient'
      BY <1>1, <2>1, <2>2, <2>3, <2>4, <2>7, <3>1, <3>2 DEF ToClient, Body, Named, Question, mod
    <3> QED
      BY <1>2, <2>6, <3>3 DEF Queues
  <2>8. CASE step = "recvBody" /\ toClient = <<>> /\ job.len = BodyLen
    <3>1. Len(toClient') = 1 /\ toClient'[1] = msg
      BY <2>5, <2>8
    <3>2. ToClient'
      BY <1>1, <2>1, <2>2, <2>3, <2>4, <2>8, <3>1 DEF ToClient, Body, Named, Question, mod
    <3> QED
      BY <1>2, <2>6, <3>2 DEF Queues
  <2> QED
    BY <2>1, <2>7, <2>8
<1> QED
  BY <1>3, <1>4

LEMMA QueuesServeList ==
  ASSUME TypeOK, Queues, ServeList
  PROVE  Queues'
<1>1. /\ Alive /\ srv.pc = "data" /\ srv.hdr.cmd = "LIST" /\ toServer # <<>>
      /\ toServer' = Tail(toServer)
      /\ UNCHANGED <<curState, step, round, job, g_stTestHdr, toClient, cut>>
      /\ srv'.pc = "list" /\ srv'.id = srv.id
  BY DEF ServeList, Alive, own, menu, history, TypeOK
<1>2. Pairs' /\ Halves' /\ Waiting'
  BY <1>1, DataTaken DEF Behind, Cutting
<1>3. ToClient'
  BY <1>1, SameToClient DEF Queues, Cutting
<1>4. CASE Lost
  BY <1>1, <1>2, <1>3, <1>4 DEF Queues, Serving, Lost, Ended
<1>5. CASE ~Lost
  <2>1. toClient = <<>> /\ toServer' = <<>> /\ srv.id = round /\ step = "recvName"
    BY <1>1, <1>5, QuestionTaken
  <2>2. Len(toClient') = 0
    BY <1>1, <2>1, EmptySeq
  <2>3. Serving'
    BY <1>1, <2>1, <2>2 DEF Serving, Behind
  <2> QED
    BY <1>2, <1>3, <2>3 DEF Queues
<1> QED
  BY <1>4, <1>5

LEMMA QueuesSendName ==
  ASSUME TypeOK, Queues, SendName
  PROVE  Queues'
<1>1. /\ Alive /\ srv.pc = "list" /\ srv'.pc \in {"idle", "list"} /\ srv'.id = srv.id
      /\ UNCHANGED <<curState, step, round, job, g_stTestHdr, toServer, cut>>
  BY DEF SendName, Alive, own, menu, history, TypeOK
<1>2. Pairs' /\ Halves' /\ Waiting'
  BY <1>1, NothingTaken DEF Behind
<1>3. PICK msg \in Message : /\ toClient' = Append(toClient, msg)
                             /\ msg.kind = "name" /\ msg.id = srv.id
                             /\ msg.path = "end" => srv'.pc = "idle"
  <2>1. /\ \A n \in Names : /\ NameMsg(n, srv.id) \in Message /\ NameMsg(n, srv.id).kind = "name"
                            /\ NameMsg(n, srv.id).id = srv.id /\ NameMsg(n, srv.id).path # "end"
        /\ EndMsg(srv.id) \in Message /\ EndMsg(srv.id).kind = "name" /\ EndMsg(srv.id).id = srv.id
    BY Fields, Messages
  <2>2. CASE \E n \in srv.left : toClient' = Append(toClient, NameMsg(n, srv.id))
    BY <2>1, <2>2, Fields
  <2>3. CASE toClient' = Append(toClient, EndMsg(srv.id)) /\ srv'.pc = "idle"
    BY <2>1, <2>3
  <2> QED
    BY <2>2, <2>3 DEF SendName, TypeOK
<1>4. /\ Len(toClient') = Len(toClient) + 1 /\ Len(toClient) \in Nat
      /\ \A i \in 1..Len(toClient) : toClient'[i] = toClient[i]
      /\ toClient'[Len(toClient) + 1] = msg
  BY <1>3, AnswerAdded
<1>5. CASE Lost
  BY <1>1, <1>2, <1>5 DEF Queues, ToClient, Serving, Lost, Ended
<1>6. CASE ~Lost
  <2>1. /\ toServer = <<>> /\ srv.id = round /\ step = "recvName"
        /\ \A i \in 1..Len(toClient) : toClient[i].path # "end"
        /\ \A i \in 1..Len(toClient) : toClient[i].kind = "name" /\ toClient[i].id = round
    BY <1>1, <1>6 DEF Queues, Serving, ToClient
  <2>2. ASSUME NEW i \in 1..Len(toClient')
        PROVE  /\ toClient'[i].kind = "name" /\ toClient'[i].id = round
               /\ toClient'[i].path = "end" => i = Len(toClient') /\ srv'.pc = "idle"
    <3>1. CASE i = Len(toClient) + 1
      BY <1>3, <1>4, <2>1, <3>1
    <3>2. CASE i # Len(toClient) + 1
      BY <1>4, <2>1, <2>2, <3>2
    <3> QED
      BY <3>1, <3>2
  <2>3. ToClient'
    BY <1>1, <2>1, <2>2 DEF ToClient, Question
  <2>4. Serving'
    BY <1>1, <2>1, <2>2 DEF Serving, Behind
  <2> QED
    BY <1>2, <2>3, <2>4 DEF Queues
<1> QED
  BY <1>5, <1>6

-----------------------------------------------------------------------------
(* What a LIST has shown.                                                  *)

\* No listing is waited for after the step, or nothing of one has moved.
LEMMA NotListed ==
  ASSUME Listed, step' # "recvName", step' \in {"name", "sendHdr", "sendData"} => shown' = {}
  PROVE  Listed'
BY DEF Listed

LEMMA ListedClient ==
  ASSUME TypeOK, Control, Queues, Listed,
         \/ Menus \/ AskNameFails \/ NoMemory \/ SaveFails \/ File_stateDataDeal \/ SigPipe
         \/ SendHdr \/ RecvHdr \/ RecvBody \/ NoHdr \/ NoBody \/ RecvFails \/ Save
  PROVE  Listed'
<1>1. CASE Menus \/ AskNameFails \/ NoMemory \/ File_stateDataDeal \/ SigPipe
  <2>1. step' # "recvName" /\ (step' \in {"name", "sendHdr", "sendData"} => shown' = {})
    BY <1>1 DEF Menus, File_stateTcpInit, File_stateSelModule, File_stateSelCmd, AskName,
                AskNameFails, NoMemory, File_stateDataDeal, SigPipe, Control, Listed, Fail, Killed,
                Return, own
  <2> QED
    BY <2>1, NotListed
<1>2. CASE \/ SendHdr \/ RecvHdr \/ RecvBody \/ NoHdr \/ NoBody \/ RecvFails \/ Save \/ SaveFails
  <2>1. step' # "recvName" /\ (step' \in {"name", "sendHdr", "sendData"} => shown' = {})
    BY <1>2 DEF SendHdr, RecvHdr, RecvBody, NoHdr, NoBody, RecvFails, Save, SaveFails, Listed,
                Fail, Killed, Return, own
  <2> QED
    BY <2>1, NotListed
<1> QED
  BY <1>1, <1>2

\* One record less on the way.
LEMMA RecordTaken ==
  ASSUME Len(toClient) \in Nat \ {0}, Len(toClient') = Len(toClient) - 1,
         \A i \in 1 .. Len(toClient) - 1 : toClient'[i] = toClient[i + 1],
         toClient[1].path # "end"
  PROVE  InTransit = {toClient[1].name} \cup InTransit'
<1>1. InTransit \subseteq {toClient[1].name} \cup InTransit'
  <2> SUFFICES ASSUME NEW i \in 1..Len(toClient), toClient[i].path # "end", i # 1
               PROVE  toClient[i].name \in InTransit'
    BY DEF InTransit
  <2>1. i - 1 \in 1..Len(toClient') /\ toClient'[i - 1] = toClient[(i - 1) + 1] /\ (i - 1) + 1 = i
    OBVIOUS
  <2> QED
    BY <2>1 DEF InTransit
<1>2. InTransit' \subseteq InTransit
  <2> SUFFICES ASSUME NEW i \in 1..Len(toClient'), toClient'[i].path # "end"
               PROVE  toClient'[i].name \in InTransit
    BY DEF InTransit
  <2>1. i + 1 \in 1..Len(toClient) /\ toClient'[i] = toClient[i + 1]
    OBVIOUS
  <2> QED
    BY <2>1 DEF InTransit
<1>3. toClient[1].name \in InTransit
  BY DEF InTransit
<1> QED
  BY <1>1, <1>2, <1>3

\* One record more, or the end mark, which is none.
LEMMA RecordAdded ==
  ASSUME Len(toClient) \in Nat, Len(toClient') = Len(toClient) + 1,
         \A i \in 1..Len(toClient) : toClient'[i] = toClient[i],
         NEW msg, toClient'[Len(toClient) + 1] = msg
  PROVE  InTransit' = IF msg.path = "end" THEN InTransit ELSE InTransit \cup {msg.name}
<1>1. \A i \in 1..Len(toClient') : i = Len(toClient) + 1 \/ i \in 1..Len(toClient)
  OBVIOUS
<1>2. \A i \in 1..Len(toClient) : i \in 1..Len(toClient')
  OBVIOUS
<1>3. Len(toClient) + 1 \in 1..Len(toClient')
  OBVIOUS
<1>4. InTransit \subseteq InTransit'
  BY <1>2 DEF InTransit
<1>5. msg.path # "end" => msg.name \in InTransit'
  BY <1>3 DEF InTransit
<1>6. InTransit' \subseteq InTransit \cup IF msg.path = "end" THEN {} ELSE {msg.name}
  <2> SUFFICES ASSUME NEW i \in 1..Len(toClient'), toClient'[i].path # "end"
               PROVE  \/ toClient'[i].name \in InTransit
                      \/ msg.path # "end" /\ toClient'[i].name = msg.name
    BY DEF InTransit
  <2> QED
    BY <1>1 DEF InTransit
<1> QED
  BY <1>4, <1>5, <1>6

LEMMA ListedRecv ==
  ASSUME TypeOK, Control, Queues, Listed, cut = "none", SendData \/ RecvName \/ NameLost
  PROVE  Listed'
<1>1. CASE SendData
  <2>1. /\ step = "sendData" /\ step' \notin {"name", "sendHdr", "sendData"}
        /\ UNCHANGED <<shown, toClient, srv, store>> /\ ~Lost /\ ~Question
    BY <1>1 DEF SendData, SetSent, Fail, Return, server, Control, Lost, Ended, Question
  <2>2. shown = {} /\ toClient = <<>> /\ srv.pc # "list"
    BY <2>1, NoQuestion DEF Listed, Queues, ToClient, Alive
  <2> QED
    BY <2>1, <2>2 DEF Listed
<1>2. CASE RecvName
  <2>1. /\ ~Ended /\ Recv /\ toClient # <<>> /\ step = "recvName" /\ step' \in {"start", "recvName"}
        /\ UNCHANGED <<toServer, srv, store>> /\ ToClient
    BY <1>2 DEF RecvName, Control, Ended, Recv, Return, server, Queues
  <2>2. /\ Len(toClient') = Len(toClient) - 1 /\ Len(toClient) \in Nat \ {0}
        /\ \A i \in 1 .. Len(toClient) - 1 : toClient'[i] = toClient[i + 1]
        /\ Head(toClient) = toClient[1] /\ (toClient' = <<>> <=> Len(toClient) = 1)
    BY <2>1, Arrived
  <2>3. CASE toClient[1].path = "end"
    BY <1>2, <2>1, <2>2, <2>3, NotListed DEF RecvName, Return
  <2>4. CASE toClient[1].path # "end"
    <3>1. InTransit = {toClient[1].name} \cup InTransit'
      BY <2>2, <2>4, RecordTaken
    <3>2. shown' = shown \cup {toClient[1].name}
      BY <1>2, <2>2, <2>4 DEF RecvName
    <3>3. shown' \cup InTransit' = shown \cup InTransit
      BY <3>1, <3>2
    <3>4. Alive => srv.pc # "data" /\ toServer = <<>>
      BY <2>1, Answered DEF Lost
    <3>5. toClient' # <<>> => toClient'[Len(toClient')] = toClient[Len(toClient)]
      <4>1. toClient' # <<>> => Len(toClient) - 1 \in 1 .. Len(toClient) - 1
        BY <2>2
      <4>2. (Len(toClient) - 1) + 1 = Len(toClient)
        BY <2>2
      <4> QED
        BY <2>2, <4>1, <4>2
    <3>6. Present' = Present
      BY <2>1 DEF Present
    <3>7. /\ srv.pc = "list" => shown' \cup InTransit' \cup srv.left = Present
          /\ toClient' # <<>> /\ toClient'[Len(toClient')].path = "end" => shown' \cup InTransit' = Present
      BY <2>1, <3>3, <3>5 DEF Listed
    <3> QED
      BY <2>1, <3>4, <3>6, <3>7 DEF Listed, Alive
  <2> QED
    BY <2>3, <2>4
<1>3. CASE NameLost
  <2>1. /\ step = "recvName" /\ step' \in {"start", "recvName"}
        /\ UNCHANGED <<shown, toClient, toServer, srv, store>>
    BY <1>3 DEF NameLost, Fail, Return, own, server
  <2>2. Listed' \/ step' = "recvName"
    BY <2>1, NotListed
  <2>3. InTransit' = InTransit /\ Present' = Present /\ Alive' = Alive
    BY <2>1 DEF InTransit, Present, Alive
  <2> QED
    BY <2>1, <2>2, <2>3 DEF Listed
<1> QED
  BY <1>1, <1>2, <1>3

LEMMA ListedServer ==
  ASSUME TypeOK, Control, Queues, Listed, cut = "none", ServesWhole \/ ServerEnds
  PROVE  Listed'
<1>0. UNCHANGED <<curState, step, shown>>
  BY DEF ServesWhole, TakeHdr, ServeSet, ServeGet, AnswersGet, SendBody, ServeList, SendName, ServerEnds, own
<1>1. CASE step # "recvName"
  BY <1>0, <1>1, NotListed DEF Listed
<1>2. CASE step = "recvName"
  <2>0. ~Lost
    BY <1>2 DEF Control, Lost, Ended
  <2>1. CASE TakeHdr \/ ServeSet
    <3>1. /\ Alive /\ toServer # <<>> /\ UNCHANGED toClient /\ srv'.pc # "list"
      BY <2>1 DEF TakeHdr, ServeSet, HangUp, Alive, TypeOK
    <3>2. toClient = <<>> /\ shown = {}
      BY <1>2, <2>0, <3>1 DEF Queues, Serving, Listed
    <3> QED
      BY <1>0, <1>2, <3>1, <3>2 DEF Listed
  <2>2. CASE ServeGet
    <3>1. /\ srv.pc = "data" /\ srv.hdr.cmd = "GET" /\ toServer # <<>> /\ toServer' = Tail(toServer)
      BY <2>2 DEF ServeGet, AnswersGet
    <3>2. step = "recvHdr"
      BY <2>0, <3>1, QuestionTaken
    <3> QED
      BY <1>2, <3>2
  <2>3. CASE SendBody
    <3>1. step # "recvName"
      BY <2>0, <2>3 DEF SendBody, Queues, Serving, Alive
    <3> QED
      BY <1>2, <3>1
  <2>4. CASE ServeList
    <3>1. /\ srv.pc = "data" /\ srv.hdr.cmd = "LIST" /\ toServer # <<>> /\ toServer' = Tail(toServer)
          /\ UNCHANGED <<toClient, store>> /\ Alive
          /\ srv'.pc = "list" /\ srv'.left = {n \in Names : store[n] # Absent}
      BY <2>4 DEF ServeList, TypeOK, Alive
    <3>2. toClient = <<>> /\ toServer' = <<>>
      BY <2>0, <3>1, QuestionTaken
    <3>3. shown = {}
      BY <1>2, <3>1 DEF Listed
    <3>4. Len(toClient') = 0
      BY <3>1, <3>2, EmptySeq
    <3>5. InTransit' = {} /\ srv'.left = Present'
      BY <3>1, <3>4 DEF InTransit, Present
    <3> QED
      BY <1>0, <3>1, <3>2, <3>3, <3>5 DEF Listed
  <2>5. CASE SendName
    <3>1. /\ Alive /\ srv.pc = "list" /\ UNCHANGED <<toServer, store>> /\ srv.left \subseteq Names
      BY <2>5, Fields DEF SendName, Alive
    <3>2. toServer = <<>> /\ shown \cup InTransit \cup srv.left = Present
      BY <1>2, <2>0, <3>1 DEF Queues, Serving, Listed
    <3>3. Present' = Present
      BY <3>1 DEF Present
    <3>4. CASE \E n \in srv.left : /\ toClient' = Append(toClient, NameMsg(n, srv.id))
                                   /\ srv' = [srv EXCEPT !.left = @ \ {n}]
      <4>1. PICK n \in srv.left : /\ toClient' = Append(toClient, NameMsg(n, srv.id))
                                  /\ srv' = [srv EXCEPT !.left = @ \ {n}]
        BY <3>4
      <4>2. /\ NameMsg(n, srv.id) \in Message /\ NameMsg(n, srv.id).path # "end"
            /\ NameMsg(n, srv.id).name = n
        BY <3>1, Fields, Messages
      <4>3. /\ Len(toClient') = Len(toClient) + 1 /\ Len(toClient) \in Nat
            /\ \A i \in 1..Len(toClient) : toClient'[i] = toClient[i]
            /\ toClient'[Len(toClient) + 1] = NameMsg(n, srv.id)
        BY <4>1, <4>2, AnswerAdded
      <4>4. InTransit' = InTransit \cup {n}
        BY <4>2, <4>3, RecordAdded
      <4>5. srv'.pc = "list" /\ srv'.left = srv.left \ {n}
        BY <3>1, <4>1 DEF TypeOK
      <4>6. toClient'[Len(toClient')].path # "end"
        BY <4>2, <4>3
      <4>7. shown \cup InTransit' \cup srv'.left = Present
        BY <3>2, <4>4, <4>5
      <4> QED
        BY <1>0, <3>1, <3>2, <3>3, <4>5, <4>6, <4>7 DEF Listed
    <3>5. CASE /\ srv.left = {} /\ toClient' = Append(toClient, EndMsg(srv.id))
               /\ srv' = [srv EXCEPT !.pc = "idle"]
      <4>1. EndMsg(srv.id) \in Message /\ EndMsg(srv.id).path = "end"
        BY Fields, Messages
      <4>2. /\ Len(toClient') = Len(toClient) + 1 /\ Len(toClient) \in Nat
            /\ \A i \in 1..Len(toClient) : toClient'[i] = toClient[i]
            /\ toClient'[Len(toClient) + 1] = EndMsg(srv.id)
        BY <3>5, <4>1, AnswerAdded
      <4>3. InTransit' = InTransit
        BY <4>1, <4>2, RecordAdded
      <4>4. srv'.pc = "idle"
        BY <3>5 DEF TypeOK
      <4>5. shown \cup InTransit' = Present
        BY <3>2, <3>5, <4>3
      <4> QED
        BY <1>0, <3>1, <3>2, <3>3, <4>4, <4>5 DEF Listed
    <3> QED
      BY <2>5, <3>4, <3>5 DEF SendName
  <2>6. CASE ServerEnds
    <3>1. /\ UNCHANGED <<toClient, store>> /\ srv'.pc = "gone"
      BY <2>6 DEF ServerEnds, HangUp, TypeOK
    <3>2. InTransit' = InTransit /\ Present' = Present
      BY <3>1 DEF InTransit, Present
    <3> QED
      BY <1>0, <1>2, <3>1, <3>2 DEF Listed, Alive
  <2> QED
    BY <2>1, <2>2, <2>3, <2>4, <2>5, <2>6 DEF ServesWhole
<1> QED
  BY <1>1, <1>2

-----------------------------------------------------------------------------
(* Messages received in pieces.                                            *)

\* A step that takes every message in one piece leaves the history of that alone.
LEMMA NotCut == NextWhole => UNCHANGED cut
BY DEF NextWhole, Menus, GoesWhole, ServesWhole, Failures, File_stateTcpInit, File_stateSelModule,
       File_stateSelCmd, AskName, File_stateDataDeal, SigPipe, SendHdr, SendData, RecvHdr, RecvBody,
       NoHdr, NoBody, RecvFails, Save, RecvName, NameLost, TakeHdr, ServeSet, ServeGet, SendBody,
       ServeList, SendName, AskNameFails, NoMemory, SaveFails, ServerEnds, history

\* One that does not is in the history.
LEMMA IsCut ==
  ASSUME Control, NextCut
  PROVE  cut' # "none"
<1>1. CASE GoesCut
  BY <1>1 DEF GoesCut, HdrInPieces, BodyInPieces, NameInPieces, RecvAstray, InPieces, history
<1>2. CASE ServesCut
  BY <1>2 DEF ServesCut, HdrTakenInPieces, ServeWrong, ServeInPieces, history, Control
<1> QED
  BY <1>1, <1>2 DEF NextCut

\* Out of step, some of the queue is left.
LEMMA SomeTaken ==
  ASSUME TypeOK, RecvAstray
  PROVE  toClient' \in Seq(Message)
<1>1. PICK k \in 0..Len(toClient) : toClient' = SubSeq(toClient, k + 1, Len(toClient))
  BY DEF RecvAstray
<1>2. toClient \in Seq(Message) /\ Len(toClient) \in Nat
  BY DEF TypeOK
<1>3. \A i \in (k + 1) .. Len(toClient) : toClient[i] \in Message
  BY <1>2
<1> QED
  BY <1>1, <1>2, <1>3, SubSeqProperties

LEMMA GoesCutTypes ==
  ASSUME TypeOK, Control, ToClient, GoesCut
  PROVE  TypeOK'
<1>1. job \in [name : Names, file : File, len : Nat] /\ disk \in Files
  BY DEF TypeOK
<1>2. [disk EXCEPT ![job.name] = Part] \in Files /\ [disk EXCEPT ![job.name] = Absent] \in Files
  BY DiskTypes, Fields, ValueTypes
<1>3. CASE HdrInPieces
  <2>1. step = "recvHdr" /\ Recv /\ ~Ended
    BY <1>3 DEF HdrInPieces, InPieces, Control, Ended
  <2>2. toClient' \in Seq(Message) /\ Head(toClient).hdr \in Header
    BY <2>1, Arrived, MessageFields
  <2>3. Head(toClient).hdr.dlen \in Nat
    BY <2>2, HeaderTypes
  <2>4. job' = [job EXCEPT !.len = IF cut' = "piece" THEN Head(toClient).hdr.dlen ELSE 0]
    BY <1>3 DEF HdrInPieces
  <2>5. job' \in [name : Names, file : File, len : Nat]
    BY <1>1, <2>3, <2>4
  <2>6. /\ step' = "recvBody" /\ cut' \in {"piece", "astray"}
        /\ UNCHANGED <<curState, menu, shown, openFiles, disk, sock, peer, toServer, server, round,
                       jsonSets, trouble>>
    BY <1>3 DEF HdrInPieces, InPieces
  <2> QED
    BY <2>2, <2>5, <2>6 DEF TypeOK, menu, server, Steps
<1>4. CASE BodyInPieces
  <2>1. step = "recvBody" /\ Recv /\ ~Ended
    BY <1>4 DEF BodyInPieces, InPieces, Control, Ended
  <2>2. toClient' \in Seq(Message)
    BY <2>1, Arrived
  <2>3. job' \in [name : Names, file : File, len : Nat]
    <3>1. job' = job \/ \E n \in Names : job' = [job EXCEPT !.file = Part, !.name = n]
      BY <1>4 DEF BodyInPieces
    <3> QED
      BY <1>1, <3>1, ValueTypes
  <2>4. disk' \in Files
    BY <1>1, <1>2, <1>4 DEF BodyInPieces
  <2>5. /\ curState' \in {curState, "outside", "killed", "module"} /\ step' \in {"start", "save"}
        /\ trouble' \in BOOLEAN /\ cut' = "piece"
        /\ UNCHANGED <<menu, shown, openFiles, sock, peer, toServer, server, round, jsonSets>>
    BY <1>4 DEF BodyInPieces, Fail, Killed, Return, TypeOK
  <2> QED
    BY <2>2, <2>3, <2>4, <2>5 DEF TypeOK, menu, server, Steps
<1>5. CASE NameInPieces
  <2>1. step = "recvName" /\ Recv /\ ~Ended
    BY <1>5 DEF NameInPieces, InPieces, Control, Ended
  <2>2. toClient' \in Seq(Message)
    BY <2>1, Arrived
  <2>3. /\ shown' \in SUBSET Names /\ curState' \in {curState, "module"} /\ step' \in {step, "start"}
        /\ cut' \in {"piece", "astray"}
        /\ UNCHANGED <<menu, job, openFiles, disk, sock, peer, toServer, server, round, jsonSets, trouble>>
    BY <1>5 DEF NameInPieces, Return, TypeOK
  <2> QED
    BY <2>2, <2>3 DEF TypeOK, menu, server, Steps
<1>6. CASE RecvAstray
  <2>1. toClient' \in Seq(Message)
    BY <1>6, SomeTaken
  <2>2. job' \in [name : Names, file : File, len : Nat]
    <3>1. job' = job \/ \E n \in Names : job' = [job EXCEPT !.file = Part, !.name = n]
      BY <1>6, Fields DEF RecvAstray
    <3> QED
      BY <1>1, <3>1, ValueTypes
  <2>3. disk' \in Files /\ shown' \in SUBSET Names
    BY <1>1, <1>2, <1>6 DEF RecvAstray, TypeOK
  <2>4. /\ curState' \in {curState, "outside", "killed", "module"} /\ step' \in {step, "start", "save", "recvBody"}
        /\ UNCHANGED <<menu, openFiles, sock, peer, toServer, server, round, history>>
    BY <1>6 DEF RecvAstray, Fail, Killed, Return
  <2> QED
    BY <2>1, <2>2, <2>3, <2>4 DEF TypeOK, menu, server, history, Steps
<1> QED
  BY <1>3, <1>4, <1>5, <1>6 DEF GoesCut

\* The server's thread with a message in pieces: what moves, and how.
LEMMA ServesCutMoves ==
  ASSUME TypeOK, Pairs, ServesCut
  PROVE  /\ Alive /\ toServer # <<>> /\ toServer' \in {toServer, Tail(toServer)}
         /\ UNCHANGED <<curState, step, menu, own, sock, round, jsonSets, trouble>>
         /\ \/ HangUp /\ UNCHANGED <<store, toClient>>
            \/ /\ ~Behind /\ srv'.pc \in {"left", "wrong"} /\ srv' = [srv EXCEPT !.pc = srv'.pc]
               /\ cut' # "none" /\ toServer' = Tail(toServer) /\ UNCHANGED <<peer, store, toClient>>
            \/ /\ Behind /\ srv' = [srv EXCEPT !.pc = "idle"] /\ toServer' = Tail(toServer)
               /\ \E n \in Names : store' = [store EXCEPT ![n] = Part]
               /\ UNCHANGED <<peer, toClient>>
            \/ /\ srv.pc = "data" /\ srv.hdr.cmd = "GET" /\ srv.hdr.mod # "JSON"
               /\ toServer' = Tail(toServer) /\ cut' # "none"
               /\ \E n \in Names : store[n] # Absent /\ AnswersGet(n)
               /\ UNCHANGED <<peer, store>>
<1>1. CASE HdrTakenInPieces
  <2>1. \A pc : [srv EXCEPT !.pc = pc].pc = pc
    BY DEF TypeOK
  <2> QED
    BY <1>1, <2>1 DEF HdrTakenInPieces, Alive, Behind
<1>2. CASE ServeWrong
  BY <1>2 DEF ServeWrong, Alive, Behind, history
<1>3. CASE ServeInPieces
  BY <1>3 DEF ServeInPieces, Alive, Behind
<1> QED
  BY <1>1, <1>2, <1>3 DEF ServesCut

\* The history of it moves on by one.
LEMMA ServesCutting ==
  ASSUME ServesCut
  PROVE  Cutting
BY DEF ServesCut, HdrTakenInPieces, ServeWrong, ServeInPieces, Cutting, history

LEMMA ServesCutTypes ==
  ASSUME TypeOK, Pairs, ServesCut
  PROVE  TypeOK'
<1> DEFINE SrvType == [pc : {"idle", "data", "body", "list", "left", "wrong", "gone"}, hdr : Header, name : Names,
                       left : SUBSET Names, id : Nat]
<1>0. /\ srv \in SrvType /\ peer \in {"none", "up", "fin", "rst"} /\ toServer \in Seq(Message)
      /\ toClient \in Seq(Message) /\ store \in Files
  BY DEF TypeOK
<1>1. /\ Alive /\ toServer # <<>> /\ toServer' \in {toServer, Tail(toServer)}
      /\ UNCHANGED <<curState, step, menu, own, sock, round, jsonSets, trouble>>
  BY ServesCutMoves
<1>2. toServer' \in Seq(Message) /\ cut' \in {"none", "piece", "astray"}
  <2>1. Tail(toServer) \in Seq(Message)
    BY <1>0, <1>1, Taken
  <2>2. Cutting
    BY ServesCutting
  <2> QED
    BY <1>0, <1>1, <2>1, <2>2 DEF Cutting, TypeOK
<1>3. srv' \in SrvType /\ peer' \in {"none", "up", "fin", "rst"} /\ store' \in Files /\ toClient' \in Seq(Message)
  <2>1. CASE HangUp /\ UNCHANGED <<store, toClient>>
    BY <1>0, <2>1, HangUpTypes
  <2>2. CASE srv'.pc \in {"left", "wrong"} /\ srv' = [srv EXCEPT !.pc = srv'.pc] /\ UNCHANGED <<peer, store, toClient>>
    BY <1>0, <2>2
  <2>3. CASE /\ srv' = [srv EXCEPT !.pc = "idle"] /\ UNCHANGED <<peer, toClient>>
             /\ \E n \in Names : store' = [store EXCEPT ![n] = Part]
    <3>1. store' \in Files
      BY <2>3, DiskTypes, ValueTypes
    <3>2. srv' \in SrvType
      BY <1>0, <2>3
    <3> QED
      BY <1>0, <2>3, <3>1, <3>2
  <2>4. CASE /\ \E n \in Names : store[n] # Absent /\ AnswersGet(n)
             /\ UNCHANGED <<peer, store>>
    <3>1. PICK n \in Names : store[n] # Absent /\ AnswersGet(n)
      BY <2>4
    <3> DEFINE len == PackedLen(Carried(srv.hdr.mod, store[n]))
    <3>2. store[n] \in File
      BY <1>0, <3>1 DEF Files
    <3>3. len \in Nat
      BY <3>2, Fields, CarriedTypes
    <3> HIDE DEF len
    <3>4. HdrMsg(Answer(srv.hdr, len), srv.id) \in Message
      BY <3>3, Fields, HeaderTypes, Messages
    <3>5. toClient' \in Seq(Message)
      BY <1>0, <3>1, <3>4, Added DEF AnswersGet, len
    <3>6. srv' \in SrvType
      BY <1>0, <3>1 DEF AnswersGet
    <3> QED
      BY <1>0, <2>4, <3>5, <3>6
  <2> QED
    BY <2>1, <2>2, <2>3, <2>4, ServesCutMoves
<1> QED
  BY <1>1, <1>2, <1>3 DEF TypeOK, menu, own

LEMMA CutControl ==
  ASSUME TypeOK, Control, Pairs, OpenInv, CrashHasCause, NextCut
  PROVE  Control' /\ OpenInv' /\ CrashHasCause'
<1>1. CrashHasCause'
  BY IsCut DEF CrashHasCause
<1>2. CASE GoesCut
  <2>1. step \in {"recvHdr", "recvBody", "recvName"} /\ sock = "open" /\ step' \in {step, "start", "save", "recvBody"}
    BY <1>2 DEF GoesCut, HdrInPieces, BodyInPieces, NameInPieces, RecvAstray, InPieces, Recv, Fail, Killed, Return
  <2>2. /\ UNCHANGED <<menu, sock, peer, toServer, server, openFiles, jsonSets>>
        /\ curState' = curState \/ (step' = "start" /\ curState' \in {"outside", "killed", "module"})
        /\ step' \in {"recvBody", "save"} => step \in {"recvHdr", "recvBody"}
    BY <1>2 DEF GoesCut, HdrInPieces, BodyInPieces, NameInPieces, RecvAstray, Fail, Killed, Return, history
  <2>3. cut' # "none"
    BY IsCut
  <2>4. Control'
    BY <2>1, <2>2, <2>3 DEF Control, Alive, menu, server, cmd
  <2>5. OpenInv'
    BY <2>1, <2>2 DEF Control, OpenInv, Ended, TypeOK
  <2> QED
    BY <1>1, <2>4, <2>5
<1>3. CASE ServesCut
  <2>1. /\ Alive /\ toServer # <<>> /\ cut' # "none"
        /\ UNCHANGED <<curState, step, cmd, mod, g_stTestHdr, job, openFiles, sock, jsonSets>>
    BY <1>3, ServesCutMoves, IsCut DEF menu, own, cmd, mod
  <2>2. OpenInv'
    BY <2>1 DEF OpenInv, Ended
  <2>3. \/ srv'.pc = "gone" /\ peer' \in {"fin", "rst"} /\ UNCHANGED toClient
        \/ srv'.pc # "gone" /\ UNCHANGED peer
    <3>1. CASE HangUp /\ UNCHANGED toClient
      BY <3>1 DEF HangUp, TypeOK
    <3>2. CASE srv'.pc \in {"left", "wrong"} /\ UNCHANGED peer
      BY <3>2
    <3>3. CASE srv' = [srv EXCEPT !.pc = "idle"] /\ UNCHANGED peer
      BY <3>3 DEF TypeOK
    <3>4. CASE (\E n \in Names : AnswersGet(n)) /\ UNCHANGED peer
      BY <3>4 DEF AnswersGet, TypeOK
    <3> QED
      BY <1>3, <3>1, <3>2, <3>3, <3>4, ServesCutMoves
  <2>4. peer # "none" /\ ~(peer \in {"fin", "rst"}) /\ sock # "closed"
    BY <2>1 DEF Control
  <2>5. Control'
    BY <2>1, <2>3, <2>4 DEF Control, Alive, cmd
  <2> QED
    BY <1>1, <2>2, <2>5
<1> QED
  BY <1>2, <1>3 DEF NextCut

LEMMA CutHands ==
  ASSUME TypeOK, Control, Pairs, InHand, WhatSurvives, NextCut
  PROVE  InHand' /\ WhatSurvives'
<1>1. CASE GoesCut
  <2>1. \A m \in Names : /\ Sound(m, [disk EXCEPT ![job.name] = Part][m])
                         /\ Sound(m, [disk EXCEPT ![job.name] = Absent][m])
    BY Written, PartSound, Fields
  <2>2. disk' \in {disk, [disk EXCEPT ![job.name] = Part], [disk EXCEPT ![job.name] = Absent]}
    BY <1>1 DEF GoesCut, HdrInPieces, BodyInPieces, NameInPieces, RecvAstray
  <2>3. \A m \in Names : Sound(m, disk'[m])
    BY <2>1, <2>2 DEF WhatSurvives
  <2>4. step' \notin {"sendHdr", "sendData"} /\ UNCHANGED <<store, srv>>
    BY <1>1 DEF GoesCut, HdrInPieces, BodyInPieces, NameInPieces, RecvAstray, Fail, Killed, Return, server
  <2>5. step' = "save" => job'.file = Part /\ job'.name \in Names
    <3>1. step' = "save" => \E n \in Names : job' = [job EXCEPT !.file = Part, !.name = n]
      BY <1>1, Fields DEF GoesCut, HdrInPieces, BodyInPieces, NameInPieces, RecvAstray, InPieces, Recv, Fail, Killed, Return
    <3> QED
      BY <3>1 DEF TypeOK
  <2> QED
    BY <2>3, <2>4, <2>5, PartSound DEF InHand, WhatSurvives
<1>2. CASE ServesCut
  <2>1. UNCHANGED <<step, job, cmd, disk>>
    BY <1>2, ServesCutMoves DEF menu, own, cmd
  <2>2. \A m \in Names : Sound(m, store'[m])
    <3>1. \A n \in Names : \A m \in Names : Sound(m, [store EXCEPT ![n] = Part][m])
      BY Written, PartSound
    <3>2. store' = store \/ \E n \in Names : store' = [store EXCEPT ![n] = Part]
      BY <1>2, ServesCutMoves
    <3> QED
      BY <3>1, <3>2 DEF WhatSurvives
  <2>3. srv'.pc = "body" => store'[srv'.name] # Absent
    <3>1. CASE HangUp \/ srv'.pc \in {"left", "wrong"} \/ srv' = [srv EXCEPT !.pc = "idle"]
      BY <3>1 DEF HangUp, TypeOK
    <3>2. CASE UNCHANGED store /\ \E n \in Names : store[n] # Absent /\ AnswersGet(n)
      BY <3>2 DEF AnswersGet, TypeOK
    <3> QED
      BY <1>2, <3>1, <3>2, ServesCutMoves
  <2> QED
    BY <2>1, <2>2, <2>3 DEF InHand, WhatSurvives
<1> QED
  BY <1>1, <1>2 DEF NextCut

LEMMA NoServing == ~Alive' => Serving'
BY DEF Serving

LEMMA QueuesGoesCut ==
  ASSUME TypeOK, Control, Queues, GoesCut
  PROVE  Queues'
<1>0. /\ step \in {"recvHdr", "recvBody", "recvName"} /\ ~Ended /\ step' # "sendData"
      /\ UNCHANGED <<toServer, srv, store, round, g_stTestHdr>>
  BY DEF GoesCut, HdrInPieces, BodyInPieces, NameInPieces, RecvAstray, InPieces, Recv, Fail, Killed, Return,
         Control, Ended, server, menu
<1>1. Pairs'
  BY <1>0 DEF Queues, Pairs, Alive, Behind
<1>2. Halves'
  <2>1. Alive => ~Half
    BY <1>0 DEF Queues, Halves, Ended, Control
  <2>2. Alive' = Alive /\ (Half' <=> Half)
    BY <1>0 DEF Half, Behind, Alive
  <2> QED
    BY <1>0, <2>1, <2>2 DEF Halves
<1>3. CASE Lost'
  BY <1>1, <1>2, <1>3 DEF Queues, Waiting, ToClient, Serving
<1>4. CASE ~Lost'
  <2>1. ~Lost /\ cut' = "piece" /\ ~RecvAstray
    BY <1>0, <1>4 DEF GoesCut, HdrInPieces, BodyInPieces, NameInPieces, RecvAstray, InPieces, Recv, Lost, Ended, history
  <2>2. Recv /\ toClient # <<>> /\ ToClient
    BY <2>1 DEF GoesCut, HdrInPieces, BodyInPieces, NameInPieces, InPieces, Recv, Queues
  <2>3. /\ Len(toClient') = Len(toClient) - 1 /\ Len(toClient) \in Nat \ {0}
        /\ toClient' = <<>> <=> Len(toClient) = 1
        /\ \A i \in 1 .. Len(toClient) - 1 : toClient'[i] = toClient[i + 1]
        /\ step = "recvBody" => Len(toClient) = 1
    BY <1>0, <2>2, Arrived
  <2>4. Alive => ~Behind /\ srv.pc # "data" /\ toServer = <<>>
    BY <2>1, <2>2, Answered
  <2>5. Waiting' /\ (Alive' <=> Alive)
    <3>1. Alive' <=> Alive
      BY <1>0 DEF Alive
    <3>2. Alive => Waiting'
      BY <1>0, <2>1, <2>4, NothingSent
    <3>3. ~Alive' => Waiting'
      BY DEF Waiting
    <3> QED
      BY <3>1, <3>2, <3>3
  <2>6. CASE HdrInPieces
    <3>1. /\ step = "recvHdr" /\ step' = "recvBody"
          /\ job'.name = job.name /\ job'.len = toClient[1].hdr.dlen
      BY <1>0, <2>1, <2>2, <2>6, Arrived DEF HdrInPieces, TypeOK
    <3>2. Len(toClient) = 1 \/ (Len(toClient) = 2 /\ Body(toClient[2], toClient[1].hdr.dlen))
      BY <2>1, <2>2, <3>1 DEF ToClient
    <3>3. ToClient'
      <4>1. CASE Len(toClient) = 1
        BY <2>3, <3>1, <4>1 DEF ToClient, Question
      <4>2. CASE Len(toClient) = 2 /\ Body(toClient[2], toClient[1].hdr.dlen)
        <5>1. Len(toClient') = 1 /\ toClient'[1] = toClient[2]
          BY <2>3, <4>2
        <5> QED
          BY <1>0, <2>1, <3>1, <4>2, <5>1 DEF ToClient, Question, Body, Named, mod
      <4> QED
        BY <3>2, <4>1, <4>2
    <3>4. Alive => Serving'
      <4>1. CASE Alive /\ srv.pc = "body"
        <5>1. /\ srv.id = round /\ Named(srv.name)
              /\ Len(toClient) = 1 /\ toClient[1].hdr.dlen = BodyLen
          BY <2>1, <3>1, <4>1 DEF Queues, Serving
        <5>2. toClient' = <<>> /\ job'.len = BodyLen /\ BodyLen' = BodyLen
          BY <1>0, <2>3, <3>1, <5>1 DEF BodyLen
        <5> QED
          BY <1>0, <2>1, <2>4, <3>1, <4>1, <5>1, <5>2 DEF Serving, Behind, Named, mod
      <4>2. CASE Alive /\ srv.pc # "body"
        <5>1. srv.pc # "list"
          BY <2>1, <3>1, <4>2 DEF Queues, Serving
        <5> QED
          BY <1>0, <2>4, <4>2, <5>1 DEF Serving, Behind
      <4> QED
        BY <4>1, <4>2
    <3> QED
      BY <1>1, <1>2, <2>5, <3>3, <3>4, NoServing DEF Queues
  <2>7. CASE BodyInPieces
    <3>1. step = "recvBody" /\ step' \in {"save", "start"} /\ toClient' = <<>>
      BY <2>3, <2>7 DEF BodyInPieces, Fail, Killed, Return
    <3>2. ToClient'
      BY <3>1 DEF ToClient, Question
    <3>3. Alive => srv.pc \notin {"body", "list"}
      BY <2>1, <2>2, <3>1 DEF Queues, Serving
    <3>4. Alive => Serving'
      BY <1>0, <2>4, <3>3 DEF Serving, Behind
    <3> QED
      BY <1>1, <1>2, <2>5, <3>2, <3>4, NoServing DEF Queues
  <2>8. CASE NameInPieces
    <3>1. /\ step = "recvName" /\ step' = "recvName"
          /\ \A i \in 1..Len(toClient) : /\ toClient[i].kind = "name" /\ toClient[i].id = round
                                         /\ toClient[i].path = "end" => i = Len(toClient)
      BY <2>1, <2>2, <2>8 DEF NameInPieces, ToClient
    <3>2. ASSUME NEW i \in 1..Len(toClient')
          PROVE  /\ i + 1 \in 1..Len(toClient) /\ toClient'[i] = toClient[i + 1]
                 /\ i + 1 = Len(toClient) => i = Len(toClient')
      BY <2>3, <3>2
    <3>3. ToClient'
      BY <1>0, <3>1, <3>2 DEF ToClient, Question
    <3>4. Alive => srv.pc # "body"
      BY <2>1, <3>1 DEF Queues, Serving
    <3>5. Alive /\ srv.pc = "list" => /\ srv.id = round
                                      /\ \A i \in 1..Len(toClient) : toClient[i].path # "end"
      BY <2>1 DEF Queues, Serving
    <3>6. Alive => Serving'
      BY <1>0, <2>4, <3>1, <3>2, <3>4, <3>5 DEF Serving, Behind
    <3> QED
      BY <1>1, <1>2, <2>5, <3>3, <3>6, NoServing DEF Queues
  <2> QED
    BY <2>1, <2>6, <2>7, <2>8 DEF GoesCut
<1> QED
  BY <1>3, <1>4

LEMMA QueuesServesCut ==
  ASSUME TypeOK, Control, Queues, ServesCut
  PROVE  Queues'
<1>0. /\ Alive /\ toServer # <<>> /\ Pairs /\ ToClient /\ Cutting
      /\ UNCHANGED <<curState, step, round, job, g_stTestHdr>>
  BY ServesCutMoves, ServesCutting DEF Queues, menu, own
<1>1. CASE HangUp /\ UNCHANGED toClient
  BY <1>0, <1>1, QueuesHangUp
<1>2. CASE /\ ~Behind /\ srv'.pc \in {"left", "wrong"} /\ toServer' = Tail(toServer)
           /\ UNCHANGED toClient
  <2>1. Pairs' /\ Halves' /\ Waiting'
    BY <1>0, <1>2, HdrTaken
  <2>2. ToClient'
    BY <1>0, <1>2, SameToClient
  <2>3. Serving'
    BY <1>0, <1>2 DEF Queues, Serving, Lost, Ended, Cutting
  <2> QED
    BY <2>1, <2>2, <2>3 DEF Queues
<1>3. CASE /\ Behind /\ srv' = [srv EXCEPT !.pc = "idle"] /\ toServer' = Tail(toServer)
           /\ UNCHANGED toClient
  <2>0. srv'.pc = "idle"
    BY <1>3 DEF TypeOK
  <2>1. Pairs' /\ Halves' /\ Waiting'
    BY <1>0, <1>3, <2>0, DataTaken
  <2>2. ToClient'
    BY <1>0, <1>3, SameToClient
  <2>3. Serving'
    BY <1>0, <1>3, <2>0 DEF Queues, Serving, Lost, Ended, Cutting
  <2> QED
    BY <2>1, <2>2, <2>3 DEF Queues
<1>4. CASE /\ srv.pc = "data" /\ srv.hdr.cmd = "GET" /\ srv.hdr.mod # "JSON"
           /\ toServer' = Tail(toServer) /\ cut' # "none"
           /\ \E n \in Names : store[n] # Absent /\ AnswersGet(n)
           /\ UNCHANGED store
  <2>1. PICK n \in Names : store[n] # Absent /\ AnswersGet(n)
    BY <1>4
  <2>2. ~Lost => srv.hdr.mod = mod
    BY <1>4, <1>0, QuestionTaken
  <2>3. ~Lost => Named(n)'
    BY <1>0, <1>4, <2>2 DEF Named, mod
  <2> QED
    BY <1>0, <1>4, <2>1, <2>3, QueuesAnswersGet
<1> QED
  BY <1>1, <1>2, <1>3, <1>4, ServesCutMoves DEF Queues

-----------------------------------------------------------------------------
(* The invariant, and what follows from it.                                *)

LEMMA InitInv == Init => IInv
<1> SUFFICES ASSUME Init PROVE IInv
  OBVIOUS
<1>1. /\ srv.pc = "idle" /\ srv.hdr = ZeroHdr /\ srv.id = 0 /\ toServer = <<>> /\ toClient = <<>>
      /\ Len(toServer) = 0 /\ Len(toClient) = 0 /\ step = "start" /\ curState = "tcpInit"
  BY EmptySeq DEF Init
<1>2. TypeOK
  <2>1. NoJob.name \in Names
    BY ValueTypes
  <2>2. disk \in Files /\ store \in Files
    BY ClientAssumption DEF Init
  <2>3. toServer \in Seq(Message) /\ toClient \in Seq(Message)
    BY <1>1, EmptySeq
  <2> QED
    BY <2>1, <2>2, <2>3, ValueTypes DEF Init, TypeOK, Steps
<1>3. Control /\ OpenInv /\ CrashHasCause
  BY <1>1 DEF Init, Control, OpenInv, CrashHasCause, Alive
<1>4. InHand /\ WhatSurvives
  BY <1>1, FirstAssumption DEF Init, InHand, WhatSurvives
<1>5. Queues
  BY <1>1 DEF Queues, Pairs, Halves, Half, Behind, Waiting, ToClient, Serving
<1>6. Listed
  BY <1>1 DEF Listed
<1> QED
  BY <1>2, <1>3, <1>4, <1>5, <1>6 DEF IInv

LEMMA NextInv == IInv /\ [Next]_vars => IInv'
<1> SUFFICES ASSUME IInv, [Next]_vars PROVE IInv'
  OBVIOUS
<1>0. /\ TypeOK /\ Control /\ OpenInv /\ CrashHasCause /\ InHand /\ WhatSurvives /\ Queues
      /\ cut = "none" => Listed
  BY DEF IInv
<1>1. CASE NextWhole
  <2>1. TypeOK'
    BY <1>0, <1>1, MenuStepTypes, AskNameTypes, SendStepTypes, RecvStepTypes, EndStepTypes,
       TakeTypes, AnswerTypes DEF Queues, NextWhole, Menus, GoesWhole, ServesWhole, Failures
  <2>2. Control' /\ OpenInv' /\ CrashHasCause'
    BY <1>0, <1>1, ControlMenus, ControlRequest, ControlServer, OpenStep, CauseStep
       DEF NextWhole, GoesWhole, Failures
  <2>3. InHand' /\ WhatSurvives'
    BY <1>0, <1>1, HandsMenus, HandsRequest, HandsServer DEF Queues, NextWhole, GoesWhole, Failures
  <2>4. Queues'
    BY <1>0, <1>1, QueuesQuiet, QueuesSendHdr, QueuesSendData, QueuesRecv, QueuesLost, QueuesTake,
       QueuesServeGet, QueuesSendBody, QueuesServeList, QueuesSendName
       DEF NextWhole, GoesWhole, ServesWhole, Failures
  <2>5. cut = "none" => Listed'
    BY <1>0, <1>1, ListedClient, ListedRecv, ListedServer DEF NextWhole, GoesWhole, Failures
  <2>6. UNCHANGED cut
    BY <1>1, NotCut
  <2> QED
    BY <2>1, <2>2, <2>3, <2>4, <2>5, <2>6 DEF IInv
<1>2. CASE NextCut
  <2>1. TypeOK'
    BY <1>0, <1>2, GoesCutTypes, ServesCutTypes DEF Queues, NextCut
  <2>2. Control' /\ OpenInv' /\ CrashHasCause' /\ cut' # "none"
    BY <1>0, <1>2, CutControl, IsCut DEF Queues
  <2>3. InHand' /\ WhatSurvives'
    BY <1>0, <1>2, CutHands DEF Queues
  <2>4. Queues'
    BY <1>0, <1>2, QueuesGoesCut, QueuesServesCut DEF NextCut
  <2> QED
    BY <2>1, <2>2, <2>3, <2>4 DEF IInv
<1>3. CASE UNCHANGED vars
  <2>1. UNCHANGED <<curState, step, g_stTestHdr, stdin, typed, job, shown, openFiles, disk, sock, peer,
                    toServer, toClient, srv, store, round, jsonSets, trouble, cut>>
    BY <1>3 DEF vars, menu, own, conn, server, history
  <2>2. TypeOK' /\ Control' /\ OpenInv' /\ CrashHasCause'
    BY <1>0, <2>1 DEF TypeOK, Control, OpenInv, CrashHasCause, Alive, Ended, cmd, mod
  <2>3. InHand' /\ WhatSurvives'
    BY <1>0, <2>1 DEF InHand, WhatSurvives, cmd
  <2>4. Pairs' /\ Halves' /\ Waiting'
    BY <1>0, <2>1 DEF Queues, Pairs, Halves, Half, LastHdr, LastId, Waiting, Waits, Asks, Alive, Behind, Lost, Ended,
                         mod
  <2>5. ToClient'
    BY <1>0, <2>1, SameToClient DEF Queues, Cutting
  <2>6. BodyLen' = BodyLen
    BY <2>1 DEF BodyLen
  <2>7. Serving'
    BY <1>0, <2>1, <2>6 DEF Queues, Serving, Alive, Behind, Lost, Ended, Named, mod
  <2>8. cut' = "none" => Listed'
    <3>1. InTransit' = InTransit /\ Present' = Present /\ Alive' = Alive
      BY <2>1 DEF InTransit, Present, Alive
    <3> QED
      BY <1>0, <2>1, <3>1 DEF Listed
  <2> QED
    BY <2>2, <2>3, <2>4, <2>5, <2>7, <2>8 DEF IInv, Queues
<1> QED
  BY <1>1, <1>2, <1>3 DEF Next, Goes, Serves, NextWhole, NextCut

LEMMA Inductive == Spec => []IInv
BY InitInv, NextInv, PTL DEF Spec

\* Every variable of the client, of the connection and of the server's thread
\* keeps its type, and no handler closes a file it did not open.
THEOREM ClientTypes == Spec => []TypeOK
<1>1. IInv => TypeOK
  BY DEF IInv
<1> QED
  BY <1>1, Inductive, PTL

\* Client and server lose step only by an answer in pieces: otherwise, whatever a
\* recv() finds at either end is of the kind it takes it for, of the request in
\* hand, and as long as its header said.
THEOREM InStep == Spec => []Aligned
<1>1. IInv => Aligned
  <2> SUFFICES ASSUME IInv PROVE Aligned
    OBVIOUS
  <2>0. TypeOK /\ Control /\ Queues
    BY DEF IInv
  <2>1. toClient # <<>> => Head(toClient) = toClient[1] /\ Len(toClient) \in Nat \ {0}
    BY <2>0, Taken DEF TypeOK
  <2>2. toServer # <<>> => Head(toServer) = toServer[1]
    BY <2>0, Taken DEF TypeOK
  <2>3. ~Lost /\ toClient # <<>> => Question /\ toClient[1].kind = Awaited /\ toClient[1].id = round
    <3>1. CASE ~Lost /\ toClient # <<>>
      <4>1. Question
        BY <2>0, <3>1 DEF Queues, ToClient
      <4>2. step = "recvHdr" => toClient[1].kind = "hdr" /\ toClient[1].id = round
        BY <2>0, <3>1 DEF Queues, ToClient
      <4>3. step = "recvBody" => toClient[1].kind = "data" /\ toClient[1].id = round
        BY <2>0, <3>1 DEF Queues, ToClient, Body
      <4>4. step = "recvName" => toClient[1].kind = "name" /\ toClient[1].id = round
        BY <2>0, <2>1, <3>1 DEF Queues, ToClient
      <4> QED
        BY <4>1, <4>2, <4>3, <4>4 DEF Question, Awaited
    <3> QED
      BY <3>1
  <2>4. cut # "astray" /\ step = "recvBody" /\ toClient # <<>> => job.len = PackedLen(toClient[1].file)
    BY <2>0 DEF Queues, ToClient, Body, Control, Lost, Ended
  <2>5. srv.pc = "idle" /\ toServer # <<>> => toServer[1].kind = "hdr"
    BY <2>0 DEF Queues, Pairs, Alive, Behind
  <2>6. srv.pc = "data" /\ toServer # <<>> => Pair(srv.hdr, srv.id, toServer[1])
    BY <2>0 DEF Queues, Pairs, Alive
  <2> QED
    BY <2>1, <2>2, <2>3, <2>4, <2>5, <2>6 DEF Aligned, Pair, Lost
<1> QED
  BY <1>1, Inductive, PTL

\* Whatever was sent in which direction how often, through which codecs, and
\* whatever failed: a file that came whole has its name, and what its codecs
\* leave of its size and bytes.
THEOREM Survives == Spec => []WhatSurvives
<1>1. IInv => WhatSurvives
  BY DEF IInv
<1> QED
  BY <1>1, Inductive, PTL

\* Between requests the client has as many files open as it uploaded by JSON.
THEOREM JsonLeaks == Spec => []OnlyJsonLeaks
<1>1. IInv => OnlyJsonLeaks
  <2> SUFFICES ASSUME IInv, curState \in {"module", "cmd"} PROVE openFiles = jsonSets
    BY DEF OnlyJsonLeaks
  <2>1. step = "start" /\ openFiles \in Nat /\ jsonSets \in Nat
    BY DEF IInv, Control, TypeOK
  <2> QED
    BY <2>1 DEF IInv, OpenInv, Ended
<1> QED
  BY <1>1, Inductive, PTL

\* A client that calls m_pCurState[-1] met the end of its input, a name without
\* a file, a failure of a call, the end of its connection, or a message in pieces.
THEOREM Causes == Spec => []CrashHasCause
<1>1. IInv => CrashHasCause
  BY DEF IInv
<1> QED
  BY <1>1, Inductive, PTL

\* A LIST that comes back to the menu over a connection that is still there has
\* shown the server's files, all of them and nothing else, unless a message was
\* received in pieces before.
THEOREM Listings == Spec => ListComplete
<1>1. ASSUME IInv, Next, step = "recvName", curState' = "module", sock' = "open", cut' = "none"
      PROVE  shown' = Present
  <2> NextWhole
    BY <1>1, IsCut DEF IInv, Next, Goes, Serves, NextWhole, NextCut
  <2>0. TypeOK /\ Control /\ Queues /\ Listed /\ ~Ended /\ ~Lost /\ curState # "module"
    BY <1>1, NotCut DEF IInv, Control, Ended, Lost
  <2>1. RecvName
    <3>1. ~(Menus \/ ServesWhole \/ Failures)
      BY <1>1, <2>0 DEF Menus, Failures, ServesWhole, File_stateTcpInit, File_stateSelModule, File_stateSelCmd,
             AskName, AskNameFails, NoMemory, SaveFails, ServerEnds, TakeHdr, ServeSet, ServeGet, AnswersGet,
             SendBody, ServeList, SendName, Control
    <3>2. ~(File_stateDataDeal \/ SigPipe \/ SendHdr \/ SendData \/ RecvHdr \/ RecvBody \/ NoHdr
            \/ NoBody \/ RecvFails \/ Save)
      BY <1>1 DEF File_stateDataDeal, SigPipe, SendHdr, SendData, RecvHdr, RecvBody, NoHdr, NoBody,
             RecvFails, Save
    <3>3. ~NameLost
      BY <1>1, <2>0 DEF NameLost, PeerDown, RecvError
    <3> QED
      BY <3>1, <3>2, <3>3 DEF NextWhole, GoesWhole
  <2>2. Head(toClient).path = "end" /\ shown' = shown /\ toClient # <<>> /\ Recv
    BY <1>1, <2>0, <2>1 DEF RecvName, Recv
  <2>3. /\ Head(toClient) = toClient[1] /\ Len(toClient) \in Nat \ {0}
    BY <2>0, <2>2, Arrived DEF Queues
  <2>4. Len(toClient) = 1 /\ toClient[1].path = "end"
    <3>1. \A i \in 1..Len(toClient) : toClient[i].path = "end" => i = Len(toClient)
      BY <1>1, <2>0 DEF Queues, ToClient
    <3>2. 1 \in 1..Len(toClient)
      BY <2>3
    <3> QED
      BY <2>2, <2>3, <3>1, <3>2
  <2>5. InTransit = {}
    BY <2>4 DEF InTransit
  <2> QED
    BY <1>1, <2>0, <2>2, <2>4, <2>5 DEF Listed
<1>2. IInv /\ [Next]_vars =>
        [step = "recvName" /\ curState' = "module" /\ sock' = "open" /\ cut' = "none"
           => shown' = Present]_vars
  BY <1>1
<1> QED
  BY <1>2, Inductive, PTL DEF Spec, ListComplete, Present

-----------------------------------------------------------------------------
(* What is typed.  Induction is over a set of numbers here: the library's   *)
(* theorems for predicates are of no use to the provers.                    *)

LEMMA LeastNumber ==
  ASSUME NEW T \in SUBSET Nat, T # {}
  PROVE  \E x \in T : \A y \in T : x <= y
<1> DEFINE R == OpToRel(<, Nat)
<1>1. \A x, y \in Nat : <<x, y>> \in R <=> x < y
  BY DEF OpToRel
<1>2. IsWellFoundedOn(R, Nat)
  BY NatLessThanWellFounded
<1> HIDE DEF R
<1>3. PICK x \in T : \A y \in T : ~ (<<y, x>> \in R)
  BY <1>2, WFMin
<1>4. \A y \in T : ~(y < x)
  BY <1>1, <1>3
<1> QED
  BY <1>4

LEMMA Induction ==
  ASSUME NEW T \in SUBSET Nat, 0 \in T, \A n \in T : n + 1 \in T
  PROVE  T = Nat
<1>1. SUFFICES ASSUME Nat \ T # {} PROVE FALSE
  OBVIOUS
<1>2. PICK x \in Nat \ T : \A y \in Nat \ T : x <= y
  BY <1>1, LeastNumber
<1>3. x # 0 /\ x - 1 \in Nat /\ x - 1 \notin Nat \ T
  BY <1>2
<1> QED
  BY <1>2, <1>3

\* A remainder is the one number below the divisor that leaves a multiple.
LEMMA Remainder ==
  ASSUME NEW w \in Nat \ {0}, NEW q \in Nat, NEW r \in 0 .. w - 1
  PROVE  (w * q + r) % w = r
OBVIOUS

LEMMA Divided ==
  ASSUME NEW w \in Nat \ {0}, NEW x \in Nat
  PROVE  \E q \in Nat, r \in 0 .. w - 1 : x = w * q + r /\ x % w = r
<1>1. x \div w \in Nat /\ x = w * (x \div w) + (x % w) /\ x % w \in 0 .. w - 1
  OBVIOUS
<1> QED
  BY <1>1

\* Wrapping at every digit is wrapping once.
LEMMA WrapOnce ==
  ASSUME NEW w \in Nat \ {0}, NEW x \in Nat, NEW d \in Nat
  PROVE  ((x % w) * 10 + d) % w = (x * 10 + d) % w
<1>1. PICK q \in Nat, r \in 0 .. w - 1 : x = w * q + r /\ x % w = r
  BY Divided
<1>2. r * 10 + d \in Nat
  OBVIOUS
<1>3. PICK p \in Nat, s \in 0 .. w - 1 : r * 10 + d = w * p + s /\ (r * 10 + d) % w = s
  BY <1>2, Divided
<1>4. /\ w * (q * 10 + p) = (w * q) * 10 + w * p
      /\ w * q \in Nat /\ w * p \in Nat /\ q * 10 + p \in Nat
  OBVIOUS
<1>5. x * 10 + d = w * (q * 10 + p) + s
  <2> DEFINE a == w * q
             b == w * p
             c == w * (q * 10 + p)
  <2>1. c = a * 10 + b /\ a \in Nat /\ b \in Nat /\ x = a + r /\ r * 10 + d = b + s
    BY <1>1, <1>3, <1>4
  <2> HIDE DEF a, b, c
  <2>2. x * 10 + d = c + s
    BY <2>1
  <2> QED
    BY <2>2 DEF c
<1>6. (w * (q * 10 + p) + s) % w = s
  BY <1>4, Remainder
<1> QED
  BY <1>1, <1>3, <1>5, <1>6

\* What starts as a and goes on by next is there, and there is one of it.
Follows(f, n, a, next) == f[0] = a /\ \A i \in 1..n : f[i] = next[<<i, f[i - 1]>>]

LEMMA RecursionExists ==
  ASSUME NEW n \in Nat, NEW S, NEW a \in S, NEW next \in [(1..n) \X S -> S]
  PROVE  \E f \in [0..n -> S] : Follows(f, n, a, next)
<1> DEFINE T == {k \in Nat : k <= n => \E f \in [0..k -> S] : Follows(f, k, a, next)}
<1>1. 0 \in T
  <2>1. [i \in 0..0 |-> a] \in [0..0 -> S] /\ Follows([i \in 0..0 |-> a], 0, a, next)
    BY DEF Follows
  <2> QED
    BY <2>1
<1>2. ASSUME NEW k \in T, k + 1 <= n
      PROVE  \E f \in [0..k + 1 -> S] : Follows(f, k + 1, a, next)
  <2>1. k \in Nat /\ k <= n
    BY <1>2
  <2>2. PICK f \in [0..k -> S] : Follows(f, k, a, next)
    BY <2>1
  <2> DEFINE g == [i \in 0..k + 1 |-> IF i = k + 1 THEN next[<<k + 1, f[k]>>] ELSE f[i]]
  <2>3. f[k] \in S /\ next[<<k + 1, f[k]>>] \in S
    BY <1>2, <2>1
  <2>4. g \in [0..k + 1 -> S]
    BY <2>1, <2>3
  <2>5. /\ g[k + 1] = next[<<k + 1, f[k]>>] /\ g[k] = f[k] /\ g[0] = f[0]
        /\ \A i \in 1..k : g[i] = f[i] /\ g[i - 1] = f[i - 1]
    BY <2>1
  <2> HIDE DEF g
  <2>6. \A i \in 1..k + 1 : i = k + 1 \/ i \in 1..k
    BY <2>1
  <2>7. ASSUME NEW i \in 1..k + 1
        PROVE  g[i] = next[<<i, g[i - 1]>>]
    <3>1. CASE i = k + 1
      <4>1. i - 1 = k
        BY <2>1, <3>1
      <4> QED
        BY <2>5, <3>1, <4>1
    <3>2. CASE i \in 1..k
      BY <2>2, <2>5, <3>2 DEF Follows
    <3> QED
      BY <2>6, <3>1, <3>2
  <2>8. Follows(g, k + 1, a, next)
    BY <2>2, <2>5, <2>7 DEF Follows
  <2> QED
    BY <2>4, <2>8
<1>3. T \in SUBSET Nat /\ \A k \in T : k + 1 \in T
  BY <1>2
<1> HIDE DEF T
<1>4. T = Nat
  BY <1>1, <1>3, Induction
<1> QED
  BY <1>4 DEF T

LEMMA RecursionUnique ==
  ASSUME NEW n \in Nat, NEW a, NEW next, NEW f, NEW g,
         Follows(f, n, a, next), Follows(g, n, a, next)
  PROVE  \A i \in 0..n : f[i] = g[i]
<1> DEFINE T == {k \in Nat : k <= n => f[k] = g[k]}
<1>1. 0 \in T
  BY DEF Follows
<1>2. ASSUME NEW k \in T, k + 1 <= n
      PROVE  f[k + 1] = g[k + 1]
  <2>1. k \in Nat /\ k + 1 \in 1..n /\ (k + 1) - 1 = k /\ f[k] = g[k]
    BY <1>2
  <2> QED
    BY <2>1 DEF Follows
<1>3. T \in SUBSET Nat /\ \A k \in T : k + 1 \in T
  BY <1>2
<1> HIDE DEF T
<1>4. T = Nat
  BY <1>1, <1>3, Induction
<1> QED
  BY <1>4 DEF T

\* What Value and File_atoi make of a line, digit by digit.
Horner(line) == [p \in (1 .. Len(line)) \X Nat |-> p[2] * 10 + line[p[1]]]
Wrapped(line) == [p \in (1 .. Len(line)) \X Nat |-> (p[2] * 10 + line[p[1]]) % Wrap]

LEMMA NextTypes ==
  ASSUME NEW line \in Seq(Digit)
  PROVE  /\ Len(line) \in Nat /\ 0 \in Nat
         /\ \A i \in 1 .. Len(line) : line[i] \in Nat
         /\ Horner(line) \in [(1 .. Len(line)) \X Nat -> Nat]
         /\ Wrapped(line) \in [(1 .. Len(line)) \X Nat -> Nat]
         /\ \A i \in 1 .. Len(line), v \in Nat :
              /\ Horner(line)[<<i, v>>] = v * 10 + line[i]
              /\ Wrapped(line)[<<i, v>>] = (v * 10 + line[i]) % Wrap
<1>1. Len(line) \in Nat /\ \A i \in 1 .. Len(line) : line[i] \in Nat
  BY LenProperties, ElementOfSeq DEF Digit
<1>2. \A x \in Nat : x % Wrap \in Nat
  BY ClientAssumption
<1>3. \A p \in (1 .. Len(line)) \X Nat : p[2] * 10 + line[p[1]] \in Nat
  BY <1>1
<1> QED
  BY <1>1, <1>2, <1>3 DEF Horner, Wrapped

\* Value is what its definition says.
Number(line) == CHOOSE v \in Nat : \E f \in [0 .. Len(line) -> Nat] :
                   Follows(f, Len(line), 0, Horner(line)) /\ v = f[Len(line)]

LEMMA NumberIs ==
  ASSUME NEW line \in Seq(Digit), NEW f \in [0 .. Len(line) -> Nat],
         Follows(f, Len(line), 0, Horner(line))
  PROVE  Number(line) = f[Len(line)]
<1>1. Len(line) \in Nat /\ f[Len(line)] \in Nat
  BY NextTypes
<1>2. PICK g \in [0 .. Len(line) -> Nat] :
        Follows(g, Len(line), 0, Horner(line)) /\ Number(line) = g[Len(line)]
  BY <1>1 DEF Number
<1>3. \A i \in 0 .. Len(line) : f[i] = g[i]
  BY <1>1, <1>2, RecursionUnique
<1> QED
  BY <1>1, <1>2, <1>3

\* A line without its last digit.
LEMMA Shorter ==
  ASSUME NEW line \in Seq(Digit), line # <<>>
  PROVE  /\ Len(line) \in Nat \ {0}
         /\ SubSeq(line, 1, Len(line) - 1) \in Seq(Digit)
         /\ Len(SubSeq(line, 1, Len(line) - 1)) = Len(line) - 1
         /\ \A i \in 1 .. Len(line) - 1 : SubSeq(line, 1, Len(line) - 1)[i] = line[i]
<1>1. Len(line) \in Nat \ {0}
  BY EmptySeq
<1>2. \A i \in 1 .. Len(line) - 1 : line[i] \in Digit
  BY <1>1, ElementOfSeq
<1> DEFINE n == Len(line) - 1
           front == SubSeq(line, 1, n)
<1>3. n \in Nat /\ 1 \in Int
  BY <1>1
<1> HIDE DEF n
<1>4. /\ front \in Seq(Digit) /\ Len(front) = IF 1 <= n THEN n - 1 + 1 ELSE 0
      /\ \A i \in 1 .. n - 1 + 1 : front[i] = line[1 + i - 1]
  BY <1>2, <1>3, SubSeqProperties DEF n
<1> HIDE DEF front
<1>5. Len(front) = n /\ \A i \in 1..n : front[i] = line[i]
  BY <1>3, <1>4
<1> QED
  BY <1>1, <1>4, <1>5 DEF front, n

LEMMA NumberStep ==
  ASSUME NEW line \in Seq(Digit)
  PROVE  /\ Number(line) \in Nat
         /\ line = <<>> => Number(line) = 0
         /\ line # <<>> => Number(line) = Number(SubSeq(line, 1, Len(line) - 1)) * 10
                                          + line[Len(line)]
<1> DEFINE n == Len(line)
<1>1. PICK f \in [0..n -> Nat] : Follows(f, n, 0, Horner(line))
  BY NextTypes, RecursionExists
<1>2. n \in Nat /\ f[n] \in Nat /\ Number(line) = f[n]
  BY <1>1, NextTypes, NumberIs
<1>3. line = <<>> => Number(line) = 0
  BY <1>1, <1>2, EmptySeq DEF Follows
<1>4. ASSUME line # <<>>
      PROVE  Number(line) = Number(SubSeq(line, 1, n - 1)) * 10 + line[n]
  <2> DEFINE front == SubSeq(line, 1, n - 1)
             g == [i \in 0 .. n - 1 |-> f[i]]
  <2>1. n \in Nat \ {0}
    BY <1>4, Shorter
  <2>2. front \in Seq(Digit) /\ Len(front) = n - 1 /\ \A i \in 1 .. n - 1 : front[i] = line[i]
    BY <1>4, Shorter
  <2> HIDE DEF front
  <2>3. g \in [0 .. Len(front) -> Nat]
    BY <1>1, <2>1, <2>2
  <2>4. g[0] = 0 /\ g[Len(front)] = f[n - 1] /\ f[n - 1] \in Nat
    BY <1>1, <2>1, <2>2 DEF Follows
  <2>5. ASSUME NEW i \in 1 .. Len(front)
        PROVE  g[i] = Horner(front)[<<i, g[i - 1]>>]
    <3>0. i \in 1 .. n - 1
      BY <2>2, <2>5
    <3>1. g[i] = f[i] /\ g[i - 1] = f[i - 1] /\ f[i - 1] \in Nat /\ i \in 1..n
      <4>1. i \in Nat /\ i \in 0 .. n - 1 /\ i - 1 \in 0 .. n - 1 /\ i \in 1..n /\ i - 1 \in 0..n
        BY <2>1, <3>0
      <4> QED
        BY <4>1
    <3>2. f[i] = Horner(line)[<<i, f[i - 1]>>]
      BY <1>1, <3>1 DEF Follows
    <3>3. Horner(line)[<<i, f[i - 1]>>] = f[i - 1] * 10 + line[i]
      BY <3>1, NextTypes
    <3>4. Horner(front)[<<i, f[i - 1]>>] = f[i - 1] * 10 + front[i]
      BY <3>1, <2>2, <2>5, NextTypes
    <3> QED
      BY <3>1, <3>2, <3>3, <3>4, <2>2, <2>5
  <2> HIDE DEF g
  <2>6. Follows(g, Len(front), 0, Horner(front))
    BY <2>4, <2>5 DEF Follows
  <2>7. Number(front) = f[n - 1]
    BY <2>2, <2>3, <2>4, <2>6, NumberIs
  <2>8. f[n] = Horner(line)[<<n, f[n - 1]>>]
    BY <1>1, <2>1 DEF Follows
  <2>9. Horner(line)[<<n, f[n - 1]>>] = f[n - 1] * 10 + line[n]
    <3>1. n \in 1 .. Len(line) /\ f[n - 1] \in Nat
      BY <2>1, <2>4
    <3> QED
      BY <3>1, NextTypes
  <2> QED
    BY <1>2, <2>7, <2>8, <2>9 DEF front
<1> QED
  BY <1>2, <1>3, <1>4

LEMMA ValueIs ==
  \A line \in Seq(Digit) :
    /\ Value[line] \in Nat /\ Value[line] = Number(line)
    /\ line = <<>> => Value[line] = 0
    /\ line # <<>> => Value[line] = Value[SubSeq(line, 1, Len(line) - 1)] * 10 + line[Len(line)]
<1> DEFINE Def(v) == v = [line \in Seq(Digit) |->
                            IF line = <<>> THEN 0
                            ELSE v[SubSeq(line, 1, Len(line) - 1)] * 10 + line[Len(line)]]
           number == [line \in Seq(Digit) |-> Number(line)]
<1>1. \A line \in Seq(Digit) : line # <<>> =>
         /\ SubSeq(line, 1, Len(line) - 1) \in Seq(Digit)
         /\ Len(SubSeq(line, 1, Len(line) - 1)) = Len(line) - 1 /\ Len(line) \in Nat \ {0}
  BY Shorter
<1>2. Def(number)
  BY <1>1, NumberStep
<1>3. Def(Value)
  BY <1>2 DEF Value
<1> DEFINE T == {n \in Nat : \A line \in Seq(Digit) : Len(line) = n => Value[line] = Number(line)}
<1>4. 0 \in T
  <2>1. ASSUME NEW line \in Seq(Digit), Len(line) = 0
        PROVE  Value[line] = Number(line)
    <3>1. line = <<>>
      BY <2>1, EmptySeq
    <3> QED
      BY <1>3, <3>1, NumberStep
  <2> QED
    BY <2>1
<1>5. ASSUME NEW n \in T, NEW line \in Seq(Digit), Len(line) = n + 1
      PROVE  Value[line] = Number(line)
  <2>1. n \in Nat /\ line # <<>>
    BY <1>5, EmptySeq
  <2> DEFINE front == SubSeq(line, 1, Len(line) - 1)
  <2>2. front \in Seq(Digit) /\ Len(front) = n
    BY <1>1, <1>5, <2>1
  <2>3. Value[front] = Number(front)
    BY <2>2
  <2>4. Value[line] = Value[front] * 10 + line[Len(line)]
    BY <1>3, <2>1
  <2> QED
    BY <2>1, <2>3, <2>4, NumberStep
<1>6. T \in SUBSET Nat /\ \A n \in T : n + 1 \in T
  BY <1>5
<1> HIDE DEF T
<1>7. T = Nat
  BY <1>4, <1>6, Induction
<1>8. \A line \in Seq(Digit) : Value[line] = Number(line)
  BY <1>7, LenProperties DEF T
<1> QED
  BY <1>1, <1>8, NumberStep

\* File_atoi leaves the number's value modulo 2^32, whatever the length of the
\* line: that it wraps at every digit does not matter.
THEOREM AtoiWraps ==
  ASSUME NEW line \in Seq(Digit)
  PROVE  File_atoi(line) = Value[line] % Wrap
<1> DEFINE n == Len(line)
           Def(f) == f = [i \in 0..n |-> IF i = 0 THEN 0 ELSE (f[i - 1] * 10 + line[i]) % Wrap]
<1>1. n \in Nat /\ Wrap \in Nat \ {0} /\ 0 % Wrap = 0
  BY NextTypes, ClientAssumption
<1>2. PICK f \in [0..n -> Nat] : Follows(f, n, 0, Horner(line))
  BY NextTypes, RecursionExists
<1>3. PICK g \in [0..n -> Nat] : Follows(g, n, 0, Wrapped(line))
  BY NextTypes, RecursionExists
<1>4. \A i \in 1..n : i - 1 \in 0..n /\ i \in 0..n /\ i # 0
  BY <1>1
<1>5. \A i \in 1..n : g[i] = (g[i - 1] * 10 + line[i]) % Wrap
  <2>1. \A i \in 1..n : g[i] = Wrapped(line)[<<i, g[i - 1]>>] /\ g[i - 1] \in Nat
    BY <1>3, <1>4 DEF Follows
  <2> QED
    BY <2>1, NextTypes
<1>6. Def(g)
  <2>1. \A i \in 0..n : g[i] = IF i = 0 THEN 0 ELSE (g[i - 1] * 10 + line[i]) % Wrap
    BY <1>1, <1>3, <1>5 DEF Follows
  <2> QED
    BY <2>1
<1>7. PICK h : Def(h) /\ File_atoi(line) = h[n]
  BY <1>6 DEF File_atoi
<1> DEFINE T == {k \in Nat : k <= n => h[k] = f[k] % Wrap}
<1>8. 0 \in T
  BY <1>1, <1>2, <1>7 DEF Follows
<1>9. ASSUME NEW k \in T, k + 1 <= n
      PROVE  h[k + 1] = f[k + 1] % Wrap
  <2>0. k \in Nat /\ (k <= n => h[k] = f[k] % Wrap)
    BY <1>9
  <2>1. k \in Nat /\ k + 1 \in 1..n /\ (k + 1) - 1 = k /\ h[k] = f[k] % Wrap /\ f[k] \in Nat
    <3>1. k + 1 \in 1..n /\ (k + 1) - 1 = k /\ k <= n /\ k \in 0..n
      BY <1>1, <1>9, <2>0
    <3> QED
      BY <2>0, <3>1
  <2>2. f[k + 1] = f[k] * 10 + line[k + 1]
    <3>1. f[k + 1] = Horner(line)[<<k + 1, f[k]>>]
      BY <1>2, <2>1 DEF Follows
    <3> QED
      BY <2>1, <3>1, NextTypes
  <2>3. h[k + 1] = (h[k] * 10 + line[k + 1]) % Wrap
    BY <1>4, <1>7, <2>1
  <2>4. line[k + 1] \in Nat
    BY <2>1, NextTypes
  <2>5. ((f[k] % Wrap) * 10 + line[k + 1]) % Wrap = (f[k] * 10 + line[k + 1]) % Wrap
    BY <1>1, <2>1, <2>4, WrapOnce
  <2> QED
    BY <2>1, <2>2, <2>3, <2>5
<1>10. T \in SUBSET Nat /\ \A k \in T : k + 1 \in T
  BY <1>9
<1> HIDE DEF T
<1>11. T = Nat
  BY <1>8, <1>10, Induction
<1>12. h[n] = f[n] % Wrap
  BY <1>1, <1>11 DEF T
<1>13. Value[line] = f[n]
  BY <1>2, NumberIs, ValueIs
<1> QED
  BY <1>7, <1>12, <1>13

\* A number that an unsigned int can hold is what File_atoi makes of it.
LEMMA AtoiExact ==
  ASSUME NEW line \in Seq(Digit), Value[line] < Wrap
  PROVE  File_atoi(line) = Value[line]
<1>1. Value[line] \in Nat /\ Wrap \in Nat
  BY ValueIs, ClientAssumption
<1>2. \A x \in Nat : x < Wrap => x % Wrap = x
  BY <1>1
<1> QED
  BY <1>1, <1>2, AtoiWraps

\* What a menu chose was typed.
LEMMA ChosenIs ==
  ASSUME NEW line \in Lines \cup {Eof}, NEW initially, NEW v \in Chosen(line, initially),
         line # Eof, Value[line] < Wrap
  PROVE  v = Value[line]
<1>1. line \in Lines /\ IsNumber(line) /\ v = File_atoi(line)
  BY DEF Chosen
<1>2. line \in Seq(Digit)
  <2>1. line \in Seq(Digit \cup {Other})
    BY <1>1, ClientAssumption
  <2>2. line \in [1 .. Len(line) -> Digit \cup {Other}] /\ Len(line) \in Nat
    BY <2>1, LenProperties
  <2>3. line \in [1 .. Len(line) -> Digit]
    BY <1>1, <2>2 DEF IsNumber
  <2> QED
    BY <2>2, <2>3, SeqDef
<1> QED
  BY <1>1, <1>2, AtoiExact

\* Nothing else comes to where a menu's choice is used.
LEMMA NoOtherChoice ==
  ASSUME Control, Next, ~File_stateSelModule, ~File_stateSelCmd
  PROVE  \/ UNCHANGED <<curState, step, typed, g_stTestHdr>>
         \/ curState' # "cmd" /\ (curState' = "dataDeal" => step' # "start")
<1>1. CASE Menus \/ File_stateDataDeal
  <2>1. step = "name" => curState = "dataDeal"
    BY DEF Control
  <2> QED
    BY <1>1, <2>1 DEF Menus, File_stateTcpInit, AskName, File_stateDataDeal, Return, Fail, Killed
<1>2. CASE ServesWhole \/ ServerEnds
  BY <1>2 DEF ServesWhole, ServerEnds, TakeHdr, ServeSet, ServeGet, AnswersGet, SendBody, ServeList, SendName, menu
<1>3. CASE AskNameFails \/ NoMemory \/ SaveFails
  BY <1>3 DEF AskNameFails, NoMemory, SaveFails, Return, Fail
<1>4. CASE SigPipe \/ SendHdr \/ SendData \/ RecvFails \/ Save \/ NoHdr
  <2>1. step # "start" => curState = "dataDeal"
    BY DEF Control
  <2> QED
    BY <1>4, <2>1 DEF SigPipe, SendHdr, SendData, SetSent, RecvFails, Save, NoHdr, Return, Fail, Killed
<1>5. CASE RecvHdr \/ RecvBody \/ NoBody \/ RecvName \/ NameLost
  <2>1. step # "start" => curState = "dataDeal"
    BY DEF Control
  <2> QED
    BY <1>5, <2>1 DEF RecvHdr, RecvBody, NoBody, RecvName, NameLost, Return, Fail, Killed, menu
<1>6. CASE HdrInPieces \/ BodyInPieces \/ NameInPieces \/ RecvAstray
  <2>1. step # "start" => curState = "dataDeal"
    BY DEF Control
  <2>2. /\ UNCHANGED <<typed, g_stTestHdr>> /\ step # "start"
        /\ curState' = curState \/ curState' \in {"outside", "killed", "module"}
        /\ step' \in {step, "start", "recvBody", "save"}
        /\ step' = "start" => curState' \in {"outside", "killed", "module"}
    BY <1>6 DEF HdrInPieces, BodyInPieces, NameInPieces, RecvAstray, Return, Fail, Killed, menu
  <2> QED
    BY <2>1, <2>2
<1>7. CASE ServesCut
  BY <1>7 DEF ServesCut, HdrTakenInPieces, ServeWrong, ServeInPieces, menu
<1> QED
  BY <1>1, <1>2, <1>3, <1>4, <1>5, <1>6, <1>7
     DEF Next, Goes, GoesWhole, GoesCut, Serves, Failures, Menus

\* A choice is made where the next state function starts, and nothing comes
\* between the two.
LEMMA TypedStep ==
  ASSUME TypeOK, Control, OnlyTyped, [Next]_vars
  PROVE  OnlyTyped'
<1>1. CASE UNCHANGED <<curState, step, typed, g_stTestHdr>>
  BY <1>1 DEF OnlyTyped, Plain, mod, cmd
<1>2. CASE File_stateSelModule /\ ~UNCHANGED <<curState, step, typed, g_stTestHdr>>
  <2>1. CASE UNCHANGED <<curState, step, typed>>
    BY <1>2, <2>1 DEF File_stateSelModule, OnlyTyped
  <2>2. CASE ~UNCHANGED <<curState, step, typed>>
    <3>1. PICK line \in Lines \cup {Eof} : \E v \in Chosen(line, {0}) \cap DOMAIN ModuleMenu :
             /\ g_stTestHdr' = [ZeroHdr EXCEPT !.mod = ModuleMenu[v]]
             /\ typed' = line
             /\ Return("cmd")
      BY <1>2, <2>2 DEF File_stateSelModule
    <3>2. PICK v \in Chosen(line, {0}) \cap DOMAIN ModuleMenu :
             /\ g_stTestHdr' = [ZeroHdr EXCEPT !.mod = ModuleMenu[v]]
             /\ typed' = line
             /\ Return("cmd")
      BY <3>1
    <3>3. mod' = ModuleMenu[v] /\ curState' = "cmd"
      BY <3>2 DEF mod, ZeroHdr, Return
    <3>4. Plain' => v = Value[typed']
      BY <3>2, ChosenIs DEF Plain
    <3> QED
      BY <3>2, <3>3, <3>4 DEF OnlyTyped
  <2> QED
    BY <2>1, <2>2
<1>3. CASE File_stateSelCmd /\ ~UNCHANGED <<curState, step, typed, g_stTestHdr>>
  <2>1. PICK line \in Lines \cup {Eof} : \E v \in Chosen(line, 0..6) \cap DOMAIN CmdMenu :
           /\ g_stTestHdr' = [g_stTestHdr EXCEPT !.cmd = CmdMenu[v]]
           /\ typed' = line
           /\ Return("dataDeal")
    BY <1>3 DEF File_stateSelCmd
  <2>2. PICK v \in Chosen(line, 0..6) \cap DOMAIN CmdMenu :
           /\ g_stTestHdr' = [g_stTestHdr EXCEPT !.cmd = CmdMenu[v]]
           /\ typed' = line
           /\ Return("dataDeal")
    BY <2>1
  <2>3. cmd' = CmdMenu[v] /\ curState' = "dataDeal"
    BY <2>2 DEF cmd, TypeOK, Header, Return
  <2>4. Plain' => v = Value[typed']
    BY <2>2, ChosenIs DEF Plain
  <2> QED
    BY <2>2, <2>3, <2>4 DEF OnlyTyped
<1>4. CASE curState' # "cmd" /\ (curState' = "dataDeal" => step' # "start")
  BY <1>4 DEF OnlyTyped
<1> QED
  BY <1>1, <1>2, <1>3, <1>4, NoOtherChoice DEF vars, menu

\* A menu acts on the number that was typed, if an unsigned int can hold it:
\* no choice that was made is taken for another one, whatever comes between.
THEOREM OnlyTypedSafe == Spec => []OnlyTyped
<1>1. Init => OnlyTyped
  BY DEF Init, OnlyTyped
<1>2. IInv /\ OnlyTyped /\ [Next]_vars => OnlyTyped'
  BY TypedStep DEF IInv
<1> QED
  BY <1>1, <1>2, Inductive, PTL DEF Spec

-----------------------------------------------------------------------------
(* Transfers and the files they copy: what the refinement rests on.        *)

\* An upload on its way or in the client's hands is what its codec makes of the
\* file that the client still has.
Brought(m, n, f) == disk[n] # Absent /\ f = Carried(m, disk[n])
Current ==
    /\ Alive => \A i \in UploadsIn(toServer, srv.hdr) :
         Brought(HdrOf(toServer, srv.hdr, i).mod, toServer[i].name, toServer[i].file)
    /\ step \in {"sendHdr", "sendData"} /\ cmd = "SET" => Brought(mod, job.name, job.file)

\* Uploads are on their way in the order of their numbers.
Numbered ==
    Alive => \A i \in UploadsIn(toServer, srv.hdr) :
      /\ toServer[i].id <= round /\ (step # "start" => toServer[i].id < round)
      /\ \A j \in UploadsIn(toServer, srv.hdr) : i < j => toServer[i].id < toServer[j].id

\* A download comes by the codec it was asked for with.
Coded ==
    Alive /\ ~Ended =>
    /\ srv.pc = "data" /\ toServer # <<>> /\ srv.hdr.cmd = "GET" => srv.hdr.mod = mod
    /\ \A i \in 1 .. Len(toServer) - 1 :
         toServer[i].kind = "hdr" /\ toServer[i].hdr.cmd = "GET" => toServer[i].hdr.mod = mod
    /\ srv.pc = "body" => srv.hdr.mod = mod

\* A download that has arrived, or that the client has in its hands, is what its
\* codec makes of the file that the server still has.
Fetched(f) == store[job.name] # Absent /\ f = Carried(mod, store[job.name])
Fetching ==
    ~Ended =>
    /\ step = "recvHdr" /\ Len(toClient) = 2 => Fetched(toClient[2].file)
    /\ step = "recvBody" /\ toClient # <<>> => Fetched(toClient[1].file)
    /\ step = "save" => Fetched(job.file) \/ (job.file = Part /\ ~Alive)
    /\ step \in {"recvBody", "save"} /\ Alive => toServer = <<>>

XInv == Current /\ Numbered /\ Coded /\ Fetching

\* As long as no message came in pieces the server's thread has its header, the
\* client is in step, and files have the names that were typed.
LEMMA Unbroken ==
  ASSUME Control, cut = "none"
  PROVE  /\ Behind <=> srv.pc = "data"
         /\ Lost <=> Ended
         /\ \A n : Named(n) => n = job.name
BY DEF Control, Behind, Lost, Named

\* Of the numbers of uploads in a queue, and what stands there.
LEMMA UploadsInQueue ==
  ASSUME NEW q \in Seq(Message), NEW h \in Header
  PROVE  /\ UploadsIn(q, h) \subseteq 1..Len(q) /\ Len(q) \in Nat
         /\ \A i \in UploadsIn(q, h) :
              /\ i \in Nat \ {0} /\ i \in 1..Len(q)
              /\ q[i] \in Message /\ q[i].kind = "data" /\ q[i].id \in Nat
              /\ q[i].name \in Names /\ q[i].file \in File
              /\ HdrOf(q, h, i).cmd = "SET"
<1>1. DOMAIN q = 1..Len(q) /\ Len(q) \in Nat /\ \A i \in 1..Len(q) : q[i] \in Message
  BY LenProperties, ElementOfSeq
<1>2. ASSUME NEW i \in UploadsIn(q, h)
      PROVE  i \in 1..Len(q) /\ q[i].kind = "data" /\ HdrOf(q, h, i).cmd = "SET"
  BY <1>1, <1>2 DEF UploadsIn
<1> QED
  BY <1>1, <1>2, MessageFields

\* A message more for the server.
LEMMA UploadsAdded ==
  ASSUME TypeOK, NEW m \in Message, toServer' = Append(toServer, m)
  PROVE  /\ \A i \in UploadsIn(toServer, srv.hdr) : i \in UploadsIn(toServer', srv.hdr)
         /\ \A i \in UploadsIn(toServer, srv.hdr) :
              toServer'[i] = toServer[i] /\ HdrOf(toServer', srv.hdr, i) = HdrOf(toServer, srv.hdr, i)
         /\ \A i \in UploadsIn(toServer', srv.hdr) :
              i \in UploadsIn(toServer, srv.hdr) \/ i = Len(toServer) + 1
         /\ Len(toServer) + 1 \in UploadsIn(toServer', srv.hdr) <=> m.kind = "data" /\ LastHdr.cmd = "SET"
         /\ toServer'[Len(toServer) + 1] = m
         /\ HdrOf(toServer', srv.hdr, Len(toServer) + 1) = LastHdr
<1> DEFINE n == Len(toServer)
           h == srv.hdr
<1>1. /\ toServer \in Seq(Message) /\ toServer' \in Seq(Message)
      /\ Len(toServer') = n + 1 /\ n \in Nat /\ \A i \in 1..n : toServer'[i] = toServer[i]
      /\ toServer'[n + 1] = m /\ (toServer = <<>> <=> n = 0)
  BY Added DEF TypeOK
<1>2. DOMAIN toServer' = 1 .. n + 1 /\ DOMAIN toServer = 1..n
  BY <1>1, LenProperties
<1> HIDE DEF n, h
<1>3. \A i \in 1..n : toServer'[i] = toServer[i] /\ HdrOf(toServer', h, i) = HdrOf(toServer, h, i)
  BY <1>1 DEF HdrOf
<1>4. HdrOf(toServer', h, n + 1) = LastHdr
  BY <1>1 DEF HdrOf, LastHdr, n, h
<1>5. \A i \in 1..n : i \in UploadsIn(toServer', h) <=> i \in UploadsIn(toServer, h)
  BY <1>1, <1>2, <1>3 DEF UploadsIn
<1>6. n + 1 \in UploadsIn(toServer', h) <=> m.kind = "data" /\ LastHdr.cmd = "SET"
  BY <1>1, <1>2, <1>4 DEF UploadsIn
<1>7. /\ \A i \in UploadsIn(toServer, h) : i \in 1..n
      /\ \A i \in UploadsIn(toServer', h) : i \in 1..n \/ i = n + 1
  BY <1>1, <1>2 DEF UploadsIn
<1> QED
  BY <1>1, <1>3, <1>4, <1>5, <1>6, <1>7 DEF n, h

\* A message less: a header becomes the header at hand, or the message behind
\* one goes, and the next is a header.
LEMMA UploadsTaken ==
  ASSUME TypeOK, Control, Pairs, cut = "none", Alive, toServer # <<>>, toServer' = Tail(toServer),
         srv.pc # "data" => srv'.hdr = toServer[1].hdr
  PROVE  /\ \A i \in UploadsIn(toServer', srv'.hdr) :
              /\ i \in Nat /\ i + 1 \in UploadsIn(toServer, srv.hdr)
              /\ toServer'[i] = toServer[i + 1]
              /\ HdrOf(toServer', srv'.hdr, i) = HdrOf(toServer, srv.hdr, i + 1)
         /\ \A i \in UploadsIn(toServer, srv.hdr) :
              i = 1 \/ (i - 1 \in UploadsIn(toServer', srv'.hdr) /\ (i - 1) + 1 = i)
         /\ 1 \in UploadsIn(toServer, srv.hdr) <=> srv.pc = "data" /\ srv.hdr.cmd = "SET"
         /\ HdrOf(toServer, srv.hdr, 1) = srv.hdr
<1> DEFINE q == toServer
           r == toServer'
           h == srv.hdr
           g == srv'.hdr
           n == Len(q)
<1>1. /\ r \in Seq(Message) /\ q \in Seq(Message) /\ Len(r) = n - 1 /\ n \in Nat \ {0}
      /\ \A i \in 1 .. n - 1 : r[i] = q[i + 1]
  BY Taken DEF TypeOK
<1>2. DOMAIN r = 1 .. n - 1 /\ DOMAIN q = 1..n
  BY <1>1, LenProperties
<1>3. \/ srv.pc # "data" /\ q[1].kind = "hdr" /\ g = q[1].hdr
      \/ srv.pc = "data" /\ q[1].kind = "data" /\ (n > 1 => q[2].kind = "hdr")
  <2>1. CASE srv.pc = "data"
    <3>1. q[1].kind = "data"
      BY <2>1, Unbroken DEF Pairs
    <3>2. n > 1 => 1 \in 1 .. n - 1 /\ 1 + 1 = 2
      BY <1>1
    <3>3. 1 \in 1 .. n - 1 => IF q[1].kind = "hdr" THEN Pair(q[1].hdr, q[1].id, q[1 + 1])
                                                  ELSE q[1 + 1].kind = "hdr"
      BY DEF Pairs
    <3> QED
      BY <2>1, <3>1, <3>2, <3>3
  <2> QED
    BY <2>1, Unbroken DEF Pairs
<1> HIDE DEF q, r, h, g, n
<1>4. \A i \in 2 .. n - 1 : HdrOf(r, g, i) = HdrOf(q, h, i + 1)
  <2>1. \A i \in 2 .. n - 1 : i - 1 \in 1 .. n - 1 /\ (i - 1) + 1 = i
    BY <1>1
  <2>2. \A i \in 2 .. n - 1 : r[i - 1] = q[i]
    BY <1>1, <2>1
  <2> QED
    BY <1>1, <2>2 DEF HdrOf
<1>5. /\ HdrOf(q, h, 1) = h /\ HdrOf(r, g, 1) = g
      /\ n > 1 => HdrOf(q, h, 2) = q[1].hdr /\ r[1] = q[2]
  BY <1>1 DEF HdrOf
<1>6. \A i \in 1 .. n - 1 : /\ i \in UploadsIn(r, g) <=> i + 1 \in UploadsIn(q, h)
                            /\ i \in UploadsIn(r, g) => HdrOf(r, g, i) = HdrOf(q, h, i + 1)
  <2>1. CASE n > 1 /\ q[1].kind = "hdr" /\ g = q[1].hdr
    <3>1. \A i \in 1 .. n - 1 : HdrOf(r, g, i) = HdrOf(q, h, i + 1)
      BY <1>1, <1>4, <1>5, <2>1
    <3> QED
      BY <1>1, <1>2, <3>1 DEF UploadsIn
  <2>2. CASE n > 1 /\ q[1].kind = "data" /\ q[2].kind = "hdr"
    <3>1. 1 \notin UploadsIn(r, g) /\ 1 + 1 \notin UploadsIn(q, h)
      BY <1>5, <2>2 DEF UploadsIn
    <3>2. \A i \in 2 .. n - 1 : i \in UploadsIn(r, g) <=> i + 1 \in UploadsIn(q, h)
      BY <1>1, <1>2, <1>4 DEF UploadsIn
    <3> QED
      BY <1>1, <1>4, <3>1, <3>2
  <2> QED
    BY <1>1, <1>3, <2>1, <2>2
<1>7. \A i \in UploadsIn(r, g) : i \in 1 .. n - 1
  BY <1>2 DEF UploadsIn
<1>8. \A i \in UploadsIn(q, h) : i \in 1..n
  BY <1>2 DEF UploadsIn
<1>9. 1 \in UploadsIn(q, h) <=> srv.pc = "data" /\ h.cmd = "SET"
  BY <1>1, <1>2, <1>3, <1>5 DEF UploadsIn
<1>10. \A i \in UploadsIn(q, h) : i = 1 \/ (i - 1 \in 1 .. n - 1 /\ (i - 1) + 1 = i)
  BY <1>1, <1>8
<1> QED
  BY <1>1, <1>5, <1>6, <1>7, <1>9, <1>10 DEF q, r, h, g
-----------------------------------------------------------------------------
(* Uploads on the way, under every step.                                   *)

\* Steps that leave the queue to the server and the client's files alone.
LEMMA UploadsQuiet ==
  ASSUME TypeOK, Current, Numbered,
         UNCHANGED <<toServer, disk>>, srv'.hdr = srv.hdr, Alive' => Alive,
         round' \in {round, round + 1},
         step' # "start" => step # "start" \/ round' = round + 1,
         step' \in {"sendHdr", "sendData"} /\ cmd' = "SET" => Brought(mod', job'.name, job'.file)
  PROVE  Current' /\ Numbered'
<1>1. Current'
  BY DEF Current, Brought
<1>2. ASSUME Alive', NEW i \in UploadsIn(toServer', srv'.hdr)
      PROVE  /\ toServer'[i].id <= round' /\ (step' # "start" => toServer'[i].id < round')
             /\ \A j \in UploadsIn(toServer', srv'.hdr) : i < j => toServer'[i].id < toServer'[j].id
  <2>1. i \in UploadsIn(toServer, srv.hdr) /\ Alive
    BY <1>2
  <2>2. toServer[i].id \in Nat /\ round \in Nat
    BY <2>1, Fields, UploadsInQueue DEF TypeOK
  <2>3. /\ toServer[i].id <= round /\ (step # "start" => toServer[i].id < round)
        /\ \A j \in UploadsIn(toServer, srv.hdr) : i < j => toServer[i].id < toServer[j].id
    BY <2>1 DEF Numbered
  <2> QED
    BY <2>2, <2>3
<1> QED
  BY <1>1, <1>2 DEF Numbered

\* Without a server, or with nothing on the way to it, only what the client has
\* in its hands matters.
LEMMA UploadsNone ==
  ASSUME ~Alive' \/ toServer' = <<>>, step' \notin {"sendHdr", "sendData"}
  PROVE  Current' /\ Numbered'
<1>1. toServer' = <<>> => \A h : UploadsIn(toServer', h) = {}
  BY DEF UploadsIn
<1> QED
  BY <1>1 DEF Current, Numbered

\* The menus and a name that is typed.
LEMMA UploadsMenus ==
  ASSUME TypeOK, Control, Current, Numbered,
         Menus \/ AskNameFails \/ NoMemory \/ File_stateDataDeal \/ SigPipe
  PROVE  Current' /\ Numbered'
<1> USE DEF conn, server, own
<1>0. round \in Nat
  BY DEF TypeOK
<1>1. CASE File_stateTcpInit
  <2>1. /\ UNCHANGED <<toServer, disk, srv, round>> /\ step' = "start"
    BY <1>1 DEF File_stateTcpInit, Return, Fail
  <2> QED
    BY <2>1, UploadsQuiet DEF Alive
<1>2. CASE File_stateSelModule \/ File_stateSelCmd
  <2>1. /\ UNCHANGED <<toServer, disk, srv, round>> /\ step' = "start"
    BY <1>2 DEF File_stateSelModule, File_stateSelCmd, Return, Control
  <2> QED
    BY <2>1, UploadsQuiet DEF Alive
<1>3. CASE File_stateDataDeal
  <2>1. /\ UNCHANGED <<toServer, disk, srv>> /\ round' = round + 1 /\ step' \in {"name", "sendHdr"}
        /\ cmd' = cmd /\ (step' = "sendHdr" => cmd # "SET")
    BY <1>3 DEF File_stateDataDeal, cmd
  <2> QED
    BY <2>1, UploadsQuiet DEF Alive
<1>4. CASE AskName
  <2>1. PICK n \in Names :
          /\ cmd = "SET" => disk[n] # Absent
          /\ job' = [name |-> n, len |-> 0,
                     file |-> IF cmd = "SET" THEN Carried(mod, disk[n]) ELSE NoFile]
    BY <1>4 DEF AskName
  <2>2. UNCHANGED <<toServer, disk, srv, round, g_stTestHdr>> /\ step = "name"
    BY <1>4 DEF AskName, menu
  <2>3. cmd' = "SET" => Brought(mod', job'.name, job'.file)
    BY <2>1, <2>2 DEF Brought, cmd, mod
  <2> QED
    BY <2>2, <2>3, UploadsQuiet DEF Alive
<1>5. CASE AskNameFails \/ NoMemory \/ SigPipe
  <2>1. /\ UNCHANGED <<toServer, disk, srv, round>> /\ step' = "start"
    BY <1>5 DEF AskNameFails, NoMemory, SigPipe, Fail, Killed, Return
  <2> QED
    BY <2>1, UploadsQuiet DEF Alive
<1> QED
  BY <1>1, <1>2, <1>3, <1>4, <1>5 DEF Menus

\* Answers, files that are saved, and the ends of the client.
LEMMA UploadsRecv ==
  ASSUME TypeOK, Control, Queues, Current, Numbered, Fetching,
         \/ RecvHdr \/ RecvBody \/ NoHdr \/ NoBody \/ RecvFails \/ RecvName \/ NameLost
         \/ Save \/ SaveFails
  PROVE  Current' /\ Numbered'
<1> USE DEF conn, server, own
<1>1. CASE RecvHdr \/ RecvBody \/ NoBody \/ RecvFails \/ RecvName \/ NameLost
  <2>1. /\ UNCHANGED <<toServer, disk, srv, round>> /\ step # "start"
        /\ step' \notin {"sendHdr", "sendData"}
    BY <1>1 DEF RecvHdr, RecvBody, NoBody, RecvFails, RecvName, NameLost, Fail, Killed, Return
  <2>2. round \in Nat
    BY DEF TypeOK
  <2> QED
    BY <2>1, <2>2, UploadsQuiet DEF Alive
<1>2. CASE NoHdr
  <2>1. ~Alive /\ srv' = srv /\ step' = "start"
    BY <1>2 DEF NoHdr, PeerDown, Control, Fail, Killed, Return
  <2> QED
    BY <2>1, UploadsNone DEF Alive
<1>3. CASE Save \/ SaveFails
  <2>1. /\ UNCHANGED <<toServer, srv>> /\ step' = "start" /\ step = "save" /\ ~Ended
    BY <1>3 DEF Save, SaveFails, Fail, Return, Control, Ended
  <2>2. ~Alive \/ toServer = <<>>
    BY <2>1 DEF Fetching
  <2> QED
    BY <2>1, <2>2, UploadsNone DEF Alive
<1> QED
  BY <1>1, <1>2, <1>3

\* A header is sent: no upload yet.
LEMMA UploadsSendHdr ==
  ASSUME TypeOK, Control, Current, Numbered, SendHdr
  PROVE  Current' /\ Numbered'
<1> DEFINE len == IF cmd = "EXIT" THEN 0 ELSE PackedLen(job.file)
           hdr == Sized(g_stTestHdr, len)
           msg == HdrMsg(hdr, round)
<1>1. PICK told : Sends(msg, told)
  BY DEF SendHdr
<1>2. /\ cmd' = cmd /\ mod' = mod /\ step = "sendHdr" /\ curState = "dataDeal"
      /\ UNCHANGED <<own, disk, job, srv, store, round>>
      /\ step' \in {"start", "sendData"}
  BY HdrSent DEF own, server, Control
<1>3. msg \in Message /\ msg.kind = "hdr"
  <2>1. len \in Nat
    BY Fields, CarriedTypes
  <2> HIDE DEF len
  <2>2. hdr \in Header /\ round \in Nat
    BY <2>1, HeaderTypes DEF TypeOK
  <2> HIDE DEF hdr
  <2> QED
    BY <2>2, Messages
<1> HIDE DEF msg, hdr
<1>4. step' = "sendData" /\ cmd' = "SET" => Brought(mod', job'.name, job'.file)
  BY <1>2 DEF Current
<1>5. CASE ~Alive
  BY <1>2, <1>4, <1>5 DEF Current, Numbered, Brought, Alive
<1>6. CASE Alive
  <2>1. toServer' = Append(toServer, msg) /\ toServer \in Seq(Message) /\ srv.hdr \in Header
    BY <1>1, <1>2, <1>6, Fields, SendAlive DEF TypeOK
  <2>2. /\ \A i \in UploadsIn(toServer, srv.hdr) :
             /\ i \in UploadsIn(toServer', srv.hdr)
             /\ toServer'[i] = toServer[i] /\ HdrOf(toServer', srv.hdr, i) = HdrOf(toServer, srv.hdr, i)
        /\ \A i \in UploadsIn(toServer', srv.hdr) : i \in UploadsIn(toServer, srv.hdr)
    BY <1>3, <2>1, UploadsAdded
  <2>3. Current'
    BY <1>2, <1>4, <1>6, <2>2 DEF Current, Brought
  <2>4. Numbered'
    BY <1>2, <1>6, <2>2 DEF Numbered
  <2> QED
    BY <2>3, <2>4
<1> QED
  BY <1>5, <1>6

\* Its data is sent: for an upload, the last one on the way.
LEMMA UploadsSendData ==
  ASSUME TypeOK, Control, Queues, Current, Numbered, SendData, cut = "none"
  PROVE  Current' /\ Numbered'
<1> DEFINE msg == DataMsg(job.name, job.file, round)
           n == Len(toServer)
<1>1. PICK told : Sends(msg, told)
  BY DEF SendData
<1>2. /\ step = "sendData" /\ curState = "dataDeal" /\ ~Ended
      /\ UNCHANGED <<srv, store, disk, round, job>> /\ cmd' = cmd /\ mod' = mod
      /\ step' \notin {"sendHdr", "sendData"}
  BY DEF SendData, Control, Ended, SetSent, Fail, Return, server, menu, cmd, mod
<1>3. /\ msg \in Message /\ msg.kind = "data" /\ msg.id = round
      /\ msg.name = job.name /\ msg.file = job.file
  BY Fields, Messages DEF TypeOK
<1>4. CASE ~Alive
  BY <1>2, <1>4, UploadsNone DEF Alive
<1>5. CASE Alive
  <2>1. toServer' = Append(toServer, msg) /\ toServer \in Seq(Message) /\ srv.hdr \in Header
    BY <1>1, <1>2, <1>5, Fields, SendAlive DEF TypeOK
  <2>2. LastHdr = g_stTestHdr
    BY <1>2, <1>5, Unbroken DEF Queues, Halves, Half
  <2>3. /\ \A i \in UploadsIn(toServer, srv.hdr) :
             /\ i \in UploadsIn(toServer', srv.hdr)
             /\ toServer'[i] = toServer[i] /\ HdrOf(toServer', srv.hdr, i) = HdrOf(toServer, srv.hdr, i)
        /\ \A i \in UploadsIn(toServer', srv.hdr) : i \in UploadsIn(toServer, srv.hdr) \/ i = n + 1
        /\ n + 1 \in UploadsIn(toServer', srv.hdr) <=> msg.kind = "data" /\ LastHdr.cmd = "SET"
        /\ toServer'[n + 1] = msg /\ HdrOf(toServer', srv.hdr, n + 1) = LastHdr
    BY <1>3, <2>1, UploadsAdded
  <2>4. /\ n \in Nat /\ round \in Nat
        /\ \A i \in UploadsIn(toServer, srv.hdr) : i \in 1..n /\ toServer[i].id \in Nat
    BY <2>1, UploadsInQueue DEF TypeOK
  <2> HIDE DEF n, msg
  <2>5. ASSUME NEW i \in UploadsIn(toServer', srv.hdr)
        PROVE  Brought(HdrOf(toServer', srv.hdr, i).mod, toServer'[i].name, toServer'[i].file)
    <3>1. CASE i \in UploadsIn(toServer, srv.hdr)
      BY <1>5, <2>3, <3>1 DEF Current
    <3>2. CASE i = n + 1
      <4>1. cmd = "SET" /\ HdrOf(toServer', srv.hdr, i).mod = mod
        BY <2>2, <2>3, <2>5, <3>2 DEF cmd, mod
      <4>2. Brought(mod, job.name, job.file)
        BY <1>2, <4>1 DEF Current
      <4> QED
        BY <1>3, <2>3, <3>2, <4>1, <4>2
    <3> QED
      BY <2>3, <2>5, <3>1, <3>2
  <2>6. Current'
    BY <1>2, <2>5 DEF Current, Brought
  <2>7. ASSUME NEW i \in UploadsIn(toServer', srv.hdr)
        PROVE  /\ toServer'[i].id <= round /\ (step' # "start" => toServer'[i].id < round)
               /\ \A j \in UploadsIn(toServer', srv.hdr) : i < j => toServer'[i].id < toServer'[j].id
    <3>1. \A j \in UploadsIn(toServer, srv.hdr) :
            /\ toServer'[j].id < round /\ j \in 1..n
            /\ \A k \in UploadsIn(toServer, srv.hdr) : j < k => toServer'[j].id < toServer'[k].id
      BY <1>2, <1>5, <2>3, <2>4 DEF Numbered
    <3>2. toServer'[n + 1].id = round
      BY <1>3, <2>3
    <3>3. i = n + 1 => step' = "start"
      <4>1. i = n + 1 => cmd = "SET"
        BY <2>2, <2>3, <2>7 DEF cmd
      <4>2. cmd = "SET" => step' = "start"
        BY DEF SendData, SetSent, Fail, Return
      <4> QED
        BY <4>1, <4>2
    <3>4. CASE i = n + 1
      BY <2>3, <2>4, <3>1, <3>2, <3>3, <3>4
    <3>5. CASE i \in UploadsIn(toServer, srv.hdr)
      <4>1. /\ toServer'[i].id < round /\ toServer'[i].id \in Nat
            /\ \A k \in UploadsIn(toServer, srv.hdr) : i < k => toServer'[i].id < toServer'[k].id
        BY <2>3, <2>4, <3>1, <3>5
      <4> QED
        BY <2>3, <2>4, <3>2, <4>1
    <3> QED
      BY <2>3, <2>7, <3>4, <3>5
  <2>8. Numbered'
    BY <1>2, <2>7 DEF Numbered
  <2> QED
    BY <2>6, <2>8
<1> QED
  BY <1>4, <1>5

\* The server takes a message.
LEMMA UploadsPassed ==
  ASSUME TypeOK, Control, Pairs, Current, Numbered, cut = "none", Alive, toServer # <<>>, toServer' = Tail(toServer),
         srv.pc # "data" => srv'.hdr = toServer[1].hdr,
         UNCHANGED <<step, disk, job, round, g_stTestHdr>>
  PROVE  Current' /\ Numbered'
<1>1. \A i \in UploadsIn(toServer', srv'.hdr) :
         /\ i \in Nat /\ i + 1 \in UploadsIn(toServer, srv.hdr)
         /\ toServer'[i] = toServer[i + 1]
         /\ HdrOf(toServer', srv'.hdr, i) = HdrOf(toServer, srv.hdr, i + 1)
  BY UploadsTaken
<1>2. cmd' = cmd /\ mod' = mod
  BY DEF cmd, mod
<1>3. Current'
  <2>1. \A i \in UploadsIn(toServer', srv'.hdr) :
          Brought(HdrOf(toServer', srv'.hdr, i).mod, toServer'[i].name, toServer'[i].file)
    BY <1>1 DEF Current
  <2> QED
    BY <1>2, <2>1 DEF Current, Brought
<1>4. Numbered'
  <2>1. ASSUME NEW i \in UploadsIn(toServer', srv'.hdr)
        PROVE  /\ toServer'[i].id <= round /\ (step # "start" => toServer'[i].id < round)
               /\ \A j \in UploadsIn(toServer', srv'.hdr) : i < j => toServer'[i].id < toServer'[j].id
    <3>1. i \in Nat /\ i + 1 \in UploadsIn(toServer, srv.hdr) /\ toServer'[i] = toServer[i + 1]
      BY <1>1, <2>1
    <3>2. /\ toServer[i + 1].id <= round /\ (step # "start" => toServer[i + 1].id < round)
          /\ \A j \in UploadsIn(toServer, srv.hdr) : i + 1 < j => toServer[i + 1].id < toServer[j].id
      BY <3>1 DEF Numbered
    <3>3. ASSUME NEW j \in UploadsIn(toServer', srv'.hdr), i < j
          PROVE  toServer'[i].id < toServer'[j].id
      <4>1. j \in Nat /\ j + 1 \in UploadsIn(toServer, srv.hdr) /\ toServer'[j] = toServer[j + 1]
        BY <1>1, <3>3
      <4>2. i + 1 < j + 1
        BY <3>1, <3>3, <4>1
      <4> QED
        BY <3>1, <3>2, <4>1, <4>2
    <3> QED
      BY <3>1, <3>2, <3>3
  <2> QED
    BY <2>1 DEF Numbered
<1> QED
  BY <1>3, <1>4

\* All steps of the server.
LEMMA UploadsServer ==
  ASSUME TypeOK, Control, Queues, Current, Numbered, cut = "none", ServesWhole \/ ServerEnds
  PROVE  Current' /\ Numbered'
<1>0. /\ UNCHANGED <<curState, step, disk, job, round, g_stTestHdr>> /\ Alive
      /\ cmd' = cmd /\ mod' = mod
  BY DEF ServesWhole, TakeHdr, ServeSet, ServeGet, AnswersGet, SendBody, ServeList, SendName, ServerEnds, Alive,
         own, menu, cmd, mod
<1>1. CASE HangUp
  <2>1. ~Alive'
    BY <1>1 DEF HangUp, Alive, TypeOK
  <2> QED
    BY <1>0, <2>1 DEF Current, Numbered, Brought
<1>2. CASE TakeHdr /\ ~HangUp
  <2>1. /\ srv.pc = "idle" /\ toServer # <<>> /\ toServer' = Tail(toServer)
        /\ srv' = [srv EXCEPT !.pc = "data", !.hdr = Head(toServer).hdr, !.id = Head(toServer).id]
    BY <1>2 DEF TakeHdr
  <2>2. Head(toServer) = toServer[1]
    BY <1>0, <2>1, Served DEF Queues
  <2>3. srv'.hdr = toServer[1].hdr
    BY <2>1, <2>2 DEF TypeOK
  <2> QED
    BY <1>0, <2>1, <2>3, UploadsPassed DEF Queues
<1>3. CASE (ServeSet \/ ServeGet \/ ServeList) /\ ~HangUp
  <2>1. srv.pc = "data" /\ toServer # <<>> /\ toServer' = Tail(toServer)
    BY <1>3 DEF ServeSet, ServeGet, AnswersGet, ServeList
  <2> QED
    BY <1>0, <2>1, UploadsPassed DEF Queues
<1>4. CASE SendBody \/ SendName
  <2>1. toServer' = toServer
    BY <1>4 DEF SendBody, SendName
  <2>2. srv'.hdr = srv.hdr
    BY <1>4 DEF SendBody, SendName, TypeOK
  <2>3. round \in Nat
    BY DEF TypeOK
  <2> QED
    BY <1>0, <2>1, <2>2, <2>3, UploadsQuiet DEF Current, Brought
<1> QED
  BY <1>1, <1>2, <1>3, <1>4 DEF ServesWhole, ServerEnds

-----------------------------------------------------------------------------
(* Downloads, under every step.                                            *)

\* Steps that leave what is asked alone.
LEMMA CodedSame ==
  ASSUME Coded, Alive' => Alive, UNCHANGED <<curState, toServer>>, mod' = mod,
         srv'.hdr = srv.hdr, srv'.pc # srv.pc => srv'.pc \notin {"data", "body"}
  PROVE  Coded'
BY DEF Coded, Ended

\* A client that asks nothing, or one that ends.
LEMMA CodedQuiet ==
  ASSUME Control, Queues, cut = "none", UNCHANGED <<toServer, srv>>, ~Ended' => ~Ended /\ ~Question
  PROVE  Coded'
<1>1. CASE Alive' /\ ~Ended'
  <2>1. Alive
    BY <1>1 DEF Alive
  <2>2. /\ srv.pc \notin {"body", "list"}
        /\ srv.pc = "data" /\ toServer # <<>> => ~Asks(srv.hdr)
        /\ \A i \in 1 .. Len(toServer) - 1 : toServer[i].kind = "hdr" => ~Asks(toServer[i].hdr)
    BY <1>1, <2>1, Unbroken, NoQuestion
  <2> QED
    BY <2>2 DEF Coded, Asks
<1> QED
  BY <1>1 DEF Coded

\* Steps of the client that send nothing.
LEMMA CodedClient ==
  ASSUME TypeOK, Control, Queues, Coded, cut = "none", Menus \/ Failures \/ GoesWhole, ~ServerEnds,
         ~SendHdr, ~SendData
  PROVE  Coded'
<1> USE DEF conn, server, menu
<1>1. CASE Menus \/ AskNameFails \/ SaveFails \/ File_stateDataDeal \/ Save
  <2>1. /\ UNCHANGED <<toServer, srv>>
        /\ step \in {"start", "name", "save"} /\ ~Ended
    BY <1>1 DEF Menus, File_stateTcpInit, File_stateSelModule, File_stateSelCmd, AskName, AskNameFails,
                SaveFails, File_stateDataDeal, Save, Control, Ended
  <2> QED
    BY <2>1, CodedQuiet DEF Question
<1>2. CASE NoMemory \/ SigPipe \/ RecvFails
  <2>1. UNCHANGED <<toServer, srv>> /\ Ended'
    BY <1>2 DEF NoMemory, SigPipe, RecvFails, Fail, Killed, Return, Ended
  <2> QED
    BY <2>1, CodedQuiet
<1>3. CASE RecvHdr \/ RecvBody \/ NoHdr \/ NoBody \/ RecvName \/ NameLost
  <2>1. UNCHANGED <<toServer, srv>> /\ mod' = mod /\ ~Ended
    BY <1>3 DEF RecvHdr, RecvBody, NoHdr, NoBody, RecvName, NameLost, mod, Control, Ended
  <2> QED
    BY <2>1 DEF Coded, Alive
<1> QED
  BY <1>1, <1>2, <1>3 DEF Failures, GoesWhole

\* A header is sent when no question is open.
LEMMA CodedSendHdr ==
  ASSUME TypeOK, Control, Queues, SendHdr, cut = "none"
  PROVE  Coded'
<1>1. PICK m, told : Sends(m, told)
  BY DEF SendHdr
<1>2. /\ step = "sendHdr" /\ curState = "dataDeal" /\ ~Ended /\ ~Question /\ srv' = srv
  BY DEF SendHdr, Control, Ended, Question, server
<1>3. CASE Alive
  <2>1. srv.pc = "data" => toServer # <<>>
    BY <1>2, <1>3, Unbroken DEF Queues, Halves, Half, Ended
  <2>2. toServer # <<>> => toServer[Len(toServer)].kind # "hdr"
    BY <1>2, <1>3, Unbroken DEF Queues, Halves, Half, Ended
  <2>3. toServer' = Append(toServer, m) /\ toServer \in Seq(Message)
    BY <1>1, <1>2, <1>3, SendAlive DEF TypeOK
  <2>4. /\ Len(toServer') = Len(toServer) + 1 /\ Len(toServer) \in Nat
        /\ \A i \in 1..Len(toServer) : toServer'[i] = toServer[i]
    BY <2>3, AppendProperties, LenProperties, EmptySeq
  <2>5. /\ srv.pc \notin {"body", "list"}
        /\ srv.pc = "data" /\ toServer # <<>> => ~Asks(srv.hdr)
        /\ \A i \in 1 .. Len(toServer) - 1 : toServer[i].kind = "hdr" => ~Asks(toServer[i].hdr)
    BY <1>2, <1>3, Unbroken, NoQuestion
  <2>6. ASSUME NEW i \in 1 .. Len(toServer') - 1, toServer'[i].kind = "hdr"
        PROVE  ~Asks(toServer'[i].hdr)
    <3>1. i \in 1..Len(toServer) /\ toServer'[i] = toServer[i]
      BY <2>4, <2>6
    <3>2. i # Len(toServer)
      <4>1. i = Len(toServer) => toServer # <<>>
        BY <2>4, <3>1, EmptySeq
      <4> QED
        BY <2>2, <2>6, <3>1, <4>1
    <3>3. i \in 1 .. Len(toServer) - 1
      BY <2>4, <3>1, <3>2
    <3> QED
      BY <2>5, <2>6, <3>1, <3>3
  <2> QED
    BY <1>2, <2>1, <2>5, <2>6 DEF Coded, Asks
<1> QED
  BY <1>2, <1>3 DEF Coded, Alive

\* The name of a download follows its header, which has the codec.
LEMMA CodedSendData ==
  ASSUME TypeOK, Control, Queues, SendData, cut = "none"
  PROVE  Coded'
<1> DEFINE msg == DataMsg(job.name, job.file, round)
           n == Len(toServer)
<1>1. PICK told : Sends(msg, told)
  BY DEF SendData
<1>2. /\ step = "sendData" /\ curState = "dataDeal" /\ ~Ended /\ ~Question /\ srv' = srv
      /\ mod' = mod
  BY DEF SendData, Control, Ended, Question, server, menu, mod
<1>3. msg \in Message
  BY Fields, Messages DEF TypeOK
<1> HIDE DEF msg, n
<1>4. CASE Alive
  <2>1. toServer' = Append(toServer, msg) /\ toServer \in Seq(Message)
    BY <1>1, <1>2, <1>4, SendAlive DEF TypeOK
  <2>2. /\ Len(toServer') = n + 1 /\ n \in Nat /\ (toServer = <<>> <=> n = 0)
        /\ \A i \in 1..n : toServer'[i] = toServer[i]
    BY <1>3, <2>1, Added DEF n
  <2>3. Half /\ LastHdr = g_stTestHdr
    BY <1>2, <1>4, Unbroken DEF Queues, Halves, Half
  <2>4. /\ srv.pc \notin {"body", "list"}
        /\ srv.pc = "data" /\ toServer # <<>> => ~Asks(srv.hdr)
        /\ \A i \in 1 .. n - 1 : toServer[i].kind = "hdr" => ~Asks(toServer[i].hdr)
    BY <1>2, <1>4, Unbroken, NoQuestion DEF n
  <2>5. srv.pc = "data" /\ Asks(srv.hdr) => srv.hdr.mod = mod
    BY <2>3, <2>4 DEF LastHdr, mod
  <2>6. ASSUME NEW i \in 1 .. Len(toServer') - 1, toServer'[i].kind = "hdr", Asks(toServer'[i].hdr)
        PROVE  toServer'[i].hdr.mod = mod
    <3>1. i \in 1..n /\ toServer'[i] = toServer[i] /\ (i = n \/ i \in 1 .. n - 1)
      BY <2>2, <2>6
    <3>2. i = n
      BY <2>4, <2>6, <3>1
    <3>3. toServer # <<>>
      BY <2>2, <3>1
    <3>4. toServer[n].hdr = g_stTestHdr
      BY <2>3, <3>3 DEF LastHdr, n
    <3> QED
      BY <3>1, <3>2, <3>4 DEF mod
  <2> QED
    BY <1>2, <2>4, <2>5, <2>6 DEF Coded, Asks
<1> QED
  BY <1>2, <1>4 DEF Coded, Alive

\* The server takes a question, or answers it.
LEMMA CodedServer ==
  ASSUME TypeOK, Control, Queues, Coded, cut = "none", ServesWhole \/ ServerEnds
  PROVE  Coded'
<1>0. UNCHANGED <<curState, step, job, round, g_stTestHdr>> /\ Alive /\ mod' = mod /\ Ended' = Ended
  BY DEF ServesWhole, TakeHdr, ServeSet, ServeGet, AnswersGet, SendBody, ServeList, SendName, ServerEnds, Alive,
         own, menu, mod, Ended
<1>1. CASE HangUp
  BY <1>1 DEF HangUp, Coded, Alive, TypeOK
<1>2. CASE SendBody \/ SendName
  <2>1. /\ toServer' = toServer /\ srv'.hdr = srv.hdr /\ srv'.pc \in {srv.pc, "idle"}
    BY <1>2 DEF SendBody, SendName, TypeOK
  <2> QED
    BY <1>0, <2>1, CodedSame
<1>3. CASE (TakeHdr \/ ServeSet \/ ServeGet \/ ServeList) /\ ~HangUp
  <2>1. CASE Ended
    BY <1>0, <2>1 DEF Coded
  <2>2. CASE ~Ended
    <3> DEFINE n == Len(toServer)
    <3>1. toServer # <<>> /\ toServer' = Tail(toServer)
      BY <1>3 DEF TakeHdr, ServeSet, ServeGet, AnswersGet, ServeList
    <3>2. /\ Len(toServer') = n - 1 /\ n \in Nat \ {0} /\ Head(toServer) = toServer[1]
          /\ \A i \in 1 .. n - 1 : toServer'[i] = toServer[i + 1]
          /\ toServer' = <<>> <=> n = 1
          /\ srv.pc # "data" => toServer[1].kind = "hdr"
      BY <1>0, <3>1, Unbroken, Served DEF Queues
    <3>3. \A i \in 1 .. n - 1 : toServer[i].kind = "hdr" /\ toServer[i].hdr.cmd = "GET" =>
                                  toServer[i].hdr.mod = mod
      BY <1>0, <2>2 DEF Coded
    <3>4. srv.pc = "data" /\ srv.hdr.cmd = "GET" => srv.hdr.mod = mod
      BY <1>0, <2>2, <3>1 DEF Coded
    <3> HIDE DEF n
    <3>5. \A i \in 1 .. Len(toServer') - 1 :
            toServer'[i].kind = "hdr" /\ toServer'[i].hdr.cmd = "GET" => toServer'[i].hdr.mod = mod
      <4>1. \A i \in 1 .. Len(toServer') - 1 : i \in 1 .. n - 1 /\ i + 1 \in 1 .. n - 1
        BY <3>2
      <4> QED
        BY <3>2, <3>3, <4>1
    <3>6. CASE TakeHdr
      <4>1. /\ srv.pc = "idle"
            /\ srv' = [srv EXCEPT !.pc = "data", !.hdr = Head(toServer).hdr, !.id = Head(toServer).id]
        BY <1>3, <3>6 DEF TakeHdr
      <4>2. srv'.hdr = toServer[1].hdr /\ srv'.pc = "data"
        BY <3>2, <4>1 DEF TypeOK
      <4>3. toServer' # <<>> => 1 \in 1 .. n - 1
        BY <3>2
      <4>4. toServer' # <<>> /\ srv'.hdr.cmd = "GET" => srv'.hdr.mod = mod
        BY <3>2, <3>3, <4>1, <4>2, <4>3
      <4> QED
        BY <1>0, <3>5, <4>2, <4>4 DEF Coded
    <3>7. CASE ServeSet \/ ServeList
      <4>1. srv'.pc \in {"idle", "list"}
        BY <1>3, <3>7 DEF ServeSet, ServeList, TypeOK
      <4> QED
        BY <1>0, <3>5, <4>1 DEF Coded
    <3>8. CASE ServeGet
      <4>1. srv.pc = "data" /\ srv.hdr.cmd = "GET" /\ srv' = [srv EXCEPT !.pc = "body", !.name = Head(toServer).name]
        BY <1>3, <3>8 DEF ServeGet, AnswersGet
      <4>2. srv'.pc = "body" /\ srv'.hdr = srv.hdr
        BY <4>1 DEF TypeOK
      <4> QED
        BY <1>0, <3>4, <3>5, <4>1, <4>2 DEF Coded
    <3> QED
      BY <1>3, <3>6, <3>7, <3>8
  <2> QED
    BY <2>1, <2>2
<1> QED
  BY <1>1, <1>2, <1>3 DEF ServesWhole, ServerEnds

\* A client that has no download in its hands.
LEMMA FetchingNone ==
  ASSUME Ended' \/ step' \notin {"recvHdr", "recvBody", "save"} \/ (step' = "recvHdr" /\ toClient' = <<>>)
  PROVE  Fetching'
<1>1. toClient' = <<>> => Len(toClient') = 0
  BY EmptySeq
<1> QED
  BY <1>1 DEF Fetching

\* The client takes the parts of an answer, and saves the file.
LEMMA FetchingClient ==
  ASSUME TypeOK, Control, Queues, Fetching, cut = "none", Menus \/ Failures \/ GoesWhole, ~ServerEnds
  PROVE  Fetching'
<1> USE DEF conn, server, menu
<1>1. CASE Menus \/ AskNameFails \/ NoMemory \/ SaveFails \/ File_stateDataDeal \/ Save \/ SigPipe
           \/ SendHdr \/ NoHdr \/ RecvFails \/ RecvName \/ NameLost
  <2>1. step' \notin {"recvHdr", "recvBody", "save"}
    BY <1>1 DEF Menus, File_stateTcpInit, File_stateSelModule, File_stateSelCmd, AskName, AskNameFails,
                SaveFails, File_stateDataDeal, Save, Control, SigPipe, SendHdr, NoHdr, RecvFails, RecvName,
                NameLost, NoMemory, Fail, Killed, Return
  <2> QED
    BY <2>1, FetchingNone
<1>2. CASE SendData
  <2>1. /\ step = "sendData" /\ ~Ended /\ ~Question /\ toClient' = toClient
        /\ step' \notin {"recvBody", "save"}
    BY <1>2 DEF SendData, Control, Ended, Question, SetSent, Fail, Return
  <2>2. toClient = <<>>
    BY <2>1, Unbroken DEF Queues, ToClient
  <2> QED
    BY <2>1, <2>2, FetchingNone
<1>3. CASE RecvHdr
  <2>1. /\ step = "recvHdr" /\ step' = "recvBody" /\ UNCHANGED <<curState, store, srv, toServer>>
        /\ ~Ended /\ mod' = mod /\ Recv /\ ToClient /\ toClient # <<>>
    BY <1>3 DEF RecvHdr, Control, Ended, mod, Queues, Recv
  <2>2. job'.name = job.name
    BY <1>3 DEF RecvHdr, TypeOK
  <2>3. /\ Len(toClient') = Len(toClient) - 1 /\ Len(toClient) \in Nat \ {0}
        /\ toClient' = <<>> <=> Len(toClient) = 1
        /\ \A i \in 1 .. Len(toClient) - 1 : toClient'[i] = toClient[i + 1]
    BY <2>1, Arrived
  <2>4. Len(toClient) \in {1, 2}
    BY <2>1, Unbroken DEF ToClient
  <2>5. toClient' # <<>> => Len(toClient) = 2 /\ toClient'[1] = toClient[2]
    BY <2>3, <2>4
  <2>6. Alive => toServer = <<>>
    BY <2>1, Unbroken, Answered
  <2> QED
    BY <2>1, <2>2, <2>5, <2>6 DEF Fetching, Fetched, Alive
<1>4. CASE RecvBody
  <2>1. /\ step = "recvBody" /\ UNCHANGED <<store, srv, toServer>>
        /\ ~Ended /\ mod' = mod /\ Recv /\ ToClient /\ toClient # <<>>
    BY <1>4 DEF RecvBody, Control, Ended, mod, Queues, Recv
  <2>2. Head(toClient) = toClient[1]
    BY <2>1, Arrived
  <2>3. toClient[1].name = job.name
    BY <2>1, Unbroken DEF ToClient, Body
  <2>4. job'.file = toClient[1].file /\ job'.name = job.name
    BY <1>4, <2>2, <2>3 DEF RecvBody, TypeOK
  <2>5. Alive => toServer = <<>>
    BY <2>1 DEF Fetching
  <2>6. step' \in {"save", "start"}
    BY <1>4 DEF RecvBody, Killed, Return
  <2> QED
    BY <2>1, <2>4, <2>5, <2>6 DEF Fetching, Fetched, Alive
<1>5. CASE NoBody
  <2>1. /\ ~Alive /\ srv' = srv /\ step' \in {"save", "start"} /\ (step' = "save" => job'.file = Part)
    BY <1>5 DEF NoBody, PeerDown, Control, Fail, Killed, Return, TypeOK
  <2> QED
    BY <2>1 DEF Fetching, Alive
<1> QED
  BY <1>1, <1>2, <1>3, <1>4, <1>5 DEF Failures, GoesWhole

\* The server answers with what it has; then there is no upload that it could take.
LEMMA FetchingServer ==
  ASSUME TypeOK, Control, Queues, InHand, Coded, Fetching, cut = "none", ServesWhole \/ ServerEnds
  PROVE  Fetching'
<1>0. /\ UNCHANGED <<curState, step, job, round, g_stTestHdr>> /\ Alive /\ mod' = mod /\ Ended' = Ended
  BY DEF ServesWhole, TakeHdr, ServeSet, ServeGet, AnswersGet, SendBody, ServeList, SendName, ServerEnds, Alive,
         own, menu, mod, Ended
<1>1. CASE Ended
  BY <1>0, <1>1, FetchingNone
<1>2. CASE ~Ended /\ (TakeHdr \/ ServeSet)
  <2>1. toServer # <<>> /\ toClient' = toClient
    BY <1>2 DEF TakeHdr, ServeSet
  <2>2. toClient = <<>> /\ step \notin {"recvBody", "save"}
    BY <1>0, <1>2, <2>1, Unbroken DEF Queues, Serving, Fetching
  <2> QED
    BY <1>0, <2>1, <2>2, FetchingNone
<1>3. CASE ~Ended /\ ServeGet
  <2>1. /\ srv.pc = "data" /\ srv.hdr.cmd = "GET" /\ toServer # <<>> /\ toServer' = Tail(toServer)
        /\ \/ \E h : toClient' = Append(toClient, HdrMsg(h, srv.id))
           \/ UNCHANGED toClient
    BY <1>3 DEF ServeGet, AnswersGet
  <2>2. toClient = <<>> /\ step = "recvHdr"
    BY <1>3, <2>1, Unbroken, QuestionTaken
  <2>3. Len(toClient') # 2
    <3>1. \A e : Len(Append(<<>>, e)) = 1 /\ Len(<<>>) = 0
      OBVIOUS
    <3>2. CASE \E h : toClient' = Append(toClient, HdrMsg(h, srv.id))
      <4>1. PICK h : toClient' = Append(<<>>, HdrMsg(h, srv.id))
        BY <2>2, <3>2
      <4>2. Len(toClient') = 1
        BY <3>1, <4>1
      <4> QED
        BY <4>2
    <3>3. CASE UNCHANGED toClient
      BY <2>2, <3>1, <3>3
    <3> QED
      BY <2>1, <3>2, <3>3
  <2> QED
    BY <1>0, <2>2, <2>3 DEF Fetching
<1>4. CASE ~Ended /\ SendBody
  <2> DEFINE file == Carried(srv.hdr.mod, store[srv.name])
             msg == DataMsg(srv.name, file, srv.id)
  <2>1. srv.pc = "body" /\ toClient' = Append(toClient, msg) /\ UNCHANGED <<toServer, store>>
    BY <1>4 DEF SendBody
  <2>2. /\ toServer = <<>> /\ srv.name = job.name /\ store[srv.name] # Absent /\ srv.hdr.mod = mod
        /\ \/ step = "recvHdr" /\ Len(toClient) = 1
           \/ step = "recvBody" /\ toClient = <<>>
    BY <1>0, <1>4, <2>1, Unbroken DEF Queues, Serving, InHand, Coded
  <2>3. Fetched(file)
    BY <2>2 DEF Fetched
  <2>4. msg \in Message /\ msg.file = file
    <3>1. store[srv.name] \in File
      BY <2>2, Fields DEF TypeOK, Files
    <3>2. file \in File
      BY <3>1, Fields, CarriedTypes
    <3> HIDE DEF file
    <3> QED
      BY <3>2, Fields, Messages
  <2> HIDE DEF msg, file
  <2>5. /\ toClient'[Len(toClient) + 1] = msg /\ Len(toClient') = Len(toClient) + 1
        /\ Len(toClient) \in Nat /\ (toClient = <<>> <=> Len(toClient) = 0)
    BY <2>1, <2>4, AnswerAdded
  <2>6. /\ step = "recvHdr" => toClient'[2] = msg
        /\ step = "recvBody" => toClient'[1] = msg
    <3>0. /\ step = "recvHdr" => Len(toClient) = 1
          /\ step = "recvBody" => Len(toClient) = 0
      <4>1. CASE step = "recvHdr" /\ Len(toClient) = 1
        BY <4>1
      <4>2. CASE step = "recvBody" /\ toClient = <<>>
        BY <2>5, <4>2
      <4> QED
        BY <2>2, <4>1, <4>2
    <3>1. /\ step = "recvHdr" => Len(toClient) + 1 = 2
          /\ step = "recvBody" => Len(toClient) + 1 = 1
      <4>1. 1 + 1 = 2 /\ 0 + 1 = 1
        OBVIOUS
      <4> QED
        BY <3>0, <4>1, Zenon
    <3> QED
      BY <2>5, <3>1, Zenon
  <2> QED
    BY <1>0, <2>1, <2>2, <2>3, <2>4, <2>6 DEF Fetching, Fetched
<1>5. CASE ~Ended /\ ServeList
  <2>1. srv.pc = "data" /\ srv.hdr.cmd = "LIST" /\ toServer # <<>> /\ toServer' = Tail(toServer)
    BY <1>5 DEF ServeList
  <2>2. step = "recvName"
    BY <1>5, <2>1, Unbroken, QuestionTaken
  <2> QED
    BY <1>0, <2>2, FetchingNone
<1>6. CASE ~Ended /\ SendName
  <2>1. step = "recvName"
    BY <1>0, <1>6, Unbroken DEF SendName, Queues, Serving
  <2> QED
    BY <1>0, <2>1, FetchingNone
<1>7. CASE ~Ended /\ ServerEnds
  <2>1. UNCHANGED <<toServer, toClient, store>> /\ ~Alive'
    BY <1>7 DEF ServerEnds, HangUp, Alive, TypeOK
  <2> QED
    BY <1>0, <2>1 DEF Fetching, Fetched
<1> QED
  BY <1>1, <1>2, <1>3, <1>4, <1>5, <1>6, <1>7 DEF ServesWhole

\* At the start nothing is on the way.
LEMMA TransfersInit == Init => XInv
<1>1. Init => UploadsIn(toServer, srv.hdr) = {} /\ Len(toServer) = 0
  BY EmptySeq DEF Init, UploadsIn
<1> QED
  BY <1>1 DEF Init, XInv, Current, Numbered, Coded, Fetching

\* All steps keep what transfers rest on.
LEMMA TransfersNext == IInv /\ (cut = "none" => XInv) /\ [Next]_vars => (cut' = "none" => XInv')
<1> SUFFICES ASSUME IInv, cut = "none" => XInv, [Next]_vars, cut' = "none" PROVE XInv'
  OBVIOUS
<1>0. TypeOK /\ Control /\ InHand /\ Queues
  BY DEF IInv
<1>1. CASE NextWhole
  <2>1. cut = "none"
    BY <1>1, NotCut
  <2>2. Current /\ Numbered /\ Coded /\ Fetching
    BY <2>1 DEF XInv
  <2>3. Current' /\ Numbered'
    BY <1>0, <1>1, <2>1, <2>2, UploadsMenus, UploadsRecv, UploadsSendHdr, UploadsSendData, UploadsServer
       DEF NextWhole, GoesWhole, Failures
  <2>4. Coded'
    BY <1>0, <1>1, <2>1, <2>2, CodedClient, CodedSendHdr, CodedSendData, CodedServer
       DEF NextWhole, GoesWhole, Failures
  <2>5. Fetching'
    BY <1>0, <1>1, <2>1, <2>2, FetchingClient, FetchingServer DEF NextWhole, GoesWhole, Failures
  <2> QED
    BY <2>3, <2>4, <2>5 DEF XInv
<1>2. CASE UNCHANGED vars
  <2>1. UNCHANGED <<curState, step, g_stTestHdr, job, disk, toServer, toClient, srv, store, round, cut>>
    BY <1>2 DEF vars, menu, own, conn, server, history
  <2>2. Current /\ Numbered /\ Coded /\ Fetching
    BY <2>1 DEF XInv
  <2> QED
    BY <2>1, <2>2 DEF XInv, Current, Brought, Numbered, Coded, Fetching, Fetched, Alive, Ended, mod, cmd
<1> QED
  BY <1>0, <1>1, <1>2, IsCut DEF Next, Goes, Serves, NextWhole, NextCut

-----------------------------------------------------------------------------
(* What is asked.                                                          *)

\* A request has its fields.
LEMMA RequestFields ==
  ASSUME NEW i \in Nat, NEW n \in Names, NEW m \in Mods, NEW o \in {"SET", "GET"}
  PROVE  /\ Request(i, o, n, m).id = i /\ Request(i, o, n, m).op = o
         /\ Request(i, o, n, m).name = n /\ Request(i, o, n, m).codec = m
         /\ Request(i, o, n, m) \in Exchange!Requests
BY DEF Request, Exchange!Requests

\* A message more for the server: a request more if it is the data of an upload.
LEMMA QueuedAdded ==
  ASSUME TypeOK, NEW m \in Message, toServer' = Append(toServer, m)
  PROVE  Queued(toServer', srv.hdr) = Queued(toServer, srv.hdr) \cup
           IF m.kind = "data" /\ LastHdr.cmd = "SET"
           THEN {Request(m.id, "SET", m.name, LastHdr.mod)} ELSE {}
<1> DEFINE k == Len(toServer) + 1
<1>1. /\ \A i \in UploadsIn(toServer, srv.hdr) : i \in UploadsIn(toServer', srv.hdr)
      /\ \A i \in UploadsIn(toServer, srv.hdr) :
           toServer'[i] = toServer[i] /\ HdrOf(toServer', srv.hdr, i) = HdrOf(toServer, srv.hdr, i)
      /\ \A i \in UploadsIn(toServer', srv.hdr) : i \in UploadsIn(toServer, srv.hdr) \/ i = k
      /\ k \in UploadsIn(toServer', srv.hdr) <=> m.kind = "data" /\ LastHdr.cmd = "SET"
      /\ toServer'[k] = m
      /\ HdrOf(toServer', srv.hdr, k) = LastHdr
  BY UploadsAdded
<1> HIDE DEF k
<1> QED
  BY <1>1 DEF Queued

\* A message that the server takes: a request less if it is the data of an upload.
LEMMA QueuedTaken ==
  ASSUME TypeOK, Control, Pairs, cut = "none", Alive, toServer # <<>>, toServer' = Tail(toServer),
         srv.pc # "data" => srv'.hdr = toServer[1].hdr
  PROVE  Queued(toServer, srv.hdr) = Queued(toServer', srv'.hdr) \cup
           IF srv.pc = "data" /\ srv.hdr.cmd = "SET"
           THEN {Request(toServer[1].id, "SET", toServer[1].name, srv.hdr.mod)} ELSE {}
<1> DEFINE Entry(i) == Request(toServer[i].id, "SET", toServer[i].name, HdrOf(toServer, srv.hdr, i).mod)
           Entry2(i) == Request(toServer'[i].id, "SET", toServer'[i].name,
                                HdrOf(toServer', srv'.hdr, i).mod)
<1>1. /\ \A i \in UploadsIn(toServer', srv'.hdr) :
           /\ i + 1 \in UploadsIn(toServer, srv.hdr)
           /\ Entry2(i) = Entry(i + 1)
      /\ \A i \in UploadsIn(toServer, srv.hdr) :
           i = 1 \/ (i - 1 \in UploadsIn(toServer', srv'.hdr) /\ (i - 1) + 1 = i)
      /\ 1 \in UploadsIn(toServer, srv.hdr) <=> srv.pc = "data" /\ srv.hdr.cmd = "SET"
      /\ HdrOf(toServer, srv.hdr, 1) = srv.hdr
  BY UploadsTaken
<1>2. Entry(1) = Request(toServer[1].id, "SET", toServer[1].name, srv.hdr.mod)
  BY <1>1
<1>3. /\ Queued(toServer, srv.hdr) = {Entry(i) : i \in UploadsIn(toServer, srv.hdr)}
      /\ Queued(toServer', srv'.hdr) = {Entry2(i) : i \in UploadsIn(toServer', srv'.hdr)}
  BY DEF Queued
<1> HIDE DEF Entry, Entry2
<1>4. \A i \in UploadsIn(toServer, srv.hdr) : i # 1 =>
        \E j \in UploadsIn(toServer', srv'.hdr) : Entry2(j) = Entry(i)
  BY <1>1
<1> QED
  BY <1>1, <1>2, <1>3, <1>4

\* What is on the way was asked before what the client has in its hands.
LEMMA UnderwayFacts ==
  ASSUME TypeOK, Numbered, NEW r \in Underway
  PROVE  /\ Alive /\ r.op = "SET" /\ r.id \in Nat /\ r.id <= round
         /\ step # "start" => r.id < round
<1>1. Alive /\ r \in Queued(toServer, srv.hdr)
  BY DEF Underway, Alive
<1>2. PICK i \in UploadsIn(toServer, srv.hdr) :
        r = Request(toServer[i].id, "SET", toServer[i].name, HdrOf(toServer, srv.hdr, i).mod)
  BY <1>1 DEF Queued
<1>3. toServer[i].id \in Nat
  BY <1>2, Fields, UploadsInQueue DEF TypeOK
<1>4. r.op = "SET" /\ r.id = toServer[i].id
  BY <1>2 DEF Request
<1> QED
  BY <1>1, <1>3, <1>4 DEF Numbered

\* The client has one request in its hands, the last that was made.
LEMMA AtHandFacts ==
  ASSUME TypeOK, Control, NEW r \in AtHand
  PROVE  /\ r = Request(round, cmd, job.name, mod) /\ AtHand = {r}
         /\ r.id = round /\ r.op = cmd /\ r.name = job.name /\ r.codec = mod
         /\ step # "start" /\ ~Ended /\ cmd \in {"GET", "SET"}
         /\ cmd = "SET" => Alive
<1>1. /\ r = Request(round, cmd, job.name, mod) /\ AtHand = {r}
      /\ step # "start" /\ cmd \in {"GET", "SET"} /\ (cmd = "SET" => Alive)
  BY DEF AtHand, Alive
<1> QED
  BY <1>1 DEF Control, Ended, Request

\* Uploads on the way stay there.
LEMMA SameUnderway ==
  ASSUME toServer' = toServer, srv'.hdr = srv.hdr, Alive' = Alive
  PROVE  Underway' = Underway
BY DEF Underway, Alive

-----------------------------------------------------------------------------
(* Every step is one of the exchange, or none.                             *)

\* Nothing but the end of client or server happens.
LEMMA Stays ==
  ASSUME UNCHANGED <<disk, store>>, Asked' = Asked, Up' => Up
  PROVE  Exchange!Promised \/ UNCHANGED <<disk, store, Asked, Up>>
<1>1. CASE ~Up'
  <2>1. Exchange!Lose
    BY <1>1 DEF Exchange!Lose, Exchange!Down, Exchange!Uploads
  <2> QED
    BY <2>1 DEF Exchange!Promised
<1>2. CASE Up'
  <2>1. Up' = Up
    BY <1>2 DEF Up
  <2> QED
    BY <2>1
<1> QED
  BY <1>1, <1>2

\* Requests are lost with the client, or with the server.
LEMMA Loses ==
  ASSUME UNCHANGED <<disk, store>>, ~Up', Asked' \subseteq Asked,
         Exchange!Uploads(Asked) \subseteq Asked' \/ Exchange!Uploads(Asked') = {}
  PROVE  Exchange!Promised
BY DEF Exchange!Promised, Exchange!Lose, Exchange!Down

\* Menus and failing questions make no request.
LEMMA MenusExchange ==
  ASSUME TypeOK, Control,
         \/ File_stateTcpInit \/ File_stateSelModule \/ File_stateSelCmd \/ File_stateDataDeal
         \/ AskNameFails
  PROVE  Exchange!Promised \/ UNCHANGED <<disk, store, Asked, Up>>
<1> USE DEF conn, server, own
<1>1. /\ UNCHANGED <<toServer, srv, disk, store>>
      /\ step \in {"start", "name"} /\ curState \notin {"outside", "killed"}
      /\ step' \in {"start", "name"} \/ (step' = "sendHdr" /\ cmd' \notin {"SET", "GET"})
  <2>1. CASE File_stateTcpInit \/ File_stateSelModule \/ File_stateSelCmd
    BY <2>1 DEF File_stateTcpInit, File_stateSelModule, File_stateSelCmd, Control, Return, Fail
  <2>2. CASE File_stateDataDeal
    BY <2>2 DEF File_stateDataDeal, cmd
  <2>3. CASE AskNameFails
    BY <2>3 DEF AskNameFails, Control, Return, Fail
  <2> QED
    BY <2>1, <2>2, <2>3
<1>2. Underway' = Underway
  BY <1>1, SameUnderway DEF Alive
<1>3. AtHand = {} /\ AtHand' = {}
  BY <1>1 DEF AtHand
<1>4. Asked' = Asked
  BY <1>2, <1>3 DEF Asked
<1> QED
  BY <1>1, <1>4, Stays DEF Up

\* A name that is typed makes a request; an upload's file was found.
LEMMA AskNameExchange ==
  ASSUME TypeOK, Control, Numbered, AskName
  PROVE  Exchange!Promised \/ UNCHANGED <<disk, store, Asked, Up>>
<1>1. PICK n \in Names :
        /\ cmd = "SET" => disk[n] # Absent
        /\ job' = [name |-> n, len |-> 0,
                   file |-> IF cmd = "SET" THEN Carried(mod, disk[n]) ELSE NoFile]
  BY DEF AskName
<1>2. /\ UNCHANGED <<toServer, srv, disk, store, round>> /\ cmd' = cmd /\ mod' = mod
      /\ step = "name" /\ curState = "dataDeal" /\ cmd \in {"SET", "GET"} /\ job'.name = n
      /\ \/ step' = "sendHdr" /\ UNCHANGED curState
         \/ step' = "start" /\ cmd = "SET"
  BY <1>1 DEF AskName, Killed, Return, Control, conn, server, menu, cmd, mod
<1>3. Underway' = Underway /\ AtHand = {}
  BY <1>2, SameUnderway DEF Alive, AtHand
<1> DEFINE r == Request(round, cmd, n, mod)
<1>4. CASE step' = "sendHdr" /\ (cmd = "SET" => Alive)
  <2>1. AtHand' = {r}
    BY <1>2, <1>4 DEF AtHand, Alive
  <2>2. /\ r \in Exchange!Requests /\ r.id = round /\ r.name = n /\ r.op = cmd /\ round \in Nat
    BY <1>2, Fields, RequestFields DEF TypeOK
  <2> HIDE DEF r
  <2>3. Asked' = Asked \cup {r}
    BY <1>3, <2>1 DEF Asked
  <2>4. \A q \in Asked : q.id < r.id
    BY <1>2, <1>3, <2>2, UnderwayFacts DEF Asked
  <2>5. r.op = "SET" => disk[r.name] # Absent
    BY <1>1, <2>2
  <2>6. Up' = Up
    BY <1>2, <1>4 DEF Up
  <2>7. Exchange!Ask(r)
    BY <1>2, <2>2, <2>3, <2>4, <2>5, <2>6 DEF Exchange!Ask
  <2> QED
    BY <2>3, <2>7 DEF Exchange!Promised
<1>5. CASE step' = "start" \/ (cmd = "SET" /\ ~Alive)
  <2>1. AtHand' = {}
    BY <1>2, <1>5 DEF AtHand, Alive
  <2>2. Asked' = Asked
    BY <1>3, <2>1 DEF Asked
  <2>3. Up' => Up
    BY <1>2 DEF Up
  <2> QED
    BY <1>2, <2>2, <2>3, Stays
<1> QED
  BY <1>2, <1>4, <1>5

\* A client that ends, or loses its connection, changing nothing.
LEMMA EndsExchange ==
  ASSUME TypeOK, Control, NoMemory \/ SigPipe \/ RecvFails \/ NameLost
  PROVE  Exchange!Promised \/ UNCHANGED <<disk, store, Asked, Up>>
<1> USE DEF conn, server, own
<1>1. /\ UNCHANGED <<toServer, srv, disk, store>> /\ curState \notin {"outside", "killed"}
      /\ step # "start"
  BY DEF NoMemory, SigPipe, RecvFails, NameLost, Control
<1>2. Underway' = Underway
  BY <1>1, SameUnderway DEF Alive
<1>3. CASE NoMemory \/ SigPipe \/ RecvFails
  <2>1. step' = "start" /\ curState' \in {"outside", "killed"}
    BY <1>3 DEF NoMemory, SigPipe, RecvFails, Fail, Killed, Return
  <2>2. ~Up' /\ AtHand' = {}
    BY <2>1 DEF Up, AtHand
  <2>3. \A r \in AtHand : r.op = "GET"
    <3>1. CASE NoMemory
      BY <3>1, AtHandFacts DEF NoMemory, Control
    <3>2. CASE SigPipe
      <4>1. ~Alive
        BY <3>2 DEF SigPipe, Control
      <4> QED
        BY <4>1, AtHandFacts
    <3>3. CASE RecvFails
      BY <3>3, AtHandFacts DEF RecvFails, Control
    <3> QED
      BY <1>3, <3>1, <3>2, <3>3
  <2>4. Asked' \subseteq Asked /\ Exchange!Uploads(Asked) \subseteq Asked'
    BY <1>2, <2>2, <2>3 DEF Asked, Exchange!Uploads
  <2> QED
    BY <1>1, <2>2, <2>4, Loses
<1>4. CASE NameLost
  <2>1. step = "recvName" /\ step' \in {"recvName", "start"}
    BY <1>4 DEF NameLost, Return, Fail
  <2>2. AtHand = {} /\ AtHand' = {}
    BY <2>1 DEF AtHand
  <2> QED
    BY <1>1, <1>2, <2>2, Stays DEF Asked, Up
<1> QED
  BY <1>3, <1>4

\* A header says nothing yet, or finds out that the server is gone.
LEMMA SendHdrExchange ==
  ASSUME TypeOK, Control, Queues, SendHdr
  PROVE  Exchange!Promised \/ UNCHANGED <<disk, store, Asked, Up>>
<1> DEFINE len == IF cmd = "EXIT" THEN 0 ELSE PackedLen(job.file)
           hdr == Sized(g_stTestHdr, len)
           msg == HdrMsg(hdr, round)
<1>1. PICK told : Sends(msg, told)
  BY DEF SendHdr
<1>2. /\ cmd' = cmd /\ mod' = mod /\ step = "sendHdr" /\ curState = "dataDeal"
      /\ UNCHANGED <<disk, job, srv, store, round>>
      /\ \/ step' = "sendData" /\ UNCHANGED curState
         \/ step' = "start" /\ cmd = "EXIT" /\ curState' = "max"
  BY HdrSent DEF own, server, Control
<1>3. msg \in Message /\ msg.kind = "hdr"
  <2>1. len \in Nat
    BY Fields, CarriedTypes
  <2> HIDE DEF len
  <2>2. hdr \in Header /\ round \in Nat
    BY <2>1, HeaderTypes DEF TypeOK
  <2> HIDE DEF hdr
  <2> QED
    BY <2>2, Messages
<1> HIDE DEF msg, hdr
<1>4. Underway' = Underway
  <2>1. CASE Alive
    <3>1. toServer' = Append(toServer, msg)
      BY <1>1, <1>2, <2>1, SendAlive
    <3>2. Queued(toServer', srv.hdr) = Queued(toServer, srv.hdr)
      BY <1>3, <3>1, QueuedAdded
    <3> QED
      BY <1>2, <3>2 DEF Underway
  <2> QED
    BY <1>2, <2>1 DEF Underway, Alive
<1>5. AtHand' = AtHand
  BY <1>2 DEF AtHand
<1>6. Asked' = Asked /\ Up' = Up
  BY <1>2, <1>4, <1>5 DEF Asked, Up
<1> QED
  BY <1>2, <1>6

\* An upload that is sent passes from the client's hands to the way.
LEMMA SendDataExchange ==
  ASSUME TypeOK, Control, Queues, SendData, cut = "none"
  PROVE  Exchange!Promised \/ UNCHANGED <<disk, store, Asked, Up>>
<1> DEFINE msg == DataMsg(job.name, job.file, round)
<1>1. PICK told \in {"ok", "error"} :
        /\ Sends(msg, told)
        /\ told = "ok" => \/ cmd = "SET" /\ step' = "start" /\ curState' = "module"
                          \/ cmd # "SET" /\ step' = (IF cmd = "GET" THEN "recvHdr" ELSE "recvName")
                             /\ UNCHANGED curState
        /\ told = "error" => step' = "start" /\ curState' = "outside"
  BY DEF SendData, SetSent, Fail, Return
<1>2. /\ step = "sendData" /\ curState = "dataDeal"
      /\ UNCHANGED <<srv, store, disk, round, job>> /\ cmd' = cmd /\ mod' = mod
  BY DEF SendData, Control, server, menu, cmd, mod
<1>3. /\ msg \in Message /\ msg.kind = "data" /\ msg.id = round /\ msg.name = job.name
  BY Fields, Messages DEF TypeOK
<1> HIDE DEF msg
<1>4. CASE Alive
  <2>1. told = "ok" /\ toServer' = Append(toServer, msg)
    BY <1>1, <1>2, <1>4, SendAlive
  <2>2. LastHdr = g_stTestHdr
    BY <1>2, <1>4, Unbroken DEF Queues, Halves, Half, Ended
  <2>3. Queued(toServer', srv.hdr) = Queued(toServer, srv.hdr) \cup
          IF cmd = "SET" THEN {Request(round, "SET", job.name, mod)} ELSE {}
    BY <1>3, <2>1, <2>2, QueuedAdded DEF cmd, mod
  <2>4. /\ Underway = Queued(toServer, srv.hdr) /\ Underway' = Queued(toServer', srv.hdr)
    BY <1>2, <1>4 DEF Underway, Alive
  <2>5. CASE cmd = "SET"
    <3>1. AtHand = {Request(round, "SET", job.name, mod)} /\ AtHand' = {}
      BY <1>1, <1>2, <1>4, <2>1, <2>5 DEF AtHand, Alive
    <3> QED
      BY <1>1, <1>2, <2>1, <2>3, <2>4, <2>5, <3>1, Stays DEF Asked, Up
  <2>6. CASE cmd # "SET"
    <3>1. AtHand' = AtHand
      BY <1>1, <1>2, <2>1, <2>6 DEF AtHand
    <3> QED
      BY <1>1, <1>2, <2>1, <2>3, <2>4, <2>6, <3>1, Stays DEF Asked, Up
  <2> QED
    BY <2>5, <2>6
<1>5. CASE ~Alive
  <2>1. Underway = {} /\ Underway' = {} /\ ~Up'
    BY <1>2, <1>5 DEF Underway, Alive, Up
  <2>2. AtHand' \subseteq AtHand /\ \A r \in AtHand : r.op = "GET"
    <3>1. AtHand' \subseteq AtHand
      BY <1>1, <1>2, <1>5 DEF AtHand, Alive
    <3> QED
      BY <1>5, <3>1, AtHandFacts
  <2>3. Asked' \subseteq Asked /\ Exchange!Uploads(Asked) \subseteq Asked'
    BY <2>1, <2>2 DEF Asked, Exchange!Uploads
  <2> QED
    BY <1>2, <2>1, <2>3, Loses
<1> QED
  BY <1>4, <1>5

\* An answer that arrives does not end its request, before it is saved.
LEMMA RecvExchange ==
  ASSUME TypeOK, Control, Queues, cut = "none", RecvHdr \/ RecvBody \/ RecvName \/ NoBody
  PROVE  Exchange!Promised \/ UNCHANGED <<disk, store, Asked, Up>>
<1> USE DEF conn, server, own
<1>1. /\ UNCHANGED <<toServer, srv, disk, store, round>> /\ curState = "dataDeal"
      /\ cmd' = cmd /\ mod' = mod /\ step \in {"recvHdr", "recvBody", "recvName"}
      /\ step' = "start" => curState' \in {"killed", "outside", "module"}
      /\ step' \in {"start", "recvBody", "save", "recvName"}
  BY DEF RecvHdr, RecvBody, RecvName, NoBody, Control, menu, cmd, mod, Fail, Killed, Return
<1>2. Underway' = Underway
  BY <1>1, SameUnderway DEF Alive
<1>3. job'.name = job.name
  <2>1. CASE RecvHdr \/ NoBody
    BY <2>1 DEF RecvHdr, NoBody, TypeOK
  <2>2. CASE RecvBody
    <3>1. /\ step = "recvBody" /\ ~Ended /\ Recv /\ ToClient /\ toClient # <<>>
      BY <2>2 DEF RecvBody, Control, Ended, Queues, Recv
    <3>2. Head(toClient) = toClient[1] /\ toClient[1].name = job.name
      BY <3>1, Unbroken, Arrived DEF ToClient, Body
    <3> QED
      BY <2>2, <3>2 DEF RecvBody, TypeOK
  <2>3. CASE RecvName
    BY <2>3 DEF RecvName
  <2> QED
    BY <2>1, <2>2, <2>3
<1>4. CASE cmd = "GET"
  <2>1. step \in {"recvHdr", "recvBody"} /\ AtHand = {Request(round, cmd, job.name, mod)}
    BY <1>1, <1>4 DEF Control, AtHand
  <2>2. CASE step' \in {"recvBody", "save"} /\ UNCHANGED curState
    <3>1. AtHand' = AtHand
      BY <1>1, <1>3, <1>4, <2>1, <2>2 DEF AtHand
    <3> QED
      BY <1>1, <1>2, <2>2, <3>1, Stays DEF Asked, Up
  <2>3. CASE step' = "start" /\ curState' \in {"killed", "outside"}
    <3>1. AtHand' = {} /\ ~Up'
      BY <2>3 DEF AtHand, Up
    <3>2. \A r \in AtHand : r.op = "GET"
      BY <1>4, AtHandFacts
    <3>3. Asked' \subseteq Asked /\ Exchange!Uploads(Asked) \subseteq Asked'
      BY <1>2, <3>1, <3>2 DEF Asked, Exchange!Uploads
    <3> QED
      BY <1>1, <3>1, <3>3, Loses
  <2> QED
    BY <2>1, <2>2, <2>3 DEF RecvHdr, RecvBody, RecvName, NoBody, Fail, Killed, Return
<1>5. CASE cmd # "GET"
  <2>1. step = "recvName" /\ step' \in {"start", "recvName"}
    BY <1>1, <1>5 DEF Control, RecvHdr, RecvBody, NoBody, RecvName, Return
  <2>2. AtHand' = {} /\ AtHand = {}
    BY <2>1 DEF AtHand
  <2> QED
    BY <1>1, <1>2, <2>2, Stays DEF Asked, Up
<1> QED
  BY <1>4, <1>5

\* A download in the client's hands is all that is asked, when the queue to the
\* server is empty or nobody reads it.
LEMMA OnlyDownload ==
  ASSUME TypeOK, Control, step \in {"recvHdr", "save"}, ~Alive \/ toServer = <<>>
  PROVE  \E r : /\ Asked = {r} /\ r.op = "GET" /\ r.name = job.name /\ r.codec = mod
                /\ r \in Exchange!Requests
                /\ Exchange!Earliest(r)
<1> DEFINE r == Request(round, "GET", job.name, mod)
<1>1. cmd = "GET"
  BY DEF Control
<1>2. AtHand = {r}
  BY <1>1 DEF AtHand
<1>3. Underway = {}
  <2>1. toServer = <<>> => \A h : Queued(toServer, h) = {}
    BY DEF Queued, UploadsIn
  <2> QED
    BY <2>1 DEF Underway, Alive
<1>4. /\ r.op = "GET" /\ r.name = job.name /\ r.codec = mod /\ r \in Exchange!Requests
      /\ r.id = round /\ round \in Nat
  BY Fields, RequestFields DEF TypeOK
<1> HIDE DEF r
<1>5. Exchange!Earliest(r)
  BY <1>2, <1>3, <1>4 DEF Exchange!Earliest, Asked
<1> QED
  BY <1>2, <1>3, <1>4, <1>5 DEF Asked

\* What the client's steps with a file do to what is asked.
LEMMA HandsFree ==
  ASSUME toServer' = toServer, srv' = srv, step' = "start", ~Alive \/ toServer = <<>>
  PROVE  Asked' = {}
<1>1. Underway' = {}
  <2>1. toServer = <<>> => \A h : Queued(toServer, h) = {}
    BY DEF Queued, UploadsIn
  <2> QED
    BY <2>1 DEF Underway, Alive
<1>2. AtHand' = {}
  BY DEF AtHand
<1> QED
  BY <1>1, <1>2 DEF Asked

\* A read that finds no answer: the download breaks off.
LEMMA NoHdrExchange ==
  ASSUME TypeOK, Control, NoHdr
  PROVE  Exchange!Promised \/ UNCHANGED <<disk, store, Asked, Up>>
<1>1. /\ step = "recvHdr" /\ ~Alive /\ UNCHANGED <<toServer, srv, store>> /\ step' = "start"
      /\ curState' \in {"outside", "killed"}
      /\ disk' = disk \/ disk' = [disk EXCEPT ![job.name] = Part]
  BY DEF NoHdr, PeerDown, Control, Fail, Killed, Return, server
<1>2. PICK r : /\ Asked = {r} /\ r.op = "GET" /\ r.name = job.name
               /\ Exchange!Earliest(r)
  BY <1>1, OnlyDownload
<1>3. Asked' = {} /\ ~Up'
  BY <1>1, HandsFree DEF Up
<1>4. CASE disk' = disk
  BY <1>1, <1>2, <1>3, <1>4, Loses DEF Exchange!Uploads
<1>5. CASE disk' = [disk EXCEPT ![job.name] = Part]
  <2>1. disk' \in Exchange!Broken(disk, r)
    BY <1>2, <1>5 DEF Exchange!Broken
  <2>2. Exchange!Down(Asked \ {r})
    BY <1>2, <1>3 DEF Exchange!Down, Exchange!Uploads
  <2>3. Exchange!Break(r)
    BY <1>1, <1>2, <2>1, <2>2 DEF Exchange!Break
  <2> QED
    BY <1>2, <2>3 DEF Exchange!Promised
<1> QED
  BY <1>1, <1>4, <1>5

\* A file that is saved is a download; if the old one cannot be removed, a refused one.
LEMMA SaveExchange ==
  ASSUME TypeOK, Control, Fetching, Save \/ SaveFails
  PROVE  Exchange!Promised \/ UNCHANGED <<disk, store, Asked, Up>>
<1>1. /\ step = "save" /\ UNCHANGED <<toServer, srv, store>> /\ step' = "start"
      /\ ~Ended /\ curState = "dataDeal"
  BY DEF Save, SaveFails, Control, Ended, Fail, Return, server, conn
<1>2. ~Alive \/ toServer = <<>>
  BY <1>1 DEF Fetching
<1>3. PICK r : /\ Asked = {r} /\ r.op = "GET" /\ r.name = job.name /\ r.codec = mod
               /\ Exchange!Earliest(r)
  BY <1>1, <1>2, OnlyDownload
<1>4. Asked' = {} /\ Asked' = Asked \ {r}
  BY <1>1, <1>2, <1>3, HandsFree
<1>5. ~Up' => Exchange!Down(Asked \ {r})
  BY <1>3, <1>4 DEF Exchange!Down, Exchange!Uploads
<1>6. CASE Save
  <2>1. disk' = [disk EXCEPT ![job.name] = job.file] /\ curState' = "module"
    BY <1>6 DEF Save, Return
  <2>2. CASE Fetched(job.file)
    <3>1. Up' = Up
      BY <1>1, <2>1 DEF Up
    <3>2. Exchange!Download(r)
      BY <1>1, <1>3, <1>4, <2>1, <2>2, <3>1 DEF Exchange!Download, Fetched
    <3> QED
      BY <1>3, <3>2 DEF Exchange!Promised
  <2>3. CASE job.file = Part /\ ~Alive
    <3>1. disk' \in Exchange!Broken(disk, r)
      BY <1>3, <2>1, <2>3 DEF Exchange!Broken
    <3>2. ~Up'
      BY <1>1, <2>3 DEF Up, Alive
    <3>3. Exchange!Break(r)
      BY <1>1, <1>3, <1>5, <3>1, <3>2 DEF Exchange!Break
    <3> QED
      BY <1>3, <3>3 DEF Exchange!Promised
  <2> QED
    BY <1>1, <2>2, <2>3 DEF Fetching
<1>7. CASE SaveFails
  <2>1. CASE disk[job.name] # Absent /\ Return("module") /\ UNCHANGED disk
    <3>1. Up' = Up
      BY <1>1, <2>1 DEF Up, Return
    <3>2. Exchange!Refuse(r)
      BY <1>1, <1>3, <1>4, <2>1, <3>1 DEF Exchange!Refuse, Exchange!Target
    <3> QED
      BY <1>3, <3>2 DEF Exchange!Promised
  <2>2. CASE /\ Fail
             /\ \E f \in {disk[job.name], Absent, Part} : disk' = [disk EXCEPT ![job.name] = f]
    <3>1. disk' \in Exchange!Broken(disk, r)
      BY <1>3, <2>2 DEF Exchange!Broken
    <3>2. ~Up'
      BY <2>2 DEF Up, Fail, Return
    <3>3. Exchange!Break(r)
      BY <1>1, <1>3, <1>5, <3>1, <3>2 DEF Exchange!Break
    <3> QED
      BY <1>3, <3>3 DEF Exchange!Promised
  <2> QED
    BY <1>7, <2>1, <2>2 DEF SaveFails
<1> QED
  BY <1>6, <1>7

-----------------------------------------------------------------------------
\* The server's steps.

\* The thread ends, and uploads on the way with it.
LEMMA Hangs ==
  ASSUME TypeOK, Control, HangUp, UNCHANGED <<step, g_stTestHdr, round, job>>
  PROVE  /\ ~Up' /\ Exchange!Uploads(Asked') = {} /\ Asked' \subseteq AtHand
<1>1. ~Alive'
  BY DEF HangUp, Alive, TypeOK
<1>2. Underway' = {} /\ ~Up'
  BY <1>1 DEF Underway, Alive, Up
<1>3. cmd' = cmd /\ mod' = mod
  BY DEF cmd, mod
<1>4. AtHand' \subseteq AtHand
  BY <1>1, <1>3 DEF AtHand, Alive
<1>5. \A r \in AtHand' : r.op = "GET"
  BY <1>1 DEF AtHand, Alive, Request
<1> QED
  BY <1>2, <1>4, <1>5 DEF Asked, Exchange!Uploads

\* The server's steps but for an upload: none, or requests are lost.
LEMMA ServerExchange ==
  ASSUME TypeOK, Control, Queues, cut = "none",
         TakeHdr \/ ServeGet \/ ServeList \/ SendBody \/ SendName \/ ServerEnds
  PROVE  Exchange!Promised \/ UNCHANGED <<disk, store, Asked, Up>>
<1>1. /\ UNCHANGED <<curState, step, disk, store, job, round, g_stTestHdr>> /\ Alive
      /\ cmd' = cmd /\ mod' = mod
  BY DEF TakeHdr, ServeGet, AnswersGet, SendBody, ServeList, SendName, ServerEnds, Alive, own, menu, cmd, mod
<1>2. CASE HangUp
  <2>1. ~Up' /\ Exchange!Uploads(Asked') = {} /\ Asked' \subseteq AtHand
    BY <1>1, <1>2, Hangs
  <2> QED
    BY <1>1, <2>1, Loses DEF Asked
<1>3. CASE ~HangUp
  <2>1. Alive'
    BY <1>3 DEF TakeHdr, ServeGet, AnswersGet, SendBody, ServeList, SendName, ServerEnds, Alive, TypeOK
  <2>2. AtHand' = AtHand /\ Up' = Up
    BY <1>1, <2>1 DEF AtHand, Alive, Up
  <2>3. Underway' = Underway
    <3>1. CASE SendBody \/ SendName
      <4>1. toServer' = toServer /\ srv'.hdr = srv.hdr
        BY <3>1 DEF SendBody, SendName, TypeOK
      <4> QED
        BY <1>1, <2>1, <4>1, SameUnderway
    <3>2. CASE TakeHdr
      <4>1. /\ srv.pc = "idle" /\ toServer # <<>> /\ toServer' = Tail(toServer)
            /\ srv' = [srv EXCEPT !.pc = "data", !.hdr = Head(toServer).hdr, !.id = Head(toServer).id]
        BY <1>3, <3>2 DEF TakeHdr
      <4>2. Head(toServer) = toServer[1]
        BY <1>1, <4>1, Served DEF Queues
      <4>3. srv'.hdr = toServer[1].hdr
        BY <4>1, <4>2 DEF TypeOK
      <4>4. Queued(toServer, srv.hdr) = Queued(toServer', srv'.hdr)
        BY <1>1, <4>1, <4>3, QueuedTaken DEF Queues
      <4> QED
        BY <1>1, <2>1, <4>4 DEF Underway, Alive
    <3>3. CASE ServeGet \/ ServeList
      <4>1. /\ srv.pc = "data" /\ srv.hdr.cmd # "SET" /\ toServer # <<>> /\ toServer' = Tail(toServer)
        BY <3>3 DEF ServeGet, AnswersGet, ServeList
      <4>2. Queued(toServer, srv.hdr) = Queued(toServer', srv'.hdr)
        BY <1>1, <4>1, QueuedTaken DEF Queues
      <4> QED
        BY <1>1, <2>1, <4>2 DEF Underway, Alive
    <3> QED
      BY <1>3, <3>1, <3>2, <3>3 DEF ServerEnds
  <2> QED
    BY <1>1, <2>2, <2>3 DEF Asked, Exchange!exchangeVars
<1> QED
  BY <1>2, <1>3

\* An upload that the server takes was asked before all others, and is what the
\* client has.
LEMMA UploadAtHead ==
  ASSUME TypeOK, Control, Queues, Current, Numbered, cut = "none", Alive, srv.pc = "data", srv.hdr.cmd = "SET",
         toServer # <<>>, toServer' = Tail(toServer)
  PROVE  \E r : /\ r \in Asked /\ r.op = "SET" /\ r.name = toServer[1].name
                /\ disk[r.name] # Absent /\ toServer[1].file = Carried(r.codec, disk[r.name])
                /\ Exchange!Earliest(r)
                /\ Underway = Queued(toServer', srv'.hdr) \cup {r}
                /\ r \notin Queued(toServer', srv'.hdr) /\ r \notin AtHand
                /\ AtHand # {} => step # "start"
<1> DEFINE r == Request(toServer[1].id, "SET", toServer[1].name, srv.hdr.mod)
           rest == Queued(toServer', srv'.hdr)
<1>1. /\ \A i \in UploadsIn(toServer', srv'.hdr) :
           /\ i \in Nat /\ i + 1 \in UploadsIn(toServer, srv.hdr)
           /\ toServer'[i] = toServer[i + 1]
      /\ 1 \in UploadsIn(toServer, srv.hdr)
      /\ HdrOf(toServer, srv.hdr, 1) = srv.hdr
  BY UploadsTaken DEF Queues
<1>2. Underway = rest \cup {r}
  BY QueuedTaken DEF Queues, Underway, Alive
<1>3. /\ toServer[1].id \in Nat /\ toServer[1].name \in Names /\ srv.hdr.mod \in Mods
  BY <1>1, Fields, UploadsInQueue DEF TypeOK
<1>4. r.op = "SET" /\ r.name = toServer[1].name /\ r.codec = srv.hdr.mod /\ r.id = toServer[1].id
  BY <1>3, RequestFields
<1>5. Brought(srv.hdr.mod, toServer[1].name, toServer[1].file)
  BY <1>1 DEF Current
<1>6. ASSUME NEW q \in rest
      PROVE  r.id < q.id /\ q.id \in Nat
  <2>1. PICK i \in UploadsIn(toServer', srv'.hdr) :
          q = Request(toServer'[i].id, "SET", toServer'[i].name, HdrOf(toServer', srv'.hdr, i).mod)
    BY DEF Queued
  <2>2. q.id = toServer'[i].id
    BY <2>1 DEF Request
  <2>3. i \in Nat /\ i + 1 \in UploadsIn(toServer, srv.hdr) /\ toServer'[i] = toServer[i + 1]
    BY <1>1
  <2>4. i + 1 \in 1..Len(toServer) /\ toServer[i + 1].id \in Nat /\ i # 0
    <3>1. i \in 1..Len(toServer') /\ Len(toServer') \in Nat
      <4>1. toServer' \in Seq(Message)
        BY Served DEF Queues
      <4>2. DOMAIN toServer' = 1..Len(toServer') /\ Len(toServer') \in Nat
        BY <4>1, LenProperties
      <4> QED
        BY <4>2 DEF UploadsIn
    <3> QED
      BY <2>3, <3>1, Fields, UploadsInQueue DEF TypeOK
  <2>5. 1 < i + 1
    BY <2>3, <2>4
  <2>6. toServer[1].id < toServer[i + 1].id
    BY <1>1, <2>3, <2>5 DEF Numbered
  <2> QED
    BY <1>4, <2>2, <2>3, <2>4, <2>6
<1>7. ASSUME NEW q \in AtHand
      PROVE  r.id < q.id /\ q.id \in Nat
  <2>1. q.id = round /\ step # "start" /\ round \in Nat
    BY AtHandFacts DEF TypeOK
  <2>2. toServer[1].id < round
    BY <1>1, <2>1 DEF Numbered
  <2> QED
    BY <1>4, <2>1, <2>2
<1> HIDE DEF r, rest
<1>8. r \notin rest /\ r \notin AtHand
  BY <1>3, <1>4, <1>6, <1>7
<1>9. Exchange!Earliest(r)
  BY <1>2, <1>3, <1>4, <1>6, <1>7 DEF Exchange!Earliest, Asked
<1>10. AtHand # {} => step # "start"
  BY DEF AtHand
<1>11. r \in Asked
  BY <1>2 DEF Asked
<1>12. disk[r.name] # Absent /\ toServer[1].file = Carried(r.codec, disk[r.name])
  BY <1>4, <1>5 DEF Brought
<1> QED
  BY <1>2, <1>4, <1>8, <1>9, <1>10, <1>11, <1>12 DEF rest

\* The server stores a file: an upload, a refused one or one that breaks off.
LEMMA ServeSetExchange ==
  ASSUME TypeOK, Control, Queues, Current, Numbered, ServeSet, cut = "none"
  PROVE  Exchange!Promised \/ UNCHANGED <<disk, store, Asked, Up>>
<1>1. /\ UNCHANGED <<curState, step, disk, job, round, g_stTestHdr>> /\ Alive
      /\ srv.pc = "data" /\ srv.hdr.cmd = "SET" /\ toServer # <<>> /\ toServer' = Tail(toServer)
      /\ cmd' = cmd /\ mod' = mod
  BY DEF ServeSet, Alive, own, menu, cmd, mod
<1>2. Head(toServer) = toServer[1]
  BY <1>1, Served DEF Queues
<1>3. PICK r : /\ r \in Asked /\ r.op = "SET" /\ r.name = toServer[1].name
               /\ disk[r.name] # Absent /\ toServer[1].file = Carried(r.codec, disk[r.name])
               /\ Exchange!Earliest(r)
               /\ Underway = Queued(toServer', srv'.hdr) \cup {r}
               /\ r \notin Queued(toServer', srv'.hdr) /\ r \notin AtHand
  BY <1>1, UploadAtHead
\* the thread goes on, and the request is done
<1>4. ASSUME srv' = [srv EXCEPT !.pc = "idle"]
      PROVE  Asked' = Asked \ {r} /\ Up' = Up
  <2>1. Alive' /\ srv'.hdr = srv.hdr
    BY <1>4 DEF Alive, TypeOK
  <2>2. AtHand' = AtHand /\ Up' = Up
    BY <1>1, <2>1 DEF AtHand, Alive, Up
  <2>3. Underway' = Queued(toServer', srv'.hdr)
    BY <2>1 DEF Underway, Alive
  <2> QED
    BY <1>3, <2>2, <2>3 DEF Asked
<1>5. CASE /\ store' = [store EXCEPT ![toServer[1].name] = toServer[1].file]
           /\ srv' = [srv EXCEPT !.pc = "idle"]
  <2>1. Exchange!Upload(r)
    BY <1>1, <1>3, <1>4, <1>5 DEF Exchange!Upload
  <2> QED
    BY <1>3, <2>1 DEF Exchange!Promised
<1>6. CASE /\ \E f \in Spoilt(toServer[1].name) : store' = [store EXCEPT ![toServer[1].name] = f]
           /\ HangUp
  <2>1. store' \in Exchange!Broken(store, r)
    BY <1>3, <1>6 DEF Exchange!Broken, Spoilt
  <2>2. ~Up' /\ Exchange!Uploads(Asked') = {} /\ Asked' \subseteq AtHand
    BY <1>1, <1>6, Hangs
  <2>3. Exchange!Down(Asked \ {r})
    BY <1>3, <2>2 DEF Exchange!Down, Asked
  <2>4. Exchange!Break(r)
    BY <1>1, <1>3, <2>1, <2>3 DEF Exchange!Break
  <2> QED
    BY <1>3, <2>4 DEF Exchange!Promised
<1>7. CASE /\ store[toServer[1].name] # Absent /\ UNCHANGED store
           /\ srv' = [srv EXCEPT !.pc = "idle"]
  <2>1. Exchange!Refuse(r)
    BY <1>1, <1>3, <1>4, <1>7 DEF Exchange!Refuse, Exchange!Target
  <2> QED
    BY <1>3, <2>1 DEF Exchange!Promised
<1> QED
  BY <1>2, <1>5, <1>6, <1>7 DEF ServeSet

-----------------------------------------------------------------------------
(* The client implements the exchange.                                     *)

\* At the start nothing is asked.
LEMMA ExchangeInit == Init => Exchange!Init
<1> SUFFICES ASSUME Init PROVE Exchange!Init
  OBVIOUS
<1>1. UploadsIn(toServer, srv.hdr) = {} /\ AtHand = {}
  BY EmptySeq DEF Init, UploadsIn, AtHand
<1>2. Asked = {}
  BY <1>1 DEF Asked, Underway, Queued
<1>3. Up
  BY DEF Init, Up
<1>4. Up = TRUE
  BY <1>3 DEF Up
<1>5. disk \in Files /\ store \in Files
  BY ClientAssumption DEF Init
<1>6. (cut = "none") = TRUE
  BY DEF Init
<1> QED
  BY <1>2, <1>4, <1>5, <1>6 DEF Exchange!Init

\* Every step is one of the exchange, or none.
LEMMA ExchangeStep ==
  IInv /\ (cut = "none" => XInv) /\ [Next]_vars => [Exchange!Next]_(Exchange!exchangeVars)
<1> SUFFICES ASSUME IInv, cut = "none" => XInv, [Next]_vars
             PROVE  Exchange!Next \/ UNCHANGED Exchange!exchangeVars
  OBVIOUS
<1>1. CASE cut' # "none"
  <2>1. (cut' = "none") = FALSE
    BY <1>1
  <2> QED
    BY <2>1 DEF Exchange!Next
<1>2. CASE cut' = "none"
  <2>0. TypeOK /\ Control /\ Queues
    BY DEF IInv
  <2>1. cut = "none" /\ (NextWhole \/ UNCHANGED vars)
    <3>1. CASE UNCHANGED vars
      BY <1>2, <3>1 DEF vars, history
    <3>2. CASE Next
      BY <1>2, <2>0, <3>2, NotCut, IsCut DEF Next, Goes, Serves, NextWhole, NextCut
    <3> QED
      BY <3>1, <3>2
  <2>2. Current /\ Numbered /\ Coded /\ Fetching
    BY <2>1 DEF XInv
  <2>3. Exchange!Promised \/ UNCHANGED <<disk, store, Asked, Up>>
    <3>1. CASE Menus \/ AskNameFails
      BY <2>0, <2>2, <3>1, MenusExchange, AskNameExchange DEF Menus
    <3>2. CASE GoesWhole
      BY <2>0, <2>1, <2>2, <3>2, MenusExchange, EndsExchange, SendHdrExchange, SendDataExchange,
         RecvExchange, NoHdrExchange, SaveExchange DEF GoesWhole
    <3>3. CASE ServesWhole \/ ServerEnds
      BY <2>0, <2>1, <2>2, <3>3, ServerExchange, ServeSetExchange DEF ServesWhole
    <3>4. CASE NoMemory \/ SaveFails
      BY <2>0, <2>2, <3>4, EndsExchange, SaveExchange
    <3>5. CASE UNCHANGED vars
      <4>1. UNCHANGED <<curState, step, g_stTestHdr, job, disk, toServer, srv, store, round>>
        BY <3>5 DEF vars, menu, own, conn, server
      <4>2. Underway' = Underway /\ AtHand' = AtHand /\ Up' = Up
        BY <4>1 DEF Underway, AtHand, Up, cmd, mod
      <4> QED
        BY <4>1, <4>2 DEF Asked
    <3> QED
      BY <2>1, <3>1, <3>2, <3>3, <3>4, <3>5 DEF NextWhole, Failures
  <2>4. (cut = "none") = TRUE /\ (cut' = "none") = TRUE
    BY <1>2, <2>1
  <2> QED
    BY <2>3, <2>4 DEF Exchange!Next, Exchange!exchangeVars
<1> QED
  BY <1>1, <1>2

\* A client, its connection and the server's thread implement the exchange: for
\* all names, files, codecs and lines, and whichever calls fail, each request
\* works as if its file was copied at once, in the order they were made, and
\* none is left out while both ends are up, but for a remove() that fails; up to
\* the first message that is received in pieces.
THEOREM Exchanges == Spec => Exchanged
<1>1. Init => IInv /\ (cut = "none" => XInv) /\ Exchange!Init
  BY InitInv, TransfersInit, ExchangeInit
<1>2. IInv /\ (cut = "none" => XInv) /\ [Next]_vars => IInv' /\ (cut = "none" => XInv)'
  BY NextInv, TransfersNext
<1>3. IInv /\ (cut = "none" => XInv) /\ [Next]_vars => [Exchange!Next]_(Exchange!exchangeVars)
  BY ExchangeStep
<1> QED
  BY <1>1, <1>2, <1>3, PTL DEF Spec, Exchanged, Exchange!Spec
=============================================================================
