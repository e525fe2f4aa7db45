----------------------- MODULE FileServerSerialProofs -----------------------
(***************************************************************************)
(* What holds of the server when clients come one at a time (MaxLive <= 1) *)
(* for any number of them, any requests and any of the modelled failures:  *)
(* the shared header never mixes two requests.                             *)
(***************************************************************************)
EXTENDS FileServerProofs, FiniteSetTheorems

-----------------------------------------------------------------------------
(* One client at a time is one thread at a time.                           *)

\* The accept queue holds the one client that is alive or nobody, a thread runs
\* only for a client that came, and no two clients are alive.
SoloInv ==
    Running =>
      /\ \A t \in Clients : pc[t] # "none" => cl[t] # "off"
      /\ \/ backlog = <<>>
         \/ \E c \in Clients : backlog = <<c>> /\ cl[c] # "off" /\ pc[c] = "none"
      /\ main.pc = "spawn" =>
           /\ backlog = <<>> /\ main.who \in Clients
           /\ cl[main.who] # "off" /\ pc[main.who] = "none"
      /\ \A c, d \in Clients : Live(c) /\ Live(d) => c = d

\* what a step of thread t does to the things SoloInv speaks of
KeepsSolo(t) ==
    /\ pc[t] \notin {"none", "done"} /\ pc'[t] # "none"
    /\ \A u \in Clients \ {t} : pc'[u] = pc[u]
    /\ \A d \in Clients : cl'[d] = cl[d] \/ (cl[d] = "closed" /\ cl'[d] = "hungup")
    /\ UNCHANGED backlog
    /\ main'.pc = "exited" \/ UNCHANGED main

\* While a thread runs, every other one is not started yet or has ended.
LEMMA SoloOthers ==
  ASSUME SoloInv, Running, NEW t \in Clients, pc[t] \notin {"none", "done"},
         NEW u \in Clients, u # t
  PROVE  pc[u] \in {"none", "done"}
<1> SUFFICES ASSUME pc[u] \notin {"none", "done"} PROVE FALSE
  OBVIOUS
<1>1. cl[t] # "off" /\ cl[u] # "off"
  BY DEF SoloInv
<1>2. Live(t) /\ Live(u)
  BY <1>1 DEF Live
<1> QED
  BY <1>2 DEF SoloInv

\* A thread's step keeps it so.
LEMMA SoloThread ==
  ASSUME TypeOK, SoloInv, Running, NEW t \in Clients, KeepsSolo(t)
  PROVE  SoloInv'
<1> SUFFICES ASSUME Running' PROVE SoloInv'
  BY DEF SoloInv
<1>1. UNCHANGED <<main, backlog>>
  BY DEF KeepsSolo, Running
<1>2. \A d \in Clients : /\ cl'[d] = "off" <=> cl[d] = "off"
                         /\ Connected(d)' <=> Connected(d)
  BY DEF KeepsSolo, Connected
<1>3. cl[t] # "off" /\ Live(t)
  BY DEF SoloInv, KeepsSolo, Live
<1>4. \A d \in Clients : Live(d)' => Live(d)
  <2> SUFFICES ASSUME NEW d \in Clients, Live(d)' PROVE Live(d)
    OBVIOUS
  <2>1. CASE d = t
    BY <1>3, <2>1
  <2>2. CASE d # t
    <3>1. pc'[d] = pc[d]
      BY <2>2 DEF KeepsSolo
    <3> QED
      BY <1>2, <3>1 DEF Live
  <2> QED
    BY <2>1, <2>2
<1>5. \A d \in Clients : pc'[d] # "none" => cl'[d] # "off"
  <2> SUFFICES ASSUME NEW d \in Clients, pc'[d] # "none" PROVE cl[d] # "off"
    BY <1>2
  <2> QED
    BY <1>3 DEF SoloInv, KeepsSolo
<1>6. \A d \in Clients : pc[d] = "none" => pc'[d] = "none"
  BY DEF KeepsSolo
<1>7. \/ backlog' = <<>>
      \/ \E c \in Clients : backlog' = <<c>> /\ cl'[c] # "off" /\ pc'[c] = "none"
  BY <1>1, <1>2, <1>6 DEF SoloInv
<1>8. main'.pc = "spawn" =>
        /\ backlog' = <<>> /\ main'.who \in Clients
        /\ cl'[main'.who] # "off" /\ pc'[main'.who] = "none"
  BY <1>1, <1>2, <1>6 DEF SoloInv
<1>9. \A c, d \in Clients : Live(c)' /\ Live(d)' => c = d
  BY <1>4 DEF SoloInv
<1> QED
  BY <1>5, <1>7, <1>8, <1>9 DEF SoloInv

\* So do the steps of the accept loop.
LEMMA SoloAcceptor ==
  ASSUME TypeOK, SoloInv, Server_dealClientReq
  PROVE  SoloInv'
<1> SUFFICES ASSUME Running' PROVE SoloInv'
  BY DEF SoloInv
<1>1. Running /\ ~Die /\ main \in MainLoop
  BY DEF Server_dealClientReq, EnterAccept, Accept, Spawn, SpawnFails, Die, Running,
     TypeOK, MainLoop
<1>2. CASE EnterAccept
  <2>1. main'.pc = "accept" /\ UNCHANGED <<pc, cl, backlog>>
    BY <1>1, <1>2 DEF EnterAccept, threadVars, clientVars, MainLoop
  <2> QED
    BY <1>1, <2>1 DEF SoloInv, Live, Connected
<1>3. CASE Accept
  <2>1. PICK c \in Clients : backlog = <<c>> /\ cl[c] # "off" /\ pc[c] = "none"
    BY <1>1, <1>3 DEF Accept, SoloInv
  <2>2. Head(backlog) = c /\ Tail(backlog) = <<>>
    BY <2>1
  <2>3. main'.pc = "spawn" /\ main'.who = c /\ backlog' = <<>> /\ UNCHANGED <<pc, cl>>
    BY <1>1, <1>3, <2>2 DEF Accept, threadVars, MainLoop
  <2> QED
    BY <1>1, <2>1, <2>3 DEF SoloInv, Live, Connected
<1>4. CASE Spawn
  <2> DEFINE c == main.who
  <2>1. /\ c \in Clients /\ cl[c] # "off" /\ pc[c] = "none" /\ backlog = <<>>
    BY <1>1, <1>4 DEF Spawn, SoloInv
  <2>2. main'.pc = "loop" /\ UNCHANGED <<cl, backlog>> /\ pc'[c] = "top"
    BY <1>1, <1>4, <2>1 DEF Spawn, clientVars, TypeOK, MainLoop
  <2>3. \A d \in Clients \ {c} : pc'[d] = pc[d]
    BY <1>4 DEF Spawn, TypeOK
  <2>4. \A d \in Clients : pc'[d] # "none" => cl'[d] # "off"
    BY <1>1, <2>1, <2>2, <2>3 DEF SoloInv
  <2>5. \A d \in Clients : Live(d)' => Live(d)
    BY <1>1, <2>1, <2>2, <2>3 DEF Live, Connected
  <2> QED
    BY <1>1, <2>1, <2>2, <2>4, <2>5 DEF SoloInv
<1>5. ~SpawnFails
  BY <1>1 DEF SpawnFails
<1> QED
  BY <1>2, <1>3, <1>4, <1>5 DEF Server_dealClientReq

\* So do the clients: nobody connects while another one is alive.
LEMMA SoloClient ==
  ASSUME MaxLive <= 1, TypeOK, SoloInv, NEW c \in Clients, Client(c)
  PROVE  SoloInv'
<1> SUFFICES ASSUME Running' PROVE SoloInv'
  BY DEF SoloInv
<1>1. UNCHANGED <<main, pc>> /\ Running
  BY DEF Client, Connect, SendHdr, SendPayload, TakeReply, NoticeDown, Depart,
     threadVars, Running
<1>2. cl \in [Clients -> {"off", "ready", "half", "wait", "closed", "hungup", "reset"}]
  BY DEF TypeOK
<1>3. CASE Connect(c)
  <2>1. \A d \in Clients : ~Live(d)
    <3> SUFFICES ASSUME NEW d \in Clients, Live(d) PROVE FALSE
      OBVIOUS
    <3>1. {e \in Clients : Live(e)} = {d}
      BY <1>1 DEF SoloInv
    <3>2. Cardinality({d}) = 1
      BY FS_Singleton
    <3>3. 1 < MaxLive
      BY <1>3, <3>1, <3>2 DEF Connect
    <3> QED
      BY <3>3, ServerAssumption
  <2>2. \A d \in Clients : cl[d] # "off" => pc[d] = "done"
    BY <1>1, <2>1 DEF Live
  <2>3. backlog = <<>> /\ main.pc # "spawn"
    BY <1>1, <2>2 DEF SoloInv
  <2>4. backlog' = <<c>> /\ cl' = [cl EXCEPT ![c] = "ready"] /\ cl[c] = "off"
    BY <1>3, <2>3 DEF Connect
  <2>5. pc[c] = "none"
    BY <1>1, <2>4 DEF SoloInv
  <2>6. cl'[c] = "ready" /\ \A d \in Clients \ {c} : cl'[d] = cl[d]
    BY <1>2, <2>4
  <2>7. \A d \in Clients : Live(d)' => d = c
    BY <1>1, <2>1, <2>6 DEF Live, Connected
  <2> QED
    BY <1>1, <2>3, <2>4, <2>5, <2>6, <2>7 DEF SoloInv
<1>4. CASE ~Connect(c)
  <2>1. UNCHANGED backlog
    BY <1>4 DEF Client, SendHdr, SendPayload, TakeReply, NoticeDown, Depart
  <2>2. /\ \A d \in Clients \ {c} : cl'[d] = cl[d]
        /\ Connected(c) /\ cl'[c] # "off"
    <3>1. CASE SendHdr(c)
      BY <1>2, <3>1 DEF SendHdr, Connected
    <3>2. CASE SendPayload(c)
      BY <1>2, <3>2 DEF SendPayload, Connected
    <3>3. CASE TakeReply(c)
      BY <1>2, <3>3 DEF TakeReply, Connected
    <3>4. CASE NoticeDown(c)
      BY <1>2, <3>4 DEF NoticeDown
    <3>5. CASE Depart(c)
      <4>1. PICK how \in Departures : cl' = [cl EXCEPT ![c] = how]
        BY <3>5 DEF Depart
      <4>2. how # "off"
        BY ServerAssumption
      <4> QED
        BY <1>2, <3>5, <4>1, <4>2 DEF Depart
    <3> QED
      BY <1>4, <3>1, <3>2, <3>3, <3>4, <3>5 DEF Client
  <2>3. cl[c] # "off" /\ Live(c)
    BY <2>2 DEF Connected, Live
  <2>4. \A d \in Clients : Live(d)' => Live(d)
    BY <1>1, <2>2, <2>3 DEF Live, Connected
  <2>5. \A d \in Clients : cl'[d] = "off" <=> cl[d] = "off"
    BY <2>2, <2>3
  <2> QED
    BY <1>1, <2>1, <2>4, <2>5 DEF SoloInv
<1> QED
  BY <1>3, <1>4

-----------------------------------------------------------------------------
(* One request at a time in the shared header.  From the memset to the     *)
(* last test of it, g_stTestHdr is what this thread received.              *)

\* where the thread relies on the header to be its own
Relying == {"hcall", "recv", "hdrdown", "ver", "len", "cmd", "mod", "size", "need",
            "dcall", "data", "datadown", "check", "decode"}

\* a thread at p with locals l and header h acts on what it received
Own(p, l, h) ==
    /\ p \in Relying => h = l.own
    /\ p = "copy" => h = [l.own EXCEPT !.cmd = h.cmd]
    /\ p \in Handling \ {"cmd"} => l.cmd = l.own.cmd
    /\ p \in Handling \ {"cmd", "mod"} => l.mod = l.own.mod
    /\ p \in Handling \ {"cmd", "mod", "size", "need"} => l.need = l.own.dlen

OwnInv ==
    /\ TypeOK /\ SoloInv
    /\ Running => \A t \in Clients : Own(pc[t], loc[t], g_stTestHdr)

KeepsOwn(t) ==
    /\ KeepsSolo(t)
    /\ Running' => Own(pc'[t], loc'[t], g_stTestHdr')

\* the locals that tell which request a thread is at are the same in l and m
SameRequest(l, m) == /\ m.own = l.own /\ m.cmd = l.cmd /\ m.mod = l.mod
                     /\ m.need = l.need

\* The handlers, once the request is decoded, rely on nothing shared.
Decoded == {"list", "names", "lclose", "lend", "get", "gread", "spin", "ghdr", "glen",
            "gsend", "gbody", "gclose", "set", "write", "sclose"}
Resting == {"top", "endclose", "errclose", "done"}

\* Where a thread is at rest it owes nothing, and the sets above are apart.
LEMMA OwnPlaces ==
  /\ \A p \in Resting : \A l, h : Own(p, l, h)
  /\ \A p \in Decoded : p \notin Relying /\ p # "copy" /\ p # "none" /\ p # "done"
                        /\ p \in Handling \ {"cmd", "mod", "size", "need"}
  /\ \A p \in Relying : p # "copy" /\ p # "none" /\ p # "done"
  /\ \A p \in {"dcall", "data", "datadown", "check", "decode"} :
       p \in Relying /\ p \in Handling \ {"cmd", "mod", "size", "need"}
  /\ \A p \in {"hcall", "recv", "hdrdown", "ver", "len"} : p \in Relying /\ p \notin Handling
  /\ "copy" \notin Handling \cup Relying
BY HandlingPcs DEF Own, Relying, Decoded, Resting

\* A step within the decoding or within a handler owes what it owed before.
LEMMA OwnFollows ==
  ASSUME NEW p, NEW q, NEW l, NEW m, NEW h, NEW i,
         Own(p, l, h), SameRequest(l, m),
         p \in Decoded \cup {"dcall", "data", "datadown", "check", "decode"},
         \/ q \in Decoded
         \/ q \in {"dcall", "data", "datadown", "check", "decode"} /\ p \notin Decoded /\ i = h
  PROVE  Own(q, m, i)
BY OwnPlaces DEF Own, SameRequest

\* A jump of a thread that leaves the clients and the accept queue alone.
LEMMA OwnJump ==
  ASSUME OwnInv, NEW t \in Clients, pc[t] \notin {"none", "done"},
         NEW q, q # "none", Goto(t, q),
         UNCHANGED <<cl, backlog>>, main'.pc = "exited" \/ UNCHANGED main,
         Running' => Own(q, loc'[t], g_stTestHdr')
  PROVE  KeepsOwn(t)
<1>1. TypeOK
  BY DEF OwnInv
<1>2. pc'[t] = q /\ \A u \in Clients \ {t} : pc'[u] = pc[u]
  BY <1>1, GotoThere, OtherThreads
<1> QED
  BY <1>2 DEF KeepsOwn, KeepsSolo

\* The process ending ends every obligation.
LEMMA OwnDies ==
  ASSUME OwnInv, NEW t \in Clients, pc[t] \notin {"none", "done"}, pc' = pc,
         UNCHANGED <<cl, backlog>>, Die
  PROVE  KeepsOwn(t)
<1>1. main'.pc = "exited"
  BY DieEnds DEF OwnInv
<1> QED
  BY <1>1 DEF KeepsOwn, KeepsSolo, Running

\* An assignment to a local that is not the request's.
LEMMA OwnLocals ==
  ASSUME TypeOK, NEW t \in Clients
  PROVE  /\ UNCHANGED loc => SameRequest(loc[t], loc'[t])
         /\ \A f \in {"k", "sock", "size", "file", "reply"} : \A v :
              SetLoc(t, f, v) => SameRequest(loc[t], loc'[t])
<1>1. loc \in [Clients -> Locals] /\ loc[t] \in Locals
  BY DEF TypeOK
<1>2. \A f \in {"k", "sock", "size", "file", "reply"} : \A v :
        SameRequest(loc[t], [loc[t] EXCEPT ![f] = v])
  BY <1>1 DEF Locals, SameRequest
<1>3. UNCHANGED loc => SameRequest(loc[t], loc'[t])
  BY DEF SameRequest
<1>4. ASSUME NEW f \in {"k", "sock", "size", "file", "reply"}, NEW v, SetLoc(t, f, v)
      PROVE  SameRequest(loc[t], loc'[t])
  <2>1. loc'[t] = [loc[t] EXCEPT ![f] = v]
    BY <1>1, <1>4 DEF SetLoc
  <2> QED
    BY <1>2, <2>1
<1> QED
  BY <1>3, <1>4

\* The steps of the handlers: sending, opening and closing.
LEMMA OwnShared ==
  ASSUME OwnInv, Running, NEW t \in Clients,
         NEW from \in Decoded, NEW p \in Decoded \cup Resting
  PROVE  /\ Opens(t, from, p) => KeepsOwn(t)
         /\ \A mayFail : OpenFails(t, from, mayFail) => KeepsOwn(t)
         /\ CloseFile(t, from, p) => KeepsOwn(t)
         /\ \A cell : \A q \in Decoded \cup Resting :
              Send(t, from, cell, p, q) => KeepsOwn(t)
<1>0. TypeOK /\ Own(pc[t], loc[t], g_stTestHdr)
  BY DEF OwnInv
<1>1. from \notin {"none", "done"} /\ "none" \notin Decoded \cup Resting
      /\ "endclose" \in Resting
  BY OwnPlaces DEF Decoded, Resting
<1>2. ASSUME pc[t] = from, SameRequest(loc[t], loc'[t]), NEW q \in Decoded \cup Resting
      PROVE  Own(q, loc'[t], g_stTestHdr')
  BY <1>0, <1>2, OwnPlaces, OwnFollows
<1>3. ASSUME Opens(t, from, p) PROVE KeepsOwn(t)
  <2>1. PICK f \in Fds : SetLoc(t, "file", f)
    BY <1>3 DEF Opens
  <2>2. SameRequest(loc[t], loc'[t])
    BY <1>0, <2>1, OwnLocals
  <2>3. pc[t] = from /\ Goto(t, p) /\ UNCHANGED <<main, cl, backlog>>
    BY <1>3 DEF Opens, clientVars
  <2> QED
    BY <1>1, <1>2, <2>2, <2>3, OwnJump
<1>4. ASSUME NEW mayFail, OpenFails(t, from, mayFail) PROVE KeepsOwn(t)
  <2>1. pc[t] = from /\ Goto(t, "endclose") /\ UNCHANGED <<main, cl, backlog, loc>>
    BY <1>4 DEF OpenFails, Private, clientVars
  <2> QED
    BY <1>0, <1>1, <1>2, <2>1, OwnLocals, OwnJump
<1>5. ASSUME CloseFile(t, from, p) PROVE KeepsOwn(t)
  <2>1. pc[t] = from /\ Goto(t, p) /\ UNCHANGED <<main, cl, backlog, loc>>
    BY <1>5 DEF CloseFile, CloseFd, clientVars
  <2> QED
    BY <1>0, <1>1, <1>2, <2>1, OwnLocals, OwnJump
<1>6. ASSUME NEW cell, NEW q \in Decoded \cup Resting, Send(t, from, cell, p, q)
      PROVE  KeepsOwn(t)
  <2>1. pc[t] = from /\ UNCHANGED <<backlog, loc>>
    BY <1>6 DEF Send
  <2>2. CASE SigPipe(connFd[t]) /\ UNCHANGED pc
    BY <1>1, <2>1, <2>2, OwnDies DEF SigPipe
  <2>3. CASE ~(SigPipe(connFd[t]) /\ UNCHANGED pc)
    <3>1. (Goto(t, p) \/ Goto(t, q)) /\ UNCHANGED main
      BY <1>6, <2>3 DEF Send, Delivers, SendFails
    <3>2. \A d \in Clients : cl'[d] = cl[d] \/ (cl[d] = "closed" /\ cl'[d] = "hungup")
      BY <1>0, <1>6, <2>3 DEF Send, Delivers, SendFails, TypeOK
    <3>3. PICK r \in {p, q} : Goto(t, r)
      BY <3>1
    <3>4. pc'[t] = r /\ \A u \in Clients \ {t} : pc'[u] = pc[u]
      BY <1>0, <3>3, GotoThere, OtherThreads
    <3>5. Own(r, loc'[t], g_stTestHdr')
      BY <1>0, <1>2, <2>1, OwnLocals
    <3> QED
      BY <1>1, <2>1, <3>1, <3>2, <3>4, <3>5 DEF KeepsOwn, KeepsSolo
  <2> QED
    BY <2>2, <2>3
<1> QED
  BY <1>3, <1>4, <1>5, <1>6

\* A jump within a handler or out of it that changes no local.
LEMMA OwnMoves ==
  ASSUME OwnInv, Running, NEW t \in Clients, pc[t] \in Decoded,
         NEW p \in Decoded \cup Resting, Goto(t, p),
         SameRequest(loc[t], loc'[t]), UNCHANGED <<main, cl, backlog>>
  PROVE  KeepsOwn(t)
<1>1. Own(pc[t], loc[t], g_stTestHdr)
  BY DEF OwnInv
<1>2. Own(p, loc'[t], g_stTestHdr')
  BY <1>1, OwnPlaces, OwnFollows
<1>3. pc[t] \notin {"none", "done"} /\ p # "none"
  BY OwnPlaces DEF Resting, Decoded
<1> QED
  BY <1>2, <1>3, OwnJump

\* The three handlers.
LEMMA OwnHandlers ==
  ASSUME OwnInv, Running, NEW t \in Clients, ListFile(t) \/ GetFile(t) \/ SetFile(t)
  PROVE  KeepsOwn(t)
<1>0. TypeOK /\ (UNCHANGED loc => SameRequest(loc[t], loc'[t]))
  BY OwnLocals DEF OwnInv
<1>p. /\ {"list", "names", "lclose", "lend", "get", "gread", "spin", "ghdr", "glen", "gsend",
          "gbody", "gclose", "set", "write", "sclose"} \subseteq Decoded
      /\ {"top", "endclose"} \subseteq Resting
  BY DEF Decoded, Resting
<1>1. CASE ListFile(t)
  <2>1. CASE OpenDir(t) \/ SendName(t) \/ CloseDir(t) \/ SendEnd(t)
    BY <1>p, <2>1, OwnShared DEF OpenDir, SendName, CloseDir, SendEnd
  <2>2. CASE NoName(t)
    <3>1. /\ pc[t] = "names" /\ UNCHANGED <<main, cl, backlog, loc>>
          /\ Goto(t, "lclose") \/ Goto(t, "endclose")
      BY <2>2 DEF NoName, Private, clientVars
    <3> QED
      BY <1>0, <1>p, <3>1, OwnMoves
  <2> QED
    BY <1>1, <2>1, <2>2 DEF ListFile
<1>2. CASE GetFile(t)
  <2>1. CASE OpenFile(t) \/ SendReplyHdr(t) \/ SendBody(t)
    BY <1>p, <2>1, OwnShared DEF OpenFile, SendReplyHdr, SendBody
  <2>2. CASE ReadFile(t)
    <3>1. /\ pc[t] = "gread" /\ UNCHANGED <<main, cl, backlog>>
          /\ Goto(t, "ghdr") \/ Goto(t, "endclose") \/ Goto(t, "spin")
      BY <2>2 DEF ReadFile, clientVars
    <3>2. UNCHANGED loc \/ \E n : SetLoc(t, "reply", n)
      BY <2>2 DEF ReadFile
    <3>3. SameRequest(loc[t], loc'[t])
      BY <1>0, <3>2, OwnLocals DEF OwnInv
    <3> QED
      BY <1>p, <3>1, <3>3, OwnMoves
  <2>3. CASE StartReplyHdr(t) \/ FillReplyHdr(t)
    <3>1. /\ pc[t] \in {"ghdr", "glen"} /\ UNCHANGED <<main, cl, backlog, loc>>
          /\ Goto(t, "glen") \/ Goto(t, "gsend")
      BY <2>3 DEF StartReplyHdr, FillReplyHdr, clientVars
    <3> QED
      BY <1>0, <1>p, <3>1, OwnMoves DEF OwnInv
  <2>4. CASE CloseGot(t)
    <3>1. CASE CloseFile(t, "gclose", "top")
      BY <1>p, <3>1, OwnShared
    <3>2. CASE pc[t] = "gclose" /\ Goto(t, "top") /\ UNCHANGED loc /\ Private
      BY <1>0, <1>p, <3>2, OwnMoves DEF Private, clientVars, OwnInv
    <3> QED
      BY <2>4, <3>1, <3>2 DEF CloseGot
  <2> QED
    BY <1>2, <2>1, <2>2, <2>3, <2>4 DEF GetFile
<1>3. CASE SetFile(t)
  <2>1. CASE CreateFile(t)
    <3>1. CASE pc[t] = "set" /\ Goto(t, "top") /\ UNCHANGED loc /\ Private
      BY <1>0, <1>p, <3>1, OwnMoves DEF Private, clientVars, OwnInv
    <3> QED
      BY <1>p, <2>1, <3>1, OwnShared DEF CreateFile
  <2>2. CASE WriteFile(t)
    <3>1. pc[t] = "write" /\ UNCHANGED <<backlog, loc>>
      BY <2>2 DEF WriteFile
    <3>2. CASE SigPipe(loc[t].file) /\ UNCHANGED pc
      BY <1>p, <3>1, <3>2, OwnPlaces, OwnDies DEF SigPipe
    <3>3. CASE ~(SigPipe(loc[t].file) /\ UNCHANGED pc)
      <4>1. (Goto(t, "sclose") \/ Goto(t, "endclose")) /\ UNCHANGED main
        BY <2>2, <3>3 DEF WriteFile, Delivers, SendFails
      <4>2. \A d \in Clients : cl'[d] = cl[d] \/ (cl[d] = "closed" /\ cl'[d] = "hungup")
        BY <2>2, <3>3 DEF OwnInv, WriteFile, Delivers, SendFails, TypeOK
      <4>3. PICK r \in {"sclose", "endclose"} : Goto(t, r)
        BY <4>1
      <4>4. pc'[t] = r /\ \A u \in Clients \ {t} : pc'[u] = pc[u]
        BY <4>3, GotoThere, OtherThreads DEF OwnInv
      <4>5. Own(r, loc'[t], g_stTestHdr')
        <5>1. Own(pc[t], loc[t], g_stTestHdr)
          BY DEF OwnInv
        <5> QED
          BY <1>0, <1>p, <3>1, <5>1, OwnPlaces, OwnFollows DEF OwnInv
      <4> QED
        BY <3>1, <4>1, <4>2, <4>4, <4>5 DEF KeepsOwn, KeepsSolo
    <3> QED
      BY <3>2, <3>3
  <2>3. CASE CloseWritten(t)
    BY <1>p, <2>3, OwnShared DEF CloseWritten
  <2> QED
    BY <1>3, <2>1, <2>2, <2>3 DEF SetFile
<1> QED
  BY <1>1, <1>2, <1>3

\* Receiving and checking a header: what the thread received and what the
\* shared header holds agree from the memset on, but for the command word
\* between the two halves of the copy.
LEMMA OwnRecvHeader ==
  ASSUME OwnInv, Running, NEW t \in Clients, RecvHeader(t)
  PROVE  KeepsOwn(t)
<1>0. /\ TypeOK /\ Own(pc[t], loc[t], g_stTestHdr)
      /\ loc \in [Clients -> Locals] /\ loc[t] \in Locals /\ g_stTestHdr \in Header
  BY DEF OwnInv, TypeOK
<1>1. CASE Top(t)
  <2>1. pc[t] = "top" /\ Goto(t, "hcall") /\ UNCHANGED <<main, cl, backlog>>
    BY <1>1 DEF Top, clientVars
  <2>2. g_stTestHdr' = ZeroHdr /\ loc'[t] = Cleared(t)
    BY <1>0, <1>1 DEF Top
  <2>3. Cleared(t).own = ZeroHdr
    BY DEF Cleared, NoLocals
  <2>4. Own("hcall", loc'[t], g_stTestHdr')
    BY <2>2, <2>3, OwnPlaces DEF Own
  <2> QED
    BY <2>1, <2>4, OwnJump
<1>2. CASE Call(t, "hcall", "recv")
  <2>1. pc[t] = "hcall" /\ Goto(t, "recv") /\ UNCHANGED <<main, cl, backlog, g_stTestHdr>>
    BY <1>2 DEF Call, clientVars
  <2>2. SameRequest(loc[t], loc'[t])
    BY <1>0, <1>2, OwnLocals DEF Call
  <2>3. Own("recv", loc'[t], g_stTestHdr')
    BY <1>0, <2>1, <2>2, OwnPlaces DEF Own, SameRequest
  <2> QED
    BY <2>1, <2>3, OwnJump
<1>3. CASE RecvHdr(t)
  <2> DEFINE h == HdrSeen(Head(inq[loc[t].sock.who]))
  <2>1. pc[t] = "recv" /\ Goto(t, "copy") /\ UNCHANGED <<main, cl, backlog>>
    BY <1>3 DEF RecvHdr, clientVars
  <2>2. g_stTestHdr' = [h EXCEPT !.cmd = g_stTestHdr.cmd] /\ SetLoc(t, "own", h)
    BY <1>3 DEF RecvHdr
  <2> HIDE DEF h
  <2>3. loc'[t].own = h
    BY <1>0, <2>2 DEF SetLoc, Locals
  <2>4. TypeOK'
    BY <1>0, <1>3, TypeRecvHeader DEF RecvHeader
  <2>5. h \in Header
    <3>1. loc'[t] \in Locals
      BY <2>4 DEF TypeOK
    <3> QED
      BY <2>3, <3>1 DEF Locals
  <2>6. g_stTestHdr' = [h EXCEPT !.cmd = g_stTestHdr'.cmd]
    BY <1>0, <2>2, <2>5 DEF Header
  <2>7. Own("copy", loc'[t], g_stTestHdr')
    BY <2>3, <2>6, OwnPlaces DEF Own
  <2> QED
    BY <2>1, <2>7, OwnJump
<1>4. CASE CopyCmd(t)
  <2>1. pc[t] = "copy" /\ Goto(t, "ver") /\ UNCHANGED <<main, cl, backlog, loc>>
    BY <1>4 DEF CopyCmd, clientVars
  <2>2. g_stTestHdr = [loc[t].own EXCEPT !.cmd = g_stTestHdr.cmd]
    BY <1>0, <2>1 DEF Own
  <2>3. g_stTestHdr' = [g_stTestHdr EXCEPT !.cmd = loc[t].own.cmd]
    BY <1>4 DEF CopyCmd
  <2>4. loc[t].own \in Header
    BY <1>0 DEF Locals
  <2>5. g_stTestHdr' = loc[t].own
    BY <1>0, <2>2, <2>3, <2>4 DEF Header
  <2>6. Own("ver", loc'[t], g_stTestHdr')
    BY <2>1, <2>5, OwnPlaces DEF Own
  <2> QED
    BY <2>1, <2>6, OwnJump
<1>5. CASE HdrDown(t)
  <2>1. /\ pc[t] = "hdrdown" /\ Goto(t, "ver")
        /\ UNCHANGED <<main, cl, backlog, loc, g_stTestHdr>>
    BY <1>5 DEF HdrDown, CloseFd, clientVars
  <2>2. Own("ver", loc'[t], g_stTestHdr')
    BY <1>0, <2>1, OwnPlaces DEF Own
  <2> QED
    BY <2>1, <2>2, OwnJump
<1>6. CASE CheckVersion(t)
  <2>1. pc[t] = "ver" /\ UNCHANGED <<main, cl, backlog, g_stTestHdr>>
    BY <1>6 DEF CheckVersion, Private, clientVars
  <2>2. \/ Goto(t, "len") /\ UNCHANGED loc
        \/ Goto(t, "done")
    BY <1>6 DEF CheckVersion
  <2>3. UNCHANGED loc => Own("len", loc'[t], g_stTestHdr')
    BY <1>0, <2>1, OwnPlaces DEF Own
  <2>4. Own("done", loc'[t], g_stTestHdr')
    BY OwnPlaces DEF Resting
  <2> QED
    BY <2>1, <2>2, <2>3, <2>4, OwnJump
<1>7. CASE CheckLen(t)
  <2>1. pc[t] = "len" /\ UNCHANGED <<main, cl, backlog, g_stTestHdr>>
    BY <1>7 DEF CheckLen, Private, clientVars
  <2>2. \/ Goto(t, "cmd") /\ UNCHANGED loc
        \/ Goto(t, "done")
    BY <1>7 DEF CheckLen
  <2>3. UNCHANGED loc => Own("cmd", loc'[t], g_stTestHdr')
    <3> SUFFICES ASSUME UNCHANGED loc PROVE Own("cmd", loc'[t], g_stTestHdr')
      OBVIOUS
    <3>1. g_stTestHdr' = loc'[t].own
      BY <1>0, <2>1, OwnPlaces DEF Own
    <3> QED
      BY <3>1 DEF Own
  <2>4. Own("done", loc'[t], g_stTestHdr')
    BY OwnPlaces DEF Resting
  <2> QED
    BY <2>1, <2>2, <2>3, <2>4, OwnJump
<1>8. CASE TestCmd(t)
  <2>1. pc[t] = "cmd" /\ UNCHANGED <<main, cl, backlog, g_stTestHdr>>
    BY <1>8 DEF TestCmd, Private, clientVars
  <2>2. g_stTestHdr = loc[t].own
    BY <1>0, <2>1, OwnPlaces DEF Own, Relying
  <2> DEFINE k == loc[t].k
  <2>3. CASE /\ g_stTestHdr.cmd = CmdOrder[k]
             /\ loc' = [loc EXCEPT ![t] = [@ EXCEPT !.cmd = CmdOrder[k], !.k = 1]]
             /\ Goto(t, IF CmdOrder[k] = "EXIT" THEN "endclose" ELSE "mod")
    <3>1. loc'[t].cmd = CmdOrder[k] /\ loc'[t].own = loc[t].own
      BY <1>0, <2>3 DEF Locals
    <3>2. loc'[t].cmd = loc'[t].own.cmd /\ g_stTestHdr' = loc'[t].own
      BY <2>1, <2>2, <2>3, <3>1
    <3>3. Own("mod", loc'[t], g_stTestHdr')
      BY <3>2 DEF Own
    <3>4. Own("endclose", loc'[t], g_stTestHdr')
      BY OwnPlaces DEF Resting
    <3>5. Goto(t, "endclose") \/ Goto(t, "mod")
      BY <2>3
    <3> QED
      BY <2>1, <3>3, <3>4, <3>5, OwnJump
  <2>4. CASE SetLoc(t, "k", k + 1) /\ UNCHANGED pc
    <3>1. SameRequest(loc[t], loc'[t])
      BY <1>0, <2>4, OwnLocals
    <3>2. Own("cmd", loc'[t], g_stTestHdr')
      BY <2>1, <2>2, <3>1 DEF Own, SameRequest
    <3>3. pc'[t] = "cmd" /\ \A u \in Clients \ {t} : pc'[u] = pc[u]
      BY <2>1, <2>4
    <3> QED
      BY <2>1, <3>2, <3>3 DEF KeepsOwn, KeepsSolo
  <2>5. CASE Goto(t, "top") /\ UNCHANGED loc
    <3>1. Own("top", loc'[t], g_stTestHdr')
      BY OwnPlaces DEF Resting
    <3> QED
      BY <2>1, <2>5, <3>1, OwnJump
  <2> QED
    BY <1>8, <2>3, <2>4, <2>5 DEF TestCmd
<1>9. CASE RecvPiece(t)
  <2>1. PICK c \in Clients, r \in Requests, n \in 1 .. HdrWords - 1 :
          \E b \in LenWords(r) : PieceOf(t, c, r, n, b)
    BY <1>0, <1>9, PieceFacts
  <2>2. PICK b \in LenWords(r) : PieceOf(t, c, r, n, b)
    BY <2>1
  <2>3. pc[t] = "recv" /\ UNCHANGED <<main, cl, backlog>>
    BY <1>9 DEF RecvPiece, clientVars
  <2>4. g_stTestHdr = loc[t].own
    BY <1>0, <2>3 DEF Own, Relying
  <2>5. g_stTestHdr' = Overlaid(loc[t].own, r, loc[t].words, n, b)
    BY <2>2, <2>4 DEF PieceOf
  <2>6. loc'[t].own = Overlaid(loc[t].own, r, loc[t].words, n, b)
    <3>1. PICK m \in 0 .. HdrWords - 1 :
            loc' = [loc EXCEPT ![t] = [loc[t] EXCEPT
                      !.own = Overlaid(loc[t].own, r, loc[t].words, n, b), !.torn = TRUE,
                      !.words = m]]
      BY <2>2 DEF PieceOf
    <3> QED
      BY <1>0, <3>1 DEF Locals
  <2>7. Goto(t, "hcall") \/ Goto(t, "ver")
    BY <2>2 DEF PieceOf
  <2>8. Own("hcall", loc'[t], g_stTestHdr') /\ Own("ver", loc'[t], g_stTestHdr')
    BY <2>5, <2>6, OwnPlaces DEF Own
  <2> QED
    BY <2>3, <2>7, <2>8, OwnJump
<1> QED
  BY <1>1, <1>2, <1>3, <1>4, <1>5, <1>6, <1>7, <1>8, <1>9 DEF RecvHeader

\* Choosing the codec, receiving the payload and decoding it: the codec and the
\* length that the thread copies are the header's, which are its own.
LEMMA OwnRecvRequest ==
  ASSUME OwnInv, Running, NEW t \in Clients, RecvRequest(t)
  PROVE  KeepsOwn(t)
<1>0. /\ TypeOK /\ Own(pc[t], loc[t], g_stTestHdr)
      /\ loc \in [Clients -> Locals] /\ loc[t] \in Locals /\ g_stTestHdr \in Header
  BY DEF OwnInv, TypeOK
<1>1. CASE TestModule(t)
  <2>1. pc[t] = "mod" /\ UNCHANGED <<main, cl, backlog, g_stTestHdr>>
    BY <1>1 DEF TestModule, Private, clientVars
  <2>2. g_stTestHdr = loc[t].own /\ loc[t].cmd = loc[t].own.cmd
    BY <1>0, <2>1, HandlingPcs DEF Own, Relying
  <2> DEFINE k == loc[t].k
  <2>3. CASE /\ g_stTestHdr.mod = ModOrder[k]
             /\ loc' = [loc EXCEPT ![t] = [@ EXCEPT !.mod = ModOrder[k], !.size = BufRoom]]
             /\ Goto(t, IF ModOrder[k] = "TLV" THEN "need" ELSE "size")
    <3>1. /\ loc'[t].mod = ModOrder[k] /\ loc'[t].own = loc[t].own
          /\ loc'[t].cmd = loc[t].cmd
      BY <1>0, <2>3 DEF Locals
    <3>2. /\ loc'[t].mod = loc'[t].own.mod /\ loc'[t].cmd = loc'[t].own.cmd
          /\ g_stTestHdr' = loc'[t].own
      BY <2>1, <2>2, <2>3, <3>1
    <3>3. Own("need", loc'[t], g_stTestHdr') /\ Own("size", loc'[t], g_stTestHdr')
      BY <3>2 DEF Own
    <3>4. Goto(t, "need") \/ Goto(t, "size")
      BY <2>3
    <3> QED
      BY <2>1, <3>3, <3>4, OwnJump
  <2>4. CASE SetLoc(t, "k", k + 1) /\ UNCHANGED pc
    <3>1. SameRequest(loc[t], loc'[t])
      BY <1>0, <2>4, OwnLocals
    <3>2. Own("mod", loc'[t], g_stTestHdr')
      BY <2>1, <2>2, <3>1 DEF Own, SameRequest
    <3>3. pc'[t] = "mod" /\ \A u \in Clients \ {t} : pc'[u] = pc[u]
      BY <2>1, <2>4
    <3> QED
      BY <2>1, <3>2, <3>3 DEF KeepsOwn, KeepsSolo
  <2>5. CASE Goto(t, "top") /\ UNCHANGED loc
    <3>1. Own("top", loc'[t], g_stTestHdr')
      BY OwnPlaces DEF Resting
    <3> QED
      BY <2>1, <2>5, <3>1, OwnJump
  <2> QED
    BY <1>1, <2>3, <2>4, <2>5 DEF TestModule
<1>2. CASE SizeBuf(t)
  <2>1. /\ pc[t] = "size" /\ Goto(t, "need")
        /\ UNCHANGED <<main, cl, backlog, g_stTestHdr>>
    BY <1>2 DEF SizeBuf, Private, clientVars
  <2>2. SameRequest(loc[t], loc'[t])
    BY <1>0, <1>2, OwnLocals DEF SizeBuf
  <2>3. /\ g_stTestHdr = loc[t].own /\ loc[t].cmd = loc[t].own.cmd
        /\ loc[t].mod = loc[t].own.mod
    BY <1>0, <2>1, HandlingPcs DEF Own, Relying
  <2>4. Own("need", loc'[t], g_stTestHdr')
    BY <2>1, <2>2, <2>3 DEF Own, SameRequest
  <2> QED
    BY <2>1, <2>4, OwnJump
<1>3. CASE ReadNeed(t)
  <2>1. /\ pc[t] = "need" /\ UNCHANGED <<main, cl, backlog, g_stTestHdr>>
        /\ Goto(t, "check") \/ Goto(t, "dcall")
    BY <1>3 DEF ReadNeed, Private, clientVars
  <2>2. SetLoc(t, "need", g_stTestHdr.dlen)
    BY <1>3 DEF ReadNeed
  <2>3. /\ loc'[t].need = g_stTestHdr.dlen /\ loc'[t].own = loc[t].own
        /\ loc'[t].cmd = loc[t].cmd /\ loc'[t].mod = loc[t].mod
    BY <1>0, <2>2 DEF SetLoc, Locals
  <2>4. /\ g_stTestHdr = loc[t].own /\ loc[t].cmd = loc[t].own.cmd
        /\ loc[t].mod = loc[t].own.mod
    BY <1>0, <2>1, HandlingPcs DEF Own, Relying
  <2>5. Own("check", loc'[t], g_stTestHdr') /\ Own("dcall", loc'[t], g_stTestHdr')
    BY <2>1, <2>3, <2>4 DEF Own
  <2> QED
    BY <2>1, <2>5, OwnJump
<1>4. CASE Call(t, "dcall", "data")
  <2>1. pc[t] = "dcall" /\ Goto(t, "data") /\ UNCHANGED <<main, cl, backlog, g_stTestHdr>>
    BY <1>4 DEF Call, clientVars
  <2>2. SameRequest(loc[t], loc'[t])
    BY <1>0, <1>4, OwnLocals DEF Call
  <2>3. Own("data", loc'[t], g_stTestHdr')
    BY <1>0, <2>1, <2>2, OwnFollows DEF Decoded
  <2> QED
    BY <2>1, <2>3, OwnJump
<1>5. CASE RecvData(t)
  <2>1. pc[t] = "data" /\ UNCHANGED <<cl, backlog, g_stTestHdr>>
    BY <1>5 DEF RecvData, clientVars
  <2>2. PICK n, s : loc' = [loc EXCEPT ![t] = [loc[t] EXCEPT !.got = n, !.buf = s]]
    BY <1>5 DEF RecvData
  <2>3. SameRequest(loc[t], loc'[t])
    BY <1>0, <2>2 DEF SameRequest, Locals
  <2>4. \/ (Goto(t, "check") \/ Goto(t, "dcall")) /\ UNCHANGED main
        \/ Die /\ UNCHANGED pc
    BY <1>5 DEF RecvData
  <2>5. Own("check", loc'[t], g_stTestHdr') /\ Own("dcall", loc'[t], g_stTestHdr')
    BY <1>0, <2>1, <2>3, OwnFollows DEF Decoded
  <2> QED
    BY <2>1, <2>4, <2>5, OwnJump, OwnDies
<1>6. CASE DataDown(t)
  <2>1. /\ pc[t] = "datadown" /\ Goto(t, "decode")
        /\ UNCHANGED <<main, cl, backlog, g_stTestHdr, loc>>
    BY <1>6 DEF DataDown, CloseFd, clientVars
  <2>2. Own("decode", loc'[t], g_stTestHdr')
    BY <1>0, <2>1, OwnLocals, OwnFollows DEF Decoded
  <2> QED
    BY <2>1, <2>2, OwnJump
<1>7. CASE CheckData(t)
  <2>1. /\ pc[t] = "check" /\ UNCHANGED <<main, cl, backlog, g_stTestHdr, loc>>
        /\ Goto(t, "decode") \/ Goto(t, "endclose")
    BY <1>7 DEF CheckData, Private, clientVars
  <2>2. Own("decode", loc'[t], g_stTestHdr')
    BY <1>0, <2>1, OwnLocals, OwnFollows DEF Decoded
  <2>3. Own("endclose", loc'[t], g_stTestHdr')
    BY OwnPlaces DEF Resting
  <2> QED
    BY <2>1, <2>2, <2>3, OwnJump
<1>8. CASE Decode(t)
  <2>1. pc[t] = "decode" /\ UNCHANGED <<cl, backlog, loc>>
    BY <1>8 DEF Decode, clientVars
  <2>2. \/ /\ \E p \in {"set", "get", "list", "lend", "endclose"} : Goto(t, p)
           /\ UNCHANGED main
        \/ Die /\ UNCHANGED pc
    BY <1>8 DEF Decode, HandlerPc
  <2>3. \A p \in {"set", "get", "list", "lend"} : Own(p, loc'[t], g_stTestHdr')
    <3>1. \A p \in {"set", "get", "list", "lend"} : p \in Decoded
      BY DEF Decoded
    <3> QED
      BY <1>0, <2>1, <3>1, OwnLocals, OwnFollows
  <2>4. Own("endclose", loc'[t], g_stTestHdr')
    BY OwnPlaces DEF Resting
  <2> QED
    BY <2>1, <2>2, <2>3, <2>4, OwnJump, OwnDies
<1> QED
  BY <1>1, <1>2, <1>3, <1>4, <1>5, <1>6, <1>7, <1>8 DEF RecvRequest

\* The end of a recv(), and the closes after a failure.
LEMMA OwnEnds ==
  ASSUME OwnInv, Running, NEW t \in Clients, RecvEnds(t) \/ ErrClose(t) \/ EndClose(t)
  PROVE  KeepsOwn(t)
<1>0. TypeOK /\ Own(pc[t], loc[t], g_stTestHdr)
  BY DEF OwnInv
<1>1. CASE RecvEnds(t)
  <2>1. /\ pc[t] \in {"recv", "data"}
        /\ UNCHANGED <<main, cl, backlog, g_stTestHdr, loc>>
        /\ \/ pc[t] = "recv" /\ Goto(t, "hdrdown")
           \/ pc[t] = "data" /\ Goto(t, "datadown")
           \/ Goto(t, "errclose")
    BY <1>1 DEF RecvEnds, clientVars
  <2>2. CASE pc[t] = "recv" /\ Goto(t, "hdrdown")
    <3>1. Own("hdrdown", loc'[t], g_stTestHdr')
      BY <1>0, <2>1, <2>2, OwnPlaces DEF Own
    <3> QED
      BY <2>1, <2>2, <3>1, OwnJump
  <2>3. CASE pc[t] = "data" /\ Goto(t, "datadown")
    <3>1. Own("datadown", loc'[t], g_stTestHdr')
      BY <1>0, <2>1, <2>3, OwnLocals, OwnFollows DEF Decoded
    <3> QED
      BY <2>1, <2>3, <3>1, OwnJump
  <2>4. CASE Goto(t, "errclose")
    <3>1. Own("errclose", loc'[t], g_stTestHdr')
      BY OwnPlaces DEF Resting
    <3> QED
      BY <2>1, <2>4, <3>1, OwnJump
  <2> QED
    BY <2>1, <2>2, <2>3, <2>4
<1>2. CASE ErrClose(t) \/ EndClose(t)
  <2>1. /\ pc[t] \in {"errclose", "endclose"} /\ UNCHANGED <<main, cl, backlog>>
        /\ Goto(t, "endclose") \/ Goto(t, "done")
    BY <1>2 DEF ErrClose, EndClose, CloseFd, clientVars
  <2>2. Own("endclose", loc'[t], g_stTestHdr') /\ Own("done", loc'[t], g_stTestHdr')
    BY OwnPlaces DEF Resting
  <2> QED
    BY <2>1, <2>2, OwnJump
<1> QED
  BY <1>1, <1>2

\* A thread's step, whichever it is.
LEMMA OwnThread ==
  ASSUME OwnInv, NEW t \in Clients, Thread(t)
  PROVE  KeepsOwn(t) /\ Running
BY OwnRecvHeader, OwnRecvRequest, OwnEnds, OwnHandlers DEF Thread

\* OwnInv is inductive.
LEMMA OwnStep == MaxLive <= 1 /\ OwnInv /\ [Next]_vars => OwnInv'
<1> SUFFICES ASSUME MaxLive <= 1, OwnInv, [Next]_vars PROVE OwnInv'
  OBVIOUS
<1>1. TypeOK' /\ TypeOK /\ SoloInv
  BY TypeNext DEF OwnInv
<1>2. CASE \E t \in Clients : Thread(t)
  <2>1. PICK t \in Clients : Running /\ KeepsOwn(t)
    BY <1>2, OwnThread
  <2>2. SoloInv'
    BY <1>1, <2>1, SoloThread DEF KeepsOwn
  <2>3. ASSUME Running', NEW u \in Clients, u # t
        PROVE  Own(pc'[u], loc'[u], g_stTestHdr')
    <3>1. pc'[u] = pc[u] /\ pc[t] \notin {"none", "done"}
      BY <2>1, <2>3 DEF KeepsOwn, KeepsSolo
    <3>2. pc'[u] \in {"none", "done"}
      BY <1>1, <2>1, <2>3, <3>1, SoloOthers
    <3> QED
      BY <3>2, HandlingPcs DEF Own, Relying
  <2> QED
    BY <1>1, <2>1, <2>2, <2>3 DEF OwnInv, KeepsOwn
<1>3. CASE Server_dealClientReq
  <2>1. SoloInv'
    BY <1>1, <1>3, SoloAcceptor
  <2>2. /\ UNCHANGED <<g_stTestHdr, loc>> /\ (Running' => Running)
        /\ \A u \in Clients : pc'[u] \in {pc[u], "top"}
    BY <1>1, <1>3 DEF Server_dealClientReq, EnterAccept, Accept, Spawn, SpawnFails, Die,
       Running, TypeOK, MainLoop, threadVars
  <2>3. \A u \in Clients : Own("top", loc'[u], g_stTestHdr')
    BY OwnPlaces DEF Resting
  <2> QED
    BY <1>1, <2>1, <2>2, <2>3 DEF OwnInv
<1>4. CASE \E c \in Clients : Client(c)
  <2>1. SoloInv'
    BY <1>1, <1>4, SoloClient
  <2>2. UNCHANGED <<g_stTestHdr, loc, pc, main>>
    BY <1>4 DEF Client, Connect, SendHdr, SendPayload, TakeReply, NoticeDown, Depart,
       threadVars
  <2> QED
    BY <1>1, <2>1, <2>2 DEF OwnInv, Running
<1>5. CASE UNCHANGED vars
  BY <1>1, <1>5 DEF OwnInv, SoloInv, Live, Connected, Running, vars, threadVars, clientVars
<1> QED
  BY <1>2, <1>3, <1>4, <1>5 DEF Next

\* The server starts so.
LEMMA OwnInit == Init => OwnInv
<1> SUFFICES ASSUME Init PROVE OwnInv
  OBVIOUS
<1>1. TypeOK
  BY TypeInit
<1>2. SoloInv
  BY DEF Init, SoloInv, Live, Connected
<1>3. \A t \in Clients : Own("none", loc[t], g_stTestHdr)
  BY HandlingPcs DEF Own, Relying
<1> QED
  BY <1>1, <1>2, <1>3 DEF Init, OwnInv

\* One client at a time: a handler acts on the command, the codec and the length
\* that its own thread received into g_stTestHdr.
THEOREM OwnHeaderSafe ==
  ASSUME MaxLive <= 1
  PROVE  Spec => []ActsOnOwnHeader
<1>1. OwnInv => ActsOnOwnHeader
  BY DEF OwnInv, ActsOnOwnHeader, Own
<1>2. OwnInv /\ [Next]_vars => OwnInv'
  BY OwnStep
<1> QED
  BY <1>1, <1>2, OwnInit, PTL DEF Spec

=============================================================================
