------------------------ MODULE FileServerReplyProofs ------------------------
(***************************************************************************)
(* What holds of the answers when clients come one at a time               *)
(* (MaxLive <= 1): every body of a GET follows the header that announces   *)
(* its length.  It rests on the dialogue of a client and its thread: a     *)
(* client sends no further request before it has its answer, so that a     *)
(* thread builds a reply in g_stTestHdr for a client that waits for it and *)
(* has been sent nothing else.                                             *)
(* And what can end the process then: the pieces a payload came in are     *)
(* followed through the buffer to the decoder, which reads past its end or *)
(* through a null pointer only for a TLV request that was empty or too     *)
(* long and a TLV or JSON one that came in pieces.  Where none of the      *)
(* reasons can come up the process serves for good.                        *)
(* All of it holds as long as request headers come whole (NoTorn).         *)
(***************************************************************************)
EXTENDS FileServerStreamProofs

-----------------------------------------------------------------------------
(* The dialogue.                                                           *)

\* every request that comes before another one in s is a SET, which has no answer
Ordered(s) == \A j, k \in 1..Len(s) :
                j < k /\ s[j].req.cmd # "SET" => s[k].kind = "pay"
\* no further request begins in s
Unheaded(s) == \A k \in 1..Len(s) : s[k].kind = "pay"
AllSets(s) == \A k \in 1..Len(s) : s[k].req.cmd = "SET"

\* q holds an answer to its end
Answers(q) == \E i \in DOMAIN q : q[i].kind \in {"body", "end"}

\* the handlers of LIST and GET while they owe the client its answer
Naming == {"list", "names", "lclose", "lend"}
Fetching == {"get", "gread", "ghdr", "glen", "gsend"}
\* where an answer that was sent may still be under way
Replied == Fresh \cup {"top", "gclose"}

\* a thread at p with locals l owes an answer
Asking(p, l) == \/ p \in GotHdr \cup Getting \cup Whole /\ l.own.cmd # "SET"
                \/ p \in Naming \cup Fetching \cup {"gbody"}

\* a client that expects no answer
Quiet(state, request) == state = "ready" \/ (state = "half" /\ request.cmd = "SET")

\* a client at state and its thread at p, with s on its way to the thread and q
\* on its way back
Dialogue(state, request, p, l, s, q) ==
    /\ Ordered(s)
    /\ Asking(p, l) \/ q # <<>> => Unheaded(s)
    /\ Quiet(state, request) => q = <<>> /\ AllSets(s) /\ ~Asking(p, l)
    /\ p \in GotHdr \cup Getting \cup Whole \cup Fetching => q = <<>>
    /\ p \in Fetching \cup {"gbody"} => state = "wait"
    /\ p = "gbody" => Len(q) = 1 /\ q[1].kind = "hdr" /\ q[1].len = l.reply
    /\ Answers(q) => s = <<>> /\ p \in Replied
    /\ p \notin {"hdrdown", "datadown"}

DialogueOf(c) == Dialogue(cl[c], cur[c], pc[c], loc[c], inq[c], outq[c])

Framed(q) == \A i \in DOMAIN q : q[i].kind = "body" =>
               i > 1 /\ q[i-1].kind = "hdr" /\ q[i-1].len = q[i].len

ReplyInv ==
    /\ LineInv
    /\ \A c \in Clients : Framed(outq[c])
    /\ Running => \A c \in Clients :
         /\ cl[c] = "off" => outq[c] = <<>>
         /\ cl[c] = "half" => cur[c] \in Requests
         /\ Connected(c) => DialogueOf(c)
         /\ pc[c] = "gsend" => g_stTestHdr.dlen = loc[c].reply

-----------------------------------------------------------------------------
(* What receiving and sending do to a dialogue.                            *)

\* What is left of a stream is no less in order.
LEMMA RestOrdered ==
  ASSUME NEW s \in Seq(Cells), NEW u, NEW n, Rest(u, s, n)
  PROVE  /\ Ordered(s) => Ordered(u)
         /\ Unheaded(s) => Unheaded(u)
         /\ AllSets(s) => AllSets(u)
         /\ Ordered(s) /\ s[n].req.cmd # "SET" => Unheaded(u)
<1>1. Len(s) \in Nat /\ Len(u) \in Nat /\ n \in 1..Len(s) /\ Len(u) = Len(s) - n
  BY LenProperties DEF Rest
<1>2. \A i \in 1..Len(u) : n + i \in 1..Len(s) /\ u[i] = s[n + i] /\ n < n + i
  <2>1. \A i \in 1..Len(u) : n + i \in 1..Len(s) /\ n < n + i
    BY <1>1
  <2>2. \A i \in 1..Len(u) : u[i] = s[n + i]
    BY DEF Rest
  <2> QED
    BY <2>1, <2>2
<1>3. \A i, j \in 1..Len(u) : i < j => n + i < n + j
  BY <1>1
<1>4. Ordered(s) => Ordered(u)
  BY <1>2, <1>3 DEF Ordered
<1>5. (Unheaded(s) => Unheaded(u)) /\ (AllSets(s) => AllSets(u))
  BY <1>2 DEF Unheaded, AllSets
<1>6. Ordered(s) /\ s[n].req.cmd # "SET" => Unheaded(u)
  BY <1>1, <1>2 DEF Ordered, Unheaded
<1> QED
  BY <1>4, <1>5, <1>6

\* A header goes after requests that have no answer.
LEMMA HeaderOrdered ==
  ASSUME NEW s \in Seq(Cells), NEW r \in Requests, AllSets(s)
  PROVE  LET u == Append(s, HdrCell(r)) IN
         Ordered(u) /\ (r.cmd = "SET" => AllSets(u))
<1> DEFINE n == Len(s)
           u == Append(s, HdrCell(r))
<1>1. n \in Nat /\ HdrCell(r).req = r
  BY LenProperties DEF HdrCell
<1>2. Len(u) = n + 1 /\ u[n + 1] = HdrCell(r) /\ \A i \in 1..n : u[i] = s[i]
  BY AppendProperties, ValueTypes
<1> HIDE DEF u
<1>3. \A i \in 1..Len(u) : i \in 1..n \/ i = n + 1
  BY <1>1, <1>2
<1>4. \A j, k \in 1..Len(u) : j < k => j \in 1..n
  BY <1>1, <1>2
<1>5. \A j \in 1..n : u[j].req.cmd = "SET"
  BY <1>2 DEF AllSets
<1>6. Ordered(u)
  BY <1>4, <1>5 DEF Ordered
<1>7. r.cmd = "SET" => AllSets(u)
  BY <1>1, <1>2, <1>3, <1>5 DEF AllSets
<1> QED
  BY <1>6, <1>7 DEF u

\* A payload begins no request.
LEMMA PayloadOrdered ==
  ASSUME NEW s \in Seq(Cells), NEW r \in Requests
  PROVE  LET u == s \o Payload(r) IN
         /\ Ordered(s) => Ordered(u)
         /\ Unheaded(s) => Unheaded(u)
         /\ AllSets(s) /\ r.cmd = "SET" => AllSets(u)
         /\ s = <<>> /\ r.dlen = 0 => u = <<>>
<1> DEFINE n == Len(s)
           d == r.dlen
           u == s \o Payload(r)
<1>1. n \in Nat /\ d \in Nat
  BY LenProperties, StreamTypes
<1>2. /\ u \in Seq(Cells) /\ Len(u) = n + d
      /\ \A i \in 1..n : u[i] = s[i]
      /\ \A i \in 1..d : u[n + i] = PayCell(r, i)
  BY PayloadAfter
<1> HIDE DEF u, d
<1>3. \A i : PayCell(r, i).kind = "pay" /\ PayCell(r, i).req = r
  BY DEF PayCell
<1>4. ASSUME NEW i \in 1..Len(u), i \notin 1..n
      PROVE  u[i].kind = "pay" /\ u[i].req = r
  <2>1. i - n \in 1..d /\ n + (i - n) = i
    BY <1>1, <1>2, <1>4
  <2>2. u[n + (i - n)] = PayCell(r, i - n)
    BY <1>2, <2>1
  <2> QED
    BY <1>3, <2>1, <2>2
<1>5. ASSUME Ordered(s) PROVE Ordered(u)
  <2> SUFFICES ASSUME NEW j \in 1..Len(u), NEW k \in 1..Len(u),
                      j < k, u[j].req.cmd # "SET"
               PROVE  u[k].kind = "pay"
    BY DEF Ordered
  <2>1. CASE k \in 1..n
    <3>1. j \in 1..n
      BY <1>1, <1>2, <2>1
    <3> QED
      BY <1>2, <1>5, <2>1, <3>1 DEF Ordered
  <2> QED
    BY <1>4, <2>1
<1>6. Unheaded(s) => Unheaded(u)
  BY <1>2, <1>4 DEF Unheaded
<1>7. AllSets(s) /\ r.cmd = "SET" => AllSets(u)
  BY <1>2, <1>4 DEF AllSets
<1>8. ASSUME s = <<>>, d = 0 PROVE u = <<>>
  <2>1. n = 0
    BY <1>8, EmptySeq
  <2>2. Len(u) = 0
    BY <1>2, <1>8, <2>1
  <2> QED
    BY <1>2, <2>2, EmptySeq
<1> QED
  BY <1>5, <1>6, <1>7, <1>8 DEF u, d

\* A cell after what was sent: a body needs its header before it.
LEMMA CellFramed ==
  ASSUME NEW q \in Seq(Replies), NEW x \in Replies, Framed(q),
         x.kind = "body" => Len(q) = 1 /\ q[1].kind = "hdr" /\ q[1].len = x.len
  PROVE  /\ Framed(Append(q, x)) /\ Append(q, x) # <<>>
         /\ x.kind \notin {"body", "end"} /\ ~Answers(q) => ~Answers(Append(q, x))
         /\ q = <<>> => Len(Append(q, x)) = 1 /\ Append(q, x)[1] = x
<1> DEFINE n == Len(q)
           u == Append(q, x)
<1>1. n \in Nat /\ DOMAIN q = 1..n
  BY LenProperties
<1>2. /\ u \in Seq(Replies) /\ Len(u) = n + 1 /\ u[n + 1] = x
      /\ \A i \in 1..n : u[i] = q[i]
  BY AppendProperties
<1>3. DOMAIN u = 1..n + 1
  BY <1>2, LenProperties
<1> HIDE DEF u
<1>4. u # <<>>
  BY <1>1, <1>2, EmptySeq
<1>5. Framed(u)
  <2> SUFFICES ASSUME NEW i \in 1..n + 1, u[i].kind = "body"
               PROVE  i > 1 /\ u[i-1].kind = "hdr" /\ u[i-1].len = u[i].len
    BY <1>3 DEF Framed
  <2>1. CASE i \in 1..n
    <3>1. i > 1 /\ q[i-1].kind = "hdr" /\ q[i-1].len = q[i].len
      BY <1>1, <1>2, <2>1 DEF Framed
    <3>2. i - 1 \in 1..n
      BY <1>1, <2>1, <3>1
    <3> QED
      BY <1>2, <2>1, <3>1, <3>2
  <2>2. CASE i = n + 1
    <3>1. n = 1 /\ q[1].kind = "hdr" /\ q[1].len = x.len
      BY <1>2, <2>2
    <3>2. i > 1 /\ i - 1 = 1 /\ 1 \in 1..n
      BY <2>2, <3>1
    <3> QED
      BY <1>2, <2>2, <3>1, <3>2
  <2> QED
    BY <1>1, <2>1, <2>2
<1>6. ASSUME x.kind \notin {"body", "end"}, ~Answers(q) PROVE ~Answers(u)
  <2> SUFFICES ASSUME NEW i \in 1..n + 1 PROVE u[i].kind \notin {"body", "end"}
    BY <1>3 DEF Answers
  <2>1. i \in 1..n \/ i = n + 1
    BY <1>1
  <2> QED
    BY <1>1, <1>2, <1>6, <2>1 DEF Answers
<1>7. q = <<>> => Len(u) = 1 /\ u[1] = x
  BY <1>2, EmptySeq
<1> QED
  BY <1>4, <1>5, <1>6, <1>7 DEF u

-----------------------------------------------------------------------------
(* What a step of the thread may do, and what follows from it.             *)

KeepsReply(t) ==
    /\ \A u \in Clients \ {t} : outq'[u] = outq[u]
    /\ Framed(outq'[t])
    /\ Running' => /\ Connected(t)' => DialogueOf(t)'
                   /\ pc'[t] = "gsend" => g_stTestHdr'.dlen = loc'[t].reply

\* from p to q a thread takes up nothing that it owes its client
Slides(p, l, q, m) ==
    /\ Asking(q, m) => Asking(p, l)
    /\ q \in GotHdr \cup Getting \cup Whole \cup Fetching =>
         p \in GotHdr \cup Getting \cup Whole \cup Fetching
    /\ p \in Replied => q \in Replied
    /\ q \notin {"gbody", "hdrdown", "datadown"}

\* The places of a thread in the dialogue, apart from each other.
LEMMA ReplyPlaces ==
  /\ \A p \in GotHdr \cup Getting \cup Whole :
       p \notin Naming \cup Fetching \cup Replied \cup {"gbody"}
  /\ \A p \in Naming : p \notin GotHdr \cup Getting \cup Whole \cup Fetching \cup Replied
  /\ \A p \in Fetching : p \notin Naming \cup Replied \cup {"gbody"}
  /\ \A p \in Replied \cup {"none", "done", "endclose", "errclose", "spin", "set", "write", "sclose"} :
       /\ p \notin GotHdr \cup Getting \cup Whole \cup Fetching \cup Naming
       /\ p # "gbody" /\ \A l : ~Asking(p, l)
  /\ Naming \cup Fetching \cup {"gbody", "gclose"} \subseteq Decoded
  /\ "gbody" \notin Naming \cup Fetching \cup Replied \cup GotHdr \cup Getting \cup Whole
BY DEF GotHdr, Getting, Whole, Fresh, Naming, Fetching, Replied, Asking, Decoded

\* The steps of a thread that take up nothing.
LEMMA Sliding ==
  /\ \A p \in GotHdr \cup Getting \cup Whole :
       \A q \in GotHdr \cup Getting \cup Whole \cup {"top", "done", "endclose", "errclose"} :
         \A l, m : m.own = l.own => Slides(p, l, q, m)
  /\ \A p \in Naming, q \in Naming \cup {"endclose"} : \A l, m : Slides(p, l, q, m)
  /\ \A p \in Fetching, q \in Fetching \cup {"endclose", "spin"} : \A l, m : Slides(p, l, q, m)
  /\ \A p \in {"none", "set", "write", "sclose", "endclose", "errclose"},
        q \in {"top", "write", "sclose", "endclose", "done"} : \A l, m : Slides(p, l, q, m)
  /\ \A p \in Replied, q \in Replied : \A l, m : Slides(p, l, q, m)
BY ReplyPlaces DEF Slides, Asking, GotHdr, Getting, Whole, Fresh, Naming, Fetching, Replied

\* A dialogue in which the thread alone moves, taking up nothing.
LEMMA DialogueSlides ==
  ASSUME NEW state, NEW request, NEW p, NEW l, NEW q, NEW m, NEW s, NEW r,
         Dialogue(state, request, p, l, s, r), Slides(p, l, q, m),
         q \in Fetching => p \in Fetching \/ state = "wait"
  PROVE  Dialogue(state, request, q, m, s, r)
BY DEF Dialogue, Slides

\* Only the client of the running thread is connected.
LEMMA ReplyOthers ==
  ASSUME SoloInv, Running, NEW t \in Clients, pc[t] \notin {"none", "done"},
         NEW u \in Clients, u # t
  PROVE  ~Connected(u)
<1>1. Live(t)
  BY DEF SoloInv, Live
<1>2. Connected(u) => Live(u)
  BY DEF Live
<1> QED
  BY <1>1, <1>2 DEF SoloInv

\* The parts of the invariant.
LEMMA ReplyFacts ==
  ASSUME ReplyInv, Running, NEW t \in Clients
  PROVE  /\ LineInv /\ TypeOK /\ SoloInv /\ Framed(outq[t])
         /\ loc \in [Clients -> Locals] /\ loc[t] \in Locals
         /\ connFd[t] \in Fds /\ inq[t] \in Seq(Cells) /\ outq[t] \in Seq(Replies)
         /\ Connected(t) => DialogueOf(t)
         /\ pc[t] = "gsend" => g_stTestHdr.dlen = loc[t].reply
         /\ Own(pc[t], loc[t], g_stTestHdr)
<1>1. TypeOK /\ LineInv /\ SoloInv /\ Own(pc[t], loc[t], g_stTestHdr)
  BY DEF ReplyInv, LineInv, OwnInv
<1>2. /\ loc \in [Clients -> Locals] /\ connFd[t] \in Fds
      /\ inq[t] \in Seq(Cells) /\ outq[t] \in Seq(Replies)
  BY <1>1 DEF TypeOK
<1> QED
  BY <1>1, <1>2 DEF ReplyInv

\* A thread's step that keeps the answers keeps the invariant.
LEMMA ReplyThread ==
  ASSUME ReplyInv, LineInv', Running, NEW t \in Clients, KeepsOwn(t), KeepsLine(t),
         KeepsReply(t)
  PROVE  ReplyInv'
<1>1. \A c \in Clients : Framed(outq'[c])
  BY DEF KeepsReply, ReplyInv
<1> SUFFICES ASSUME Running', NEW c \in Clients
             PROVE  /\ cl'[c] = "off" => outq'[c] = <<>>
                    /\ cl'[c] = "half" => cur'[c] \in Requests
                    /\ Connected(c)' => DialogueOf(c)'
                    /\ pc'[c] = "gsend" => g_stTestHdr'.dlen = loc'[c].reply
  BY <1>1 DEF ReplyInv
<1>2. SoloInv /\ pc[t] \notin {"none", "done"} /\ cl[t] # "off"
  BY ReplyFacts DEF KeepsOwn, KeepsSolo, SoloInv
<1>3. CASE c = t
  <2>1. cl'[t] # "off" /\ (cl'[t] = "half" => cl[t] = "half")
    BY <1>2 DEF KeepsOwn, KeepsSolo
  <2> QED
    BY <1>3, <2>1 DEF KeepsReply, KeepsLine, ReplyInv
<1>4. CASE c # t
  <2>1. /\ outq'[c] = outq[c] /\ cl'[c] = cl[c] /\ pc'[c] = pc[c] /\ UNCHANGED cur
    BY <1>4 DEF KeepsReply, KeepsLine, KeepsOwn, KeepsSolo
  <2>2. ~Connected(c) /\ pc[c] \in {"none", "done"}
    BY <1>2, <1>4, ReplyOthers, SoloOthers
  <2>3. ~Connected(c)' /\ pc'[c] # "gsend"
    BY <2>1, <2>2 DEF Connected
  <2> QED
    BY <2>1, <2>3 DEF ReplyInv
<1> QED
  BY <1>3, <1>4

\* A step that touches the thread's place only.
LEMMA ReplySlides ==
  ASSUME ReplyInv, Running, NEW t \in Clients, UNCHANGED <<cl, cur, inq, outq>>,
         Slides(pc[t], loc[t], pc'[t], loc'[t]),
         pc'[t] \in Fetching /\ Connected(t) => pc[t] \in Fetching \/ cl[t] = "wait",
         pc'[t] = "gsend" => g_stTestHdr'.dlen = loc'[t].reply
  PROVE  KeepsReply(t)
<1>1. Framed(outq'[t])
  BY ReplyFacts
<1>2. ASSUME Connected(t)' PROVE DialogueOf(t)'
  <2>1. Connected(t) /\ DialogueOf(t)
    BY <1>2, ReplyFacts DEF Connected
  <2>2. Dialogue(cl[t], cur[t], pc'[t], loc'[t], inq[t], outq[t])
    BY <2>1, DialogueSlides DEF DialogueOf
  <2> QED
    BY <2>2 DEF DialogueOf
<1> QED
  BY <1>1, <1>2 DEF KeepsReply

\* A step of a thread whose client is gone, or with which the process ends.
LEMMA ReplyAway ==
  ASSUME ReplyInv, Running, NEW t \in Clients, UNCHANGED outq,
         Running' => ~Connected(t)' /\ pc'[t] # "gsend"
  PROVE  KeepsReply(t)
<1>1. Framed(outq'[t])
  BY ReplyFacts
<1> QED
  BY <1>1 DEF KeepsReply

\* Where a thread has a whole request and no other one follows, nothing does.
LEMMA NothingMore ==
  ASSUME ReplyInv, Running, NEW t \in Clients, pc[t] \in Decoded \cup {"decode"},
         ~Lost(pc[t], loc[t]), Unheaded(inq[t])
  PROVE  inq[t] = <<>>
<1>0. LineInv /\ inq[t] \in Seq(Cells) /\ FramedInv(t) /\ Own(pc[t], loc[t], g_stTestHdr)
  BY ReplyFacts, LineFacts
<1>1. FrameOf(t)
  BY <1>0 DEF FramedInv, Whole
<1>2. PICK r \in Requests \cup {NoRequest}, p \in Nat :
        /\ Stream(r, p, inq[t])
        /\ Placed(pc[t], loc[t], r, p)
  BY <1>1 DEF FrameOf
<1>3. p = r.dlen
  <2>1. CASE pc[t] \in Decoded
    BY <1>2, <2>1 DEF Placed
  <2>2. CASE pc[t] = "decode"
    <3>1. r \in Requests /\ loc[t].own = HdrOf(r) /\ p = loc[t].need
      BY <1>2, <2>2 DEF Placed, Whole
    <3>2. loc[t].need = loc[t].own.dlen
      BY <1>0, <2>2, OwnPlaces DEF Own
    <3> QED
      BY <3>1, <3>2, HdrOfFields
  <2> QED
    BY <2>1, <2>2
<1> SUFFICES ASSUME inq[t] # <<>> PROVE FALSE
  OBVIOUS
<1>4. inq[t][1] = HdrCell(inq[t][1].req)
  BY <1>0, <1>2, <1>3, StreamNext
<1>5. inq[t][1].kind = "pay"
  <2>1. 1 \in 1..Len(inq[t])
    BY <1>0, LenProperties, EmptySeq
  <2> QED
    BY <2>1 DEF Unheaded
<1> QED
  BY <1>4, <1>5 DEF HdrCell

-----------------------------------------------------------------------------
(* Receiving a request.                                                    *)

\* What a header does to the dialogue: it is the client's next request.
LEMMA DialogueHeader ==
  ASSUME NEW state, NEW request, NEW l, NEW s \in Seq(Cells), NEW r, NEW u, NEW m,
         Dialogue(state, request, "recv", l, s, r), Rest(u, s, 1),
         s[1].kind # "pay", m.own.cmd = s[1].req.cmd
  PROVE  Dialogue(state, request, "copy", m, u, r)
<1>1. 1 \in 1..Len(s)
  BY DEF Rest
<1>2. ~Unheaded(s)
  BY <1>1 DEF Unheaded
<1>3. r = <<>> /\ Ordered(s) /\ (Quiet(state, request) => AllSets(s))
  BY <1>2 DEF Dialogue
<1>4. /\ Ordered(u) /\ (Quiet(state, request) => AllSets(u) /\ m.own.cmd = "SET")
      /\ m.own.cmd # "SET" => Unheaded(u)
  BY <1>1, <1>3, RestOrdered DEF AllSets
<1>5. ~Answers(r)
  BY <1>3 DEF Answers
<1>6. Asking("copy", m) => m.own.cmd # "SET"
  BY DEF Asking, Naming, Fetching
<1> QED
  BY <1>3, <1>4, <1>5, <1>6 DEF Dialogue, Fetching

\* What a part of a payload does to it.
LEMMA DialogueData ==
  ASSUME NEW state, NEW request, NEW p \in Getting, NEW l, NEW s \in Seq(Cells), NEW r,
         NEW u, NEW n, NEW q \in Getting \cup Whole, NEW m,
         Dialogue(state, request, p, l, s, r), Rest(u, s, n), m.own = l.own
  PROVE  Dialogue(state, request, q, m, u, r)
<1>1. /\ r = <<>> /\ Ordered(s) /\ (Asking(p, l) => Unheaded(s))
      /\ Quiet(state, request) => AllSets(s) /\ ~Asking(p, l)
  BY DEF Dialogue
<1>2. Asking(q, m) => Asking(p, l)
  BY ReplyPlaces DEF Asking
<1>3. ~Answers(r)
  BY <1>1 DEF Answers
<1>4. q \notin Fetching \cup {"gbody", "hdrdown", "datadown"}
  BY ReplyPlaces, LinePlaces
<1> QED
  BY <1>1, <1>2, <1>3, <1>4, RestOrdered DEF Dialogue

\* The header arrives.
LEMMA ReplyRecvHdr ==
  ASSUME ReplyInv, Running, NEW t \in Clients, RecvHdr(t)
  PROVE  KeepsReply(t)
<1>0. /\ LineInv /\ TypeOK /\ loc \in [Clients -> Locals] /\ loc[t] \in Locals
      /\ inq[t] \in Seq(Cells) /\ Framed(outq[t])
      /\ Connected(t) => DialogueOf(t)
  BY ReplyFacts
<1>1. FramedInv(t) /\ HeldInv(t) /\ Started(pc[t], loc[t])
  BY <1>0, LineFacts
<1>2. pc[t] = "recv" /\ pc'[t] = "copy" /\ UNCHANGED <<cl, cur, outq>>
  BY <1>0, GotoThere DEF RecvHdr, clientVars
<1>3. loc[t].sock.who = t
  BY <1>1, <1>2, EntriesDiffer DEF HeldInv
<1>4. /\ inq[t] # <<>> /\ inq'[t] = Tail(inq[t])
      /\ SetLoc(t, "own", HdrSeen(Head(inq[t])))
  BY <1>0, <1>3 DEF RecvHdr, CanRecv, TypeOK
<1>5. FrameOf(t)
  BY <1>1, <1>2 DEF FramedInv, Fresh, Lost
<1>6. PICK r \in Requests \cup {NoRequest}, p \in Nat :
        Stream(r, p, inq[t]) /\ Placed(pc[t], loc[t], r, p)
  BY <1>5 DEF FrameOf
<1>7. p = r.dlen
  BY <1>2, <1>6 DEF Placed, Fresh
<1> DEFINE x == inq[t][1]
<1>8. x = HdrCell(x.req) /\ x.req \in Requests
  BY <1>0, <1>4, <1>6, <1>7, StreamNext
<1>9. x.kind # "pay" /\ Head(inq[t]) = x
  BY <1>0, <1>4, <1>8, HeadTailProperties DEF HdrCell
<1>10. loc'[t].own.cmd = x.req.cmd
  <2>1. HdrSeen(x) = HdrOf(x.req) /\ HdrOf(x.req).cmd = x.req.cmd
    BY <1>8, HdrOfFields DEF HdrOf
  <2>2. loc'[t].own = HdrSeen(x)
    BY <1>0, <1>4, <1>9 DEF SetLoc, Locals
  <2> QED
    BY <2>1, <2>2
<1>11. Rest(inq'[t], inq[t], 1)
  <2>1. 1 \in 1..Len(inq[t])
    BY <1>0, <1>4, LenProperties, EmptySeq
  <2> QED
    BY <1>0, <1>4, <2>1, RestOf
<1>12. ASSUME Connected(t)' PROVE DialogueOf(t)'
  <2>1. Dialogue(cl[t], cur[t], "recv", loc[t], inq[t], outq[t])
    BY <1>0, <1>2, <1>12 DEF Connected, DialogueOf
  <2>2. Dialogue(cl[t], cur[t], "copy", loc'[t], inq'[t], outq[t])
    BY <1>0, <1>9, <1>10, <1>11, <2>1, DialogueHeader
  <2> QED
    BY <1>2, <2>2 DEF DialogueOf
<1> QED
  BY <1>0, <1>2, <1>12 DEF KeepsReply

\* A part of the payload arrives.
LEMMA ReplyRecvData ==
  ASSUME ReplyInv, Running, NEW t \in Clients, RecvData(t)
  PROVE  KeepsReply(t)
<1>0. /\ LineInv /\ TypeOK /\ loc \in [Clients -> Locals] /\ loc[t] \in Locals
      /\ inq[t] \in Seq(Cells) /\ Framed(outq[t])
      /\ Connected(t) => DialogueOf(t)
  BY ReplyFacts
<1>1. pc[t] = "data" /\ UNCHANGED <<cl, cur, outq>>
  BY DEF RecvData, clientVars
<1>2. loc[t].sock.who = t
  BY <1>0, <1>1, LineFacts, EntriesDiffer DEF HeldInv
<1>3. CASE Die
  <2>1. ~Running'
    BY <1>0, <1>3, DieEnds DEF Running
  <2> QED
    BY <1>1, <2>1, ReplyAway
<1>4. CASE ~Die
  <2>1. PICK n \in 1..Len(inq[t]) :
          /\ inq' = [inq EXCEPT ![t] = SubSeq(@, n + 1, Len(@))]
          /\ \E g, b : loc' = [loc EXCEPT ![t] = [loc[t] EXCEPT !.got = g, !.buf = b]]
    BY <1>2 DEF RecvData
  <2>2. inq'[t] = SubSeq(inq[t], n + 1, Len(inq[t])) /\ loc'[t].own = loc[t].own
    <3>1. inq'[t] = SubSeq(inq[t], n + 1, Len(inq[t]))
      <4>1. inq \in [Clients -> Seq(Cells)]
        BY <1>0 DEF TypeOK
      <4> QED
        BY <2>1, <4>1, Zenon
    <3>2. loc'[t].own = loc[t].own
      <4>1. PICK g, b : loc' = [loc EXCEPT ![t] = [loc[t] EXCEPT !.got = g, !.buf = b]]
        BY <2>1
      <4>2. loc'[t] = [loc[t] EXCEPT !.got = g, !.buf = b]
        BY <1>0, <4>1, Zenon
      <4> QED
        BY <1>0, <4>2 DEF Locals
    <3> QED
      BY <3>1, <3>2
  <2>3. Rest(inq'[t], inq[t], n)
    BY <1>0, <2>2, RestOf
  <2>4. pc'[t] \in {"check", "dcall"}
    <3>1. Goto(t, "check") \/ Goto(t, "dcall")
      BY <1>4 DEF RecvData
    <3> QED
      BY <1>0, <3>1, GotoThere
  <2>5. "data" \in Getting /\ pc'[t] \in Getting \cup Whole /\ pc'[t] # "gsend"
    BY <2>4 DEF Getting, Whole
  <2>6. ASSUME Connected(t)' PROVE DialogueOf(t)'
    <3>1. Dialogue(cl[t], cur[t], "data", loc[t], inq[t], outq[t])
      BY <1>0, <1>1, <2>6 DEF Connected, DialogueOf
    <3>2. Dialogue(cl[t], cur[t], pc'[t], loc'[t], inq'[t], outq[t])
      BY <1>0, <2>2, <2>3, <2>5, <3>1, DialogueData
    <3> QED
      BY <1>1, <3>2 DEF DialogueOf
  <2> QED
    BY <1>0, <1>1, <2>5, <2>6 DEF KeepsReply
<1> QED
  BY <1>3, <1>4

\* The steps from the header to the whole payload that receive nothing.
LEMMA ReplyRequest ==
  ASSUME ReplyInv, Running, NEW t \in Clients, UNCHANGED <<cl, cur, inq, outq>>,
         pc[t] \in GotHdr \cup Getting \cup Whole,
         \/ /\ pc'[t] \in GotHdr \cup Getting \cup Whole
            /\ loc'[t].own = loc[t].own
         \/ pc'[t] \in {"top", "done", "endclose", "errclose"}
  PROVE  KeepsReply(t)
<1>1. Slides(pc[t], loc[t], pc'[t], loc'[t])
  <2>1. CASE loc'[t].own = loc[t].own
    BY <2>1, Sliding
  <2>2. CASE pc'[t] \in {"top", "done", "endclose", "errclose"}
    BY <2>2, ReplyPlaces DEF Slides, Replied
  <2> QED
    BY <2>1, <2>2
<1>2. pc'[t] \notin Fetching /\ pc'[t] # "gsend"
  BY ReplyPlaces DEF Fetching
<1> QED
  BY <1>1, <1>2, ReplySlides

\* Receiving and checking the header.
LEMMA ReplyRecvHeader ==
  ASSUME ReplyInv, Running, NEW t \in Clients, RecvHeader(t), ~RecvPiece(t)
  PROVE  KeepsReply(t)
<1>0. TypeOK /\ loc \in [Clients -> Locals] /\ loc[t] \in Locals
  BY ReplyFacts
<1>1. CASE Top(t) \/ Call(t, "hcall", "recv")
  <2>1. /\ UNCHANGED <<cl, cur, inq, outq>>
        /\ pc[t] \in {"top", "hcall"} /\ pc'[t] \in {"hcall", "recv"}
    BY <1>0, <1>1, GotoThere DEF Top, Call, clientVars
  <2>2. pc[t] \in Replied /\ pc'[t] \in Replied
    BY <2>1 DEF Replied, Fresh
  <2>3. pc'[t] \notin Fetching /\ pc'[t] # "gsend"
    BY <2>1 DEF Fetching
  <2>4. Slides(pc[t], loc[t], pc'[t], loc'[t])
    BY <2>2, Sliding
  <2> QED
    BY <2>1, <2>3, <2>4, ReplySlides
<1>2. CASE RecvHdr(t)
  BY <1>2, ReplyRecvHdr
<1>3. CASE CopyCmd(t) \/ CheckVersion(t) \/ CheckLen(t)
  <2>1. /\ UNCHANGED <<cl, cur, inq, outq>> /\ pc[t] \in {"copy", "ver", "len"}
        /\ \/ pc'[t] \in {"ver", "len", "cmd"} /\ UNCHANGED loc
           \/ pc'[t] = "done"
    BY <1>0, <1>3, GotoThere DEF CopyCmd, CheckVersion, CheckLen, Private, clientVars
  <2> QED
    BY <2>1, ReplyRequest DEF GotHdr
<1>4. CASE HdrDown(t)
  <2>1. UNCHANGED <<cl, outq>> /\ pc[t] = "hdrdown" /\ pc'[t] = "ver"
    BY <1>0, <1>4, GotoThere DEF HdrDown, CloseFd, clientVars
  <2>2. ~Connected(t)
    BY <2>1, ReplyFacts DEF DialogueOf, Dialogue
  <2> QED
    BY <2>1, <2>2, ReplyAway DEF Connected
<1>5. CASE TestCmd(t)
  <2>1. UNCHANGED <<cl, cur, inq, outq>> /\ pc[t] = "cmd"
    BY <1>5 DEF TestCmd, Private, clientVars
  <2>2. CASE Goto(t, "endclose") \/ Goto(t, "top")
    BY <1>0, <2>1, <2>2, GotoThere, ReplyRequest DEF GotHdr
  <2>3. CASE (\E v, k : loc' = [loc EXCEPT ![t] = [@ EXCEPT !.cmd = v, !.k = k]]) /\ Goto(t, "mod")
    <3>1. loc'[t].own = loc[t].own
      BY <1>0, <2>3 DEF Locals
    <3> QED
      BY <1>0, <2>1, <2>3, <3>1, GotoThere, ReplyRequest DEF GotHdr
  <2>4. CASE (\E k : SetLoc(t, "k", k)) /\ UNCHANGED pc
    BY <1>0, <2>1, <2>4, LineLocals, ReplyRequest DEF GotHdr
  <2> QED
    BY <1>5, <2>2, <2>3, <2>4 DEF TestCmd
<1> QED
  BY <1>1, <1>2, <1>3, <1>4, <1>5 DEF RecvHeader

\* A payload is decoded for the handler of GET only when the client waits.
LEMMA ReplyDecodesGet ==
  ASSUME ReplyInv, Running, NEW t \in Clients, pc[t] = "decode", Connected(t),
         loc[t].own.cmd # "SET", loc[t].buf # <<>>
  PROVE  cl[t] = "wait"
<1>0. /\ LineInv /\ TypeOK /\ DialogueOf(t) /\ FramedInv(t)
      /\ Own(pc[t], loc[t], g_stTestHdr)
  BY ReplyFacts, LineFacts
<1>1. ~Lost(pc[t], loc[t])
  BY <1>0, CutDecodesNothing
<1>2. pc[t] \in Whole /\ Asking(pc[t], loc[t])
  BY DEF Whole, Asking
<1>3. Unheaded(inq[t]) /\ ~Quiet(cl[t], cur[t])
  BY <1>0, <1>2 DEF DialogueOf, Dialogue
<1>4. inq[t] = <<>>
  BY <1>1, <1>3, NothingMore
<1>5. PICK x \in Requests \cup {NoRequest}, p \in Nat :
        /\ Ended(cl[t], cur[t], x, p, inq[t])
        /\ Placed(pc[t], loc[t], x, p)
  BY <1>0, <1>1, <1>2 DEF FramedInv, FrameOf
<1>6. p = loc[t].got /\ Len(loc[t].buf) <= loc[t].got
  BY <1>2, <1>5 DEF Placed, BufOf
<1> SUFFICES ASSUME cl[t] = "half" PROVE FALSE
  BY <1>3 DEF Connected, Quiet
<1>7. p = 0
  BY <1>4, <1>5 DEF Ended, LastPart
<1> DEFINE n == Len(loc[t].buf)
<1>8. n \in Nat /\ n <= 0 /\ n # 0
  BY <1>0, <1>6, <1>7, Lookups, LenProperties, EmptySeq
<1> HIDE DEF n
<1> QED
  BY <1>8

\* What is decoded of a payload, be it there in one piece or in several, goes to the
\* handler of its header's command, anything else to the end.
LEMMA ReplyDecode ==
  ASSUME ReplyInv, Running, NEW t \in Clients, Decode(t)
  PROVE  KeepsReply(t)
<1>0. TypeOK /\ Own(pc[t], loc[t], g_stTestHdr) /\ loc[t].cmd \in Cmds
  BY ReplyFacts, Lookups
<1>1. pc[t] = "decode" /\ UNCHANGED <<cl, cur, inq, outq, loc>>
  BY DEF Decode, clientVars
<1>2. loc[t].cmd = loc[t].own.cmd
  BY <1>0, <1>1, OwnPlaces DEF Own
<1>3. CASE Die
  <2>1. ~Running'
    BY <1>0, <1>3, DieEnds DEF Running
  <2> QED
    BY <1>1, <2>1, ReplyAway
<1>4. CASE ~Die
  <2>1. \/ loc[t].buf # <<>> /\ Goto(t, HandlerPc(loc[t].cmd))
        \/ loc[t].cmd = "LIST" /\ Goto(t, "lend")
        \/ Goto(t, "endclose")
    <3>1. \A r \in Requests : Decodes(t, r) => loc[t].buf # <<>>
      <4>1. loc[t].buf = <<>> => Len(loc[t].buf) = 0
        BY EmptySeq
      <4>2. \A r \in Requests : r.dlen \in Nat /\ ~(r.dlen <= 0 /\ r.dlen > 0)
        BY StreamTypes
      <4> QED
        BY <4>1, <4>2 DEF Decodes, Holds
    <3> QED
      BY <1>4, <3>1 DEF Decode
  <2>2. pc[t] \in Whole
    BY <1>1 DEF Whole
  <2>3. CASE Goto(t, "endclose")
    BY <1>0, <1>1, <2>2, <2>3, GotoThere, ReplyRequest
  <2>4. CASE loc[t].cmd = "LIST" /\ Goto(t, "lend")
    <3>1. pc'[t] = "lend" /\ Asking(pc[t], loc[t])
      BY <1>0, <1>2, <2>2, <2>4, GotoThere DEF Asking
    <3>2. Slides(pc[t], loc[t], "lend", loc'[t])
      BY <2>2, <3>1, ReplyPlaces DEF Slides, GotHdr, Getting, Whole, Fetching
    <3> QED
      BY <1>1, <3>1, <3>2, ReplySlides DEF Fetching
  <2>5. ASSUME loc[t].buf # <<>>, Goto(t, HandlerPc(loc[t].cmd))
        PROVE  KeepsReply(t)
    <3>1. CASE loc[t].cmd = "SET"
      <4>1. pc'[t] = "set"
        BY <1>0, <2>5, <3>1, GotoThere DEF HandlerPc
      <4>2. Slides(pc[t], loc[t], "set", loc'[t])
        BY <2>2, ReplyPlaces DEF Slides, Replied
      <4> QED
        BY <1>1, <4>1, <4>2, ReplySlides DEF Fetching
    <3>2. CASE loc[t].cmd # "SET"
      <4>1. pc'[t] \in {"get", "list"}
        BY <1>0, <2>5, <3>2, GotoThere DEF HandlerPc
      <4>2. loc[t].own.cmd # "SET"
        BY <1>2, <3>2
      <4>3. Connected(t) => cl[t] = "wait"
        BY <1>1, <2>5, <4>2, ReplyDecodesGet
      <4>4. Slides(pc[t], loc[t], pc'[t], loc'[t])
        <5>1. Asking(pc[t], loc[t])
          BY <2>2, <4>2 DEF Asking
        <5> QED
          BY <2>2, <4>1, <5>1, ReplyPlaces DEF Slides
      <4> QED
        BY <1>1, <4>1, <4>3, <4>4, ReplySlides
    <3> QED
      BY <3>1, <3>2
  <2> QED
    BY <2>1, <2>3, <2>4, <2>5
<1> QED
  BY <1>3, <1>4

\* From the choice of the codec to the decoded request.
LEMMA ReplyRecvRequest ==
  ASSUME ReplyInv, Running, NEW t \in Clients, RecvRequest(t)
  PROVE  KeepsReply(t)
<1>0. TypeOK /\ loc \in [Clients -> Locals] /\ loc[t] \in Locals
  BY ReplyFacts
<1>1. CASE TestModule(t)
  <2>1. UNCHANGED <<cl, cur, inq, outq>> /\ pc[t] = "mod"
    BY <1>1 DEF TestModule, Private, clientVars
  <2>2. CASE Goto(t, "top")
    BY <1>0, <2>1, <2>2, GotoThere, ReplyRequest DEF GotHdr
  <2>3. CASE /\ \E v, k : loc' = [loc EXCEPT ![t] = [@ EXCEPT !.mod = v, !.size = k]]
             /\ Goto(t, "need") \/ Goto(t, "size")
    <3>1. loc'[t].own = loc[t].own
      BY <1>0, <2>3 DEF Locals
    <3>2. pc'[t] = "need" \/ pc'[t] = "size"
      BY <1>0, <2>3, GotoThere
    <3> QED
      BY <2>1, <3>1, <3>2, ReplyRequest DEF GotHdr
  <2>4. CASE (\E k : SetLoc(t, "k", k)) /\ UNCHANGED pc
    BY <1>0, <2>1, <2>4, LineLocals, ReplyRequest DEF GotHdr
  <2> QED
    BY <1>1, <2>2, <2>3, <2>4 DEF TestModule
<1>2. CASE SizeBuf(t) \/ ReadNeed(t) \/ Call(t, "dcall", "data")
  <2>1. /\ UNCHANGED <<cl, cur, inq, outq>> /\ pc[t] \in {"size", "need", "dcall"}
        /\ pc'[t] \in {"need", "check", "dcall", "data"}
    <3>1. \E q \in {"need", "check", "dcall", "data"} : Goto(t, q)
      BY <1>2 DEF SizeBuf, ReadNeed, Call
    <3>2. UNCHANGED <<cl, cur, inq, outq>> /\ pc[t] \in {"size", "need", "dcall"}
      BY <1>2 DEF SizeBuf, ReadNeed, Call, Private, clientVars
    <3> QED
      BY <1>0, <3>1, <3>2, GotoThere
  <2>2. loc'[t].own = loc[t].own
    <3>1. \E f \in {"size", "need", "sock"} : \E v : SetLoc(t, f, v)
      BY <1>2 DEF SizeBuf, ReadNeed, Call
    <3> QED
      BY <1>0, <3>1, LineLocals
  <2> QED
    BY <2>1, <2>2, ReplyRequest DEF GotHdr, Getting, Whole
<1>3. CASE RecvData(t)
  BY <1>3, ReplyRecvData
<1>4. CASE DataDown(t)
  <2>1. UNCHANGED <<cl, outq>> /\ pc[t] = "datadown" /\ pc'[t] = "decode"
    BY <1>0, <1>4, GotoThere DEF DataDown, CloseFd, clientVars
  <2>2. ~Connected(t)
    BY <2>1, ReplyFacts DEF DialogueOf, Dialogue
  <2> QED
    BY <2>1, <2>2, ReplyAway DEF Connected
<1>5. CASE CheckData(t)
  <2>1. UNCHANGED <<cl, cur, inq, outq, loc>> /\ pc[t] = "check"
    BY <1>5 DEF CheckData, Private, clientVars
  <2>2. pc'[t] = "decode" \/ pc'[t] = "endclose"
    <3>1. Goto(t, "decode") \/ Goto(t, "endclose")
      BY <1>5 DEF CheckData
    <3> QED
      BY <1>0, <3>1, GotoThere
  <2> QED
    BY <2>1, <2>2, ReplyRequest DEF Whole
<1>6. CASE Decode(t)
  BY <1>6, ReplyDecode
<1> QED
  BY <1>1, <1>2, <1>3, <1>4, <1>5, <1>6 DEF RecvRequest

\* The end of a recv(), which only a client that left brings about, and the closes.
LEMMA ReplyEnds ==
  ASSUME ReplyInv, Running, NEW t \in Clients, RecvEnds(t) \/ ErrClose(t) \/ EndClose(t)
  PROVE  KeepsReply(t)
<1>0. TypeOK /\ LineInv
  BY ReplyFacts
<1>1. CASE RecvEnds(t)
  <2>1. pc[t] \in {"recv", "data"} /\ UNCHANGED <<cl, outq>>
    BY <1>1 DEF RecvEnds, clientVars
  <2>2. loc[t].sock = Conn(t)
    BY <1>0, <2>1, LineFacts DEF HeldInv
  <2>3. cl[t] \in {"closed", "hungup", "reset"}
    BY <1>1, <2>2, EntriesDiffer DEF RecvEnds, RecvEof, RecvFails, HasEof
  <2>4. pc'[t] # "gsend"
    <3>1. \E q \in {"hdrdown", "datadown", "errclose"} : Goto(t, q)
      BY <1>1 DEF RecvEnds
    <3> QED
      BY <1>0, <3>1, GotoThere
  <2> QED
    BY <2>1, <2>3, <2>4, ReplyAway DEF Connected
<1>2. CASE ErrClose(t) \/ EndClose(t)
  <2>1. /\ pc[t] \in {"errclose", "endclose"} /\ UNCHANGED <<cl, cur, inq, outq>>
        /\ pc'[t] \in {"endclose", "done"}
    BY <1>0, <1>2, GotoThere DEF ErrClose, EndClose, CloseFd, clientVars
  <2>2. Slides(pc[t], loc[t], pc'[t], loc'[t])
    BY <2>1, Sliding
  <2> QED
    BY <2>1, <2>2, ReplySlides DEF Fetching
<1> QED
  BY <1>1, <1>2

-----------------------------------------------------------------------------
(* Answering it.                                                           *)

\* What a cell that a thread sends does to the dialogue.
LEMMA DialogueCell ==
  ASSUME NEW state, NEW request, NEW p, NEW l, NEW s, NEW r, NEW q, NEW u,
         Dialogue(state, request, p, l, s, r), Asking(p, l),
         q \notin GotHdr \cup Getting \cup Whole \cup Fetching \cup {"hdrdown", "datadown"},
         q = "gbody" => /\ state = "wait"
                        /\ Len(u) = 1 /\ u[1].kind = "hdr" /\ u[1].len = l.reply,
         Answers(u) => s = <<>> /\ q \in Replied
  PROVE  Dialogue(state, request, q, l, s, u)
<1>1. Ordered(s) /\ Unheaded(s) /\ ~Quiet(state, request)
  BY DEF Dialogue
<1> QED
  BY <1>1 DEF Dialogue

\* A cell reaches the client that is connected, or nobody sees it.
LEMMA ReplySend ==
  ASSUME ReplyInv, Running, NEW t \in Clients, NEW from \in Decoded, NEW x,
         NEW to, NEW failed, to # "gsend", failed # "gsend", Send(t, from, x, to, failed)
  PROVE  \/ KeepsReply(t)
         \/ /\ UNCHANGED <<cl, cur, inq, loc>> /\ Connected(t) /\ pc[t] = from
            /\ outq'[t] = Append(outq[t], x) /\ pc'[t] = to
            /\ \A u \in Clients \ {t} : outq'[u] = outq[u]
<1>0. TypeOK /\ LineInv /\ outq \in [Clients -> Seq(Replies)]
  BY ReplyFacts DEF TypeOK
<1>1. pc[t] = from /\ UNCHANGED <<cur, inq, loc>>
  BY DEF Send
<1>2. fdTable[connFd[t]] = Conn(t)
  BY <1>0, <1>1, DecodedFrame, HasConnection
<1>3. Conn(t).kind = "conn" /\ Conn(t).who = t
  BY EntriesDiffer
<1>4. CASE SigPipe(connFd[t])
  <2>1. ~Running' /\ UNCHANGED outq
    BY <1>0, <1>4, DieEnds DEF SigPipe, Running
  <2> QED
    BY <2>1, ReplyAway
<1>5. CASE SendFails(connFd[t]) /\ Goto(t, failed)
  <2>1. cl[t] = "reset" /\ UNCHANGED <<cl, outq>> /\ pc'[t] = failed
    BY <1>0, <1>2, <1>3, <1>5, GotoThere DEF SendFails
  <2> QED
    BY <2>1, ReplyAway DEF Connected
<1>6. CASE Delivers(connFd[t], x) /\ Goto(t, to)
  <2>1. pc'[t] = to
    BY <1>0, <1>6, GotoThere
  <2>2. CASE Connected(t) /\ outq' = [outq EXCEPT ![t] = Append(@, x)] /\ UNCHANGED cl
    BY <1>0, <1>1, <2>1, <2>2
  <2>3. CASE cl' = [cl EXCEPT ![t] = "hungup"] /\ UNCHANGED outq
    <3>1. cl'[t] = "hungup"
      BY <1>0, <2>3 DEF TypeOK
    <3> QED
      BY <2>1, <2>3, <3>1, ReplyAway DEF Connected
  <2> QED
    BY <1>2, <1>3, <1>6, <2>2, <2>3 DEF Delivers
<1> QED
  BY <1>4, <1>5, <1>6 DEF Send

\* The cells of an answer.
LEMMA ReplyCells ==
  ASSUME TypeOK, NEW t \in Clients
  PROVE  /\ NameCell \in Replies /\ NameCell.kind = "name"
         /\ EndCell \in Replies /\ EndCell.kind = "end"
         /\ HdrReply \in Replies /\ HdrReply.kind = "hdr" /\ HdrReply.len = g_stTestHdr.dlen
         /\ BodyCell(loc[t].reply) \in Replies /\ BodyCell(loc[t].reply).kind = "body"
         /\ BodyCell(loc[t].reply).len = loc[t].reply
<1>1. g_stTestHdr \in Header /\ loc[t].reply \in Nat
  BY Lookups DEF TypeOK
<1>2. HdrReply \in Replies
  BY <1>1 DEF HdrReply, Replies, Header
<1> QED
  BY <1>1, <1>2 DEF NameCell, EndCell, HdrReply, BodyCell, Replies

\* The four sends of the handlers.
LEMMA ReplySends ==
  ASSUME ReplyInv, Running, NEW t \in Clients,
         SendName(t) \/ SendEnd(t) \/ SendReplyHdr(t) \/ SendBody(t)
  PROVE  KeepsReply(t)
<1>0. /\ TypeOK /\ LineInv /\ outq[t] \in Seq(Replies) /\ Framed(outq[t])
      /\ Connected(t) => DialogueOf(t)
      /\ pc[t] = "gsend" => g_stTestHdr.dlen = loc[t].reply
  BY ReplyFacts
<1> SUFFICES ASSUME ~KeepsReply(t) PROVE FALSE
  OBVIOUS
<1>d. {"names", "lend", "gsend", "gbody"} \subseteq Decoded
  BY DEF Decoded
<1> DEFINE l == loc[t]
           s == inq[t]
           r == outq[t]
           D(q, u) == Dialogue(cl[t], cur[t], q, l, s, u)
\* a cell x that is sent from place p to place q of the thread
<1>1. ASSUME NEW p \in {"names", "lend", "gsend", "gbody"},
             NEW q \in {"lclose", "top", "gbody", "gclose"}, NEW f, f # "gsend",
             NEW x \in Replies, Send(t, p, x, q, f)
      PROVE  /\ D(p, r) /\ pc[t] = p /\ Asking(p, l)
             /\ ~(Framed(Append(r, x)) /\ D(q, Append(r, x)))
  <2>1. q # "gsend" /\ p \in Decoded
    BY <1>d, <1>1
  <2>2. /\ UNCHANGED <<cl, cur, inq, loc>> /\ Connected(t) /\ pc[t] = p
        /\ outq'[t] = Append(r, x) /\ pc'[t] = q
        /\ \A u \in Clients \ {t} : outq'[u] = outq[u]
    BY <1>1, <2>1, ReplySend
  <2>3. D(p, r)
    BY <1>0, <2>2 DEF DialogueOf
  <2>4. Asking(p, l)
    BY DEF Asking, Naming, Fetching
  <2>5. D(q, Append(r, x)) => DialogueOf(t)'
    BY <2>2 DEF DialogueOf
  <2> HIDE DEF D, r
  <2> QED
    BY <2>1, <2>2, <2>3, <2>4, <2>5 DEF KeepsReply
<1>2. \A q \in {"lclose", "top", "gbody", "gclose"} :
        q \notin GotHdr \cup Getting \cup Whole \cup Fetching \cup {"hdrdown", "datadown"}
  BY DEF GotHdr, Getting, Whole, Fetching
<1>3. \A p \in {"names", "lend", "gsend", "gbody"} : p \notin Replied
  BY DEF Replied, Fresh
<1>4. CASE SendName(t)
  <2>1. Send(t, "names", NameCell, "lclose", "endclose")
    BY <1>4 DEF SendName
  <2>2. /\ D("names", r) /\ Asking("names", l)
        /\ ~(Framed(Append(r, NameCell)) /\ D("lclose", Append(r, NameCell)))
    BY <1>0, <1>1, <2>1, ReplyCells
  <2>3. ~Answers(r)
    BY <1>3, <2>2 DEF Dialogue
  <2>4. Framed(Append(r, NameCell)) /\ ~Answers(Append(r, NameCell))
    BY <1>0, <2>3, ReplyCells, CellFramed
  <2>5. D("lclose", Append(r, NameCell))
    BY <1>2, <2>2, <2>4, DialogueCell
  <2> QED
    BY <2>2, <2>4, <2>5
<1>5. CASE SendEnd(t)
  <2>1. Send(t, "lend", EndCell, "top", "endclose")
    BY <1>5 DEF SendEnd
  <2>2. /\ D("lend", r) /\ Asking("lend", l) /\ pc[t] = "lend"
        /\ ~(Framed(Append(r, EndCell)) /\ D("top", Append(r, EndCell)))
    BY <1>0, <1>1, <2>1, ReplyCells
  <2>3. s = <<>>
    <3>1. Unheaded(s)
      BY <2>2 DEF Dialogue
    <3> QED
      BY <1>0, <1>d, <2>2, <3>1, DecodedFrame, NothingMore
  <2>4. Framed(Append(r, EndCell))
    BY <1>0, ReplyCells, CellFramed
  <2>5. D("top", Append(r, EndCell))
    <3>1. "top" \in Replied
      BY DEF Replied
    <3> HIDE DEF s
    <3> QED
      BY <1>2, <2>2, <2>3, <3>1, DialogueCell
  <2> QED
    BY <2>2, <2>4, <2>5
<1>6. CASE SendReplyHdr(t)
  <2>1. Send(t, "gsend", HdrReply, "gbody", "gbody")
    BY <1>6 DEF SendReplyHdr
  <2>2. /\ D("gsend", r) /\ Asking("gsend", l) /\ pc[t] = "gsend"
        /\ ~(Framed(Append(r, HdrReply)) /\ D("gbody", Append(r, HdrReply)))
    BY <1>0, <1>1, <2>1, ReplyCells
  <2>3. r = <<>> /\ cl[t] = "wait"
    BY <2>2 DEF Dialogue, Fetching
  <2>4. ~Answers(r)
    BY <1>3, <2>2 DEF Dialogue
  <2>5. /\ Framed(Append(r, HdrReply)) /\ ~Answers(Append(r, HdrReply))
        /\ Len(Append(r, HdrReply)) = 1 /\ Append(r, HdrReply)[1] = HdrReply
    BY <1>0, <2>3, <2>4, ReplyCells, CellFramed
  <2>6. HdrReply.kind = "hdr" /\ HdrReply.len = l.reply
    BY <1>0, <2>2, ReplyCells
  <2>7. D("gbody", Append(r, HdrReply))
    BY <1>2, <2>2, <2>3, <2>5, <2>6, DialogueCell
  <2> QED
    BY <2>2, <2>5, <2>7
<1>7. CASE SendBody(t)
  <2> DEFINE x == BodyCell(loc[t].reply)
  <2>1. Send(t, "gbody", x, "gclose", "endclose")
    BY <1>7 DEF SendBody
  <2>2. /\ D("gbody", r) /\ Asking("gbody", l) /\ pc[t] = "gbody"
        /\ ~(Framed(Append(r, x)) /\ D("gclose", Append(r, x)))
    BY <1>0, <1>1, <2>1, ReplyCells
  <2>3. s = <<>>
    <3>1. Unheaded(s)
      BY <2>2 DEF Dialogue
    <3> QED
      BY <1>0, <1>d, <2>2, <3>1, DecodedFrame, NothingMore
  <2>4. Len(r) = 1 /\ r[1].kind = "hdr" /\ r[1].len = x.len
    BY <1>0, <2>2, ReplyCells DEF Dialogue
  <2>5. Framed(Append(r, x))
    BY <1>0, <2>4, ReplyCells, CellFramed
  <2>6. D("gclose", Append(r, x))
    <3>1. "gclose" \in Replied
      BY DEF Replied
    <3> HIDE DEF s, x
    <3> QED
      BY <1>2, <2>2, <2>3, <3>1, DialogueCell
  <2> QED
    BY <2>2, <2>5, <2>6
<1> QED
  BY <1>4, <1>5, <1>6, <1>7

\* The steps of the handlers that send nothing.
LEMMA ReplyHandlerQuiet ==
  ASSUME ReplyInv, Running, NEW t \in Clients, UNCHANGED <<cl, cur, inq, outq>>,
         \/ pc[t] \in Naming /\ pc'[t] \in Naming \cup {"endclose"}
         \/ pc[t] \in Fetching /\ pc'[t] \in Fetching \cup {"endclose", "spin"}
         \/ pc[t] \in {"set", "write", "sclose"} /\ pc'[t] \in {"top", "write", "sclose", "endclose"}
         \/ pc[t] = "gclose" /\ pc'[t] = "top",
         pc'[t] = "gsend" => g_stTestHdr'.dlen = loc'[t].reply
  PROVE  KeepsReply(t)
<1>1. Slides(pc[t], loc[t], pc'[t], loc'[t])
  <2>1. "gclose" \in Replied /\ "top" \in Replied
    BY DEF Replied
  <2> QED
    BY <2>1, Sliding
<1>2. pc'[t] \in Fetching => pc[t] \in Fetching
  <2>1. \A q \in Naming \cup {"top", "write", "sclose", "endclose"} : q \notin Fetching
    BY DEF Naming, Fetching
  <2> QED
    BY <2>1
<1> QED
  BY <1>1, <1>2, ReplySlides

\* The three handlers.
LEMMA ReplyHandlers ==
  ASSUME ReplyInv, Running, NEW t \in Clients, ListFile(t) \/ GetFile(t) \/ SetFile(t)
  PROVE  KeepsReply(t)
<1>0. /\ TypeOK /\ LineInv /\ loc \in [Clients -> Locals] /\ loc[t] \in Locals
      /\ g_stTestHdr \in Header
      /\ pc[t] \in FileHeld => fdTable[loc[t].file].kind = "file"
  <2>1. pc[t] \in FileHeld => fdTable[loc[t].file] = File(t)
    BY ReplyFacts, LineFacts DEF HeldInv
  <2> QED
    BY <2>1, ReplyFacts, EntriesDiffer DEF TypeOK
<1>p. /\ {"list", "names", "lclose", "lend"} \subseteq Naming
      /\ {"get", "gread", "ghdr", "glen", "gsend"} \subseteq Fetching
      /\ {"gread", "write"} \subseteq FileHeld
  BY DEF Naming, Fetching, FileHeld
\* opening and closing, whichever handler does it
<1>1. ASSUME NEW from, NEW q, Opens(t, from, q) \/ CloseFile(t, from, q)
      PROVE  pc[t] = from /\ pc'[t] = q /\ UNCHANGED <<cl, cur, inq, outq>>
  BY <1>0, <1>1, GotoThere DEF Opens, CloseFile, CloseFd, clientVars
<1>2. ASSUME NEW from, NEW mayFail, OpenFails(t, from, mayFail)
      PROVE  pc[t] = from /\ pc'[t] = "endclose" /\ UNCHANGED <<cl, cur, inq, outq>>
  BY <1>0, <1>2, GotoThere DEF OpenFails, Private, clientVars
<1>3. CASE ListFile(t)
  <2>1. CASE OpenDir(t) \/ CloseDir(t)
    <3>1. /\ pc[t] \in Naming /\ UNCHANGED <<cl, cur, inq, outq>>
          /\ pc'[t] \in {"names", "lend", "endclose"}
      BY <1>1, <1>2, <1>p, <2>1 DEF OpenDir, CloseDir
    <3> QED
      BY <1>p, <3>1, ReplyHandlerQuiet
  <2>2. CASE NoName(t)
    <3>1. /\ pc[t] = "names" /\ UNCHANGED <<cl, cur, inq, outq>>
          /\ pc'[t] \in {"lclose", "endclose"}
      BY <1>0, <2>2, GotoThere DEF NoName, Private, clientVars
    <3> QED
      BY <1>p, <3>1, ReplyHandlerQuiet
  <2> QED
    BY <1>3, <2>1, <2>2, ReplySends DEF ListFile
<1>4. CASE GetFile(t)
  <2>1. CASE OpenFile(t)
    <3>1. /\ pc[t] = "get" /\ pc'[t] \in {"gread", "endclose"}
          /\ UNCHANGED <<cl, cur, inq, outq>>
      BY <1>1, <1>2, <2>1 DEF OpenFile
    <3> QED
      BY <1>p, <3>1, ReplyHandlerQuiet
  <2>2. CASE ReadFile(t)
    <3>1. /\ pc[t] = "gread" /\ UNCHANGED <<cl, cur, outq>>
          /\ Goto(t, "ghdr") \/ Goto(t, "endclose") \/ Goto(t, "spin")
      BY <2>2 DEF ReadFile, clientVars
    <3>2. UNCHANGED inq
      BY <1>0, <1>p, <2>2, <3>1 DEF ReadFile
    <3>3. pc'[t] \in {"ghdr", "endclose", "spin"}
      BY <1>0, <3>1, GotoThere
    <3> QED
      BY <1>p, <3>1, <3>2, <3>3, ReplyHandlerQuiet
  <2>3. CASE StartReplyHdr(t)
    <3>1. pc[t] = "ghdr" /\ pc'[t] = "glen" /\ UNCHANGED <<cl, cur, inq, outq>>
      BY <1>0, <2>3, GotoThere DEF StartReplyHdr, clientVars
    <3> QED
      BY <1>p, <3>1, ReplyHandlerQuiet
  <2>4. CASE FillReplyHdr(t)
    <3>1. pc[t] = "glen" /\ pc'[t] = "gsend" /\ UNCHANGED <<cl, cur, inq, outq, loc>>
      BY <1>0, <2>4, GotoThere DEF FillReplyHdr, clientVars
    <3>2. \E h : g_stTestHdr' = [g_stTestHdr EXCEPT !.dlen = loc[t].reply, !.hlen = h]
      BY <2>4 DEF FillReplyHdr
    <3>3. g_stTestHdr'.dlen = loc'[t].reply
      BY <1>0, <3>1, <3>2 DEF Header
    <3> QED
      BY <1>p, <3>1, <3>3, ReplyHandlerQuiet
  <2>5. CASE CloseGot(t)
    <3>1. pc[t] = "gclose" /\ pc'[t] = "top" /\ UNCHANGED <<cl, cur, inq, outq>>
      BY <1>0, <1>1, <2>5, GotoThere DEF CloseGot, Private, clientVars
    <3> QED
      BY <3>1, ReplyHandlerQuiet
  <2> QED
    BY <1>4, <2>1, <2>2, <2>3, <2>4, <2>5, ReplySends DEF GetFile
<1>5. CASE SetFile(t)
  <2>1. /\ pc[t] \in {"set", "write", "sclose"} /\ UNCHANGED <<cl, cur, inq, outq>>
        /\ pc'[t] \in {"top", "write", "sclose", "endclose"}
    <3>1. CASE CreateFile(t)
      BY <1>0, <1>1, <1>2, <3>1, GotoThere DEF CreateFile, Private, clientVars
    <3>2. CASE WriteFile(t)
      <4>1. pc[t] = "write"
        BY <3>2 DEF WriteFile
      <4>2. fdTable[loc[t].file].kind = "file"
        BY <1>0, <1>p, <4>1
      <4>3. UNCHANGED <<cl, cur, inq, outq>> /\ (Goto(t, "sclose") \/ Goto(t, "endclose"))
        BY <3>2, <4>2 DEF WriteFile
      <4> QED
        BY <1>0, <4>1, <4>3, GotoThere
    <3>3. CASE CloseWritten(t)
      BY <1>1, <3>3 DEF CloseWritten
    <3> QED
      BY <1>5, <3>1, <3>2, <3>3 DEF SetFile
  <2> QED
    BY <2>1, ReplyHandlerQuiet
<1> QED
  BY <1>3, <1>4, <1>5

\* A thread's step, whichever it is.
LEMMA ReplyEveryStep ==
  ASSUME ReplyInv, NEW t \in Clients, Thread(t), ~RecvPiece(t)
  PROVE  KeepsReply(t)
BY ReplyRecvHeader, ReplyRecvRequest, ReplyEnds, ReplyHandlers DEF Thread

-----------------------------------------------------------------------------
(* The accept loop, the clients and the theorem.                           *)

\* A client and a thread that have not begun are quiet.
LEMMA DialogueBegins ==
  ASSUME NEW request, NEW p \in {"none", "top"}, NEW l
  PROVE  Dialogue("ready", request, p, l, <<>>, <<>>)
<1>1. /\ Ordered(<<>>) /\ AllSets(<<>>) /\ ~Answers(<<>>) /\ ~Asking(p, l)
  <2>1. Ordered(<<>>) /\ AllSets(<<>>)
    BY DEF Ordered, AllSets
  <2>2. ~Answers(<<>>)
    BY DEF Answers
  <2>3. ~Asking(p, l)
    BY ReplyPlaces DEF Replied
  <2> QED
    BY <2>1, <2>2, <2>3
<1>2. p \notin GotHdr \cup Getting \cup Whole \cup Fetching \cup {"gbody"}
  BY ReplyPlaces DEF Replied
<1> QED
  BY <1>1, <1>2 DEF Dialogue, Fetching

\* The accept loop starts threads and sends nothing.
LEMMA ReplyAcceptor ==
  ASSUME ReplyInv, LineInv', Server_dealClientReq
  PROVE  ReplyInv'
<1>0. UNCHANGED <<g_stTestHdr, loc, cl, cur, inq, outq>> /\ TypeOK
  BY DEF Server_dealClientReq, EnterAccept, Accept, Spawn, SpawnFails, threadVars, clientVars,
     ReplyInv, LineInv, OwnInv
<1>1. \A c \in Clients : Framed(outq'[c])
  BY <1>0 DEF ReplyInv
<1> SUFFICES ASSUME Running', NEW c \in Clients
             PROVE  /\ cl'[c] = "off" => outq'[c] = <<>>
                    /\ cl'[c] = "half" => cur'[c] \in Requests
                    /\ Connected(c)' => DialogueOf(c)'
                    /\ pc'[c] = "gsend" => g_stTestHdr'.dlen = loc'[c].reply
  BY <1>1 DEF ReplyInv
<1>2. Running
  BY <1>0 DEF Server_dealClientReq, EnterAccept, Accept, Spawn, SpawnFails, Die, Running,
     TypeOK, MainLoop
<1>3. /\ cl[c] = "off" => outq[c] = <<>>
      /\ cl[c] = "half" => cur[c] \in Requests
      /\ Connected(c) => DialogueOf(c)
      /\ pc[c] = "gsend" => g_stTestHdr.dlen = loc[c].reply
      /\ SoloInv
  BY <1>2, ReplyFacts DEF ReplyInv
<1>4. CASE pc'[c] = pc[c]
  BY <1>0, <1>3, <1>4 DEF DialogueOf, Connected
<1>5. CASE pc'[c] # pc[c]
  <2>1. pc[c] = "none" /\ pc'[c] = "top"
    <3>1. Spawn
      BY <1>5 DEF Server_dealClientReq, EnterAccept, Accept, SpawnFails, threadVars
    <3>2. pc' = [pc EXCEPT ![main.who] = "top"] /\ main.pc = "spawn"
      BY <3>1 DEF Spawn
    <3>3. main.who = c /\ pc'[c] = "top"
      BY <1>0, <1>5, <3>2 DEF TypeOK
    <3> QED
      BY <1>2, <1>3, <3>2, <3>3 DEF SoloInv
  <2>2. Slides("none", loc[c], "top", loc[c])
    BY Sliding
  <2>3. Connected(c) => Dialogue(cl[c], cur[c], "top", loc[c], inq[c], outq[c])
    BY <1>3, <2>1, <2>2, DialogueSlides DEF DialogueOf, Fetching
  <2> QED
    BY <1>0, <1>3, <2>1, <2>3 DEF DialogueOf, Connected
<1> QED
  BY <1>4, <1>5

\* A client that has sent a header only sends no payload when its thread is
\* between two requests: the request has none.
LEMMA ClientHalf ==
  ASSUME ReplyInv, Running, NEW c \in Clients, cl[c] = "half",
         inq[c] = <<>>, pc[c] \in Replied
  PROVE  cur[c].dlen = 0
<1>1. FrameOf(c)
  BY ReplyFacts, LineFacts, LinePlaces DEF FramedInv, Lost, Replied, Fresh, Decoded
<1>2. PICK r \in Requests \cup {NoRequest}, p \in Nat :
        Ended(cl[c], cur[c], r, p, inq[c]) /\ Placed(pc[c], loc[c], r, p)
  BY <1>1 DEF FrameOf
<1>3. p = 0 /\ r = cur[c]
  BY <1>2 DEF Ended, LastPart, LastReq
<1>4. p = r.dlen
  BY <1>2 DEF Placed, Replied, Decoded
<1> QED
  BY <1>3, <1>4

\* What a client does in the dialogue: it sends its next request when it has the
\* answer to the last one.
LEMMA DialogueOfClient ==
  ASSUME ReplyInv, Running, NEW c \in Clients, Client(c), Connected(c)'
  PROVE  DialogueOf(c)'
<1>0. /\ TypeOK /\ SoloInv /\ LineInv /\ inq[c] \in Seq(Cells)
      /\ Connected(c) => DialogueOf(c)
      /\ UNCHANGED <<pc, loc>>
      /\ FramedInv(c)
  BY ReplyFacts, LineFacts DEF Client, Connect, SendHdr, SendPayload, TakeReply, NoticeDown,
     Depart, threadVars
<1>1. /\ inq \in [Clients -> Seq(Cells)] /\ outq \in [Clients -> Seq(Replies)]
      /\ cur \in [Clients -> Requests \cup {NoRequest}]
      /\ cl \in [Clients -> {"off", "ready", "half", "wait", "closed", "hungup", "reset"}]
  BY <1>0 DEF TypeOK
<1>2. CASE Connect(c)
  <2>1. cl[c] = "off" /\ cl'[c] = "ready" /\ UNCHANGED <<inq, outq, cur>>
    BY <1>1, <1>2 DEF Connect
  <2>2. outq[c] = <<>> /\ pc[c] = "none"
    BY <1>0, <2>1 DEF ReplyInv, SoloInv
  <2>3. inq[c] = <<>>
    BY <1>0, <2>1, <2>2 DEF FramedInv, FrameOf, Ended, Lost
  <2> QED
    BY <1>0, <2>1, <2>2, <2>3, DialogueBegins DEF DialogueOf
<1>3. CASE SendHdr(c)
  <2>1. PICK r \in Requests :
          /\ inq' = [inq EXCEPT ![c] = Append(@, HdrCell(r))]
          /\ cur' = [cur EXCEPT ![c] = r]
          /\ cl' = [cl EXCEPT ![c] = IF r.cmd = "EXIT" THEN "closed" ELSE "half"]
    BY <1>3 DEF SendHdr
  <2>2. /\ cl[c] = "ready" /\ cl'[c] = "half" /\ cur'[c] = r /\ UNCHANGED outq
        /\ inq'[c] = Append(inq[c], HdrCell(r))
    BY <1>1, <1>3, <2>1 DEF SendHdr, Connected
  <2>3. /\ DialogueOf(c) /\ Quiet(cl[c], cur[c])
    BY <1>0, <2>2 DEF Connected, Quiet
  <2>4. /\ outq[c] = <<>> /\ AllSets(inq[c]) /\ ~Asking(pc[c], loc[c])
        /\ pc[c] \notin {"hdrdown", "datadown"}
    BY <2>3 DEF DialogueOf, Dialogue
  <2>5. Ordered(inq'[c]) /\ (r.cmd = "SET" => AllSets(inq'[c]))
    BY <1>0, <2>2, <2>4, HeaderOrdered
  <2>6. pc[c] \notin Fetching \cup {"gbody"}
    BY <2>4 DEF Asking
  <2>7. ~Answers(outq[c]) /\ (Quiet("half", r) => r.cmd = "SET")
    BY <2>4 DEF Answers, Quiet
  <2> QED
    BY <1>0, <2>2, <2>4, <2>5, <2>6, <2>7 DEF DialogueOf, Dialogue
<1>4. CASE SendPayload(c)
  <2> DEFINE r == cur[c]
             s == inq[c]
             u == s \o Payload(r)
  <2>1. /\ cl[c] = "half" /\ UNCHANGED <<outq, cur>> /\ inq'[c] = u
        /\ cl'[c] = IF r.cmd = "SET" THEN "ready" ELSE "wait"
    BY <1>1, <1>4 DEF SendPayload
  <2>2. DialogueOf(c)
    BY <1>0, <2>1 DEF Connected
  <2>3. r \in Requests
    BY <2>1 DEF ReplyInv
  <2>4. /\ Ordered(s) => Ordered(u)
        /\ Unheaded(s) => Unheaded(u)
        /\ AllSets(s) /\ r.cmd = "SET" => AllSets(u)
        /\ s = <<>> /\ r.dlen = 0 => u = <<>>
    <3>1. s \in Seq(Cells)
      BY <1>0
    <3> HIDE DEF s
    <3> QED
      BY <2>3, <3>1, PayloadOrdered
  <2>5. s = <<>> /\ pc[c] \in Replied => r.dlen = 0
    BY <2>1, ClientHalf
  <2>6. Quiet(cl'[c], r) => Quiet(cl[c], r) /\ r.cmd = "SET"
    BY <2>1 DEF Quiet
  <2> QED
    BY <1>0, <2>1, <2>2, <2>4, <2>5, <2>6 DEF DialogueOf, Dialogue
<1>5. CASE TakeReply(c)
  <2>1. /\ cl[c] = "wait" /\ cl'[c] = "ready" /\ outq'[c] = <<>> /\ UNCHANGED <<inq, cur>>
        /\ Answers(outq[c])
    BY <1>1, <1>5 DEF TakeReply, Answers
  <2>2. inq[c] = <<>> /\ pc[c] \in Replied
    BY <1>0, <2>1 DEF Connected, DialogueOf, Dialogue
  <2>3. Dialogue("ready", cur[c], "top", loc[c], <<>>, <<>>)
    BY DialogueBegins
  <2>4. Slides("top", loc[c], pc[c], loc[c]) /\ pc[c] \notin Fetching
    BY <2>2, Sliding, ReplyPlaces DEF Replied
  <2>5. Dialogue("ready", cur[c], pc[c], loc[c], <<>>, <<>>)
    BY <2>3, <2>4, DialogueSlides
  <2> QED
    BY <1>0, <2>1, <2>2, <2>5 DEF DialogueOf
<1>6. ~NoticeDown(c) /\ ~Depart(c)
  <2>1. \A how \in {"closed"} \cup Departures : how \notin {"ready", "half", "wait"}
    BY ServerAssumption
  <2> QED
    BY <1>1, <2>1 DEF NoticeDown, Depart, Connected
<1> QED
  BY <1>2, <1>3, <1>4, <1>5, <1>6 DEF Client

\* The clients keep the dialogue.
LEMMA ReplyClient ==
  ASSUME ReplyInv, LineInv', NEW c \in Clients, Client(c)
  PROVE  ReplyInv'
<1>0. UNCHANGED <<main, g_stTestHdr, pc, loc>> /\ TypeOK
  BY DEF Client, Connect, SendHdr, SendPayload, TakeReply, NoticeDown, Depart, threadVars,
     ReplyInv, LineInv, OwnInv
<1>1. /\ outq'[c] = outq[c] \/ outq'[c] = <<>>
      /\ \A u \in Clients \ {c} : /\ cl'[u] = cl[u] /\ cur'[u] = cur[u]
                                  /\ inq'[u] = inq[u] /\ outq'[u] = outq[u]
  BY <1>0 DEF Client, Connect, SendHdr, SendPayload, TakeReply, NoticeDown, Depart, TypeOK
<1>2. cl'[c] # "off" /\ (cl'[c] = "half" => cur'[c] \in Requests)
  <2>1. /\ cl \in [Clients -> {"off", "ready", "half", "wait", "closed", "hungup", "reset"}]
        /\ cur \in [Clients -> Requests \cup {NoRequest}]
    BY <1>0 DEF TypeOK
  <2>2. CASE SendHdr(c)
    BY <2>1, <2>2 DEF SendHdr
  <2>3. CASE Connect(c) \/ SendPayload(c) \/ TakeReply(c) \/ NoticeDown(c)
    BY <2>1, <2>3 DEF Connect, SendPayload, TakeReply, NoticeDown
  <2>4. CASE Depart(c)
    <3>1. \A how \in Departures : how \notin {"off", "half"}
      BY ServerAssumption
    <3> QED
      BY <2>1, <2>4, <3>1 DEF Depart
  <2> QED
    BY <2>2, <2>3, <2>4 DEF Client
<1>3. \A u \in Clients : Framed(outq'[u])
  <2>1. Framed(<<>>)
    BY DEF Framed
  <2> QED
    BY <1>1, <2>1 DEF ReplyInv
<1> SUFFICES ASSUME Running', NEW u \in Clients
             PROVE  /\ cl'[u] = "off" => outq'[u] = <<>>
                    /\ cl'[u] = "half" => cur'[u] \in Requests
                    /\ Connected(u)' => DialogueOf(u)'
                    /\ pc'[u] = "gsend" => g_stTestHdr'.dlen = loc'[u].reply
  BY <1>3 DEF ReplyInv
<1>4. Running
  BY <1>0 DEF Running
<1>5. CASE u = c
  BY <1>0, <1>2, <1>4, <1>5, DialogueOfClient DEF ReplyInv
<1>6. CASE u # c
  BY <1>0, <1>1, <1>4, <1>6 DEF ReplyInv, DialogueOf, Connected
<1> QED
  BY <1>5, <1>6

\* ReplyInv is inductive.
LEMMA ReplyStep == MaxLive <= 1 /\ ReplyInv /\ NoTorn' /\ [Next]_vars => ReplyInv'
<1> SUFFICES ASSUME MaxLive <= 1, ReplyInv, NoTorn', [Next]_vars PROVE ReplyInv'
  OBVIOUS
<1>1. LineInv /\ LineInv'
  BY LineStep DEF ReplyInv
<1>2. CASE Server_dealClientReq
  BY <1>1, <1>2, ReplyAcceptor
<1>3. CASE \E t \in Clients : Thread(t)
  <2>1. PICK t \in Clients : Thread(t)
    BY <1>3
  <2>2. KeepsOwn(t) /\ Running /\ KeepsLine(t) /\ ~RecvPiece(t)
    BY <1>1, <2>1, OwnThread, LineEveryStep DEF LineInv
  <2> QED
    BY <1>1, <2>1, <2>2, ReplyEveryStep, ReplyThread
<1>4. CASE \E c \in Clients : Client(c)
  BY <1>1, <1>4, ReplyClient
<1>5. CASE UNCHANGED vars
  BY <1>1, <1>5 DEF ReplyInv, DialogueOf, Connected, Running, vars, threadVars, clientVars
<1> QED
  BY <1>2, <1>3, <1>4, <1>5 DEF Next

\* The server starts so, with nobody connected.
LEMMA ReplyInit == Init => ReplyInv
<1> SUFFICES ASSUME Init PROVE ReplyInv
  OBVIOUS
<1>1. LineInv
  BY LineInit
<1>2. \A c \in Clients : cl[c] = "off" /\ pc[c] = "none" /\ outq[c] = <<>>
  BY DEF Init
<1>3. Framed(<<>>)
  BY DEF Framed
<1> QED
  BY <1>1, <1>2, <1>3 DEF ReplyInv, Connected

\* One client at a time, as long as every header came whole: every body a client gets
\* follows a header that announces its length, although the handler builds that
\* header in the shared g_stTestHdr.
THEOREM ReplyFramedSafe ==
  ASSUME MaxLive <= 1
  PROVE  Spec => [](NoTorn => ReplyFramed)
<1> DEFINE WholeInv == TypeOK /\ (NoTorn => ReplyInv)
<1>1. ReplyInv => ReplyFramed
  BY DEF ReplyInv, ReplyFramed, Framed
<1>2. Init => WholeInv
  BY ReplyInit, TypeInit
<1>3. WholeInv /\ [Next]_vars => WholeInv'
  BY TypeNext, WholeBefore, ReplyStep
<1> HIDE DEF WholeInv
<1>4. WholeInv /\ NoTorn => ReplyInv
  BY DEF WholeInv
<1> QED
  BY <1>1, <1>2, <1>3, <1>4, PTL DEF Spec

-----------------------------------------------------------------------------
(* The payload as it lies in the buffer.                                   *)

\* where a thread receives a payload or has what it got of one
Receiving == Getting \cup Whole \cup {"datadown"}

\* A thread at q with locals l has a buffer of the size its codec declares.  When
\* the buffer holds as many cells as were received, they came in one piece and lie
\* in the order of the request; and what came is never lost entirely.
Pieces(q, l) ==
    /\ q \in Receiving =>
         /\ l.got # 0 => l.buf # <<>>
         /\ Len(l.buf) = l.got =>
              \A r \in Requests : l.own = HdrOf(r) =>
                \A i \in 1..l.got : l.buf[i] = PayCell(r, i)
    /\ q \in {"need"} \cup Receiving =>
         l.size = IF l.mod = "TLV" THEN BufRoom ELSE l.own.dlen
    /\ q = "size" => l.mod # "TLV"

PiecesInv ==
    /\ LineInv
    /\ Running => \A t \in Clients : Pieces(pc[t], loc[t])

\* Requests differ in their headers.
LEMMA HeadersDiffer ==
  \A r, x \in Requests : HdrOf(r) = HdrOf(x) => r = x
<1> SUFFICES ASSUME NEW r \in Requests, NEW x \in Requests, HdrOf(r) = HdrOf(x)
             PROVE  r = x
  OBVIOUS
<1>1. r \in [mod : Mods, cmd : Cmds, dlen : Nat] /\ x \in [mod : Mods, cmd : Cmds, dlen : Nat]
  BY ServerAssumption
<1>2. r.mod = x.mod /\ r.cmd = x.cmd /\ r.dlen = x.dlen
  BY DEF HdrOf
<1> QED
  BY <1>1, <1>2

\* The places apart from the ones Pieces speaks of.
LEMMA PiecesPlaces ==
  /\ \A q \in {"none", "top", "done", "endclose", "errclose", "hdrdown", "copy", "ver", "len",
               "cmd", "mod"} \cup Fresh \cup Decoded :
       q \notin Receiving \cup {"need", "size"} /\ \A l : Pieces(q, l)
  /\ "need" \notin Receiving /\ "size" \notin Receiving
  /\ Receiving = {"dcall", "data", "check", "decode", "datadown"}
BY DEF Pieces, Receiving, Getting, Whole, Fresh, Decoded

\* A first piece fills the buffer in order; a second one is laid over the first.
LEMMA OverlayPieces ==
  ASSUME NEW buf \in Seq(Cells), NEW s \in Seq(Cells), NEW n \in 1..Len(s),
         NEW g \in Nat, Len(buf) <= g
  PROVE  LET u == Overlay(buf, SubSeq(s, 1, n)) IN
         /\ u # <<>>
         /\ Len(u) = g + n => g = 0 /\ \A i \in 1..n : u[i] = s[i]
<1> DEFINE u == Overlay(buf, SubSeq(s, 1, n))
<1>1. Len(s) \in Nat /\ Len(buf) \in Nat /\ n \in Nat /\ n > 0
  BY LenProperties
<1>2. /\ Len(u) = IF n < Len(buf) THEN Len(buf) ELSE n
      /\ \A i \in 1..Len(u) : u[i] = IF i <= n THEN s[i] ELSE buf[i]
  BY OverlayParts
<1> HIDE DEF u
<1>3. Len(u) > 0 /\ n <= Len(u) /\ (Len(u) = g + n => g = 0)
  BY <1>1, <1>2
<1>4. u # <<>>
  BY <1>3, EmptySeq
<1>5. \A i \in 1..n : i \in 1..Len(u) /\ i <= n
  BY <1>1, <1>2
<1>6. \A i \in 1..n : u[i] = s[i]
  BY <1>2, <1>5
<1> QED
  BY <1>3, <1>4, <1>6 DEF u

\* What a recv() of n cells leaves in the buffer.
LEMMA PiecesRecvData ==
  ASSUME PiecesInv, Running, Running', NEW t \in Clients, RecvData(t)
  PROVE  Pieces(pc'[t], loc'[t])
<1>0. /\ LineInv /\ TypeOK /\ loc \in [Clients -> Locals] /\ loc[t] \in Locals
      /\ inq[t] \in Seq(Cells) /\ FramedInv(t) /\ HeldInv(t)
      /\ Own(pc[t], loc[t], g_stTestHdr) /\ Pieces(pc[t], loc[t])
  BY LineFacts DEF PiecesInv
<1>1. pc[t] = "data"
  BY DEF RecvData
<1>2. loc[t].sock.who = t
  BY <1>0, <1>1, EntriesDiffer DEF HeldInv
<1> DEFINE s == inq[t]
           l == loc[t]
           buf(n) == Overlay(l.buf, SubSeq(s, 1, n))
<1>3. PICK n \in 1..Len(s) :
        /\ n <= l.need - l.got
        /\ loc' = [loc EXCEPT ![t] = [l EXCEPT !.got = l.got + n, !.buf = buf(n)]]
        /\ Goto(t, IF l.got + n = l.need THEN "check" ELSE "dcall") \/ Die
  BY <1>2 DEF RecvData
<1>4. pc'[t] \in {"check", "dcall"}
  <2>1. ~Die
    BY <1>0, DieEnds DEF Running
  <2> QED
    BY <1>0, <1>3, <2>1, GotoThere
<1>5. /\ loc'[t].own = l.own /\ loc'[t].mod = l.mod /\ loc'[t].size = l.size
      /\ loc'[t].got = l.got + n /\ loc'[t].buf = buf(n)
  <2> HIDE DEF buf
  <2>1. \A v, w : LET m == [l EXCEPT !.got = v, !.buf = w] IN
          m.own = l.own /\ m.mod = l.mod /\ m.size = l.size /\ m.got = v /\ m.buf = w
    BY <1>0 DEF Locals
  <2>2. loc'[t] = [l EXCEPT !.got = l.got + n, !.buf = buf(n)]
    BY <1>0, <1>3
  <2> QED
    BY <2>1, <2>2
<1>6. ~Lost(pc[t], l) /\ FrameOf(t)
  <2>1. ~Lost(pc[t], l)
    BY <1>1 DEF Lost
  <2> QED
    BY <1>0, <1>1, <2>1 DEF FramedInv, Getting
<1>7. PICK r \in Requests \cup {NoRequest}, p \in Nat :
        Stream(r, p, inq[t]) /\ Placed(pc[t], loc[t], r, p)
  BY <1>6 DEF FrameOf
<1>8. /\ r \in Requests /\ l.own = HdrOf(r) /\ p = l.got /\ BufOf(l, r)
      /\ l.need = r.dlen
  <2>1. l.need = l.own.dlen
    BY <1>0, <1>1, OwnPlaces DEF Own
  <2> QED
    BY <1>1, <1>7, <2>1, HdrOfFields DEF Placed, Getting
<1>9. /\ l.need \in Nat /\ l.got \in Nat /\ l.buf \in Seq(Cells) /\ Len(s) \in Nat
      /\ n \in Nat
  BY <1>0, Lookups, LenProperties
<1>10. \A i \in 1..n : s[i] = PayCell(r, p + i)
  <2>1. Stream(r, p, s) /\ s \in Seq(Cells) /\ n \in 1..Len(s) /\ p + n <= r.dlen
    BY <1>0, <1>3, <1>7, <1>8, <1>9
  <2> HIDE DEF s
  <2> QED
    BY <2>1, StreamCells
<1>11. /\ buf(n) # <<>>
       /\ Len(buf(n)) = l.got + n => l.got = 0 /\ \A i \in 1..n : buf(n)[i] = s[i]
  <2> DEFINE b == l.buf
             g == l.got
  <2>1. b \in Seq(Cells) /\ g \in Nat /\ s \in Seq(Cells) /\ n \in 1..Len(s) /\ Len(b) <= g
    BY <1>0, <1>8, <1>9 DEF BufOf
  <2>2. buf(n) = Overlay(b, SubSeq(s, 1, n))
    OBVIOUS
  <2> HIDE DEF b, g, s, buf
  <2>3. LET u == Overlay(b, SubSeq(s, 1, n)) IN
        u # <<>> /\ (Len(u) = g + n => g = 0 /\ \A i \in 1..n : u[i] = s[i])
    BY <2>1, OverlayPieces
  <2> QED
    BY <2>2, <2>3 DEF g
<1> HIDE DEF buf
<1>12. ASSUME Len(buf(n)) = l.got + n, NEW x \in Requests, l.own = HdrOf(x),
              NEW i \in 1..l.got + n
       PROVE  buf(n)[i] = PayCell(x, i)
  <2>1. x = r
    BY <1>8, <1>12, HeadersDiffer
  <2>2. l.got = 0 /\ i \in 1..n /\ p + i = i
    BY <1>8, <1>9, <1>11, <1>12
  <2> QED
    BY <1>10, <1>11, <1>12, <2>1, <2>2
<1>13. /\ loc'[t].buf # <<>>
       /\ Len(loc'[t].buf) = loc'[t].got =>
            \A x \in Requests : loc'[t].own = HdrOf(x) =>
              \A i \in 1..loc'[t].got : loc'[t].buf[i] = PayCell(x, i)
  BY <1>5, <1>11, <1>12
<1>14. loc'[t].size = IF loc'[t].mod = "TLV" THEN BufRoom ELSE loc'[t].own.dlen
  <2>1. l.size = IF l.mod = "TLV" THEN BufRoom ELSE l.own.dlen
    BY <1>0, <1>1, PiecesPlaces DEF Pieces
  <2> QED
    BY <1>5, <2>1
<1> QED
  BY <1>4, <1>13, <1>14 DEF Pieces

\* The codec is chosen and its buffer declared.
LEMMA PiecesChosen ==
  ASSUME PiecesInv, Running, NEW t \in Clients, TestModule(t) \/ SizeBuf(t) \/ ReadNeed(t)
  PROVE  Pieces(pc'[t], loc'[t])
<1>0. /\ TypeOK /\ loc \in [Clients -> Locals] /\ loc[t] \in Locals
      /\ Own(pc[t], loc[t], g_stTestHdr) /\ Started(pc[t], loc[t]) /\ Pieces(pc[t], loc[t])
  BY LineFacts DEF PiecesInv
<1>1. CASE TestModule(t)
  <2> DEFINE k == loc[t].k
  <2>1. pc[t] = "mod" /\ \A l : Pieces("mod", l) /\ Pieces("top", l)
    BY <1>1, PiecesPlaces DEF TestModule
  <2>2. CASE /\ loc' = [loc EXCEPT ![t] = [@ EXCEPT !.mod = ModOrder[k], !.size = BufRoom]]
             /\ Goto(t, IF ModOrder[k] = "TLV" THEN "need" ELSE "size")
    <3>1. loc'[t] = [loc[t] EXCEPT !.mod = ModOrder[k], !.size = BufRoom]
      BY <1>0, <2>2
    <3>2. loc'[t].mod = ModOrder[k] /\ loc'[t].size = BufRoom
      BY <1>0, <3>1 DEF Locals
    <3>3. pc'[t] = IF ModOrder[k] = "TLV" THEN "need" ELSE "size"
      BY <1>0, <2>2, GotoThere
    <3>4. "need" \notin Receiving /\ "size" \notin {"need"} \cup Receiving
      BY PiecesPlaces
    <3> QED
      BY <3>2, <3>3, <3>4 DEF Pieces
  <2>3. CASE UNCHANGED pc \/ Goto(t, "top")
    <3>1. pc'[t] \in {"mod", "top"}
      BY <1>0, <2>1, <2>3, GotoThere
    <3> QED
      BY <2>1, <3>1
  <2> QED
    BY <1>1, <2>2, <2>3 DEF TestModule
<1>2. CASE SizeBuf(t)
  <2>1. pc[t] = "size" /\ pc'[t] = "need" /\ loc' = [loc EXCEPT ![t]["size"] = g_stTestHdr.dlen]
    BY <1>0, <1>2, GotoThere DEF SizeBuf, SetLoc
  <2>2. loc'[t] = [loc[t] EXCEPT !["size"] = g_stTestHdr.dlen]
    BY <1>0, <2>1
  <2>3. /\ loc'[t].size = g_stTestHdr.dlen
        /\ loc'[t].mod = loc[t].mod /\ loc'[t].own = loc[t].own
    BY <1>0, <2>2 DEF Locals
  <2>4. loc[t].mod # "TLV" /\ g_stTestHdr = loc[t].own
    BY <1>0, <2>1 DEF Pieces, Own, Relying
  <2>5. "need" \notin Receiving
    BY PiecesPlaces
  <2> QED
    BY <2>1, <2>3, <2>4, <2>5 DEF Pieces
<1>3. CASE ReadNeed(t)
  <2>1. pc[t] = "need" /\ loc' = [loc EXCEPT ![t]["need"] = g_stTestHdr.dlen]
    BY <1>3 DEF ReadNeed, SetLoc
  <2>2. pc'[t] \in {"check", "dcall"}
    BY <1>0, <1>3, GotoThere DEF ReadNeed
  <2>3. loc'[t] = [loc[t] EXCEPT !["need"] = g_stTestHdr.dlen]
    BY <1>0, <2>1
  <2>4. /\ loc'[t].size = loc[t].size /\ loc'[t].got = loc[t].got
        /\ loc'[t].mod = loc[t].mod /\ loc'[t].own = loc[t].own
    BY <1>0, <2>3 DEF Locals
  <2>5. loc[t].got = 0
    BY <1>0, <2>1 DEF Started, GotHdr
  <2>6. loc[t].size = IF loc[t].mod = "TLV" THEN BufRoom ELSE loc[t].own.dlen
    BY <1>0, <2>1 DEF Pieces
  <2>7. 1..0 = {}
    OBVIOUS
  <2> QED
    BY <2>2, <2>4, <2>5, <2>6, <2>7 DEF Pieces
<1> QED
  BY <1>1, <1>2, <1>3

\* The rest of the way from the header to the decoded request.
LEMMA PiecesRequest ==
  ASSUME PiecesInv, Running, Running', NEW t \in Clients, RecvRequest(t)
  PROVE  Pieces(pc'[t], loc'[t])
<1>0. /\ TypeOK /\ loc \in [Clients -> Locals] /\ loc[t] \in Locals /\ Pieces(pc[t], loc[t])
  BY LineFacts DEF PiecesInv
<1>1. CASE Call(t, "dcall", "data")
  <2>1. pc[t] = "dcall" /\ pc'[t] = "data"
    BY <1>0, <1>1, GotoThere DEF Call
  <2>2. loc'[t] = [loc[t] EXCEPT !["sock"] = fdTable[connFd[t]]]
    BY <1>0, <1>1 DEF Call, SetLoc
  <2>3. /\ loc'[t].size = loc[t].size /\ loc'[t].got = loc[t].got /\ loc'[t].buf = loc[t].buf
        /\ loc'[t].mod = loc[t].mod /\ loc'[t].own = loc[t].own
    BY <1>0, <2>2 DEF Locals
  <2>4. "dcall" \in Receiving
    BY PiecesPlaces
  <2> QED
    BY <1>0, <2>1, <2>3, <2>4 DEF Pieces
<1>2. CASE DataDown(t) \/ CheckData(t)
  <2>1. pc[t] \in {"datadown", "check"} /\ UNCHANGED loc
    BY <1>2 DEF DataDown, CheckData
  <2>2. pc'[t] \in {"decode", "endclose"}
    BY <1>0, <1>2, GotoThere DEF DataDown, CheckData, CloseFd
  <2>3. Pieces("endclose", loc'[t])
    BY PiecesPlaces
  <2>4. pc[t] \in Receiving
    BY <2>1, PiecesPlaces
  <2> QED
    BY <1>0, <2>1, <2>2, <2>3, <2>4 DEF Pieces
<1>3. CASE Decode(t)
  <2>1. \E p \in {"set", "get", "list", "lend", "endclose"} : Goto(t, p)
    <3>1. ~Die
      BY <1>0, DieEnds DEF Running
    <3> QED
      BY <1>3, <3>1 DEF Decode, HandlerPc
  <2>2. pc'[t] \in {"set", "get", "list", "lend", "endclose"}
    BY <1>0, <2>1, GotoThere
  <2> QED
    BY <2>2, PiecesPlaces DEF Decoded
<1> QED
  BY <1>1, <1>2, <1>3, PiecesRecvData, PiecesChosen DEF RecvRequest

\* A handler goes on within itself, to the next header or to the end.
LEMMA HandlerPlaces ==
  ASSUME LineInv, Running, Running', NEW t \in Clients, ListFile(t) \/ GetFile(t) \/ SetFile(t)
  PROVE  pc[t] \in Decoded /\ pc'[t] \in Decoded \cup {"top", "endclose"}
<1>0. TypeOK /\ ~Die
  <2>1. TypeOK
    BY DEF LineInv, OwnInv
  <2> QED
    BY <2>1, DieEnds DEF Running
<1>1. ASSUME NEW from, NEW p, Opens(t, from, p) \/ CloseFile(t, from, p)
      PROVE  pc[t] = from /\ pc'[t] = p
  BY <1>0, <1>1, GotoThere DEF Opens, CloseFile, CloseFd
<1>2. ASSUME NEW from, NEW mayFail, OpenFails(t, from, mayFail)
      PROVE  pc[t] = from /\ pc'[t] = "endclose"
  BY <1>0, <1>2, GotoThere DEF OpenFails
<1>3. ASSUME NEW from, NEW x, NEW p, NEW q, Send(t, from, x, p, q)
      PROVE  pc[t] = from /\ pc'[t] \in {p, q}
  BY <1>0, <1>3, GotoThere DEF Send, SigPipe
<1>4. CASE ListFile(t)
  <2>1. /\ pc[t] \in {"list", "names", "lclose", "lend"}
        /\ pc'[t] \in {"names", "lclose", "lend", "top", "endclose"}
    <3>1. CASE OpenDir(t)
      BY <1>1, <1>2, <3>1 DEF OpenDir
    <3>2. CASE SendName(t)
      BY <1>3, <3>2 DEF SendName
    <3>3. CASE NoName(t)
      BY <1>0, <3>3, GotoThere DEF NoName
    <3>4. CASE CloseDir(t)
      BY <1>1, <3>4 DEF CloseDir
    <3>5. CASE SendEnd(t)
      BY <1>3, <3>5 DEF SendEnd
    <3> QED
      BY <1>4, <3>1, <3>2, <3>3, <3>4, <3>5 DEF ListFile
  <2> QED
    BY <2>1 DEF Decoded
<1>5. CASE GetFile(t)
  <2>1. /\ pc[t] \in {"get", "gread", "ghdr", "glen", "gsend", "gbody", "gclose"}
        /\ pc'[t] \in {"gread", "spin", "ghdr", "glen", "gsend", "gbody", "gclose", "top",
                       "endclose"}
    <3>1. CASE OpenFile(t)
      BY <1>1, <1>2, <3>1 DEF OpenFile
    <3>2. CASE ReadFile(t)
      <4>1. pc[t] = "gread" /\ \E p \in {"ghdr", "endclose", "spin"} : Goto(t, p)
        BY <3>2 DEF ReadFile
      <4> QED
        BY <1>0, <4>1, GotoThere
    <3>3. CASE StartReplyHdr(t) \/ FillReplyHdr(t)
      BY <1>0, <3>3, GotoThere DEF StartReplyHdr, FillReplyHdr
    <3>4. CASE SendReplyHdr(t)
      BY <1>3, <3>4 DEF SendReplyHdr
    <3>5. CASE SendBody(t)
      BY <1>3, <3>5 DEF SendBody
    <3>6. CASE CloseGot(t)
      BY <1>0, <1>1, <3>6, GotoThere DEF CloseGot
    <3> QED
      BY <1>5, <3>1, <3>2, <3>3, <3>4, <3>5, <3>6 DEF GetFile
  <2> QED
    BY <2>1 DEF Decoded
<1>6. CASE SetFile(t)
  <2>1. pc[t] \in {"set", "write", "sclose"} /\ pc'[t] \in {"write", "sclose", "top", "endclose"}
    <3>1. CASE CreateFile(t)
      BY <1>0, <1>1, <1>2, <3>1, GotoThere DEF CreateFile
    <3>2. CASE WriteFile(t)
      <4>1. pc[t] = "write" /\ \E p \in {"sclose", "endclose"} : Goto(t, p)
        BY <1>0, <3>2 DEF WriteFile, SigPipe
      <4> QED
        BY <1>0, <4>1, GotoThere
    <3>3. CASE CloseWritten(t)
      BY <1>1, <3>3 DEF CloseWritten
    <3> QED
      BY <1>6, <3>1, <3>2, <3>3 DEF SetFile
  <2> QED
    BY <2>1 DEF Decoded
<1> QED
  BY <1>4, <1>5, <1>6

\* Every other step leads to where no payload is at hand, or leaves it.
LEMMA PiecesThread ==
  ASSUME PiecesInv, Running, Running', NEW t \in Clients, Thread(t), ~RecvPiece(t)
  PROVE  Pieces(pc'[t], loc'[t])
<1>0. TypeOK /\ LineInv /\ Pieces(pc[t], loc[t])
  BY LineFacts DEF PiecesInv
<1>1. CASE RecvHeader(t)
  <2>1. \/ UNCHANGED pc /\ pc[t] = "cmd"
        \/ \E p \in {"hcall", "recv", "copy", "ver", "len", "cmd", "mod", "top", "endclose",
                     "done"} : Goto(t, p)
    <3>1. CASE Top(t) \/ Call(t, "hcall", "recv") \/ RecvHdr(t) \/ CopyCmd(t)
      BY <3>1 DEF Top, Call, RecvHdr, CopyCmd
    <3>2. CASE HdrDown(t) \/ CheckVersion(t) \/ CheckLen(t)
      BY <3>2 DEF HdrDown, CloseFd, CheckVersion, CheckLen
    <3>3. CASE TestCmd(t)
      <4>1. pc[t] = "cmd" /\ (UNCHANGED pc \/ \E p \in {"endclose", "mod", "top"} : Goto(t, p))
        BY <3>3 DEF TestCmd
      <4> QED
        BY <4>1
    <3> QED
      BY <1>1, <3>1, <3>2, <3>3 DEF RecvHeader
  <2>2. pc'[t] \in {"hcall", "recv", "copy", "ver", "len", "cmd", "mod", "top", "endclose", "done"}
    BY <1>0, <2>1, GotoThere
  <2> QED
    BY <2>2, PiecesPlaces DEF Fresh
<1>2. CASE RecvEnds(t)
  <2>1. pc[t] \in {"recv", "data"} /\ UNCHANGED loc
    BY <1>2 DEF RecvEnds
  <2>2. /\ pc'[t] \in {"hdrdown", "datadown", "errclose"}
        /\ pc'[t] = "datadown" => pc[t] = "data"
    BY <1>0, <1>2, <2>1, GotoThere DEF RecvEnds
  <2>3. \A l : Pieces("hdrdown", l) /\ Pieces("errclose", l)
    BY PiecesPlaces
  <2>4. "data" \in Receiving
    BY PiecesPlaces
  <2> QED
    BY <1>0, <2>1, <2>2, <2>3, <2>4 DEF Pieces
<1>3. CASE ErrClose(t) \/ EndClose(t)
  <2>1. pc'[t] \in {"endclose", "done"}
    BY <1>0, <1>3, GotoThere DEF ErrClose, EndClose, CloseFd
  <2> QED
    BY <2>1, PiecesPlaces
<1>4. CASE ListFile(t) \/ GetFile(t) \/ SetFile(t)
  <2>1. pc'[t] \in Decoded \cup {"top", "endclose"}
    BY <1>0, <1>4, HandlerPlaces
  <2> QED
    BY <2>1, PiecesPlaces
<1> QED
  BY <1>1, <1>2, <1>3, <1>4, PiecesRequest DEF Thread

\* PiecesInv is inductive.
LEMMA PiecesStep == MaxLive <= 1 /\ PiecesInv /\ NoTorn' /\ [Next]_vars => PiecesInv'
<1> SUFFICES ASSUME MaxLive <= 1, PiecesInv, NoTorn', [Next]_vars, Running', NEW u \in Clients
             PROVE  Pieces(pc'[u], loc'[u])
  BY LineStep DEF PiecesInv
<1>0. LineInv /\ TypeOK /\ loc \in [Clients -> Locals]
  BY DEF PiecesInv, LineInv, OwnInv, TypeOK
<1>1. CASE Server_dealClientReq
  <2>1. UNCHANGED loc /\ (UNCHANGED pc \/ pc' = [pc EXCEPT ![main.who] = "top"])
    BY <1>1 DEF Server_dealClientReq, EnterAccept, Accept, Spawn, SpawnFails, threadVars
  <2>2. pc'[u] = pc[u] \/ pc'[u] = "top"
    BY <1>0, <2>1 DEF TypeOK
  <2>3. Running
    BY <1>0, <1>1 DEF Server_dealClientReq, EnterAccept, Accept, Spawn, SpawnFails, Running
  <2>4. Pieces("top", loc'[u])
    BY PiecesPlaces
  <2> QED
    BY <2>1, <2>2, <2>3, <2>4 DEF PiecesInv
<1>2. ASSUME NEW t \in Clients, Thread(t) PROVE Pieces(pc'[u], loc'[u])
  <2>1. Running /\ KeepsOwn(t) /\ SoloInv /\ ~RecvPiece(t)
    BY <1>0, <1>2, OwnThread, LineEveryStep DEF Thread, LineInv, OwnInv
  <2>2. CASE u = t
    BY <1>2, <2>1, <2>2, PiecesThread
  <2>3. CASE u # t
    <3>1. pc[u] \in {"none", "done"} /\ pc'[u] = pc[u]
      BY <2>1, <2>3, SoloOthers DEF KeepsOwn, KeepsSolo
    <3> QED
      BY <3>1, PiecesPlaces
  <2> QED
    BY <2>2, <2>3
<1>3. CASE \E c \in Clients : Client(c)
  <2>1. UNCHANGED <<main, pc, loc>>
    BY <1>3 DEF Client, Connect, SendHdr, SendPayload, TakeReply, NoticeDown, Depart, threadVars
  <2> QED
    BY <2>1 DEF PiecesInv, Running
<1>4. CASE UNCHANGED vars
  <2>1. UNCHANGED <<main, pc, loc>>
    BY <1>4 DEF vars, threadVars
  <2> QED
    BY <2>1 DEF PiecesInv, Running
<1> QED
  BY <1>1, <1>2, <1>3, <1>4 DEF Next

\* The server starts so, with no thread.
LEMMA PiecesInit == Init => PiecesInv
<1> SUFFICES ASSUME Init PROVE PiecesInv
  OBVIOUS
<1>1. \A t \in Clients : pc[t] = "none"
  BY DEF Init
<1> QED
  BY <1>1, LineInit, PiecesPlaces DEF PiecesInv

-----------------------------------------------------------------------------
(* What can end the process.                                               *)

\* A payload that lies in the buffer in order is the request's.
LEMMA PayloadHeld ==
  ASSUME NEW buf \in Seq(Cells), NEW r \in Requests, r.dlen > 0, Len(buf) = r.dlen,
         \A i \in 1..r.dlen : buf[i] = PayCell(r, i)
  PROVE  Holds(buf, r)
<1> DEFINE n == r.dlen
           u == SubSeq(buf, 1, n)
<1>1. n \in Nat /\ Payload(r) \in Seq(Cells) /\ Len(Payload(r)) = n
      /\ \A i \in 1..n : Payload(r)[i] = PayCell(r, i)
  BY StreamTypes
<1>2. n > 0 /\ Len(buf) = n /\ \A i \in 1..n : buf[i] = PayCell(r, i)
  OBVIOUS
<1>3. \A i \in 1..n : buf[i] \in Cells
  BY <1>2, ElementOfSeq
<1> HIDE DEF n
<1>4. u \in Seq(Cells) /\ Len(u) = n /\ \A i \in 1..n : u[i] = buf[i]
  <2>1. /\ SubSeq(buf, 1, n) \in Seq(Cells)
        /\ Len(SubSeq(buf, 1, n)) = IF 1 <= n THEN n - 1 + 1 ELSE 0
        /\ \A i \in 1..n - 1 + 1 : SubSeq(buf, 1, n)[i] = buf[1 + i - 1]
    BY <1>1, <1>3, SubSeqProperties
  <2>2. \A i \in 1..n : i \in 1..n - 1 + 1 /\ 1 + i - 1 = i
    BY <1>1
  <2> QED
    BY <1>1, <1>2, <2>1, <2>2
<1> HIDE DEF u
<1>5. u = Payload(r)
  BY <1>1, <1>2, <1>4, SeqEqual
<1> QED
  BY <1>2, <1>5 DEF Holds, u, n

\* A recv() that overruns its buffer is one of TLV, whose buffer has a fixed size.
LEMMA EndsInData ==
  ASSUME PiecesInv, Running, ~Running', NEW t \in Clients, RecvData(t)
  PROVE  EndReason
<1>0. /\ LineInv /\ TypeOK /\ loc[t] \in Locals
      /\ Own(pc[t], loc[t], g_stTestHdr) /\ Pieces(pc[t], loc[t])
  BY LineFacts DEF PiecesInv
<1>1. pc[t] = "data" /\ ~UNCHANGED main
  BY DEF RecvData, Running
<1> DEFINE l == loc[t]
<1>2. PICK n \in 1..Len(inq[loc[t].sock.who]) : n <= l.need - l.got /\ n > l.size
  BY <1>1 DEF RecvData
<1>3. l.need \in Nat /\ l.got \in Nat /\ n \in Int /\ l.size \in Nat
  BY <1>0, <1>2, Lookups
<1>4. l.mod = l.own.mod /\ l.need = l.own.dlen
  BY <1>0, <1>1, OwnPlaces DEF Own
<1>5. l.size = IF l.mod = "TLV" THEN BufRoom ELSE l.own.dlen
  BY <1>0, <1>1, PiecesPlaces DEF Pieces
<1> HIDE DEF l
<1>6. l.size < l.own.dlen
  <2> DEFINE d == l.need
             s == l.size
             g == l.got
  <2>1. d \in Nat /\ g \in Nat /\ n \in Int /\ s \in Nat /\ n <= d - g /\ n > s
    BY <1>2, <1>3
  <2> HIDE DEF d, s, g
  <2>2. s < d
    BY <2>1
  <2> QED
    BY <1>4, <2>2 DEF s, d
<1>7. l.own.mod = "TLV" /\ l.own.dlen > BufRoom
  <2>1. l.own.dlen \in Nat /\ l.size \in Nat
    BY <1>3, <1>4
  <2>2. l.mod = "TLV"
    BY <1>5, <1>6, <2>1
  <2>3. BufRoom \in Nat
    BY ServerAssumption
  <2> QED
    BY <1>4, <1>5, <1>6, <2>1, <2>2, <2>3
<1> QED
  BY <1>1, <1>7 DEF EndReason, l

\* A JSON or TLV request that is there in one piece decodes to itself, in the handler of
\* its own command.
LEMMA EndsInDecode ==
  ASSUME PiecesInv, Running, ~Running', NEW t \in Clients, Decode(t)
  PROVE  EndReason
<1>0. /\ LineInv /\ TypeOK /\ loc[t] \in Locals /\ FramedInv(t)
      /\ Own(pc[t], loc[t], g_stTestHdr) /\ Pieces(pc[t], loc[t])
  BY LineFacts DEF PiecesInv
<1> DEFINE l == loc[t]
           buf == l.buf
<1>1. pc[t] = "decode" /\ ~UNCHANGED main
  BY DEF Decode, Running
<1>2. /\ l.mod \in {"TLV", "JSON"} /\ (l.mod = "JSON" => buf # <<>>)
      /\ \A r \in Requests : Decodes(t, r) => r.cmd = "SET" /\ l.cmd # "SET"
  BY <1>1 DEF Decode
<1>3. /\ g_stTestHdr = l.own /\ l.mod = l.own.mod /\ l.cmd = l.own.cmd
      /\ l.need = l.own.dlen
  BY <1>0, <1>1, OwnPlaces DEF Own
<1>4. l.need \in Nat /\ l.got \in Nat /\ buf \in Seq(Cells) /\ Len(buf) \in Nat
  BY <1>0, Lookups, LenProperties
<1>5. Len(buf) < l.own.dlen \/ l.own.dlen = 0
  <2> SUFFICES ASSUME ~(Len(buf) < l.own.dlen), l.own.dlen # 0
               PROVE  FALSE
    OBVIOUS
  <2>0. l.need <= Len(buf) /\ l.need > 0
    BY <1>3, <1>4
  <2>1. l.got = l.need
    <3> SUFFICES ASSUME l.got # l.need PROVE FALSE
      OBVIOUS
    <3>1. buf = <<>>
      BY <1>0, <1>1 DEF FramedInv, Cut
    <3>2. Len(buf) = 0
      BY <3>1, EmptySeq
    <3> QED
      BY <1>4, <2>0, <3>2
  <2>2. PICK r \in Requests : l.own = HdrOf(r) /\ BufOf(l, r)
    <3>1. ~Lost(pc[t], l)
      BY <1>1, <2>1 DEF Lost
    <3>2. FrameOf(t)
      BY <1>0, <1>1, <3>1 DEF FramedInv, Whole
    <3> QED
      BY <1>1, <3>2 DEF FrameOf, Placed, Whole
  <2>3. l.need = r.dlen /\ r.mod = l.mod /\ r.cmd = l.cmd /\ g_stTestHdr.dlen = r.dlen
    BY <1>3, <2>2 DEF HdrOf
  <2>4. Len(buf) = r.dlen /\ r.dlen > 0 /\ l.got = r.dlen
    <3>1. Len(buf) <= l.got
      BY <2>2 DEF BufOf
    <3> QED
      BY <1>4, <2>0, <2>1, <2>3, <3>1
  <2>5. \A i \in 1..r.dlen : buf[i] = PayCell(r, i)
    <3>1. "decode" \in Receiving
      BY PiecesPlaces
    <3> QED
      BY <1>0, <1>1, <2>2, <2>4, <3>1 DEF Pieces
  <2>6. Holds(buf, r)
    <3> HIDE DEF buf
    <3> QED
      BY <1>4, <2>4, <2>5, PayloadHeld
  <2>7. Decodes(t, r)
    BY <2>3, <2>6 DEF Decodes
  <2> QED
    BY <1>2, <2>3, <2>7
<1>6. l.own.dlen # 0 \/ l.own.mod = "TLV"
  <2> SUFFICES ASSUME l.own.dlen = 0, l.own.mod = "JSON" PROVE FALSE
    BY <1>2, <1>3
  <2>1. l.need = 0 /\ buf # <<>>
    BY <1>2, <1>3
  <2>2. l.got = 0
    BY <1>0, <1>1, <2>1 DEF FramedInv, Cut
  <2>3. Len(buf) <= 0
    <3>1. ~Lost(pc[t], l)
      BY <1>1, <2>1, <2>2 DEF Lost
    <3>2. FrameOf(t)
      BY <1>0, <1>1, <3>1 DEF FramedInv, Whole
    <3> QED
      BY <1>1, <2>2, <3>2 DEF FrameOf, Placed, Whole, BufOf
  <2> HIDE DEF buf
  <2> QED
    BY <1>4, <2>1, <2>3, EmptySeq
<1>7. l.own.mod # "PROTO"
  BY <1>2, <1>3
<1> QED
  BY <1>1, <1>5, <1>6, <1>7 DEF EndReason, InPieces

\* A handler that ends the process sends to a client that has left.
LEMMA EndsInHandler ==
  ASSUME LineInv, Running, ~Running', NEW t \in Clients, ListFile(t) \/ GetFile(t) \/ SetFile(t)
  PROVE  EndReason
<1>0. TypeOK /\ ~UNCHANGED main
  BY DEF LineInv, OwnInv, Running
<1>1. \/ \E from \in Sending : \E x, p, q : Send(t, from, x, p, q)
      \/ WriteFile(t)
  <2>1. CASE ListFile(t)
    <3>1. SendName(t) \/ SendEnd(t)
      BY <1>0, <2>1 DEF ListFile, OpenDir, Opens, OpenFails, NoName, CloseDir, CloseFile, CloseFd,
                        Private
    <3> QED
      BY <3>1 DEF SendName, SendEnd, Sending
  <2>2. CASE GetFile(t)
    <3>1. SendReplyHdr(t) \/ SendBody(t)
      BY <1>0, <2>2 DEF GetFile, OpenFile, Opens, OpenFails, ReadFile, StartReplyHdr, FillReplyHdr,
                        CloseGot, CloseFile, CloseFd, Private
    <3> QED
      BY <3>1 DEF SendReplyHdr, SendBody, Sending
  <2>3. CASE SetFile(t)
    BY <1>0, <2>3 DEF SetFile, CreateFile, Opens, OpenFails, CloseWritten, CloseFile, CloseFd, Private
  <2> QED
    BY <2>1, <2>2, <2>3
<1>2. CASE WriteFile(t)
  <2>1. pc[t] = "write"
    BY <1>2 DEF WriteFile
  <2>2. fdTable[loc[t].file] = File(t)
    BY <2>1, LineFacts DEF HeldInv, FileHeld
  <2>3. fdTable[loc[t].file].kind # "conn"
    BY <2>2, EntriesDiffer
  <2> QED
    BY <1>0, <1>2, <2>3 DEF WriteFile
<1>3. ASSUME NEW from \in Sending, NEW x, NEW p, NEW q, Send(t, from, x, p, q)
      PROVE  EndReason
  <2>1. pc[t] = from /\ SigPipe(connFd[t])
    BY <1>0, <1>3 DEF Send, Delivers, SendFails
  <2>2. fdTable[connFd[t]] = Conn(t)
    BY <2>1, DecodedFrame, HasConnection DEF Sending, Decoded
  <2>3. cl[t] \in {"hungup", "reset"}
    BY <2>1, <2>2, EntriesDiffer DEF SigPipe
  <2> QED
    BY <2>1, <2>3 DEF EndReason
<1> QED
  BY <1>1, <1>2, <1>3

\* Every step that ends the process has one of the reasons.
LEMMA EndsOnly ==
  ASSUME PiecesInv, Running, Next, ~Running'
  PROVE  EndReason
<1>0. LineInv /\ TypeOK /\ ~UNCHANGED main
  BY DEF PiecesInv, LineInv, OwnInv, Running
<1>1. CASE Server_dealClientReq
  <2>1. ~Accept /\ ~Spawn
    BY <1>0 DEF Accept, Spawn, Running, TypeOK, MainLoop
  <2>2. CASE EnterAccept
    <3>1. main.pc = "loop" /\ NoFreeFd
      BY <1>0, <2>2 DEF EnterAccept, Running, TypeOK, MainLoop
    <3> QED
      BY <3>1 DEF EndReason
  <2>3. CASE SpawnFails
    BY <2>3 DEF SpawnFails, EndReason
  <2> QED
    BY <1>1, <2>1, <2>2, <2>3 DEF Server_dealClientReq
<1>2. ASSUME NEW t \in Clients, Thread(t) PROVE EndReason
  <2>1. CASE RecvHeader(t)
    <3>1. ~RecvPiece(t)
      BY <1>0, Zenon DEF RecvPiece
    <3> QED
      BY <1>0, <2>1, <3>1 DEF RecvHeader, Top, Call, RecvHdr, CopyCmd, HdrDown, CheckVersion,
                              CheckLen, TestCmd, CloseFd, Private
  <2>2. CASE RecvRequest(t)
    <3>1. RecvData(t) \/ Decode(t)
      BY <1>0, <2>2 DEF RecvRequest, TestModule, SizeBuf, ReadNeed, Call, DataDown, CheckData,
                        CloseFd, Private
    <3> QED
      BY <3>1, EndsInData, EndsInDecode
  <2>3. CASE RecvEnds(t) \/ ErrClose(t) \/ EndClose(t)
    BY <1>0, <2>3 DEF RecvEnds, ErrClose, EndClose, CloseFd
  <2> QED
    BY <1>0, <1>2, <2>1, <2>2, <2>3, EndsInHandler DEF Thread
<1>3. ASSUME NEW c \in Clients PROVE ~Client(c)
  BY <1>0 DEF Client, Connect, SendHdr, SendPayload, TakeReply, NoticeDown, Depart
<1> QED
  BY <1>1, <1>2, <1>3 DEF Next

\* One client at a time, as long as every header came whole: nothing a client sends
\* ends the server but a TLV request that is empty or too long and a TLV or JSON one
\* in pieces, and nothing it does but leave before its answer; the rest are
\* descriptors and threads that run out.  server_client_data_deal, PROTO included,
\* survives every other request.
THEOREM EndsForReasonSafe ==
  ASSUME MaxLive <= 1
  PROVE  Spec /\ []NoTorn => EndsForReason
<1>1. PiecesInv /\ [Next]_vars => (Running /\ ~Running' => EndReason)
  <2> SUFFICES ASSUME PiecesInv, [Next]_vars, Running, ~Running' PROVE EndReason
    OBVIOUS
  <2>1. ~UNCHANGED vars
    BY DEF vars, Running
  <2> QED
    BY <2>1, EndsOnly
<1>2. PiecesInv /\ NoTorn' /\ [Next]_vars => PiecesInv'
  BY PiecesStep
<1> QED
  BY <1>1, <1>2, PiecesInit, PTL DEF Spec, EndsForReason

-----------------------------------------------------------------------------
(* What the server survives for good.                                      *)

\* One client at a time, none of which resets its connection; no call fails; nobody
\* asks for a file by JSON, which is never closed; a TLV request is neither empty nor
\* longer than its buffer; and there are descriptors for a connection, a file and the
\* next client.
Staying ==
    /\ MaxLive <= 1 /\ Faults = {} /\ "reset" \notin Departures
    /\ MaxFd >= ListenFd + 3
    /\ \A r \in Requests : /\ r.cmd = "GET" => r.mod # "JSON"
                           /\ r.mod = "TLV" => r.dlen \in 1..BufRoom

\* No client is killed, or at least none has left yet but by EXIT.
Patient == Departures = {} \/ \A c \in Clients : ~LeftEarly(c)

\* What a client that said EXIT, or that found its connection closed, has left on its
\* way to a thread at p with locals l: requests without an answer, and the EXIT.
Leaving(p, l, s) ==
    \/ p \in {"endclose", "done"}
    \/ /\ \A k \in 1..Len(s) : s[k].req.cmd = IF k = Len(s) THEN "EXIT" ELSE "SET"
       /\ p \in GotHdr \cup Getting \cup Whole =>
            l.own.cmd = IF s = <<>> THEN "EXIT" ELSE "SET"
       /\ s = <<>> => p \in {"copy", "ver", "len", "cmd"}
       /\ p \notin Naming \cup Fetching \cup {"gbody"}

\* No client is lost, and one that came is accepted in its turn.
StayAt(c) ==
    /\ cl[c] \notin {"hungup", "reset"}
    /\ pc[c] \notin {"hdrdown", "datadown", "errclose"} /\ ~Lost(pc[c], loc[c])
    /\ cl[c] = "closed" => Leaving(pc[c], loc[c], inq[c])
    /\ cl[c] # "off" /\ pc[c] = "none" =>
         \/ \E i \in DOMAIN backlog : backlog[i] = c
         \/ main.pc = "spawn" /\ main.who = c

StayInv ==
    /\ TidyInv /\ ReplyInv /\ PiecesInv
    /\ Running
    /\ \A c \in Clients : StayAt(c)
    /\ \A f \in Fds : fdTable[f] = Reserved => main.pc = "accept" /\ main.fd = f

\* What is known of a thread.
LEMMA StayFacts ==
  ASSUME StayInv, NEW t \in Clients
  PROVE  /\ LineInv /\ TypeOK /\ SoloInv /\ StayAt(t)
         /\ loc \in [Clients -> Locals] /\ loc[t] \in Locals /\ inq[t] \in Seq(Cells)
         /\ Own(pc[t], loc[t], g_stTestHdr) /\ FramedInv(t) /\ HeldInv(t)
         /\ Pieces(pc[t], loc[t])
         /\ Connected(t) => DialogueOf(t)
         /\ ~Lost(pc[t], loc[t])
BY LineFacts, ReplyFacts DEF StayInv, PiecesInv, StayAt

\* Where a request is being received its header is known, and at its end all of it.
LEMMA StayFrame ==
  ASSUME StayInv, NEW t \in Clients, pc[t] \in GotHdr \cup Getting \cup Whole
  PROVE  \E r \in Requests : /\ loc[t].own = HdrOf(r)
                             /\ pc[t] \in Whole => loc[t].got = loc[t].need
<1>1. FramedInv(t) /\ ~Lost(pc[t], loc[t])
  BY StayFacts
<1>2. FrameOf(t)
  BY <1>1 DEF FramedInv
<1> QED
  BY <1>2 DEF FrameOf, Placed

\* With a connection and a file open there is a descriptor left for the next client.
LEMMA FreeFdLeft ==
  ASSUME Staying, StayInv, main.pc = "loop"
  PROVE  ~NoFreeFd
<1> SUFFICES ASSUME NoFreeFd PROVE FALSE
  OBVIOUS
<1>1. TypeOK /\ TableInv /\ SoloInv /\ Running
  BY DEF StayInv, TidyInv, LineInv, OwnInv
<1>2. {4, 5, 6} \subseteq Fds
  BY ServerAssumption DEF Staying, Fds, ListenFd
<1>3. ASSUME NEW f \in {4, 5, 6}
      PROVE  \E c \in Clients : /\ pc[c] \notin {"none", "done"}
                                /\ f = connFd[c] \/ f = loc[c].file
  <2>1. f \in Fds /\ fdTable[f] \in FdEntry /\ fdTable[f] # FreeFd
    BY <1>1, <1>2, <1>3 DEF NoFreeFd, TypeOK
  <2>2. fdTable[f] # Listener
    <3>1. fdTable[f] = Listener => f = ListenFd
      BY <2>1 DEF StayInv, TidyInv
    <3> QED
      BY <3>1 DEF ListenFd
  <2>3. fdTable[f] # Reserved
    BY <2>1 DEF StayInv
  <2>4. ASSUME NEW c \in Clients, fdTable[f] = Conn(c)
        PROVE  pc[c] \notin {"none", "done"} /\ f = connFd[c]
    BY <1>1, <2>1, <2>4 DEF TableInv
  <2>5. ASSUME NEW c \in Clients, fdTable[f] = File(c)
        PROVE  pc[c] \notin {"none", "done"} /\ f = loc[c].file
    BY <2>1, <2>5, LinePlaces DEF StayInv, TidyInv, TidyAt
  <2> QED
    BY <2>1, <2>2, <2>3, <2>4, <2>5 DEF FdEntry
<1>4. PICK c \in Clients : pc[c] \notin {"none", "done"}
  BY <1>3
<1>5. \A f \in {4, 5, 6} : f = connFd[c] \/ f = loc[c].file
  BY <1>1, <1>3, <1>4, SoloOthers
<1> QED
  BY <1>5

\* None of the reasons to end is there but a payload in pieces.
LEMMA NoReason ==
  ASSUME Staying, StayInv, EndReason
  PROVE  \E t \in Clients : InPieces(t)
<1>1. ~(main.pc = "loop" /\ NoFreeFd) /\ "spawn" \notin Faults
  BY FreeFdLeft DEF Staying
<1>2. ASSUME NEW t \in Clients
      PROVE  cl[t] \notin {"hungup", "reset"}
  BY DEF StayInv, StayAt
<1>3. ASSUME NEW t \in Clients, loc[t].own.mod = "TLV", pc[t] \in {"data", "decode"}
      PROVE  loc[t].own.dlen # 0 /\ ~(loc[t].own.dlen > BufRoom)
  <2>1. PICK r \in Requests : loc[t].own = HdrOf(r)
    BY <1>3, StayFrame DEF Getting, Whole
  <2>2. loc[t].own.dlen = r.dlen /\ r.mod = "TLV"
    BY <1>3, <2>1 DEF HdrOf
  <2>3. r.dlen \in 1..BufRoom
    BY <2>2 DEF Staying
  <2> QED
    BY <2>2, <2>3, ServerAssumption
<1> QED
  BY <1>1, <1>2, <1>3 DEF EndReason

\* Where TLV and JSON come in one cell there is none.
LEMMA NothingInPieces ==
  ASSUME StayInv, \A r \in Requests : r.mod \in {"TLV", "JSON"} => r.dlen = 1,
         NEW t \in Clients
  PROVE  ~InPieces(t)
<1> SUFFICES ASSUME pc[t] = "decode", loc[t].own.mod # "PROTO",
                    Len(loc[t].buf) < loc[t].own.dlen
             PROVE  FALSE
  BY DEF InPieces
<1>1. PICK r \in Requests : /\ loc[t].own = HdrOf(r)
                            /\ pc[t] \in Whole => loc[t].got = loc[t].need
  BY StayFrame DEF Whole
<1>2. loc[t].own.dlen = 1
  <2>1. loc[t].own.dlen = r.dlen /\ loc[t].own.mod = r.mod
    BY <1>1 DEF HdrOf
  <2>2. r.mod \in Mods
    BY ServerAssumption
  <2> QED
    BY <2>1, <2>2 DEF Mods
<1>3. loc[t].got = loc[t].own.dlen
  BY <1>1, StayFacts, OwnPlaces DEF Own, Whole
<1>4. loc[t].buf # <<>> /\ loc[t].buf \in Seq(Cells)
  BY <1>2, <1>3, StayFacts, PiecesPlaces, Lookups DEF Pieces
<1> QED
  BY <1>2, <1>4, EmptySeq, LenProperties

\* A thread that goes on while nothing more comes, at the same request or out of it.
LEMMA LeavingSlides ==
  ASSUME NEW p, NEW l, NEW s, NEW q, NEW m, Leaving(p, l, s), p \notin {"endclose", "done"},
         q \notin Naming \cup Fetching \cup {"gbody"},
         q \in GotHdr \cup Getting \cup Whole =>
            p \in GotHdr \cup Getting \cup Whole /\ m.own = l.own,
         s = <<>> => q \in {"copy", "ver", "len", "cmd"}
  PROVE  Leaving(q, m, s)
BY DEF Leaving

\* The cells a leaving client's thread takes are not the last ones.
LEMMA LeavingRest ==
  ASSUME NEW s \in Seq(Cells), NEW u \in Seq(Cells), NEW n \in 1..Len(s), Rest(u, s, n),
         \A k \in 1..Len(s) : s[k].req.cmd = IF k = Len(s) THEN "EXIT" ELSE "SET"
  PROVE  /\ \A k \in 1..Len(u) : u[k].req.cmd = IF k = Len(u) THEN "EXIT" ELSE "SET"
         /\ s[n].req.cmd = IF u = <<>> THEN "EXIT" ELSE "SET"
<1>1. /\ Len(s) \in Nat /\ Len(u) \in Nat /\ n \in Nat /\ Len(u) = Len(s) - n
      /\ \A k \in 1..Len(u) : u[k] = s[n + k]
  BY LenProperties DEF Rest
<1>2. \A k \in 1..Len(u) : n + k \in 1..Len(s) /\ (n + k = Len(s) <=> k = Len(u))
  BY <1>1
<1>3. u = <<>> <=> n = Len(s)
  BY <1>1, EmptySeq
<1> QED
  BY <1>1, <1>2, <1>3

\* Receiving and checking a header.
LEMMA StayRecvHeader ==
  ASSUME StayInv, NEW t \in Clients, RecvHeader(t), ~RecvPiece(t)
  PROVE  /\ UNCHANGED <<cl, backlog>>
         /\ pc'[t] \notin {"none", "hdrdown", "datadown", "errclose"} /\ ~Lost(pc'[t], loc'[t])
         /\ cl[t] = "closed" => Leaving(pc'[t], loc'[t], inq'[t])
<1>0. /\ LineInv /\ TypeOK /\ StayAt(t) /\ loc \in [Clients -> Locals] /\ loc[t] \in Locals
      /\ inq[t] \in Seq(Cells) /\ Own(pc[t], loc[t], g_stTestHdr)
      /\ FramedInv(t) /\ HeldInv(t) /\ ~Lost(pc[t], loc[t])
  BY StayFacts
<1>h. ~HdrDown(t)
  BY <1>0 DEF StayAt, HdrDown
<1>p. /\ {"copy", "ver", "len", "cmd", "mod"} \subseteq GotHdr
      /\ \A q \in {"top", "hcall", "recv", "copy", "ver", "len", "cmd", "mod"} :
           q \notin Naming \cup Fetching \cup {"gbody"}
      /\ \A q \in {"top", "hcall", "recv"} : q \notin GotHdr \cup Getting \cup Whole
  BY DEF GotHdr, Getting, Whole, Naming, Fetching
<1>l. cl[t] = "closed" => Leaving(pc[t], loc[t], inq[t])
  BY <1>0 DEF StayAt
<1>c. UNCHANGED <<cl, backlog>>
  BY <1>h DEF RecvHeader, Top, Call, RecvHdr, CopyCmd, CheckVersion, CheckLen, TestCmd, Private,
              clientVars
<1>1. CASE Top(t) \/ Call(t, "hcall", "recv")
  <2>1. /\ pc[t] \in {"top", "hcall"} /\ pc'[t] \in {"hcall", "recv"} /\ UNCHANGED inq
    BY <1>0, <1>1, GotoThere DEF Top, Call
  <2>2. ~Lost(pc'[t], loc'[t])
    BY <2>1 DEF Lost
  <2>3. Leaving(pc[t], loc[t], inq[t]) => inq[t] # <<>>
    BY <2>1 DEF Leaving
  <2> QED
    BY <1>c, <1>l, <1>p, <2>1, <2>2, <2>3, LeavingSlides
<1>2. CASE RecvHdr(t)
  <2>1. pc[t] = "recv" /\ pc'[t] = "copy"
    BY <1>0, <1>2, GotoThere DEF RecvHdr
  <2>2. loc[t].sock = Conn(t) /\ loc[t].sock.who = t
    BY <1>0, <2>1, EntriesDiffer DEF HeldInv
  <2> DEFINE s == inq[t]
             h == HdrSeen(Head(s))
  <2>3. s # <<>> /\ inq' = [inq EXCEPT ![t] = Tail(s)] /\ loc' = [loc EXCEPT ![t]["own"] = h]
    BY <1>2, <2>2 DEF RecvHdr, CanRecv, SetLoc
  <2>4. inq'[t] = Tail(s) /\ Tail(s) \in Seq(Cells) /\ Head(s) = s[1]
    <3>1. inq'[t] = Tail(s)
      BY <1>0, <2>3 DEF TypeOK
    <3>2. s \in Seq(Cells)
      BY <1>0
    <3> HIDE DEF s
    <3> QED
      BY <2>3, <3>1, <3>2, HeadTailProperties
  <2>5. Rest(Tail(s), s, 1) /\ 1 \in 1..Len(s)
    <3>1. s \in Seq(Cells) /\ s # <<>>
      BY <1>0, <2>3
    <3> HIDE DEF s
    <3>2. Len(s) \in Nat /\ Len(s) # 0
      BY <3>1, LenProperties, EmptySeq
    <3>3. 1 \in 1..Len(s) /\ Tail(s) \in Seq(Cells) /\ Len(Tail(s)) = Len(s) - 1
      BY <3>1, <3>2, HeadTailProperties
    <3>4. \A i \in 1..Len(Tail(s)) : Tail(s)[i] = s[i + 1] /\ i + 1 = 1 + i
      BY <3>1, <3>2, <3>3, HeadTailProperties
    <3> QED
      BY <3>3, <3>4 DEF Rest
  <2>6. loc'[t].own = h
    <3>1. loc'[t] = [loc[t] EXCEPT !["own"] = h]
      BY <1>0, <2>3
    <3> HIDE DEF h
    <3> QED
      BY <1>0, <3>1 DEF Locals
  <2>7. h.cmd = s[1].req.cmd
    <3>1. FrameOf(t)
      BY <1>0, <2>1 DEF FramedInv, Fresh
    <3>2. PICK r \in Requests \cup {NoRequest}, p \in Nat :
            Stream(r, p, inq[t]) /\ Placed(pc[t], loc[t], r, p)
      BY <3>1 DEF FrameOf
    <3>3. p = r.dlen
      BY <2>1, <3>2 DEF Placed, Fresh
    <3>4. s[1] = HdrCell(s[1].req) /\ s[1].req \in Requests
      <4>1. s \in Seq(Cells) /\ s # <<>> /\ Stream(r, r.dlen, s)
        BY <1>0, <2>3, <3>2, <3>3
      <4> HIDE DEF s
      <4> QED
        BY <4>1, StreamNext
    <3>5. h = HdrOf(s[1].req)
      BY <2>4, <3>4, HdrOfFields
    <3> QED
      BY <3>5 DEF HdrOf
  <2>8. ~Lost(pc'[t], loc'[t])
    BY <2>1 DEF Lost
  <2>9. ASSUME cl[t] = "closed" PROVE Leaving("copy", loc'[t], Tail(s))
    <3>1. \A k \in 1..Len(s) : s[k].req.cmd = IF k = Len(s) THEN "EXIT" ELSE "SET"
      BY <1>l, <2>1, <2>9 DEF Leaving
    <3>2. /\ \A k \in 1..Len(Tail(s)) :
               Tail(s)[k].req.cmd = IF k = Len(Tail(s)) THEN "EXIT" ELSE "SET"
          /\ s[1].req.cmd = IF Tail(s) = <<>> THEN "EXIT" ELSE "SET"
      <4> DEFINE u == Tail(s)
      <4>1. s \in Seq(Cells) /\ u \in Seq(Cells) /\ Rest(u, s, 1) /\ 1 \in 1..Len(s)
        BY <1>0, <2>4, <2>5
      <4> HIDE DEF s, u
      <4>2. /\ \A k \in 1..Len(u) : u[k].req.cmd = IF k = Len(u) THEN "EXIT" ELSE "SET"
            /\ s[1].req.cmd = IF u = <<>> THEN "EXIT" ELSE "SET"
        BY <3>1, <4>1, LeavingRest
      <4> QED
        BY <4>2 DEF u
    <3> QED
      BY <1>p, <2>6, <2>7, <3>2 DEF Leaving
  <2> QED
    BY <1>c, <2>1, <2>4, <2>8, <2>9
<1>3. CASE CopyCmd(t) \/ CheckVersion(t) \/ CheckLen(t)
  <2>1. /\ pc[t] \in {"copy", "ver", "len"} /\ pc'[t] \in {"ver", "len", "cmd", "done"}
        /\ UNCHANGED inq /\ (pc'[t] # "done" => UNCHANGED loc)
    BY <1>0, <1>3, GotoThere DEF CopyCmd, CheckVersion, CheckLen, Private
  <2>2. ~Lost(pc'[t], loc'[t])
    <3> SUFFICES ASSUME pc'[t] = "ver" PROVE loc[t].own.ver = VersionOne
      BY <2>1 DEF Lost
    <3>1. \E r \in Requests : loc[t].own = HdrOf(r)
      BY <1>p, <2>1, StayFrame
    <3> QED
      BY <3>1, HdrOfFields
  <2>3. CASE pc'[t] = "done"
    BY <1>c, <2>2, <2>3 DEF Leaving
  <2>4. CASE pc'[t] # "done"
    <3>1. cl[t] = "closed" => Leaving(pc'[t], loc'[t], inq'[t])
      BY <1>l, <1>p, <2>1, <2>4, LeavingSlides
    <3> QED
      BY <1>c, <2>1, <2>2, <3>1
  <2> QED
    BY <2>3, <2>4
<1>4. CASE TestCmd(t)
  <2> DEFINE k == loc[t].k
  <2>1. pc[t] = "cmd" /\ UNCHANGED inq
    BY <1>4 DEF TestCmd, Private
  <2>2. g_stTestHdr = loc[t].own
    BY <1>0, <2>1 DEF Own, Relying
  <2>3. CASE /\ g_stTestHdr.cmd = CmdOrder[k]
             /\ loc' = [loc EXCEPT ![t] = [@ EXCEPT !.cmd = CmdOrder[k], !.k = 1]]
             /\ Goto(t, IF CmdOrder[k] = "EXIT" THEN "endclose" ELSE "mod")
    <3>1. pc'[t] = IF CmdOrder[k] = "EXIT" THEN "endclose" ELSE "mod"
      BY <1>0, <2>3, GotoThere
    <3>2. loc'[t].own = loc[t].own
      <4>1. loc'[t] = [loc[t] EXCEPT !.cmd = CmdOrder[k], !.k = 1]
        BY <1>0, <2>3
      <4> QED
        BY <1>0, <4>1 DEF Locals
    <3>3. ~Lost(pc'[t], loc'[t]) /\ pc'[t] \notin {"none", "hdrdown", "datadown", "errclose"}
      BY <3>1 DEF Lost
    <3>4. ASSUME cl[t] = "closed", pc'[t] = "mod" PROVE Leaving("mod", loc'[t], inq[t])
      <4>1. Leaving("cmd", loc[t], inq[t])
        BY <1>l, <2>1, <3>4
      <4>2. loc[t].own.cmd # "EXIT"
        BY <2>2, <2>3, <3>1, <3>4
      <4>3. inq[t] # <<>>
        BY <1>p, <4>1, <4>2 DEF Leaving
      <4> QED
        BY <1>p, <3>2, <4>1, <4>3, LeavingSlides
    <3>5. \A l, s : Leaving("endclose", l, s)
      BY DEF Leaving
    <3> QED
      BY <1>c, <2>1, <3>1, <3>3, <3>4, <3>5
  <2>4. CASE SetLoc(t, "k", k + 1) /\ UNCHANGED pc
    <3>1. loc'[t].own = loc[t].own
      BY <1>0, <2>4, LineLocals
    <3>2. pc'[t] = "cmd" /\ ~Lost("cmd", loc'[t])
      BY <2>1, <2>4 DEF Lost
    <3>3. cl[t] = "closed" => Leaving("cmd", loc'[t], inq[t])
      BY <1>l, <1>p, <2>1, <3>1 DEF Leaving
    <3> QED
      BY <1>c, <2>1, <3>2, <3>3
  <2>5. CASE g_stTestHdr.cmd # CmdOrder[k] /\ k = Len(CmdOrder) /\ Goto(t, "top") /\ UNCHANGED loc
    <3>1. CmdOrder[k] = "EXIT"
      BY <2>5 DEF CmdOrder
    <3>2. pc'[t] = "top" /\ ~Lost("top", loc'[t])
      BY <1>0, <2>5, GotoThere DEF Lost
    <3>3. ASSUME cl[t] = "closed" PROVE Leaving("top", loc'[t], inq[t])
      <4>1. Leaving("cmd", loc[t], inq[t])
        BY <1>l, <2>1, <3>3
      <4>2. inq[t] # <<>>
        BY <1>p, <2>2, <2>5, <3>1, <4>1 DEF Leaving
      <4> QED
        BY <1>p, <4>1, <4>2, LeavingSlides
    <3> QED
      BY <1>c, <2>1, <3>2, <3>3
  <2> QED
    BY <1>4, <2>3, <2>4, <2>5 DEF TestCmd
<1> QED
  BY <1>h, <1>1, <1>2, <1>3, <1>4 DEF RecvHeader

\* Choosing the codec, receiving the payload and decoding it.
LEMMA StayRecvRequest ==
  ASSUME StayInv, Running', NEW t \in Clients, RecvRequest(t)
  PROVE  /\ UNCHANGED <<cl, backlog>>
         /\ pc'[t] \notin {"none", "hdrdown", "datadown", "errclose"} /\ ~Lost(pc'[t], loc'[t])
         /\ cl[t] = "closed" => Leaving(pc'[t], loc'[t], inq'[t])
<1>0. /\ LineInv /\ TypeOK /\ StayAt(t) /\ loc \in [Clients -> Locals] /\ loc[t] \in Locals
      /\ inq[t] \in Seq(Cells) /\ Own(pc[t], loc[t], g_stTestHdr)
      /\ FramedInv(t) /\ HeldInv(t) /\ ~Lost(pc[t], loc[t])
  BY StayFacts
<1>d. ~Die
  BY <1>0, DieEnds DEF Running
<1>h. ~DataDown(t)
  BY <1>0 DEF StayAt, DataDown
<1>p. /\ {"mod", "size", "need"} \subseteq GotHdr
      /\ \A q \in {"mod", "size", "need", "dcall", "data", "check", "decode", "top", "set"} :
           q \notin Naming \cup Fetching \cup {"gbody"}
      /\ \A q \in {"mod", "size", "need", "dcall", "data", "check", "decode"} :
           q \in GotHdr \cup Getting \cup Whole
      /\ \A q \in {"top", "set"} : q \notin GotHdr \cup Getting \cup Whole
  BY DEF GotHdr, Getting, Whole, Naming, Fetching
<1>l. cl[t] = "closed" => Leaving(pc[t], loc[t], inq[t])
  BY <1>0 DEF StayAt
<1>c. UNCHANGED <<cl, backlog>>
  BY DEF RecvRequest, TestModule, SizeBuf, ReadNeed, Call, RecvData, DataDown, CheckData, Decode,
         CloseFd, Private, clientVars
<1>s. pc[t] \in {"mod", "size", "need", "dcall", "data", "check", "decode"}
  BY <1>h DEF RecvRequest, TestModule, SizeBuf, ReadNeed, Call, RecvData, CheckData, Decode
<1>n. ASSUME cl[t] = "closed"
      PROVE  inq[t] # <<>> /\ loc[t].own.cmd = "SET"
  BY <1>l, <1>p, <1>s, <1>n DEF Leaving
<1>e. \A l, s : Leaving("endclose", l, s)
  BY DEF Leaving
<1>1. CASE TestModule(t) \/ SizeBuf(t) \/ ReadNeed(t) \/ Call(t, "dcall", "data")
  <2>1. UNCHANGED inq
    BY <1>1 DEF TestModule, SizeBuf, ReadNeed, Call, Private
  <2>2. loc'[t].own = loc[t].own
    <3>1. CASE TestModule(t)
      <4> DEFINE k == loc[t].k
      <4>1. CASE loc' = [loc EXCEPT ![t] = [@ EXCEPT !.mod = ModOrder[k], !.size = BufRoom]]
        <5>1. loc'[t] = [loc[t] EXCEPT !.mod = ModOrder[k], !.size = BufRoom]
          BY <1>0, <4>1
        <5> QED
          BY <1>0, <5>1 DEF Locals
      <4>2. CASE SetLoc(t, "k", k + 1) \/ UNCHANGED loc
        BY <1>0, <4>2, LineLocals
      <4> QED
        BY <3>1, <4>1, <4>2 DEF TestModule
    <3>2. CASE SizeBuf(t)
      BY <1>0, <3>2, LineLocals DEF SizeBuf
    <3>3. CASE ReadNeed(t)
      BY <1>0, <3>3, LineLocals DEF ReadNeed
    <3>4. CASE Call(t, "dcall", "data")
      BY <1>0, <3>4, LineLocals DEF Call
    <3> QED
      BY <1>1, <3>1, <3>2, <3>3, <3>4
  <2>3. pc'[t] \in {"mod", "size", "need", "dcall", "data", "check", "top"}
    <3>1. \/ UNCHANGED pc /\ pc[t] = "mod"
          \/ \E q \in {"size", "need", "dcall", "data", "check", "top"} : Goto(t, q)
      <4>1. CASE TestModule(t)
        BY <4>1 DEF TestModule
      <4>2. CASE SizeBuf(t) \/ ReadNeed(t) \/ Call(t, "dcall", "data")
        BY <4>2 DEF SizeBuf, ReadNeed, Call
      <4> QED
        BY <1>1, <4>1, <4>2
    <3> QED
      BY <1>0, <3>1, GotoThere
  <2>4. ~Lost(pc'[t], loc'[t])
    BY <2>3 DEF Lost
  <2>5. cl[t] = "closed" => Leaving(pc'[t], loc'[t], inq[t])
    BY <1>l, <1>n, <1>p, <1>s, <2>2, <2>3, LeavingSlides
  <2> QED
    BY <1>c, <2>1, <2>3, <2>4, <2>5
<1>2. CASE RecvData(t)
  <2>1. pc[t] = "data"
    BY <1>2 DEF RecvData
  <2>2. loc[t].sock.who = t
    BY <1>0, <2>1, EntriesDiffer DEF HeldInv
  <2> DEFINE s == inq[t]
             l == loc[t]
  <2>3. PICK n \in 1..Len(s) :
          /\ n <= l.need - l.got
          /\ inq' = [inq EXCEPT ![t] = SubSeq(s, n + 1, Len(s))]
          /\ \E b : loc' = [loc EXCEPT ![t] = [l EXCEPT !.got = l.got + n, !.buf = b]]
          /\ Goto(t, IF l.got + n = l.need THEN "check" ELSE "dcall")
    BY <1>2, <1>d, <2>2 DEF RecvData
  <2>4. pc'[t] \in {"check", "dcall"} /\ ~Lost(pc'[t], loc'[t])
    BY <1>0, <2>3, GotoThere DEF Lost
  <2>5. loc'[t].own = l.own
    <3>1. PICK b : loc' = [loc EXCEPT ![t] = [l EXCEPT !.got = l.got + n, !.buf = b]]
      BY <2>3
    <3>2. loc'[t] = [l EXCEPT !.got = l.got + n, !.buf = b]
      BY <1>0, <3>1
    <3>3. \A v : [l EXCEPT !.got = v, !.buf = b].own = l.own
      BY <1>0 DEF Locals
    <3> QED
      BY <3>2, <3>3
  <2>6. inq'[t] = SubSeq(s, n + 1, Len(s))
    BY <1>0, <2>3 DEF TypeOK
  <2>7. Rest(inq'[t], s, n) /\ inq'[t] \in Seq(Cells)
    <3>1. s \in Seq(Cells) /\ n \in 1..Len(s)
      BY <1>0, <2>3
    <3>2. Rest(inq'[t], s, n)
      <4> HIDE DEF s
      <4> QED
        BY <2>6, <3>1, RestOf
    <3> QED
      BY <3>2 DEF Rest
  <2>8. FrameOf(t)
    BY <1>0, <2>1 DEF FramedInv, Getting
  <2>9. PICK r \in Requests \cup {NoRequest}, p \in Nat :
          Stream(r, p, inq[t]) /\ Placed(pc[t], loc[t], r, p)
    BY <2>8 DEF FrameOf
  <2>10. r \in Requests /\ l.own = HdrOf(r) /\ p = l.got /\ l.need = r.dlen
    <3>1. l.need = l.own.dlen
      BY <1>0, <2>1, OwnPlaces DEF Own
    <3> QED
      BY <2>1, <2>9, <3>1, HdrOfFields DEF Placed, Getting
  <2>11. s[n].req = r
    <3>1. l.need \in Nat /\ l.got \in Nat /\ n \in Int
      BY <1>0, <2>3, Lookups
    <3>2. Stream(r, p, s) /\ s \in Seq(Cells) /\ n \in 1..Len(s) /\ p + n <= r.dlen
      BY <1>0, <2>3, <2>9, <2>10, <3>1
    <3> HIDE DEF s
    <3> QED
      BY <3>2, StreamCells
  <2>12. ASSUME cl[t] = "closed" PROVE Leaving(pc'[t], loc'[t], inq'[t])
    <3>1. /\ \A k \in 1..Len(s) : s[k].req.cmd = IF k = Len(s) THEN "EXIT" ELSE "SET"
          /\ l.own.cmd = "SET"
      BY <1>l, <1>n, <2>1, <2>12 DEF Leaving
    <3> DEFINE u == inq'[t]
    <3>2. /\ \A k \in 1..Len(u) : u[k].req.cmd = IF k = Len(u) THEN "EXIT" ELSE "SET"
          /\ s[n].req.cmd = IF u = <<>> THEN "EXIT" ELSE "SET"
      <4>1. s \in Seq(Cells) /\ u \in Seq(Cells) /\ Rest(u, s, n) /\ n \in 1..Len(s)
        BY <1>0, <2>3, <2>7
      <4> HIDE DEF s, u
      <4> QED
        BY <3>1, <4>1, LeavingRest
    <3>3. r.cmd = "SET"
      BY <2>10, <3>1 DEF HdrOf
    <3>4. u # <<>>
      BY <2>11, <3>2, <3>3
    <3> QED
      BY <1>p, <2>4, <2>5, <3>1, <3>2, <3>4 DEF Leaving
  <2> QED
    BY <1>c, <2>4, <2>12
<1>3. CASE CheckData(t)
  <2>1. pc[t] = "check" /\ pc'[t] \in {"decode", "endclose"} /\ UNCHANGED <<inq, loc>>
    BY <1>0, <1>3, GotoThere DEF CheckData, Private
  <2>2. loc[t].got = loc[t].need
    BY <2>1, StayFrame DEF Whole
  <2>3. ~Lost(pc'[t], loc'[t])
    BY <2>1, <2>2 DEF Lost
  <2>4. cl[t] = "closed" => Leaving(pc'[t], loc'[t], inq[t])
    BY <1>e, <1>l, <1>n, <1>p, <1>s, <2>1, LeavingSlides
  <2> QED
    BY <1>c, <2>1, <2>3, <2>4
<1>4. CASE Decode(t)
  <2>1. pc[t] = "decode" /\ UNCHANGED <<inq, loc>>
    BY <1>4 DEF Decode
  <2>2. \E q \in {"set", "get", "list", "lend", "endclose"} : Goto(t, q)
    BY <1>4, <1>d DEF Decode, HandlerPc
  <2>3. pc'[t] \in {"set", "get", "list", "lend", "endclose"} /\ ~Lost(pc'[t], loc'[t])
    BY <1>0, <2>2, GotoThere DEF Lost
  <2>4. ASSUME cl[t] = "closed" PROVE Leaving(pc'[t], loc'[t], inq[t])
    <3>1. loc[t].cmd = "SET"
      BY <1>0, <1>n, <2>1, <2>4, OwnPlaces DEF Own
    <3>2. Goto(t, "set") \/ Goto(t, "endclose")
      BY <1>4, <1>d, <3>1 DEF Decode, HandlerPc
    <3>3. pc'[t] \in {"set", "endclose"}
      BY <1>0, <3>2, GotoThere
    <3> QED
      BY <1>e, <1>l, <1>n, <1>p, <2>1, <2>4, <3>3, LeavingSlides
  <2> QED
    BY <1>c, <2>1, <2>3, <2>4
<1> QED
  BY <1>h, <1>1, <1>2, <1>3, <1>4 DEF RecvRequest

\* No recv() ends: a client that left has its EXIT read first.
LEMMA StayEnds ==
  ASSUME StayInv, NEW t \in Clients
  PROVE  ~RecvEnds(t) /\ ~ErrClose(t)
<1>1. ~ErrClose(t)
  BY DEF StayInv, StayAt, ErrClose
<1>2. ASSUME RecvEnds(t) PROVE FALSE
  <2>1. pc[t] \in {"recv", "data"}
    BY <1>2 DEF RecvEnds
  <2>2. loc[t].sock = Conn(t) /\ StayAt(t)
    BY <2>1, StayFacts DEF HeldInv
  <2>3. inq[t] = <<>> /\ cl[t] = "closed"
    BY <1>2, <2>2, EntriesDiffer DEF RecvEnds, RecvEof, RecvFails, HasEof, StayAt
  <2>4. Leaving(pc[t], loc[t], inq[t])
    BY <2>2, <2>3 DEF StayAt
  <2> QED
    BY <2>1, <2>3, <2>4 DEF Leaving
<1> QED
  BY <1>1, <1>2

\* The handlers that answer work for a client that is there; a SET of one that left
\* is carried out.
LEMMA StayHandlers ==
  ASSUME StayInv, Running', NEW t \in Clients, ListFile(t) \/ GetFile(t) \/ SetFile(t)
  PROVE  /\ UNCHANGED <<cl, backlog>>
         /\ pc'[t] \notin {"none", "hdrdown", "datadown", "errclose"} /\ ~Lost(pc'[t], loc'[t])
         /\ cl[t] = "closed" => Leaving(pc'[t], loc'[t], inq'[t])
<1>0. /\ LineInv /\ TypeOK /\ StayAt(t) /\ Running /\ ~Die
  <2>1. LineInv /\ TypeOK /\ StayAt(t) /\ Running
    BY StayFacts DEF StayInv
  <2> QED
    BY <2>1, DieEnds DEF Running
<1>1. pc[t] \in Decoded /\ pc'[t] \in Decoded \cup {"top", "endclose"}
  BY <1>0, HandlerPlaces
<1>2. /\ ~Lost(pc'[t], loc'[t]) /\ pc'[t] \notin {"none", "hdrdown", "datadown", "errclose"}
  BY <1>1 DEF Lost, Decoded
<1>3. fdTable[connFd[t]] = Conn(t)
  BY <1>0, <1>1, DecodedFrame, HasConnection
<1>4. UNCHANGED backlog
  BY DEF ListFile, OpenDir, Opens, OpenFails, SendName, NoName, CloseDir, SendEnd, Send,
         GetFile, OpenFile, ReadFile, StartReplyHdr, FillReplyHdr, SendReplyHdr, SendBody,
         CloseGot, SetFile, CreateFile, WriteFile, CloseWritten, CloseFile, CloseFd, Private,
         clientVars
<1>f. pc[t] \in FileHeld => fdTable[loc[t].file].kind = "file"
  <2>1. pc[t] \in FileHeld => fdTable[loc[t].file] = File(t)
    BY StayFacts DEF HeldInv
  <2> QED
    BY <2>1, EntriesDiffer
<1>5. CASE cl[t] = "closed"
  <2>1. Leaving(pc[t], loc[t], inq[t])
    BY <1>0, <1>5 DEF StayAt
  <2>2. /\ pc[t] \notin Naming \cup Fetching \cup {"gbody"} /\ inq[t] # <<>>
        /\ pc[t] \notin {"endclose", "done"}
    BY <1>1, <2>1 DEF Leaving, Decoded
  <2>3. CASE CloseGot(t) \/ CreateFile(t) \/ CloseWritten(t)
    <3>1. /\ UNCHANGED <<cl, inq>>
          /\ \E p \in {"top", "write", "endclose"} : Goto(t, p)
      BY <2>3 DEF CloseGot, CreateFile, Opens, OpenFails, CloseWritten, CloseFile, CloseFd,
                  Private, clientVars
    <3>2. pc'[t] \in {"top", "write", "endclose"}
      BY <1>0, <3>1, GotoThere
    <3>3. pc'[t] \notin Naming \cup Fetching \cup GotHdr \cup Getting \cup Whole \cup {"gbody"}
      BY <3>2 DEF Naming, Fetching, GotHdr, Getting, Whole
    <3> QED
      BY <1>2, <1>4, <2>1, <2>2, <3>1, <3>3, LeavingSlides
  <2>4. CASE WriteFile(t)
    <3>1. pc[t] = "write"
      BY <2>4 DEF WriteFile
    <3>2. fdTable[loc[t].file].kind = "file"
      BY <1>f, <3>1 DEF FileHeld
    <3>3. UNCHANGED <<cl, inq>> /\ (Goto(t, "sclose") \/ Goto(t, "endclose"))
      BY <2>4, <3>2 DEF WriteFile
    <3>4. pc'[t] \in {"sclose", "endclose"}
      BY <1>0, <3>3, GotoThere
    <3>5. pc'[t] \notin Naming \cup Fetching \cup GotHdr \cup Getting \cup Whole \cup {"gbody"}
      BY <3>4 DEF Naming, Fetching, GotHdr, Getting, Whole
    <3> QED
      BY <1>2, <1>4, <2>1, <2>2, <3>3, <3>5, LeavingSlides
  <2>5. ~ListFile(t) /\ ~(GetFile(t) /\ ~CloseGot(t))
    <3>1. ListFile(t) => pc[t] \in Naming
      BY DEF ListFile, OpenDir, Opens, OpenFails, SendName, NoName, CloseDir, SendEnd, Send,
             CloseFile, Naming
    <3>2. GetFile(t) /\ ~CloseGot(t) => pc[t] \in Fetching \cup {"gbody"}
      BY DEF GetFile, OpenFile, Opens, OpenFails, ReadFile, StartReplyHdr, FillReplyHdr,
             SendReplyHdr, SendBody, Send, Fetching
    <3> QED
      BY <2>2, <3>1, <3>2
  <2> QED
    BY <2>3, <2>4, <2>5 DEF SetFile
<1>6. CASE cl[t] # "closed"
  <2> SUFFICES UNCHANGED cl
    BY <1>2, <1>4, <1>6
  <2>1. ASSUME NEW x, Delivers(connFd[t], x) PROVE UNCHANGED cl
    <3>1. fdTable[connFd[t]].who = t
      BY <1>3, EntriesDiffer
    <3> QED
      BY <1>6, <2>1, <3>1 DEF Delivers
  <2>2. ASSUME NEW from, NEW x, NEW p, NEW q, Send(t, from, x, p, q) PROVE UNCHANGED cl
    BY <2>1, <2>2 DEF Send, SendFails, SigPipe
  <2>4. CASE ListFile(t)
    BY <2>2, <2>4 DEF ListFile, OpenDir, Opens, OpenFails, SendName, NoName, CloseDir, SendEnd,
                      CloseFile, CloseFd, Private, clientVars
  <2>5. CASE GetFile(t)
    BY <2>2, <2>5 DEF GetFile, OpenFile, Opens, OpenFails, ReadFile, StartReplyHdr, FillReplyHdr,
                      SendReplyHdr, SendBody, CloseGot, CloseFile, CloseFd, Private, clientVars
  <2>6. CASE SetFile(t)
    <3>1. CASE WriteFile(t)
      <4>1. pc[t] = "write"
        BY <3>1 DEF WriteFile
      <4>2. fdTable[loc[t].file].kind = "file"
        BY <1>f, <4>1 DEF FileHeld
      <4> QED
        BY <3>1, <4>2 DEF WriteFile
    <3>2. CASE CreateFile(t) \/ CloseWritten(t)
      BY <3>2 DEF CreateFile, Opens, OpenFails, CloseWritten, CloseFile, CloseFd, Private,
                  clientVars
    <3> QED
      BY <2>6, <3>1, <3>2 DEF SetFile
  <2> QED
    BY <2>4, <2>5, <2>6
<1> QED
  BY <1>5, <1>6

\* A thread's step, whichever it is, loses no client.
LEMMA StayThread ==
  ASSUME StayInv, NoTorn', Running', NEW t \in Clients, Thread(t), NEW c \in Clients
  PROVE  /\ StayAt(c)'
         /\ \A f \in Fds : fdTable'[f] = Reserved => main'.pc = "accept" /\ main'.fd = f
<1>0. /\ Running /\ LineInv /\ SoloInv /\ StayAt(t) /\ StayAt(c)
      /\ KeepsOwn(t) /\ KeepsLine(t) /\ ~RecvPiece(t)
  BY StayFacts, OwnThread, LineEveryStep DEF Thread, LineInv
<1>m. UNCHANGED main /\ \A f \in Fds : Moved(t, fdTable[f], fdTable'[f])
  BY <1>0 DEF KeepsLine
<1>r. \A f \in Fds : fdTable'[f] = Reserved => fdTable[f] = Reserved
  BY <1>m, EntriesDiffer DEF Moved
<1>n. \A f \in Fds : fdTable'[f] = Reserved => main'.pc = "accept" /\ main'.fd = f
  BY <1>m, <1>r DEF StayInv
<1> SUFFICES StayAt(c)'
  BY <1>n
<1>1. /\ UNCHANGED <<cl, backlog>>
      /\ pc'[t] \notin {"none", "hdrdown", "datadown", "errclose"} /\ ~Lost(pc'[t], loc'[t])
      /\ cl[t] = "closed" => Leaving(pc'[t], loc'[t], inq'[t])
  <2>1. CASE EndClose(t)
    <3>1. pc'[t] = "done" /\ UNCHANGED <<cl, backlog>>
      BY <2>1, StayFacts, GotoThere DEF EndClose, CloseFd, clientVars
    <3> QED
      BY <3>1 DEF Leaving, Lost
  <2> QED
    BY <1>0, <2>1, StayEnds, StayHandlers, StayRecvHeader, StayRecvRequest DEF Thread
<1>2. CASE c = t
  <2>1. cl'[c] = cl[c]
    BY <1>1
  <2> QED
    BY <1>0, <1>1, <1>2, <2>1 DEF StayAt
<1>3. CASE c # t
  <2>1. /\ pc'[c] = pc[c] /\ pc[c] \in {"none", "done"} /\ inq'[c] = inq[c] /\ UNCHANGED main
    BY <1>0, <1>3, SoloOthers DEF KeepsOwn, KeepsSolo, KeepsLine
  <2>2. ~Lost(pc'[c], loc'[c])
    BY <2>1 DEF Lost
  <2>3. pc[c] \notin GotHdr \cup Getting \cup Whole
    BY <2>1, LinePlaces
  <2>4. Leaving(pc[c], loc[c], inq[c]) => Leaving(pc'[c], loc'[c], inq'[c])
    BY <2>1, <2>3 DEF Leaving
  <2> QED
    BY <1>0, <1>1, <2>1, <2>2, <2>4 DEF StayAt
<1> QED
  BY <1>2, <1>3

\* Only the descriptor that accept() waits with is taken and not yet used.
LEMMA StayReserved ==
  ASSUME StayInv, Running', Server_dealClientReq
  PROVE  \A f \in Fds : fdTable'[f] = Reserved => main'.pc = "accept" /\ main'.fd = f
<1>0. /\ Running /\ SoloInv /\ fdTable \in [Fds -> FdEntry] /\ main \in MainLoop /\ ~Die
      /\ \A f \in Fds : fdTable[f] = Reserved => main.pc = "accept" /\ main.fd = f
  <2>1. TypeOK /\ SoloInv /\ Running
    BY DEF StayInv, TidyInv, LineInv, OwnInv
  <2> QED
    BY <2>1, DieEnds DEF TypeOK, StayInv, Running
<1>1. CASE EnterAccept
  <2>1. PICK f \in Fds : /\ fdTable' = [fdTable EXCEPT ![f] = Reserved]
                         /\ main' = [main EXCEPT !.pc = "accept", !.fd = f]
    BY <1>0, <1>1 DEF EnterAccept
  <2>2. main.pc = "loop"
    BY <1>1 DEF EnterAccept
  <2>3. main'.pc = "accept" /\ main'.fd = f
    BY <1>0, <2>1 DEF MainLoop
  <2>4. \A g \in Fds : fdTable'[g] = Reserved => g = f
    BY <1>0, <2>1, <2>2
  <2> QED
    BY <2>3, <2>4
<1>2. CASE Accept
  <2>1. /\ main.pc = "accept" /\ backlog # <<>>
        /\ fdTable' = [fdTable EXCEPT ![main.fd] = Conn(Head(backlog))]
    BY <1>2 DEF Accept
  <2>2. Conn(Head(backlog)) # Reserved
    <3>1. PICK d \in Clients : backlog = <<d>>
      BY <1>0, <2>1 DEF SoloInv
    <3> QED
      BY <3>1, EntriesDiffer
  <2>3. \A f \in Fds : fdTable'[f] = IF f = main.fd THEN Conn(Head(backlog)) ELSE fdTable[f]
    BY <1>0, <2>1
  <2> QED
    BY <1>0, <2>2, <2>3
<1>3. CASE Spawn
  <2>1. main.pc = "spawn" /\ UNCHANGED fdTable
    BY <1>3 DEF Spawn
  <2> QED
    BY <1>0, <2>1
<1>4. ~SpawnFails
  BY <1>0 DEF SpawnFails
<1> QED
  BY <1>1, <1>2, <1>3, <1>4 DEF Server_dealClientReq

\* The accept loop takes the clients that came, one by one.
LEMMA StayAcceptor ==
  ASSUME StayInv, Running', Server_dealClientReq, NEW c \in Clients
  PROVE  StayAt(c)'
<1>0. /\ Running /\ TypeOK /\ SoloInv /\ StayAt(c) /\ fdTable \in [Fds -> FdEntry]
      /\ main \in MainLoop
      /\ UNCHANGED <<cl, loc, inq>>
  <2>1. TypeOK /\ SoloInv /\ StayAt(c) /\ Running
    BY StayFacts DEF StayInv
  <2>2. UNCHANGED <<cl, loc, inq>>
    BY DEF Server_dealClientReq, EnterAccept, Accept, Spawn, SpawnFails, threadVars, clientVars
  <2> QED
    BY <2>1, <2>2 DEF TypeOK, StayInv
<1>d. ~Die
  BY <1>0, DieEnds DEF Running
<1>1. CASE EnterAccept
  <2>1. PICK f \in Fds : /\ fdTable' = [fdTable EXCEPT ![f] = Reserved]
                         /\ main' = [main EXCEPT !.pc = "accept", !.fd = f]
    BY <1>d, <1>1 DEF EnterAccept
  <2>2. main.pc = "loop" /\ UNCHANGED <<pc, backlog>>
    BY <1>1 DEF EnterAccept, threadVars, clientVars
  <2>3. main'.pc = "accept" /\ main'.fd = f
    BY <1>0, <2>1 DEF MainLoop
  <2> QED
    BY <1>0, <2>2, <2>3 DEF StayAt
<1>2. CASE Accept
  <2>1. /\ main.pc = "accept" /\ backlog # <<>> /\ UNCHANGED pc
        /\ main' = [main EXCEPT !.pc = "spawn", !.who = Head(backlog)]
    BY <1>2 DEF Accept, threadVars
  <2>2. PICK d \in Clients : backlog = <<d>>
    BY <1>0, <2>1 DEF SoloInv
  <2>3. Head(backlog) = d /\ \A i \in DOMAIN backlog : backlog[i] = d
    BY <2>2
  <2>4. main'.pc = "spawn" /\ main'.who = d
    BY <1>0, <2>1, <2>3 DEF MainLoop
  <2> QED
    BY <1>0, <2>1, <2>3, <2>4 DEF StayAt
<1>3. CASE Spawn
  <2>1. /\ main.pc = "spawn" /\ pc' = [pc EXCEPT ![main.who] = "top"]
        /\ UNCHANGED backlog
    BY <1>3 DEF Spawn, clientVars
  <2>2. PICK w \in Clients : w = main.who /\ pc[w] = "none" /\ backlog = <<>>
    BY <1>0, <2>1 DEF SoloInv
  <2>3. pc'[w] = "top" /\ \A u \in Clients \ {w} : pc'[u] = pc[u]
    BY <1>0, <2>1, <2>2 DEF TypeOK
  <2>4. CASE c = w
    <3>1. ~Lost("top", loc[c])
      BY DEF Lost
    <3>2. "top" \notin GotHdr \cup Getting \cup Whole \cup Naming \cup Fetching \cup {"gbody"}
      BY ReplyPlaces DEF Replied
    <3>3. Leaving("none", loc[c], inq[c]) => Leaving("top", loc[c], inq[c])
      BY <3>2 DEF Leaving
    <3> QED
      BY <1>0, <2>2, <2>3, <2>4, <3>1, <3>3 DEF StayAt
  <2>5. CASE c # w
    <3>1. DOMAIN backlog = {}
      BY <2>2
    <3>2. ~(cl[c] # "off" /\ pc[c] = "none")
      BY <1>0, <2>2, <2>5, <3>1 DEF StayAt
    <3> QED
      BY <1>0, <2>3, <2>5, <3>2 DEF StayAt
  <2> QED
    BY <2>4, <2>5
<1>4. ~SpawnFails
  BY <1>d DEF SpawnFails
<1> QED
  BY <1>1, <1>2, <1>3, <1>4 DEF Server_dealClientReq

\* A client says EXIT when it has all its answers, and finds its connection closed
\* only when its thread is about to end.
LEMMA StayClient ==
  ASSUME Staying, StayInv, NEW d \in Clients, Client(d), ~Depart(d), NEW c \in Clients
  PROVE  /\ StayAt(c)'
         /\ \A f \in Fds : fdTable'[f] = Reserved => main'.pc = "accept" /\ main'.fd = f
<1>0. /\ Running /\ LineInv /\ TypeOK /\ SoloInv /\ StayAt(c)
      /\ UNCHANGED <<main, fdTable, pc, connFd, loc>>
      /\ cl \in [Clients -> {"off", "ready", "half", "wait", "closed", "hungup", "reset"}]
      /\ inq \in [Clients -> Seq(Cells)] /\ backlog \in Seq(Clients)
  <2>1. Running /\ LineInv /\ TypeOK /\ SoloInv /\ StayAt(c)
    BY StayFacts DEF StayInv
  <2>2. UNCHANGED <<main, fdTable, pc, connFd, loc>>
    BY DEF Client, Connect, SendHdr, SendPayload, TakeReply, NoticeDown, Depart, threadVars
  <2> QED
    BY <2>1, <2>2 DEF TypeOK
<1>1. \A f \in Fds : fdTable'[f] = Reserved => main'.pc = "accept" /\ main'.fd = f
  BY <1>0 DEF StayInv
<1> SUFFICES StayAt(c)'
  BY <1>1
<1>3. CASE Connect(d)
  <2>1. /\ cl[d] = "off" /\ cl' = [cl EXCEPT ![d] = "ready"] /\ backlog' = Append(backlog, d)
        /\ UNCHANGED inq
    BY <1>3 DEF Connect
  <2>2. /\ Len(backlog) \in Nat /\ DOMAIN backlog = 1..Len(backlog)
        /\ DOMAIN backlog' = 1..Len(backlog) + 1
        /\ \A i \in 1..Len(backlog) : backlog'[i] = backlog[i]
        /\ backlog'[Len(backlog) + 1] = d
    <3> DEFINE b == backlog
               u == Append(b, d)
    <3>1. b \in Seq(Clients) /\ backlog' = u
      BY <1>0, <2>1
    <3>2. /\ Len(b) \in Nat /\ DOMAIN b = 1..Len(b) /\ u \in Seq(Clients) /\ Len(u) = Len(b) + 1
          /\ \A i \in 1..Len(b) : u[i] = b[i]
          /\ u[Len(b) + 1] = d
      <4> HIDE DEF b
      <4> QED
        BY <3>1, LenProperties, AppendProperties
    <3>3. DOMAIN u = 1..Len(b) + 1
      <4> HIDE DEF u
      <4> QED
        BY <3>2, LenProperties
    <3> QED
      BY <3>1, <3>2, <3>3
  <2>3. CASE c = d
    <3>1. cl'[c] = "ready"
      BY <1>0, <2>1, <2>3
    <3>2. Len(backlog) + 1 \in DOMAIN backlog'
      BY <2>2
    <3> QED
      BY <1>0, <2>2, <2>3, <3>1, <3>2 DEF StayAt
  <2>4. CASE c # d
    <3>1. cl'[c] = cl[c]
      BY <1>0, <2>1, <2>4
    <3>2. ASSUME NEW i \in DOMAIN backlog, backlog[i] = c
          PROVE  i \in DOMAIN backlog' /\ backlog'[i] = c
      BY <2>2, <3>2
    <3> QED
      BY <1>0, <2>1, <3>1, <3>2 DEF StayAt
  <2> QED
    BY <2>3, <2>4
<1>4. CASE SendHdr(d)
  <2>1. PICK r \in Requests :
          /\ inq' = [inq EXCEPT ![d] = Append(@, HdrCell(r))]
          /\ cl' = [cl EXCEPT ![d] = IF r.cmd = "EXIT" THEN "closed" ELSE "half"]
    BY <1>4 DEF SendHdr
  <2>2. cl[d] = "ready" /\ UNCHANGED backlog
    BY <1>4 DEF SendHdr
  <2>3. CASE c # d
    <3>1. cl'[c] = cl[c] /\ inq'[c] = inq[c]
      BY <1>0, <2>1, <2>3
    <3> QED
      BY <1>0, <2>2, <3>1 DEF StayAt
  <2>4. CASE c = d
    <3> DEFINE s == inq[d]
               n == Len(s)
               u == Append(s, HdrCell(r))
    <3>1. inq'[d] = u /\ cl'[d] = IF r.cmd = "EXIT" THEN "closed" ELSE "half"
      BY <1>0, <2>1
    <3>2. AllSets(s) /\ ~Asking(pc[d], loc[d])
      <4>1. Connected(d) /\ Quiet(cl[d], cur[d])
        BY <2>2 DEF Connected, Quiet
      <4>2. DialogueOf(d)
        BY <4>1, StayFacts
      <4> QED
        BY <4>1, <4>2 DEF DialogueOf, Dialogue
    <3>3. /\ n \in Nat /\ Len(u) = n + 1 /\ u[n + 1] = HdrCell(r) /\ u # <<>>
          /\ \A i \in 1..n : u[i] = s[i]
      <4>1. s \in Seq(Cells) /\ HdrCell(r) \in Cells
        BY <1>0, ValueTypes
      <4> HIDE DEF s
      <4>2. /\ n \in Nat /\ u \in Seq(Cells) /\ Len(u) = n + 1 /\ u[n + 1] = HdrCell(r)
            /\ \A i \in 1..n : u[i] = s[i]
        BY <4>1, LenProperties, AppendProperties
      <4> HIDE DEF u, n
      <4>3. u # <<>>
        BY <4>2, EmptySeq
      <4> QED
        BY <4>2, <4>3
    <3>4. ASSUME r.cmd = "EXIT" PROVE Leaving(pc[d], loc[d], u)
      <4>1. \A k \in 1..n : s[k].req.cmd = "SET"
        BY <3>2 DEF AllSets
      <4>2. \A k \in 1..n + 1 : k \in 1..n \/ k = n + 1
        BY <3>3
      <4>3. \A k \in 1..n : k # n + 1
        BY <3>3
      <4>4. HdrCell(r).req = r
        BY DEF HdrCell
      <4> HIDE DEF u, s, n
      <4>5. \A k \in 1..Len(u) : u[k].req.cmd = IF k = Len(u) THEN "EXIT" ELSE "SET"
        BY <3>3, <3>4, <4>1, <4>2, <4>3, <4>4
      <4> QED
        BY <3>2, <3>3, <4>5 DEF Leaving, Asking
    <3> QED
      BY <1>0, <2>2, <2>4, <3>1, <3>4 DEF StayAt
  <2> QED
    BY <2>3, <2>4
<1>5. CASE SendPayload(d) \/ TakeReply(d)
  <2>1. /\ \E v \in {"ready", "wait"} : cl' = [cl EXCEPT ![d] = v]
        /\ UNCHANGED backlog /\ cl[d] \in {"half", "wait"}
        /\ \A u \in Clients \ {d} : inq'[u] = inq[u]
    BY <1>0, <1>5 DEF SendPayload, TakeReply
  <2>2. CASE c = d
    <3>1. cl'[c] \in {"ready", "wait"} /\ cl[c] # "off"
      BY <1>0, <2>1, <2>2
    <3> QED
      BY <1>0, <2>1, <3>1 DEF StayAt
  <2>3. CASE c # d
    <3>1. cl'[c] = cl[c] /\ inq'[c] = inq[c]
      BY <1>0, <2>1, <2>3
    <3> QED
      BY <1>0, <2>1, <3>1 DEF StayAt
  <2> QED
    BY <2>2, <2>3
<1>6. CASE NoticeDown(d)
  <2>1. /\ cl' = [cl EXCEPT ![d] = "closed"] /\ UNCHANGED <<backlog, inq>>
        /\ Connected(d) /\ ServerGone(d)
    BY <1>6 DEF NoticeDown
  <2>2. CASE c # d
    <3>1. cl'[c] = cl[c]
      BY <1>0, <2>1, <2>2
    <3> QED
      BY <1>0, <2>1, <3>1 DEF StayAt
  <2>3. CASE c = d
    <3>1. /\ cl[d] # "off" /\ \A f \in Fds : fdTable[f] # Conn(d)
          /\ ~\E i \in DOMAIN backlog : backlog[i] = d
      BY <1>0, <2>1 DEF ServerGone
    <3>2. pc[d] # "none"
      <4> SUFFICES ASSUME pc[d] = "none" PROVE FALSE
        OBVIOUS
      <4>1. main.pc = "spawn" /\ main.who = d
        BY <1>0, <2>3, <3>1 DEF StayAt
      <4>2. fdTable[main.fd] = Conn(d) /\ main.fd \in Fds
        BY <1>0, <4>1 DEF LineInv, TableInv, TypeOK, MainLoop
      <4> QED
        BY <3>1, <4>2
    <3>3. pc[d] \in {"endclose", "done"}
      <4>1. connFd[d] \in Fds
        BY <1>0 DEF TypeOK
      <4>2. ~Lost(pc[d], loc[d])
        BY <1>0, <2>3 DEF StayAt
      <4> QED
        BY <1>0, <3>1, <3>2, <4>1, <4>2, HasConnection
    <3>4. cl'[d] = "closed"
      BY <1>0, <2>1
    <3>5. Leaving(pc[d], loc[d], inq[d])
      BY <3>3 DEF Leaving
    <3> QED
      BY <1>0, <2>1, <2>3, <3>2, <3>4, <3>5 DEF StayAt
  <2> QED
    BY <2>2, <2>3
<1> QED
  BY <1>3, <1>4, <1>5, <1>6 DEF Client

\* Nothing fails there, and nobody asks for a file by JSON: no descriptor leaks either.
LEMMA StayingTidy == Staying => Tidy
BY DEF Staying, Tidy

\* As long as the process is still there after a step, and no client is killed in it,
\* every client is there too.
LEMMA StayStep ==
  ASSUME Staying, StayInv, NoTorn', Running', [Next]_vars, \A d \in Clients : ~Depart(d)
  PROVE  StayInv'
<1>1. TidyInv' /\ ReplyInv' /\ PiecesInv'
  BY StayingTidy, TidyStep, ReplyStep, PiecesStep DEF StayInv, Tidy
<1>2. CASE UNCHANGED vars
  <2>1. UNCHANGED <<main, fdTable, pc, loc, backlog, cl, inq>>
    BY <1>2 DEF vars, threadVars, clientVars
  <2> QED
    BY <1>1, <2>1 DEF StayInv, StayAt, Running
<1>3. CASE Next
  <2>2. /\ \A c \in Clients : StayAt(c)'
        /\ \A f \in Fds : fdTable'[f] = Reserved => main'.pc = "accept" /\ main'.fd = f
    <3>1. CASE Server_dealClientReq
      BY <3>1, StayReserved, StayAcceptor
    <3>2. CASE \E t \in Clients : Thread(t)
      BY <3>2, StayThread
    <3>3. CASE \E d \in Clients : Client(d)
      BY <3>3, StayClient
    <3> QED
      BY <1>3, <3>1, <3>2, <3>3 DEF Next
  <2> QED
    BY <1>1, <2>2 DEF StayInv
<1> QED
  BY <1>2, <1>3

\* A thread that decodes while the process ends is the one that ends it, and it goes
\* no further.
LEMMA DyingDecodes ==
  ASSUME StayInv, Next, ~Running', NEW t \in Clients, pc[t] = "decode"
  PROVE  pc'[t] = pc[t] /\ loc'[t] = loc[t]
<1>0. TypeOK /\ SoloInv /\ OwnInv /\ Running /\ ~UNCHANGED main
  BY DEF StayInv, TidyInv, LineInv, OwnInv, Running
<1>1. CASE Server_dealClientReq
  <2>1. ~Accept /\ ~Spawn
    BY <1>0 DEF Accept, Spawn, Running, TypeOK, MainLoop
  <2>2. CASE EnterAccept
    BY <2>2 DEF EnterAccept, threadVars
  <2>3. CASE SpawnFails
    BY <2>3 DEF SpawnFails, threadVars
  <2> QED
    BY <1>1, <2>1, <2>2, <2>3 DEF Server_dealClientReq
<1>2. ASSUME NEW u \in Clients, Thread(u), u # t
      PROVE  FALSE
  <2>1. pc[u] \notin {"none", "done"}
    BY <1>0, <1>2, OwnThread DEF KeepsOwn, KeepsSolo
  <2>2. pc[t] \in {"none", "done"}
    BY <1>0, <1>2, <2>1, SoloOthers
  <2> QED
    BY <2>2
<1>3. CASE Thread(t)
  <2>1. CASE RecvHeader(t)
    <3>1. ~RecvPiece(t)
      BY <1>0, Zenon DEF RecvPiece
    <3> QED
      BY <1>0, <2>1, <3>1 DEF RecvHeader, Top, Call, RecvHdr, CopyCmd, HdrDown, CheckVersion,
                              CheckLen, TestCmd, CloseFd, Private
  <2>2. CASE RecvRequest(t)
    <3>1. ~RecvData(t)
      BY DEF RecvData
    <3>2. Decode(t)
      BY <1>0, <2>2, <3>1 DEF RecvRequest, TestModule, SizeBuf, ReadNeed, Call, DataDown,
                              CheckData, CloseFd, Private
    <3> QED
      BY <1>0, <3>2 DEF Decode
  <2>3. CASE RecvEnds(t) \/ ErrClose(t) \/ EndClose(t)
    BY <1>0, <2>3 DEF RecvEnds, ErrClose, EndClose, CloseFd
  <2>4. CASE ListFile(t) \/ GetFile(t) \/ SetFile(t)
    <3>1. \A from, x, p, q : Send(t, from, x, p, q) => from = "decode"
      BY DEF Send
    <3> QED
      BY <2>4, <3>1
         DEF ListFile, OpenDir, SendName, NoName, CloseDir, SendEnd, GetFile, OpenFile, ReadFile,
             StartReplyHdr, FillReplyHdr, SendReplyHdr, SendBody, CloseGot, SetFile, CreateFile,
             WriteFile, CloseWritten, Opens, OpenFails, CloseFile
  <2> QED
    BY <1>3, <2>1, <2>2, <2>3, <2>4 DEF Thread
<1>4. ASSUME NEW c \in Clients PROVE ~Client(c)
  BY <1>0 DEF Client, Connect, SendHdr, SendPayload, TakeReply, NoticeDown, Depart
<1> QED
  BY <1>1, <1>2, <1>3, <1>4 DEF Next

\* What no thread will ever do again.
LEMMA NothingAfter ==
  ASSUME TypeOK, ~Running, [Next]_vars
  PROVE  UNCHANGED <<main, pc, loc>>
<1>1. ~Server_dealClientReq
  BY DEF Server_dealClientReq, EnterAccept, Accept, Spawn, SpawnFails, Running
<1>2. \A t \in Clients : ~Thread(t)
  BY DEF Thread
<1>3. CASE \E c \in Clients : Client(c)
  BY <1>3 DEF Client, Connect, SendHdr, SendPayload, TakeReply, NoticeDown, Depart, threadVars
<1>4. CASE UNCHANGED vars
  BY <1>4 DEF vars, threadVars
<1> QED
  BY <1>1, <1>2, <1>3, <1>4 DEF Next

\* A thread does nothing to a client but let one that is gone know it.
LEMMA ThreadClients ==
  ASSUME TypeOK, NEW t \in Clients, Thread(t), NEW c \in Clients
  PROVE  UNCHANGED cur /\ (cl'[c] = cl[c] \/ (cl[c] = "closed" /\ cl'[c] = "hungup"))
<1> DEFINE Told == UNCHANGED cur /\ (cl'[c] = cl[c] \/ (cl[c] = "closed" /\ cl'[c] = "hungup"))
<1> SUFFICES Told
  OBVIOUS
<1> HIDE DEF Told
<1>1. ASSUME UNCHANGED <<cl, cur>> PROVE Told
  BY <1>1 DEF Told
<1>2. ASSUME UNCHANGED cur, NEW f, NEW x, Delivers(f, x) PROVE Told
  <2>1. \/ UNCHANGED cl
        \/ \E d : cl[d] = "closed" /\ cl' = [cl EXCEPT ![d] = "hungup"]
    BY <1>2 DEF Delivers
  <2>2. \A d : cl' = [cl EXCEPT ![d] = "hungup"] => cl'[c] = IF d = c THEN "hungup" ELSE cl[c]
    BY DEF TypeOK
  <2> QED
    BY <1>2, <2>1, <2>2 DEF Told
<1>3. ASSUME NEW from, NEW x, NEW p, NEW q, Send(t, from, x, p, q) PROVE Told
  <2>1. UNCHANGED cur
    BY <1>3 DEF Send
  <2>2. Delivers(connFd[t], x) \/ UNCHANGED cl
    BY <1>3 DEF Send, SendFails, SigPipe
  <2> QED
    BY <1>1, <1>2, <2>1, <2>2
<1>4. CASE RecvHeader(t)
  <2>1. CASE Top(t) \/ Call(t, "hcall", "recv") \/ CopyCmd(t) \/ HdrDown(t)
    BY <1>1, <2>1 DEF Top, Call, CopyCmd, HdrDown, CloseFd, Private, clientVars
  <2>3. CASE RecvHdr(t)
    <3>1. UNCHANGED <<cl, cur>>
      BY <2>3, Zenon DEF RecvHdr, clientVars
    <3> QED
      BY <1>1, <3>1
  <2>2. CASE CheckVersion(t) \/ CheckLen(t) \/ TestCmd(t)
    BY <1>1, <2>2 DEF CheckVersion, CheckLen, TestCmd, Private, clientVars
  <2>4. CASE RecvPiece(t)
    <3>1. UNCHANGED <<cl, cur>>
      BY <2>4, Zenon DEF RecvPiece, clientVars
    <3> QED
      BY <1>1, <3>1
  <2> QED
    BY <1>4, <2>1, <2>2, <2>3, <2>4 DEF RecvHeader
<1>5. CASE RecvRequest(t)
  <2>1. CASE TestModule(t) \/ SizeBuf(t) \/ ReadNeed(t) \/ Call(t, "dcall", "data")
    BY <1>1, <2>1 DEF TestModule, SizeBuf, ReadNeed, Call, Private, clientVars
  <2>2. CASE DataDown(t) \/ CheckData(t) \/ Decode(t)
    BY <1>1, <2>2 DEF DataDown, CloseFd, CheckData, Decode, Private, clientVars
  <2>3. CASE RecvData(t)
    <3>1. UNCHANGED <<cl, cur>>
      BY <2>3, Zenon DEF RecvData, clientVars
    <3> QED
      BY <1>1, <3>1
  <2> QED
    BY <1>5, <2>1, <2>2, <2>3 DEF RecvRequest
<1>6. CASE RecvEnds(t) \/ ErrClose(t) \/ EndClose(t)
  BY <1>1, <1>6 DEF RecvEnds, ErrClose, EndClose, CloseFd, Private, clientVars
<1>7. CASE ListFile(t)
  BY <1>1, <1>3, <1>7 DEF ListFile, OpenDir, Opens, OpenFails, SendName, NoName, CloseDir,
                          SendEnd, CloseFile, CloseFd, Private, clientVars
<1>8. CASE GetFile(t)
  BY <1>1, <1>3, <1>8 DEF GetFile, OpenFile, Opens, OpenFails, ReadFile, StartReplyHdr,
                          FillReplyHdr, SendReplyHdr, SendBody, CloseGot, CloseFile, CloseFd,
                          Private, clientVars
<1>9. CASE SetFile(t)
  <2>1. CASE WriteFile(t)
    <3>1. UNCHANGED cur
      BY <2>1 DEF WriteFile
    <3>2. Delivers(loc[t].file, JunkCell) \/ UNCHANGED cl
      BY <2>1 DEF WriteFile, SendFails, SigPipe
    <3> QED
      BY <1>1, <1>2, <3>1, <3>2
  <2> QED
    BY <1>1, <1>9, <2>1 DEF SetFile, CreateFile, Opens, OpenFails, CloseWritten, CloseFile,
                            CloseFd, Private, clientVars
<1> QED
  BY <1>4, <1>5, <1>6, <1>7, <1>8, <1>9 DEF Thread

\* A client that is connected has not said EXIT.
LastingInv == \A c \in Clients : Connected(c) \/ cl[c] = "off" => cur[c].cmd # "EXIT"

\* Whoever left early has left for good, and to be killed is to leave early.
LEMMA EarlyForGood ==
  ASSUME TypeOK, LastingInv, [Next]_vars
  PROVE  /\ LastingInv'
         /\ \A c \in Clients : LeftEarly(c) => LeftEarly(c)'
         /\ \A d \in Clients : Depart(d) => ~Patient'
<1>0. /\ cl \in [Clients -> {"off", "ready", "half", "wait", "closed", "hungup", "reset"}]
      /\ cur \in [Clients -> Requests \cup {NoRequest}]
  BY DEF TypeOK
<1>1. ASSUME NEW d \in Clients, Depart(d) PROVE Departures # {} /\ LeftEarly(d)'
  <2>1. PICK how \in Departures : cl' = [cl EXCEPT ![d] = how]
    BY <1>1 DEF Depart
  <2>2. how \in {"closed", "reset"} /\ cl'[d] = how
    BY <1>0, <2>1, ServerAssumption
  <2>3. cur'[d].cmd # "EXIT"
    BY <1>1 DEF Depart, LastingInv
  <2> QED
    BY <2>1, <2>2, <2>3 DEF LeftEarly
<1>2. \A d \in Clients : Depart(d) => ~Patient'
  BY <1>1 DEF Patient
<1>3. ASSUME NEW c \in Clients
      PROVE  /\ (Connected(c) \/ cl[c] = "off")' => cur'[c].cmd # "EXIT"
             /\ LeftEarly(c) => LeftEarly(c)'
  <2> DEFINE Keeps == /\ (Connected(c) \/ cl[c] = "off")' => cur'[c].cmd # "EXIT"
                      /\ LeftEarly(c) => LeftEarly(c)'
  <2>1. ASSUME UNCHANGED cur, cl'[c] = cl[c] \/ (cl[c] = "closed" /\ cl'[c] = "hungup")
        PROVE  Keeps
    BY <2>1 DEF LastingInv, Connected, LeftEarly
  <2>2. ASSUME cl[c] \in {"off", "ready", "half", "wait"}, cur'[c].cmd # "EXIT"
        PROVE  Keeps
    BY <2>2 DEF Connected, LeftEarly
  <2> SUFFICES Keeps
    OBVIOUS
  <2> HIDE DEF Keeps
  <2>3. CASE UNCHANGED vars
    BY <2>1, <2>3 DEF vars, clientVars
  <2>4. CASE Server_dealClientReq
    BY <2>1, <2>4 DEF Server_dealClientReq, EnterAccept, Accept, Spawn, SpawnFails, threadVars,
                      clientVars
  <2>5. CASE \E t \in Clients : Thread(t)
    BY <2>1, <2>5, ThreadClients
  <2>6. ASSUME NEW d \in Clients, Client(d), d # c PROVE Keeps
    <3>1. cl'[c] = cl[c] /\ cur'[c] = cur[c]
      BY <1>0, <2>6 DEF Client, Connect, SendHdr, SendPayload, TakeReply, NoticeDown, Depart
    <3> QED
      BY <3>1 DEF Keeps, LastingInv, Connected, LeftEarly
  <2>7. ASSUME Client(c) PROVE Keeps
    <3>1. CASE SendHdr(c)
      <4>1. PICK r \in Requests :
              /\ cur' = [cur EXCEPT ![c] = r]
              /\ cl' = [cl EXCEPT ![c] = IF r.cmd = "EXIT" THEN "closed" ELSE "half"]
        BY <3>1 DEF SendHdr
      <4>2. /\ cl[c] = "ready" /\ cur'[c] = r
            /\ cl'[c] = IF r.cmd = "EXIT" THEN "closed" ELSE "half"
        BY <1>0, <3>1, <4>1 DEF SendHdr
      <4> QED
        BY <4>2 DEF Keeps, Connected, LeftEarly
    <3>2. CASE Connect(c) \/ SendPayload(c) \/ TakeReply(c) \/ NoticeDown(c) \/ Depart(c)
      <4>1. cl[c] \in {"off", "ready", "half", "wait"} /\ UNCHANGED cur
        BY <3>2 DEF Connect, SendPayload, TakeReply, NoticeDown, Depart, Connected
      <4>2. cur[c].cmd # "EXIT"
        BY <4>1 DEF LastingInv, Connected
      <4> QED
        BY <2>2, <4>1, <4>2
    <3> QED
      BY <2>7, <3>1, <3>2 DEF Client
  <2> QED
    BY <2>3, <2>4, <2>5, <2>6, <2>7 DEF Next
<1> QED
  BY <1>2, <1>3 DEF LastingInv

\* At the start there is no client, no thread, and nothing open but the listener.
LEMMA StayInit == Staying /\ Init => StayInv /\ LastingInv
<1> SUFFICES ASSUME Staying, Init PROVE StayInv /\ LastingInv
  OBVIOUS
<1>1. TidyInv /\ ReplyInv /\ PiecesInv
  BY TidyInit, ReplyInit, PiecesInit
<1>2. Running
  BY DEF Init, Running
<1>3. ASSUME NEW c \in Clients PROVE StayAt(c)
  <2>1. cl[c] = "off" /\ pc[c] = "none"
    BY DEF Init
  <2> QED
    BY <2>1 DEF StayAt, Lost
<1>4. \A f \in Fds : fdTable[f] # Reserved
  <2>1. \A f \in Fds : fdTable[f] = IF f = ListenFd THEN Listener ELSE FreeFd
    BY DEF Init
  <2>2. Listener # Reserved /\ FreeFd # Reserved
    BY DEF Listener, FreeFd, Reserved
  <2> QED
    BY <2>1, <2>2
<1>5. LastingInv
  BY DEF Init, LastingInv, NoRequest
<1> QED
  BY <1>1, <1>2, <1>3, <1>4, <1>5 DEF StayInv

\* As long as nobody left early, and every header came whole, StayInv holds until a
\* payload in pieces ends the process; afterwards nothing is claimed.
Ailing == ~Running /\ \E c \in Clients : InPieces(c)
PatientInv == TypeOK /\ LastingInv /\ (Patient /\ NoTorn => StayInv \/ Ailing)

LEMMA PatientStep == Staying /\ PatientInv /\ [Next]_vars => PatientInv'
<1> SUFFICES ASSUME Staying, PatientInv, [Next]_vars PROVE PatientInv'
  OBVIOUS
<1>1. TypeOK' /\ LastingInv' /\ TypeOK
  BY TypeNext, EarlyForGood DEF PatientInv
<1>2. ASSUME Patient', NoTorn' PROVE (StayInv \/ Ailing)'
  <2>1. Patient /\ NoTorn
    BY <1>2, EarlyForGood, WholeBefore DEF PatientInv, Patient
  <2>2. \A d \in Clients : ~Depart(d)
    BY <1>2, EarlyForGood DEF PatientInv
  <2>3. CASE StayInv /\ Running'
    BY <1>2, <2>2, <2>3, StayStep
  <2>4. CASE StayInv /\ ~Running'
    <3>1. Running /\ PiecesInv /\ Next
      BY <2>4 DEF StayInv, Running, vars
    <3>2. EndReason
      BY <2>4, <3>1, EndsOnly
    <3>3. PICK t \in Clients : InPieces(t)
      BY <2>4, <3>2, NoReason
    <3>4. pc'[t] = pc[t] /\ loc'[t] = loc[t]
      BY <2>4, <3>1, <3>3, DyingDecodes DEF InPieces
    <3> QED
      BY <2>4, <3>3, <3>4 DEF Ailing, InPieces
  <2>5. CASE Ailing
    <3>1. UNCHANGED <<main, pc, loc>>
      BY <1>1, <2>5, NothingAfter DEF Ailing
    <3> QED
      BY <2>5, <3>1 DEF Ailing, InPieces, Running
  <2> QED
    BY <2>1, <2>3, <2>4, <2>5 DEF PatientInv
<1> QED
  BY <1>1, <1>2 DEF PatientInv

\* Served one at a time, clients never end the server but by leaving before they say
\* EXIT or by a message in pieces, however many they are and whatever they ask for:
\* every descriptor that the accept loop and the handlers open is closed again before
\* the next is needed.
THEOREM StaysUpSafe ==
  ASSUME Staying
  PROVE  Spec => []StaysUp
<1>1. PatientInv => StaysUp
  BY DEF PatientInv, Patient, StayInv, NoTorn, Ailing, StaysUp
<1>2. Init => PatientInv
  BY StayInit, TypeInit DEF PatientInv
<1>3. PatientInv /\ [Next]_vars => PatientInv'
  BY PatientStep
<1> QED
  BY <1>1, <1>2, <1>3, PTL DEF Spec

\* Where clients are not killed and no message is cut in pieces the server runs for
\* good: a client leaves early only if it finds its connection closed, which does not
\* end the process.
THEOREM RunsForGood ==
  ASSUME Staying, Departures = {}, Cuts = {},
         \A r \in Requests : r.mod \in {"TLV", "JSON"} => r.dlen = 1
  PROVE  Spec => []Running
<1> DEFINE GoodInv == TypeOK /\ LastingInv /\ StayInv /\ \A u \in Clients : Unbegun(loc[u])
<1>1. GoodInv => Running
  BY DEF StayInv
<1>2. Init => GoodInv
  <2>1. Init => \A u \in Clients : Unbegun(loc[u])
    BY DEF Init, NoLocals, Unbegun
  <2> QED
    BY <2>1, StayInit, TypeInit
<1>3. GoodInv /\ [Next]_vars => GoodInv'
  <2> SUFFICES ASSUME GoodInv, [Next]_vars PROVE GoodInv'
    OBVIOUS
  <2>1. TypeOK' /\ LastingInv'
    BY TypeNext, EarlyForGood
  <2>2. /\ \A u \in Clients : Unbegun(loc'[u])
        /\ NoTorn'
    BY TornStays DEF KeepsTorn, Unbegun, NoTorn
  <2>3. \A d \in Clients : ~Depart(d)
    BY DEF Depart
  <2>4. Running'
    <3> SUFFICES ASSUME ~Running' PROVE FALSE
      OBVIOUS
    <3>1. Running /\ PiecesInv /\ Next
      BY DEF StayInv, Running, vars
    <3>2. EndReason
      BY <3>1, EndsOnly
    <3> QED
      BY <3>2, NoReason, NothingInPieces
  <2> QED
    BY <2>1, <2>2, <2>3, <2>4, StayStep
<1> QED
  BY <1>1, <1>2, <1>3, PTL DEF Spec
=============================================================================
