----------------------- MODULE FileServerStreamProofs -----------------------
(***************************************************************************)
(* What holds of the connections when clients come one at a time           *)
(* (MaxLive <= 1): a thread closes its own descriptors only, and none that *)
(* ended left its connection open.  server_client_data_deal has two        *)
(* returns that do not close the connection; that they are taken only      *)
(* after Server_recvData has closed it rests on the stream of requests:    *)
(* what a thread receives as a header is one, as long as every header came *)
(* whole (NoTorn).                                                         *)
(* When nothing fails either, nothing is open between two clients.         *)
(***************************************************************************)
EXTENDS FileServerSerialProofs

-----------------------------------------------------------------------------
(* The stream of one client.  Its requests come header first, then the     *)
(* payload in order; the thread is always somewhere in the request it      *)
(* received the header of, or between two.                                 *)

PayCell(r, p) == [kind |-> "pay", req |-> r, part |-> p]

\* what comes in s after position j, whose cell is part p of request r
From(r, p, s, j) ==
    /\ p <= r.dlen
    /\ \A k \in 1..Len(s) - j : p + k <= r.dlen => s[j + k] = PayCell(r, p + k)
    /\ j < Len(s) /\ p = r.dlen => s[j + 1] = HdrCell(s[j + 1].req)

\* s goes on where part p of request r was the last cell
Stream(r, p, s) == /\ From(r, p, s, 0)
                   /\ \A j \in 1..Len(s) : From(s[j].req, s[j].part, s, j)

LastReq(r, s) == IF s = <<>> THEN r ELSE s[Len(s)].req
LastPart(p, s) == IF s = <<>> THEN p ELSE s[Len(s)].part

\* the client has sent whole requests, or the header of the last one only
Ended(state, request, r, p, s) ==
    /\ LastPart(p, s) \in {0, LastReq(r, s).dlen}
    /\ state = "off" => s = <<>>
    /\ state \in {"ready", "wait"} => LastPart(p, s) = LastReq(r, s).dlen
    /\ state = "half" => /\ LastPart(p, s) = 0 /\ LastReq(r, s) = request
                         /\ request \in Requests

\* the received cells all come from request r
BufOf(l, r) == /\ Len(l.buf) <= l.got
               /\ \A i \in 1..Len(l.buf) : l.buf[i].req = r

Fresh == {"hcall", "recv"}
GotHdr == {"copy", "ver", "len", "cmd", "mod", "size", "need"}
Getting == {"dcall", "data"}
Whole == {"check", "decode"}

\* a thread at q with locals l received part p of request r last
Placed(q, l, r, p) ==
    /\ q \in {"none", "top"} \cup Fresh \cup Decoded => p = r.dlen
    /\ q \in GotHdr \cup Getting \cup Whole =>
         r \in Requests /\ l.own = HdrOf(r) /\ p = l.got
    /\ q \in Getting \cup Whole => BufOf(l, r)
    /\ q \in Getting => l.got < l.need
    /\ q \in Whole => l.got = l.need

FrameOf(t) == \E r \in Requests \cup {NoRequest}, p \in Nat :
    /\ Stream(r, p, inq[t])
    /\ Ended(cl[t], cur[t], r, p, inq[t])
    /\ Placed(pc[t], loc[t], r, p)

\* The peer went down under a recv() and the thread goes on with what it has:
\* zeroes for a header, nothing for a payload, which is sent whole or not at all.
Lost(q, l) == \/ q = "ver" /\ l.own.ver # VersionOne
              \/ q = "decode" /\ l.got # l.need

Cut(l) == l.got = 0 /\ l.need # 0 /\ l.buf = <<>>

\* where the locals have not been touched since the thread's request began
Started(q, l) ==
    /\ q \in Fresh \cup {"hdrdown"} => l.own = ZeroHdr
    /\ q \in Fresh \cup GotHdr \cup {"hdrdown"} => l.got = 0 /\ l.buf = <<>>
    /\ q \in Fresh \cup {"hdrdown", "copy", "ver", "len"} => l.k = 1
    /\ q = "cmd" => \A j \in 1..l.k - 1 : l.own.cmd # CmdOrder[j]
    /\ q = "mod" => \A j \in 1..l.k - 1 : l.own.mod # ModOrder[j]

FramedInv(t) ==
    /\ pc[t] \in {"none", "top"} \cup Fresh \cup GotHdr \cup Getting \cup Whole \cup Decoded =>
         Lost(pc[t], loc[t]) \/ FrameOf(t)
    /\ Started(pc[t], loc[t])
    /\ pc[t] \in {"datadown", "decode"} =>
         loc[t].got = loc[t].need \/ Cut(loc[t])
    /\ pc[t] = "datadown" => loc[t].got # loc[t].need
    /\ pc[t] \in {"copy", "ver", "len"} =>
         Lost(pc[t], loc[t]) \/ hdrBytes[t] = HdrLen

-----------------------------------------------------------------------------
(* The descriptors of one client's thread.                                 *)

HeldInv(t) ==
    /\ Lost(pc[t], loc[t]) => fdTable[connFd[t]] \in {FreeFd, Reserved}
    /\ pc[t] = "endclose" => fdTable[connFd[t]] \in {Conn(t), FreeFd, Reserved}
    /\ pc[t] \notin {"none", "done", "endclose"} =>
         Lost(pc[t], loc[t]) \/ fdTable[connFd[t]] = Conn(t)
    /\ pc[t] \in {"recv", "data"} => loc[t].sock = Conn(t)
    /\ pc[t] \in FileHeld => fdTable[loc[t].file] = File(t)

\* every connection the process holds is the running thread's or about to be
TableInv ==
    /\ main.pc = "accept" => fdTable[main.fd] = Reserved
    /\ main.pc = "spawn" => fdTable[main.fd] = Conn(main.who)
    /\ \A f \in Fds, c \in Clients : fdTable[f] = Conn(c) =>
         \/ pc[c] \notin {"none", "done"} /\ f = connFd[c]
         \/ main.pc = "spawn" /\ main.who = c /\ main.fd = f

LineInv ==
    /\ OwnInv /\ NoTorn
    /\ Running => /\ TableInv
                  /\ \A t \in Clients : FramedInv(t) /\ HeldInv(t)

-----------------------------------------------------------------------------
(* What sending and receiving do to a stream.                              *)

\* Sizes, and the cells of a payload.
LEMMA StreamTypes ==
  /\ \A r \in Requests \cup {NoRequest} : r.dlen \in Nat
  /\ \A r \in Requests : /\ Payload(r) \in Seq(Cells) /\ Len(Payload(r)) = r.dlen
                         /\ \A i \in 1..r.dlen : Payload(r)[i] = PayCell(r, i)
  /\ \A x \in Cells : x.req \in Requests /\ x.part \in Nat
<1>1. \A r \in Requests \cup {NoRequest} : r.dlen \in Nat
  BY ServerAssumption DEF NoRequest
<1>2. ASSUME NEW r \in Requests
      PROVE  /\ Payload(r) \in Seq(Cells) /\ Len(Payload(r)) = r.dlen
             /\ \A i \in 1..r.dlen : Payload(r)[i] = PayCell(r, i)
  <2>1. Payload(r) \in Seq(Cells)
    BY PayloadType
  <2>2. Len(Payload(r)) = r.dlen
    BY <1>1, <2>1 DEF Payload
  <2> QED
    BY <2>1, <2>2 DEF Payload, PayCell
<1>3. \A x \in Cells : x.req \in Requests /\ x.part \in Nat
  BY DEF Cells
<1> QED
  BY <1>1, <1>2, <1>3

\* After a header that follows a complete request every position is as before.
LEMMA FromHeader ==
  ASSUME NEW s \in Seq(Cells), NEW q \in Requests, NEW j \in 0..Len(s),
         NEW y \in Requests \cup {NoRequest}, NEW b \in Nat, From(y, b, s, j),
         j = Len(s) => b = y.dlen,
         j < Len(s) => s[Len(s)].part = s[Len(s)].req.dlen
  PROVE  From(y, b, Append(s, HdrCell(q)), j)
<1> DEFINE n == Len(s)
           u == Append(s, HdrCell(q))
<1>1. n \in Nat /\ y.dlen \in Nat
  BY StreamTypes, LenProperties
<1>2. /\ Len(u) = n + 1 /\ u[n + 1] = HdrCell(q)
      /\ \A i \in 1..n : u[i] = s[i]
  BY AppendProperties, ValueTypes
<1> HIDE DEF u
<1>3. ASSUME NEW k \in 1..Len(u) - j, b + k <= y.dlen
      PROVE  u[j + k] = PayCell(y, b + k)
  <2>1. CASE j + k <= n
    <3>1. k \in 1..n - j /\ j + k \in 1..n
      BY <1>1, <1>2, <1>3, <2>1
    <3> QED
      BY <1>2, <1>3, <3>1 DEF From
  <2>2. CASE j + k = n + 1
    <3>1. j # n
      BY <1>1, <1>2, <1>3, <2>2
    <3>2. k - 1 \in 1..n - j /\ j + (k - 1) = n /\ b + (k - 1) <= y.dlen
      BY <1>1, <1>2, <1>3, <2>2, <3>1
    <3>3. s[n] = PayCell(y, b + (k - 1))
      BY <3>2 DEF From
    <3>4. b + (k - 1) = y.dlen
      BY <1>1, <3>1, <3>3 DEF PayCell
    <3> QED
      BY <1>1, <1>3, <3>4
  <2> QED
    BY <1>1, <1>2, <2>1, <2>2
<1>4. ASSUME j < Len(u), b = y.dlen
      PROVE  u[j + 1] = HdrCell(u[j + 1].req)
  <2>1. CASE j < n
    <3>1. j + 1 \in 1..n
      BY <1>1, <2>1
    <3> QED
      BY <1>2, <1>4, <2>1, <3>1 DEF From
  <2>2. CASE j = n
    BY <1>2, <2>2 DEF HdrCell
  <2> QED
    BY <1>1, <1>2, <1>4, <2>1, <2>2
<1>5. b <= y.dlen
  BY DEF From
<1> QED
  BY <1>3, <1>4, <1>5 DEF From, u

\* A header may follow a complete request.
LEMMA StreamHeader ==
  ASSUME NEW s \in Seq(Cells), NEW q \in Requests,
         NEW r \in Requests \cup {NoRequest}, NEW p \in Nat, Stream(r, p, s),
         LastPart(p, s) = LastReq(r, s).dlen
  PROVE  LET u == Append(s, HdrCell(q)) IN
         Stream(r, p, u) /\ u # <<>> /\ LastReq(r, u) = q /\ LastPart(p, u) = 0
<1> DEFINE n == Len(s)
           u == Append(s, HdrCell(q))
<1>1. n \in Nat /\ u \in Seq(Cells) /\ (s = <<>> <=> n = 0)
  BY LenProperties, EmptySeq, AppendProperties, ValueTypes
<1>2. /\ Len(u) = n + 1 /\ u[n + 1] = HdrCell(q)
      /\ \A i \in 1..n : u[i] = s[i]
  BY AppendProperties, ValueTypes
<1>3. n # 0 => s[n].part = s[n].req.dlen
  BY <1>1 DEF LastPart, LastReq
<1>4. From(r, p, u, 0)
  <2>1. From(r, p, s, 0)
    BY DEF Stream
  <2>2. n = 0 => p = r.dlen
    BY <1>1 DEF LastPart, LastReq
  <2> QED
    BY <1>1, <1>3, <2>1, <2>2, FromHeader
<1>5. ASSUME NEW j \in 1..n PROVE From(s[j].req, s[j].part, u, j)
  <2>1. From(s[j].req, s[j].part, s, j)
    BY <1>5 DEF Stream
  <2>2. s[j].req \in Requests /\ s[j].part \in Nat
    BY <1>5, StreamTypes, ElementOfSeq
  <2> QED
    BY <1>1, <1>3, <2>1, <2>2, FromHeader
<1>6. From(u[n + 1].req, u[n + 1].part, u, n + 1)
  <2>1. u[n + 1].req = q /\ u[n + 1].part = 0
    BY <1>2 DEF HdrCell
  <2> HIDE DEF u
  <2> QED
    BY <1>1, <1>2, <2>1, StreamTypes DEF From
<1>7. \A j \in 1..Len(u) : From(u[j].req, u[j].part, u, j)
  <2> HIDE DEF u
  <2> QED
    BY <1>1, <1>2, <1>5, <1>6
<1>8. u # <<>> /\ LastReq(r, u) = q /\ LastPart(p, u) = 0
  <2> HIDE DEF u
  <2>1. u # <<>>
    BY <1>1, <1>2, EmptySeq
  <2> QED
    BY <1>2, <2>1 DEF LastReq, LastPart, HdrCell
<1> QED
  BY <1>4, <1>7, <1>8 DEF Stream

\* A payload after a stream, position by position.
LEMMA PayloadAfter ==
  ASSUME NEW s \in Seq(Cells), NEW q \in Requests
  PROVE  LET u == s \o Payload(q) IN
         /\ u \in Seq(Cells) /\ Len(u) = Len(s) + q.dlen
         /\ \A i \in 1..Len(s) : u[i] = s[i]
         /\ \A i \in 1..q.dlen : u[Len(s) + i] = PayCell(q, i)
<1> DEFINE n == Len(s)
           u == s \o Payload(q)
<1>1. n \in Nat /\ q.dlen \in Nat
  BY LenProperties, StreamTypes
<1>2. /\ Payload(q) \in Seq(Cells) /\ Len(Payload(q)) = q.dlen
      /\ \A i \in 1..q.dlen : Payload(q)[i] = PayCell(q, i)
  BY StreamTypes
<1>3. /\ u \in Seq(Cells) /\ Len(u) = n + q.dlen
      /\ \A i \in 1..n + q.dlen : u[i] = IF i <= n THEN s[i] ELSE Payload(q)[i - n]
  <2>1. /\ u \in Seq(Cells) /\ Len(u) = n + Len(Payload(q))
        /\ \A i \in 1..n + Len(Payload(q)) :
             u[i] = IF i <= n THEN s[i] ELSE Payload(q)[i - n]
    <3>1. Payload(q) \in Seq(Cells)
      BY <1>2
    <3> QED
      BY <3>1, ConcatProperties, Zenon
  <2> QED
    BY <1>2, <2>1
<1> HIDE DEF u
<1>4. \A i \in 1..n : u[i] = s[i]
  <2> SUFFICES ASSUME NEW i \in 1..n PROVE u[i] = s[i]
    OBVIOUS
  <2>1. i \in 1..n + q.dlen /\ i <= n
    BY <1>1
  <2> QED
    BY <1>3, <2>1
<1>5. \A i \in 1..q.dlen : u[n + i] = PayCell(q, i)
  <2> SUFFICES ASSUME NEW i \in 1..q.dlen PROVE u[n + i] = PayCell(q, i)
    OBVIOUS
  <2>1. n + i \in 1..n + q.dlen /\ ~(n + i <= n) /\ (n + i) - n = i
    BY <1>1
  <2>2. u[n + i] = Payload(q)[(n + i) - n]
    BY <1>3, <2>1
  <2> QED
    BY <1>2, <2>1, <2>2
<1> QED
  BY <1>3, <1>4, <1>5 DEF u

\* After a payload that follows its header every position is as before.
LEMMA FromPayload ==
  ASSUME NEW s \in Seq(Cells), NEW q \in Requests, NEW j \in 0..Len(s),
         NEW y \in Requests \cup {NoRequest}, NEW b \in Nat, From(y, b, s, j),
         j = Len(s) => b = 0 /\ y = q,
         j < Len(s) => s[Len(s)].part = 0
  PROVE  From(y, b, s \o Payload(q), j)
<1> DEFINE n == Len(s)
           u == s \o Payload(q)
<1>1. n \in Nat /\ y.dlen \in Nat /\ q.dlen \in Nat
  BY StreamTypes, LenProperties
<1>2. /\ Len(u) = n + q.dlen
      /\ \A i \in 1..n : u[i] = s[i]
      /\ \A i \in 1..q.dlen : u[n + i] = PayCell(q, i)
  BY PayloadAfter
<1> HIDE DEF u
<1>3. ASSUME NEW k \in 1..Len(u) - j, b + k <= y.dlen
      PROVE  u[j + k] = PayCell(y, b + k)
  <2>1. CASE j + k <= n
    <3>1. k \in 1..n - j /\ j + k \in 1..n
      <4>1. Len(u) = n + q.dlen /\ j \in 0..n
        BY <1>2
      <4> HIDE DEF n
      <4> QED
        BY <1>1, <1>3, <2>1, <4>1
    <3> QED
      BY <1>2, <1>3, <3>1 DEF From
  <2>2. CASE j = n
    <3>1. k \in 1..q.dlen /\ y = q /\ b + k = k
      BY <1>1, <1>2, <1>3, <2>2
    <3> QED
      BY <1>2, <2>2, <3>1
  <2>3. CASE j < n /\ j + k > n
    <3> DEFINE d == y.dlen
               m == q.dlen
    <3>0. d \in Nat /\ m \in Nat /\ b + k <= d /\ k \in 1..Len(u) - j /\ Len(u) = n + m
      BY <1>1, <1>2, <1>3
    <3> HIDE DEF d, m
    <3>1. n - j \in 1..n - j /\ j + (n - j) = n /\ b + (n - j) <= y.dlen
      <4>1. n - j \in 1..n - j /\ j + (n - j) = n /\ b + (n - j) <= d
        BY <1>1, <2>3, <3>0
      <4> QED
        BY <4>1 DEF d
    <3>2. s[n] = PayCell(y, b + (n - j))
      BY <3>1 DEF From
    <3> QED
      BY <1>1, <2>3, <3>2 DEF PayCell
  <2> QED
    BY <1>1, <2>1, <2>2, <2>3
<1>4. ASSUME j < Len(u), b = y.dlen
      PROVE  u[j + 1] = HdrCell(u[j + 1].req)
  <2>1. CASE j < n
    <3>1. j + 1 \in 1..n
      BY <1>1, <2>1
    <3> QED
      BY <1>2, <1>4, <2>1, <3>1 DEF From
  <2>2. CASE j = n
    BY <1>1, <1>2, <1>4, <2>2
  <2> QED
    BY <1>1, <2>1, <2>2
<1>5. b <= y.dlen
  BY DEF From
<1> QED
  BY <1>3, <1>4, <1>5 DEF From, u

\* The payload may follow its header.
LEMMA StreamPayload ==
  ASSUME NEW s \in Seq(Cells), NEW q \in Requests,
         NEW r \in Requests \cup {NoRequest}, NEW p \in Nat, Stream(r, p, s),
         LastPart(p, s) = 0, LastReq(r, s) = q
  PROVE  LET u == s \o Payload(q) IN
         Stream(r, p, u) /\ LastPart(p, u) = LastReq(r, u).dlen
<1> DEFINE n == Len(s)
           u == s \o Payload(q)
<1>1. n \in Nat /\ q.dlen \in Nat /\ (s = <<>> <=> n = 0)
  BY LenProperties, EmptySeq, StreamTypes
<1>2. /\ u \in Seq(Cells) /\ Len(u) = n + q.dlen
      /\ \A i \in 1..n : u[i] = s[i]
      /\ \A i \in 1..q.dlen : u[n + i] = PayCell(q, i)
  BY PayloadAfter
<1>3. n # 0 => s[n].part = 0 /\ s[n].req = q
  BY <1>1 DEF LastPart, LastReq
<1>4. From(r, p, u, 0)
  <2>1. From(r, p, s, 0)
    BY DEF Stream
  <2>2. n = 0 => p = 0 /\ r = q
    BY <1>1 DEF LastPart, LastReq
  <2> QED
    BY <1>1, <1>3, <2>1, <2>2, FromPayload
<1>5. ASSUME NEW j \in 1..n PROVE From(s[j].req, s[j].part, u, j)
  <2>1. From(s[j].req, s[j].part, s, j)
    BY <1>5 DEF Stream
  <2>2. s[j].req \in Requests /\ s[j].part \in Nat
    BY <1>5, StreamTypes, ElementOfSeq
  <2> QED
    BY <1>1, <1>3, <2>1, <2>2, FromPayload
<1>6. ASSUME NEW i \in 1..q.dlen PROVE From(u[n + i].req, u[n + i].part, u, n + i)
  <2> HIDE DEF u
  <2>0. u[n + i] = PayCell(q, i)
    BY <1>2, <1>6
  <2>1. u[n + i].req = q /\ u[n + i].part = i
    BY <2>0 DEF PayCell
  <2>2. ASSUME NEW k \in 1..Len(u) - (n + i), i + k <= q.dlen
        PROVE  u[(n + i) + k] = PayCell(q, i + k)
    <3>1. i + k \in 1..q.dlen /\ (n + i) + k = n + (i + k)
      BY <1>1, <1>6, <2>2
    <3> QED
      BY <1>2, <3>1
  <2>3. ~(n + i < Len(u) /\ i = q.dlen)
    BY <1>1, <1>2, <1>6
  <2>4. i <= q.dlen
    BY <1>1
  <2> QED
    BY <2>1, <2>2, <2>3, <2>4 DEF From
<1>7. \A j \in 1..Len(u) : From(u[j].req, u[j].part, u, j)
  <2> HIDE DEF u
  <2> SUFFICES ASSUME NEW j \in 1..Len(u) PROVE From(u[j].req, u[j].part, u, j)
    OBVIOUS
  <2>1. CASE j \in 1..n
    BY <1>2, <1>5, <2>1
  <2>2. CASE j \notin 1..n
    <3>1. j - n \in 1..q.dlen /\ n + (j - n) = j
      BY <1>1, <1>2, <2>2
    <3> QED
      BY <1>6, <3>1
  <2> QED
    BY <2>1, <2>2
<1>8. LastPart(p, u) = LastReq(r, u).dlen
  <2>1. CASE q.dlen = 0
    <3>1. Len(u) = n /\ (u = <<>> <=> n = 0)
      BY <1>1, <1>2, <2>1, EmptySeq
    <3> HIDE DEF u
    <3>2. n # 0 => u[n] = s[n]
      BY <1>1, <1>2
    <3> QED
      BY <1>1, <1>3, <2>1, <3>1, <3>2 DEF LastPart, LastReq
  <2>2. CASE q.dlen # 0
    <3> HIDE DEF u
    <3>1. q.dlen \in 1..q.dlen /\ Len(u) # 0
      BY <1>1, <1>2, <2>2
    <3>2. u # <<>> /\ u[Len(u)] = PayCell(q, q.dlen)
      BY <1>2, <3>1, EmptySeq
    <3> QED
      BY <3>2 DEF LastPart, LastReq, PayCell
  <2> QED
    BY <2>1, <2>2
<1> QED
  BY <1>4, <1>7, <1>8 DEF Stream

\* u is what is left of s without its first n cells
Rest(u, s, n) == /\ u \in Seq(Cells) /\ n \in 1..Len(s) /\ Len(u) = Len(s) - n
                 /\ \A i \in 1..Len(u) : u[i] = s[n + i]

\* A recv() of n cells leaves the rest, and Tail is the rest after one.
LEMMA RestOf ==
  ASSUME NEW s \in Seq(Cells), NEW n \in 1..Len(s)
  PROVE  Rest(SubSeq(s, n + 1, Len(s)), s, n) /\ Rest(Tail(s), s, 1)
<1> DEFINE u == SubSeq(s, n + 1, Len(s))
           v == Tail(s)
<1>0. Len(s) \in Nat /\ n \in Nat /\ s # <<>>
  BY LenProperties, EmptySeq
<1>1. /\ u \in Seq(Cells)
      /\ Len(u) = IF n + 1 <= Len(s) THEN Len(s) - (n + 1) + 1 ELSE 0
      /\ \A i \in 1..Len(s) - (n + 1) + 1 : u[i] = s[(n + 1) + i - 1]
  <2>1. \A i \in n+1..Len(s) : s[i] \in Cells
    BY <1>0, ElementOfSeq
  <2> QED
    BY <1>0, <2>1, SubSeqProperties
<1>2. /\ v \in Seq(Cells) /\ Len(v) = Len(s) - 1
      /\ \A i \in 1..Len(v) : v[i] = s[i + 1]
  BY <1>0, HeadTailProperties
<1> HIDE DEF u, v
<1>3. Len(u) = Len(s) - n
  BY <1>0, <1>1
<1>4. ASSUME NEW i \in 1..Len(u) PROVE u[i] = s[n + i]
  <2>1. i \in 1..Len(s) - (n + 1) + 1 /\ (n + 1) + i - 1 = n + i
    BY <1>0, <1>3, <1>4
  <2> QED
    BY <1>1, <2>1
<1>5. Rest(u, s, n)
  BY <1>1, <1>3, <1>4 DEF Rest
<1>6. Rest(v, s, 1)
  <2>1. 1 \in 1..Len(s) /\ \A i \in 1..Len(v) : i + 1 = 1 + i
    BY <1>0, <1>2
  <2> QED
    BY <1>2, <2>1 DEF Rest
<1> QED
  BY <1>5, <1>6 DEF u, v

\* What is left after n cells is a stream that goes on where they end.
LEMMA StreamRest ==
  ASSUME NEW s \in Seq(Cells), NEW u, NEW n, Rest(u, s, n),
         NEW r \in Requests \cup {NoRequest}, NEW p \in Nat, Stream(r, p, s)
  PROVE  /\ Stream(s[n].req, s[n].part, u)
         /\ LastReq(s[n].req, u) = LastReq(r, s)
         /\ LastPart(s[n].part, u) = LastPart(p, s)
<1>0. /\ u \in Seq(Cells) /\ n \in 1..Len(s) /\ Len(u) = Len(s) - n
      /\ \A i \in 1..Len(u) : u[i] = s[n + i]
  BY DEF Rest
<1>1. Len(s) \in Nat /\ Len(u) \in Nat /\ s # <<>> /\ (u = <<>> <=> Len(u) = 0)
  BY <1>0, LenProperties, EmptySeq
<1>2. ASSUME NEW j \in 0..Len(u), NEW y \in Requests, NEW b \in Nat, From(y, b, s, n + j)
      PROVE  From(y, b, u, j)
  <2>1. ASSUME NEW k \in 1..Len(u) - j, b + k <= y.dlen
        PROVE  u[j + k] = PayCell(y, b + k)
    <3>1. k \in 1..Len(s) - (n + j) /\ j + k \in 1..Len(u) /\ n + (j + k) = (n + j) + k
      BY <1>0, <1>1, <2>1
    <3>2. s[(n + j) + k] = PayCell(y, b + k)
      BY <1>2, <2>1, <3>1 DEF From
    <3> QED
      BY <1>0, <3>1, <3>2
  <2>2. ASSUME j < Len(u), b = y.dlen PROVE u[j + 1] = HdrCell(u[j + 1].req)
    <3>1. n + j < Len(s) /\ j + 1 \in 1..Len(u) /\ n + (j + 1) = (n + j) + 1
      BY <1>0, <1>1, <2>2
    <3>2. s[(n + j) + 1] = HdrCell(s[(n + j) + 1].req)
      BY <1>2, <2>2, <3>1 DEF From
    <3> QED
      BY <1>0, <3>1, <3>2
  <2>3. b <= y.dlen
    BY <1>2 DEF From
  <2> QED
    BY <2>1, <2>2, <2>3 DEF From
<1>3. From(s[n].req, s[n].part, u, 0)
  <2>1. s[n].req \in Requests /\ s[n].part \in Nat
    BY <1>0, <1>1, StreamTypes, ElementOfSeq
  <2>2. From(s[n].req, s[n].part, s, n + 0)
    BY <1>0, <1>1 DEF Stream
  <2> QED
    BY <1>1, <1>2, <2>1, <2>2
<1>4. ASSUME NEW j \in 1..Len(u) PROVE From(u[j].req, u[j].part, u, j)
  <2>1. n + j \in 1..Len(s) /\ u[j] = s[n + j]
    BY <1>0, <1>1, <1>4
  <2>2. u[j].req \in Requests /\ u[j].part \in Nat
    BY <1>0, <1>4, StreamTypes, ElementOfSeq
  <2>3. From(u[j].req, u[j].part, s, n + j)
    BY <2>1 DEF Stream
  <2> QED
    BY <1>1, <1>2, <2>2, <2>3
<1>5. u # <<>> => u[Len(u)] = s[Len(s)]
  <2> SUFFICES ASSUME u # <<>> PROVE u[Len(u)] = s[Len(s)]
    OBVIOUS
  <2>1. Len(u) \in 1..Len(u) /\ n + Len(u) = Len(s)
    BY <1>0, <1>1
  <2> QED
    BY <1>0, <2>1
<1>6. u = <<>> => n = Len(s)
  BY <1>0, <1>1
<1> QED
  BY <1>1, <1>3, <1>4, <1>5, <1>6 DEF Stream, LastReq, LastPart

\* The next cells of a request, as long as it has some, are its payload.
LEMMA StreamCells ==
  ASSUME NEW s \in Seq(Cells), NEW n \in 1..Len(s),
         NEW r \in Requests \cup {NoRequest}, NEW p \in Nat, Stream(r, p, s),
         p + n <= r.dlen
  PROVE  /\ \A i \in 1..n : s[i] = PayCell(r, p + i) /\ s[i].req = r
         /\ s[n].req = r /\ s[n].part = p + n
<1>1. Len(s) \in Nat /\ r.dlen \in Nat
  BY LenProperties, StreamTypes
<1>2. ASSUME NEW i \in 1..n PROVE s[i] = PayCell(r, p + i)
  <2>1. i \in 1..Len(s) - 0 /\ p + i <= r.dlen /\ 0 + i = i
    BY <1>1, <1>2
  <2>2. s[0 + i] = PayCell(r, p + i)
    BY <2>1 DEF Stream, From
  <2> QED
    BY <2>1, <2>2
<1>3. n \in 1..n
  BY <1>1
<1>4. s[n] = PayCell(r, p + n)
  BY <1>2, <1>3
<1>5. \A i : PayCell(r, i).req = r /\ PayCell(r, i).part = i
  BY DEF PayCell
<1>6. \A i \in 1..n : s[i].req = r
  BY <1>2, <1>5
<1> QED
  BY <1>2, <1>4, <1>5, <1>6

\* Where a request is complete the next cell is a header.
LEMMA StreamNext ==
  ASSUME NEW s \in Seq(Cells), s # <<>>,
         NEW r \in Requests \cup {NoRequest}, Stream(r, r.dlen, s)
  PROVE  s[1] = HdrCell(s[1].req) /\ s[1].req \in Requests
<1>1. Len(s) \in Nat /\ Len(s) # 0
  BY LenProperties, EmptySeq
<1>2. 1 \in 1..Len(s) /\ 0 < Len(s) /\ 0 + 1 = 1
  BY <1>1
<1>3. s[0 + 1] = HdrCell(s[0 + 1].req)
  BY <1>2 DEF Stream, From
<1>4. s[1] \in Cells
  BY <1>2, ElementOfSeq
<1> QED
  BY <1>2, <1>3, <1>4, StreamTypes

-----------------------------------------------------------------------------
(* What a step of the thread may do, and what follows from it.             *)

\* the descriptor entry d of a process becomes e by a step of thread t
Moved(t, d, e) == \/ e = d
                  \/ d \in {Conn(t), File(t)} /\ e = FreeFd
                  \/ d = FreeFd /\ e = File(t)

KeepsLine(t) ==
    Running' =>
      /\ UNCHANGED <<main, cur, connFd>>
      /\ \A u \in Clients \ {t} : inq'[u] = inq[u] /\ cl'[u] = cl[u]
      /\ \A f \in Fds : Moved(t, fdTable[f], fdTable'[f])
      /\ pc'[t] = "done" => fdTable'[connFd[t]] # Conn(t)
      /\ FramedInv(t)' /\ HeldInv(t)'

\* The places of a thread, apart from each other.
LEMMA LinePlaces ==
  /\ \A p \in GotHdr \cup Getting \cup Whole \cup Fresh \cup Decoded :
       p \notin {"none", "top", "done", "endclose", "errclose", "hdrdown", "datadown"}
  /\ \A p \in GotHdr : p \notin Getting \cup Whole \cup Fresh \cup Decoded
  /\ \A p \in Getting : p \notin Whole \cup Fresh \cup Decoded
  /\ \A p \in Whole : p \notin Fresh \cup Decoded
  /\ \A p \in Fresh : p \notin Decoded
  /\ \A p \in FileHeld : p \in Decoded
BY DEF GotHdr, Getting, Whole, Fresh, Decoded, FileHeld

\* Connections differ by their owner and from everything else.
LEMMA EntriesDiffer ==
  /\ \A c, d \in Clients : Conn(c) = Conn(d) => c = d
  /\ \A c, d \in Clients : Conn(c) # File(d)
  /\ \A c \in Clients : Conn(c) \notin {FreeFd, Reserved} /\ File(c) \notin {FreeFd, Reserved}
  /\ FreeFd # Reserved
  /\ \A c \in Clients : /\ Conn(c).kind = "conn" /\ Conn(c).who = c
                        /\ File(c).kind = "file"
<1>1. \A c \in Clients : Conn(c).kind = "conn" /\ Conn(c).who = c /\ File(c).kind = "file"
  BY DEF Conn, File
<1>2. FreeFd.kind = "free" /\ Reserved.kind = "reserved"
  BY DEF FreeFd, Reserved
<1> QED
  BY <1>1, <1>2

\* The stream stays framed when nothing is sent or received and the thread's
\* place in it stays the same.
LEMMA FrameKept ==
  ASSUME NEW t \in Clients, FrameOf(t), UNCHANGED <<inq, cur>>,
         cl'[t] = cl[t] \/ cl'[t] = "hungup",
         \A r \in Requests \cup {NoRequest}, p \in Nat :
            Placed(pc[t], loc[t], r, p) => Placed(pc'[t], loc'[t], r, p)
  PROVE  FrameOf(t)'
<1>1. PICK r \in Requests \cup {NoRequest}, p \in Nat :
        /\ Stream(r, p, inq[t])
        /\ Ended(cl[t], cur[t], r, p, inq[t])
        /\ Placed(pc[t], loc[t], r, p)
  BY DEF FrameOf
<1>2. Ended(cl'[t], cur[t], r, p, inq[t])
  BY <1>1 DEF Ended
<1> QED
  BY <1>1, <1>2 DEF FrameOf

\* A thread that works on a request or waits for one has its connection.
LEMMA HasConnection ==
  ASSUME LineInv, Running, NEW t \in Clients, pc[t] \notin {"none", "done", "endclose"},
         ~Lost(pc[t], loc[t])
  PROVE  fdTable[connFd[t]] = Conn(t)
BY DEF LineInv, HeldInv

\* A step that leaves the descriptors alone.
LEMMA HeldQuiet ==
  ASSUME LineInv, Running, NEW t \in Clients, pc[t] \notin {"none", "done", "endclose"},
         ~Lost(pc[t], loc[t]), UNCHANGED <<fdTable, connFd>>,
         pc'[t] # "done", ~Lost(pc'[t], loc'[t]),
         pc'[t] \in {"recv", "data"} => loc'[t].sock = Conn(t),
         pc'[t] \in FileHeld => pc[t] \in FileHeld /\ loc'[t].file = loc[t].file
  PROVE  HeldInv(t)'
<1>1. fdTable'[connFd'[t]] = Conn(t)
  BY HasConnection
<1>2. pc'[t] \in FileHeld => fdTable'[loc'[t].file] = File(t)
  BY DEF LineInv, HeldInv
<1> QED
  BY <1>1, <1>2 DEF HeldInv

\* Wherever it is framed or owes nothing, a thread that does not read the
\* header any more keeps its part of the invariant.
LEMMA FramedBy ==
  ASSUME NEW t \in Clients,
         \/ pc'[t] \in Decoded \cup {"top"} /\ FrameOf(t)'
         \/ pc'[t] \in {"endclose", "errclose", "done"}
  PROVE  FramedInv(t)' /\ ~Lost(pc'[t], loc'[t])
<1>1. /\ pc'[t] \notin Fresh \cup GotHdr \cup Getting \cup Whole
      /\ pc'[t] \notin {"hdrdown", "datadown", "ver", "decode", "copy", "len", "cmd", "mod"}
  BY DEF Fresh, GotHdr, Getting, Whole, Decoded
<1>2. Started(pc'[t], loc'[t]) /\ ~Lost(pc'[t], loc'[t])
  BY <1>1 DEF Started, Lost
<1>3. pc'[t] \in {"endclose", "errclose", "done"} => pc'[t] \notin {"none", "top"} \cup Decoded
  BY LinePlaces
<1> QED
  BY <1>1, <1>2, <1>3 DEF FramedInv

\* A thread that has decoded a request has received all of it.
LEMMA DecodedFrame ==
  ASSUME LineInv, Running, NEW t \in Clients, pc[t] \in Decoded
  PROVE  /\ FrameOf(t) /\ ~Lost(pc[t], loc[t]) /\ pc[t] \notin {"none", "done", "endclose"}
         /\ \A q \in Decoded \cup {"top"} : \A r \in Requests \cup {NoRequest}, p \in Nat :
              \A m : Placed(pc[t], loc[t], r, p) => Placed(q, m, r, p)
<1>1. ~Lost(pc[t], loc[t]) /\ pc[t] \notin {"none", "done", "endclose"}
  BY LinePlaces DEF Lost, Whole, GotHdr, Decoded
<1>2. FrameOf(t)
  BY <1>1 DEF LineInv, FramedInv
<1>3. \A q \in Decoded \cup {"top"} : q \notin GotHdr \cup Getting \cup Whole
  BY LinePlaces DEF Decoded, GotHdr, Getting, Whole
<1> QED
  BY <1>1, <1>2, <1>3 DEF Placed

\* The other threads idle, so that what one thread keeps is kept by all.
LEMMA LineThread ==
  ASSUME LineInv, OwnInv', NoTorn', Running, NEW t \in Clients, KeepsOwn(t), KeepsLine(t)
  PROVE  LineInv'
<1> SUFFICES ASSUME Running'
             PROVE  TableInv' /\ \A u \in Clients : FramedInv(u)' /\ HeldInv(u)'
  BY DEF LineInv
<1>1. /\ TypeOK /\ SoloInv /\ TableInv
      /\ pc[t] \notin {"none", "done"} /\ pc'[t] # "none"
      /\ \A u \in Clients \ {t} : pc'[u] = pc[u]
      /\ UNCHANGED <<main, cur, connFd>>
      /\ \A u \in Clients \ {t} : inq'[u] = inq[u] /\ cl'[u] = cl[u]
      /\ \A f \in Fds : Moved(t, fdTable[f], fdTable'[f])
      /\ pc'[t] = "done" => fdTable'[connFd[t]] # Conn(t)
      /\ FramedInv(t)' /\ HeldInv(t)'
  BY DEF LineInv, OwnInv, KeepsOwn, KeepsSolo, KeepsLine
<1>2. \A u \in Clients \ {t} : pc[u] \in {"none", "done"}
  BY <1>1, SoloOthers
<1>3. ASSUME NEW u \in Clients, u # t
      PROVE  FramedInv(u)' /\ HeldInv(u)'
  <2>1. pc'[u] = pc[u] /\ pc'[u] \in {"none", "done"}
    BY <1>1, <1>2, <1>3
  <2>2. ~Lost(pc'[u], loc'[u]) /\ ~Lost(pc[u], loc[u]) /\ Started(pc'[u], loc'[u])
    BY <2>1, LinePlaces DEF Lost, Started
  <2>3. HeldInv(u)'
    BY <2>1, <2>2, LinePlaces DEF HeldInv
  <2>4. pc[u] = "none" => FrameOf(u)'
    <3> SUFFICES ASSUME pc[u] = "none" PROVE FrameOf(u)'
      OBVIOUS
    <3>1. FrameOf(u)
      BY <2>2 DEF LineInv, FramedInv
    <3>2. PICK r \in Requests \cup {NoRequest}, p \in Nat :
            /\ Stream(r, p, inq[u])
            /\ Ended(cl[u], cur[u], r, p, inq[u])
            /\ Placed(pc[u], loc[u], r, p)
      BY <3>1 DEF FrameOf
    <3>3. Placed("none", loc'[u], r, p)
      BY <3>2, LinePlaces DEF Placed
    <3> QED
      BY <1>1, <1>3, <2>1, <3>2, <3>3 DEF FrameOf
  <2>5. pc[u] = "done" => pc'[u] \notin {"none", "top"} \cup Fresh \cup GotHdr \cup Getting
                                         \cup Whole \cup Decoded
    BY <2>1, LinePlaces
  <2>6. FramedInv(u)'
    BY <2>1, <2>2, <2>4, <2>5 DEF FramedInv
  <2> QED
    BY <2>3, <2>6
<1>4. TableInv'
  <2>1. main.fd \in Fds
    BY <1>1 DEF TypeOK, MainLoop
  <2>2. main.pc = "accept" => fdTable'[main.fd] = Reserved
    BY <1>1, <2>1, EntriesDiffer DEF TableInv, Moved
  <2>3. main.pc = "spawn" => fdTable'[main.fd] = Conn(main.who)
    <3> SUFFICES ASSUME main.pc = "spawn" PROVE fdTable'[main.fd] = Conn(main.who)
      OBVIOUS
    <3>1. main.who \in Clients /\ main.who # t /\ fdTable[main.fd] = Conn(main.who)
      BY <1>1 DEF SoloInv, TableInv
    <3> QED
      BY <1>1, <2>1, <3>1, EntriesDiffer DEF Moved
  <2>4. ASSUME NEW f \in Fds, NEW c \in Clients, fdTable'[f] = Conn(c)
        PROVE  \/ pc'[c] \notin {"none", "done"} /\ f = connFd'[c]
               \/ main'.pc = "spawn" /\ main'.who = c /\ main'.fd = f
    <3>1. fdTable[f] = Conn(c)
      BY <1>1, <2>4, EntriesDiffer DEF Moved
    <3>2. CASE main.pc = "spawn" /\ main.who = c /\ main.fd = f
      BY <1>1, <3>2
    <3>3. CASE pc[c] \notin {"none", "done"} /\ f = connFd[c]
      <4>1. c = t
        BY <1>2, <3>3
      <4> QED
        BY <1>1, <2>4, <3>3, <4>1
    <3> QED
      BY <1>1, <3>1, <3>2, <3>3 DEF TableInv
  <2> QED
    BY <1>1, <2>2, <2>3, <2>4 DEF TableInv
<1> QED
  BY <1>1, <1>3, <1>4

-----------------------------------------------------------------------------
(* The thread's steps: the handlers.                                       *)

\* A step of a handler that leaves the descriptors alone.
LEMMA LineQuiet ==
  ASSUME LineInv, Running, NEW t \in Clients, pc[t] \in Decoded,
         NEW q \in Decoded \cup {"top", "endclose"}, pc'[t] = q,
         UNCHANGED <<main, fdTable, connFd, inq, cur>>,
         cl'[t] = cl[t] \/ cl'[t] = "hungup",
         \A u \in Clients \ {t} : cl'[u] = cl[u],
         q \in FileHeld => pc[t] \in FileHeld /\ loc'[t].file = loc[t].file
  PROVE  KeepsLine(t)
<1>1. /\ FrameOf(t) /\ ~Lost(pc[t], loc[t]) /\ pc[t] \notin {"none", "done", "endclose"}
      /\ \A r \in Requests \cup {NoRequest}, p \in Nat :
           q # "endclose" /\ Placed(pc[t], loc[t], r, p) => Placed(q, loc'[t], r, p)
  BY DecodedFrame
<1>2. q # "endclose" => FrameOf(t)'
  BY <1>1, FrameKept
<1>3. FramedInv(t)' /\ ~Lost(pc'[t], loc'[t])
  BY <1>2, FramedBy
<1>4. q # "done" /\ q \notin {"recv", "data"}
  BY LinePlaces DEF Fresh, Getting, Decoded
<1>5. HeldInv(t)'
  BY <1>1, <1>3, <1>4, HeldQuiet
<1>6. \A f \in Fds : Moved(t, fdTable[f], fdTable'[f])
  BY DEF Moved
<1> QED
  BY <1>3, <1>4, <1>5, <1>6 DEF KeepsLine

\* The process ending ends every obligation.
LEMMA LineDies ==
  ASSUME LineInv, NEW t \in Clients, Die
  PROVE  KeepsLine(t)
<1>1. main'.pc = "exited"
  BY DieEnds DEF LineInv, OwnInv
<1> QED
  BY <1>1 DEF KeepsLine, Running

\* A close() of a descriptor the thread has.
LEMMA ClosedMoves ==
  ASSUME TypeOK, NEW t \in Clients, NEW g \in Fds,
         fdTable[g] \in {Conn(t), File(t), FreeFd, Reserved}, fdTable' = Closed(g)
  PROVE  /\ \A f \in Fds : Moved(t, fdTable[f], fdTable'[f])
         /\ \A f \in Fds \ {g} : fdTable'[f] = fdTable[f]
         /\ fdTable'[g] \in {FreeFd, Reserved}
         /\ fdTable[g] \in {Conn(t), File(t)} => fdTable'[g] = FreeFd
<1>1. fdTable \in [Fds -> FdEntry]
  BY DEF TypeOK
<1>2. CASE fdTable[g] \in {FreeFd, Reserved}
  <2>1. fdTable' = fdTable
    BY <1>2 DEF Closed
  <2> QED
    BY <1>2, <2>1, EntriesDiffer DEF Moved
<1>3. CASE fdTable[g] \in {Conn(t), File(t)}
  <2>1. fdTable' = [fdTable EXCEPT ![g] = FreeFd]
    BY <1>3, EntriesDiffer DEF Closed
  <2>2. fdTable'[g] = FreeFd /\ \A f \in Fds \ {g} : fdTable'[f] = fdTable[f]
    BY <1>1, <2>1
  <2> QED
    BY <1>3, <2>2 DEF Moved
<1> QED
  BY <1>2, <1>3

\* The handlers open, close and send, and stay within their client.
LEMMA LineShared ==
  ASSUME LineInv, Running, NEW t \in Clients,
         NEW from \in Decoded, NEW p \in Decoded \cup {"top", "endclose"}
  PROVE  /\ Opens(t, from, p) => KeepsLine(t)
         /\ \A mayFail : OpenFails(t, from, mayFail) => KeepsLine(t)
         /\ CloseFile(t, from, p) /\ from \in FileHeld /\ p \notin FileHeld => KeepsLine(t)
         /\ \A cell : \A q \in Decoded \cup {"top", "endclose"} :
              /\ Send(t, from, cell, p, q)
              /\ p \in FileHeld \/ q \in FileHeld => from \in FileHeld
              => KeepsLine(t)
<1>0. /\ TypeOK /\ connFd[t] \in Fds /\ loc[t].file \in Fds
      /\ loc \in [Clients -> Locals] /\ loc[t] \in Locals
  BY Lookups DEF LineInv, OwnInv, TypeOK
<1>1. /\ "endclose" \notin FileHeld /\ "done" \notin Decoded
      /\ \A q \in Decoded \cup {"top", "endclose"} : q # "done" /\ q \notin {"none", "recv", "data"}
  BY LinePlaces DEF Fresh, Getting
<1>2. pc[t] = from => /\ FrameOf(t) /\ ~Lost(pc[t], loc[t])
                      /\ fdTable[connFd[t]] = Conn(t)
  BY DecodedFrame, HasConnection
<1>3. ASSUME Opens(t, from, p) PROVE KeepsLine(t)
  <2>1. /\ pc[t] = from /\ Goto(t, p) /\ pc'[t] = p
        /\ UNCHANGED <<main, connFd, inq, cur, cl>>
    BY <1>0, <1>3, GotoThere DEF Opens, clientVars
  <2>2. PICK f \in Fds : /\ IsLowestFree(f)
                         /\ fdTable' = [fdTable EXCEPT ![f] = File(t)]
                         /\ SetLoc(t, "file", f)
    BY <1>3 DEF Opens
  <2>3. fdTable[f] = FreeFd /\ f # connFd[t]
    BY <1>2, <2>1, <2>2, EntriesDiffer DEF IsLowestFree
  <2>4. fdTable'[f] = File(t) /\ \A g \in Fds \ {f} : fdTable'[g] = fdTable[g]
    BY <1>0, <2>2 DEF TypeOK
  <2>5. loc'[t].file = f
    <3>1. loc'[t] = [loc[t] EXCEPT !["file"] = f]
      BY <1>0, <2>2 DEF SetLoc
    <3> QED
      BY <1>0, <3>1 DEF Locals
  <2>6. p # "endclose" => FrameOf(t)'
    BY <2>1, DecodedFrame, FrameKept
  <2>7. FramedInv(t)' /\ ~Lost(pc'[t], loc'[t])
    BY <2>1, <2>6, FramedBy
  <2>8. fdTable'[connFd'[t]] = Conn(t)
    BY <1>0, <1>2, <2>1, <2>3, <2>4
  <2>9. HeldInv(t)'
    BY <1>1, <2>1, <2>4, <2>5, <2>7, <2>8 DEF HeldInv
  <2>10. \A g \in Fds : Moved(t, fdTable[g], fdTable'[g])
    BY <2>3, <2>4 DEF Moved
  <2> QED
    BY <1>1, <2>1, <2>7, <2>9, <2>10 DEF KeepsLine
<1>4. ASSUME NEW mayFail, OpenFails(t, from, mayFail) PROVE KeepsLine(t)
  <2>1. /\ pc[t] = from /\ pc'[t] = "endclose"
        /\ UNCHANGED <<main, fdTable, connFd, inq, cur, cl>>
    BY <1>0, <1>4, GotoThere DEF OpenFails, Private, clientVars
  <2> QED
    BY <1>1, <2>1, LineQuiet
<1>5. ASSUME CloseFile(t, from, p), from \in FileHeld, p \notin FileHeld
      PROVE  KeepsLine(t)
  <2>1. /\ pc[t] = from /\ pc'[t] = p /\ fdTable' = Closed(loc[t].file)
        /\ UNCHANGED <<main, connFd, inq, cur, cl, loc>>
    BY <1>0, <1>5, GotoThere DEF CloseFile, CloseFd, clientVars
  <2>2. fdTable[loc[t].file] = File(t)
    BY <1>5, <2>1 DEF LineInv, HeldInv
  <2>3. /\ \A f \in Fds : Moved(t, fdTable[f], fdTable'[f])
        /\ \A f \in Fds \ {loc[t].file} : fdTable'[f] = fdTable[f]
    BY <1>0, <2>1, <2>2, ClosedMoves
  <2>4. fdTable'[connFd'[t]] = Conn(t)
    BY <1>0, <1>2, <2>1, <2>2, <2>3, EntriesDiffer
  <2>5. p # "endclose" => FrameOf(t)'
    BY <2>1, DecodedFrame, FrameKept
  <2>6. FramedInv(t)' /\ ~Lost(pc'[t], loc'[t])
    BY <2>1, <2>5, FramedBy
  <2>7. HeldInv(t)'
    BY <1>1, <1>5, <2>1, <2>4, <2>6 DEF HeldInv
  <2> QED
    BY <1>1, <2>1, <2>3, <2>6, <2>7 DEF KeepsLine
<1>6. ASSUME NEW cell, NEW q \in Decoded \cup {"top", "endclose"},
             Send(t, from, cell, p, q), p \in FileHeld \/ q \in FileHeld => from \in FileHeld
      PROVE  KeepsLine(t)
  <2>1. pc[t] = from /\ UNCHANGED <<connFd, loc, inq, cur>>
    BY <1>6 DEF Send
  <2>2. CASE SigPipe(connFd[t])
    BY <2>2, LineDies DEF SigPipe
  <2>3. CASE ~SigPipe(connFd[t])
    <3>1. (Goto(t, p) \/ Goto(t, q)) /\ UNCHANGED <<main, fdTable>>
      BY <1>6, <2>3 DEF Send, Delivers, SendFails
    <3>2. cl' = cl \/ cl' = [cl EXCEPT ![fdTable[connFd[t]].who] = "hungup"]
      BY <1>6, <2>3 DEF Send, Delivers, SendFails
    <3>3. fdTable[connFd[t]].who = t
      BY <1>2, <2>1, EntriesDiffer
    <3>4. /\ cl'[t] = cl[t] \/ cl'[t] = "hungup"
          /\ \A u \in Clients \ {t} : cl'[u] = cl[u]
      BY <1>0, <3>2, <3>3 DEF TypeOK
    <3>5. pc'[t] = p \/ pc'[t] = q
      BY <1>0, <3>1, GotoThere
    <3> QED
      BY <1>6, <2>1, <3>1, <3>4, <3>5, LineQuiet
  <2> QED
    BY <2>2, <2>3
<1> QED
  BY <1>3, <1>4, <1>5, <1>6

\* The three handlers.
LEMMA LineHandlers ==
  ASSUME LineInv, Running, NEW t \in Clients, ListFile(t) \/ GetFile(t) \/ SetFile(t)
  PROVE  KeepsLine(t)
<1>0. /\ TypeOK /\ loc \in [Clients -> Locals] /\ loc[t] \in Locals
      /\ pc[t] \in FileHeld => fdTable[loc[t].file].kind = "file"
  <2>1. pc[t] \in FileHeld => fdTable[loc[t].file] = File(t)
    BY DEF LineInv, HeldInv
  <2> QED
    BY <2>1, EntriesDiffer DEF LineInv, OwnInv, TypeOK
<1>p. /\ {"list", "names", "lclose", "lend", "get", "gread", "spin", "ghdr", "glen", "gsend",
          "gbody", "gclose", "set", "write", "sclose"} \subseteq Decoded
      /\ {"names", "lclose", "gread", "ghdr", "glen", "gsend",
          "gbody", "gclose", "write", "sclose"} \subseteq FileHeld
      /\ {"top", "endclose", "lend", "spin"} \cap FileHeld = {}
  BY DEF Decoded, FileHeld
<1>1. CASE ListFile(t)
  <2>1. CASE OpenDir(t) \/ SendName(t) \/ CloseDir(t) \/ SendEnd(t)
    BY <1>p, <2>1, LineShared DEF OpenDir, SendName, CloseDir, SendEnd
  <2>2. CASE NoName(t)
    <3>1. /\ pc[t] = "names" /\ UNCHANGED <<main, fdTable, connFd, inq, cur, cl, loc>>
          /\ pc'[t] = "lclose" \/ pc'[t] = "endclose"
      BY <1>0, <2>2, GotoThere DEF NoName, Private, clientVars
    <3> QED
      BY <1>p, <3>1, LineQuiet
  <2> QED
    BY <1>1, <2>1, <2>2 DEF ListFile
<1>2. CASE GetFile(t)
  <2>1. CASE OpenFile(t) \/ SendReplyHdr(t) \/ SendBody(t)
    BY <1>p, <2>1, LineShared DEF OpenFile, SendReplyHdr, SendBody
  <2>2. CASE ReadFile(t)
    <3>1. /\ pc[t] = "gread" /\ UNCHANGED <<main, fdTable, connFd, cl, cur>>
          /\ Goto(t, "ghdr") \/ Goto(t, "endclose") \/ Goto(t, "spin")
      BY <2>2 DEF ReadFile, clientVars
    <3>2. fdTable[loc[t].file].kind = "file"
      BY <1>0, <1>p, <3>1
    <3>3. UNCHANGED inq
      BY <2>2, <3>2 DEF ReadFile
    <3>4. UNCHANGED loc \/ \E n : SetLoc(t, "reply", n)
      BY <2>2 DEF ReadFile
    <3>5. loc'[t].file = loc[t].file
      <4>1. \A n : [loc[t] EXCEPT !["reply"] = n].file = loc[t].file
        BY <1>0 DEF Locals
      <4> QED
        BY <1>0, <3>4, <4>1 DEF SetLoc
    <3>6. pc'[t] = "ghdr" \/ pc'[t] = "endclose" \/ pc'[t] = "spin"
      BY <1>0, <3>1, GotoThere
    <3> QED
      BY <1>p, <3>1, <3>3, <3>5, <3>6, LineQuiet
  <2>3. CASE StartReplyHdr(t) \/ FillReplyHdr(t)
    <3>1. /\ pc[t] \in {"ghdr", "glen"}
          /\ UNCHANGED <<main, fdTable, connFd, cl, cur, inq, loc>>
          /\ Goto(t, "glen") \/ Goto(t, "gsend")
      BY <2>3 DEF StartReplyHdr, FillReplyHdr, clientVars
    <3>2. pc'[t] = "glen" \/ pc'[t] = "gsend"
      BY <1>0, <3>1, GotoThere
    <3> QED
      BY <1>p, <3>1, <3>2, LineQuiet
  <2>4. CASE CloseGot(t)
    <3>1. CASE CloseFile(t, "gclose", "top")
      BY <1>p, <3>1, LineShared
    <3>2. CASE pc[t] = "gclose" /\ Goto(t, "top") /\ UNCHANGED loc /\ Private
      <4>1. pc'[t] = "top" /\ UNCHANGED <<main, fdTable, connFd, cl, cur, inq>>
        BY <1>0, <3>2, GotoThere DEF Private, clientVars
      <4> QED
        BY <1>p, <3>2, <4>1, LineQuiet
    <3> QED
      BY <2>4, <3>1, <3>2 DEF CloseGot
  <2> QED
    BY <1>2, <2>1, <2>2, <2>3, <2>4 DEF GetFile
<1>3. CASE SetFile(t)
  <2>1. CASE CreateFile(t)
    <3>1. CASE pc[t] = "set" /\ Goto(t, "top") /\ UNCHANGED loc /\ Private
      <4>1. pc'[t] = "top" /\ UNCHANGED <<main, fdTable, connFd, cl, cur, inq>>
        BY <1>0, <3>1, GotoThere DEF Private, clientVars
      <4> QED
        BY <1>p, <3>1, <4>1, LineQuiet
    <3> QED
      BY <1>p, <2>1, <3>1, LineShared DEF CreateFile
  <2>2. CASE WriteFile(t)
    <3>1. pc[t] = "write" /\ UNCHANGED <<connFd, loc, cur, inq>>
      BY <2>2 DEF WriteFile
    <3>2. fdTable[loc[t].file].kind = "file"
      BY <1>0, <1>p, <3>1
    <3>3. /\ Goto(t, "sclose") \/ Goto(t, "endclose")
          /\ UNCHANGED <<main, fdTable, cl>>
      BY <2>2, <3>2 DEF WriteFile
    <3>4. pc'[t] = "sclose" \/ pc'[t] = "endclose"
      BY <1>0, <3>3, GotoThere
    <3> QED
      BY <1>p, <3>1, <3>3, <3>4, LineQuiet
  <2>3. CASE CloseWritten(t)
    BY <1>p, <2>3, LineShared DEF CloseWritten
  <2> QED
    BY <1>3, <2>1, <2>2, <2>3 DEF SetFile
<1> QED
  BY <1>1, <1>2, <1>3

-----------------------------------------------------------------------------
(* The thread's steps: the header.                                         *)

\* What is known of a thread anywhere in its request.
LEMMA LineFacts ==
  ASSUME LineInv, Running, NEW t \in Clients
  PROVE  /\ TypeOK /\ loc \in [Clients -> Locals] /\ loc[t] \in Locals
         /\ connFd[t] \in Fds /\ inq[t] \in Seq(Cells)
         /\ Own(pc[t], loc[t], g_stTestHdr) /\ Started(pc[t], loc[t])
         /\ FramedInv(t) /\ HeldInv(t)
BY Lookups DEF LineInv, OwnInv, TypeOK, FramedInv

\* The header of a request has the version and the length that are checked.
LEMMA HdrOfFields ==
  ASSUME NEW r \in Requests
  PROVE  /\ HdrOf(r).ver = VersionOne /\ HdrOf(r).hlen = HdrLen
         /\ HdrOf(r).dlen = r.dlen /\ HdrOf(r).cmd \in Cmds /\ HdrOf(r).mod \in Mods
         /\ HdrSeen(HdrCell(r)) = HdrOf(r)
<1>1. r.cmd \in Cmds /\ r.mod \in Mods
  BY ServerAssumption
<1>2. HdrCell(r).kind = "hdr" /\ HdrCell(r).req = r
  BY DEF HdrCell
<1> QED
  BY <1>1, <1>2 DEF HdrOf, HdrSeen

\* An assignment to a local that is not part of the request.
LEMMA LineLocals ==
  ASSUME TypeOK, NEW t \in Clients,
         \/ UNCHANGED loc
         \/ \E f \in {"k", "sock", "size", "need"} : \E v : SetLoc(t, f, v)
  PROVE  /\ loc'[t].own = loc[t].own /\ loc'[t].got = loc[t].got
         /\ loc'[t].buf = loc[t].buf
<1>1. loc \in [Clients -> Locals] /\ loc[t] \in Locals
  BY DEF TypeOK
<1>2. \A f \in {"k", "sock", "size", "need"} : \A v :
        LET m == [loc[t] EXCEPT ![f] = v] IN
        m.own = loc[t].own /\ m.got = loc[t].got /\ m.buf = loc[t].buf
  BY <1>1 DEF Locals
<1>3. ASSUME NEW f \in {"k", "sock", "size", "need"}, NEW v, SetLoc(t, f, v)
      PROVE  loc'[t] = [loc[t] EXCEPT ![f] = v]
  BY <1>1, <1>3 DEF SetLoc
<1>4. CASE UNCHANGED loc
  BY <1>4
<1>5. CASE \E f \in {"k", "sock", "size", "need"} : \E v : SetLoc(t, f, v)
  <2>1. PICK f \in {"k", "sock", "size", "need"} : \E v : SetLoc(t, f, v)
    BY <1>5
  <2>2. PICK v : SetLoc(t, f, v)
    BY <2>1
  <2>3. loc'[t] = [loc[t] EXCEPT ![f] = v]
    BY <1>3, <2>2
  <2> QED
    BY <1>2, <2>3
<1> QED
  BY <1>4, <1>5

\* A step within the header or the payload that neither sends nor receives,
\* nor closes anything.
LEMMA LineStays ==
  ASSUME LineInv, Running, NEW t \in Clients,
         pc[t] \notin {"none", "done", "endclose"}, ~Lost(pc[t], loc[t]),
         NEW q \in Fresh \cup GotHdr \cup Getting \cup Whole \cup Decoded,
         pc'[t] = q, q \notin FileHeld,
         UNCHANGED <<main, fdTable, connFd, inq, cur, cl>>,
         FrameOf(t), Started(q, loc'[t]), ~Lost(q, loc'[t]),
         q \in {"copy", "ver", "len"} => hdrBytes'[t] = HdrLen,
         q \in {"recv", "data"} => loc'[t].sock = Conn(t),
         \A r \in Requests \cup {NoRequest}, p \in Nat :
            Placed(pc[t], loc[t], r, p) => Placed(q, loc'[t], r, p)
  PROVE  KeepsLine(t)
<1>1. FrameOf(t)'
  BY FrameKept
<1>2. q # "datadown" /\ (q = "decode" => loc'[t].got = loc'[t].need) /\ q # "done"
  BY LinePlaces DEF Lost
<1>3. FramedInv(t)'
  BY <1>1, <1>2 DEF FramedInv
<1>4. HeldInv(t)'
  BY <1>2, HeldQuiet
<1>5. \A f \in Fds : Moved(t, fdTable[f], fdTable'[f])
  BY DEF Moved
<1> QED
  BY <1>2, <1>3, <1>4, <1>5 DEF KeepsLine

\* A step out of the request, to where its connection is closed.
LEMMA LineLeaves ==
  ASSUME LineInv, Running, NEW t \in Clients,
         pc[t] \notin {"none", "done", "endclose"},
         pc'[t] \in {"endclose", "errclose"}, pc'[t] = "errclose" => ~Lost(pc[t], loc[t]),
         UNCHANGED <<main, fdTable, connFd, inq, cur, cl>>
  PROVE  KeepsLine(t)
<1>1. FramedInv(t)' /\ ~Lost(pc'[t], loc'[t])
  BY FramedBy
<1>2. fdTable[connFd[t]] \in {Conn(t), FreeFd, Reserved}
  BY DEF LineInv, HeldInv
<1>3. ~Lost(pc[t], loc[t]) => fdTable[connFd[t]] = Conn(t)
  BY HasConnection
<1>4. pc'[t] \notin {"recv", "data", "done", "none"} \cup FileHeld
  BY DEF FileHeld
<1>5. HeldInv(t)'
  BY <1>1, <1>2, <1>3, <1>4 DEF HeldInv
<1>6. \A f \in Fds : Moved(t, fdTable[f], fdTable'[f])
  BY DEF Moved
<1> QED
  BY <1>1, <1>4, <1>5, <1>6 DEF KeepsLine

\* Receiving a header: the stream is between two requests, so that what
\* arrives is a header.
LEMMA LineRecvHdr ==
  ASSUME LineInv, Running, NEW t \in Clients, RecvHdr(t)
  PROVE  KeepsLine(t)
<1>0. /\ TypeOK /\ loc \in [Clients -> Locals] /\ loc[t] \in Locals
      /\ connFd[t] \in Fds /\ inq[t] \in Seq(Cells)
      /\ Started(pc[t], loc[t]) /\ FramedInv(t) /\ HeldInv(t)
  BY LineFacts
<1>1. /\ pc[t] = "recv" /\ pc'[t] = "copy"
      /\ UNCHANGED <<main, fdTable, connFd, cur, cl>>
  BY <1>0, GotoThere DEF RecvHdr, clientVars
<1>2. loc[t].sock.who = t
  BY <1>0, <1>1, EntriesDiffer DEF HeldInv
<1>3. /\ inq[t] # <<>> /\ inq' = [inq EXCEPT ![t] = Tail(@)]
      /\ SetLoc(t, "own", HdrSeen(Head(inq[t]))) /\ hdrBytes' = [hdrBytes EXCEPT ![t] = HdrLen]
  BY <1>2 DEF RecvHdr, CanRecv
<1>4. ~Lost(pc[t], loc[t]) /\ FrameOf(t)
  <2>1. ~Lost(pc[t], loc[t])
    BY <1>1 DEF Lost
  <2> QED
    BY <1>0, <1>1, <2>1 DEF FramedInv, Fresh
<1>5. PICK r \in Requests \cup {NoRequest}, p \in Nat :
        /\ Stream(r, p, inq[t])
        /\ Ended(cl[t], cur[t], r, p, inq[t])
        /\ Placed(pc[t], loc[t], r, p)
  BY <1>4 DEF FrameOf
<1>6. p = r.dlen
  BY <1>1, <1>5 DEF Placed, Fresh
<1> DEFINE x == inq[t][1]
<1>7. x = HdrCell(x.req) /\ x.req \in Requests
  BY <1>0, <1>3, <1>5, <1>6, StreamNext
<1>8. x.part = 0 /\ Head(inq[t]) = x
  <2>1. Head(inq[t]) = x
    BY <1>0, <1>3, HeadTailProperties
  <2>2. HdrCell(x.req).part = 0
    BY DEF HdrCell
  <2> QED
    BY <1>7, <2>1, <2>2
<1>9. /\ Stream(x.req, 0, inq'[t])
       /\ LastReq(x.req, inq'[t]) = LastReq(r, inq[t])
       /\ LastPart(0, inq'[t]) = LastPart(p, inq[t])
  <2>1. inq'[t] = Tail(inq[t])
    BY <1>0, <1>3 DEF TypeOK
  <2> DEFINE n == 1
             s == inq[t]
             u == Tail(s)
  <2>2. /\ s \in Seq(Cells) /\ Rest(u, s, n)
        /\ r \in Requests \cup {NoRequest} /\ p \in Nat /\ Stream(r, p, s)
    <3>1. 1 \in 1..Len(inq[t])
      BY <1>0, <1>3, LenProperties, EmptySeq
    <3> QED
      BY <1>0, <1>5, <3>1, RestOf
  <2> HIDE DEF n, s, u
  <2>3. /\ Stream(s[n].req, s[n].part, u)
        /\ LastReq(s[n].req, u) = LastReq(r, s)
        /\ LastPart(s[n].part, u) = LastPart(p, s)
    BY <2>2, StreamRest
  <2>4. s[n] = x /\ inq'[t] = u /\ s = inq[t]
    BY <2>1 DEF n, s, u
  <2> HIDE DEF x
  <2>5. /\ Stream(x.req, x.part, u)
        /\ LastReq(x.req, u) = LastReq(r, s)
        /\ LastPart(x.part, u) = LastPart(p, s)
    BY <2>3, <2>4
  <2> QED
    BY <1>8, <2>4, <2>5
<1>10. Ended(cl'[t], cur'[t], x.req, 0, inq'[t])
  <2>1. inq[t] # <<>>
    BY <1>3
  <2> QED
    BY <1>1, <1>5, <1>9, <2>1 DEF Ended
<1>11. /\ loc'[t].own = HdrOf(x.req) /\ loc'[t].got = 0 /\ loc'[t].buf = <<>>
       /\ loc'[t].k = 1
  <2>1. HdrSeen(Head(inq[t])) = HdrOf(x.req)
    BY <1>7, <1>8, HdrOfFields
  <2>2. loc'[t] = [loc[t] EXCEPT !["own"] = HdrOf(x.req)]
    BY <1>0, <1>3, <2>1 DEF SetLoc
  <2>3. loc[t].got = 0 /\ loc[t].buf = <<>> /\ loc[t].k = 1
    BY <1>0, <1>1 DEF Started, Fresh
  <2> QED
    BY <1>0, <2>2, <2>3 DEF Locals
<1>12. Placed("copy", loc'[t], x.req, 0)
  BY <1>7, <1>11, LinePlaces DEF Placed, GotHdr
<1>13. FrameOf(t)'
  BY <1>1, <1>7, <1>9, <1>10, <1>12 DEF FrameOf
<1>14. hdrBytes'[t] = HdrLen
  BY <1>0, <1>3 DEF TypeOK
<1>15. Started("copy", loc'[t]) /\ ~Lost("copy", loc'[t])
  BY <1>11, LinePlaces DEF Started, Lost, Fresh, GotHdr
<1>16. FramedInv(t)'
  BY <1>1, <1>13, <1>14, <1>15 DEF FramedInv
<1>17. HeldInv(t)'
  BY <1>1, <1>4, <1>15, HeldQuiet DEF FileHeld
<1>18. \A f \in Fds : Moved(t, fdTable[f], fdTable'[f])
  BY <1>1 DEF Moved
<1>19. \A u \in Clients \ {t} : inq'[u] = inq[u]
  BY <1>0, <1>3 DEF TypeOK
<1> QED
  BY <1>1, <1>16, <1>17, <1>18, <1>19 DEF KeepsLine

\* A close() of the thread's own connection, which it may have closed before.
LEMMA LineCloses ==
  ASSUME LineInv, Running, NEW t \in Clients, NEW q,
         pc[t] \notin {"none", "done"}, CloseFd(t, connFd[t], q),
         \/ pc[t] \in {"errclose", "endclose"} /\ q \in {"endclose", "done"}
         \/ q \in {"ver", "decode"} /\ Lost(q, loc'[t]) /\ FramedInv(t)'
  PROVE  KeepsLine(t)
<1>0. TypeOK /\ connFd[t] \in Fds
  BY LineFacts
<1>1. /\ pc'[t] = q /\ fdTable' = Closed(connFd[t])
      /\ UNCHANGED <<main, connFd, inq, cur, cl>>
  BY <1>0, GotoThere DEF CloseFd, clientVars
<1>2. fdTable[connFd[t]] \in {Conn(t), FreeFd, Reserved}
  BY DEF LineInv, HeldInv
<1>3. /\ \A f \in Fds : Moved(t, fdTable[f], fdTable'[f])
      /\ fdTable'[connFd[t]] \in {FreeFd, Reserved}
  BY <1>0, <1>1, <1>2, ClosedMoves
<1>4. FramedInv(t)'
  BY <1>1, FramedBy
<1>5. q \notin {"none", "recv", "data"} \cup FileHeld
  BY DEF FileHeld
<1>6. q \in {"endclose", "done"} => ~Lost(q, loc'[t])
  BY DEF Lost
<1>7. HeldInv(t)'
  BY <1>1, <1>3, <1>5, <1>6 DEF HeldInv
<1>8. fdTable'[connFd[t]] # Conn(t)
  BY <1>3, EntriesDiffer
<1> QED
  BY <1>1, <1>3, <1>4, <1>7, <1>8 DEF KeepsLine


\* Between its header and the decoding a thread works on a request it received.
LEMMA LineRequest ==
  ASSUME LineInv, Running, NEW t \in Clients, pc[t] \in GotHdr \cup Getting \cup Whole,
         ~Lost(pc[t], loc[t])
  PROVE  /\ FrameOf(t) /\ pc[t] \notin {"none", "done", "endclose"}
         /\ \E r \in Requests : loc[t].own = HdrOf(r)
<1>1. FrameOf(t)
  BY DEF LineInv, FramedInv
<1>2. PICK r \in Requests \cup {NoRequest}, p \in Nat : Placed(pc[t], loc[t], r, p)
  BY <1>1 DEF FrameOf
<1>3. r \in Requests /\ loc[t].own = HdrOf(r)
  BY <1>2 DEF Placed
<1> QED
  BY <1>1, <1>3, LinePlaces

\* The locals of a thread whose headers came whole.
LEMMA WholeCleared ==
  ASSUME TypeOK, NoTorn, NEW t \in Clients
  PROVE  Cleared(t) = NoLocals
<1>1. loc[t] \in Locals /\ ~loc[t].torn
  BY DEF TypeOK, NoTorn
<1>2. loc[t].torn = FALSE
  BY <1>1 DEF Locals
<1>3. \A l \in Locals : ~l.torn => [l EXCEPT !.torn = FALSE] = l
  BY DEF Locals
<1>4. NoLocals \in Locals /\ ~NoLocals.torn
  BY ValueTypes DEF NoLocals
<1> QED
  BY <1>2, <1>3, <1>4 DEF Cleared

\* A new request: the locals start afresh.
LEMMA LineTop ==
  ASSUME LineInv, Running, NEW t \in Clients, Top(t)
  PROVE  KeepsLine(t)
<1>0. /\ TypeOK /\ loc \in [Clients -> Locals] /\ FramedInv(t)
  BY LineFacts
<1>1. /\ pc[t] = "top" /\ pc'[t] = "hcall" /\ loc'[t] = NoLocals
      /\ UNCHANGED <<main, fdTable, connFd, inq, cur, cl>>
  <2>1. Cleared(t) = NoLocals
    BY <1>0, WholeCleared DEF LineInv
  <2> QED
    BY <1>0, <2>1, GotoThere DEF Top, clientVars
<1>2. ~Lost(pc[t], loc[t]) /\ FrameOf(t)
  <2>1. ~Lost(pc[t], loc[t])
    BY <1>1 DEF Lost
  <2> QED
    BY <1>0, <1>1, <2>1 DEF FramedInv
<1>3. Started("hcall", NoLocals) /\ ~Lost("hcall", NoLocals)
  BY DEF Started, Lost, NoLocals, Fresh, GotHdr
<1>4. \A r \in Requests \cup {NoRequest}, p \in Nat :
        Placed("top", loc[t], r, p) => Placed("hcall", NoLocals, r, p)
  BY LinePlaces DEF Placed, Fresh
<1>5. "hcall" \in Fresh /\ "hcall" \notin FileHeld
  BY DEF Fresh, FileHeld
<1> QED
  BY <1>1, <1>2, <1>3, <1>4, <1>5, LineStays

\* The call of recv() finds the thread's own connection.
LEMMA LineCall ==
  ASSUME LineInv, Running, NEW t \in Clients, NEW from, NEW q, Call(t, from, q),
         \/ from = "hcall" /\ q = "recv"
         \/ from = "dcall" /\ q = "data"
  PROVE  KeepsLine(t)
<1>0. /\ TypeOK /\ loc \in [Clients -> Locals] /\ loc[t] \in Locals
      /\ FramedInv(t) /\ Started(pc[t], loc[t])
  BY LineFacts
<1>1. /\ pc[t] = from /\ pc'[t] = q /\ SetLoc(t, "sock", fdTable[connFd[t]])
      /\ UNCHANGED <<main, fdTable, connFd, inq, cur, cl>>
  BY <1>0, GotoThere DEF Call, clientVars
<1>2. \/ from = "hcall" /\ q = "recv"
      \/ from = "dcall" /\ q = "data"
  OBVIOUS
<1>3. ~Lost(pc[t], loc[t]) /\ FrameOf(t) /\ pc[t] \notin {"none", "done", "endclose"}
  <2>1. ~Lost(pc[t], loc[t])
    BY <1>1, <1>2 DEF Lost
  <2> QED
    BY <1>0, <1>1, <1>2, <2>1 DEF FramedInv, Fresh, Getting
<1>4. fdTable[connFd[t]] = Conn(t)
  BY <1>3, HasConnection
<1>5. loc'[t] = [loc[t] EXCEPT !["sock"] = Conn(t)]
  BY <1>0, <1>1, <1>4 DEF SetLoc
<1>6. /\ loc'[t].own = loc[t].own /\ loc'[t].got = loc[t].got /\ loc'[t].buf = loc[t].buf
      /\ loc'[t].k = loc[t].k /\ loc'[t].need = loc[t].need /\ loc'[t].sock = Conn(t)
  BY <1>0, <1>5 DEF Locals
<1>7. Started(q, loc'[t]) /\ ~Lost(q, loc'[t])
  BY <1>0, <1>1, <1>2, <1>6, LinePlaces DEF Started, Lost, Fresh, GotHdr
<1>8. \A r \in Requests \cup {NoRequest}, p \in Nat :
        Placed(pc[t], loc[t], r, p) => Placed(q, loc'[t], r, p)
  <2>1. CASE from = "hcall"
    BY <1>1, <1>2, <2>1, LinePlaces DEF Placed, Fresh
  <2>2. CASE from = "dcall"
    BY <1>1, <1>2, <1>6, <2>2, LinePlaces DEF Placed, Getting, BufOf
  <2> QED
    BY <1>2, <2>1, <2>2
<1>9. q \in Fresh \cup Getting /\ q \notin FileHeld /\ q \notin {"copy", "ver", "len"}
  BY <1>2 DEF Fresh, Getting, FileHeld
<1> QED
  BY <1>1, <1>3, <1>6, <1>7, <1>8, <1>9, LineStays

\* The rest of the header arrives.
LEMMA LineCopyCmd ==
  ASSUME LineInv, Running, NEW t \in Clients, CopyCmd(t)
  PROVE  KeepsLine(t)
<1>0. TypeOK /\ FramedInv(t) /\ Started(pc[t], loc[t])
  BY LineFacts
<1>1. /\ pc[t] = "copy" /\ pc'[t] = "ver"
      /\ UNCHANGED <<main, fdTable, connFd, inq, cur, cl, loc, hdrBytes>>
  BY <1>0, GotoThere DEF CopyCmd, clientVars
<1>2. ~Lost(pc[t], loc[t]) /\ pc[t] \in GotHdr
  BY <1>1 DEF Lost, GotHdr
<1>3. FrameOf(t) /\ \E r \in Requests : loc[t].own = HdrOf(r)
  BY <1>2, LineRequest
<1>4. ~Lost("ver", loc'[t])
  BY <1>1, <1>3, HdrOfFields DEF Lost
<1>5. Started("ver", loc'[t])
  BY <1>0, <1>1, LinePlaces DEF Started, Fresh, GotHdr
<1>6. hdrBytes'[t] = HdrLen
  BY <1>0, <1>1, <1>2 DEF FramedInv
<1>7. \A r \in Requests \cup {NoRequest}, p \in Nat :
        Placed(pc[t], loc[t], r, p) => Placed("ver", loc'[t], r, p)
  BY <1>1, LinePlaces DEF Placed, GotHdr
<1>8. "ver" \in GotHdr /\ "ver" \notin FileHeld
  BY DEF GotHdr, FileHeld
<1> QED
  BY <1>1, <1>2, <1>3, <1>4, <1>5, <1>6, <1>7, <1>8, LineStays

\* The peer is down: the thread closes its connection and goes on with zeroes,
\* which the version test stops.
LEMMA LineHdrDown ==
  ASSUME LineInv, Running, NEW t \in Clients, HdrDown(t)
  PROVE  KeepsLine(t)
<1>0. TypeOK /\ FramedInv(t) /\ Started(pc[t], loc[t])
  BY LineFacts
<1>1. /\ pc[t] = "hdrdown" /\ CloseFd(t, connFd[t], "ver") /\ pc'[t] = "ver"
      /\ UNCHANGED loc
  BY <1>0, GotoThere DEF HdrDown, CloseFd
<1>2. loc[t].own = ZeroHdr
  BY <1>0, <1>1 DEF Started
<1>3. Lost("ver", loc'[t])
  BY <1>1, <1>2 DEF Lost, ZeroHdr, VersionOne
<1>4. Started("ver", loc'[t])
  BY <1>0, <1>1 DEF Started, Fresh, GotHdr
<1>5. FramedInv(t)'
  BY <1>1, <1>3, <1>4 DEF FramedInv
<1> QED
  BY <1>1, <1>3, <1>5, LineCloses

\* The two checks of the header: only a thread whose peer is down fails one, and
\* it has closed its connection.
LEMMA LineChecks ==
  ASSUME LineInv, Running, NEW t \in Clients, CheckVersion(t) \/ CheckLen(t)
  PROVE  KeepsLine(t)
<1>0. /\ TypeOK /\ FramedInv(t) /\ Started(pc[t], loc[t])
      /\ Own(pc[t], loc[t], g_stTestHdr)
  BY LineFacts
<1>1. UNCHANGED <<main, fdTable, connFd, inq, cur, cl, hdrBytes>>
  BY DEF CheckVersion, CheckLen, Private, clientVars
<1>2. pc[t] \in {"ver", "len"} /\ pc[t] \in GotHdr /\ g_stTestHdr = loc[t].own
  BY <1>0, OwnPlaces DEF CheckVersion, CheckLen, GotHdr, Own
<1>3. CASE Lost(pc[t], loc[t])
  <2>1. pc[t] = "ver" /\ g_stTestHdr.ver # VersionOne
    BY <1>2, <1>3 DEF Lost
  <2>2. pc'[t] = "done"
    BY <1>0, <2>1, GotoThere DEF CheckVersion, CheckLen
  <2>3. fdTable[connFd[t]] \in {FreeFd, Reserved}
    BY <1>3 DEF LineInv, HeldInv
  <2>4. fdTable'[connFd[t]] # Conn(t)
    BY <1>1, <2>3, EntriesDiffer
  <2>5. FramedInv(t)' /\ ~Lost(pc'[t], loc'[t])
    BY <2>2, FramedBy
  <2>6. HeldInv(t)'
    BY <2>2, <2>5 DEF HeldInv, FileHeld
  <2>7. \A f \in Fds : Moved(t, fdTable[f], fdTable'[f])
    BY <1>1 DEF Moved
  <2> QED
    BY <1>1, <2>4, <2>5, <2>6, <2>7 DEF KeepsLine
<1>4. CASE ~Lost(pc[t], loc[t])
  <2>1. FrameOf(t) /\ pc[t] \notin {"none", "done", "endclose"}
    BY <1>2, <1>4, LineRequest
  <2>2. g_stTestHdr.ver = VersionOne /\ g_stTestHdr.hlen = HdrLen
    BY <1>2, <1>4, LineRequest, HdrOfFields
  <2>3. hdrBytes[t] = HdrLen
    BY <1>0, <1>2, <1>4 DEF FramedInv
  <2>4. /\ UNCHANGED loc
        /\ \/ pc[t] = "ver" /\ pc'[t] = "len"
           \/ pc[t] = "len" /\ pc'[t] = "cmd"
    <3>1. /\ UNCHANGED loc
          /\ \/ pc[t] = "ver" /\ Goto(t, "len")
             \/ pc[t] = "len" /\ Goto(t, "cmd")
      BY <2>2, <2>3 DEF CheckVersion, CheckLen
    <3> QED
      BY <1>0, <3>1, GotoThere
  <2>5. Started(pc'[t], loc'[t]) /\ ~Lost(pc'[t], loc'[t])
    <3>1. loc[t].got = 0 /\ loc[t].buf = <<>> /\ loc[t].k = 1
      BY <1>0, <1>2 DEF Started
    <3>2. \A j \in 1..loc[t].k - 1 : loc[t].own.cmd # CmdOrder[j]
      BY <3>1
    <3>3. pc'[t] \notin Fresh \cup {"hdrdown", "mod", "copy", "ver", "decode"}
      BY <2>4 DEF Fresh
    <3> QED
      BY <2>4, <3>1, <3>2, <3>3 DEF Started, Lost
  <2>6. \A r \in Requests \cup {NoRequest}, p \in Nat :
          Placed(pc[t], loc[t], r, p) => Placed(pc'[t], loc'[t], r, p)
    BY <2>4, LinePlaces DEF Placed, GotHdr
  <2>7. pc'[t] \in GotHdr /\ pc'[t] \notin FileHeld /\ pc'[t] \notin {"recv", "data"}
    BY <2>4 DEF GotHdr, FileHeld
  <2>8. hdrBytes'[t] = HdrLen
    BY <1>1, <2>3
  <2> QED
    BY <1>1, <1>4, <2>1, <2>5, <2>6, <2>7, <2>8, LineStays
<1> QED
  BY <1>3, <1>4

\* The chains of tests end in a command and in a codec, since the header has one.
LEMMA ChainsCover ==
  /\ \A v \in Cmds, k \in 1..4 :
       (\A j \in 1..k - 1 : v # CmdOrder[j]) /\ v # CmdOrder[k] => k < Len(CmdOrder)
  /\ \A v \in Mods, k \in 1..4 :
       (\A j \in 1..k - 1 : v # ModOrder[j]) /\ v # ModOrder[k] => k < Len(ModOrder)
<1>1. Len(CmdOrder) = 4 /\ Len(ModOrder) = 3
  BY DEF CmdOrder, ModOrder
<1>2. \A v \in Cmds : \E j \in 1..4 : v = CmdOrder[j]
  <2>1. /\ CmdOrder[1] = "SET" /\ CmdOrder[2] = "GET"
        /\ CmdOrder[3] = "LIST" /\ CmdOrder[4] = "EXIT"
    BY DEF CmdOrder
  <2>2. 1 \in 1..4 /\ 2 \in 1..4 /\ 3 \in 1..4 /\ 4 \in 1..4
    OBVIOUS
  <2> QED
    BY <2>1, <2>2 DEF Cmds
<1>3. \A v \in Mods : \E j \in 1..3 : v = ModOrder[j]
  <2>1. ModOrder[1] = "PROTO" /\ ModOrder[2] = "JSON" /\ ModOrder[3] = "TLV"
    BY DEF ModOrder
  <2>2. 1 \in 1..3 /\ 2 \in 1..3 /\ 3 \in 1..3
    OBVIOUS
  <2> QED
    BY <2>1, <2>2 DEF Mods
<1>4. ASSUME NEW v \in Cmds, NEW k \in 1..4,
             \A j \in 1..k - 1 : v # CmdOrder[j], v # CmdOrder[k]
      PROVE  k < 4
  <2>1. PICK j \in 1..4 : v = CmdOrder[j]
    BY <1>2
  <2>2. j # k /\ j \notin 1..k - 1
    BY <1>4, <2>1
  <2> QED
    BY <2>2
<1>5. ASSUME NEW v \in Mods, NEW k \in 1..4,
             \A j \in 1..k - 1 : v # ModOrder[j], v # ModOrder[k]
      PROVE  k < 3
  <2>1. PICK j \in 1..3 : v = ModOrder[j]
    BY <1>3
  <2>2. j # k /\ j \notin 1..k - 1
    BY <1>5, <2>1
  <2> QED
    BY <2>2
<1> QED
  BY <1>1, <1>4, <1>5

\* Choosing the handler.
LEMMA LineTestCmd ==
  ASSUME LineInv, Running, NEW t \in Clients, TestCmd(t)
  PROVE  KeepsLine(t)
<1>0. /\ TypeOK /\ loc \in [Clients -> Locals] /\ loc[t] \in Locals
      /\ Started(pc[t], loc[t]) /\ Own(pc[t], loc[t], g_stTestHdr)
  BY LineFacts
<1>1. pc[t] = "cmd" /\ UNCHANGED <<main, fdTable, connFd, inq, cur, cl, hdrBytes>>
  BY DEF TestCmd, Private, clientVars
<1>2. pc[t] \in GotHdr /\ ~Lost(pc[t], loc[t])
  BY <1>1 DEF GotHdr, Lost
<1>3. /\ FrameOf(t) /\ pc[t] \notin {"none", "done", "endclose"}
      /\ \E r \in Requests : loc[t].own = HdrOf(r)
  BY <1>2, LineRequest
<1>4. g_stTestHdr = loc[t].own /\ loc[t].own.cmd \in Cmds
  BY <1>0, <1>1, <1>3, OwnPlaces, HdrOfFields DEF Own, Relying
<1> DEFINE k == loc[t].k
<1>5. /\ k \in 1..4 /\ loc[t].got = 0 /\ loc[t].buf = <<>>
      /\ \A j \in 1..k - 1 : loc[t].own.cmd # CmdOrder[j]
  BY <1>0, <1>1, <1>2, Lookups DEF Started
<1>6. CASE /\ g_stTestHdr.cmd = CmdOrder[k]
           /\ loc' = [loc EXCEPT ![t] = [@ EXCEPT !.cmd = CmdOrder[k], !.k = 1]]
           /\ Goto(t, IF CmdOrder[k] = "EXIT" THEN "endclose" ELSE "mod")
  <2>1. CASE CmdOrder[k] = "EXIT"
    <3>1. pc'[t] = "endclose"
      BY <1>0, <1>6, <2>1, GotoThere
    <3> QED
      BY <1>1, <1>3, <3>1, LineLeaves
  <2>2. CASE CmdOrder[k] # "EXIT"
    <3>1. pc'[t] = "mod"
      BY <1>0, <1>6, <2>2, GotoThere
    <3>2. loc'[t] = [loc[t] EXCEPT !.cmd = CmdOrder[k], !.k = 1]
      BY <1>0, <1>6
    <3>3. \A v, w : LET m == [loc[t] EXCEPT !.cmd = v, !.k = w] IN
            /\ m.own = loc[t].own /\ m.got = loc[t].got /\ m.buf = loc[t].buf
            /\ m.k = w
      BY <1>0 DEF Locals
    <3>4. /\ loc'[t].own = loc[t].own /\ loc'[t].got = 0 /\ loc'[t].buf = <<>>
          /\ loc'[t].k = 1
      BY <1>5, <3>2, <3>3
    <3>5. \A j \in 1..loc'[t].k - 1 : loc'[t].own.mod # ModOrder[j]
      BY <3>4
    <3>6. Started("mod", loc'[t]) /\ ~Lost("mod", loc'[t])
      BY <3>4, <3>5 DEF Started, Lost, Fresh
    <3>7. \A r \in Requests \cup {NoRequest}, p \in Nat :
            Placed("cmd", loc[t], r, p) => Placed("mod", loc'[t], r, p)
      BY <1>5, <3>4, LinePlaces DEF Placed, GotHdr
    <3>8. "mod" \in GotHdr /\ "mod" \notin FileHeld
      BY DEF GotHdr, FileHeld
    <3> QED
      BY <1>1, <1>2, <1>3, <3>1, <3>6, <3>7, <3>8, LineStays
  <2> QED
    BY <2>1, <2>2
<1>7. CASE g_stTestHdr.cmd # CmdOrder[k] /\ SetLoc(t, "k", k + 1) /\ UNCHANGED pc
  <2>1. loc'[t] = [loc[t] EXCEPT !["k"] = k + 1]
    BY <1>0, <1>7 DEF SetLoc
  <2>2. \A v : [loc[t] EXCEPT !["k"] = v].k = v
    BY <1>0 DEF Locals
  <2>3. /\ loc'[t].own = loc[t].own /\ loc'[t].got = 0 /\ loc'[t].buf = <<>>
        /\ loc'[t].k = k + 1
    BY <1>0, <1>5, <1>7, <2>1, <2>2, LineLocals
  <2>4. \A j \in 1..loc'[t].k - 1 : loc'[t].own.cmd # CmdOrder[j]
    <3> SUFFICES ASSUME NEW j \in 1..(k + 1) - 1 PROVE loc[t].own.cmd # CmdOrder[j]
      BY <2>3
    <3>1. j \in 1..k - 1 \/ j = k
      BY <1>5
    <3> QED
      BY <1>4, <1>5, <1>7, <3>1
  <2>5. Started("cmd", loc'[t]) /\ ~Lost("cmd", loc'[t])
    BY <2>3, <2>4 DEF Started, Lost, Fresh
  <2>6. \A r \in Requests \cup {NoRequest}, p \in Nat :
          Placed("cmd", loc[t], r, p) => Placed("cmd", loc'[t], r, p)
    BY <1>5, <2>3, LinePlaces DEF Placed, GotHdr
  <2>7. pc'[t] = "cmd" /\ "cmd" \in GotHdr /\ "cmd" \notin FileHeld
    BY <1>1, <1>7 DEF GotHdr, FileHeld
  <2> QED
    BY <1>1, <1>2, <1>3, <2>5, <2>6, <2>7, LineStays
<1>8. ~(g_stTestHdr.cmd # CmdOrder[k] /\ k = Len(CmdOrder))
  <2>1. g_stTestHdr.cmd # CmdOrder[k] => k < Len(CmdOrder)
    BY <1>4, <1>5, ChainsCover
  <2>2. Len(CmdOrder) = 4
    BY DEF CmdOrder
  <2> QED
    BY <1>5, <2>1, <2>2
<1> QED
  BY <1>6, <1>7, <1>8 DEF TestCmd

\* Receiving and checking the header.
LEMMA LineRecvHeader ==
  ASSUME LineInv, Running, NEW t \in Clients, RecvHeader(t), ~RecvPiece(t)
  PROVE  KeepsLine(t)
<1>1. CASE Call(t, "hcall", "recv")
  BY <1>1, LineCall
<1>2. CASE Top(t) \/ RecvHdr(t) \/ CopyCmd(t)
  BY <1>2, LineTop, LineRecvHdr, LineCopyCmd
<1>3. CASE HdrDown(t) \/ CheckVersion(t) \/ CheckLen(t) \/ TestCmd(t)
  BY <1>3, LineHdrDown, LineChecks, LineTestCmd
<1> QED
  BY <1>1, <1>2, <1>3 DEF RecvHeader

-----------------------------------------------------------------------------
(* The thread's steps: the payload.                                        *)

\* Choosing the codec.
LEMMA LineTestModule ==
  ASSUME LineInv, Running, NEW t \in Clients, TestModule(t)
  PROVE  KeepsLine(t)
<1>0. /\ TypeOK /\ loc \in [Clients -> Locals] /\ loc[t] \in Locals
      /\ Started(pc[t], loc[t]) /\ Own(pc[t], loc[t], g_stTestHdr)
  BY LineFacts
<1>1. pc[t] = "mod" /\ UNCHANGED <<main, fdTable, connFd, inq, cur, cl, hdrBytes>>
  BY DEF TestModule, Private, clientVars
<1>2. pc[t] \in GotHdr /\ ~Lost(pc[t], loc[t])
  BY <1>1 DEF GotHdr, Lost
<1>3. /\ FrameOf(t) /\ pc[t] \notin {"none", "done", "endclose"}
      /\ \E r \in Requests : loc[t].own = HdrOf(r)
  BY <1>2, LineRequest
<1>4. g_stTestHdr = loc[t].own /\ loc[t].own.mod \in Mods
  BY <1>0, <1>1, <1>3, OwnPlaces, HdrOfFields DEF Own, Relying
<1> DEFINE k == loc[t].k
<1>5. /\ k \in 1..4 /\ loc[t].got = 0 /\ loc[t].buf = <<>>
      /\ \A j \in 1..k - 1 : loc[t].own.mod # ModOrder[j]
  BY <1>0, <1>1, <1>2, Lookups DEF Started
<1>6. CASE /\ k <= Len(ModOrder) /\ g_stTestHdr.mod = ModOrder[k]
           /\ loc' = [loc EXCEPT ![t] = [@ EXCEPT !.mod = ModOrder[k], !.size = BufRoom]]
           /\ Goto(t, IF ModOrder[k] = "TLV" THEN "need" ELSE "size")
  <2>1. pc'[t] \in {"need", "size"}
    <3>1. Goto(t, "need") \/ Goto(t, "size")
      BY <1>6
    <3> QED
      BY <1>0, <3>1, GotoThere
  <2>2. loc'[t] = [loc[t] EXCEPT !.mod = ModOrder[k], !.size = BufRoom]
    BY <1>0, <1>6
  <2>3. \A v, w : LET m == [loc[t] EXCEPT !.mod = v, !.size = w] IN
          m.own = loc[t].own /\ m.got = loc[t].got /\ m.buf = loc[t].buf
    BY <1>0 DEF Locals
  <2>4. loc'[t].own = loc[t].own /\ loc'[t].got = 0 /\ loc'[t].buf = <<>>
    BY <1>5, <2>2, <2>3
  <2>5. /\ pc'[t] \in GotHdr /\ pc'[t] \notin FileHeld
        /\ pc'[t] \notin Fresh \cup {"copy", "ver", "len", "decode", "cmd", "mod",
                                     "hdrdown", "recv", "data"}
    BY <2>1 DEF GotHdr, FileHeld, Fresh
  <2>6. Started(pc'[t], loc'[t]) /\ ~Lost(pc'[t], loc'[t])
    BY <2>4, <2>5 DEF Started, Lost
  <2>7. \A r \in Requests \cup {NoRequest}, p \in Nat :
          Placed(pc[t], loc[t], r, p) => Placed(pc'[t], loc'[t], r, p)
    BY <1>2, <1>5, <2>4, <2>5, LinePlaces DEF Placed
  <2> QED
    BY <1>1, <1>2, <1>3, <2>5, <2>6, <2>7, LineStays
<1>7. CASE g_stTestHdr.mod # ModOrder[k] /\ SetLoc(t, "k", k + 1) /\ UNCHANGED pc
  <2>1. loc'[t] = [loc[t] EXCEPT !["k"] = k + 1]
    BY <1>0, <1>7 DEF SetLoc
  <2>2. \A v : [loc[t] EXCEPT !["k"] = v].k = v
    BY <1>0 DEF Locals
  <2>3. /\ loc'[t].own = loc[t].own /\ loc'[t].got = 0 /\ loc'[t].buf = <<>>
        /\ loc'[t].k = k + 1
    BY <1>0, <1>5, <1>7, <2>1, <2>2, LineLocals
  <2>4. \A j \in 1..loc'[t].k - 1 : loc'[t].own.mod # ModOrder[j]
    <3> SUFFICES ASSUME NEW j \in 1..(k + 1) - 1 PROVE loc[t].own.mod # ModOrder[j]
      BY <2>3
    <3>1. j \in 1..k - 1 \/ j = k
      BY <1>5
    <3> QED
      BY <1>4, <1>5, <1>7, <3>1
  <2>5. Started("mod", loc'[t]) /\ ~Lost("mod", loc'[t])
    BY <2>3, <2>4 DEF Started, Lost, Fresh
  <2>6. \A r \in Requests \cup {NoRequest}, p \in Nat :
          Placed("mod", loc[t], r, p) => Placed("mod", loc'[t], r, p)
    BY <1>5, <2>3, LinePlaces DEF Placed, GotHdr
  <2>7. pc'[t] = "mod" /\ "mod" \in GotHdr /\ "mod" \notin FileHeld
    BY <1>1, <1>7 DEF GotHdr, FileHeld
  <2> QED
    BY <1>1, <1>2, <1>3, <2>5, <2>6, <2>7, LineStays
<1>8. ~(g_stTestHdr.mod # ModOrder[k] /\ k = Len(ModOrder))
  <2>1. g_stTestHdr.mod # ModOrder[k] => k < Len(ModOrder)
    BY <1>4, <1>5, ChainsCover
  <2>2. Len(ModOrder) = 3
    BY DEF ModOrder
  <2> QED
    BY <1>5, <2>1, <2>2
<1> QED
  BY <1>6, <1>7, <1>8 DEF TestModule

\* The sizes of the buffer and of the payload are the header's.
LEMMA LineSizes ==
  ASSUME LineInv, Running, NEW t \in Clients, SizeBuf(t) \/ ReadNeed(t)
  PROVE  KeepsLine(t)
<1>0. /\ TypeOK /\ loc \in [Clients -> Locals] /\ loc[t] \in Locals
      /\ Started(pc[t], loc[t]) /\ Own(pc[t], loc[t], g_stTestHdr)
  BY LineFacts
<1>1. /\ pc[t] \in {"size", "need"}
      /\ UNCHANGED <<main, fdTable, connFd, inq, cur, cl, hdrBytes>>
  BY DEF SizeBuf, ReadNeed, Private, clientVars
<1>2. pc[t] \in GotHdr /\ ~Lost(pc[t], loc[t])
  BY <1>1 DEF GotHdr, Lost
<1>3. /\ FrameOf(t) /\ pc[t] \notin {"none", "done", "endclose"}
      /\ \E r \in Requests : loc[t].own = HdrOf(r)
  BY <1>2, LineRequest
<1>4. loc[t].got = 0 /\ loc[t].buf = <<>> /\ g_stTestHdr.dlen \in Nat
  BY <1>0, <1>2 DEF Started, TypeOK, Header
<1>5. CASE SizeBuf(t)
  <2>1. pc[t] = "size" /\ pc'[t] = "need"
    BY <1>0, <1>5, GotoThere DEF SizeBuf
  <2>2. loc'[t].own = loc[t].own /\ loc'[t].got = 0 /\ loc'[t].buf = <<>>
    BY <1>0, <1>4, <1>5, LineLocals DEF SizeBuf
  <2>3. Started("need", loc'[t]) /\ ~Lost("need", loc'[t])
    BY <2>2 DEF Started, Lost, Fresh
  <2>4. \A r \in Requests \cup {NoRequest}, p \in Nat :
          Placed("size", loc[t], r, p) => Placed("need", loc'[t], r, p)
    BY <1>4, <2>2, LinePlaces DEF Placed, GotHdr
  <2>5. "need" \in GotHdr /\ "need" \notin FileHeld
    BY DEF GotHdr, FileHeld
  <2> QED
    BY <1>1, <1>2, <1>3, <2>1, <2>3, <2>4, <2>5, LineStays
<1>6. CASE ReadNeed(t)
  <2> DEFINE n == g_stTestHdr.dlen
  <2>1. /\ pc[t] = "need" /\ SetLoc(t, "need", n)
        /\ pc'[t] = IF n = 0 THEN "check" ELSE "dcall"
    BY <1>0, <1>6, GotoThere DEF ReadNeed
  <2>2. loc'[t].own = loc[t].own /\ loc'[t].got = 0 /\ loc'[t].buf = <<>>
    BY <1>0, <1>4, <2>1, LineLocals
  <2>3. loc'[t].need = n
    BY <1>0, <2>1 DEF SetLoc, Locals
  <2> HIDE DEF n
  <2>6. \A r : BufOf(loc'[t], r)
    BY <2>2 DEF BufOf
  <2>4. CASE n = 0
    <3>1. pc'[t] = "check" /\ loc'[t].got = loc'[t].need
      BY <2>1, <2>2, <2>3, <2>4
    <3>2. \A r \in Requests \cup {NoRequest}, p \in Nat :
            Placed("need", loc[t], r, p) => Placed("check", loc'[t], r, p)
      BY <1>4, <2>2, <2>6, <3>1, LinePlaces DEF Placed, GotHdr, Whole
    <3>3. Started("check", loc'[t]) /\ ~Lost("check", loc'[t])
      BY DEF Started, Lost, Fresh, GotHdr
    <3>4. "check" \in Whole /\ "check" \notin FileHeld
      BY DEF Whole, FileHeld
    <3> QED
      BY <1>1, <1>2, <1>3, <2>1, <3>1, <3>2, <3>3, <3>4, LineStays
  <2>5. CASE n # 0
    <3>1. pc'[t] = "dcall" /\ loc'[t].got < loc'[t].need
      BY <1>4, <2>1, <2>2, <2>3, <2>5 DEF n
    <3>3. \A r \in Requests \cup {NoRequest}, p \in Nat :
            Placed("need", loc[t], r, p) => Placed("dcall", loc'[t], r, p)
      BY <1>4, <2>2, <2>6, <3>1, LinePlaces DEF Placed, GotHdr, Getting
    <3>4. Started("dcall", loc'[t]) /\ ~Lost("dcall", loc'[t])
      BY DEF Started, Lost, Fresh, GotHdr
    <3>5. "dcall" \in Getting /\ "dcall" \notin FileHeld
      BY DEF Getting, FileHeld
    <3> QED
      BY <1>1, <1>2, <1>3, <2>1, <3>1, <3>3, <3>4, <3>5, LineStays
  <2> QED
    BY <2>4, <2>5
<1> QED
  BY <1>5, <1>6

\* A chunk laid over the start of the buffer.
LEMMA OverlayParts ==
  ASSUME NEW buf \in Seq(Cells), NEW s \in Seq(Cells), NEW n \in 1..Len(s)
  PROVE  LET u == Overlay(buf, SubSeq(s, 1, n)) IN
         /\ Len(u) = IF n < Len(buf) THEN Len(buf) ELSE n
         /\ \A i \in 1..Len(u) : u[i] = IF i <= n THEN s[i] ELSE buf[i]
<1> DEFINE chunk == SubSeq(s, 1, n)
           rest == SubSeq(buf, n + 1, Len(buf))
           u == chunk \o rest
<1>1. Len(s) \in Nat /\ Len(buf) \in Nat /\ n \in Int /\ n + 1 \in Int
  BY LenProperties
<1>2. \A i \in 1..n : s[i] \in Cells
  BY <1>1, ElementOfSeq
<1>3. \A i \in n+1..Len(buf) : buf[i] \in Cells
  BY <1>1, ElementOfSeq
<1>4. /\ chunk \in Seq(Cells) /\ Len(chunk) = n
      /\ \A i \in 1..n : chunk[i] = s[i]
  <2>1. \A i \in 1..n - 1 + 1 : SubSeq(s, 1, n)[i] = s[1 + i - 1]
    BY <1>1, <1>2, SubSeqProperties
  <2>2. \A i \in 1..n : i \in 1..n - 1 + 1 /\ 1 + i - 1 = i
    BY <1>1
  <2>3. SubSeq(s, 1, n) \in Seq(Cells) /\ Len(SubSeq(s, 1, n)) = n
    BY CutType
  <2> QED
    BY <2>1, <2>2, <2>3
<1>5. /\ rest \in Seq(Cells)
      /\ Len(rest) = IF n + 1 <= Len(buf) THEN Len(buf) - (n + 1) + 1 ELSE 0
      /\ \A i \in 1..Len(buf) - (n + 1) + 1 : rest[i] = buf[(n + 1) + i - 1]
  BY <1>1, <1>3, SubSeqProperties
<1>6. Overlay(buf, chunk) = u
  BY <1>4 DEF Overlay
<1> HIDE DEF chunk, rest
<1>7. /\ Len(u) = n + Len(rest)
      /\ \A i \in 1..n + Len(rest) : u[i] = IF i <= n THEN chunk[i] ELSE rest[i - n]
  <2>1. /\ Len(u) = Len(chunk) + Len(rest)
        /\ \A i \in 1..Len(chunk) + Len(rest) :
             u[i] = IF i <= Len(chunk) THEN chunk[i] ELSE rest[i - Len(chunk)]
    <3>1. chunk \in Seq(Cells) /\ rest \in Seq(Cells)
      BY <1>4, <1>5
    <3> QED
      BY <3>1, ConcatProperties, ZenonT(30)
  <2>2. Len(chunk) = n
    BY <1>4
  <2> HIDE DEF u
  <2> QED
    BY <2>1, <2>2
<1> HIDE DEF u
<1>8. Len(u) = IF n < Len(buf) THEN Len(buf) ELSE n
  BY <1>1, <1>5, <1>7
<1>9. ASSUME NEW i \in 1..Len(u) PROVE u[i] = IF i <= n THEN s[i] ELSE buf[i]
  <2>1. CASE i <= n
    <3>1. i \in 1..n + Len(rest) /\ i \in 1..n
      BY <1>7, <1>9, <2>1
    <3> QED
      BY <1>4, <1>7, <2>1, <3>1
  <2>2. CASE ~(i <= n)
    <3>1. /\ i \in 1..n + Len(rest)
          /\ i - n \in 1..Len(buf) - (n + 1) + 1
          /\ (n + 1) + (i - n) - 1 = i
      BY <1>1, <1>5, <1>7, <1>9, <2>2
    <3>2. u[i] = rest[i - n]
      BY <1>7, <2>2, <3>1
    <3>3. rest[i - n] = buf[(n + 1) + (i - n) - 1]
      BY <1>5, <3>1
    <3> QED
      BY <2>2, <3>1, <3>2, <3>3
  <2> QED
    BY <2>1, <2>2
<1> QED
  BY <1>6, <1>8, <1>9 DEF chunk

\* The cells are no more than were received, and all of one request when both
\* are.
LEMMA OverlayCells ==
  ASSUME NEW buf \in Seq(Cells), NEW s \in Seq(Cells), NEW n \in 1..Len(s), NEW r,
         NEW g \in Nat, Len(buf) <= g,
         \A i \in 1..Len(buf) : buf[i].req = r, \A i \in 1..n : s[i].req = r
  PROVE  LET u == Overlay(buf, SubSeq(s, 1, n)) IN
         Len(u) <= g + n /\ \A i \in 1..Len(u) : u[i].req = r
<1> DEFINE u == Overlay(buf, SubSeq(s, 1, n))
<1>1. Len(s) \in Nat /\ Len(buf) \in Nat /\ n \in Nat /\ n > 0
  BY LenProperties
<1>2. /\ Len(u) = IF n < Len(buf) THEN Len(buf) ELSE n
      /\ \A i \in 1..Len(u) : u[i] = IF i <= n THEN s[i] ELSE buf[i]
  BY OverlayParts
<1> HIDE DEF u
<1>3. Len(u) <= g + n
  BY <1>1, <1>2
<1>4. ASSUME NEW i \in 1..Len(u) PROVE u[i].req = r
  <2>1. i \in 1..n \/ (~(i <= n) /\ i \in 1..Len(buf))
    BY <1>1, <1>2
  <2>2. i \in 1..n => i <= n
    BY <1>1
  <2> QED
    BY <1>2, <2>1, <2>2
<1> QED
  BY <1>3, <1>4 DEF u

\* Receiving a part of the payload: the cells are the request's own.
LEMMA LineRecvData ==
  ASSUME LineInv, Running, NEW t \in Clients, RecvData(t)
  PROVE  KeepsLine(t)
<1>0. /\ TypeOK /\ loc \in [Clients -> Locals] /\ loc[t] \in Locals
      /\ connFd[t] \in Fds /\ inq[t] \in Seq(Cells)
      /\ FramedInv(t) /\ HeldInv(t) /\ Own(pc[t], loc[t], g_stTestHdr)
  BY LineFacts
<1>1. pc[t] = "data" /\ UNCHANGED <<connFd, cur, cl>>
  BY DEF RecvData, clientVars
<1>2. loc[t].sock.who = t
  BY <1>0, <1>1, EntriesDiffer DEF HeldInv
<1> DEFINE s == inq[t]
           l == loc[t]
           buf(n) == Overlay(l.buf, SubSeq(s, 1, n))
<1>3. PICK n \in 1..Len(s) :
        /\ n <= l.need - l.got
        /\ inq' = [inq EXCEPT ![t] = SubSeq(s, n + 1, Len(s))]
        /\ loc' = [loc EXCEPT ![t] = [l EXCEPT !.got = l.got + n, !.buf = buf(n)]]
        /\ \/ /\ Goto(t, IF l.got + n = l.need THEN "check" ELSE "dcall")
              /\ UNCHANGED <<main, fdTable>>
           \/ Die
  BY <1>2 DEF RecvData
<1>4. CASE Die
  BY <1>4, LineDies
<1>5. CASE ~Die
  <2>1. /\ pc'[t] = IF l.got + n = l.need THEN "check" ELSE "dcall"
        /\ UNCHANGED <<main, fdTable>>
    BY <1>0, <1>3, <1>5, GotoThere
  <2>2. /\ loc'[t].own = l.own /\ loc'[t].need = l.need
        /\ loc'[t].got = l.got + n /\ loc'[t].buf = buf(n)
    <3> HIDE DEF buf
    <3>1. \A v, w : LET m == [l EXCEPT !.got = v, !.buf = w] IN
            m.own = l.own /\ m.need = l.need /\ m.got = v /\ m.buf = w
      BY <1>0 DEF Locals
    <3>2. loc'[t] = [l EXCEPT !.got = l.got + n, !.buf = buf(n)]
      BY <1>0, <1>3
    <3> QED
      BY <3>1, <3>2
  <2>3. inq'[t] = SubSeq(s, n + 1, Len(s)) /\ \A u \in Clients \ {t} : inq'[u] = inq[u]
    BY <1>0, <1>3 DEF TypeOK
  <2>4. ~Lost(pc[t], l) /\ FrameOf(t)
    <3>1. ~Lost(pc[t], l)
      BY <1>1 DEF Lost
    <3> QED
      BY <1>0, <1>1, <3>1 DEF FramedInv, Getting
  <2>5. PICK r \in Requests \cup {NoRequest}, p \in Nat :
          /\ Stream(r, p, inq[t])
          /\ Ended(cl[t], cur[t], r, p, inq[t])
          /\ Placed(pc[t], loc[t], r, p)
    BY <2>4 DEF FrameOf
  <2>6. /\ r \in Requests /\ l.own = HdrOf(r) /\ p = l.got
        /\ l.got < l.need /\ BufOf(l, r)
    BY <1>1, <2>5 DEF Placed, Getting
  <2>7. l.need = r.dlen
    <3>1. l.need = l.own.dlen
      BY <1>0, <1>1, OwnPlaces DEF Own
    <3> QED
      BY <2>6, <3>1, HdrOfFields
  <2>8. /\ l.need \in Nat /\ l.got \in Nat /\ l.buf \in Seq(Cells) /\ Len(s) \in Nat
        /\ n \in Nat
    BY <1>0, Lookups, LenProperties
  <2>9. p + n <= r.dlen
    BY <1>3, <2>6, <2>7, <2>8
  <2>10. (\A i \in 1..n : s[i].req = r) /\ s[n].req = r /\ s[n].part = p + n
    <3>1. Stream(r, p, s) /\ s \in Seq(Cells) /\ n \in 1..Len(s)
      BY <1>0, <2>5
    <3> HIDE DEF s
    <3> QED
      BY <2>9, <3>1, StreamCells
  <2>11. Rest(inq'[t], s, n)
    <3>1. s \in Seq(Cells) /\ n \in 1..Len(s)
      BY <1>0
    <3> HIDE DEF s
    <3> QED
      BY <2>3, <3>1, RestOf
  <2>12. /\ Stream(r, p + n, inq'[t])
         /\ LastReq(r, inq'[t]) = LastReq(r, s)
         /\ LastPart(p + n, inq'[t]) = LastPart(p, s)
    <3> DEFINE u == inq'[t]
    <3>1. s \in Seq(Cells) /\ Rest(u, s, n) /\ Stream(r, p, s)
      BY <1>0, <2>5, <2>11
    <3> HIDE DEF s, u
    <3>2. /\ Stream(s[n].req, s[n].part, u)
          /\ LastReq(s[n].req, u) = LastReq(r, s)
          /\ LastPart(s[n].part, u) = LastPart(p, s)
      BY <3>1, StreamRest
    <3> QED
      BY <2>10, <3>2 DEF u
  <2>13. Ended(cl'[t], cur'[t], r, p + n, inq'[t])
    <3>1. s # <<>>
      BY <2>8, EmptySeq
    <3> QED
      BY <1>1, <2>5, <2>12, <3>1 DEF Ended
  <2>14. BufOf(loc'[t], r)
    <3>1. Len(l.buf) <= l.got /\ \A i \in 1..Len(l.buf) : l.buf[i].req = r
      BY <2>6 DEF BufOf
    <3>2. Len(buf(n)) <= l.got + n /\ \A i \in 1..Len(buf(n)) : buf(n)[i].req = r
      <4> DEFINE b == l.buf
                 g == l.got
      <4>1. /\ b \in Seq(Cells) /\ g \in Nat /\ s \in Seq(Cells) /\ n \in 1..Len(s)
            /\ Len(b) <= g /\ \A i \in 1..Len(b) : b[i].req = r
            /\ \A i \in 1..n : s[i].req = r
        BY <1>0, <2>8, <2>10, <3>1
      <4>2. buf(n) = Overlay(b, SubSeq(s, 1, n))
        OBVIOUS
      <4> HIDE DEF b, g, s, buf
      <4>3. LET u == Overlay(b, SubSeq(s, 1, n)) IN
            Len(u) <= g + n /\ \A i \in 1..Len(u) : u[i].req = r
        BY <4>1, OverlayCells
      <4> QED
        BY <4>2, <4>3 DEF g
    <3> HIDE DEF buf
    <3> QED
      BY <2>2, <3>2 DEF BufOf
  <2>15. CASE l.got + n = l.need
    <3>1. pc'[t] = "check" /\ loc'[t].got = loc'[t].need
      BY <2>1, <2>2, <2>15
    <3>2. Placed("check", loc'[t], r, p + n)
      BY <2>2, <2>6, <2>14, <3>1, LinePlaces DEF Placed, Whole
    <3>3. FrameOf(t)'
      BY <2>8, <2>6, <2>12, <2>13, <3>1, <3>2 DEF FrameOf
    <3>4. Started("check", loc'[t]) /\ ~Lost("check", loc'[t])
      BY DEF Started, Lost, Fresh, GotHdr
    <3>5. FramedInv(t)'
      BY <3>1, <3>3, <3>4 DEF FramedInv
    <3>6. HeldInv(t)'
      BY <1>1, <2>1, <2>4, <3>1, <3>4, HeldQuiet DEF FileHeld
    <3>7. \A f \in Fds : Moved(t, fdTable[f], fdTable'[f])
      BY <2>1 DEF Moved
    <3> QED
      BY <1>1, <2>1, <2>3, <3>1, <3>5, <3>6, <3>7 DEF KeepsLine
  <2>16. CASE l.got + n # l.need
    <3>1. pc'[t] = "dcall" /\ loc'[t].got < loc'[t].need
      <4>1. n <= l.need - l.got
        BY <1>3
      <4>2. l.got + n < l.need
        <5> HIDE DEF l
        <5> QED
          BY <2>8, <2>16, <4>1
      <4>3. pc'[t] = "dcall"
        BY <2>1, <2>16
      <4> QED
        BY <2>2, <4>2, <4>3
    <3>2. Placed("dcall", loc'[t], r, p + n)
      BY <2>2, <2>6, <2>14, <3>1, LinePlaces DEF Placed, Getting
    <3>3. FrameOf(t)'
      BY <2>8, <2>6, <2>12, <2>13, <3>1, <3>2 DEF FrameOf
    <3>4. Started("dcall", loc'[t]) /\ ~Lost("dcall", loc'[t])
      BY DEF Started, Lost, Fresh, GotHdr
    <3>5. FramedInv(t)'
      BY <3>1, <3>3, <3>4 DEF FramedInv
    <3>6. HeldInv(t)'
      BY <1>1, <2>1, <2>4, <3>1, <3>4, HeldQuiet DEF FileHeld
    <3>7. \A f \in Fds : Moved(t, fdTable[f], fdTable'[f])
      BY <2>1 DEF Moved
    <3> QED
      BY <1>1, <2>1, <2>3, <3>1, <3>5, <3>6, <3>7 DEF KeepsLine
  <2> QED
    BY <2>15, <2>16
<1> QED
  BY <1>4, <1>5

\* The peer is down in the middle of a payload: the thread closes its connection
\* and decodes the part it has.
LEMMA LineDataDown ==
  ASSUME LineInv, Running, NEW t \in Clients, DataDown(t)
  PROVE  KeepsLine(t)
<1>0. TypeOK /\ FramedInv(t)
  BY LineFacts
<1>1. /\ pc[t] = "datadown" /\ CloseFd(t, connFd[t], "decode") /\ pc'[t] = "decode"
      /\ UNCHANGED loc
  BY <1>0, GotoThere DEF DataDown, CloseFd
<1>2. loc[t].got # loc[t].need /\ Cut(loc[t])
  BY <1>0, <1>1 DEF FramedInv
<1>3. Lost("decode", loc'[t]) /\ Started("decode", loc'[t]) /\ Cut(loc'[t])
  BY <1>1, <1>2 DEF Lost, Started, Fresh, GotHdr, Cut
<1>4. FramedInv(t)'
  BY <1>1, <1>3 DEF FramedInv
<1> QED
  BY <1>1, <1>3, <1>4, LineCloses

\* The payload is complete, or its size is another one.
LEMMA LineCheckData ==
  ASSUME LineInv, Running, NEW t \in Clients, CheckData(t)
  PROVE  KeepsLine(t)
<1>0. TypeOK /\ FramedInv(t)
  BY LineFacts
<1>1. /\ pc[t] = "check" /\ pc'[t] \in {"decode", "endclose"}
      /\ UNCHANGED <<main, fdTable, connFd, inq, cur, cl, loc>>
  <2>1. Goto(t, "decode") \/ Goto(t, "endclose")
    BY DEF CheckData
  <2> QED
    BY <1>0, <2>1, GotoThere DEF CheckData, Private, clientVars
<1>2. pc[t] \in Whole /\ ~Lost(pc[t], loc[t])
  BY <1>1 DEF Whole, Lost
<1>3. FrameOf(t) /\ pc[t] \notin {"none", "done", "endclose"}
  BY <1>2, LineRequest
<1>4. CASE pc'[t] = "endclose"
  BY <1>1, <1>3, <1>4, LineLeaves
<1>5. CASE pc'[t] = "decode"
  <2>1. loc[t].got = loc[t].need
    BY <1>2, <1>3 DEF FrameOf, Placed
  <2>2. Started("decode", loc'[t]) /\ ~Lost("decode", loc'[t])
    BY <1>1, <2>1 DEF Started, Lost, Fresh, GotHdr
  <2>3. \A r \in Requests \cup {NoRequest}, p \in Nat :
          Placed("check", loc[t], r, p) => Placed("decode", loc'[t], r, p)
    BY <1>1, <2>1, LinePlaces DEF Placed, Whole
  <2>4. "decode" \in Whole /\ "decode" \notin FileHeld
    BY DEF Whole, FileHeld
  <2> QED
    BY <1>1, <1>2, <1>3, <1>5, <2>2, <2>3, <2>4, LineStays
<1> QED
  BY <1>1, <1>4, <1>5

\* A payload that never came decodes to no request at all.
LEMMA CutDecodesNothing ==
  ASSUME LineInv, Running, NEW t \in Clients, pc[t] = "decode", Lost(pc[t], loc[t])
  PROVE  /\ \A r \in Requests : ~Decodes(t, r)
         /\ g_stTestHdr.dlen # 0 /\ loc[t].buf = <<>>
<1>1. FramedInv(t) /\ Own(pc[t], loc[t], g_stTestHdr)
  BY LineFacts
<1>2. loc[t].need # 0 /\ loc[t].buf = <<>>
  BY <1>1 DEF FramedInv, Cut, Lost
<1>3. g_stTestHdr.dlen = loc[t].need
  BY <1>1, OwnPlaces DEF Own
<1>4. Len(loc[t].buf) = 0
  BY <1>2, EmptySeq
<1>5. \A r \in Requests : ~Holds(loc[t].buf, r)
  BY <1>4, StreamTypes DEF Holds
<1> QED
  BY <1>2, <1>3, <1>5 DEF Decodes

\* A whole payload goes to its handler, a part of one to the end.
LEMMA LineDecode ==
  ASSUME LineInv, Running, NEW t \in Clients, Decode(t)
  PROVE  KeepsLine(t)
<1>0. TypeOK /\ Own(pc[t], loc[t], g_stTestHdr)
  BY LineFacts
<1>1. pc[t] = "decode" /\ UNCHANGED <<connFd, inq, cur, cl, loc>>
  BY DEF Decode, clientVars
<1>2. CASE Die
  BY <1>2, LineDies
<1>3. CASE ~Die
  <2>1. UNCHANGED <<main, fdTable>>
    BY <1>3 DEF Decode
  <2>2. \E p \in {"set", "get", "list", "lend", "endclose"} : Goto(t, p)
    BY <1>3 DEF Decode, HandlerPc
  <2>3. pc'[t] \in {"set", "get", "list", "lend", "endclose"}
    BY <1>0, <2>2, GotoThere
  <2>4. CASE pc'[t] = "endclose"
    BY <1>1, <2>1, <2>4, LineLeaves
  <2>5. CASE pc'[t] # "endclose"
    <3>1. ~Lost(pc[t], loc[t])
      <4> SUFFICES ASSUME Lost(pc[t], loc[t]) PROVE FALSE
        OBVIOUS
      <4>1. /\ \A r \in Requests : ~Decodes(t, r)
            /\ g_stTestHdr.dlen # 0 /\ loc[t].buf = <<>>
        BY <1>1, CutDecodesNothing
      <4>2. Goto(t, "endclose")
        BY <1>3, <4>1 DEF Decode
      <4> QED
        BY <1>0, <2>5, <4>2, GotoThere
    <3>2. pc[t] \in Whole
      BY <1>1 DEF Whole
    <3>3. FrameOf(t) /\ pc[t] \notin {"none", "done", "endclose"}
      BY <3>1, <3>2, LineRequest
    <3>4. /\ pc'[t] \in Decoded /\ pc'[t] \notin FileHeld
          /\ pc'[t] \notin {"copy", "ver", "len", "recv", "data"}
      BY <2>3, <2>5 DEF Decoded, FileHeld
    <3>5. Started(pc'[t], loc'[t]) /\ ~Lost(pc'[t], loc'[t])
      BY <2>3, <2>5 DEF Started, Lost, Fresh, GotHdr
    <3>6. \A r \in Requests \cup {NoRequest}, p \in Nat :
            Placed(pc[t], loc[t], r, p) => Placed(pc'[t], loc'[t], r, p)
      <4> SUFFICES ASSUME NEW r \in Requests \cup {NoRequest}, NEW p \in Nat,
                          Placed(pc[t], loc[t], r, p)
                   PROVE  Placed(pc'[t], loc'[t], r, p)
        OBVIOUS
      <4>1. r \in Requests /\ loc[t].own = HdrOf(r) /\ p = loc[t].need
        BY <3>2 DEF Placed
      <4>2. loc[t].need = loc[t].own.dlen
        BY <1>0, <1>1, OwnPlaces DEF Own
      <4>3. p = r.dlen
        BY <4>1, <4>2, HdrOfFields
      <4> QED
        BY <3>4, <4>3, LinePlaces DEF Placed
    <3> QED
      BY <1>1, <2>1, <3>1, <3>3, <3>4, <3>5, <3>6, LineStays
  <2> QED
    BY <2>4, <2>5
<1> QED
  BY <1>2, <1>3

\* Choosing the codec, receiving the payload and decoding it.
LEMMA LineRecvRequest ==
  ASSUME LineInv, Running, NEW t \in Clients, RecvRequest(t)
  PROVE  KeepsLine(t)
<1>1. CASE Call(t, "dcall", "data")
  BY <1>1, LineCall
<1>2. CASE TestModule(t) \/ SizeBuf(t) \/ ReadNeed(t)
  BY <1>2, LineTestModule, LineSizes
<1>3. CASE RecvData(t) \/ DataDown(t)
  BY <1>3, LineRecvData, LineDataDown
<1>4. CASE CheckData(t) \/ Decode(t)
  BY <1>4, LineCheckData, LineDecode
<1> QED
  BY <1>1, <1>2, <1>3, <1>4 DEF RecvRequest

\* The end of a recv(), and the closes after a failure.
LEMMA LineEnds ==
  ASSUME LineInv, Running, NEW t \in Clients, RecvEnds(t) \/ ErrClose(t) \/ EndClose(t)
  PROVE  KeepsLine(t)
<1>0. TypeOK /\ FramedInv(t) /\ HeldInv(t) /\ Started(pc[t], loc[t])
  BY LineFacts
<1>1. CASE RecvEnds(t)
  <2>1. /\ pc[t] \in {"recv", "data"}
        /\ UNCHANGED <<main, fdTable, connFd, inq, cur, cl, loc>>
    BY <1>1 DEF RecvEnds, clientVars
  <2>2. ~Lost(pc[t], loc[t])
    BY <2>1 DEF Lost
  <2>3. CASE pc'[t] = "errclose"
    BY <2>1, <2>2, <2>3, LineLeaves
  <2>4. CASE pc'[t] # "errclose"
    <3>1. \/ pc[t] = "recv" /\ Goto(t, "hdrdown")
          \/ pc[t] = "data" /\ Goto(t, "datadown")
      <4>1. ~Goto(t, "errclose")
        BY <1>0, <2>4, GotoThere
      <4> QED
        BY <1>1, <2>1, <4>1 DEF RecvEnds
    <3>2. \/ pc[t] = "recv" /\ pc'[t] = "hdrdown"
          \/ pc[t] = "data" /\ pc'[t] = "datadown"
      BY <1>0, <3>1, GotoThere
    <3>3. Started(pc'[t], loc'[t]) /\ ~Lost(pc'[t], loc'[t])
      BY <1>0, <2>1, <3>2 DEF Started, Lost, Fresh, GotHdr
    <3>4. pc'[t] = "datadown" => loc'[t].got # loc'[t].need /\ Cut(loc'[t])
      <4> SUFFICES ASSUME pc'[t] = "datadown"
                   PROVE  loc[t].got # loc[t].need /\ Cut(loc[t])
        BY <2>1 DEF Cut
      <4>1. pc[t] = "data"
        BY <3>2
      <4>2. FrameOf(t)
        BY <1>0, <2>2, <4>1 DEF FramedInv, Getting
      <4>3. PICK r \in Requests \cup {NoRequest}, p \in Nat :
              Placed(pc[t], loc[t], r, p) /\ Ended(cl[t], cur[t], r, p, inq[t])
        BY <4>2 DEF FrameOf
      <4>4. /\ r \in Requests /\ loc[t].own = HdrOf(r) /\ BufOf(loc[t], r)
            /\ loc[t].got < loc[t].need /\ p = loc[t].got
        BY <4>1, <4>3 DEF Placed, Getting
      <4>5. loc[t].got # loc[t].need /\ loc[t].got \in Nat /\ loc[t].need \in Nat
            /\ loc[t].buf \in Seq(Cells)
        BY <1>0, <4>4, Lookups
      <4>6. inq[t] = <<>>
        <5>1. loc[t].sock = Conn(t)
          BY <1>0, <4>1 DEF HeldInv
        <5>2. RecvEof(t)
          BY <1>0, <1>1, <2>1, <2>4, GotoThere DEF RecvEnds
        <5> QED
          BY <5>1, <5>2, EntriesDiffer DEF RecvEof, HasEof
      <4>7. loc[t].need = r.dlen
        <5>1. loc[t].need = loc[t].own.dlen
          BY <1>0, <4>1, LineFacts, OwnPlaces DEF Own
        <5> QED
          BY <4>4, <5>1, HdrOfFields
      <4>8. p \in {0, r.dlen}
        BY <4>3, <4>6 DEF Ended, LastPart, LastReq
      <4>9. loc[t].got = 0
        BY <4>4, <4>5, <4>7, <4>8
      <4>10. loc[t].need # 0
        BY <4>5, <4>9
      <4>11. Len(loc[t].buf) = 0
        BY <4>4, <4>5, <4>9, LenProperties DEF BufOf
      <4> QED
        BY <4>5, <4>9, <4>10, <4>11, EmptySeq DEF Cut
    <3>5. FramedInv(t)'
      BY <3>2, <3>3, <3>4 DEF FramedInv, Fresh, GotHdr, Getting, Whole, Decoded
    <3>6. HeldInv(t)'
      BY <2>1, <2>2, <3>2, <3>3, HeldQuiet DEF FileHeld
    <3>7. \A f \in Fds : Moved(t, fdTable[f], fdTable'[f])
      BY <2>1 DEF Moved
    <3> QED
      BY <2>1, <3>2, <3>5, <3>6, <3>7 DEF KeepsLine
  <2> QED
    BY <2>3, <2>4
<1>2. CASE ErrClose(t)
  BY <1>2, LineCloses DEF ErrClose
<1>3. CASE EndClose(t)
  BY <1>3, LineCloses DEF EndClose
<1> QED
  BY <1>1, <1>2, <1>3

\* A thread's step, whichever it is.
LEMMA LineEveryStep ==
  ASSUME LineInv, NoTorn', NEW t \in Clients, Thread(t)
  PROVE  KeepsLine(t) /\ ~RecvPiece(t)
<1>1. Running
  BY DEF Thread
<1>p. ~RecvPiece(t)
  BY PieceTears DEF LineInv, OwnInv, NoTorn
<1>2. CASE RecvHeader(t) \/ RecvRequest(t)
  BY <1>1, <1>p, <1>2, LineRecvHeader, LineRecvRequest
<1>3. CASE RecvEnds(t) \/ ErrClose(t) \/ EndClose(t)
  BY <1>1, <1>p, <1>3, LineEnds
<1>4. CASE ListFile(t) \/ GetFile(t) \/ SetFile(t)
  BY <1>1, <1>p, <1>4, LineHandlers
<1> QED
  BY <1>p, <1>2, <1>3, <1>4 DEF Thread

-----------------------------------------------------------------------------
(* The accept loop, the clients and the theorems.                          *)

\* While a client waits for its thread no thread runs.
LEMMA SoloIdle ==
  ASSUME SoloInv, Running, NEW c \in Clients, cl[c] # "off", pc[c] = "none"
  PROVE  \A t \in Clients : pc[t] \in {"none", "done"}
<1> SUFFICES ASSUME NEW t \in Clients, pc[t] \notin {"none", "done"} PROVE FALSE
  OBVIOUS
<1>1. Live(c) /\ cl[t] # "off" /\ Live(t)
  BY DEF Live, SoloInv
<1>2. t = c
  BY <1>1 DEF SoloInv
<1> QED
  BY <1>2

\* A thread that has not started or has ended holds nothing.
LEMMA HeldIdle ==
  ASSUME NEW t \in Clients, pc[t] \in {"none", "done"}
  PROVE  HeldInv(t)
BY DEF HeldInv, Lost, FileHeld

\* Accepting clients and starting their threads keeps the invariant.
LEMMA LineAcceptor ==
  ASSUME LineInv, OwnInv', NoTorn', Server_dealClientReq
  PROVE  LineInv'
<1> SUFFICES ASSUME Running' PROVE TableInv' /\ \A t \in Clients : FramedInv(t)' /\ HeldInv(t)'
  BY DEF LineInv
<1>0. /\ TypeOK /\ SoloInv /\ Running /\ ~Die /\ TableInv
      /\ \A t \in Clients : FramedInv(t) /\ HeldInv(t)
  <2>1. TypeOK
    BY DEF LineInv, OwnInv
  <2>2. Running /\ ~Die
    BY <2>1 DEF Server_dealClientReq, EnterAccept, Accept, Spawn, SpawnFails, Die, Running,
       TypeOK, MainLoop
  <2> QED
    BY <2>1, <2>2 DEF LineInv, OwnInv
<1>1. main \in MainLoop /\ main.fd \in Fds /\ fdTable \in [Fds -> FdEntry]
  BY <1>0 DEF TypeOK, MainLoop
<1>2. CASE EnterAccept
  <2>1. PICK f \in Fds : /\ IsLowestFree(f)
                         /\ fdTable' = [fdTable EXCEPT ![f] = Reserved]
                         /\ main' = [main EXCEPT !.pc = "accept", !.fd = f]
    BY <1>0, <1>2 DEF EnterAccept
  <2>2. /\ main.pc = "loop" /\ UNCHANGED <<pc, connFd, hdrBytes, loc, cl, cur, inq>>
    BY <1>2 DEF EnterAccept, threadVars, clientVars
  <2>3. main'.pc = "accept" /\ main'.fd = f
    BY <1>1, <2>1 DEF MainLoop
  <2>4. /\ fdTable[f] = FreeFd /\ fdTable'[f] = Reserved
        /\ \A g \in Fds \ {f} : fdTable'[g] = fdTable[g]
    BY <1>1, <2>1 DEF IsLowestFree
  <2>5. TableInv'
    BY <1>0, <2>2, <2>3, <2>4, EntriesDiffer DEF TableInv
  <2>6. ASSUME NEW t \in Clients PROVE FramedInv(t)' /\ HeldInv(t)'
    <3>1. FramedInv(t) /\ HeldInv(t) /\ connFd[t] \in Fds /\ loc[t].file \in Fds
      BY <1>0, Lookups
    <3>2. FramedInv(t)'
      BY <2>2, <3>1 DEF FramedInv, FrameOf
    <3>3. HeldInv(t)'
      BY <2>2, <2>4, <3>1, EntriesDiffer DEF HeldInv
    <3> QED
      BY <3>2, <3>3
  <2> QED
    BY <2>5, <2>6
<1>3. CASE Accept
  <2>1. PICK c \in Clients : backlog = <<c>> /\ cl[c] # "off" /\ pc[c] = "none"
    BY <1>0, <1>3 DEF Accept, SoloInv
  <2>2. \A t \in Clients : pc[t] \in {"none", "done"}
    BY <1>0, <2>1, SoloIdle
  <2>3. Head(backlog) = c
    BY <2>1
  <2>4. /\ main.pc = "accept" /\ main' = [main EXCEPT !.pc = "spawn", !.who = c]
        /\ fdTable' = [fdTable EXCEPT ![main.fd] = Conn(c)]
        /\ UNCHANGED <<pc, connFd, hdrBytes, loc, cl, cur, inq>>
    BY <1>3, <2>3 DEF Accept, threadVars
  <2>5. main'.pc = "spawn" /\ main'.who = c /\ main'.fd = main.fd
    BY <1>1, <2>4 DEF MainLoop
  <2>6. /\ fdTable'[main.fd] = Conn(c)
        /\ \A g \in Fds \ {main.fd} : fdTable'[g] = fdTable[g]
    BY <1>1, <2>4
  <2>7. TableInv'
    <3>1. ASSUME NEW g \in Fds, NEW d \in Clients, fdTable'[g] = Conn(d)
          PROVE  g = main.fd /\ d = c
      <4>1. g = main.fd
        BY <1>0, <2>2, <2>4, <2>6, <3>1 DEF TableInv
      <4> QED
        BY <2>6, <3>1, <4>1, EntriesDiffer
    <3> QED
      BY <2>5, <2>6, <3>1 DEF TableInv
  <2>8. ASSUME NEW t \in Clients PROVE FramedInv(t)' /\ HeldInv(t)'
    <3>1. pc'[t] \in {"none", "done"}
      BY <2>2, <2>4
    <3>2. FramedInv(t)'
      BY <1>0, <2>4 DEF FramedInv, FrameOf
    <3>3. HeldInv(t)'
      BY <3>1, LinePlaces DEF HeldInv, Lost
    <3> QED
      BY <3>2, <3>3
  <2> QED
    BY <2>7, <2>8
<1>4. CASE Spawn
  <2>1. PICK c \in Clients :
          c = main.who /\ main.pc = "spawn" /\ cl[c] # "off" /\ pc[c] = "none"
    BY <1>0, <1>4 DEF Spawn, SoloInv
  <2>2. \A t \in Clients : pc[t] \in {"none", "done"}
    BY <1>0, <2>1, SoloIdle
  <2>3. /\ pc' = [pc EXCEPT ![c] = "top"] /\ connFd' = [connFd EXCEPT ![c] = main.fd]
        /\ main' = [main EXCEPT !.pc = "loop"]
        /\ UNCHANGED <<fdTable, hdrBytes, loc, cl, cur, inq>>
    BY <1>4, <2>1 DEF Spawn, clientVars
  <2>4. pc'[c] = "top" /\ connFd'[c] = main.fd /\ main'.pc = "loop"
    BY <1>0, <1>1, <2>1, <2>3 DEF TypeOK, MainLoop
  <2>5. \A u \in Clients \ {c} : pc'[u] = pc[u]
    BY <1>0, <2>3 DEF TypeOK
  <2>6. fdTable[main.fd] = Conn(c)
    BY <1>0, <2>1 DEF TableInv
  <2>7. TableInv'
    <3>1. ASSUME NEW g \in Fds, NEW d \in Clients, fdTable'[g] = Conn(d)
          PROVE  pc'[d] \notin {"none", "done"} /\ g = connFd'[d]
      <4>1. d = c /\ g = main.fd
        BY <1>0, <2>1, <2>2, <2>3, <3>1 DEF TableInv
      <4> QED
        BY <2>4, <4>1
    <3> QED
      BY <2>4, <3>1 DEF TableInv
  <2>8. FramedInv(c)' /\ HeldInv(c)'
    <3>1. ~Lost(pc[c], loc[c]) /\ FramedInv(c)
      BY <1>0, <2>1 DEF Lost
    <3>2. FrameOf(c)
      BY <2>1, <3>1 DEF FramedInv
    <3>3. \A r \in Requests \cup {NoRequest}, p \in Nat :
            Placed(pc[c], loc[c], r, p) => Placed(pc'[c], loc'[c], r, p)
      BY <2>1, <2>4, LinePlaces DEF Placed, GotHdr, Getting, Whole
    <3>4. FrameOf(c)'
      BY <2>1, <2>3, <3>2, <3>3, FrameKept
    <3>5. FramedInv(c)' /\ ~Lost(pc'[c], loc'[c])
      BY <2>1, <2>4, <3>4, FramedBy
    <3>6. HeldInv(c)'
      BY <2>3, <2>4, <2>6, <3>5 DEF HeldInv, FileHeld
    <3> QED
      BY <3>5, <3>6
  <2>9. ASSUME NEW u \in Clients, u # c PROVE FramedInv(u)' /\ HeldInv(u)'
    <3>1. pc'[u] = pc[u] /\ pc'[u] \in {"none", "done"}
      BY <2>2, <2>5, <2>9
    <3>2. FramedInv(u)'
      BY <1>0, <2>3, <3>1 DEF FramedInv, FrameOf
    <3>3. HeldInv(u)'
      BY <3>1, LinePlaces DEF HeldInv, Lost
    <3> QED
      BY <3>2, <3>3
  <2> QED
    BY <2>7, <2>8, <2>9
<1>5. ~SpawnFails
  BY <1>0 DEF SpawnFails
<1> QED
  BY <1>2, <1>3, <1>4, <1>5 DEF Server_dealClientReq

\* What a client sends keeps its stream framed.
LEMMA FrameOfClient ==
  ASSUME TypeOK, SoloInv, Running, NEW c \in Clients, Client(c), FrameOf(c)
  PROVE  FrameOf(c)'
<1>0. /\ UNCHANGED <<pc, loc>> /\ inq[c] \in Seq(Cells)
      /\ inq \in [Clients -> Seq(Cells)] /\ cur \in [Clients -> Requests \cup {NoRequest}]
      /\ cl \in [Clients -> {"off", "ready", "half", "wait", "closed", "hungup", "reset"}]
  BY DEF Client, Connect, SendHdr, SendPayload, TakeReply, NoticeDown, Depart,
     threadVars, TypeOK
<1>1. PICK r \in Requests \cup {NoRequest}, p \in Nat :
        /\ Stream(r, p, inq[c])
        /\ Ended(cl[c], cur[c], r, p, inq[c])
        /\ Placed(pc[c], loc[c], r, p)
  BY DEF FrameOf
<1>2. SUFFICES Stream(r, p, inq'[c]) /\ Ended(cl'[c], cur'[c], r, p, inq'[c])
  BY <1>0, <1>1 DEF FrameOf
<1>3. CASE Connect(c)
  <2>1. cl[c] = "off" /\ cl'[c] = "ready" /\ UNCHANGED inq
    BY <1>0, <1>3 DEF Connect
  <2>2. pc[c] = "none"
    BY <2>1 DEF SoloInv
  <2>3. p = r.dlen /\ inq[c] = <<>>
    BY <1>1, <2>1, <2>2 DEF Placed, Ended
  <2> QED
    BY <1>1, <2>1, <2>3 DEF Ended, LastPart, LastReq
<1>4. CASE SendHdr(c)
  <2>1. cl[c] = "ready"
    BY <1>4 DEF SendHdr
  <2>2. PICK q \in Requests :
          /\ inq' = [inq EXCEPT ![c] = Append(@, HdrCell(q))]
          /\ cur' = [cur EXCEPT ![c] = q]
          /\ cl' = [cl EXCEPT ![c] = IF q.cmd = "EXIT" THEN "closed" ELSE "half"]
    BY <1>4 DEF SendHdr
  <2>3. /\ inq'[c] = Append(inq[c], HdrCell(q)) /\ cur'[c] = q
        /\ cl'[c] \in {"closed", "half"}
    BY <1>0, <2>2
  <2>4. LastPart(p, inq[c]) = LastReq(r, inq[c]).dlen
    BY <1>1, <2>1 DEF Ended
  <2>5. /\ Stream(r, p, inq'[c]) /\ LastReq(r, inq'[c]) = q
        /\ LastPart(p, inq'[c]) = 0
    <3> DEFINE s == inq[c]
    <3>1. s \in Seq(Cells) /\ Stream(r, p, s) /\ LastPart(p, s) = LastReq(r, s).dlen
      BY <1>0, <1>1, <2>4
    <3> HIDE DEF s
    <3>2. LET u == Append(s, HdrCell(q)) IN
          Stream(r, p, u) /\ u # <<>> /\ LastReq(r, u) = q /\ LastPart(p, u) = 0
      BY <3>1, StreamHeader
    <3> QED
      BY <2>3, <3>2 DEF s
  <2> QED
    BY <2>3, <2>5 DEF Ended
<1>5. CASE SendPayload(c)
  <2> DEFINE q == cur[c]
             s == inq[c]
  <2>1. /\ cl[c] = "half" /\ inq'[c] = s \o Payload(q)
        /\ cl'[c] \in {"ready", "wait"}
    BY <1>0, <1>5 DEF SendPayload
  <2>2. /\ LastPart(p, s) = 0 /\ LastReq(r, s) = q /\ q \in Requests
        /\ s \in Seq(Cells) /\ Stream(r, p, s)
    BY <1>0, <1>1, <2>1 DEF Ended
  <2> HIDE DEF q, s
  <2>3. LET u == s \o Payload(q) IN
        Stream(r, p, u) /\ LastPart(p, u) = LastReq(r, u).dlen
    BY <2>2, StreamPayload
  <2> QED
    BY <2>1, <2>3 DEF Ended
<1>6. CASE TakeReply(c) \/ NoticeDown(c) \/ Depart(c)
  <2>1. UNCHANGED <<inq, cur>>
    BY <1>6 DEF TakeReply, NoticeDown, Depart
  <2>2. \/ cl[c] = "wait" /\ cl'[c] = "ready"
        \/ cl'[c] \in {"closed", "reset"}
    BY <1>0, <1>6, ServerAssumption DEF TakeReply, NoticeDown, Depart
  <2> QED
    BY <1>1, <2>1, <2>2 DEF Ended
<1> QED
  BY <1>3, <1>4, <1>5, <1>6 DEF Client

\* The clients touch nothing else.
LEMMA LineClient ==
  ASSUME LineInv, OwnInv', NEW c \in Clients, Client(c)
  PROVE  LineInv'
<1>1. UNCHANGED <<main, fdTable, pc, connFd, hdrBytes, loc>>
  BY DEF Client, Connect, SendHdr, SendPayload, TakeReply, NoticeDown, Depart, threadVars
<1> SUFFICES ASSUME Running' PROVE TableInv' /\ \A t \in Clients : FramedInv(t)' /\ HeldInv(t)'
  BY <1>1 DEF LineInv, NoTorn
<1>2. /\ TypeOK /\ SoloInv /\ Running /\ TableInv
      /\ \A t \in Clients : FramedInv(t) /\ HeldInv(t)
  BY <1>1 DEF LineInv, OwnInv, Running
<1>3. \A u \in Clients \ {c} : cl'[u] = cl[u] /\ cur'[u] = cur[u] /\ inq'[u] = inq[u]
  BY <1>2 DEF TypeOK, Client, Connect, SendHdr, SendPayload, TakeReply, NoticeDown, Depart
<1>4. \A u \in Clients \ {c} : FramedInv(u)'
  BY <1>1, <1>2, <1>3 DEF FramedInv, FrameOf
<1>5. FramedInv(c)'
  <2>1. FrameOf(c) => FrameOf(c)'
    BY <1>2, FrameOfClient
  <2>2. FramedInv(c)
    BY <1>2
  <2> HIDE DEF FrameOf
  <2> QED
    BY <1>1, <2>1, <2>2 DEF FramedInv
<1>6. \A t \in Clients : HeldInv(t)'
  BY <1>1, <1>2 DEF HeldInv
<1>7. TableInv'
  BY <1>1, <1>2 DEF TableInv
<1> QED
  BY <1>4, <1>5, <1>6, <1>7

\* LineInv is inductive.
LEMMA LineStep == MaxLive <= 1 /\ LineInv /\ NoTorn' /\ [Next]_vars => LineInv'
<1> SUFFICES ASSUME MaxLive <= 1, LineInv, NoTorn', [Next]_vars PROVE LineInv'
  OBVIOUS
<1>1. OwnInv' /\ OwnInv
  BY OwnStep DEF LineInv
<1>2. CASE Server_dealClientReq
  BY <1>1, <1>2, LineAcceptor
<1>3. CASE \E t \in Clients : Thread(t)
  <2>1. PICK t \in Clients : Thread(t)
    BY <1>3
  <2>2. KeepsOwn(t) /\ Running /\ KeepsLine(t)
    BY <1>1, <2>1, OwnThread, LineEveryStep
  <2> QED
    BY <1>1, <2>2, LineThread
<1>4. CASE \E c \in Clients : Client(c)
  BY <1>1, <1>4, LineClient
<1>5. CASE UNCHANGED vars
  <2>1. UNCHANGED <<main, fdTable, pc, connFd, hdrBytes, loc, cl, cur, inq>>
    BY <1>5 DEF vars, threadVars, clientVars
  <2>2. (Running' => Running) /\ (TableInv => TableInv')
    BY <2>1 DEF Running, TableInv
  <2>3. \A t \in Clients : (FramedInv(t) => FramedInv(t)') /\ (HeldInv(t) => HeldInv(t)')
    BY <2>1 DEF FramedInv, FrameOf, HeldInv
  <2> QED
    BY <1>1, <2>2, <2>3 DEF LineInv
<1> QED
  BY <1>2, <1>3, <1>4, <1>5 DEF Next

\* The server starts so, with empty streams.
LEMMA LineInit == Init => LineInv
<1> SUFFICES ASSUME Init PROVE LineInv
  OBVIOUS
<1>1. OwnInv
  BY OwnInit
<1>2. ASSUME NEW t \in Clients PROVE FramedInv(t) /\ HeldInv(t)
  <2>1. pc[t] = "none" /\ cl[t] = "off" /\ inq[t] = <<>>
    BY DEF Init
  <2>2. NoRequest.dlen = 0
    BY DEF NoRequest
  <2>3. Stream(NoRequest, 0, <<>>)
    <3>1. Len(<<>>) = 0
      BY EmptySeq
    <3> QED
      BY <2>2, <3>1 DEF Stream, From
  <2>4. Ended("off", cur[t], NoRequest, 0, <<>>)
    BY DEF Ended, LastPart, LastReq
  <2>5. Placed("none", loc[t], NoRequest, 0)
    BY <2>2, LinePlaces DEF Placed
  <2>6. FrameOf(t)
    BY <2>1, <2>3, <2>4, <2>5 DEF FrameOf
  <2>7. FramedInv(t)
    BY <2>1, <2>6, LinePlaces DEF FramedInv, Started
  <2> QED
    BY <2>1, <2>7, HeldIdle
<1>3. TableInv
  <2>1. main.pc = "loop"
    BY DEF Init
  <2>2. Listener.kind = "listen" /\ FreeFd.kind = "free"
    BY DEF Listener, FreeFd
  <2>3. \A f \in Fds : fdTable[f] \in {Listener, FreeFd}
    BY DEF Init
  <2>4. \A f \in Fds, c \in Clients : fdTable[f] # Conn(c)
    BY <2>2, <2>3, EntriesDiffer
  <2> QED
    BY <2>1, <2>4 DEF TableInv
<1>4. NoTorn
  BY DEF Init, NoLocals, NoTorn
<1> QED
  BY <1>1, <1>2, <1>3, <1>4 DEF LineInv

\* Headers that came whole up to now came whole before.
LEMMA WholeBefore == TypeOK /\ [Next]_vars /\ NoTorn' => NoTorn
BY TornStays DEF KeepsTorn, NoTorn

\* One client at a time, as long as every header came whole: what a thread is about to
\* close is its own connection or file, or a number that is free, however often it
\* closes it.
THEOREM CloseOwnSafe ==
  ASSUME MaxLive <= 1
  PROVE  Spec => [](NoTorn => CloseOwn)
<1> DEFINE WholeInv == TypeOK /\ (NoTorn => LineInv)
<1>1. LineInv => CloseOwn
  <2> SUFFICES ASSUME LineInv, Running, NEW t \in Clients
               PROVE  /\ pc[t] \in {"hdrdown", "datadown", "errclose", "endclose"} =>
                           fdTable[connFd[t]] \in {Conn(t), FreeFd, Reserved}
                      /\ pc[t] \in {"lclose", "gclose", "sclose"} =>
                           fdTable[loc[t].file] = File(t)
    BY DEF CloseOwn
  <2>1. HeldInv(t)
    BY DEF LineInv
  <2> QED
    BY <2>1 DEF HeldInv, FileHeld
<1>2. Init => WholeInv
  BY TypeInit, LineInit
<1>3. WholeInv /\ [Next]_vars => WholeInv'
  BY TypeNext, WholeBefore, LineStep
<1> HIDE DEF WholeInv
<1>4. WholeInv /\ NoTorn => LineInv
  BY DEF WholeInv
<1> QED
  BY <1>1, <1>2, <1>3, <1>4, PTL DEF Spec

\* One client at a time: a thread that ended has closed its connection, as long as
\* every header came whole.  The two returns without a close() are taken only by a
\* thread that had closed before.
THEOREM NoOrphanConnectionSafe ==
  ASSUME MaxLive <= 1
  PROVE  Spec => [](NoTorn => NoOrphanConnection)
<1> DEFINE WholeInv == TypeOK /\ (NoTorn => LineInv)
<1>1. LineInv => NoOrphanConnection
  <2> SUFFICES ASSUME LineInv, Running, NEW t \in Clients, pc[t] = "done",
                      NEW f \in Fds, fdTable[f] = Conn(t)
               PROVE  FALSE
    BY DEF NoOrphanConnection
  <2>1. main.pc = "spawn" /\ main.who = t
    BY DEF LineInv, TableInv
  <2> QED
    BY <2>1 DEF LineInv, OwnInv, SoloInv
<1>2. Init => WholeInv
  BY TypeInit, LineInit
<1>3. WholeInv /\ [Next]_vars => WholeInv'
  BY TypeNext, WholeBefore, LineStep
<1> HIDE DEF WholeInv
<1>4. WholeInv /\ NoTorn => LineInv
  BY DEF WholeInv
<1> QED
  BY <1>1, <1>2, <1>3, <1>4, PTL DEF Spec

-----------------------------------------------------------------------------
(* What is open between two clients when nothing fails.                    *)

\* one client at a time, which may close its end at any point; no call fails; and
\* nobody asks for a file by JSON, which is never closed
Tidy == /\ MaxLive <= 1 /\ Faults = {} /\ "reset" \notin Departures
        /\ \A r \in Requests : r.cmd = "GET" => r.mod # "JSON"

\* where DataDeal_getFile is at work
Fetched == {"get", "gread", "ghdr", "glen", "gsend", "gbody", "gclose"}

\* the file the process holds for t is the one t will close
TidyAt(t) == /\ \A f \in Fds : fdTable[f] = File(t) => pc[t] \in FileHeld /\ f = loc[t].file
             /\ pc[t] \in Fetched => loc[t].mod # "JSON"

TidyInv ==
    /\ LineInv
    /\ \A c \in Clients : cl[c] # "reset"
    /\ Running => /\ \A f \in Fds : fdTable[f] = Listener => f = ListenFd
                  /\ \A t \in Clients : TidyAt(t)

\* Files differ by their owner, and from everything else.
LEMMA FilesDiffer ==
  /\ \A c, d \in Clients : File(c) = File(d) => c = d
  /\ \A c \in Clients : File(c) \notin {FreeFd, Reserved, Listener}
  /\ \A c \in Clients : Conn(c) # Listener
  /\ Listener \notin {FreeFd, Reserved}
BY DEF File, Conn, FreeFd, Reserved, Listener

\* A step that opens nothing, of a thread that holds no file.
LEMMA TidyPlain ==
  ASSUME TidyInv, Running, NEW t \in Clients, pc[t] \notin FileHeld,
         fdTable' = fdTable \/ \E g \in Fds : fdTable' = Closed(g),
         pc'[t] \notin Fetched
  PROVE  TidyAt(t)'
<1>1. \A f \in Fds : fdTable[f] # File(t)
  BY DEF TidyInv, TidyAt
<1>2. fdTable \in [Fds -> FdEntry]
  BY DEF TidyInv, LineInv, OwnInv, TypeOK
<1>3. \A f \in Fds : fdTable'[f] # File(t)
  <2>1. CASE fdTable' = fdTable
    BY <1>1, <2>1
  <2>2. CASE \E g \in Fds : fdTable' = [fdTable EXCEPT ![g] = FreeFd]
    BY <1>1, <1>2, <2>2, FilesDiffer
  <2> QED
    BY <2>1, <2>2 DEF Closed
<1> QED
  BY <1>3 DEF TidyAt

\* What is known of a thread.
LEMMA TidyFacts ==
  ASSUME TidyInv, Running, NEW t \in Clients
  PROVE  /\ TypeOK /\ connFd[t] \in Fds /\ loc[t].file \in Fds
         /\ loc \in [Clients -> Locals] /\ loc[t] \in Locals
         /\ pc[t] \in Decoded => fdTable[connFd[t]] = Conn(t)
         /\ pc[t] \in FileHeld => fdTable[loc[t].file] = File(t)
         /\ cl[t] # "reset" /\ TidyAt(t)
<1>1. LineInv /\ TypeOK /\ HeldInv(t)
  BY DEF TidyInv, LineInv, OwnInv
<1>2. pc[t] \in Decoded => fdTable[connFd[t]] = Conn(t)
  BY <1>1, DecodedFrame, HasConnection
<1> QED
  BY <1>1, <1>2, Lookups DEF TidyInv, HeldInv, TypeOK

\* Receiving and checking a header, and the closes after a failure.
LEMMA TidyRecvHeader ==
  ASSUME TidyInv, Running, NEW t \in Clients,
         RecvHeader(t) \/ RecvEnds(t) \/ ErrClose(t) \/ EndClose(t), ~RecvPiece(t)
  PROVE  TidyAt(t)'
<1>0. TypeOK /\ connFd[t] \in Fds
  BY TidyFacts
<1>1. CASE Top(t) \/ Call(t, "hcall", "recv") \/ RecvHdr(t) \/ CopyCmd(t)
  <2>1. /\ pc[t] \in {"top", "hcall", "recv", "copy"} /\ UNCHANGED fdTable
        /\ \E p \in {"hcall", "recv", "copy", "ver"} : Goto(t, p)
    BY <1>1 DEF Top, Call, RecvHdr, CopyCmd
  <2>2. pc'[t] \in {"hcall", "recv", "copy", "ver"}
    BY <1>0, <2>1, GotoThere
  <2> QED
    BY <2>1, <2>2, TidyPlain DEF FileHeld, Fetched
<1>2. CASE CheckVersion(t) \/ CheckLen(t) \/ RecvEnds(t)
  <2>1. /\ pc[t] \in {"ver", "len", "recv", "data"} /\ UNCHANGED fdTable
        /\ \E p \in {"len", "cmd", "done", "hdrdown", "datadown", "errclose"} : Goto(t, p)
    BY <1>2 DEF CheckVersion, CheckLen, RecvEnds, Private
  <2>2. pc'[t] \in {"len", "cmd", "done", "hdrdown", "datadown", "errclose"}
    BY <1>0, <2>1, GotoThere
  <2> QED
    BY <2>1, <2>2, TidyPlain DEF FileHeld, Fetched
<1>3. CASE HdrDown(t) \/ ErrClose(t) \/ EndClose(t)
  <2>1. /\ pc[t] \in {"hdrdown", "errclose", "endclose"} /\ fdTable' = Closed(connFd[t])
        /\ \E p \in {"ver", "endclose", "done"} : Goto(t, p)
    BY <1>3 DEF HdrDown, ErrClose, EndClose, CloseFd
  <2>2. pc'[t] \in {"ver", "endclose", "done"}
    BY <1>0, <2>1, GotoThere
  <2> QED
    BY <1>0, <2>1, <2>2, TidyPlain DEF FileHeld, Fetched
<1>4. CASE TestCmd(t)
  <2>1. /\ pc[t] = "cmd" /\ UNCHANGED fdTable
        /\ UNCHANGED pc \/ \E p \in {"endclose", "mod", "top"} : Goto(t, p)
    BY <1>4 DEF TestCmd, Private
  <2>2. pc'[t] \in {"cmd", "endclose", "mod", "top"}
    BY <1>0, <2>1, GotoThere
  <2> QED
    BY <2>1, <2>2, TidyPlain DEF FileHeld, Fetched
<1> QED
  BY <1>1, <1>2, <1>3, <1>4 DEF RecvHeader

\* Choosing the codec, receiving the payload and decoding it.
LEMMA TidyRecvRequest ==
  ASSUME Tidy, TidyInv, Running, Running', NEW t \in Clients, RecvRequest(t)
  PROVE  TidyAt(t)'
<1>0. TypeOK /\ connFd[t] \in Fds
  BY TidyFacts
<1>d. ~Die
  BY <1>0, DieEnds DEF Running
<1>1. CASE TestModule(t) \/ SizeBuf(t) \/ ReadNeed(t) \/ Call(t, "dcall", "data") \/ CheckData(t)
  <2>1. /\ pc[t] \in {"mod", "size", "need", "dcall", "check"} /\ UNCHANGED fdTable
        /\ \/ UNCHANGED pc
           \/ \E p \in {"top", "need", "size", "check", "dcall", "data", "decode", "endclose"} :
                Goto(t, p)
    BY <1>1 DEF TestModule, SizeBuf, ReadNeed, Call, CheckData, Private
  <2>2. pc'[t] \in {"mod", "size", "need", "dcall", "check", "top", "data", "decode", "endclose"}
    BY <1>0, <2>1, GotoThere
  <2> QED
    BY <2>1, <2>2, TidyPlain DEF FileHeld, Fetched
<1>2. CASE RecvData(t)
  <2>1. /\ pc[t] = "data" /\ UNCHANGED fdTable
        /\ \E p \in {"check", "dcall"} : Goto(t, p)
    BY <1>2, <1>d DEF RecvData
  <2>2. pc'[t] \in {"check", "dcall"}
    BY <1>0, <2>1, GotoThere
  <2> QED
    BY <2>1, <2>2, TidyPlain DEF FileHeld, Fetched
<1>3. CASE DataDown(t)
  <2>1. pc[t] = "datadown" /\ fdTable' = Closed(connFd[t]) /\ Goto(t, "decode")
    BY <1>3 DEF DataDown, CloseFd
  <2>2. pc'[t] = "decode"
    BY <1>0, <2>1, GotoThere
  <2> QED
    BY <1>0, <2>1, <2>2, TidyPlain DEF FileHeld, Fetched
<1>4. CASE Decode(t)
  <2>1. pc[t] = "decode" /\ UNCHANGED <<fdTable, loc>>
    BY <1>4, <1>d DEF Decode
  <2>2. \/ \E r \in Requests : /\ r.mod = loc[t].mod
                               /\ Goto(t, IF r.cmd = loc[t].cmd THEN HandlerPc(r.cmd)
                                          ELSE "endclose")
        \/ Goto(t, "lend") \/ Goto(t, "endclose")
        \/ loc[t].buf # <<>> /\ Goto(t, HandlerPc(loc[t].cmd))
    BY <1>4, <1>d DEF Decode, Decodes
  <2>3. \A r \in Requests : /\ HandlerPc(r.cmd) \in {"set", "get", "list"}
                            /\ HandlerPc(r.cmd) = "get" => r.cmd = "GET"
    BY DEF HandlerPc
  <2>4. pc'[t] \in {"set", "list", "lend", "endclose"} \/ (pc'[t] = "get" /\ loc[t].mod # "JSON")
    <3>1. CASE Goto(t, "lend") \/ Goto(t, "endclose")
      BY <1>0, <3>1, GotoThere
    <3>2. ASSUME NEW r \in Requests, r.mod = loc[t].mod,
                 Goto(t, IF r.cmd = loc[t].cmd THEN HandlerPc(r.cmd) ELSE "endclose")
          PROVE  pc'[t] \in {"set", "list", "endclose"} \/ (pc'[t] = "get" /\ loc[t].mod # "JSON")
      <4>1. pc'[t] = IF r.cmd = loc[t].cmd THEN HandlerPc(r.cmd) ELSE "endclose"
        BY <1>0, <3>2, GotoThere
      <4> QED
        BY <2>3, <3>2, <4>1 DEF Tidy
    <3>3. CASE loc[t].buf # <<>> /\ Goto(t, HandlerPc(loc[t].cmd))
      <4>1. LineInv /\ Own(pc[t], loc[t], g_stTestHdr)
        BY LineFacts DEF TidyInv
      <4>2. ~Lost(pc[t], loc[t]) /\ pc[t] \in Whole
        BY <2>1, <3>3, <4>1, CutDecodesNothing DEF Whole
      <4>3. PICK r \in Requests : loc[t].own = HdrOf(r)
        BY <4>1, <4>2, LineRequest
      <4>4. loc[t].cmd = r.cmd /\ loc[t].mod = r.mod
        BY <2>1, <4>1, <4>3, OwnPlaces DEF Own, HdrOf
      <4>5. pc'[t] = HandlerPc(r.cmd)
        BY <1>0, <3>3, <4>4, GotoThere
      <4> QED
        BY <2>3, <4>4, <4>5 DEF Tidy
    <3> QED
      BY <2>2, <3>1, <3>2, <3>3
  <2>5. CASE pc'[t] \in {"set", "list", "lend", "endclose"}
    BY <2>1, <2>5, TidyPlain DEF FileHeld, Fetched
  <2>6. CASE pc'[t] = "get" /\ loc[t].mod # "JSON"
    <3>1. \A f \in Fds : fdTable[f] # File(t)
      BY <1>0, <2>1, TidyFacts DEF TidyAt, FileHeld
    <3> QED
      BY <2>1, <2>6, <3>1 DEF TidyAt
  <2> QED
    BY <2>4, <2>5, <2>6
<1> QED
  BY <1>1, <1>2, <1>3, <1>4 DEF RecvRequest

\* A step within a handler that keeps its file and its codec.
LEMMA TidyHolds ==
  ASSUME TidyInv, Running, NEW t \in Clients, UNCHANGED fdTable,
         pc'[t] \in FileHeld, loc'[t].file = loc[t].file, loc'[t].mod = loc[t].mod,
         pc'[t] \in Fetched => pc[t] \in Fetched
  PROVE  TidyAt(t)'
BY TidyFacts DEF TidyAt

\* What the handlers share: a file that is opened is the one to be closed, a send
\* that does not end the process succeeds, and a close leaves no file.
LEMMA TidyShared ==
  ASSUME TidyInv, Running, Running', NEW t \in Clients, NEW from \in Decoded, NEW p
  PROVE  /\ /\ Opens(t, from, p) /\ from \notin FileHeld /\ p \in FileHeld
            /\ p \in Fetched => from \in Fetched
            => TidyAt(t)'
         /\ \A mayFail : OpenFails(t, from, mayFail) /\ from \notin FileHeld => TidyAt(t)'
         /\ CloseFile(t, from, p) /\ from \in FileHeld /\ p \notin Fetched => TidyAt(t)'
         /\ \A cell, q : Send(t, from, cell, p, q) => pc'[t] = p /\ UNCHANGED <<fdTable, loc>>
<1>0. /\ TypeOK /\ connFd[t] \in Fds /\ loc[t].file \in Fds
      /\ loc \in [Clients -> Locals] /\ loc[t] \in Locals
      /\ cl[t] # "reset" /\ TidyAt(t)
  BY TidyFacts
<1>1. ASSUME Opens(t, from, p), from \notin FileHeld, p \in FileHeld,
             p \in Fetched => from \in Fetched
      PROVE  TidyAt(t)'
  <2>1. PICK f \in Fds : /\ fdTable' = [fdTable EXCEPT ![f] = File(t)]
                         /\ SetLoc(t, "file", f)
    BY <1>1 DEF Opens
  <2>2. pc[t] = from /\ pc'[t] = p
    BY <1>0, <1>1, GotoThere DEF Opens
  <2>3. loc'[t].file = f /\ loc'[t].mod = loc[t].mod
    <3>1. loc'[t] = [loc[t] EXCEPT !["file"] = f]
      BY <1>0, <2>1 DEF SetLoc
    <3> QED
      BY <1>0, <3>1 DEF Locals
  <2>4. \A g \in Fds : fdTable'[g] = File(t) => g = f
    <3>1. \A g \in Fds \ {f} : fdTable'[g] = fdTable[g]
      BY <1>0, <2>1 DEF TypeOK
    <3>2. \A g \in Fds : fdTable[g] # File(t)
      BY <1>0, <1>1, <2>2 DEF TidyAt
    <3> QED
      BY <3>1, <3>2
  <2> QED
    BY <1>0, <1>1, <2>2, <2>3, <2>4 DEF TidyAt
<1>2. ASSUME NEW mayFail, OpenFails(t, from, mayFail), from \notin FileHeld
      PROVE  TidyAt(t)'
  <2>1. pc[t] = from /\ UNCHANGED fdTable /\ pc'[t] = "endclose"
    BY <1>0, <1>2, GotoThere DEF OpenFails, Private
  <2> QED
    BY <1>2, <2>1, TidyPlain DEF Fetched
<1>3. ASSUME CloseFile(t, from, p), from \in FileHeld, p \notin Fetched
      PROVE  TidyAt(t)'
  <2>1. pc[t] = from /\ pc'[t] = p /\ fdTable' = Closed(loc[t].file)
    BY <1>0, <1>3, GotoThere DEF CloseFile, CloseFd
  <2>2. fdTable[loc[t].file] = File(t)
    BY <1>3, <2>1, TidyFacts
  <2>3. /\ \A f \in Fds \ {loc[t].file} : fdTable'[f] = fdTable[f]
        /\ fdTable'[loc[t].file] = FreeFd
    BY <1>0, <2>1, <2>2, ClosedMoves
  <2>4. \A f \in Fds : fdTable'[f] # File(t)
    BY <1>0, <2>3, FilesDiffer DEF TidyAt
  <2> QED
    BY <1>3, <2>1, <2>4 DEF TidyAt
<1>4. ASSUME NEW cell, NEW q, Send(t, from, cell, p, q)
      PROVE  pc'[t] = p /\ UNCHANGED <<fdTable, loc>>
  <2>1. pc[t] = from /\ UNCHANGED loc
    BY <1>4 DEF Send
  <2>2. fdTable[connFd[t]] = Conn(t)
    BY <2>1, TidyFacts
  <2>3. ~SendFails(connFd[t])
    BY <1>0, <2>2, EntriesDiffer DEF SendFails
  <2>4. ~SigPipe(connFd[t])
    BY <1>0, DieEnds DEF SigPipe, Running
  <2> QED
    BY <1>0, <1>4, <2>1, <2>3, <2>4, GotoThere DEF Send, Delivers
<1> QED
  BY <1>1, <1>2, <1>3, <1>4

\* The three handlers.
LEMMA TidyHandlers ==
  ASSUME Tidy, TidyInv, Running, Running', NEW t \in Clients,
         ListFile(t) \/ GetFile(t) \/ SetFile(t)
  PROVE  TidyAt(t)'
<1>0. /\ TypeOK /\ loc \in [Clients -> Locals] /\ loc[t] \in Locals /\ TidyAt(t)
      /\ pc[t] \in FileHeld => fdTable[loc[t].file].kind = "file"
  BY TidyFacts, EntriesDiffer
<1>p. /\ {"list", "names", "lclose", "lend", "get", "gsend", "gbody", "gclose", "set",
          "sclose"} \subseteq Decoded
      /\ {"names", "lclose", "gread", "ghdr", "glen", "gsend", "gbody", "gclose", "write",
          "sclose"} \subseteq FileHeld
      /\ {"get", "gread", "ghdr", "glen", "gsend", "gbody", "gclose"} \subseteq Fetched
      /\ {"list", "get", "set", "lend", "top"} \cap FileHeld = {}
      /\ {"names", "lclose", "lend", "write", "sclose", "top", "endclose"} \cap Fetched = {}
  BY DEF Decoded, FileHeld, Fetched
<1>1. CASE OpenDir(t) \/ OpenFile(t)
  BY <1>p, <1>1, TidyShared DEF OpenDir, OpenFile
<1>2. CASE CloseDir(t) \/ CloseFile(t, "gclose", "top") \/ CloseWritten(t)
  BY <1>p, <1>2, TidyShared DEF CloseDir, CloseWritten
<1>3. CASE SendName(t) \/ SendReplyHdr(t) \/ SendBody(t)
  <2>1. \/ pc[t] = "names" /\ pc'[t] = "lclose"
        \/ pc[t] = "gsend" /\ pc'[t] = "gbody"
        \/ pc[t] = "gbody" /\ pc'[t] = "gclose"
    BY <1>p, <1>3, TidyShared DEF SendName, SendReplyHdr, SendBody, Send
  <2>2. UNCHANGED <<fdTable, loc>>
    BY <1>p, <1>3, TidyShared DEF SendName, SendReplyHdr, SendBody
  <2> QED
    BY <1>p, <2>1, <2>2, TidyHolds
<1>4. CASE SendEnd(t)
  <2>1. pc[t] = "lend" /\ pc'[t] = "top" /\ UNCHANGED fdTable
    BY <1>p, <1>4, TidyShared DEF SendEnd, Send
  <2> QED
    BY <1>p, <2>1, TidyPlain
<1>5. CASE NoName(t)
  <2>1. pc[t] = "names" /\ Goto(t, "lclose") /\ UNCHANGED <<fdTable, loc>>
    BY <1>5 DEF NoName, Private, Tidy
  <2>2. pc'[t] = "lclose"
    BY <1>0, <2>1, GotoThere
  <2> QED
    BY <1>p, <2>1, <2>2, TidyHolds
<1>6. CASE ReadFile(t)
  <2>1. pc[t] = "gread" /\ UNCHANGED fdTable
    BY <1>6 DEF ReadFile
  <2>2. fdTable[loc[t].file].kind = "file"
    BY <1>0, <1>p, <2>1
  <2>3. Goto(t, "ghdr") /\ \E n \in ReplyLens : SetLoc(t, "reply", n)
    BY <1>6, <2>2 DEF ReadFile, Tidy
  <2>4. loc'[t].file = loc[t].file /\ loc'[t].mod = loc[t].mod
    <3>1. \A n : /\ [loc[t] EXCEPT !["reply"] = n].file = loc[t].file
                 /\ [loc[t] EXCEPT !["reply"] = n].mod = loc[t].mod
      BY <1>0 DEF Locals
    <3> QED
      BY <1>0, <2>3, <3>1 DEF SetLoc
  <2>5. pc'[t] = "ghdr"
    BY <1>0, <2>3, GotoThere
  <2> QED
    BY <1>p, <2>1, <2>4, <2>5, TidyHolds
<1>7. CASE StartReplyHdr(t) \/ FillReplyHdr(t)
  <2>1. /\ pc[t] \in {"ghdr", "glen"} /\ UNCHANGED <<fdTable, loc>>
        /\ Goto(t, "glen") \/ Goto(t, "gsend")
    BY <1>7 DEF StartReplyHdr, FillReplyHdr
  <2>2. pc'[t] = "glen" \/ pc'[t] = "gsend"
    BY <1>0, <2>1, GotoThere
  <2> QED
    BY <1>p, <2>1, <2>2, TidyHolds
<1>8. CASE CreateFile(t)
  <2>1. Opens(t, "set", "write") \/ OpenFails(t, "set", "open" \in Faults)
    BY <1>8 DEF CreateFile, Tidy
  <2> QED
    BY <1>p, <2>1, TidyShared
<1>9. CASE WriteFile(t)
  <2>1. pc[t] = "write" /\ UNCHANGED loc
    BY <1>9 DEF WriteFile
  <2>2. fdTable[loc[t].file].kind = "file"
    BY <1>0, <1>p, <2>1
  <2>3. Goto(t, "sclose") /\ UNCHANGED fdTable
    BY <1>9, <2>2 DEF WriteFile, Tidy
  <2>4. pc'[t] = "sclose"
    BY <1>0, <2>3, GotoThere
  <2> QED
    BY <1>p, <2>1, <2>3, <2>4, TidyHolds
<1>10. CASE CloseGot(t)
  <2>1. pc[t] = "gclose"
    BY <1>10 DEF CloseGot, CloseFile
  <2>2. CloseFile(t, "gclose", "top")
    BY <1>0, <1>10, <1>p, <2>1 DEF CloseGot, TidyAt
  <2> QED
    BY <1>2, <2>2
<1> QED
  BY <1>1, <1>2, <1>3, <1>4, <1>5, <1>6, <1>7, <1>8, <1>9, <1>10
  DEF ListFile, GetFile, SetFile

\* A thread's step, whichever it is.
LEMMA TidyThread ==
  ASSUME Tidy, TidyInv, LineInv', NEW t \in Clients, Thread(t)
  PROVE  TidyInv'
<1>1. Running /\ KeepsOwn(t) /\ KeepsLine(t) /\ ~RecvPiece(t) /\ SoloInv /\ TypeOK
  BY OwnThread, LineEveryStep DEF Thread, TidyInv, LineInv, OwnInv
<1>2. \A c \in Clients : cl'[c] # "reset"
  BY <1>1 DEF KeepsOwn, KeepsSolo, TidyInv
<1>3. ASSUME Running'
      PROVE  /\ \A f \in Fds : fdTable'[f] = Listener => f = ListenFd
             /\ \A u \in Clients : TidyAt(u)'
  <2>1. \A f \in Fds : Moved(t, fdTable[f], fdTable'[f])
    BY <1>1, <1>3 DEF KeepsLine
  <2>2. \A f \in Fds : fdTable'[f] = Listener => f = ListenFd
    BY <1>1, <2>1, FilesDiffer DEF Moved, TidyInv
  <2>3. TidyAt(t)'
    BY <1>1, <1>3, TidyRecvHeader, TidyRecvRequest, TidyHandlers DEF Thread
  <2>4. ASSUME NEW u \in Clients, u # t PROVE TidyAt(u)'
    <3>1. pc[u] \in {"none", "done"} /\ pc'[u] = pc[u]
      BY <1>1, <2>4, SoloOthers DEF KeepsOwn, KeepsSolo
    <3>2. \A f \in Fds : fdTable[f] # File(u)
      BY <1>1, <3>1 DEF TidyInv, TidyAt, FileHeld
    <3>3. \A f \in Fds : fdTable'[f] # File(u)
      BY <2>1, <2>4, <3>2, FilesDiffer DEF Moved
    <3> QED
      BY <3>1, <3>3 DEF TidyAt, Fetched
  <2> QED
    BY <2>2, <2>3, <2>4
<1> QED
  BY <1>2, <1>3 DEF TidyInv

\* Accepting clients and starting their threads opens connections only.
LEMMA TidyAcceptor ==
  ASSUME TidyInv, LineInv', Server_dealClientReq
  PROVE  TidyInv'
<1>0. /\ TypeOK /\ fdTable \in [Fds -> FdEntry] /\ main.fd \in Fds
      /\ UNCHANGED <<cl, loc>>
  BY DEF TidyInv, LineInv, OwnInv, TypeOK, MainLoop, Server_dealClientReq, EnterAccept,
         Accept, Spawn, SpawnFails, threadVars, clientVars
<1>1. \A c \in Clients : cl'[c] # "reset"
  BY <1>0 DEF TidyInv
<1>2. ASSUME Running'
      PROVE  /\ \A f \in Fds : fdTable'[f] = Listener => f = ListenFd
             /\ \A u \in Clients : TidyAt(u)'
  <2>0. ~Die
    BY <1>0, <1>2, DieEnds DEF Running
  <2>1. CASE EnterAccept
    <3>1. PICK f \in Fds : /\ fdTable' = [fdTable EXCEPT ![f] = Reserved]
                           /\ main.pc = "loop"
      BY <2>0, <2>1 DEF EnterAccept
    <3>2. UNCHANGED pc
      BY <2>1 DEF EnterAccept, threadVars
    <3>3. \A g \in Fds : fdTable'[g] = fdTable[g] \/ fdTable'[g] = Reserved
      BY <1>0, <3>1
    <3>4. Running
      BY <3>1 DEF Running
    <3> QED
      BY <1>0, <3>2, <3>3, <3>4, FilesDiffer DEF TidyInv, TidyAt
  <2>2. CASE Accept
    <3>1. /\ fdTable' = [fdTable EXCEPT ![main.fd] = Conn(Head(backlog))]
          /\ main.pc = "accept" /\ backlog # <<>> /\ UNCHANGED pc
      BY <2>2 DEF Accept, threadVars
    <3>2. Running /\ Head(backlog) \in Clients
      BY <1>0, <3>1, HeadTailProperties DEF Running, TypeOK
    <3>3. \A g \in Fds : fdTable'[g] = fdTable[g] \/ fdTable'[g] = Conn(Head(backlog))
      BY <1>0, <3>1
    <3> QED
      BY <1>0, <3>1, <3>2, <3>3, FilesDiffer, EntriesDiffer DEF TidyInv, TidyAt
  <2>3. CASE Spawn
    <3>1. /\ pc' = [pc EXCEPT ![main.who] = "top"] /\ UNCHANGED fdTable
          /\ main.pc = "spawn"
      BY <2>3 DEF Spawn
    <3>2. Running
      BY <3>1 DEF Running
    <3>3. PICK w \in Clients : w = main.who /\ pc[w] = "none"
      BY <3>1, <3>2 DEF TidyInv, LineInv, OwnInv, SoloInv
    <3>4. pc'[w] = "top" /\ \A u \in Clients \ {w} : pc'[u] = pc[u]
      BY <1>0, <3>1, <3>3 DEF TypeOK
    <3>5. TidyAt(w)'
      BY <3>1, <3>2, <3>3, <3>4 DEF TidyInv, TidyAt, FileHeld, Fetched
    <3> QED
      BY <1>0, <3>1, <3>2, <3>4, <3>5 DEF TidyInv, TidyAt
  <2>4. CASE SpawnFails
    BY <2>0, <2>4 DEF SpawnFails
  <2> QED
    BY <2>1, <2>2, <2>3, <2>4 DEF Server_dealClientReq
<1> QED
  BY <1>1, <1>2 DEF TidyInv

\* Nothing a client does, but a reset, touches what the server has open.
LEMMA TidyClient ==
  ASSUME Tidy, TidyInv, LineInv', NEW c \in Clients, Client(c)
  PROVE  TidyInv'
<1>1. UNCHANGED <<main, fdTable, pc, loc>>
  BY DEF Client, Connect, SendHdr, SendPayload, TakeReply, NoticeDown, Depart, threadVars
<1>2. \E v \in {"ready", "closed", "half", "wait"} : cl' = [cl EXCEPT ![c] = v]
  <2>1. CASE Depart(c)
    BY <2>1, ServerAssumption DEF Depart, Tidy
  <2>2. CASE SendHdr(c) \/ SendPayload(c)
    BY <2>2 DEF SendHdr, SendPayload
  <2>3. CASE Connect(c) \/ TakeReply(c) \/ NoticeDown(c)
    BY <2>3 DEF Connect, TakeReply, NoticeDown
  <2> QED
    BY <2>1, <2>2, <2>3 DEF Client
<1>3. \A d \in Clients : cl'[d] # "reset"
  BY <1>2 DEF TidyInv, LineInv, OwnInv, TypeOK
<1> QED
  BY <1>1, <1>3 DEF TidyInv, TidyAt, Running

\* Every step keeps what is open accounted for.
LEMMA TidyStep == Tidy /\ TidyInv /\ NoTorn' /\ [Next]_vars => TidyInv'
<1> SUFFICES ASSUME Tidy, TidyInv, NoTorn', [Next]_vars PROVE TidyInv'
  OBVIOUS
<1>1. LineInv'
  BY LineStep DEF Tidy, TidyInv
<1>2. CASE UNCHANGED vars
  <2>1. UNCHANGED <<main, fdTable, pc, loc, cl>>
    BY <1>2 DEF vars, threadVars, clientVars
  <2> QED
    BY <1>1, <2>1 DEF TidyInv, TidyAt, Running
<1> QED
  BY <1>1, <1>2, TidyThread, TidyAcceptor, TidyClient DEF Next

\* The server starts with its listener and nothing else.
LEMMA TidyInit == Init => TidyInv
<1> SUFFICES ASSUME Init PROVE TidyInv
  OBVIOUS
<1>1. \A t \in Clients : pc[t] = "none" /\ cl[t] = "off"
  BY DEF Init
<1>2. \A f \in Fds : IF f = ListenFd THEN fdTable[f] = Listener ELSE fdTable[f] = FreeFd
  BY DEF Init
<1>3. \A t \in Clients : TidyAt(t)
  BY <1>1, <1>2, FilesDiffer DEF TidyAt, Fetched
<1> QED
  BY <1>1, <1>2, <1>3, LineInit, FilesDiffer DEF TidyInv

\* One client at a time, no call that fails, no file asked for by JSON, and as long as
\* every header came whole: between two clients the server has nothing open but its
\* listener and what accept() reserved.  Every descriptor that setFile, getFile, listFile and server_client_data_deal open
\* is closed again on every path, whenever a client closes its end.
THEOREM NothingLeftOpenSafe ==
  ASSUME Tidy
  PROVE  Spec => [](NoTorn => NothingLeftOpen)
<1> DEFINE WholeInv == TypeOK /\ (NoTorn => TidyInv)
<1>1. TidyInv => NothingLeftOpen
  <2> SUFFICES ASSUME TidyInv, Running, \A t \in Clients : pc[t] \in {"none", "done"},
                      NEW f \in Fds, f # ListenFd
               PROVE  \/ fdTable[f] \in {FreeFd, Reserved}
                      \/ main.pc = "spawn" /\ f = main.fd
    BY DEF NothingLeftOpen
  <2>1. fdTable[f] \in FdEntry /\ TableInv
    BY DEF TidyInv, LineInv, OwnInv, TypeOK
  <2>2. fdTable[f] # Listener
    BY DEF TidyInv
  <2>3. \A c \in Clients : fdTable[f] # File(c)
    BY DEF TidyInv, TidyAt, FileHeld
  <2>4. \A c \in Clients : fdTable[f] = Conn(c) => main.pc = "spawn" /\ f = main.fd
    BY <2>1 DEF TableInv
  <2> QED
    BY <2>1, <2>2, <2>3, <2>4 DEF FdEntry
<1>2. Init => WholeInv
  BY TypeInit, TidyInit
<1>3. WholeInv /\ [Next]_vars => WholeInv'
  BY TypeNext, WholeBefore, TidyStep
<1> HIDE DEF WholeInv
<1>4. WholeInv /\ NoTorn => TidyInv
  BY DEF WholeInv
<1> QED
  BY <1>1, <1>2, <1>3, <1>4, PTL DEF Spec
=============================================================================
