--------------------------- MODULE FileStoreProofs ---------------------------
(***************************************************************************)
(* What holds of the server's files for any number of threads, names and   *)
(* contents: type correctness; that a download returns the start of one    *)
(* upload; that a file nobody uploads to is whole; and that the calls      *)
(* implement the abstract store when clients leave a file alone while it   *)
(* is being uploaded.                                                      *)
(***************************************************************************)
EXTENDS FileStore, SequenceTheorems, TLAPS

-----------------------------------------------------------------------------
(* Facts about the data.                                                   *)

\* What a request has in it.
LEMMA RequestFields ==
  ASSUME NEW r \in Requests
  PROVE  /\ r # NoRequest /\ r.op \in {"SET", "GET"} /\ r.name \in Names
         /\ r.op = "SET" => r.blob \in Blobs
<1> QED
  BY StoreAssumption DEF Requests, Store!Requests

\* An upload is a sequence of cells of its size.
LEMMA BytesType ==
  ASSUME NEW n \in Names, NEW v \in Blobs
  PROVE  Size[v] \in Nat /\ Bytes(n, v) \in Seq(Cells) /\ Len(Bytes(n, v)) = Size[v]
<1>1. Size[v] \in Nat
  BY StoreAssumption
<1>2. Bytes(n, v) \in [1..Size[v] -> Cells]
  BY <1>1 DEF Bytes, Store!Bytes, Cells
<1>3. Bytes(n, v) \in Seq(Cells)
  BY <1>1, <1>2, SeqDef
<1>4. DOMAIN Bytes(n, v) = 1..Size[v]
  BY <1>2
<1>5. Len(Bytes(n, v)) = Size[v]
  BY <1>1, <1>3, <1>4, LenProperties
<1> QED
  BY <1>1, <1>3, <1>5

\* Any piece of a sequence of cells is one.
LEMMA PieceType ==
  ASSUME NEW s \in Seq(Cells), NEW d \in Nat, NEW k \in Nat, d + k <= Len(s)
  PROVE  /\ SubSeq(s, d + 1, d + k) \in Seq(Cells)
         /\ Len(SubSeq(s, d + 1, d + k)) = k
         /\ \A i \in 1..k : SubSeq(s, d + 1, d + k)[i] = s[d + i]
<1>1. Len(s) \in Nat
  BY LenProperties
<1>2. \A i \in d + 1..d + k : s[i] \in Cells
  BY <1>1, ElementOfSeq
<1> QED
  BY <1>1, <1>2, SubSeqProperties

\* Writing over or right behind a sequence of cells makes one.
LEMMA OverlayType ==
  ASSUME NEW old \in Seq(Cells), NEW new \in Seq(Cells), NEW at \in 0..Len(old)
  PROVE  /\ Overlay(old, at, new) \in Seq(Cells)
         /\ Len(Overlay(old, at, new))
              = IF at + Len(new) > Len(old) THEN at + Len(new) ELSE Len(old)
         /\ \A k \in 1..Len(new) : Overlay(old, at, new)[at + k] = new[k]
<1> DEFINE top == IF at + Len(new) > Len(old) THEN at + Len(new) ELSE Len(old)
<1>1. Len(old) \in Nat /\ Len(new) \in Nat /\ at \in Nat /\ top \in Nat
  BY LenProperties
<1>2. \A k \in 1..Len(old) : old[k] \in Cells
  BY ElementOfSeq
<1>3. \A k \in 1..Len(new) : new[k] \in Cells
  BY ElementOfSeq
<1>4. Overlay(old, at, new) \in [1..top -> Cells]
  BY <1>1, <1>2, <1>3 DEF Overlay
<1> HIDE DEF top
<1>5. Overlay(old, at, new) \in Seq(Cells)
  BY <1>1, <1>4, SeqDef
<1>6. DOMAIN Overlay(old, at, new) = 1..top
  BY <1>4
<1>7. Len(Overlay(old, at, new)) = top
  BY <1>1, <1>5, <1>6, LenProperties
<1>8. \A k \in 1..Len(new) : Overlay(old, at, new)[at + k] = new[k]
  BY <1>1 DEF Overlay, top
<1> QED
  BY <1>5, <1>7, <1>8 DEF top

\* Written to an empty file, a sequence is what the file has in it.
LEMMA OverlayOnEmpty ==
  ASSUME NEW new \in Seq(Cells)
  PROVE  Overlay(<<>>, 0, new) = new
<1>1. <<>> \in Seq(Cells) /\ Len(<<>>) = 0 /\ Len(new) \in Nat
  BY EmptySeq, LenProperties
<1>2. ASSUME NEW e \in Seq(Cells), Len(e) = 0
      PROVE  /\ Overlay(e, 0, new) \in Seq(Cells)
             /\ Len(Overlay(e, 0, new)) = Len(new)
             /\ \A k \in 1..Len(new) : Overlay(e, 0, new)[k] = new[k]
  <2>1. ASSUME NEW at \in 0..Len(e)
        PROVE  /\ Overlay(e, at, new) \in Seq(Cells)
               /\ Len(Overlay(e, at, new))
                    = IF at + Len(new) > Len(e) THEN at + Len(new) ELSE Len(e)
               /\ \A k \in 1..Len(new) : Overlay(e, at, new)[at + k] = new[k]
    BY <1>2, OverlayType
  <2>2. 0 \in 0..Len(e)
    BY <1>2
  <2> QED
    BY <1>1, <1>2, <2>1, <2>2
<1>3. /\ Overlay(<<>>, 0, new) \in Seq(Cells)
      /\ Len(Overlay(<<>>, 0, new)) = Len(new)
      /\ \A k \in 1..Len(new) : Overlay(<<>>, 0, new)[k] = new[k]
  BY <1>1, <1>2
<1> QED
  BY <1>3, SeqEqual

\* What is written over a sequence is old or new.
LEMMA OverlayFrom ==
  ASSUME NEW old \in Seq(Cells), NEW new \in Seq(Cells), NEW at \in 0..Len(old),
         NEW k \in 1..Len(Overlay(old, at, new))
  PROVE  \/ k \in 1..Len(old) /\ Overlay(old, at, new)[k] = old[k]
         \/ \E j \in 1..Len(new) : Overlay(old, at, new)[k] = new[j]
<1>1. Len(old) \in Nat /\ Len(new) \in Nat /\ at \in Nat
  BY LenProperties
<1>2. Len(Overlay(old, at, new)) = IF at + Len(new) > Len(old) THEN at + Len(new) ELSE Len(old)
  BY OverlayType
<1>3. /\ k \in 1 .. IF at + Len(new) > Len(old) THEN at + Len(new) ELSE Len(old)
      /\ k \in Nat
  BY <1>1, <1>2
<1>4. Overlay(old, at, new)[k] = IF at < k /\ k <= at + Len(new) THEN new[k - at] ELSE old[k]
  BY <1>3 DEF Overlay
<1>5. CASE at < k /\ k <= at + Len(new)
  <2>1. k - at \in 1..Len(new)
    BY <1>1, <1>3, <1>5
  <2> QED
    BY <1>4, <1>5, <2>1
<1>6. CASE ~(at < k /\ k <= at + Len(new))
  <2>1. k \in 1..Len(old)
    BY <1>1, <1>3, <1>6
  <2> QED
    BY <1>4, <1>6, <2>1
<1> QED
  BY <1>5, <1>6

\* A free inode is in nobody's hands.
LEMMA FreeUnused ==
  ASSUME NEW i \in Free
  PROVE  /\ i \in Inodes /\ \A n \in Names : dir[n] # i
         /\ \A t \in Threads : fd[t] # i
<1> QED
  BY DEF Free, NamesOf

-----------------------------------------------------------------------------
(* Types.  They need to know that the inode a thread writes to is its own, *)
(* so that what it has written is all the file has.                        *)

Typed ==
    /\ dir \in [Names -> Inodes \cup {NoFile}]
    /\ data \in [Inodes -> Seq(Cells)]
    /\ kept \in [Names -> Seq(Cells) \cup {NoFile}]
    /\ pc \in [Threads -> Pcs]
    /\ req \in [Threads -> Requests \cup {NoRequest}]
    /\ fd \in [Threads -> Inodes \cup {NoFile}]
    /\ need \in [Threads -> Nat]
    /\ done \in [Threads -> Nat]
    /\ buf \in [Threads -> Seq(Cells)]
    /\ DOMAIN out = Threads

\* where a handler is tells what it works on and what it has open
Control ==
    \A t \in Threads :
        /\ pc[t] = "idle" <=> req[t] = NoRequest
        /\ pc[t] \in {"write", "stat", "read"} <=> fd[t] # NoFile
        /\ pc[t] \in {"open", "remove", "write"} => req[t].op = "SET"
        /\ pc[t] \in {"openr", "stat", "read"} => req[t].op = "GET"

\* the loops of fileWrite and fileRead
Counts ==
    \A t \in Threads :
        /\ pc[t] \notin {"write", "read"} => done[t] = 0
        /\ done[t] <= need[t]
        /\ pc[t] = "write" => need[t] = Size[req[t].blob] /\ Len(data[fd[t]]) = done[t]
        /\ pc[t] = "read" => Len(buf[t]) = need[t] /\ done[t] <= Len(data[fd[t]])

OneWriter ==
    \A t, u \in Threads : pc[t] = "write" /\ pc[u] = "write" /\ fd[t] = fd[u] => t = u

\* an inode that is in use has one name
OneName ==
    /\ \A m, n \in Names : dir[m] = dir[n] /\ dir[m] # NoFile => m = n
    /\ \A t \in Threads, n \in Names :
         fd[t] # NoFile /\ dir[n] = fd[t] => req[t].name = n
    /\ \A t, u \in Threads : fd[t] # NoFile /\ fd[t] = fd[u] => req[t].name = req[u].name

TypeInv == Typed /\ Control /\ Counts /\ OneWriter /\ OneName

-----------------------------------------------------------------------------
(* Every step keeps TypeInv.                                               *)

\* A handler that returns lets go of everything.
LEMMA EndsKeepsTypes ==
  ASSUME TypeInv, NEW t \in Threads, pc[t] # "idle", NEW outcome, Ends(t, outcome)
  PROVE  TypeInv'
<1> USE DEF Ends, Goto
<1>1. req[t] \in Requests
  BY DEF TypeInv, Typed, Control
<1>2. /\ req[t].name \in Names
      /\ Content(req[t].name) \in Seq(Cells) \cup {NoFile}
  BY <1>1, RequestFields DEF TypeInv, Typed, Content
<1>3. <<>> \in Seq(Cells)
  BY EmptySeq
<1>4. Typed'
  BY <1>2, <1>3 DEF TypeInv, Typed, Pcs
<1>5. Control'
  BY DEF TypeInv, Typed, Control
<1>6. Counts'
  BY DEF TypeInv, Typed, Control, Counts
<1>7. OneWriter' /\ OneName'
  BY DEF TypeInv, Typed, Control, OneWriter, OneName
<1> QED
  BY <1>4, <1>5, <1>6, <1>7 DEF TypeInv

\* A new request.
LEMMA StartKeepsTypes ==
  ASSUME TypeInv, NEW t \in Threads, StartRequest(t)
  PROVE  TypeInv'
<1> USE DEF Goto, local
<1>1. PICK r \in Requests : /\ req' = [req EXCEPT ![t] = r]
                            /\ pc' = [pc EXCEPT ![t] = IF r.op = "SET" THEN "open" ELSE "openr"]
  BY DEF StartRequest
<1>2. /\ UNCHANGED <<dir, data, kept, fd, need, done, buf>> /\ pc[t] = "idle"
      /\ DOMAIN out' = Threads
  BY DEF StartRequest, TypeInv, Typed
<1>3. r # NoRequest /\ r.op \in {"SET", "GET"}
  BY <1>1, RequestFields
<1>4. Typed'
  BY <1>1, <1>2 DEF TypeInv, Typed, Pcs
<1>5. Control'
  BY <1>1, <1>2, <1>3 DEF TypeInv, Typed, Control
<1>6. Counts'
  BY <1>1, <1>2, <1>3 DEF TypeInv, Typed, Control, Counts
<1>7. OneWriter' /\ OneName'
  BY ZenonT(40), <1>1, <1>2, <1>3 DEF TypeInv, Typed, Control, OneWriter, OneName
<1> QED
  BY <1>4, <1>5, <1>6, <1>7 DEF TypeInv

\* The loop around open() and remove().
LEMMA OpenKeepsTypes ==
  ASSUME TypeInv, NEW t \in Threads, Create(t) \/ Exists(t) \/ Remove(t)
  PROVE  TypeInv'
<1> USE DEF Goto, local
<1>0. pc[t] \in {"open", "remove"}
  BY DEF Create, Exists, Remove
<1>1. /\ req[t] \in Requests /\ req[t].op = "SET" /\ req[t].name \in Names
      /\ req[t].blob \in Blobs /\ Size[req[t].blob] \in Nat
  BY <1>0, RequestFields, BytesType DEF TypeInv, Typed, Control
<1>2. CASE Create(t)
  <2>1. PICK i \in Free : /\ dir' = [dir EXCEPT ![req[t].name] = i]
                          /\ data' = [data EXCEPT ![i] = <<>>]
                          /\ fd' = [fd EXCEPT ![t] = i]
    BY <1>2 DEF Create
  <2>2. /\ i \in Inodes /\ i # NoFile
        /\ \A n \in Names : dir[n] # i
        /\ \A u \in Threads : fd[u] # i
    BY FreeUnused, StoreAssumption
  <2>3. /\ need' = [need EXCEPT ![t] = Size[req[t].blob]]
        /\ pc' = [pc EXCEPT ![t] = "write"]
        /\ UNCHANGED <<kept, req, done, buf, out>> /\ pc[t] = "open"
    BY <1>2 DEF Create
  <2>4. <<>> \in Seq(Cells) /\ Len(<<>>) = 0
    BY EmptySeq
  <2>5. Typed'
    BY <1>1, <2>1, <2>2, <2>3, <2>4 DEF TypeInv, Typed, Pcs
  <2>6. Control'
    BY <1>1, <2>1, <2>2, <2>3 DEF TypeInv, Typed, Control
  <2>7. Counts'
    <3> SUFFICES ASSUME NEW u \in Threads
                 PROVE  /\ pc'[u] \notin {"write", "read"} => done'[u] = 0
                        /\ done'[u] <= need'[u]
                        /\ pc'[u] = "write" => /\ need'[u] = Size[req'[u].blob]
                                               /\ Len(data'[fd'[u]]) = done'[u]
                        /\ pc'[u] = "read" => /\ Len(buf'[u]) = need'[u]
                                              /\ done'[u] <= Len(data'[fd'[u]])
      BY DEF Counts
    <3>1. CASE u = t
      BY <3>1, <1>1, <2>1, <2>2, <2>3, <2>4 DEF TypeInv, Typed, Control, Counts
    <3>2. CASE u # t
      BY <3>2, <1>1, <2>1, <2>2, <2>3 DEF TypeInv, Typed, Control, Counts
    <3> QED
      BY <3>1, <3>2
  <2>8. OneWriter'
    BY <2>1, <2>2, <2>3 DEF TypeInv, Typed, Control, OneWriter
  <2>9. OneName'
    BY <1>1, <2>1, <2>2, <2>3 DEF TypeInv, Typed, Control, OneName
  <2> QED
    BY <2>5, <2>6, <2>7, <2>8, <2>9 DEF TypeInv
<1>3. CASE Exists(t) \/ Remove(t)
  <2>1. /\ \/ dir' = dir
           \/ dir' = [dir EXCEPT ![req[t].name] = NoFile]
        /\ pc' \in {[pc EXCEPT ![t] = "open"], [pc EXCEPT ![t] = "remove"]}
        /\ UNCHANGED <<data, kept, req, fd, need, done, buf, out>>
    BY <1>3 DEF Exists, Remove
  <2>2. Typed'
    BY <1>1, <2>1 DEF TypeInv, Typed, Pcs
  <2>3. Control'
    BY <1>0, <1>1, <2>1 DEF TypeInv, Typed, Control
  <2>4. Counts'
    BY <1>0, <1>1, <2>1 DEF TypeInv, Typed, Control, Counts
  <2>5. OneWriter'
    BY <1>0, <2>1 DEF TypeInv, Typed, OneWriter
  <2>6. OneName'
    <3>1. \A n \in Names : dir'[n] = dir[n] \/ dir'[n] = NoFile
      BY <1>1, <2>1 DEF TypeInv, Typed
    <3> QED
      BY <2>1, <3>1 DEF TypeInv, OneName
  <2> QED
    BY <2>2, <2>3, <2>4, <2>5, <2>6 DEF TypeInv
<1> QED
  BY <1>2, <1>3

\* Writing: the file grows by what the loop counts.
LEMMA WriteKeepsTypes ==
  ASSUME TypeInv, NEW t \in Threads, Write(t)
  PROVE  TypeInv'
<1>1. /\ req[t] \in Requests /\ req[t].op = "SET" /\ req[t].name \in Names
      /\ req[t].blob \in Blobs
  BY RequestFields DEF Write, TypeInv, Typed, Control
<1> DEFINE whole == Bytes(req[t].name, req[t].blob)
<1>2. /\ Size[req[t].blob] \in Nat /\ whole \in Seq(Cells)
      /\ Len(whole) = Size[req[t].blob]
  BY <1>1, BytesType
<1>3. /\ need[t] = Size[req[t].blob] /\ done[t] \in Nat /\ done[t] < need[t]
      /\ fd[t] \in Inodes /\ data[fd[t]] \in Seq(Cells) /\ Len(data[fd[t]]) = done[t]
      /\ pc[t] = "write"
  BY DEF Write, TypeInv, Typed, Control, Counts
<1>4. PICK k \in Moves(need[t] - done[t]) :
         /\ data' = [data EXCEPT ![fd[t]] = Overlay(data[fd[t]], done[t], SubSeq(whole, 1, k))]
         /\ done' = [done EXCEPT ![t] = done[t] + k]
  BY DEF Write
<1>5. k \in Nat /\ k > 0 /\ done[t] + k <= need[t]
  BY <1>2, <1>3, <1>4 DEF Moves
<1>6. SubSeq(whole, 1, k) \in Seq(Cells) /\ Len(SubSeq(whole, 1, k)) = k
  <2>1. 0 + k <= Len(whole)
    BY <1>2, <1>3, <1>5
  <2>2. SubSeq(whole, 0 + 1, 0 + k) \in Seq(Cells) /\ Len(SubSeq(whole, 0 + 1, 0 + k)) = k
    BY <2>1, <1>2, <1>5, PieceType
  <2>3. 0 + 1 = 1 /\ 0 + k = k
    BY <1>5
  <2> QED
    BY <2>2, <2>3
<1> DEFINE piece == SubSeq(whole, 1, k)
           new == Overlay(data[fd[t]], done[t], piece)
<1>7. new \in Seq(Cells) /\ Len(new) = done[t] + k
  <2> HIDE DEF piece
  <2>1. piece \in Seq(Cells) /\ Len(piece) = k
    BY <1>6 DEF piece
  <2>2. done[t] \in 0..Len(data[fd[t]])
    BY <1>3
  <2>3. /\ new \in Seq(Cells)
        /\ Len(new) = IF done[t] + Len(piece) > Len(data[fd[t]])
                      THEN done[t] + Len(piece) ELSE Len(data[fd[t]])
    BY <2>1, <2>2, <1>3, OverlayType
  <2> QED
    BY <2>1, <2>3, <1>3, <1>5
<1> HIDE DEF new
<1>8. /\ data' = [data EXCEPT ![fd[t]] = new]
      /\ UNCHANGED <<dir, kept, pc, req, fd, need, buf, out>>
  BY <1>4 DEF Write, new
<1>9. Typed'
  BY <1>3, <1>4, <1>5, <1>7, <1>8 DEF TypeInv, Typed
<1>10. Control' /\ OneWriter' /\ OneName'
  BY <1>8 DEF TypeInv, Control, OneWriter, OneName
<1>11. Counts'
  <2> SUFFICES ASSUME NEW u \in Threads
               PROVE  /\ pc[u] \notin {"write", "read"} => done'[u] = 0
                      /\ done'[u] <= need[u]
                      /\ pc[u] = "write" => /\ need[u] = Size[req[u].blob]
                                            /\ Len(data'[fd[u]]) = done'[u]
                      /\ pc[u] = "read" => /\ Len(buf[u]) = need[u]
                                           /\ done'[u] <= Len(data'[fd[u]])
    BY <1>8 DEF Counts
  <2>1. CASE u = t
    BY <2>1, <1>3, <1>4, <1>5, <1>7, <1>8 DEF TypeInv, Typed, Counts
  <2>2. CASE u # t
    <3>1. done'[u] = done[u]
      BY <2>2, <1>4 DEF TypeInv, Typed
    <3>2. CASE pc[u] = "write"
      BY <2>2, <3>1, <3>2, <1>3, <1>8 DEF TypeInv, Typed, Control, Counts, OneWriter
    <3>3. CASE pc[u] = "read"
      <4>1. fd[u] \in Inodes /\ done[u] <= Len(data[fd[u]]) /\ done[u] \in Nat
        BY <3>3 DEF TypeInv, Typed, Control, Counts
      <4>2. done[u] <= Len(data'[fd[u]])
        <5>1. CASE fd[u] = fd[t]
          BY <5>1, <4>1, <1>3, <1>5, <1>7, <1>8 DEF TypeInv, Typed
        <5>2. CASE fd[u] # fd[t]
          BY <5>2, <4>1, <1>8 DEF TypeInv, Typed
        <5> QED
          BY <5>1, <5>2
      <4> QED
        BY <4>2, <3>1, <3>3 DEF TypeInv, Counts
    <3>4. CASE pc[u] \notin {"write", "read"}
      BY <3>1, <3>4 DEF TypeInv, Counts
    <3> QED
      BY <3>2, <3>3, <3>4
  <2> QED
    BY <2>1, <2>2
<1> QED
  BY <1>9, <1>10, <1>11 DEF TypeInv

\* open() and stat() of a download.
LEMMA StatKeepsTypes ==
  ASSUME TypeInv, NEW t \in Threads, OpenRead(t) \/ Stat(t)
  PROVE  TypeInv'
<1> USE DEF Goto
<1>0. pc[t] \in {"openr", "stat"} /\ dir[req[t].name] # NoFile
  BY DEF OpenRead, Stat
<1>1. /\ req[t] \in Requests /\ req[t].op = "GET" /\ req[t].name \in Names
      /\ dir[req[t].name] \in Inodes
  BY <1>0, RequestFields DEF TypeInv, Typed, Control
<1>2. done[t] = 0
  BY <1>0 DEF TypeInv, Counts
<1>3. CASE OpenRead(t)
  <2>1. /\ fd' = [fd EXCEPT ![t] = dir[req[t].name]] /\ pc' = [pc EXCEPT ![t] = "stat"]
        /\ UNCHANGED <<dir, data, kept, req, need, done, buf, out>>
        /\ pc[t] = "openr" /\ dir[req[t].name] # NoFile
    BY <1>3 DEF OpenRead
  <2>2. Typed'
    BY <1>1, <2>1 DEF TypeInv, Typed, Pcs
  <2>3. Control'
    BY <1>1, <2>1 DEF TypeInv, Typed, Control
  <2>4. Counts'
    BY <1>2, <2>1 DEF TypeInv, Typed, Control, Counts
  <2>5. OneWriter'
    BY <2>1 DEF TypeInv, Typed, OneWriter
  <2>6. OneName'
    BY <1>1, <2>1 DEF TypeInv, Typed, OneName
  <2> QED
    BY <2>2, <2>3, <2>4, <2>5, <2>6 DEF TypeInv
<1>4. CASE Stat(t)
  <2> DEFINE size == Len(data[dir[req[t].name]])
             fresh == [k \in 1..size |-> Junk]
  <2>1. /\ need' = [need EXCEPT ![t] = size] /\ buf' = [buf EXCEPT ![t] = fresh]
        /\ pc' = [pc EXCEPT ![t] = "read"]
        /\ UNCHANGED <<dir, data, kept, req, fd, done, out>> /\ pc[t] = "stat"
    BY <1>4 DEF Stat
  <2>2. size \in Nat
    BY <1>1, LenProperties DEF TypeInv, Typed
  <2> HIDE DEF size
  <2>3. fresh \in Seq(Cells) /\ Len(fresh) = size
    <3>1. fresh \in [1..size -> Cells]
      BY DEF Cells
    <3>2. fresh \in Seq(Cells)
      BY <3>1, <2>2, SeqDef
    <3>3. DOMAIN fresh = 1..size
      BY <3>1
    <3> HIDE DEF fresh
    <3> QED
      BY <3>2, <3>3, <2>2, LenProperties
  <2> HIDE DEF fresh
  <2>4. Typed'
    BY <2>1, <2>2, <2>3 DEF TypeInv, Typed, Pcs
  <2>5. Control'
    BY <1>1, <2>1 DEF TypeInv, Typed, Control
  <2>6. Counts'
    <3>1. fd[t] \in Inodes
      BY <2>1 DEF TypeInv, Typed, Control
    <3>2. Len(data[fd[t]]) \in Nat
      BY <3>1, LenProperties DEF TypeInv, Typed
    <3> QED
      BY <1>2, <2>1, <2>2, <2>3, <3>2 DEF TypeInv, Typed, Control, Counts
  <2>7. OneWriter' /\ OneName'
    BY <2>1 DEF TypeInv, Typed, OneWriter, OneName
  <2> QED
    BY <2>4, <2>5, <2>6, <2>7 DEF TypeInv
<1> QED
  BY <1>3, <1>4

\* What one read() brings, and what is known when it has.
LEMMA ReadFacts ==
  ASSUME TypeInv, NEW t \in Threads, Read(t)
  PROVE  \E k \in Nat :
           /\ k > 0 /\ done[t] + k <= need[t] /\ done[t] + k <= Len(data[fd[t]])
           /\ "short" \notin Faults =>
                done[t] + k = need[t] \/ done[t] + k = Len(data[fd[t]])
           /\ done' = [done EXCEPT ![t] = done[t] + k]
           /\ \E s : buf' = [buf EXCEPT ![t] = s]
           /\ buf'[t] \in Seq(Cells) /\ Len(buf'[t]) = need[t]
           /\ \A j \in 1..k : buf'[t][j] = data[fd[t]][done[t] + j]
<1>1. /\ pc[t] = "read" /\ fd[t] \in Inodes /\ data[fd[t]] \in Seq(Cells)
      /\ Len(data[fd[t]]) \in Nat /\ done[t] \in Nat /\ need[t] \in Nat
      /\ buf[t] \in Seq(Cells) /\ Len(buf[t]) = need[t]
      /\ done[t] < need[t] /\ done[t] < Len(data[fd[t]])
  BY LenProperties DEF Read, Wanted, Left, TypeInv, Typed, Control, Counts
<1>2. PICK k \in Moves(IF Wanted(t) < Left(t) THEN Wanted(t) ELSE Left(t)) :
        /\ buf' = [buf EXCEPT ![t] =
             Overlay(buf[t], 0, SubSeq(data[fd[t]], done[t] + 1, done[t] + k))]
        /\ done' = [done EXCEPT ![t] = done[t] + k]
  BY DEF Read
<1>3. k \in Nat /\ k > 0 /\ done[t] + k <= need[t] /\ done[t] + k <= Len(data[fd[t]])
  BY SMTT(20), <1>1, <1>2 DEF Moves, Wanted, Left
<1>9. ASSUME "short" \notin Faults
      PROVE  done[t] + k = need[t] \/ done[t] + k = Len(data[fd[t]])
  BY <1>1, <1>2, <1>9 DEF Moves, Wanted, Left
<1> DEFINE piece == SubSeq(data[fd[t]], done[t] + 1, done[t] + k)
<1>4. /\ piece \in Seq(Cells) /\ Len(piece) = k
      /\ \A j \in 1..k : piece[j] = data[fd[t]][done[t] + j]
  <2>1. ASSUME NEW s, NEW d, s = data[fd[t]], d = done[t]
        PROVE  /\ SubSeq(s, d + 1, d + k) \in Seq(Cells)
               /\ Len(SubSeq(s, d + 1, d + k)) = k
               /\ \A j \in 1..k : SubSeq(s, d + 1, d + k)[j] = s[d + j]
    <3>1. s \in Seq(Cells) /\ d \in Nat /\ k \in Nat /\ d + k <= Len(s)
      BY <2>1, <1>1, <1>3
    <3> QED
      BY <3>1, PieceType
  <2> QED
    BY <2>1
<1>5. buf' = [buf EXCEPT ![t] = Overlay(buf[t], 0, piece)]
  BY <1>2
<1> HIDE DEF piece
<1> DEFINE new == Overlay(buf[t], 0, piece)
<1>6. /\ new \in Seq(Cells) /\ Len(new) = need[t]
      /\ \A j \in 1..k : new[j] = piece[j]
  <2>1. ASSUME NEW at \in 0..Len(buf[t]), at = 0
        PROVE  /\ Overlay(buf[t], at, piece) \in Seq(Cells)
               /\ Len(Overlay(buf[t], at, piece))
                    = IF at + Len(piece) > Len(buf[t]) THEN at + Len(piece) ELSE Len(buf[t])
               /\ \A j \in 1..Len(piece) : Overlay(buf[t], at, piece)[at + j] = piece[j]
    BY <1>1, <1>4, OverlayType
  <2>2. 0 \in 0..Len(buf[t])
    BY <1>1
  <2> QED
    BY <2>1, <2>2, <1>1, <1>3, <1>4
<1> HIDE DEF new
<1>7. buf'[t] = new
  BY <1>5 DEF new, TypeInv, Typed
<1>8. \A j \in 1..k : buf'[t][j] = data[fd[t]][done[t] + j]
  BY <1>4, <1>6, <1>7
<1> QED
  BY <1>2, <1>3, <1>5, <1>6, <1>7, <1>8, <1>9

\* Reading.
LEMMA ReadKeepsTypes ==
  ASSUME TypeInv, NEW t \in Threads, Read(t)
  PROVE  TypeInv'
<1>1. PICK k : /\ k \in Nat /\ done[t] + k <= need[t] /\ done[t] + k <= Len(data[fd[t]])
               /\ done' = [done EXCEPT ![t] = done[t] + k]
               /\ \E s : buf' = [buf EXCEPT ![t] = s]
               /\ buf'[t] \in Seq(Cells) /\ Len(buf'[t]) = need[t]
  BY ReadFacts
<1>2. /\ pc[t] = "read" /\ UNCHANGED <<dir, data, kept, pc, req, fd, need, out>>
  BY DEF Read
<1>3. Typed'
  BY <1>1, <1>2 DEF TypeInv, Typed
<1>4. Control' /\ OneWriter' /\ OneName'
  BY <1>2 DEF TypeInv, Control, OneWriter, OneName
<1>5. Counts'
  BY <1>1, <1>2 DEF TypeInv, Typed, Counts
<1> QED
  BY <1>3, <1>4, <1>5 DEF TypeInv

\* The end of the server.
LEMMA CrashKeepsTypes ==
  ASSUME TypeInv, Crash
  PROVE  TypeInv'
<1>1. \A n \in Names : Content(n) \in Seq(Cells) \cup {NoFile}
  BY DEF TypeInv, Typed, Content
<1>2. <<>> \in Seq(Cells)
  BY EmptySeq
<1>3. Typed'
  BY <1>1, <1>2 DEF Crash, TypeInv, Typed, Pcs
<1>4. Control' /\ Counts' /\ OneWriter'
  BY DEF Crash, Control, Counts, OneWriter
<1>5. OneName'
  BY DEF Crash, TypeInv, OneName
<1> QED
  BY <1>3, <1>4, <1>5 DEF TypeInv

\* Any step a handler makes is one of the above or the return of the handler.
LEMMA HandlerCases ==
  ASSUME NEW t \in Threads, Handler(t)
  PROVE  \/ Create(t) \/ Exists(t) \/ Remove(t) \/ Write(t)
         \/ OpenRead(t) \/ Stat(t) \/ Read(t) \/ UNCHANGED vars
         \/ pc[t] # "idle" /\ \E outcome : Ends(t, outcome)
<1> QED
  BY DEF Handler, SetFile, GetFile, CreateFails, RemoveFails, WriteFails, CloseWritten,
         OpenReadFails, StatFails, ReadsNothing, ReadFails, Reply

\* Nothing changes when nothing does.
LEMMA StutterKeepsTypes ==
  ASSUME TypeInv, UNCHANGED vars
  PROVE  TypeInv'
<1> QED
  BY DEF vars, TypeInv, Typed, Control, Counts, OneWriter, OneName

LEMMA StepKeepsTypes ==
  ASSUME TypeInv, [Next]_vars
  PROVE  TypeInv'
<1>1. CASE UNCHANGED vars
  BY <1>1, StutterKeepsTypes
<1>2. CASE Crash
  BY <1>2, CrashKeepsTypes
<1>3. ASSUME NEW t \in Threads, StartRequest(t) \/ Handler(t)
      PROVE  TypeInv'
  BY <1>3, HandlerCases, StartKeepsTypes, OpenKeepsTypes, WriteKeepsTypes,
     StatKeepsTypes, ReadKeepsTypes, EndsKeepsTypes, StutterKeepsTypes
<1> QED
  BY <1>1, <1>2, <1>3 DEF Next

LEMMA InitTypes == Init => TypeInv
<1> SUFFICES ASSUME Init PROVE TypeInv
  OBVIOUS
<1>1. <<>> \in Seq(Cells)
  BY EmptySeq
<1>2. Typed
  BY <1>1 DEF Init, Typed, Pcs
<1>3. Control /\ Counts /\ OneWriter /\ OneName
  BY DEF Init, Control, Counts, OneWriter, OneName
<1> QED
  BY <1>2, <1>3 DEF TypeInv

LEMMA TypeInvHolds == Spec => []TypeInv
<1> QED
  BY InitTypes, StepKeepsTypes, PTL DEF Spec

\* Every variable keeps its type, whatever clients do and whichever calls fail
\* (DataDeal_setFile, DataDeal_getFile): what a thread writes stays a sequence of
\* bytes, because no other thread writes to the same inode.
THEOREM StoreTypes == Spec => []TypeOK
<1>1. TypeInv => TypeOK
  BY DEF TypeInv, Typed, Control, TypeOK
<1> QED
  BY <1>1, TypeInvHolds, PTL

-----------------------------------------------------------------------------
(* Contents, when a call of read or write moves what it is asked for.      *)

Whole == "short" \notin Faults

\* s may be the file n: an upload, or what open() has just made for one
IsVersion(n, s) == \E v \in Blobs : s = <<>> \/ s = Bytes(n, v)

Contents ==
    /\ \A n \in Names : dir[n] # NoFile => IsVersion(n, data[dir[n]])
    /\ \A t \in Threads : fd[t] # NoFile => IsVersion(req[t].name, data[fd[t]])
    /\ \A t \in Threads : pc[t] = "write" =>
         \/ done[t] = 0 /\ data[fd[t]] = <<>>
         \/ done[t] = need[t] /\ data[fd[t]] = Bytes(req[t].name, req[t].blob)
    /\ \A t \in Threads : pc[t] = "read" /\ done[t] # 0 =>
         /\ data[fd[t]] # <<>>
         /\ \A j \in 1..done[t] : buf[t][j] = data[fd[t]][j]
         /\ done[t] = need[t] \/ done[t] = Len(data[fd[t]])

ContentInv == TypeInv /\ Contents

\* A write puts the whole upload into a file that was empty.
LEMMA WriteFacts ==
  ASSUME Whole, ContentInv, NEW t \in Threads, Write(t)
  PROVE  /\ data[fd[t]] = <<>> /\ fd[t] \in Inodes /\ need[t] # 0 /\ done[t] = 0
         /\ req[t].name \in Names /\ req[t].blob \in Blobs /\ req[t].op = "SET"
         /\ data' = [data EXCEPT ![fd[t]] = Bytes(req[t].name, req[t].blob)]
         /\ done' = [done EXCEPT ![t] = need[t]]
         /\ Bytes(req[t].name, req[t].blob) # <<>>
<1> DEFINE whole == Bytes(req[t].name, req[t].blob)
<1>1. /\ req[t] \in Requests /\ req[t].op = "SET" /\ req[t].name \in Names
      /\ req[t].blob \in Blobs
  BY RequestFields DEF Write, ContentInv, TypeInv, Typed, Control
<1>2. whole \in Seq(Cells) /\ Len(whole) = Size[req[t].blob]
  BY <1>1, BytesType
<1>3. /\ pc[t] = "write" /\ fd[t] \in Inodes /\ done[t] < need[t]
      /\ need[t] = Len(whole) /\ need[t] \in Nat /\ done[t] \in Nat
  BY <1>2 DEF Write, ContentInv, TypeInv, Typed, Control, Counts
<1>4. done[t] = 0 /\ data[fd[t]] = <<>>
  BY <1>3 DEF ContentInv, Contents
<1>5. PICK k \in Moves(need[t] - done[t]) :
         /\ data' = [data EXCEPT ![fd[t]] = Overlay(data[fd[t]], done[t], SubSeq(whole, 1, k))]
         /\ done' = [done EXCEPT ![t] = done[t] + k]
  BY DEF Write
<1>10. k = Len(whole) /\ k = need[t] /\ done[t] + k = need[t]
  BY <1>3, <1>4, <1>5 DEF Moves, Whole
<1>6. SubSeq(whole, 1, Len(whole)) = whole
  BY <1>2, SubSeqFull
<1>7. Overlay(<<>>, 0, whole) = whole
  BY <1>2, OverlayOnEmpty
<1>8. whole # <<>>
  BY <1>3, EmptySeq
<1>9. data' = [data EXCEPT ![fd[t]] = whole] /\ done' = [done EXCEPT ![t] = need[t]]
  <2> HIDE DEF whole
  <2> QED
    BY <1>4, <1>5, <1>6, <1>7, <1>10
<1> QED
  BY <1>1, <1>3, <1>4, <1>8, <1>9

LEMMA WriteKeepsContents ==
  ASSUME Whole, ContentInv, NEW t \in Threads, Write(t)
  PROVE  Contents'
<1> DEFINE whole == Bytes(req[t].name, req[t].blob)
<1>1. /\ data[fd[t]] = <<>> /\ fd[t] \in Inodes /\ fd[t] # NoFile
      /\ req[t].name \in Names /\ req[t].blob \in Blobs
      /\ data' = [data EXCEPT ![fd[t]] = whole] /\ done' = [done EXCEPT ![t] = need[t]]
      /\ need[t] # 0 /\ whole # <<>>
  BY WriteFacts, StoreAssumption
<1>2. pc[t] = "write" /\ UNCHANGED <<dir, kept, pc, req, fd, need, buf, out>>
  BY DEF Write
<1>3. IsVersion(req[t].name, whole)
  BY <1>1 DEF IsVersion
<1> HIDE DEF whole
<1>4. \A n \in Names : dir[n] # NoFile => IsVersion(n, data'[dir[n]])
  <2> SUFFICES ASSUME NEW n \in Names, dir[n] # NoFile
               PROVE  IsVersion(n, data'[dir[n]])
    OBVIOUS
  <2>1. CASE dir[n] = fd[t]
    BY <2>1, <1>1, <1>3 DEF ContentInv, TypeInv, Typed, OneName
  <2>2. CASE dir[n] # fd[t]
    BY <2>2, <1>1 DEF ContentInv, TypeInv, Typed, Contents
  <2> QED
    BY <2>1, <2>2
<1>5. \A u \in Threads : fd[u] # NoFile => IsVersion(req[u].name, data'[fd[u]])
  <2> SUFFICES ASSUME NEW u \in Threads, fd[u] # NoFile
               PROVE  IsVersion(req[u].name, data'[fd[u]])
    OBVIOUS
  <2>1. CASE fd[u] = fd[t]
    BY <2>1, <1>1, <1>3 DEF ContentInv, TypeInv, Typed, OneName
  <2>2. CASE fd[u] # fd[t]
    BY <2>2, <1>1 DEF ContentInv, TypeInv, Typed, Contents
  <2> QED
    BY <2>1, <2>2
<1>6. ASSUME NEW u \in Threads, pc[u] = "write"
      PROVE  \/ done'[u] = 0 /\ data'[fd[u]] = <<>>
             \/ done'[u] = need[u] /\ data'[fd[u]] = Bytes(req[u].name, req[u].blob)
  <2>1. CASE u = t
    BY <2>1, <1>1 DEF whole, ContentInv, TypeInv, Typed
  <2>2. CASE u # t
    BY <2>2, <1>1, <1>2, <1>6 DEF ContentInv, TypeInv, Typed, OneWriter, Contents
  <2> QED
    BY <2>1, <2>2
<1>7. ASSUME NEW u \in Threads, pc[u] = "read", done'[u] # 0
      PROVE  /\ data'[fd[u]] = data[fd[u]] /\ done'[u] = done[u]
             /\ data[fd[u]] # <<>>
  <2>1. u # t
    BY <1>2, <1>7
  <2>2. done'[u] = done[u]
    BY <2>1, <1>1 DEF ContentInv, TypeInv, Typed
  <2>3. data[fd[u]] # <<>>
    BY <2>2, <1>7 DEF ContentInv, Contents
  <2>4. fd[u] # fd[t]
    BY <2>3, <1>1
  <2>5. data'[fd[u]] = data[fd[u]]
    BY <2>4, <1>1, <1>7 DEF ContentInv, TypeInv, Typed, Control
  <2> QED
    BY <2>2, <2>3, <2>5
<1>8. ASSUME NEW u \in Threads, pc[u] = "read", done'[u] # 0
      PROVE  /\ data'[fd[u]] # <<>>
             /\ \A j \in 1..done'[u] : buf[u][j] = data'[fd[u]][j]
             /\ done'[u] = need[u] \/ done'[u] = Len(data'[fd[u]])
  BY <1>7, <1>8 DEF ContentInv, Contents
<1> QED
  BY <1>2, <1>4, <1>5, <1>6, <1>8 DEF Contents

\* The first read() that brings anything brings all there is to bring.
LEMMA ReadKeepsContents ==
  ASSUME Whole, ContentInv, NEW t \in Threads, Read(t)
  PROVE  Contents'
<1>1. PICK k \in Nat :
        /\ k > 0
        /\ "short" \notin Faults =>
             done[t] + k = need[t] \/ done[t] + k = Len(data[fd[t]])
        /\ done' = [done EXCEPT ![t] = done[t] + k]
        /\ \E s : buf' = [buf EXCEPT ![t] = s]
        /\ \A j \in 1..k : buf'[t][j] = data[fd[t]][done[t] + j]
  <2>1. TypeInv
    BY DEF ContentInv
  <2> QED
    BY <2>1, ReadFacts
<1>2. /\ pc[t] = "read" /\ UNCHANGED <<dir, data, kept, pc, req, fd, need, out>>
      /\ done[t] < need[t] /\ done[t] < Len(data[fd[t]])
      /\ done[t] \in Nat /\ need[t] \in Nat /\ Len(data[fd[t]]) \in Nat
      /\ fd[t] \in Inodes
  BY LenProperties DEF Read, Wanted, Left, ContentInv, TypeInv, Typed, Control
<1>3. done[t] = 0
  BY <1>2 DEF ContentInv, Contents
<1>4. data[fd[t]] # <<>>
  BY <1>2, EmptySeq
<1>5. done'[t] = k /\ (k = need[t] \/ k = Len(data[fd[t]]))
  BY <1>1, <1>2, <1>3 DEF Whole, ContentInv, TypeInv, Typed
<1>6. \A j \in 1..done'[t] : buf'[t][j] = data[fd[t]][j]
  BY <1>1, <1>3, <1>5
<1>7. \A u \in Threads : u # t => done'[u] = done[u] /\ buf'[u] = buf[u]
  BY <1>1 DEF ContentInv, TypeInv, Typed
<1>8. ASSUME NEW u \in Threads, pc[u] = "read", done'[u] # 0
      PROVE  /\ data[fd[u]] # <<>>
             /\ \A j \in 1..done'[u] : buf'[u][j] = data[fd[u]][j]
             /\ done'[u] = need[u] \/ done'[u] = Len(data[fd[u]])
  <2>1. CASE u = t
    BY <2>1, <1>4, <1>5, <1>6
  <2>2. CASE u # t
    BY <2>2, <1>7, <1>8 DEF ContentInv, Contents
  <2> QED
    BY <2>1, <2>2
<1>9. ASSUME NEW u \in Threads, pc[u] = "write"
      PROVE  done'[u] = done[u]
  BY <1>2, <1>7, <1>9
<1> QED
  BY <1>2, <1>8, <1>9 DEF ContentInv, Contents

LEMMA CreateKeepsContents ==
  ASSUME ContentInv, NEW t \in Threads, Create(t)
  PROVE  Contents'
<1> USE DEF Goto
<1>1. /\ req[t] \in Requests /\ req[t].op = "SET" /\ req[t].name \in Names
      /\ req[t].blob \in Blobs
  BY RequestFields DEF Create, ContentInv, TypeInv, Typed, Control
<1>2. PICK i \in Free : /\ dir' = [dir EXCEPT ![req[t].name] = i]
                        /\ data' = [data EXCEPT ![i] = <<>>]
                        /\ fd' = [fd EXCEPT ![t] = i]
  BY DEF Create
<1>3. /\ i \in Inodes /\ i # NoFile
      /\ \A n \in Names : dir[n] # i
      /\ \A u \in Threads : fd[u] # i
  BY FreeUnused, StoreAssumption
<1>4. /\ pc' = [pc EXCEPT ![t] = "write"] /\ need' = [need EXCEPT ![t] = Size[req[t].blob]]
      /\ UNCHANGED <<kept, req, done, buf, out>> /\ pc[t] = "open" /\ done[t] = 0
  BY DEF Create, ContentInv, TypeInv, Counts
<1>5. \A n \in Names : IsVersion(n, <<>>)
  BY <1>1 DEF IsVersion
<1>6. \A n \in Names : dir'[n] # NoFile => IsVersion(n, data'[dir'[n]])
  BY <1>1, <1>2, <1>3, <1>5 DEF ContentInv, TypeInv, Typed, Contents
<1>7. \A u \in Threads : fd'[u] # NoFile => IsVersion(req[u].name, data'[fd'[u]])
  BY <1>1, <1>2, <1>3, <1>5 DEF ContentInv, TypeInv, Typed, Contents
<1>8. ASSUME NEW u \in Threads, u # t, pc[u] \in {"write", "read"}
      PROVE  /\ fd'[u] = fd[u] /\ data'[fd[u]] = data[fd[u]]
             /\ pc'[u] = pc[u] /\ need'[u] = need[u]
  BY <1>2, <1>3, <1>4, <1>8 DEF ContentInv, TypeInv, Typed, Control
<1>9. /\ pc'[t] = "write" /\ done'[t] = 0 /\ data'[fd'[t]] = <<>>
  BY <1>2, <1>3, <1>4 DEF ContentInv, TypeInv, Typed
<1>10. \A u \in Threads : u # t /\ pc'[u] \in {"write", "read"} => pc[u] \in {"write", "read"}
  BY <1>4 DEF ContentInv, TypeInv, Typed
<1>11. ASSUME NEW u \in Threads, pc'[u] = "write"
       PROVE  \/ done'[u] = 0 /\ data'[fd'[u]] = <<>>
              \/ done'[u] = need'[u] /\ data'[fd'[u]] = Bytes(req'[u].name, req'[u].blob)
  BY <1>4, <1>8, <1>9, <1>10, <1>11 DEF ContentInv, Contents
<1>12. ASSUME NEW u \in Threads, pc'[u] = "read", done'[u] # 0
       PROVE  /\ data'[fd'[u]] # <<>>
              /\ \A j \in 1..done'[u] : buf'[u][j] = data'[fd'[u]][j]
              /\ done'[u] = need'[u] \/ done'[u] = Len(data'[fd'[u]])
  BY <1>4, <1>8, <1>9, <1>10, <1>12 DEF ContentInv, Contents
<1> QED
  BY <1>4, <1>6, <1>7, <1>11, <1>12 DEF Contents

\* The other steps change no file, and nothing of what is known of them.
LEMMA OthersKeepContents ==
  ASSUME ContentInv, NEW t \in Threads,
         \/ StartRequest(t) \/ Exists(t) \/ Remove(t) \/ OpenRead(t) \/ Stat(t)
         \/ pc[t] # "idle" /\ \E outcome : Ends(t, outcome)
  PROVE  Contents'
<1> USE DEF Goto, local
<1>1. data' = data
  BY DEF StartRequest, Exists, Remove, OpenRead, Stat, Ends
<1>2. \A n \in Names : dir'[n] = dir[n] \/ dir'[n] = NoFile
  BY DEF StartRequest, Exists, Remove, OpenRead, Stat, Ends, ContentInv, TypeInv, Typed
<1>3. \A u \in Threads : fd'[u] # NoFile =>
        /\ req'[u] = req[u]
        /\ \/ fd'[u] = fd[u]
           \/ req[u].name \in Names /\ fd'[u] = dir[req[u].name]
  <2>1. CASE StartRequest(t)
    BY <2>1 DEF StartRequest, ContentInv, TypeInv, Typed, Control
  <2>2. CASE Exists(t) \/ Remove(t) \/ Stat(t)
    BY <2>2 DEF Exists, Remove, Stat
  <2>3. CASE OpenRead(t)
    <3>1. req[t].name \in Names
      BY <2>3, RequestFields DEF OpenRead, ContentInv, TypeInv, Typed, Control
    <3> QED
      BY <2>3, <3>1 DEF OpenRead, ContentInv, TypeInv, Typed
  <2>4. CASE \E outcome : Ends(t, outcome)
    BY <2>4 DEF Ends, ContentInv, TypeInv, Typed
  <2> QED
    BY <2>1, <2>2, <2>3, <2>4
<1>4. \A u \in Threads : pc'[u] = "write" =>
        /\ pc[u] = "write" /\ fd'[u] = fd[u] /\ req'[u] = req[u]
        /\ done'[u] = done[u] /\ need'[u] = need[u]
  BY DEF StartRequest, Exists, Remove, OpenRead, Stat, Ends, ContentInv, TypeInv, Typed
<1>5. \A u \in Threads : pc'[u] = "read" /\ done'[u] # 0 =>
        /\ pc[u] = "read" /\ fd'[u] = fd[u]
        /\ done'[u] = done[u] /\ need'[u] = need[u] /\ buf'[u] = buf[u]
  BY DEF StartRequest, Exists, Remove, OpenRead, Stat, Ends, ContentInv, TypeInv, Typed, Counts
<1>6. \A n \in Names : dir'[n] # NoFile => IsVersion(n, data[dir'[n]])
  BY <1>2 DEF ContentInv, Contents
<1>7. \A u \in Threads : fd'[u] # NoFile => IsVersion(req'[u].name, data[fd'[u]])
  BY <1>3 DEF ContentInv, Contents
<1>8. \A u \in Threads : pc'[u] = "write" =>
         \/ done'[u] = 0 /\ data[fd'[u]] = <<>>
         \/ done'[u] = need'[u] /\ data[fd'[u]] = Bytes(req'[u].name, req'[u].blob)
  BY <1>4 DEF ContentInv, Contents
<1>9. ASSUME NEW u \in Threads, pc'[u] = "read", done'[u] # 0
      PROVE  /\ data[fd'[u]] # <<>>
             /\ \A j \in 1..done'[u] : buf'[u][j] = data[fd'[u]][j]
             /\ done'[u] = need'[u] \/ done'[u] = Len(data[fd'[u]])
  BY <1>5, <1>9 DEF ContentInv, Contents
<1> QED
  BY <1>1, <1>6, <1>7, <1>8, <1>9 DEF Contents

LEMMA StepKeepsContents ==
  ASSUME Whole, ContentInv, [Next]_vars
  PROVE  ContentInv'
<1>1. TypeInv'
  BY StepKeepsTypes DEF ContentInv
<1>2. CASE UNCHANGED vars
  BY <1>1, <1>2 DEF vars, ContentInv, Contents
<1>3. CASE Crash
  BY <1>1, <1>3 DEF Crash, ContentInv, Contents
<1>4. ASSUME NEW t \in Threads, StartRequest(t) \/ Handler(t)
      PROVE  Contents' \/ UNCHANGED vars
  BY <1>4, HandlerCases, CreateKeepsContents, WriteKeepsContents, ReadKeepsContents,
     OthersKeepContents
<1> QED
  BY <1>1, <1>2, <1>3, <1>4 DEF Next, ContentInv

LEMMA InitContents == Init => ContentInv
<1>1. Init => Contents
  BY DEF Init, Contents
<1> QED
  BY <1>1, InitTypes DEF ContentInv

\* What a download sends is the start of a file's upload.
LEMMA ReplyIsStart ==
  ASSUME ContentInv, NEW t \in Threads, Reply(t)
  PROVE  \E v \in Blobs : IsStart(buf[t], Bytes(req[t].name, v))
<1>1. /\ pc[t] = "read" /\ done[t] = need[t] /\ need[t] \in Nat
      /\ Len(buf[t]) = need[t] /\ fd[t] \in Inodes /\ fd[t] # NoFile
      /\ done[t] <= Len(data[fd[t]])
  BY DEF Reply, Wanted, ContentInv, TypeInv, Typed, Control, Counts
<1>2. PICK v \in Blobs : data[fd[t]] = <<>> \/ data[fd[t]] = Bytes(req[t].name, v)
  BY <1>1 DEF ContentInv, Contents, IsVersion
<1>3. req[t].name \in Names
  BY <1>1, RequestFields DEF ContentInv, TypeInv, Typed, Control
<1>4. Len(Bytes(req[t].name, v)) \in Nat
  BY <1>3, BytesType
<1>5. CASE need[t] = 0
  BY <1>1, <1>4, <1>5 DEF IsStart
<1>6. CASE need[t] # 0
  <2>1. /\ data[fd[t]] # <<>>
        /\ \A j \in 1..need[t] : buf[t][j] = data[fd[t]][j]
    BY <1>1, <1>6 DEF ContentInv, Contents
  <2> QED
    BY <1>1, <1>2, <2>1 DEF IsStart
<1> QED
  BY <1>5, <1>6

\* Only Reply sends data.
LEMMA DataFromReply ==
  ASSUME TypeInv, [Next]_vars, NEW t \in Threads, out'[t] # out[t], out'[t].kind = "data"
  PROVE  Reply(t) /\ out'[t].bytes = buf[t]
<1> USE DEF Store!NoOutcome, Store!Ok, Store!Failed, Store!Data
<1>1. Next
  BY DEF vars
<1>2. ~Crash
  BY DEF Crash
<1>3. PICK u \in Threads : StartRequest(u) \/ Handler(u)
  BY <1>1, <1>2 DEF Next
<1>4. ASSUME NEW outcome, Ends(u, outcome)
      PROVE  out'[t] # out[t] => u = t /\ out'[t] = outcome
  BY <1>4 DEF Ends, TypeInv, Typed
<1>5. ~StartRequest(u)
  BY DEF StartRequest, TypeInv, Typed
<1>6. ASSUME Reply(u)
      PROVE  u = t /\ out'[t] = Store!Data(buf[u])
  BY <1>4, <1>6 DEF Reply
<1>7. CASE Reply(u)
  BY <1>6, <1>7
<1>8. CASE ~Reply(u)
  <2>1. \/ UNCHANGED out
        \/ Ends(u, Store!Failed)
        \/ Ends(u, Store!Ok)
    BY <1>3, <1>5, <1>8 DEF Handler, SetFile, GetFile, Create, Exists, CreateFails, Remove,
       RemoveFails, Write, WriteFails, CloseWritten, OpenRead, OpenReadFails, Stat,
       StatFails, Read, ReadsNothing, ReadFails, vars
  <2> QED
    BY <2>1, <1>4
<1> QED
  BY <1>7, <1>8

\* Whatever the clients do and whichever calls fail, a download returns the start
\* of one upload to its name (DataDeal_getFile), as long as a call of read or
\* write moves all it is asked for.
THEOREM DownloadSafe == Whole => (Spec => GetReturnsOneUpload)
<1> SUFFICES ASSUME Whole
             PROVE  Spec => GetReturnsOneUpload
  OBVIOUS
<1>1. ContentInv /\ [Next]_vars => ContentInv'
  BY StepKeepsContents
<1>2. ContentInv /\ [Next]_vars =>
        [\A t \in Threads :
           out'[t] # out[t] /\ out'[t].kind = "data" =>
             \E v \in Blobs : IsStart(out'[t].bytes, Bytes(req[t].name, v))]_vars
  BY DataFromReply, ReplyIsStart DEF ContentInv
<1> QED
  BY <1>1, <1>2, InitContents, PTL DEF Spec, GetReturnsOneUpload

-----------------------------------------------------------------------------
(* Whole files, when every write is done and the server does not end.      *)

Steady == Faults \cap {"short", "write", "crash"} = {}

\* a file is an upload, or somebody is about to make it one
Attended ==
    \A n \in Names : dir[n] # NoFile =>
        \/ \E v \in Blobs : data[dir[n]] = Bytes(n, v)
        \/ \E t \in Threads : pc[t] = "write" /\ fd[t] = dir[n]

AttendedInv == ContentInv /\ Attended

\* A thread that writes goes on writing, or it has written everything.
LEMMA WriterCases ==
  ASSUME Steady, ContentInv, NEW t \in Threads, pc[t] = "write",
         StartRequest(t) \/ Handler(t), ~Write(t)
  PROVE  \/ UNCHANGED vars
         \/ /\ fd[t] \in Inodes /\ req[t].name \in Names /\ req[t].blob \in Blobs
            /\ data[fd[t]] = Bytes(req[t].name, req[t].blob)
<1>1. CloseWritten(t) \/ UNCHANGED vars
  BY DEF Steady, StartRequest, Handler, SetFile, GetFile, Create, Exists, CreateFails, Remove,
     RemoveFails, WriteFails, OpenRead, OpenReadFails, Stat, StatFails, Read, ReadsNothing,
     ReadFails, Reply
<1>2. CASE CloseWritten(t)
  <2>1. /\ req[t] \in Requests /\ req[t].op = "SET" /\ req[t].name \in Names
        /\ req[t].blob \in Blobs /\ fd[t] \in Inodes /\ data[fd[t]] \in Seq(Cells)
        /\ done[t] = need[t] /\ need[t] = Size[req[t].blob] /\ Len(data[fd[t]]) = done[t]
    BY <1>2, RequestFields DEF CloseWritten, ContentInv, TypeInv, Typed, Control, Counts
  <2>2. /\ Bytes(req[t].name, req[t].blob) \in Seq(Cells)
        /\ Len(Bytes(req[t].name, req[t].blob)) = Size[req[t].blob]
    BY <2>1, BytesType
  <2>3. CASE done[t] = 0
    <3>1. data[fd[t]] = <<>> /\ Bytes(req[t].name, req[t].blob) = <<>>
      BY <2>1, <2>2, <2>3, EmptySeq
    <3> QED
      BY <2>1, <3>1
  <2>4. CASE done[t] # 0
    BY <2>1, <2>4 DEF ContentInv, Contents
  <2> QED
    BY <2>3, <2>4
<1> QED
  BY <1>1, <1>2

LEMMA StepKeepsAttended ==
  ASSUME Steady, AttendedInv, [Next]_vars
  PROVE  AttendedInv'
<1>1. Whole /\ ~Crash
  BY DEF Steady, Whole, Crash
<1>2. ContentInv'
  BY <1>1, StepKeepsContents DEF AttendedInv
<1> USE DEF Goto, local
<1>3. CASE UNCHANGED vars
  BY <1>2, <1>3 DEF vars, AttendedInv, Attended
<1>4. ASSUME NEW t \in Threads, StartRequest(t) \/ Handler(t), ~ UNCHANGED vars
      PROVE  Attended'
  <2>1. CASE Write(t)
    <3>1. /\ fd[t] \in Inodes /\ fd[t] # NoFile /\ req[t].blob \in Blobs
          /\ data' = [data EXCEPT ![fd[t]] = Bytes(req[t].name, req[t].blob)]
          /\ UNCHANGED <<dir, pc, fd>>
      BY ZenonT(40), <1>1, <2>1, WriteFacts, StoreAssumption DEF AttendedInv, Write
    <3> SUFFICES ASSUME NEW n \in Names, dir[n] # NoFile
                 PROVE  \/ \E v \in Blobs : data'[dir[n]] = Bytes(n, v)
                        \/ \E u \in Threads : pc[u] = "write" /\ fd[u] = dir[n]
      BY <3>1 DEF Attended
    <3>2. CASE dir[n] = fd[t]
      BY <2>1, <3>2 DEF Write
    <3>3. CASE dir[n] # fd[t]
      BY <3>1, <3>3 DEF AttendedInv, Attended, ContentInv, TypeInv, Typed
    <3> QED
      BY <3>2, <3>3
  <2>2. CASE Create(t)
    <3>1. PICK i \in Free : /\ dir' = [dir EXCEPT ![req[t].name] = i]
                            /\ data' = [data EXCEPT ![i] = <<>>]
                            /\ fd' = [fd EXCEPT ![t] = i]
      BY <2>2 DEF Create
    <3>2. /\ i \in Inodes /\ \A n \in Names : dir[n] # i
          /\ pc' = [pc EXCEPT ![t] = "write"] /\ pc[t] = "open"
      BY <2>2, FreeUnused DEF Create
    <3>3. pc'[t] = "write" /\ fd'[t] = i
      BY <3>1, <3>2 DEF AttendedInv, ContentInv, TypeInv, Typed
    <3>4. \A u \in Threads : pc[u] = "write" => pc'[u] = "write" /\ fd'[u] = fd[u]
      BY <3>1, <3>2 DEF AttendedInv, ContentInv, TypeInv, Typed
    <3> SUFFICES ASSUME NEW n \in Names, dir'[n] # NoFile
                 PROVE  \/ \E v \in Blobs : data'[dir'[n]] = Bytes(n, v)
                        \/ \E u \in Threads : pc'[u] = "write" /\ fd'[u] = dir'[n]
      BY DEF Attended
    <3>5. CASE dir'[n] = i
      BY <3>3, <3>5
    <3>6. CASE dir'[n] # i
      <4>1. dir'[n] = dir[n] /\ data'[dir[n]] = data[dir[n]]
        BY <3>1, <3>2, <3>6 DEF AttendedInv, ContentInv, TypeInv, Typed
      <4> QED
        BY <3>4, <4>1 DEF AttendedInv, Attended
    <3> QED
      BY <3>5, <3>6
  <2>3. CASE ~Write(t) /\ ~Create(t)
    <3>1. \/ StartRequest(t) \/ Exists(t) \/ Remove(t) \/ OpenRead(t) \/ Stat(t) \/ Read(t)
          \/ \E outcome : Ends(t, outcome)
      BY <1>4, <2>3, HandlerCases
    <3>2. data' = data /\ \A n \in Names : dir'[n] = dir[n] \/ dir'[n] = NoFile
      BY <3>1 DEF StartRequest, Exists, Remove, OpenRead, Stat, Read, Ends,
                  AttendedInv, ContentInv, TypeInv, Typed
    <3>3. \A u \in Threads : u # t /\ pc[u] = "write" => pc'[u] = "write" /\ fd'[u] = fd[u]
      BY <3>1 DEF StartRequest, Exists, Remove, OpenRead, Stat, Read, Ends,
                  AttendedInv, ContentInv, TypeInv, Typed
    <3> SUFFICES ASSUME NEW n \in Names, dir'[n] # NoFile
                 PROVE  \/ \E v \in Blobs : data[dir[n]] = Bytes(n, v)
                        \/ \E u \in Threads : pc'[u] = "write" /\ fd'[u] = dir[n]
      BY <3>2 DEF Attended
    <3>4. CASE pc[t] = "write" /\ fd[t] = dir[n]
      <4>1. req[t].blob \in Blobs /\ data[fd[t]] = Bytes(req[t].name, req[t].blob)
            /\ fd[t] # NoFile
        BY <1>4, <2>3, <3>4, WriterCases, StoreAssumption DEF AttendedInv
      <4>2. req[t].name = n
        BY <3>4, <4>1 DEF AttendedInv, ContentInv, TypeInv, OneName
      <4> QED
        BY <3>4, <4>1, <4>2
    <3>5. CASE ~(pc[t] = "write" /\ fd[t] = dir[n])
      BY <3>2, <3>3, <3>5 DEF AttendedInv, Attended
    <3> QED
      BY <3>4, <3>5
  <2> QED
    BY <2>1, <2>2, <2>3
<1>5. Attended'
  BY <1>1, <1>3, <1>4 DEF Next, AttendedInv
<1> QED
  BY <1>2, <1>5 DEF AttendedInv

\* A file to which nobody uploads is whole, whatever the clients do, as long as
\* writes are done and the server does not end (DataDeal_setFile).
THEOREM FilesWhole == Steady => (Spec => []WholeWhenQuiet)
<1> SUFFICES ASSUME Steady
             PROVE  Spec => []WholeWhenQuiet
  OBVIOUS
<1>1. Init => AttendedInv
  <2>1. Init => Attended
    BY DEF Init, Attended
  <2> QED
    BY <2>1, InitContents DEF AttendedInv
<1>2. AttendedInv /\ [Next]_vars => AttendedInv'
  BY StepKeepsAttended
<1>3. AttendedInv => WholeWhenQuiet
  <2> SUFFICES ASSUME AttendedInv, NEW n \in Names, dir[n] # NoFile,
                      NEW t \in Threads, pc[t] = "write", fd[t] = dir[n]
               PROVE  req[t] # NoRequest /\ req[t].op = "SET" /\ req[t].name = n
    BY DEF AttendedInv, Attended, WholeWhenQuiet
  <2> QED
    BY DEF AttendedInv, ContentInv, TypeInv, Control, OneName
<1> QED
  BY <1>1, <1>2, <1>3, PTL DEF Spec

-----------------------------------------------------------------------------
(* The abstract store.                                                     *)

\* What clients must do for the files to behave like AtomicStore.
Orderly == Exclusive /\ NoFile \notin Seq(Cells)

Uploading(t, n) == req[t] # NoRequest /\ req[t].op = "SET" /\ req[t].name = n

Alone ==
    \A t, u \in Threads :
        t # u /\ req[t] # NoRequest /\ req[u] # NoRequest => ~Clashes(req[t], req[u])

\* kept is what is there, except under an upload, which leaves the file, removes
\* it, or has its own in its place
Faithful ==
    /\ \A n \in Names : (\A t \in Threads : ~Uploading(t, n)) => kept[n] = Content(n)
    /\ \A t \in Threads :
         /\ pc[t] = "open" => Content(req[t].name) \in {NoFile, kept[req[t].name]}
         /\ pc[t] = "remove" => /\ dir[req[t].name] # NoFile
                                /\ Content(req[t].name) = kept[req[t].name]
         /\ pc[t] \in {"write", "stat", "read"} => dir[req[t].name] = fd[t]
         /\ pc[t] = "read" => need[t] = Len(data[fd[t]])

\* Whatever a call moves, an upload writes bytes of its own, and a download gets
\* bytes of the file, or fresh memory.
OwnBytes ==
    \A t \in Threads :
        /\ pc[t] = "write" => \A k \in 1..Len(data[fd[t]]) :
                                data[fd[t]][k] \in Store!Own(req[t].name, req[t].blob)
        /\ pc[t] = "read" => \A k \in 1..Len(buf[t]) :
                               \/ buf[t][k] = Junk
                               \/ \E j \in 1..Len(data[fd[t]]) : buf[t][k] = data[fd[t]][j]

StoreInv == TypeInv /\ (Whole => Contents) /\ OwnBytes /\ Alone /\ Faithful

\* What is known of a thread with a request, and of the others.
LEMMA BusyFacts ==
  ASSUME StoreInv, NEW t \in Threads, pc[t] # "idle"
  PROVE  /\ req[t] \in Requests /\ req[t] # NoRequest /\ req[t].name \in Names
         /\ req[t].op \in {"SET", "GET"}
         /\ req[t].op = "SET" => /\ Uploading(t, req[t].name) /\ req[t].blob \in Blobs
                                 /\ pc[t] \in {"open", "remove", "write"}
         /\ req[t].op = "GET" => pc[t] \in {"openr", "stat", "read"}
         /\ \A u \in Threads : u # t /\ req[u] # NoRequest /\ req[u].name = req[t].name =>
              req[t].op = "GET" /\ req[u].op = "GET"
<1>1. req[t] \in Requests /\ req[t] # NoRequest
  BY DEF StoreInv, TypeInv, Typed, Control
<1>2. /\ req[t].name \in Names /\ req[t].op \in {"SET", "GET"}
      /\ req[t].op = "SET" => req[t].blob \in Blobs
  BY <1>1, RequestFields
<1>3. /\ req[t].op = "SET" => pc[t] \in {"open", "remove", "write"}
      /\ req[t].op = "GET" => pc[t] \in {"openr", "stat", "read"}
  <2>1. pc[t] \in Pcs
    BY DEF StoreInv, TypeInv, Typed
  <2>2. /\ pc[t] \in {"open", "remove", "write"} => req[t].op = "SET"
        /\ pc[t] \in {"openr", "stat", "read"} => req[t].op = "GET"
    BY DEF StoreInv, TypeInv, Control
  <2> QED
    BY <2>1, <2>2 DEF Pcs
<1>4. ASSUME NEW u \in Threads, u # t, req[u] # NoRequest, req[u].name = req[t].name
      PROVE  req[t].op = "GET" /\ req[u].op = "GET"
  <2>1. req[u] \in Requests
    BY <1>4 DEF StoreInv, TypeInv, Typed
  <2>2. req[u].op \in {"SET", "GET"}
    BY <2>1, RequestFields
  <2>3. ~Clashes(req[t], req[u])
    BY <1>1, <1>4 DEF StoreInv, Alone
  <2> QED
    BY <1>2, <1>4, <2>2, <2>3 DEF Clashes
<1> QED
  BY <1>1, <1>2, <1>3, <1>4 DEF Uploading

\* Under an upload the file is the old one, gone, or the upload's own.
LEMMA UploadContent ==
  ASSUME StoreInv, NEW t \in Threads, pc[t] # "idle", req[t].op = "SET"
  PROVE  /\ pc[t] # "write" => Content(req[t].name) \in {kept[req[t].name], NoFile}
         /\ pc[t] = "write" =>
              /\ done[t] < need[t] => Content(req[t].name) \in Store!Begun(req[t].name, req[t].blob)
              /\ done[t] = need[t] => Content(req[t].name) \in Store!Made(req[t].name, req[t].blob)
              /\ done[t] < need[t] \/ done[t] = need[t]
<1> DEFINE n == req[t].name
           v == req[t].blob
           file == data[fd[t]]
<1>1. pc[t] \in {"open", "remove", "write"}
  BY BusyFacts
<1>2. CASE pc[t] = "write"
  <2>1. Content(n) = file
    BY <1>2 DEF StoreInv, TypeInv, Control, Faithful, Content
  <2>2. /\ file \in Seq(Cells) /\ Len(file) = done[t] /\ need[t] = Size[v] /\ done[t] <= need[t]
        /\ done[t] \in Nat /\ need[t] \in Nat
    BY <1>2 DEF StoreInv, TypeInv, Typed, Control, Counts
  <2>3. n \in Names /\ v \in Blobs /\ Bytes(n, v) = Store!Bytes(n, v)
    BY BusyFacts DEF Bytes
  <2>4. CASE Whole
    <3>1. /\ \/ done[t] = 0 /\ file = <<>>
             \/ done[t] = need[t] /\ file = Bytes(n, v)
      BY <1>2, <2>4 DEF StoreInv, Contents
    <3>2. done[t] = need[t] => file = Bytes(n, v)
      <4>1. Bytes(n, v) \in Seq(Cells) /\ Len(Bytes(n, v)) = Size[v]
        BY <2>3, BytesType
      <4>2. CASE file = <<>>
        BY <2>2, <4>1, <4>2, EmptySeq
      <4> QED
        BY <3>1, <4>2
    <3>3. done[t] < need[t] => file = <<>>
      BY <2>2, <3>1
    <3>4. <<>> \in Store!Begun(n, v) /\ Bytes(n, v) \in Store!Made(n, v)
      BY <2>3, <2>4 DEF Whole, Store!Begun, Store!Made
    <3>5. done[t] < need[t] \/ done[t] = need[t]
      BY <2>2
    <3> HIDE DEF file, n, v
    <3> QED
      BY <1>2, <2>1, <3>2, <3>3, <3>4, <3>5 DEF n, v
  <2>5. CASE ~Whole
    <3>1. file \in [1..done[t] -> Store!Own(n, v)]
      <4>1. \A k \in 1..done[t] : file[k] \in Store!Own(n, v)
        BY <1>2, <2>2 DEF StoreInv, OwnBytes
      <4>2. DOMAIN file = 1..done[t] /\ file = [k \in 1..done[t] |-> file[k]]
        BY <2>2, LenProperties
      <4> HIDE DEF file, n, v
      <4> QED
        BY <4>1, <4>2
    <3> HIDE DEF file, n, v
    <3>2. done[t] = 0 => file = <<>>
      BY <2>2, EmptySeq, SeqEqual
    <3>3. done[t] # 0 => done[t] \in 1..Size[v]
      BY <2>2
    <3>4. file \in Store!Begun(n, v)
      BY <2>5, <3>1, <3>2, <3>3 DEF Whole, Store!Begun
    <3>5. done[t] = need[t] => file \in Store!Made(n, v)
      BY <2>2, <2>5, <3>1 DEF Whole, Store!Made
    <3>6. done[t] < need[t] \/ done[t] = need[t]
      BY <2>2
    <3> QED
      BY <1>2, <2>1, <3>4, <3>5, <3>6 DEF n, v
  <2> QED
    BY <2>4, <2>5
<1>3. CASE pc[t] \in {"open", "remove"}
  BY <1>3 DEF StoreInv, Faithful
<1> QED
  BY <1>1, <1>2, <1>3

LEMMA StartKeepsStore ==
  ASSUME Orderly, StoreInv, NEW t \in Threads, StartRequest(t)
  PROVE  Alone' /\ Faithful'
<1> USE DEF Goto, local
<1>1. PICK r \in Requests :
         /\ req' = [req EXCEPT ![t] = r]
         /\ pc' = [pc EXCEPT ![t] = IF r.op = "SET" THEN "open" ELSE "openr"]
         /\ \A u \in Threads : req[u] # NoRequest => ~Clashes(r, req[u])
  BY DEF StartRequest, Orderly
<1>2. UNCHANGED <<dir, data, kept, fd, need, done, buf>> /\ pc[t] = "idle"
  BY DEF StartRequest
<1>3. r # NoRequest /\ r.name \in Names /\ r.op \in {"SET", "GET"}
  BY <1>1, RequestFields
<1>4. /\ req'[t] = r /\ req[t] = NoRequest
      /\ pc'[t] \in {"open", "openr"}
      /\ r.op # "SET" => pc'[t] = "openr"
      /\ \A u \in Threads : u # t => req'[u] = req[u] /\ pc'[u] = pc[u]
  BY <1>1, <1>2 DEF StoreInv, TypeInv, Typed, Control
<1>5. Alone'
  BY <1>1, <1>4 DEF StoreInv, Alone, Clashes
<1>6. \A n \in Names : Content(n)' = Content(n)
  BY <1>2 DEF Content
<1>7. ASSUME NEW n \in Names, \A u \in Threads : ~Uploading(u, n)'
      PROVE  kept[n] = Content(n)
  <2>1. \A u \in Threads : ~Uploading(u, n)
    BY <1>4, <1>7 DEF Uploading
  <2> QED
    BY <2>1 DEF StoreInv, Faithful
<1>8. r.op = "SET" => Content(r.name) = kept[r.name]
  <2>1. r.op = "SET" => \A u \in Threads : ~Uploading(u, r.name)
    BY <1>1 DEF Uploading, Clashes
  <2> QED
    BY <1>3, <2>1 DEF StoreInv, Faithful
<1>9. ASSUME NEW u \in Threads
      PROVE  /\ pc'[u] = "open" => Content(req[u].name)' \in {NoFile, kept'[req'[u].name]}
             /\ pc'[u] = "remove" => /\ dir'[req'[u].name] # NoFile
                                     /\ Content(req[u].name)' = kept'[req'[u].name]
             /\ pc'[u] \in {"write", "stat", "read"} => dir'[req'[u].name] = fd'[u]
             /\ pc'[u] = "read" => need'[u] = Len(data'[fd'[u]])
  <2>1. CASE u = t
    <3>1. pc'[t] = "open" => Content(r.name)' = kept'[r.name]
      BY <1>2, <1>3, <1>4, <1>6, <1>8
    <3> QED
      BY <2>1, <3>1, <1>4
  <2>2. CASE u # t
    <3>1. pc[u] \in {"open", "remove"} => req[u].name \in Names
      BY BusyFacts
    <3> QED
      BY <2>2, <3>1, <1>2, <1>4, <1>6 DEF StoreInv, Faithful
  <2> QED
    BY <2>1, <2>2
<1> QED
  BY <1>2, <1>5, <1>6, <1>7, <1>9 DEF Faithful

LEMMA EndsKeepsStore ==
  ASSUME StoreInv, NEW t \in Threads, pc[t] # "idle", NEW outcome, Ends(t, outcome)
  PROVE  Alone' /\ Faithful'
<1> USE DEF Goto
<1>1. /\ dir' = dir /\ data' = data /\ req'[t] = NoRequest /\ pc'[t] = "idle"
      /\ \A u \in Threads : u # t => /\ req'[u] = req[u] /\ pc'[u] = pc[u]
                                     /\ fd'[u] = fd[u] /\ need'[u] = need[u]
  BY DEF Ends, StoreInv, TypeInv, Typed
<1>2. Alone'
  BY <1>1 DEF StoreInv, Alone
<1>3. /\ req[t].name \in Names /\ req[t].op \in {"SET", "GET"}
      /\ req[t].op = "SET" => Uploading(t, req[t].name)
      /\ \A u \in Threads : u # t /\ req[u] # NoRequest /\ req[u].name = req[t].name =>
           req[t].op = "GET" /\ req[u].op = "GET"
  BY BusyFacts
<1>4. \A n \in Names : Content(n)' = Content(n)
  BY <1>1 DEF Content
<1>5. \A n \in Names : kept'[n] = IF Uploading(t, n) THEN Content(n) ELSE kept[n]
  BY <1>3 DEF Ends, Uploading, StoreInv, TypeInv, Typed
<1>6. ASSUME NEW n \in Names, \A u \in Threads : ~Uploading(u, n)'
      PROVE  kept'[n] = Content(n)
  <2>1. \A u \in Threads : u # t => ~Uploading(u, n)
    BY <1>1, <1>6 DEF Uploading
  <2> QED
    BY <1>5, <2>1 DEF StoreInv, Faithful
<1>7. ASSUME NEW u \in Threads, pc'[u] # "idle"
      PROVE  /\ u # t /\ req[u].name \in Names
             /\ kept'[req[u].name] = kept[req[u].name]
                  \/ pc[u] \in {"openr", "stat", "read"}
  <2>1. u # t /\ pc[u] # "idle"
    BY <1>1, <1>7
  <2>2. /\ req[u].name \in Names /\ req[u] # NoRequest
        /\ req[u].op = "GET" => pc[u] \in {"openr", "stat", "read"}
        /\ req[u].op \in {"SET", "GET"}
    BY <2>1, BusyFacts
  <2>3. CASE req[u].op = "SET"
    BY <2>1, <2>2, <2>3, <1>3, <1>5 DEF Uploading
  <2> QED
    BY <2>1, <2>2, <2>3
<1>8. ASSUME NEW u \in Threads
      PROVE  /\ pc'[u] = "open" => Content(req[u].name)' \in {NoFile, kept'[req'[u].name]}
             /\ pc'[u] = "remove" => /\ dir'[req'[u].name] # NoFile
                                     /\ Content(req[u].name)' = kept'[req'[u].name]
             /\ pc'[u] \in {"write", "stat", "read"} => dir'[req'[u].name] = fd'[u]
             /\ pc'[u] = "read" => need'[u] = Len(data'[fd'[u]])
  BY <1>1, <1>4, <1>7 DEF StoreInv, Faithful
<1> QED
  BY <1>2, <1>4, <1>6, <1>8 DEF Faithful

\* A file that is there is a sequence of bytes.
LEMMA FileIsBytes ==
  ASSUME NoFile \notin Seq(Cells), TypeInv, NEW n \in Names
  PROVE  Content(n) = NoFile <=> dir[n] = NoFile
<1> QED
  BY DEF TypeInv, Typed, Content

\* What an upload does to its name, nobody else has to do with.
LEMMA UploadKeepsStore ==
  ASSUME Orderly, StoreInv, NEW t \in Threads,
         Create(t) \/ Exists(t) \/ Remove(t) \/ Write(t)
  PROVE  Alone' /\ Faithful'
<1> USE DEF Goto, local
<1>0. NoFile \notin Seq(Cells)
  BY DEF Orderly
<1> DEFINE m == req[t].name
<1>1. pc[t] \in {"open", "remove", "write"} /\ pc[t] # "idle"
  BY DEF Create, Exists, Remove, Write
<1>2. req[t].op = "SET"
  BY <1>1 DEF StoreInv, TypeInv, Control
<1>3. /\ req[t] \in Requests /\ req[t] # NoRequest /\ m \in Names /\ Uploading(t, m)
      /\ \A u \in Threads : u # t /\ req[u] # NoRequest => req[u].name # m
  BY <1>1, <1>2, BusyFacts
<1>4. kept' = kept /\ req' = req /\ pc' \in [Threads -> Pcs]
  BY DEF Create, Exists, Remove, Write, StoreInv, TypeInv, Typed, Pcs
<1>5. \A u \in Threads : u # t => pc'[u] = pc[u] /\ fd'[u] = fd[u] /\ need'[u] = need[u]
  BY DEF Create, Exists, Remove, Write, StoreInv, TypeInv, Typed
<1>6. \A n \in Names : n # m => dir'[n] = dir[n]
  BY DEF Create, Exists, Remove, Write, StoreInv, TypeInv, Typed
<1>7. \A i \in Inodes : \/ data'[i] = data[i]
                        \/ /\ \A n \in Names : n # m => dir[n] # i
                           /\ \A u \in Threads : u # t => fd[u] # i
  <2>1. CASE Create(t)
    <3>1. PICK i \in Free : data' = [data EXCEPT ![i] = <<>>]
      BY <2>1 DEF Create
    <3> QED
      BY <3>1, FreeUnused DEF StoreInv, TypeInv, Typed
  <2>2. CASE Write(t)
    <3>1. /\ \E file : data' = [data EXCEPT ![fd[t]] = file]
          /\ fd[t] \in Inodes /\ fd[t] # NoFile
      BY <2>2, StoreAssumption DEF Write, StoreInv, TypeInv, Typed, Control
    <3>2. \A n \in Names : n # m => dir[n] # fd[t]
      BY <3>1 DEF StoreInv, TypeInv, OneName
    <3>3. ASSUME NEW u \in Threads, u # t
          PROVE  fd[u] # fd[t]
      <4>1. fd[u] # NoFile => req[u] # NoRequest
        BY DEF StoreInv, TypeInv, Control
      <4> QED
        BY <1>3, <3>1, <3>3, <4>1 DEF StoreInv, TypeInv, OneName
    <3> QED
      BY <3>1, <3>2, <3>3 DEF StoreInv, TypeInv, Typed
  <2>3. CASE Exists(t) \/ Remove(t)
    BY <2>3 DEF Exists, Remove
  <2> QED
    BY <2>1, <2>2, <2>3
<1>8. \A n \in Names : n # m => Content(n)' = Content(n)
  BY <1>6, <1>7 DEF Content, StoreInv, TypeInv, Typed
<1>9. ASSUME NEW n \in Names, \A u \in Threads : ~Uploading(u, n)'
      PROVE  kept[n] = Content(n)'
  <2>1. n # m /\ \A u \in Threads : ~Uploading(u, n)
    BY <1>3, <1>4, <1>9 DEF Uploading
  <2> QED
    BY <1>8, <2>1 DEF StoreInv, Faithful
<1>10. ASSUME NEW u \in Threads
       PROVE  /\ pc'[u] = "open" => Content(req[u].name)' \in {NoFile, kept[req[u].name]}
              /\ pc'[u] = "remove" => /\ dir'[req[u].name] # NoFile
                                      /\ Content(req[u].name)' = kept[req[u].name]
              /\ pc'[u] \in {"write", "stat", "read"} => dir'[req[u].name] = fd'[u]
              /\ pc'[u] = "read" => need'[u] = Len(data'[fd'[u]])
  <2>1. CASE u # t /\ pc[u] # "idle"
    <3>1. req[u].name \in Names /\ req[u].name # m
      BY <2>1, <1>3, BusyFacts
    <3>2. pc[u] = "read" => data'[fd[u]] = data[fd[u]]
      BY <2>1, <1>7 DEF StoreInv, TypeInv, Typed, Control
    <3> QED
      BY <2>1, <3>1, <3>2, <1>4, <1>5, <1>6, <1>8 DEF StoreInv, Faithful
  <2>2. CASE u # t /\ pc[u] = "idle"
    BY <2>2, <1>5
  <2>3. CASE u = t
    <3>1. CASE Create(t)
      BY <2>3, <3>1, <1>3 DEF Create, StoreInv, TypeInv, Typed
    <3>2. CASE Exists(t)
      <4>1. /\ pc'[t] = "remove" /\ dir' = dir /\ data' = data
            /\ dir[m] # NoFile /\ pc[t] = "open"
        BY <3>2 DEF Exists, StoreInv, TypeInv, Typed
      <4>2. Content(m) \in {NoFile, kept[m]} /\ Content(m) = data[dir[m]]
        BY <4>1 DEF StoreInv, Faithful, Content
      <4>3. Content(m) # NoFile
        BY <4>1, <1>0, <1>3, FileIsBytes DEF StoreInv
      <4> QED
        BY <2>3, <1>4, <4>1, <4>2, <4>3 DEF Content
    <3>3. CASE Remove(t)
      BY <2>3, <3>3, <1>3 DEF Remove, Content, StoreInv, TypeInv, Typed
    <3>4. CASE Write(t)
      BY <2>3, <3>4 DEF Write, StoreInv, TypeInv, Typed, Faithful
    <3> QED
      BY <3>1, <3>2, <3>3, <3>4
  <2> QED
    BY <2>1, <2>2, <2>3
<1>11. Alone'
  BY <1>4 DEF StoreInv, Alone
<1> QED
  BY <1>4, <1>9, <1>10, <1>11 DEF Faithful

\* A download keeps what it opened and measured.
LEMMA DownloadKeepsStore ==
  ASSUME StoreInv, NEW t \in Threads, OpenRead(t) \/ Stat(t) \/ Read(t)
  PROVE  Alone' /\ Faithful'
<1> USE DEF Goto
<1>1. UNCHANGED <<dir, data, kept, req>>
  BY DEF OpenRead, Stat, Read
<1>2. \A u \in Threads : u # t => pc'[u] = pc[u] /\ fd'[u] = fd[u] /\ need'[u] = need[u]
  BY DEF OpenRead, Stat, Read, StoreInv, TypeInv, Typed
<1>3. \A n \in Names : Content(n)' = Content(n)
  BY <1>1 DEF Content
<1>4. /\ pc'[t] \in {"stat", "read"} /\ dir[req[t].name] = fd'[t]
      /\ pc'[t] = "read" => need'[t] = Len(data[fd'[t]])
  <2>1. CASE OpenRead(t)
    BY <2>1 DEF OpenRead, StoreInv, TypeInv, Typed
  <2>2. CASE Stat(t)
    BY <2>2 DEF Stat, StoreInv, TypeInv, Typed, Faithful
  <2>3. CASE Read(t)
    BY <2>3 DEF Read, StoreInv, TypeInv, Typed, Faithful
  <2> QED
    BY <2>1, <2>2, <2>3
<1>5. ASSUME NEW u \in Threads
      PROVE  /\ pc'[u] = "open" => Content(req[u].name)' \in {NoFile, kept[req[u].name]}
             /\ pc'[u] = "remove" => /\ dir[req[u].name] # NoFile
                                     /\ Content(req[u].name)' = kept[req[u].name]
             /\ pc'[u] \in {"write", "stat", "read"} => dir[req[u].name] = fd'[u]
             /\ pc'[u] = "read" => need'[u] = Len(data[fd'[u]])
  <2>1. CASE u = t
    BY <2>1, <1>4
  <2>2. CASE u # t
    <3>1. pc[u] # "idle" => req[u].name \in Names
      BY BusyFacts
    <3> QED
      BY <2>2, <3>1, <1>1, <1>2, <1>3 DEF StoreInv, Faithful
  <2> QED
    BY <2>1, <2>2
<1>6. \A u \in Threads, n \in Names : Uploading(u, n)' = Uploading(u, n)
  BY <1>1 DEF Uploading
<1>7. Alone'
  BY <1>1 DEF StoreInv, Alone
<1> QED
  BY <1>1, <1>3, <1>5, <1>6, <1>7 DEF StoreInv, Faithful

\* Writing, from the upload; nobody else has the file.
LEMMA WriteKeepsOwn ==
  ASSUME StoreInv, NEW t \in Threads, Write(t)
  PROVE  OwnBytes'
<1> DEFINE n == req[t].name
           v == req[t].blob
           whole == Bytes(n, v)
<1>1. /\ pc[t] = "write" /\ done[t] < need[t] /\ UNCHANGED <<pc, req, fd, buf>>
      /\ fd[t] \in Inodes /\ data[fd[t]] \in Seq(Cells) /\ Len(data[fd[t]]) = done[t]
      /\ done[t] \in Nat /\ need[t] = Size[v] /\ fd[t] # NoFile
  BY StoreAssumption DEF Write, StoreInv, TypeInv, Typed, Control, Counts
<1>2. n \in Names /\ v \in Blobs /\ req[t].op = "SET" /\ req[t] # NoRequest
  BY <1>1, BusyFacts DEF StoreInv, TypeInv, Control
<1>3. Size[v] \in Nat /\ whole \in Seq(Cells) /\ Len(whole) = Size[v]
  BY <1>2, BytesType
<1>4. PICK k \in Moves(need[t] - done[t]) :
        data' = [data EXCEPT ![fd[t]] = Overlay(data[fd[t]], done[t], SubSeq(whole, 1, k))]
  BY DEF Write
<1>5. k \in Nat /\ 0 + k <= Len(whole)
  BY <1>1, <1>3, <1>4 DEF Moves
<1>6. /\ SubSeq(whole, 1, k) \in Seq(Cells) /\ Len(SubSeq(whole, 1, k)) = k
      /\ \A i \in 1..k : SubSeq(whole, 1, k)[i] = whole[i]
  <2>1. /\ SubSeq(whole, 0 + 1, 0 + k) \in Seq(Cells) /\ Len(SubSeq(whole, 0 + 1, 0 + k)) = k
        /\ \A i \in 1..k : SubSeq(whole, 0 + 1, 0 + k)[i] = whole[0 + i]
    BY <1>3, <1>5, PieceType
  <2>2. 0 + 1 = 1 /\ 0 + k = k /\ \A i \in 1..k : 0 + i = i
    BY <1>5
  <2> QED
    BY <2>1, <2>2
<1> DEFINE piece == SubSeq(whole, 1, k)
           new == Overlay(data[fd[t]], done[t], piece)
<1>7. \A i \in 1..k : piece[i] \in Store!Own(n, v)
  <2>1. \A i \in 1..k : i \in 1..Size[v]
    BY <1>3, <1>5
  <2> QED
    BY <1>6, <2>1 DEF Store!Own, Bytes
<1> HIDE DEF piece
<1>8. \A i \in 1..Len(new) : new[i] \in Store!Own(n, v)
  <2> SUFFICES ASSUME NEW i \in 1..Len(new) PROVE new[i] \in Store!Own(n, v)
    OBVIOUS
  <2>1. done[t] \in 0..Len(data[fd[t]]) /\ piece \in Seq(Cells) /\ Len(piece) = k
    BY <1>1, <1>6 DEF piece
  <2>2. \/ i \in 1..Len(data[fd[t]]) /\ new[i] = data[fd[t]][i]
        \/ \E j \in 1..k : new[i] = piece[j]
    BY <1>1, <2>1, OverlayFrom
  <2>3. \A j \in 1..Len(data[fd[t]]) : data[fd[t]][j] \in Store!Own(n, v)
    BY <1>1 DEF StoreInv, OwnBytes
  <2> HIDE DEF new, n, v
  <2> QED
    BY <1>7, <2>2, <2>3
<1>9. data'[fd[t]] = new /\ \A i \in Inodes : i # fd[t] => data'[i] = data[i]
  BY <1>1, <1>4 DEF piece, StoreInv, TypeInv, Typed
<1> HIDE DEF new, n, v
<1>10. ASSUME NEW u \in Threads, u # t, pc[u] \in {"write", "read"}
       PROVE  data'[fd[u]] = data[fd[u]]
  <2>1. fd[u] # NoFile /\ fd[u] \in Inodes /\ req[u] # NoRequest
    BY <1>10 DEF StoreInv, TypeInv, Typed, Control
  <2>2. fd[u] # fd[t]
    <3>1. fd[u] = fd[t] => req[u].name = req[t].name
      BY <2>1 DEF StoreInv, TypeInv, OneName
    <3>2. ~Clashes(req[t], req[u])
      BY <1>2, <1>10, <2>1 DEF StoreInv, Alone
    <3> QED
      BY <1>2, <3>1, <3>2 DEF Clashes
  <2> QED
    BY <1>9, <2>1, <2>2
<1> SUFFICES ASSUME NEW u \in Threads
             PROVE  /\ pc[u] = "write" => \A i \in 1..Len(data'[fd[u]]) :
                           data'[fd[u]][i] \in Store!Own(req[u].name, req[u].blob)
                    /\ pc[u] = "read" => \A i \in 1..Len(buf[u]) :
                           \/ buf[u][i] = Junk
                           \/ \E j \in 1..Len(data'[fd[u]]) : buf[u][i] = data'[fd[u]][j]
  BY <1>1 DEF OwnBytes
<1>11. CASE u = t
  BY <1>1, <1>8, <1>9, <1>11 DEF n, v
<1>12. CASE u # t
  BY <1>10, <1>12 DEF StoreInv, OwnBytes
<1> QED
  BY <1>11, <1>12

\* Reading, from the file; before that the memory is fresh.
LEMMA ReadKeepsOwn ==
  ASSUME StoreInv, NEW t \in Threads, Stat(t) \/ Read(t)
  PROVE  OwnBytes'
<1> USE DEF Goto
<1>1. /\ UNCHANGED <<data, req, fd>> /\ pc'[t] = "read"
      /\ \A u \in Threads : u # t => pc'[u] = pc[u] /\ buf'[u] = buf[u]
  BY DEF Stat, Read, StoreInv, TypeInv, Typed
<1>2. \A k \in 1..Len(buf'[t]) : \/ buf'[t][k] = Junk
                                  \/ \E j \in 1..Len(data[fd[t]]) : buf'[t][k] = data[fd[t]][j]
  <2>1. CASE Stat(t)
    <3> DEFINE size == Len(data[dir[req[t].name]])
    <3>1. buf'[t] = [k \in 1..size |-> Junk]
      BY <2>1 DEF Stat, StoreInv, TypeInv, Typed
    <3>2. size \in Nat
      <4>1. req[t].name \in Names /\ dir[req[t].name] # NoFile
        BY <2>1, BusyFacts DEF Stat
      <4> QED
        BY <4>1, LenProperties DEF StoreInv, TypeInv, Typed
    <3> HIDE DEF size
    <3>3. Junk \in Cells
      BY DEF Cells
    <3>4. Len(buf'[t]) = size
      <4>1. [k \in 1..size |-> Junk] \in [1..size -> Cells]
        BY <3>3
      <4>2. [k \in 1..size |-> Junk] \in Seq(Cells)
        BY <3>2, <4>1, SeqDef
      <4>3. DOMAIN [k \in 1..size |-> Junk] = 1..size
        OBVIOUS
      <4> QED
        BY <3>1, <3>2, <4>2, <4>3, LenProperties
    <3> QED
      BY <3>1, <3>4
  <2>2. CASE Read(t)
    <3>1. /\ pc[t] = "read" /\ fd[t] \in Inodes /\ data[fd[t]] \in Seq(Cells)
          /\ Len(data[fd[t]]) \in Nat /\ done[t] \in Nat /\ need[t] \in Nat
          /\ buf[t] \in Seq(Cells) /\ Len(buf[t]) = need[t]
      BY <2>2, LenProperties DEF Read, StoreInv, TypeInv, Typed, Control, Counts
    <3>2. PICK k \in Moves(IF Wanted(t) < Left(t) THEN Wanted(t) ELSE Left(t)) :
            buf' = [buf EXCEPT ![t] = Overlay(buf[t], 0, SubSeq(data[fd[t]], done[t] + 1, done[t] + k))]
      BY <2>2 DEF Read
    <3>3. k \in Nat /\ done[t] + k <= Len(data[fd[t]])
      BY SMTT(20), <2>2, <3>1, <3>2 DEF Moves, Wanted, Left, Read
    <3> DEFINE piece == SubSeq(data[fd[t]], done[t] + 1, done[t] + k)
    <3>4. /\ piece \in Seq(Cells) /\ Len(piece) = k
          /\ \A j \in 1..k : piece[j] = data[fd[t]][done[t] + j]
      <4>1. ASSUME NEW s, NEW d, s = data[fd[t]], d = done[t]
            PROVE  /\ SubSeq(s, d + 1, d + k) \in Seq(Cells)
                   /\ Len(SubSeq(s, d + 1, d + k)) = k
                   /\ \A j \in 1..k : SubSeq(s, d + 1, d + k)[j] = s[d + j]
        <5>1. s \in Seq(Cells) /\ d \in Nat /\ k \in Nat /\ d + k <= Len(s)
          BY <3>1, <3>3, <4>1
        <5> QED
          BY <5>1, PieceType
      <4> QED
        BY <4>1
    <3>5. \A j \in 1..k : done[t] + j \in 1..Len(data[fd[t]])
      BY <3>1, <3>3
    <3>6. buf'[t] = Overlay(buf[t], 0, piece)
      BY <3>2 DEF StoreInv, TypeInv, Typed
    <3> HIDE DEF piece
    <3> SUFFICES ASSUME NEW i \in 1..Len(buf'[t])
                 PROVE  \/ buf'[t][i] = Junk
                        \/ \E j \in 1..Len(data[fd[t]]) : buf'[t][i] = data[fd[t]][j]
      OBVIOUS
    <3>7. \/ i \in 1..Len(buf[t]) /\ buf'[t][i] = buf[t][i]
          \/ \E j \in 1..k : buf'[t][i] = piece[j]
      <4>1. 0 \in 0..Len(buf[t])
        BY <3>1
      <4>2. ASSUME NEW at \in 0..Len(buf[t]), at = 0
            PROVE  \/ i \in 1..Len(buf[t]) /\ Overlay(buf[t], at, piece)[i] = buf[t][i]
                   \/ \E j \in 1..Len(piece) : Overlay(buf[t], at, piece)[i] = piece[j]
        <5>1. i \in 1..Len(Overlay(buf[t], at, piece))
          BY <3>6, <4>2
        <5> QED
          BY <3>1, <3>4, <5>1, OverlayFrom
      <4> QED
        BY <3>4, <3>6, <4>1, <4>2
    <3>8. \A j \in 1..Len(buf[t]) : \/ buf[t][j] = Junk
                                     \/ \E m \in 1..Len(data[fd[t]]) : buf[t][j] = data[fd[t]][m]
      BY <3>1 DEF StoreInv, OwnBytes
    <3>9. CASE i \in 1..Len(buf[t]) /\ buf'[t][i] = buf[t][i]
      BY <3>8, <3>9
    <3>10. CASE \E j \in 1..k : buf'[t][i] = piece[j]
      BY <3>4, <3>5, <3>10
    <3> QED
      BY <3>7, <3>9, <3>10
  <2> QED
    BY <2>1, <2>2
<1> QED
  BY <1>1, <1>2 DEF StoreInv, OwnBytes

\* All other steps leave files and memory in use alone.
LEMMA OthersKeepOwn ==
  ASSUME StoreInv, NEW t \in Threads,
         \/ StartRequest(t) \/ Create(t) \/ Exists(t) \/ Remove(t) \/ OpenRead(t)
         \/ \E outcome : Ends(t, outcome)
  PROVE  OwnBytes'
<1> USE DEF Goto, local
<1>1. CASE Create(t)
  <2>1. PICK i \in Free : data' = [data EXCEPT ![i] = <<>>] /\ fd' = [fd EXCEPT ![t] = i]
    BY <1>1 DEF Create
  <2>2. /\ i \in Inodes /\ \A u \in Threads : fd[u] # i
        /\ pc'[t] = "write" /\ UNCHANGED <<req, buf>>
        /\ \A u \in Threads : u # t => pc'[u] = pc[u]
    BY <1>1, FreeUnused DEF Create, StoreInv, TypeInv, Typed
  <2>3. data'[fd'[t]] = <<>> /\ Len(<<>>) = 0
    BY <2>1, <2>2, EmptySeq DEF StoreInv, TypeInv, Typed
  <2>4. Len(data'[fd'[t]]) = 0
    BY <2>3
  <2>5. \A u \in Threads : u # t => fd'[u] = fd[u] /\ data'[fd[u]] = data[fd[u]]
    BY <2>1, <2>2 DEF StoreInv, TypeInv, Typed
  <2> QED
    BY <2>2, <2>4, <2>5 DEF StoreInv, OwnBytes
<1>2. CASE StartRequest(t)
  <2>1. /\ UNCHANGED <<data, fd, buf>> /\ pc'[t] \in {"open", "openr"}
        /\ \A u \in Threads : u # t => pc'[u] = pc[u] /\ req'[u] = req[u]
    BY <1>2 DEF StartRequest, StoreInv, TypeInv, Typed
  <2> QED
    BY <2>1 DEF StoreInv, OwnBytes
<1>3. CASE Exists(t) \/ Remove(t) \/ OpenRead(t)
  <2>1. /\ UNCHANGED <<data, req, buf>> /\ pc'[t] \in {"open", "remove", "stat"}
        /\ \A u \in Threads : u # t => pc'[u] = pc[u] /\ fd'[u] = fd[u]
    BY <1>3 DEF Exists, Remove, OpenRead, StoreInv, TypeInv, Typed
  <2> QED
    BY <2>1 DEF StoreInv, OwnBytes
<1>4. CASE \E outcome : Ends(t, outcome)
  <2>1. /\ UNCHANGED data /\ pc'[t] = "idle"
        /\ \A u \in Threads : u # t => /\ pc'[u] = pc[u] /\ req'[u] = req[u]
                                       /\ fd'[u] = fd[u] /\ buf'[u] = buf[u]
    BY <1>4 DEF Ends, StoreInv, TypeInv, Typed
  <2> QED
    BY <2>1 DEF StoreInv, OwnBytes
<1> QED
  BY <1>1, <1>2, <1>3, <1>4

LEMMA StepKeepsStore ==
  ASSUME Orderly, StoreInv, [Next]_vars
  PROVE  StoreInv'
<1>1. TypeInv'
  BY StepKeepsTypes DEF StoreInv
<1>2. Whole => Contents'
  <2>1. CASE Whole
    <3>1. ContentInv
      BY <2>1 DEF StoreInv, ContentInv
    <3> QED
      BY <2>1, <3>1, StepKeepsContents DEF ContentInv
  <2> QED
    BY <2>1
<1>3. CASE UNCHANGED vars
  <2>1. Alone' /\ \A u \in Threads, n \in Names : Uploading(u, n)' = Uploading(u, n)
    BY <1>3 DEF vars, StoreInv, Alone, Uploading
  <2>2. \A n : Content(n)' = Content(n)
    BY <1>3 DEF vars, Content
  <2>3. Faithful'
    BY <1>3, <2>1, <2>2 DEF vars, StoreInv, Faithful
  <2>4. OwnBytes'
    BY <1>3 DEF vars, StoreInv, OwnBytes
  <2> QED
    BY <1>1, <1>2, <2>1, <2>3, <2>4 DEF StoreInv
<1>4. CASE Crash
  <2>1. \A n \in Names : Content(n)' = Content(n)
    BY <1>4 DEF Crash, Content
  <2>2. Alone' /\ Faithful'
    BY <1>4, <2>1 DEF Crash, Alone, Faithful
  <2>3. OwnBytes'
    BY <1>4 DEF Crash, OwnBytes
  <2> QED
    BY <1>1, <1>2, <2>2, <2>3 DEF StoreInv
<1>5. ASSUME NEW t \in Threads, StartRequest(t) \/ Handler(t)
      PROVE  (OwnBytes' /\ Alone' /\ Faithful') \/ UNCHANGED vars
  BY <1>5, HandlerCases, StartKeepsStore, UploadKeepsStore, DownloadKeepsStore,
     EndsKeepsStore, WriteKeepsOwn, ReadKeepsOwn, OthersKeepOwn
<1> QED
  BY <1>1, <1>2, <1>3, <1>4, <1>5 DEF Next, StoreInv

-----------------------------------------------------------------------------
(* Every step is one of the abstract store's, or changes nothing there.    *)

LEMMA StartRefines ==
  ASSUME StoreInv, NEW t \in Threads, StartRequest(t)
  PROVE  Store!StartRequest(t)
<1> QED
  BY DEF StartRequest, Store!StartRequest, Store!Busy, Requests,
         StoreInv, TypeInv, Control

\* The end of an upload leaves in kept what is there.
LEMMA EndOfUpload ==
  ASSUME NEW t \in Threads, NEW outcome, Ends(t, outcome), req[t].op = "SET"
  PROVE  /\ kept' = [kept EXCEPT ![req[t].name] = Content(req[t].name)]
         /\ Store!Ends(t, outcome)
<1> QED
  BY DEF Ends, Store!Ends

LEMMA SetFileRefines ==
  ASSUME Orderly, StoreInv, NEW t \in Threads, SetFile(t)
  PROVE  Store!Next \/ UNCHANGED Store!storeVars
<1>0. pc[t] \in {"open", "remove", "write"} /\ pc[t] # "idle"
  BY DEF SetFile, Create, Exists, CreateFails, Remove, RemoveFails, Write, WriteFails,
         CloseWritten
<1>1. req[t].op = "SET"
  BY <1>0 DEF StoreInv, TypeInv, Control
<1>2. /\ Store!Uploads(t)
      /\ pc[t] # "write" => Content(req[t].name) \in {kept[req[t].name], NoFile}
      /\ pc[t] = "write" =>
           /\ done[t] < need[t] => Content(req[t].name) \in Store!Begun(req[t].name, req[t].blob)
           /\ done[t] = need[t] => Content(req[t].name) \in Store!Made(req[t].name, req[t].blob)
  BY <1>0, <1>1, BusyFacts, UploadContent DEF Store!Uploads, Store!Busy
<1>3. CASE Create(t) \/ Exists(t) \/ Remove(t) \/ Write(t)
  BY <1>3 DEF Create, Exists, Remove, Write, Store!storeVars
<1>4. CASE CreateFails(t) \/ WriteFails(t)
  <2>1. Content(req[t].name) \in Store!Leftovers(req[t].name, req[t].blob)
    BY <1>2, <1>4 DEF CreateFails, WriteFails, Store!Leftovers
  <2>2. Ends(t, Store!Failed)
    BY <1>4 DEF CreateFails, WriteFails
  <2>3. Store!PutFails(t)
    BY <1>1, <1>2, <2>1, <2>2, EndOfUpload DEF Store!PutFails
  <2> QED
    BY <2>3 DEF Store!Next
<1>5. CASE RemoveFails(t)
  <2>1. /\ pc[t] = "remove" /\ dir[req[t].name] # NoFile
        /\ Content(req[t].name) = kept[req[t].name]
        /\ Ends(t, Store!Ok) /\ "remove" \in Faults
    BY <1>5 DEF RemoveFails, StoreInv, Faithful
  <2>2. req[t].name \in Names
    BY <2>1, BusyFacts
  <2>3. kept[req[t].name] # NoFile
    BY <2>1, <2>2, FileIsBytes DEF Orderly, StoreInv
  <2>4. kept' = kept /\ Store!Ends(t, Store!Ok)
    BY <1>1, <2>1, <2>2, EndOfUpload DEF StoreInv, TypeInv, Typed
  <2>5. Store!PutRefused(t)
    BY <1>2, <2>1, <2>3, <2>4 DEF Store!PutRefused
  <2> QED
    BY <2>5 DEF Store!Next
<1>6. CASE CloseWritten(t)
  <2>1. Content(req[t].name) \in Store!Made(req[t].name, req[t].blob) /\ Ends(t, Store!Ok)
    BY <1>2, <1>6 DEF CloseWritten
  <2>2. Store!Put(t)
    BY <1>1, <1>2, <2>1, EndOfUpload DEF Store!Put
  <2> QED
    BY <2>2 DEF Store!Next
<1> QED
  BY <1>3, <1>4, <1>5, <1>6 DEF SetFile

\* What a download returns is the file, or what short reads make of it.
LEMMA ReplyIsFile ==
  ASSUME Orderly, StoreInv, NEW t \in Threads, Reply(t)
  PROVE  buf[t] \in Store!Given(kept[req[t].name]) /\ kept[req[t].name] # NoFile
<1> DEFINE file == data[fd[t]]
<1>1. /\ pc[t] = "read" /\ done[t] = need[t] /\ need[t] \in Nat
      /\ buf[t] \in Seq(Cells) /\ Len(buf[t]) = need[t]
      /\ fd[t] \in Inodes /\ fd[t] # NoFile /\ file \in Seq(Cells)
      /\ need[t] = Len(file) /\ dir[req[t].name] = fd[t]
  BY DEF Reply, Wanted, StoreInv, TypeInv, Typed, Control, Counts, Faithful
<1>2. buf[t] \in Store!Given(file)
  <2>1. CASE Whole
    <3>1. \A j \in 1..need[t] : buf[t][j] = file[j]
      <4>1. CASE need[t] = 0
        BY <4>1
      <4>2. CASE need[t] # 0
        BY <1>1, <2>1, <4>2 DEF StoreInv, Contents
      <4> QED
        BY <4>1, <4>2
    <3>2. buf[t] = file
      BY <1>1, <3>1, SeqEqual
    <3> QED
      BY <2>1, <3>2 DEF Store!Given, Whole
  <2>2. CASE ~Whole
    <3>1. /\ DOMAIN file = 1..need[t] /\ DOMAIN buf[t] = 1..need[t]
          /\ buf[t] = [i \in 1..need[t] |-> buf[t][i]]
      BY <1>1, LenProperties
    <3>2. \A i \in 1..need[t] : \/ buf[t][i] = Junk
                                \/ \E j \in 1..need[t] : buf[t][i] = file[j]
      BY <1>1 DEF StoreInv, OwnBytes
    <3> HIDE DEF file
    <3>3. \A i \in 1..need[t] : buf[t][i] \in {file[j] : j \in DOMAIN file} \cup {Junk}
      BY <3>1, <3>2
    <3>4. buf[t] \in [DOMAIN file -> {file[j] : j \in DOMAIN file} \cup {Junk}]
      BY <3>1, <3>3
    <3> QED
      BY <2>2, <3>4 DEF Store!Given, Whole
  <2> QED
    BY <2>1, <2>2
<1> HIDE DEF file
<1>3. /\ req[t].name \in Names /\ req[t].op = "GET"
      /\ \A u \in Threads : ~Uploading(u, req[t].name)
  <2>1. /\ req[t].name \in Names /\ req[t].op = "GET"
        /\ \A u \in Threads : u # t /\ req[u] # NoRequest /\ req[u].name = req[t].name =>
             req[u].op = "GET"
    BY <1>1, BusyFacts DEF StoreInv, TypeInv, Control
  <2> QED
    BY <2>1 DEF Uploading
<1>4. kept[req[t].name] = Content(req[t].name)
  BY <1>3 DEF StoreInv, Faithful
<1>5. Content(req[t].name) = file
  BY <1>1 DEF Content, file
<1> QED
  BY <1>1, <1>2, <1>4, <1>5 DEF Orderly

LEMMA GetFileRefines ==
  ASSUME Orderly, StoreInv, NEW t \in Threads, GetFile(t)
  PROVE  Store!Next \/ UNCHANGED Store!storeVars
<1>0. pc[t] \in {"openr", "stat", "read"}
  BY DEF GetFile, OpenRead, OpenReadFails, Stat, StatFails, Read, ReadsNothing, ReadFails, Reply
<1>1. req[t].op = "GET" /\ Store!Downloads(t)
  BY <1>0 DEF StoreInv, TypeInv, Control, Store!Downloads, Store!Busy
<1>2. CASE OpenRead(t) \/ Stat(t) \/ Read(t) \/ ReadsNothing(t)
  BY <1>2 DEF OpenRead, Stat, Read, ReadsNothing, vars, Store!storeVars
<1>3. ASSUME NEW outcome, Ends(t, outcome)
      PROVE  Store!Ends(t, outcome) /\ kept' = kept
  BY <1>1, <1>3 DEF Ends, Store!Ends
<1>4. CASE OpenReadFails(t) \/ StatFails(t) \/ ReadFails(t)
  <2>1. Store!GetFails(t)
    BY <1>1, <1>3, <1>4 DEF OpenReadFails, StatFails, ReadFails, Store!GetFails
  <2> QED
    BY <2>1 DEF Store!Next
<1>5. CASE Reply(t)
  <2>1. buf[t] \in Store!Given(kept[req[t].name]) /\ kept[req[t].name] # NoFile
    BY <1>5, ReplyIsFile
  <2>2. Store!Ends(t, Store!Data(buf[t])) /\ kept' = kept
    BY <1>3, <1>5 DEF Reply
  <2>3. Store!Get(t)
    BY <1>1, <2>1, <2>2 DEF Store!Get
  <2> QED
    BY <2>3 DEF Store!Next
<1> QED
  BY <1>2, <1>4, <1>5 DEF GetFile

LEMMA CrashRefines ==
  ASSUME StoreInv, Crash
  PROVE  Store!Restart
<1>1. ASSUME NEW n \in Names
      PROVE  Content(n) \in Store!AfterCrash(n)
  <2>1. CASE \A t \in Threads : ~Uploading(t, n)
    <3>1. Content(n) = kept[n]
      BY <2>1 DEF StoreInv, Faithful
    <3> QED
      BY <3>1 DEF Store!AfterCrash
  <2>2. CASE \E t \in Threads : Uploading(t, n)
    <3>1. PICK t \in Threads : Uploading(t, n)
      BY <2>2
    <3>2. pc[t] # "idle" /\ req[t].op = "SET" /\ req[t].name = n
      BY <3>1 DEF Uploading, StoreInv, TypeInv, Control
    <3>3. Content(n) \in {kept[n], NoFile} \cup Store!Begun(n, req[t].blob)
                         \cup Store!Made(n, req[t].blob)
      BY <3>2, UploadContent
    <3>4. t \in {u \in Threads : Store!Uploads(u) /\ req[u].name = n}
      BY <3>1 DEF Uploading, Store!Uploads, Store!Busy
    <3>5. Content(n) \in Store!Leftovers(n, req[t].blob) \cup Store!Made(n, req[t].blob)
      BY <3>3 DEF Store!Leftovers
    <3> QED
      BY <3>4, <3>5 DEF Store!AfterCrash
  <2> QED
    BY <2>1, <2>2
<1>2. kept' = [n \in Names |-> Content(n)]
  BY DEF Crash
<1>3. \A n \in Names : kept'[n] \in Store!AfterCrash(n)
  BY <1>1, <1>2
<1>4. kept' \in [Names -> UNION {Store!AfterCrash(n) : n \in Names}]
  BY <1>1, <1>2
<1> QED
  BY <1>3, <1>4 DEF Crash, Store!Restart

LEMMA StepRefines ==
  ASSUME Orderly, StoreInv, [Next]_vars
  PROVE  [Store!Next]_(Store!storeVars)
<1>1. CASE UNCHANGED vars
  BY <1>1 DEF vars, Store!storeVars
<1>2. CASE Crash
  BY <1>2, CrashRefines DEF Store!Next
<1>3. ASSUME NEW t \in Threads, StartRequest(t) \/ Handler(t)
      PROVE  Store!Next \/ UNCHANGED Store!storeVars
  <2>1. CASE StartRequest(t)
    BY <2>1, StartRefines DEF Store!Next
  <2>2. CASE Handler(t)
    BY <2>2, SetFileRefines, GetFileRefines DEF Handler
  <2> QED
    BY <1>3, <2>1, <2>2
<1> QED
  BY <1>1, <1>2, <1>3 DEF Next

LEMMA InitRefines == Init => Store!Init /\ StoreInv
<1> SUFFICES ASSUME Init PROVE Store!Init /\ StoreInv
  OBVIOUS
<1>1. Store!Init
  BY DEF Init, Store!Init
<1>2. Alone /\ Faithful
  BY DEF Init, Alone, Faithful, Content
<1>3. OwnBytes
  BY DEF Init, OwnBytes
<1> QED
  BY <1>1, <1>2, <1>3, InitContents DEF StoreInv, ContentInv

\* For clients that leave a file alone while it is being uploaded, the system
\* calls of DataDeal_setFile and DataDeal_getFile implement the abstract store,
\* whichever calls fail or move less than was asked, and whenever the server ends.
THEOREM CallsImplementStore == Orderly => (Spec => Atomic)
<1> SUFFICES ASSUME Orderly
             PROVE  Spec => Atomic
  OBVIOUS
<1>1. StoreInv /\ [Next]_vars => StoreInv'
  BY StepKeepsStore
<1>2. StoreInv /\ [Next]_vars => [Store!Next]_(Store!storeVars)
  BY StepRefines
<1> QED
  BY <1>1, <1>2, InitRefines, PTL DEF Spec, Atomic, Store!Spec
=============================================================================
