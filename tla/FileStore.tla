------------------------------ MODULE FileStore ------------------------------
(***************************************************************************)
(* The files of the server: the system calls by which DataDeal_setFile     *)
(* replaces a file (open O_CREAT|O_EXCL, remove and open again, write,     *)
(* close) and DataDeal_getFile returns one (open, stat by name, read),     *)
(* interleaved over several threads.  The three codecs use the same calls; *)
(* the lines mapped are the TLV branch's.  How a request gets to its       *)
(* handler, and what the handler does to descriptors, is in FileServer.    *)
(***************************************************************************)
EXTENDS Integers, Sequences, FiniteSets

CONSTANTS Threads,    \* server threads, each with at most one request
          Names,      \* file names
          Blobs,      \* contents that are uploaded
          Size,       \* blob -> its size in bytes
          Inodes,     \* files on disk, used again once nobody refers to them
          NoFile,     \* no inode
          NoRequest,  \* the request of a thread that has none
          Junk,       \* a byte of fresh memory from malloc
          Exclusive,  \* clients leave a file alone while it is being uploaded
          Faults      \* which system calls fail, or move less than was asked

ASSUME StoreAssumption ==
    /\ Size \in [Blobs -> Nat]
    /\ NoFile \notin Inodes
    /\ NoRequest \notin [op : {"SET"}, name : Names, blob : Blobs]
                        \cup [op : {"GET"}, name : Names]
    /\ Exclusive \in BOOLEAN
    /\ Faults \subseteq {"open", "remove", "write", "read", "short", "crash"}

VARIABLES dir,   \* name -> its inode, or NoFile
          data,  \* inode -> the bytes of the file
          kept,  \* history: name -> its file when an upload to it last ended
          pc,    \* thread -> where its handler is
          req,   \* thread -> the request it works on, or NoRequest
          fd,    \* thread -> the inode iFileFd refers to, or NoFile
          need,  \* thread -> nBytes of fileRead and fileWrite
          done,  \* thread -> totalReadBytes, totalWriteBytes
          buf,   \* thread -> the memory a download is read into
          out    \* thread -> what the handler returned, and sent

local == <<fd, need, done, buf>>
vars == <<dir, data, kept, pc, req, fd, need, done, buf, out>>

Store == INSTANCE AtomicStore WITH
    store <- kept, Short <- "short" \in Faults, Refusing <- "remove" \in Faults
Bytes(n, v) == Store!Bytes(n, v)
Requests == Store!Requests

Pcs == {"idle", "open", "remove", "write", "openr", "stat", "read"}
Cells == (Names \X Blobs \X Nat) \cup {Junk}

\* what name n has in it
Content(n) == IF dir[n] = NoFile THEN NoFile ELSE data[dir[n]]

\* the names under which inode i is known, in the directory or to a handler
NamesOf(i) == {n \in Names : dir[n] = i}
              \cup {req[t].name : t \in {u \in Threads : fd[u] = i}}
Free == {i \in Inodes : NamesOf(i) = {}}

\* old with new written over it behind its first at bytes
Overlay(old, at, new) ==
    [k \in 1..(IF at + Len(new) > Len(old) THEN at + Len(new) ELSE Len(old)) |->
        IF at < k /\ k <= at + Len(new) THEN new[k - at] ELSE old[k]]

\* how many of n bytes one call of read or write moves
Moves(n) == IF "short" \in Faults THEN 1..n ELSE {n}

-----------------------------------------------------------------------------
Goto(t, p) == pc' = [pc EXCEPT ![t] = p]

Clashes(r, q) == r.name = q.name /\ "SET" \in {r.op, q.op}

StartRequest(t) ==
    /\ pc[t] = "idle"
    /\ \E r \in Requests :
         /\ Exclusive => \A u \in Threads : req[u] # NoRequest => ~Clashes(r, req[u])
         /\ req' = [req EXCEPT ![t] = r]
         /\ Goto(t, IF r.op = "SET" THEN "open" ELSE "openr")
    /\ out' = [out EXCEPT ![t] = Store!NoOutcome]
    /\ UNCHANGED <<dir, data, kept, local>>

\* The handler returns.  A descriptor it leaves open is never used again.
Ends(t, outcome) ==
    /\ Goto(t, "idle")
    /\ req' = [req EXCEPT ![t] = NoRequest]
    /\ out' = [out EXCEPT ![t] = outcome]
    /\ fd' = [fd EXCEPT ![t] = NoFile]
    /\ need' = [need EXCEPT ![t] = 0]
    /\ done' = [done EXCEPT ![t] = 0]
    /\ buf' = [buf EXCEPT ![t] = <<>>]
    /\ kept' = IF req[t].op = "SET" THEN [kept EXCEPT ![req[t].name] = Content(req[t].name)]
               ELSE kept
    /\ UNCHANGED <<dir, data>>

-----------------------------------------------------------------------------
(* DataDeal_setFile *)

\* a broken Create: without O_EXCL, and without O_TRUNC, it opens what is there
X_CreateShares(t) ==
    /\ pc[t] = "open"
    /\ \E i \in IF dir[req[t].name] = NoFile THEN Free ELSE {dir[req[t].name]} :
         /\ dir' = [dir EXCEPT ![req[t].name] = i]
         /\ data' = IF dir[req[t].name] = NoFile THEN [data EXCEPT ![i] = <<>>] ELSE data
         /\ fd' = [fd EXCEPT ![t] = i]
    /\ need' = [need EXCEPT ![t] = Size[req[t].blob]]
    /\ Goto(t, "write")
    /\ UNCHANGED <<kept, req, done, buf, out>>

\* open(O_WRONLY|O_CREAT|O_EXCL) makes the file
Create(t) ==
    /\ pc[t] = "open" /\ dir[req[t].name] = NoFile
    /\ \E i \in Free :
         /\ dir' = [dir EXCEPT ![req[t].name] = i]
         /\ data' = [data EXCEPT ![i] = <<>>]
         /\ fd' = [fd EXCEPT ![t] = i]
    /\ need' = [need EXCEPT ![t] = Size[req[t].blob]]
    /\ Goto(t, "write")
    /\ UNCHANGED <<kept, req, done, buf, out>>

\* ... or finds one: EEXIST
Exists(t) ==
    /\ pc[t] = "open" /\ dir[req[t].name] # NoFile
    /\ Goto(t, "remove")
    /\ UNCHANGED <<dir, data, kept, req, local, out>>

CreateFails(t) ==
    /\ pc[t] = "open" /\ "open" \in Faults
    /\ Ends(t, Store!Failed)

Remove(t) ==
    /\ pc[t] = "remove" /\ dir[req[t].name] # NoFile
    /\ dir' = [dir EXCEPT ![req[t].name] = NoFile]
    /\ Goto(t, "open")
    /\ UNCHANGED <<data, kept, req, local, out>>

\* The file is gone already, or cannot be removed: "return 0", which is
\* FILEDATA_DEAL_RET_OK.
RemoveFails(t) ==
    /\ pc[t] = "remove"
    /\ dir[req[t].name] = NoFile \/ "remove" \in Faults
    /\ Ends(t, Store!Ok)

\* One write() of DataDeal_fileWrite.  The descriptor's offset moves on, the
\* pointer to the contents does not.
Write(t) ==
    /\ pc[t] = "write" /\ done[t] < need[t]
    /\ \E k \in Moves(need[t] - done[t]) :
         /\ data' = [data EXCEPT ![fd[t]] =
                       Overlay(@, done[t], SubSeq(Bytes(req[t].name, req[t].blob), 1, k))]
         /\ done' = [done EXCEPT ![t] = @ + k]
    /\ UNCHANGED <<dir, kept, pc, req, fd, need, buf, out>>

WriteFails(t) ==
    /\ pc[t] = "write" /\ done[t] < need[t] /\ "write" \in Faults
    /\ Ends(t, Store!Failed)

\* a broken CloseWritten: the loop of fileWrite stops one byte early
X_CloseEarly(t) ==
    /\ pc[t] = "write" /\ done[t] + 1 >= need[t]
    /\ Ends(t, Store!Ok)

CloseWritten(t) ==
    /\ pc[t] = "write" /\ done[t] = need[t]
    /\ Ends(t, Store!Ok)

SetFile(t) == \/ Create(t) \/ Exists(t) \/ CreateFails(t)
              \/ Remove(t) \/ RemoveFails(t)
              \/ Write(t) \/ WriteFails(t) \/ CloseWritten(t)

-----------------------------------------------------------------------------
(* DataDeal_getFile *)

\* a broken OpenRead: the result of open() is not looked at
X_OpenReadUnchecked(t) ==
    /\ pc[t] = "openr"
    /\ fd' = [fd EXCEPT ![t] = dir[req[t].name]]
    /\ Goto(t, "stat")
    /\ UNCHANGED <<dir, data, kept, req, need, done, buf, out>>

OpenRead(t) ==
    /\ pc[t] = "openr" /\ dir[req[t].name] # NoFile
    /\ fd' = [fd EXCEPT ![t] = dir[req[t].name]]
    /\ Goto(t, "stat")
    /\ UNCHANGED <<dir, data, kept, req, need, done, buf, out>>

\* There is no such file, or it may not be read: setFile's open() has no mode
\* argument, so the permissions of an uploaded file can be anything.
OpenReadFails(t) ==
    /\ pc[t] = "openr"
    /\ Ends(t, Store!Failed)

\* a broken Stat: it counts a byte too many, for an end mark
X_StatOneMore(t) ==
    /\ pc[t] = "stat" /\ dir[req[t].name] # NoFile
    /\ LET size == Len(data[dir[req[t].name]]) + 1
       IN /\ need' = [need EXCEPT ![t] = size]
          /\ buf' = [buf EXCEPT ![t] = [k \in 1..size |-> Junk]]
    /\ Goto(t, "read")
    /\ UNCHANGED <<dir, data, kept, req, fd, done, out>>

\* stat() goes by name, not by iFileFd
Stat(t) ==
    /\ pc[t] = "stat" /\ dir[req[t].name] # NoFile
    /\ LET size == Len(data[dir[req[t].name]])
       IN /\ need' = [need EXCEPT ![t] = size]
          /\ buf' = [buf EXCEPT ![t] = [k \in 1..size |-> Junk]]
    /\ Goto(t, "read")
    /\ UNCHANGED <<dir, data, kept, req, fd, done, out>>

\* The name is gone, or malloc() cannot have that much.
StatFails(t) ==
    /\ pc[t] = "stat"
    /\ dir[req[t].name] = NoFile \/ "read" \in Faults
    /\ Ends(t, Store!Failed)

Left(t) == Len(data[fd[t]]) - done[t]
Wanted(t) == need[t] - done[t]

\* One read() of DataDeal_fileRead, always to the start of the buffer.
Read(t) ==
    /\ pc[t] = "read" /\ Wanted(t) > 0 /\ Left(t) > 0
    /\ \E k \in Moves(IF Wanted(t) < Left(t) THEN Wanted(t) ELSE Left(t)) :
         /\ buf' = [buf EXCEPT ![t] =
                      Overlay(@, 0, SubSeq(data[fd[t]], done[t] + 1, done[t] + k))]
         /\ done' = [done EXCEPT ![t] = @ + k]
    /\ UNCHANGED <<dir, data, kept, pc, req, fd, need, out>>

\* At the end of the file read() returns 0, and the loop calls it again.
ReadsNothing(t) ==
    /\ pc[t] = "read" /\ Wanted(t) > 0 /\ Left(t) <= 0
    /\ UNCHANGED vars

ReadFails(t) ==
    /\ pc[t] = "read" /\ Wanted(t) > 0 /\ "read" \in Faults
    /\ Ends(t, Store!Failed)

\* The loop of fileRead has ended, so the size check after it passes.
Reply(t) ==
    /\ pc[t] = "read" /\ Wanted(t) = 0
    /\ Ends(t, Store!Data(buf[t]))

GetFile(t) == \/ OpenRead(t) \/ OpenReadFails(t)
              \/ Stat(t) \/ StatFails(t)
              \/ Read(t) \/ ReadsNothing(t) \/ ReadFails(t) \/ Reply(t)

-----------------------------------------------------------------------------
\* The server ends (a signal, or main() returns) and is started again.
Crash ==
    /\ "crash" \in Faults
    /\ pc' = [t \in Threads |-> "idle"]
    /\ req' = [t \in Threads |-> NoRequest]
    /\ out' = [t \in Threads |-> Store!NoOutcome]
    /\ fd' = [t \in Threads |-> NoFile]
    /\ need' = [t \in Threads |-> 0]
    /\ done' = [t \in Threads |-> 0]
    /\ buf' = [t \in Threads |-> <<>>]
    /\ kept' = [n \in Names |-> Content(n)]
    /\ UNCHANGED <<dir, data>>

Init ==
    /\ dir = [n \in Names |-> NoFile]
    /\ data = [i \in Inodes |-> <<>>]
    /\ kept = [n \in Names |-> NoFile]
    /\ pc = [t \in Threads |-> "idle"]
    /\ req = [t \in Threads |-> NoRequest]
    /\ fd = [t \in Threads |-> NoFile]
    /\ need = [t \in Threads |-> 0]
    /\ done = [t \in Threads |-> 0]
    /\ buf = [t \in Threads |-> <<>>]
    /\ out = [t \in Threads |-> Store!NoOutcome]

Handler(t) == SetFile(t) \/ GetFile(t)
Next == (\E t \in Threads : StartRequest(t) \/ Handler(t)) \/ Crash

Spec == Init /\ [][Next]_vars
\* The kernel schedules every thread, and calls on regular files return.  That
\* read() fails is nothing a download at the end of its file can count on.
FairSpec == Spec /\ \A t \in Threads : WF_vars(Handler(t) /\ ~ReadFails(t))

-----------------------------------------------------------------------------
TypeOK ==
    /\ dir \in [Names -> Inodes \cup {NoFile}]
    /\ data \in [Inodes -> Seq(Cells)]
    /\ pc \in [Threads -> Pcs]
    /\ req \in [Threads -> Requests \cup {NoRequest}]
    /\ \A t \in Threads : pc[t] = "idle" <=> req[t] = NoRequest
    /\ fd \in [Threads -> Inodes \cup {NoFile}]
    /\ \A t \in Threads : pc[t] \in {"write", "stat", "read"} <=> fd[t] # NoFile
    /\ need \in [Threads -> Nat]
    /\ done \in [Threads -> Nat]
    /\ buf \in [Threads -> Seq(Cells)]

\* Clients that leave a file alone while it is being uploaded see files that
\* change at once, whichever calls fail or move less than was asked, and whenever
\* the server ends: the calls implement the abstract store.  Files are whole as
\* long as no call falls short: behind one, an upload's bytes may be in any order
\* (and OK is returned all the same), and a download may have fresh memory in it.
Atomic == Store!Spec

\* Whatever the clients do: a file to which nobody is uploading is one whole
\* upload to that name, although uploads remove each other's files (the loop
\* around open(O_EXCL) and remove in DataDeal_setFile).
WholeWhenQuiet ==
    \A n \in Names :
        \/ dir[n] = NoFile
        \/ \E t \in Threads : req[t] # NoRequest /\ req[t].op = "SET" /\ req[t].name = n
        \/ \E v \in Blobs : data[dir[n]] = Bytes(n, v)

IsStart(s, whole) == Len(s) <= Len(whole) /\ \A k \in 1..Len(s) : s[k] = whole[k]

\* Whatever the clients do: the bytes a download returns are the start of one
\* upload to the name that was asked for, never a mixture of two versions, of
\* two names, or of file and fresh memory (DataDeal_getFile takes the bytes from
\* iFileFd and their number from stat() of the name).
GetReturnsOneUpload ==
    [][\A t \in Threads :
         out'[t] # out[t] /\ out'[t].kind = "data" =>
             \E v \in Blobs : IsStart(out'[t].bytes, Bytes(req[t].name, v))]_vars

\* "return: success return FILEDATA_DEAL_RET_OK and fail return
\* FILEDATA_DEAL_RET_FAIL" (DataDeal_setFile): an upload that returns OK has
\* written its contents to a file that it opened.
OkMeansStored ==
    [][\A t \in Threads :
         out'[t] # out[t] /\ out'[t].kind = "ok" =>
             /\ fd[t] # NoFile
             /\ data[fd[t]] = Bytes(req[t].name, req[t].blob)]_vars

\* Every request ends, however the calls fail, as long as clients leave a file
\* alone while it is being uploaded (the loops of DataDeal_setFile,
\* DataDeal_fileWrite and DataDeal_fileRead).
RequestsEnd == \A t \in Threads : pc[t] # "idle" ~> pc[t] = "idle"
=============================================================================
