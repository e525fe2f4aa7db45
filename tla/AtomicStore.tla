----------------------------- MODULE AtomicStore -----------------------------
(***************************************************************************)
(* What the file store of the server promises clients that do not touch a  *)
(* file while it is being uploaded: a directory of files, where an upload  *)
(* replaces a file at once, a download returns the file as it is, and an   *)
(* upload that fails, or that the end of the server cuts short, changes no *)
(* file but its own.  An old file that cannot be removed stays, though the *)
(* upload reports that it went well.  Where a call may move less than was  *)
(* asked, less is promised: an upload writes bytes of its own in any order *)
(* and number, and a download returns the file's own or fresh memory.      *)
(***************************************************************************)
EXTENDS Naturals, Sequences

CONSTANTS Threads,    \* server threads, each with at most one request
          Names,      \* file names
          Blobs,      \* contents that are uploaded
          Size,       \* blob -> its size in bytes
          NoFile,     \* what the directory holds for a name without a file
          NoRequest,  \* the request of a thread that has none
          Junk,       \* a byte of fresh memory
          Short,      \* a call may move less than was asked
          Refusing    \* a file that is there may not be removable

\* the bytes of an upload, each with where it comes from
Bytes(n, v) == [i \in 1..Size[v] |-> <<n, v, i>>]
Requests == [op : {"SET"}, name : Names, blob : Blobs] \cup [op : {"GET"}, name : Names]

NoOutcome == [kind |-> "none"]
Ok == [kind |-> "ok"]
Failed == [kind |-> "fail"]
Data(bytes) == [kind |-> "data", bytes |-> bytes]

VARIABLES store,  \* name -> the bytes of its file, or NoFile
          req,    \* thread -> the request it works on, or NoRequest
          out     \* thread -> the outcome of its last request

storeVars == <<store, req, out>>

Busy(t) == req[t] # NoRequest
Uploads(t) == Busy(t) /\ req[t].op = "SET"
Downloads(t) == Busy(t) /\ req[t].op = "GET"

\* the file that an upload of v to n makes, and what it may have made of it
\* before its end
Own(n, v) == {Bytes(n, v)[i] : i \in 1..Size[v]}
Made(n, v) == IF Short THEN [1..Size[v] -> Own(n, v)] ELSE {Bytes(n, v)}
Begun(n, v) == {<<>>} \cup IF Short THEN UNION {[1..k -> Own(n, v)] : k \in 1..Size[v]} ELSE {}

\* what an upload of v to n that did not end well may leave of the file
Leftovers(n, v) == {store[n], NoFile} \cup Begun(n, v)

\* what a download of file may return
Given(file) == IF Short THEN [DOMAIN file -> {file[i] : i \in DOMAIN file} \cup {Junk}] ELSE {file}

StartRequest(t) ==
    /\ ~Busy(t)
    /\ \E r \in Requests : req' = [req EXCEPT ![t] = r]
    /\ out' = [out EXCEPT ![t] = NoOutcome]
    /\ UNCHANGED store

Ends(t, outcome) ==
    /\ req' = [req EXCEPT ![t] = NoRequest]
    /\ out' = [out EXCEPT ![t] = outcome]

Put(t) ==
    /\ Uploads(t)
    /\ Ends(t, Ok)
    /\ \E file \in Made(req[t].name, req[t].blob) :
         store' = [store EXCEPT ![req[t].name] = file]

PutRefused(t) ==
    /\ Refusing
    /\ Uploads(t)
    /\ store[req[t].name] # NoFile
    /\ Ends(t, Ok)
    /\ UNCHANGED store

PutFails(t) ==
    /\ Uploads(t)
    /\ Ends(t, Failed)
    /\ \E left \in Leftovers(req[t].name, req[t].blob) :
         store' = [store EXCEPT ![req[t].name] = left]

Get(t) ==
    /\ Downloads(t)
    /\ store[req[t].name] # NoFile
    /\ \E bytes \in Given(store[req[t].name]) : Ends(t, Data(bytes))
    /\ UNCHANGED store

GetFails(t) ==
    /\ Downloads(t)
    /\ Ends(t, Failed)
    /\ UNCHANGED store

\* what the end of the server may leave of the file n
AfterCrash(n) ==
    {store[n]} \cup UNION {Leftovers(n, req[t].blob) \cup Made(n, req[t].blob) :
                             t \in {u \in Threads : Uploads(u) /\ req[u].name = n}}

\* the server ends and is started again
Restart ==
    /\ store' \in [Names -> UNION {AfterCrash(n) : n \in Names}]
    /\ \A n \in Names : store'[n] \in AfterCrash(n)
    /\ req' = [t \in Threads |-> NoRequest]
    /\ out' = [t \in Threads |-> NoOutcome]

Init ==
    /\ store = [n \in Names |-> NoFile]
    /\ req = [t \in Threads |-> NoRequest]
    /\ out = [t \in Threads |-> NoOutcome]

Next ==
    \/ \E t \in Threads : \/ StartRequest(t)
                          \/ Put(t) \/ PutRefused(t) \/ PutFails(t)
                          \/ Get(t) \/ GetFails(t)
    \/ Restart

Spec == Init /\ [][Next]_storeVars
=============================================================================
