----------------------------- MODULE FileExchange -----------------------------
(***************************************************************************)
(* What a user of one client may rely on: two sets of files, and requests  *)
(* that copy a file from one to the other at once.  They are carried out   *)
(* in the order they were made, each at most once, with the file as it is  *)
(* then; and as long as client and server are up, none is left out but one *)
(* whose target could not be removed.  Nothing is promised any more once a *)
(* message was received in pieces.                                         *)
(***************************************************************************)
EXTENDS Naturals

CONSTANTS Names,      \* file names
          Files,      \* sets of files: name -> file, or Absent
          Absent,     \* what is under a name that has no file
          Codecs,
          Copy(_, _), \* codec, file -> the file that the codec makes of it
          Torn        \* what a copy that broke off may leave

VARIABLES disk,  \* the client's files
          store, \* the server's files
          asked, \* requests that were made and are still to be carried out
          up,    \* whether client and server are both there
          whole  \* whether every message so far was received in one piece

exchangeVars == <<disk, store, asked, up, whole>>

Requests == [id : Nat, op : {"SET", "GET"}, name : Names, codec : Codecs]
Uploads(requests) == {r \in requests : r.op = "SET"}

Earliest(r) == \A q \in asked : r.id <= q.id

\* the user makes a request; a file to be uploaded is there
Ask(r) ==
    /\ r \in Requests
    /\ \A q \in asked : q.id < r.id
    /\ r.op = "SET" => disk[r.name] # Absent
    /\ asked' = asked \cup {r}
    /\ UNCHANGED <<disk, store, up>>

Upload(r) ==
    /\ Earliest(r) /\ r.op = "SET"
    /\ disk[r.name] # Absent
    /\ store' = [store EXCEPT ![r.name] = Copy(r.codec, disk[r.name])]
    /\ asked' = asked \ {r}
    /\ UNCHANGED <<disk, up>>

Download(r) ==
    /\ Earliest(r) /\ r.op = "GET"
    /\ store[r.name] # Absent
    /\ disk' = [disk EXCEPT ![r.name] = Copy(r.codec, store[r.name])]
    /\ asked' = asked \ {r}
    /\ UNCHANGED <<store, up>>

Target(r) == IF r.op = "SET" THEN store ELSE disk

\* the old file cannot be removed: it stays, and nobody is told
Refuse(r) ==
    /\ Earliest(r)
    /\ Target(r)[r.name] # Absent
    /\ asked' = asked \ {r}
    /\ UNCHANGED <<disk, store, up>>

\* the end of client or server: of the others, uploads are lost together
Down(others) ==
    /\ ~up'
    /\ asked' \subseteq others
    /\ Uploads(others) \subseteq asked' \/ Uploads(asked') = {}

\* what becomes of files when the copy to r's name breaks off
Broken(files, r) == {[files EXCEPT ![r.name] = f] : f \in {files[r.name], Absent, Torn}}

Break(r) ==
    /\ Earliest(r)
    /\ IF r.op = "SET" THEN store' \in Broken(store, r) /\ UNCHANGED disk
                       ELSE disk' \in Broken(disk, r) /\ UNCHANGED store
    /\ Down(asked \ {r})

Lose == Down(asked) /\ UNCHANGED <<disk, store>>

Init == disk \in Files /\ store \in Files /\ asked = {} /\ up = TRUE /\ whole = TRUE

Promised == \/ \E r \in asked' : Ask(r)
            \/ \E r \in asked : Upload(r) \/ Download(r) \/ Refuse(r) \/ Break(r)
            \/ Lose

Next == \/ whole /\ Promised /\ UNCHANGED whole
        \/ whole' = FALSE

Spec == Init /\ [][Next]_exchangeVars
===============================================================================
