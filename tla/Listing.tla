------------------------------- MODULE Listing -------------------------------
(***************************************************************************)
(* A LIST on the server: DataDeal_fileListDeal() walks the directory tree, *)
(* one recursive call per directory, and sends a record for every file,    *)
(* while uploads in other threads remove and create files.  Afterwards     *)
(* DataDeal_listFile() sends the end mark; a failure closes the connection *)
(* instead.                                                                *)
(*                                                                         *)
(* A path is the sequence of the names in it, starting below ".".  The     *)
(* program makes and removes no directories, and links are left out.       *)
(***************************************************************************)
EXTENDS Integers, Sequences

CONSTANTS Segs,        \* names in paths
          Files,       \* paths that are a file, or would be if it existed
          Dirs,        \* paths that are a directory
          MaxOpen,     \* directories the process can have open
          MaxListings, \* bound: listings
          MaxChurn,    \* bound: files removed and created
          Faults       \* which calls may fail

Parent(p) == SubSeq(p, 1, Len(p) - 1)
Name(p) == p[Len(p)]

ASSUME ListingAssumption ==
    /\ Files \subseteq Seq(Segs) /\ Dirs \subseteq Seq(Segs)
    /\ Files \cap Dirs = {} /\ <<>> \in Dirs
    /\ \A p \in Files \cup Dirs : \A n \in 0 .. Len(p) - 1 : SubSeq(p, 1, n) \in Dirs
    /\ MaxOpen \in Nat /\ MaxListings \in Nat /\ MaxChurn \in Nat
    /\ Faults \subseteq {"opendir", "readdir", "send"}

VARIABLES pc,       \* where the handler is
          path,     \* pcFileName of a new call, otherwise cFileNameBuf
          stack,    \* the calls of DataDeal_fileListDeal, and their p_mydir
          opened,   \* directories the process has open
          sent,     \* file -> how many records of it went out
          present,  \* the files there are
          listings, churn, \* how many there were
          steady,   \* history: the files that were there all through this listing
          trouble,  \* history: what happened during this listing
          lost      \* history: directories that failed listings left open

vars == <<pc, path, stack, opened, sent, present, listings, churn, steady, trouble, lost>>
world == <<present, churn, steady>>
history == <<trouble, lost>>

Pcs == {"idle", "open", "read", "stat", "send", "end", "done", "failed"}
Troubles == {"removed", "full", "fault", "cut"}

\* readdir() returns what was there all the time (must) once, and what came or
\* went since opendir() (may) once more or not at all
Frame == [dir : Dirs, must : SUBSET Segs, may : SUBSET Segs]
Top == stack[Len(stack)]
Children(d) == {s \in Segs : Append(d, s) \in Dirs \cup present}

-----------------------------------------------------------------------------
(* DataDeal_fileListDeal.  No return behind opendir() closes the directory  *)
(* but the last, which is none: behind closedir() the function ends, and    *)
(* its caller gets the 0 that closedir() returned.                          *)

Start == /\ pc \in {"idle", "done", "failed"} /\ listings < MaxListings
         /\ pc' = "open" /\ path' = <<>>
         /\ listings' = listings + 1
         /\ sent' = [f \in Files |-> 0]
         /\ steady' = present /\ trouble' = {}
         /\ UNCHANGED <<stack, opened, present, churn, lost>>

\* every caller hands the failure on; the thread closes the connection
Fail(why) == /\ pc' = "failed"
             /\ stack' = <<>>
             /\ trouble' = trouble \cup why
             /\ lost' = lost + Len(stack)
             /\ UNCHANGED <<path, opened, sent, listings, world>>

\* (a broken Opendir: it always succeeds)
X_OpendirAlways ==
    /\ pc = "open"
    /\ opened' = opened + 1
    /\ stack' = Append(stack, [dir |-> path, must |-> Children(path), may |-> {}])
    /\ pc' = "read"
    /\ UNCHANGED <<path, sent, listings, world, history>>
Opendir == /\ pc = "open" /\ opened < MaxOpen
           /\ opened' = opened + 1
           /\ stack' = Append(stack, [dir |-> path, must |-> Children(path), may |-> {}])
           /\ pc' = "read"
           /\ UNCHANGED <<path, sent, listings, world, history>>

OpendirFails == /\ pc = "open"
                /\ \/ opened = MaxOpen /\ Fail({"full"})
                   \/ "opendir" \in Faults /\ Fail({"fault"})

Taken(s) == [Top EXCEPT !.must = @ \ {s}, !.may = @ \ {s}]

\* (a broken Readdir: the name without the directory it is in)
X_ReaddirName ==
    /\ pc = "read"
    /\ \E s \in Top.must \cup Top.may :
         /\ path' = <<s>>
         /\ stack' = [stack EXCEPT ![Len(stack)] = Taken(s)]
    /\ pc' = "stat"
    /\ UNCHANGED <<opened, sent, listings, world, history>>
Readdir == /\ pc = "read"
           /\ \E s \in Top.must \cup Top.may :
                /\ path' = Append(Top.dir, s)
                /\ stack' = [stack EXCEPT ![Len(stack)] = Taken(s)]
           /\ pc' = "stat"
           /\ UNCHANGED <<opened, sent, listings, world, history>>

\* by name, so that a file may be gone by then
Stat == /\ pc = "stat"
        /\ \/ path \in Dirs /\ pc' = "open"
           \/ path \in present /\ pc' = "send"
        /\ UNCHANGED <<path, stack, opened, sent, listings, world, history>>

\* (a broken StatFails: it asks again until the file is back)
X_StatFailsAgain == /\ pc = "stat" /\ path \notin Dirs \cup present
                    /\ UNCHANGED vars
StatFails == /\ pc = "stat" /\ path \notin Dirs \cup present
             /\ Fail({})

Send == /\ pc = "send"
        /\ sent' = [sent EXCEPT ![path] = @ + 1]
        /\ pc' = "read"
        /\ UNCHANGED <<path, stack, opened, listings, world, history>>

SendFails == pc \in {"send", "end"} /\ "send" \in Faults /\ Fail({"fault"})

Leave == /\ stack' = SubSeq(stack, 1, Len(stack) - 1)
         /\ pc' = IF Len(stack) = 1 THEN "end" ELSE "read"

\* (a broken Closedir: the call goes, and the directory stays open)
X_ClosedirMissing == /\ pc = "read" /\ Top.must = {}
                     /\ Leave
                     /\ UNCHANGED <<path, opened, sent, listings, world, history>>
\* (a broken Closedir: all calls go)
X_ClosedirAll == /\ pc = "read" /\ Top.must = {}
                 /\ stack' = <<>> /\ pc' = "end"
                 /\ opened' = opened - Len(stack)
                 /\ UNCHANGED <<path, sent, listings, world, history>>
Closedir == /\ pc = "read" /\ Top.must = {}
            /\ opened' = opened - 1
            /\ Leave
            /\ UNCHANGED <<path, sent, listings, world, history>>

\* an error of readdir() looks like the end of the directory
ReaddirFails == /\ pc = "read" /\ "readdir" \in Faults
                /\ opened' = opened - 1
                /\ trouble' = trouble \cup {"cut"}
                /\ Leave
                /\ UNCHANGED <<path, sent, listings, world, lost>>

\* the rest of DataDeal_listFile
SendEnd == /\ pc = "end"
           /\ pc' = "done"
           /\ UNCHANGED <<path, stack, opened, sent, listings, world, history>>

Walk == \/ Opendir \/ OpendirFails \/ Readdir \/ ReaddirFails \/ Stat \/ StatFails
        \/ Send \/ SendFails \/ Closedir \/ SendEnd

-----------------------------------------------------------------------------
(* The uploads of other threads: remove() and open(O_CREAT) of             *)
(* DataDeal_setFile, as far as a listing can see them.                      *)

\* what a directory that is being read makes of a change to f
Noticed(f) == [i \in 1..Len(stack) |->
                 IF stack[i].dir = Parent(f)
                 THEN [stack[i] EXCEPT !.must = @ \ {Name(f)}, !.may = @ \cup {Name(f)}]
                 ELSE stack[i]]

Remove(f) == /\ f \in present /\ churn < MaxChurn
             /\ present' = present \ {f}
             /\ steady' = steady \ {f}
             /\ trouble' = trouble \cup {"removed"}
             /\ churn' = churn + 1
             /\ stack' = Noticed(f)
             /\ UNCHANGED <<pc, path, opened, sent, listings, lost>>

Create(f) == /\ f \notin present /\ churn < MaxChurn
             /\ present' = present \cup {f}
             /\ churn' = churn + 1
             /\ stack' = Noticed(f)
             /\ UNCHANGED <<pc, path, opened, sent, listings, steady, history>>

-----------------------------------------------------------------------------
Init == /\ pc = "idle" /\ path = <<>> /\ stack = <<>> /\ opened = 0
        /\ sent = [f \in Files |-> 0]
        /\ present \in SUBSET Files
        /\ listings = 0 /\ churn = 0
        /\ steady = {} /\ trouble = {} /\ lost = 0

Next == Start \/ Walk \/ \E f \in Files : Remove(f) \/ Create(f)

\* the thread runs; nobody has to ask for a listing or to upload anything
Spec == Init /\ [][Next]_vars /\ WF_vars(Walk)

-----------------------------------------------------------------------------
(* Properties.                                                             *)

\* Every variable keeps its type; the process has no more directories open than
\* it can, the failed listings' included.
TypeOK ==
    /\ pc \in Pcs
    /\ path \in Seq(Segs)
    /\ stack \in Seq(Frame)
    /\ opened \in 0..MaxOpen
    /\ sent \in [Files -> Nat]
    /\ present \in SUBSET Files
    /\ listings \in 0..MaxListings /\ churn \in 0..MaxChurn
    /\ steady \in SUBSET present
    /\ trouble \in SUBSET Troubles /\ lost \in Nat

\* A listing that ends with its mark has named every file that was there all the
\* time once, in whatever directory it is, whatever was removed and created
\* meanwhile, unless readdir() failed, which the code does not tell from the end.
CompleteAtEnd ==
    pc = "done" /\ "cut" \notin trouble => \A f \in steady : sent[f] = 1

\* A listing that is cut off, and the connection with it, met a file that was
\* removed while it ran, a call that failed, or the limit of open directories.
FailsForReason == pc = "failed" => trouble \cap {"removed", "full", "fault"} # {}

\* Only failures leave directories open: what is open is what the calls in
\* progress opened, and what listings that failed did not close.
OnlyFailuresLeak == opened = Len(stack) + lost

\* A listing comes to its end or fails, if the directory ever stops changing.
ListingEnds == pc = "open" ~> pc \in {"done", "failed"}

=============================================================================
