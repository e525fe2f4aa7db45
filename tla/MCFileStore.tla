---------------------------- MODULE MCFileStore ----------------------------
(***************************************************************************)
(* Instances of FileStore for TLC.                                         *)
(***************************************************************************)
EXTENDS FileStore, TLC

CONSTANTS short, long   \* two contents, so that either can replace the other

\* one byte and two: the tail of the longer one can show behind the shorter
Sizes == (short :> 1) @@ (long :> 2)
NoFaults == {}
CallsFail == {"open", "remove", "write", "read", "short", "crash"}

Symmetry == Permutations(Threads) \cup Permutations(Inodes)
            \cup Permutations(Names)
=============================================================================
