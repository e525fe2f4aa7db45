----------------------------- MODULE MCFileClient -----------------------------
(* FileClient for TLC: one name that has a file and one that may get one.      *)
EXTENDS FileClient, TLC

CONSTANTS a, b          \* names
CONSTANTS plain, binary, large, remote \* files: text, one with a NUL in it, one
                                       \* beyond the TLV buffer, the server's

MCOriginal == (plain :> [name |-> a, size |-> 1, text |-> 1])
              @@ (binary :> [name |-> a, size |-> 2, text |-> 1])
              @@ (large :> [name |-> a, size |-> 4, text |-> 4])
              @@ (remote :> [name |-> b, size |-> 2, text |-> 2])
Written(c) == [of |-> c, size |-> Original[c].size, tail |-> "own", via |-> {}]
MCDisk == {[n \in Names |-> IF n = a THEN Written(c) ELSE Absent] : c \in {plain, binary, large}}
MCStore == {[n \in Names |-> IF n = b THEN Written(remote) ELSE Absent]}
\* the numbers of the menus, one out of range, one that wraps, an empty line and no number
MCLines == {<<1>>, <<2>>, <<3>>, <<4>>, <<5>>, <<1, 2>>, <<1, 7>>, <<>>, <<Other>>}
AllFaults == {"connect", "io", "remove", "server", "cut"}
=============================================================================
