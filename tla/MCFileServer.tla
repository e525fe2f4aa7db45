---------------------------- MODULE MCFileServer ----------------------------
(***************************************************************************)
(* Instances of FileServer for TLC.  A payload is one cell or two, so that *)
(* it can arrive in one recv() or in two; EXIT has none.                   *)
(***************************************************************************)
EXTENDS FileServer, TLC

Request(m, c, n) == [mod |-> m, cmd |-> c, dlen |-> n]

\* every codec and every command
AllRequests == {Request(m, c, 1) : m \in Mods, c \in {"GET", "LIST"}}
               \cup {Request(m, "SET", 2) : m \in Mods}
               \cup {Request("PROTO", "EXIT", 0)}
\* every command, and every codec, where the handlers leave nothing open when all
\* goes well
TidyRequests == {Request("PROTO", "GET", 1), Request("JSON", "LIST", 1),
                 Request("TLV", "SET", 2), Request("JSON", "SET", 2),
                 Request("PROTO", "EXIT", 0)}
\* every command, and every codec where the handlers differ
CoreRequests == {Request("PROTO", "GET", 1), Request("JSON", "GET", 1),
                 Request("TLV", "SET", 2), Request("JSON", "SET", 2),
                 Request("JSON", "LIST", 1),
                 Request("PROTO", "EXIT", 0)}
\* a short and a long request of two codecs, for clients at the same time
MixedRequests == {Request("PROTO", "GET", 1), Request("TLV", "SET", 2)}
OneGet == {Request("PROTO", "GET", 1)}
TlvGet == {Request("TLV", "GET", 1)}

OneReply == {3}
TwoReplies == {2, 3}
AllDepartures == {"closed", "reset"}
Closing == {"closed"}
Resetting == {"reset"}
AllFaults == {"spawn", "open", "io", "shrink"}
LiveFaults == {"spawn", "open", "io"}
None == {}
Everywhere == 1 .. HdrWords - 1
\* in 12 and 8 bytes, or in 16 and 4: the cuts after which there may still be a version
Behind == {3, 4}

Symmetry == Permutations(Clients)

\* Clients that are numbers connect in their order: any other order is the same but
\* for their names.  (Symmetry is not sound for liveness.)
InOrder == \A c, d \in Clients : c < d /\ cl[d] # "off" => cl[c] # "off"
FairSpecInOrder == Init /\ [][Next /\ InOrder']_vars /\ Fairness
=============================================================================
