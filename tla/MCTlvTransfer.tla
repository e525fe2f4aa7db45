---------------------------- MODULE MCTlvTransfer ----------------------------
(* TlvTransfer for TLC: contents that look like nodes, and contents of and   *)
(* around the size for which the buffer has room.                            *)
EXTENDS TlvTransfer

FieldOf(w) == [k \in 1..3 |-> IF k = 1 THEN w ELSE 0]
MCCommands == {FieldOf(TLV_FILE_SIZE)}
MCNames == {FieldOf(TLV_FILE_ROOT)}
MCContents == UNION {[1..n -> {0, TLV_FILE_ROOT, TLV_FILE_NAME, 4}] : n \in 0..3}
              \cup {[k \in 1..n |-> TLV_FILE_SIZE] : n \in 4..11}
=============================================================================
