----------------------------- MODULE TlvTransfer -----------------------------
(***************************************************************************)
(* One TLV message on its way: tlvEncodeFile() writes it node by node into *)
(* a buffer, recv() brings it over in pieces, and tlvDecodeFile() takes it *)
(* apart.  FileServerTlv.c and FileClientTlv.c are the same functions.     *)
(*                                                                         *)
(* Everything is counted in words of four bytes: a command or a name has   *)
(* three, a type or a length one, and a file a whole number of them.       *)
(***************************************************************************)
EXTENDS Integers, Sequences

CONSTANTS BufWords,   \* words of cPackBuf[BUFSIZE], at both ends
          Wrap,       \* 2^30: where a length, counted in words, wraps
          Commands,   \* command fields, three words each
          Names,      \* name fields, three words each
          Contents,   \* files
          MaxPieces   \* bound: in how many pieces recv() may return a message

Word == 0 .. Wrap - 1
Field == [1..3 -> Word]
HeadWords == 17       \* a message around its content

ASSUME TlvAssumption ==
    /\ BufWords \in Nat /\ BufWords >= HeadWords
    /\ Wrap \in Nat /\ Wrap > BufWords
    /\ MaxPieces \in Nat \ {0}
    /\ Commands \subseteq Field
    /\ Names \subseteq Field
    /\ Contents \subseteq Seq(Word)
    /\ \A c \in Contents : HeadWords + Len(c) < Wrap

TLV_FILE_ROOT == 1
TLV_FILE_CMD == 2
TLV_FILE_NAME == 3
TLV_FILE_CONTENT == 4
TLV_FILE_SIZE == 5

VARIABLES phase,  \* what is to be done next, or how it ended
          file,   \* the FileData_S that is sent
          sent,   \* the sender's cPackBuf
          wr,     \* pcWriteData, in words from the start of sent
          got,    \* the receiver's cPackBuf
          total,  \* iTotalRecvBytes, in words
          pieces, \* history: in how many pieces the message came
          rd,     \* pcReadData, in words from the start of got
          left,   \* uiTlvLenSum
          out     \* the receiver's FileData_S

vars == <<phase, file, sent, wr, got, total, pieces, rd, left, out>>
encoding == <<file, sent, wr>>
receiving == <<got, total, pieces>>
decoding == <<rd, left, out>>

Encoding == {"root", "cmd", "name", "content", "size"}
\* "overrun": a write behind a buffer; "outside": a read behind one.  Both are
\* undefined, and the model stops there.
Ends == {"decoded", "rejected", "overrun", "outside"}
Phases == Encoding \cup {"recv", "type", "nodes"} \cup Ends

Memory == [1..BufWords -> Word]
Zeros == [k \in 1..BufWords |-> 0]
NoField == [k \in 1..3 |-> 0]
Size == Len(file.content)

\* unsigned arithmetic
Plus(a, b) == IF a + b < Wrap THEN a + b ELSE a + b - Wrap
\* (a broken Minus: with signed lengths)
X_MinusSigned(a, b) == a - b
Minus(a, b) == IF a >= b THEN a - b ELSE a - b + Wrap

-----------------------------------------------------------------------------
(* tlvEncodeFile.  The results of writeInt and writeBlock, which would tell *)
(* that the buffer is full, are not looked at.                              *)

Write(type, len, value) ==
    /\ sent' = [k \in 1..BufWords |->
                  CASE k = wr + 1 -> type
                    [] k = wr + 2 -> len
                    [] wr + 2 < k /\ k <= wr + 2 + Len(value) -> value[k - wr - 2]
                    [] OTHER -> sent[k]]
    /\ wr' = wr + 2 + Len(value)

WriteNode(next, type, len, value) ==
    /\ wr + 2 + Len(value) <= BufWords
    /\ Write(type, len, value)
    /\ phase' = next
    /\ UNCHANGED <<file, receiving, decoding>>

\* (a broken WriteRoot: it counts the nodes' values, and not their headers)
X_WriteRootShort == /\ phase = "root"
                    /\ WriteNode("cmd", TLV_FILE_ROOT, 7 + Size, <<>>)
WriteRoot == /\ phase = "root"
             /\ WriteNode("cmd", TLV_FILE_ROOT, 15 + Size, <<>>)
WriteCmd == phase = "cmd" /\ WriteNode("name", TLV_FILE_CMD, 3, file.cmd)
WriteName == phase = "name" /\ WriteNode("content", TLV_FILE_NAME, 3, file.name)
WriteContent == /\ phase = "content"
                /\ WriteNode("size", TLV_FILE_CONTENT, Size, file.content)
WriteSize == phase = "size" /\ WriteNode("recv", TLV_FILE_SIZE, 1, <<Size>>)

WriteBehind == /\ \/ phase = "content" /\ wr + 2 + Size > BufWords
                  \/ phase = "size" /\ wr + 3 > BufWords
               /\ phase' = "overrun"
               /\ UNCHANGED <<encoding, receiving, decoding>>

tlvEncodeFile == \/ WriteRoot \/ WriteCmd \/ WriteName \/ WriteContent \/ WriteSize
                 \/ WriteBehind

-----------------------------------------------------------------------------
(* Server_recvData and Client_recvData: every piece goes to pBuf, which is  *)
(* never advanced.                                                          *)

Recv == /\ phase = "recv"
        /\ \E n \in 1 .. wr - total :
             /\ pieces + 1 = MaxPieces => n = wr - total
             /\ got' = [k \in 1..BufWords |-> IF k <= n THEN sent[total + k] ELSE got[k]]
             /\ total' = total + n
             /\ pieces' = pieces + 1
             /\ phase' = IF total + n = wr THEN "type" ELSE "recv"
        /\ UNCHANGED <<encoding, decoding>>

-----------------------------------------------------------------------------
(* tlvDecodeFile.  Here too the results of readInt and readBlock are not    *)
(* looked at.                                                               *)

ReadRoot == /\ phase = "type"
            /\ \/ got[1] # TLV_FILE_ROOT /\ phase' = "rejected" /\ UNCHANGED <<rd, left>>
               \/ got[1] = TLV_FILE_ROOT /\ phase' = "nodes" /\ rd' = 2 /\ left' = got[2]
            /\ UNCHANGED <<encoding, receiving, out>>

InBuffer(n) == rd + n <= BufWords
Type == got[rd + 1]
Length == got[rd + 2]

\* the first n words behind the node's header, over what is in old
Copy(old, n) == [k \in 1..Len(old) |-> IF k <= n THEN got[rd + 2 + k] ELSE old[k]]

\* (a broken Pass: the node's own header is not taken off)
X_PassValue(n) == rd' = rd + 2 + n /\ left' = Minus(left, Length)
Pass(n) == rd' = rd + 2 + n /\ left' = Minus(left, Plus(2, Length))

AtNode == phase = "nodes" /\ left > 0 /\ InBuffer(2)

ReadField == /\ AtNode /\ Type \in {TLV_FILE_CMD, TLV_FILE_NAME}
             /\ Length <= 3 /\ InBuffer(2 + Length)
             /\ out' = IF Type = TLV_FILE_CMD
                       THEN [out EXCEPT !.cmd = Copy(@, Length)]
                       ELSE [out EXCEPT !.name = Copy(@, Length)]
             /\ Pass(Length)
             /\ UNCHANGED <<phase, encoding, receiving>>

\* m_pcFileContent has m_uiDataLen bytes
ReadContent == /\ AtNode /\ Type = TLV_FILE_CONTENT
               /\ Length <= wr /\ InBuffer(2 + Length)
               /\ out' = [out EXCEPT !.content = [k \in 1..Length |-> got[rd + 2 + k]]]
               /\ Pass(Length)
               /\ UNCHANGED <<phase, encoding, receiving>>

\* reads one word, whatever length the node claims
ReadSize == /\ AtNode /\ Type = TLV_FILE_SIZE /\ InBuffer(3)
            /\ out' = [out EXCEPT !.size = got[rd + 3]]
            /\ Pass(1)
            /\ UNCHANGED <<phase, encoding, receiving>>

Known == TLV_FILE_CMD .. TLV_FILE_SIZE

\* (a broken ReadUnknown: it goes back to try again)
X_ReadUnknownAgain == /\ AtNode /\ Type \notin Known
                      /\ UNCHANGED vars
\* an unknown type is skipped, and uiTlvLenSum stays as it is
ReadUnknown == /\ AtNode /\ Type \notin Known
               /\ rd' = rd + 2
               /\ UNCHANGED <<phase, encoding, receiving, left, out>>

\* how much of got is taken for the node's value
Takes == IF Type = TLV_FILE_SIZE THEN 1 ELSE IF Type \in Known THEN Length ELSE 0
Missing == IF InBuffer(2) THEN ~InBuffer(2 + Takes) ELSE TRUE
\* what readBlock is asked to copy does not fit where it goes
TooLong == \/ Type \in {TLV_FILE_CMD, TLV_FILE_NAME} /\ Length > 3
           \/ Type = TLV_FILE_CONTENT /\ Length > wr

RunOff == /\ phase = "nodes" /\ left > 0
          /\ \/ Missing /\ phase' = "outside"
             \/ ~Missing /\ TooLong /\ phase' = "overrun"
          /\ UNCHANGED <<encoding, receiving, decoding>>

Finish == /\ phase = "nodes" /\ left = 0
          /\ phase' = "decoded"
          /\ UNCHANGED <<encoding, receiving, decoding>>

tlvDecodeFile == \/ ReadRoot \/ ReadField \/ ReadContent \/ ReadSize \/ ReadUnknown
                 \/ RunOff \/ Finish

-----------------------------------------------------------------------------
Init == /\ phase = "root"
        /\ file \in [cmd : Commands, name : Names, content : Contents]
        /\ sent = Zeros /\ wr = 0
        /\ got = Zeros /\ total = 0 /\ pieces = 0
        /\ rd = 0 /\ left = 0
        /\ out = [cmd |-> NoField, name |-> NoField, content |-> <<>>, size |-> 0]

Next == tlvEncodeFile \/ Recv \/ tlvDecodeFile

\* neither function waits for anybody, and what was sent arrives
Spec == Init /\ [][Next]_vars /\ WF_vars(Next)

-----------------------------------------------------------------------------
(* Properties.                                                             *)

\* Every variable keeps its type: no length leaves the range of an unsigned
\* int, and no cursor a buffer.
TypeOK ==
    /\ phase \in Phases
    /\ file \in [cmd : Commands, name : Names, content : Contents]
    /\ sent \in Memory /\ got \in Memory
    /\ wr \in 0..BufWords /\ total \in 0..wr /\ rd \in 0..BufWords
    /\ pieces \in 0..MaxPieces
    /\ left \in Word
    /\ out \in [cmd : Field, name : Field, content : Seq(Word), size : Word]

\* What is sent, as far as the receiver is to know it.
Same == /\ out.cmd = file.cmd /\ out.name = file.name
        /\ out.content = file.content /\ out.size = Size

\* A message that came in one piece is taken apart into what was put together,
\* whatever bytes the content has (types and lengths of nodes among them):
\* nothing else than the four fields, each complete.
RoundTrip == phase = "decoded" /\ pieces = 1 => Same

\* A message that fits the buffer and came in one piece never makes the decoder
\* read or write behind a buffer, or reject it: the checks it ignores are not
\* needed then.  956 bytes of content is the limit, and nobody compares with it.
FitsIsSafe ==
    HeadWords + Size <= BufWords /\ pieces <= 1
        => phase \notin {"overrun", "outside", "rejected"}

\* Whatever came, in however many pieces laid over each other, and although an
\* unknown node does not shorten what is left: the decoder comes to an end.
TransferEnds == <>(phase \in Ends)

=============================================================================
