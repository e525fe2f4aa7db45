-------------------------- MODULE TlvTransferProofs --------------------------
(***************************************************************************)
(* A TLV message that comes in one piece is taken apart into what was put  *)
(* together, for every content, and any size of the buffers.               *)
(***************************************************************************)
EXTENDS TlvTransfer, SequenceTheorems, TLAPS

\* What the five parts of the message are in a buffer.
RootIn(mem) == mem[1] = TLV_FILE_ROOT /\ mem[2] = 15 + Size
CmdIn(mem) == /\ mem[3] = TLV_FILE_CMD /\ mem[4] = 3
              /\ \A k \in 1..3 : mem[4 + k] = file.cmd[k]
NameIn(mem) == /\ mem[8] = TLV_FILE_NAME /\ mem[9] = 3
               /\ \A k \in 1..3 : mem[9 + k] = file.name[k]
ContentIn(mem) == /\ mem[13] = TLV_FILE_CONTENT /\ mem[14] = Size
                  /\ \A k \in 1..Size : mem[14 + k] = file.content[k]
SizeIn(mem) == /\ mem[15 + Size] = TLV_FILE_SIZE /\ mem[16 + Size] = 1
               /\ mem[17 + Size] = Size

\* Where the encoder is before each node, and when it is through.
WrittenUpTo ==
    /\ phase = "root" => wr = 0
    /\ phase = "cmd" => wr = 2
    /\ phase = "name" => wr = 7
    /\ phase = "content" => wr = 12
    /\ phase = "size" => wr = 14 + Size
    /\ phase \in {"recv", "type", "nodes"} => wr = HeadWords + Size

WrittenRight ==
    /\ wr >= 2 => RootIn(sent)
    /\ wr >= 7 => CmdIn(sent)
    /\ wr >= 12 => NameIn(sent)
    /\ wr >= 14 + Size => ContentIn(sent)
    /\ wr >= 17 + Size => SizeIn(sent)

\* How many pieces have come.
Arrived ==
    /\ phase \in Encoding => pieces = 0 /\ total = 0
    /\ phase = "recv" => (total = 0 <=> pieces = 0) /\ total < wr /\ pieces < MaxPieces
    /\ phase \in {"type", "nodes", "rejected", "outside", "decoded"} => pieces >= 1
    /\ phase = "overrun" /\ pieces = 0 => HeadWords + Size > BufWords

\* What one piece brought.
GotRight ==
    pieces = 1 /\ phase \in {"type", "nodes"} =>
       RootIn(got) /\ CmdIn(got) /\ NameIn(got) /\ ContentIn(got) /\ SizeIn(got)

\* Where the decoder is between two nodes, and what it knows by then.
DecodedUpTo ==
    pieces = 1 /\ phase = "nodes" =>
       \/ rd = 2 /\ left = 15 + Size
       \/ rd = 7 /\ left = 10 + Size /\ out.cmd = file.cmd
       \/ rd = 12 /\ left = 5 + Size /\ out.cmd = file.cmd /\ out.name = file.name
       \/ /\ rd = 14 + Size /\ left = 3
          /\ out.cmd = file.cmd /\ out.name = file.name /\ out.content = file.content
       \/ rd = 17 + Size /\ left = 0 /\ Same

NoAccident == pieces = 1 => phase \notin {"overrun", "outside", "rejected"}

IInv == /\ WrittenUpTo /\ WrittenRight /\ Arrived /\ GotRight /\ DecodedUpTo
        /\ NoAccident /\ RoundTrip

-----------------------------------------------------------------------------
(* Types.                                                                  *)

LEMMA FileTypes ==
  ASSUME TypeOK
  PROVE  /\ file.cmd \in Field /\ file.name \in Field /\ file.content \in Seq(Word)
         /\ Size \in Nat /\ HeadWords + Size < Wrap
         /\ Len(file.cmd) = 3 /\ Len(file.name) = 3
BY TlvAssumption, LenProperties DEF TypeOK, Size, Field

LEMMA InitTypes == Init => TypeOK
BY TlvAssumption, EmptySeq DEF Init, TypeOK, Zeros, NoField, Memory, Field, Word, Phases, Encoding, HeadWords

\* What a node leaves in the buffer.
LEMMA WriteTypes ==
  ASSUME TypeOK, NEW type \in Word, NEW len \in Word, NEW value,
         NEW n \in Nat, Len(value) = n, \A k \in 1..n : value[k] \in Word,
         wr + 2 + n <= BufWords, Write(type, len, value)
  PROVE  sent' \in Memory /\ wr' \in 0..BufWords
<1>1. \A k \in 1..BufWords : wr + 2 < k /\ k <= wr + 2 + n => k - wr - 2 \in 1..n
  BY TlvAssumption DEF TypeOK
<1>2. \A k \in 1..BufWords :
        (CASE k = wr + 1 -> type
           [] k = wr + 2 -> len
           [] wr + 2 < k /\ k <= wr + 2 + Len(value) -> value[k - wr - 2]
           [] OTHER -> sent[k]) \in Word
  BY <1>1, TlvAssumption DEF TypeOK, Memory
<1> QED BY <1>2, TlvAssumption DEF Write, Memory, TypeOK

LEMMA WriteNodeTypes ==
  ASSUME TypeOK, NEW next \in Phases, NEW type \in Word, NEW len \in Word, NEW value,
         NEW n \in Nat, Len(value) = n, \A k \in 1..n : value[k] \in Word,
         WriteNode(next, type, len, value), total = 0
  PROVE  TypeOK'
<1>1. sent' \in Memory /\ wr' \in 0..BufWords
  BY WriteTypes DEF WriteNode
<1>2. total' \in 0..wr'
  BY <1>1, TlvAssumption DEF WriteNode, receiving
<1> QED BY <1>1, <1>2 DEF WriteNode, TypeOK, receiving, decoding

LEMMA EncodeTypes == TypeOK /\ Arrived /\ tlvEncodeFile => TypeOK'
<1> SUFFICES ASSUME TypeOK, Arrived, tlvEncodeFile PROVE TypeOK'
  OBVIOUS
<1>1. /\ 1 \in Word /\ 2 \in Word /\ 3 \in Word /\ 4 \in Word /\ 5 \in Word
      /\ 15 + Size \in Word /\ Size \in Word
  BY FileTypes, TlvAssumption DEF Word, HeadWords
<1>2. /\ "cmd" \in Phases /\ "name" \in Phases /\ "content" \in Phases
      /\ "size" \in Phases /\ "recv" \in Phases
  BY DEF Phases, Encoding
<1>3. CASE WriteRoot
  <2>1. total = 0 /\ Len(<<>>) = 0
    BY <1>3 DEF WriteRoot, Arrived, Encoding
  <2>2. WriteNode("cmd", 1, 15 + Size, <<>>)
    BY <1>3 DEF WriteRoot, TLV_FILE_ROOT
  <2> QED BY <2>1, <2>2, <1>1, <1>2, WriteNodeTypes
<1>4. CASE WriteCmd
  <2>1. total = 0 /\ Len(file.cmd) = 3 /\ \A k \in 1..3 : file.cmd[k] \in Word
    BY <1>4, FileTypes DEF WriteCmd, Arrived, Encoding, Field
  <2>2. WriteNode("name", 2, 3, file.cmd)
    BY <1>4 DEF WriteCmd, TLV_FILE_CMD
  <2> QED BY <2>1, <2>2, <1>1, <1>2, WriteNodeTypes
<1>5. CASE WriteName
  <2>1. total = 0 /\ Len(file.name) = 3 /\ \A k \in 1..3 : file.name[k] \in Word
    BY <1>5, FileTypes DEF WriteName, Arrived, Encoding, Field
  <2>2. WriteNode("content", 3, 3, file.name)
    BY <1>5 DEF WriteName, TLV_FILE_NAME
  <2> QED BY <2>1, <2>2, <1>1, <1>2, WriteNodeTypes
<1>6. CASE WriteContent
  <2>1. total = 0
    BY <1>6 DEF WriteContent, Arrived, Encoding
  <2>2. Size \in Nat /\ Len(file.content) = Size /\ \A k \in 1..Size : file.content[k] \in Word
    BY FileTypes, ElementOfSeq DEF Size
  <2>3. WriteNode("size", 4, Size, file.content)
    BY <1>6 DEF WriteContent, TLV_FILE_CONTENT
  <2> QED BY <2>1, <2>2, <2>3, <1>1, <1>2, WriteNodeTypes
<1>7. CASE WriteSize
  <2>1. total = 0
    BY <1>7 DEF WriteSize, Arrived, Encoding
  <2>2. Len(<<Size>>) = 1 /\ \A k \in 1..1 : <<Size>>[k] \in Word
    BY <1>1
  <2>3. WriteNode("recv", 5, 1, <<Size>>)
    BY <1>7 DEF WriteSize, TLV_FILE_SIZE
  <2> QED BY <2>1, <2>2, <2>3, <1>1, <1>2, WriteNodeTypes
<1>8. CASE WriteBehind
  BY <1>8 DEF WriteBehind, TypeOK, Phases, Ends, encoding, receiving, decoding
<1> QED BY <1>3, <1>4, <1>5, <1>6, <1>7, <1>8 DEF tlvEncodeFile

LEMMA RecvTypes == TypeOK /\ Arrived /\ Recv => TypeOK'
<1> SUFFICES ASSUME TypeOK, Arrived, Recv PROVE TypeOK'
  OBVIOUS
<1>1. PICK n \in 1 .. wr - total :
         /\ pieces + 1 = MaxPieces => n = wr - total
         /\ got' = [k \in 1..BufWords |-> IF k <= n THEN sent[total + k] ELSE got[k]]
         /\ total' = total + n
         /\ pieces' = pieces + 1
         /\ phase' = IF total + n = wr THEN "type" ELSE "recv"
  BY DEF Recv
<1>2. UNCHANGED <<file, sent, wr, rd, left, out>>
  BY DEF Recv, encoding, decoding
<1>3. got' \in Memory
  <2>1. \A k \in 1..BufWords : k <= n => total + k \in 1..BufWords
    BY TlvAssumption DEF TypeOK
  <2> QED BY <2>1, <1>1 DEF TypeOK, Memory
<1>4. total' \in 0..wr' /\ pieces' \in 0..MaxPieces
  BY <1>1, <1>2, TlvAssumption DEF TypeOK, Arrived, Recv
<1>5. phase' \in Phases
  BY <1>1 DEF Phases
<1> QED BY <1>2, <1>3, <1>4, <1>5, <1>1 DEF TypeOK

\* Unsigned arithmetic stays in range.
LEMMA Unsigned ==
  ASSUME NEW a \in Word, NEW b \in Word
  PROVE  Plus(a, b) \in Word /\ Minus(a, b) \in Word
BY TlvAssumption DEF Word, Plus, Minus

LEMMA NodeWords ==
  ASSUME TypeOK, InBuffer(2)
  PROVE  Type \in Word /\ Length \in Word /\ 2 \in Word
<1>1. rd + 1 \in 1..BufWords /\ rd + 2 \in 1..BufWords
  BY TlvAssumption DEF TypeOK, InBuffer
<1> QED BY <1>1, TlvAssumption DEF TypeOK, InBuffer, Type, Length, Memory, Word, HeadWords

LEMMA PassTypes ==
  ASSUME TypeOK, NEW n \in Nat, InBuffer(2 + n), Pass(n)
  PROVE  rd' \in 0..BufWords /\ left' \in Word
<1>1. InBuffer(2)
  BY TlvAssumption DEF InBuffer, TypeOK
<1>2. Plus(2, Length) \in Word
  BY <1>1, NodeWords, Unsigned
<1>3. left' \in Word
  BY <1>2, Unsigned DEF Pass, TypeOK
<1>4. rd' \in 0..BufWords
  BY TlvAssumption DEF Pass, InBuffer, TypeOK
<1> QED BY <1>3, <1>4

LEMMA DecodeTypes == TypeOK /\ tlvDecodeFile => TypeOK'
<1> SUFFICES ASSUME TypeOK, tlvDecodeFile PROVE TypeOK'
  OBVIOUS
<1>1. CASE ReadRoot
  <2>1. 1 \in 1..BufWords /\ 2 \in 1..BufWords /\ 2 \in 0..BufWords
    BY TlvAssumption DEF HeadWords
  <2>2. phase' \in Phases /\ rd' \in 0..BufWords /\ left' \in Word
    BY <1>1, <2>1 DEF ReadRoot, TypeOK, Memory, Phases, Ends
  <2> QED BY <1>1, <2>2 DEF ReadRoot, TypeOK, encoding, receiving
<1>2. CASE ReadField
  <2>1. Length \in Word /\ Length \in Nat
    BY <1>2, NodeWords DEF ReadField, AtNode, Word
  <2>2. rd' \in 0..BufWords /\ left' \in Word
    BY <1>2, <2>1, PassTypes DEF ReadField
  <2>3. ASSUME NEW old \in Field PROVE Copy(old, Length) \in Field
    <3>1. \A k \in 1..3 : k <= Length => got[rd + 2 + k] \in Word
      <4>1. InBuffer(2 + Length)
        BY <1>2 DEF ReadField
      <4> QED BY <4>1, <2>1, TlvAssumption DEF InBuffer, TypeOK, Memory
    <3>2. Len(old) = 3
      BY DEF Field
    <3> QED BY <3>1, <3>2 DEF Copy, Field
  <2>4. Copy(out.cmd, Length) \in Field /\ Copy(out.name, Length) \in Field
    BY <2>3 DEF TypeOK
  <2>5. out' \in [cmd : Field, name : Field, content : Seq(Word), size : Word]
    BY <1>2, <2>4 DEF ReadField, TypeOK
  <2> QED BY <1>2, <2>2, <2>5 DEF ReadField, TypeOK, encoding, receiving
<1>3. CASE ReadContent
  <2>1. Length \in Word /\ Length \in Nat
    BY <1>3, NodeWords DEF ReadContent, AtNode, Word
  <2>2. rd' \in 0..BufWords /\ left' \in Word
    BY <1>3, <2>1, PassTypes DEF ReadContent
  <2>3. [k \in 1..Length |-> got[rd + 2 + k]] \in Seq(Word)
    <3>1. \A k \in 1..Length : got[rd + 2 + k] \in Word
      BY SMTT(20), <1>3, <2>1, TlvAssumption DEF ReadContent, InBuffer, TypeOK, Memory
    <3> QED BY <3>1, <2>1
  <2>4. out' \in [cmd : Field, name : Field, content : Seq(Word), size : Word]
    BY <1>3, <2>3 DEF ReadContent, TypeOK
  <2> QED BY <1>3, <2>2, <2>4 DEF ReadContent, TypeOK, encoding, receiving
<1>4. CASE ReadSize
  <2>1. InBuffer(2 + 1)
    BY <1>4 DEF ReadSize
  <2>2. rd' \in 0..BufWords /\ left' \in Word
    BY <1>4, <2>1, PassTypes DEF ReadSize
  <2>3. got[rd + 3] \in Word
    BY <2>1, TlvAssumption DEF InBuffer, TypeOK, Memory
  <2>4. out' \in [cmd : Field, name : Field, content : Seq(Word), size : Word]
    BY <1>4, <2>3 DEF ReadSize, TypeOK
  <2> QED BY <1>4, <2>2, <2>4 DEF ReadSize, TypeOK, encoding, receiving
<1>5. CASE ReadUnknown
  <2>1. rd' \in 0..BufWords
    BY <1>5, TlvAssumption DEF ReadUnknown, AtNode, InBuffer, TypeOK
  <2> QED BY <1>5, <2>1 DEF ReadUnknown, TypeOK, encoding, receiving
<1>6. CASE RunOff
  BY <1>6 DEF RunOff, TypeOK, Phases, Ends, encoding, receiving, decoding
<1>7. CASE Finish
  BY <1>7 DEF Finish, TypeOK, Phases, Ends, encoding, receiving, decoding
<1> QED BY <1>1, <1>2, <1>3, <1>4, <1>5, <1>6, <1>7 DEF tlvDecodeFile

-----------------------------------------------------------------------------
(* The encoder writes the image of the message.                            *)

LEMMA WriteEffect ==
  ASSUME TypeOK, NEW type, NEW len, NEW value, NEW n \in Nat, Len(value) = n,
         wr + 2 + n <= BufWords, Write(type, len, value)
  PROVE  /\ wr' = wr + 2 + n
         /\ \A k \in 1..wr : sent'[k] = sent[k]
         /\ sent'[wr + 1] = type /\ sent'[wr + 2] = len
         /\ \A k \in 1..n : sent'[wr + 2 + k] = value[k]
<1>1. wr \in Nat /\ wr' = wr + 2 + n
  BY TlvAssumption DEF Write, TypeOK
<1>2. ASSUME NEW k \in 1..wr PROVE sent'[k] = sent[k]
  <2>1. k \in 1..BufWords /\ k # wr + 1 /\ k # wr + 2 /\ ~(wr + 2 < k)
    BY <1>1, TlvAssumption
  <2> QED BY <2>1 DEF Write
<1>3. sent'[wr + 1] = type
  <2>1. wr + 1 \in 1..BufWords /\ wr + 1 # wr + 2 /\ ~(wr + 2 < wr + 1)
    BY <1>1, TlvAssumption
  <2> QED BY <2>1 DEF Write
<1>4. sent'[wr + 2] = len
  <2>1. wr + 2 \in 1..BufWords /\ wr + 2 # wr + 1
    BY <1>1, TlvAssumption
  <2> QED BY <2>1 DEF Write
<1>5. ASSUME NEW k \in 1..n PROVE sent'[wr + 2 + k] = value[k]
  <2>1. /\ wr + 2 + k \in 1..BufWords /\ wr + 2 + k # wr + 1 /\ wr + 2 + k # wr + 2
        /\ wr + 2 < wr + 2 + k /\ wr + 2 + k <= wr + 2 + Len(value)
        /\ (wr + 2 + k) - wr - 2 = k
    BY <1>1, TlvAssumption
  <2>2. sent'[wr + 2 + k] = value[(wr + 2 + k) - wr - 2]
    BY <2>1 DEF Write
  <2> QED BY <2>1, <2>2
<1> QED BY <1>1, <1>2, <1>3, <1>4, <1>5

\* As long as nothing was received, the encoder's part of the invariant is all
\* of it.
LEMMA EncoderPart ==
  ASSUME TypeOK, IInv, phase \in Encoding, UNCHANGED <<file, receiving, decoding>>,
         WrittenUpTo', WrittenRight',
         \/ phase' \in Encoding
         \/ phase' = "recv" /\ wr' > 0
         \/ phase' = "overrun" /\ HeadWords + Size > BufWords
  PROVE  IInv'
<1>1. pieces' = 0 /\ total' = 0 /\ phase' # "decoded" /\ Size' = Size
  BY DEF IInv, Arrived, receiving, Encoding, Size
<1>2. Arrived'
  BY <1>1, TlvAssumption DEF Arrived, Encoding
<1> QED BY <1>1, <1>2 DEF IInv, GotRight, DecodedUpTo, NoAccident, RoundTrip

LEMMA EncodeSafe == TypeOK /\ IInv /\ tlvEncodeFile => IInv'
<1> SUFFICES ASSUME TypeOK, IInv, tlvEncodeFile PROVE IInv'
  OBVIOUS
<1>0. WrittenRight /\ WrittenUpTo
  BY DEF IInv
<1>1. CASE WriteRoot
  <2>1. /\ Write(1, 15 + Size, <<>>) /\ Len(<<>>) = 0 /\ phase = "root" /\ wr = 0
        /\ UNCHANGED <<file, receiving, decoding>> /\ phase' = "cmd"
        /\ wr + 2 + 0 <= BufWords
    BY <1>0, <1>1, TlvAssumption DEF WriteRoot, TLV_FILE_ROOT, WrittenUpTo, WriteNode
  <2>2. wr' = 2 /\ sent'[1] = 1 /\ sent'[2] = 15 + Size
    <3>1. wr' = wr + 2 + 0 /\ sent'[wr + 1] = 1 /\ sent'[wr + 2] = 15 + Size
      BY <2>1, WriteEffect
    <3> QED BY <3>1, <2>1
  <2>3. WrittenUpTo' /\ WrittenRight'
    BY <2>1, <2>2, FileTypes DEF WrittenUpTo, WrittenRight, RootIn, TLV_FILE_ROOT, Size
  <2> QED BY <2>1, <2>3, EncoderPart DEF Encoding
<1>2. CASE WriteCmd
  <2>1. /\ Write(2, 3, file.cmd) /\ Len(file.cmd) = 3 /\ phase = "cmd" /\ wr = 2
        /\ UNCHANGED <<file, receiving, decoding>> /\ phase' = "name"
        /\ wr + 2 + 3 <= BufWords
    BY <1>0, <1>2, FileTypes DEF WriteCmd, TLV_FILE_CMD, WrittenUpTo, WriteNode
  <2>2. /\ wr' = 7 /\ sent'[3] = 2 /\ sent'[4] = 3
        /\ \A k \in 1..3 : sent'[4 + k] = file.cmd[k]
        /\ \A k \in 1..2 : sent'[k] = sent[k]
    <3>1. /\ wr' = wr + 2 + 3 /\ sent'[wr + 1] = 2 /\ sent'[wr + 2] = 3
          /\ \A k \in 1..3 : sent'[wr + 2 + k] = file.cmd[k]
          /\ \A k \in 1..wr : sent'[k] = sent[k]
      BY ZenonT(40), <2>1, WriteEffect
    <3> QED BY <3>1, <2>1
  <2>3. RootIn(sent) /\ RootIn(sent)' /\ CmdIn(sent)'
    BY <2>1, <2>2, <1>0 DEF WrittenRight, RootIn, CmdIn, TLV_FILE_CMD, Size
  <2>4. WrittenUpTo' /\ WrittenRight'
    BY <2>1, <2>2, <2>3, FileTypes DEF WrittenUpTo, WrittenRight, Size
  <2> QED BY <2>1, <2>4, EncoderPart DEF Encoding
<1>3. CASE WriteName
  <2>1. /\ Write(3, 3, file.name) /\ Len(file.name) = 3 /\ phase = "name" /\ wr = 7
        /\ UNCHANGED <<file, receiving, decoding>> /\ phase' = "content"
        /\ wr + 2 + 3 <= BufWords
    BY <1>0, <1>3, FileTypes DEF WriteName, TLV_FILE_NAME, WrittenUpTo, WriteNode
  <2>2. /\ wr' = 12 /\ sent'[8] = 3 /\ sent'[9] = 3
        /\ \A k \in 1..3 : sent'[9 + k] = file.name[k]
        /\ \A k \in 1..7 : sent'[k] = sent[k]
    <3>1. /\ wr' = wr + 2 + 3 /\ sent'[wr + 1] = 3 /\ sent'[wr + 2] = 3
          /\ \A k \in 1..3 : sent'[wr + 2 + k] = file.name[k]
          /\ \A k \in 1..wr : sent'[k] = sent[k]
      BY ZenonT(40), <2>1, WriteEffect
    <3> QED BY <3>1, <2>1
  <2>3. RootIn(sent)' /\ CmdIn(sent)' /\ NameIn(sent)'
    <3>1. RootIn(sent) /\ CmdIn(sent)
      BY <2>1, <1>0 DEF WrittenRight
    <3> QED BY <2>1, <2>2, <3>1 DEF RootIn, CmdIn, NameIn, TLV_FILE_NAME, Size
  <2>4. WrittenUpTo' /\ WrittenRight'
    BY <2>1, <2>2, <2>3, FileTypes DEF WrittenUpTo, WrittenRight, Size
  <2> QED BY <2>1, <2>4, EncoderPart DEF Encoding
<1>4. CASE WriteContent
  <2>0. Size \in Nat /\ Len(file.content) = Size
    BY FileTypes DEF Size
  <2>1. /\ Write(4, Size, file.content) /\ phase = "content" /\ wr = 12
        /\ UNCHANGED <<file, receiving, decoding>> /\ phase' = "size"
        /\ wr + 2 + Size <= BufWords
    BY <1>0, <1>4, <2>0 DEF WriteContent, TLV_FILE_CONTENT, WrittenUpTo, WriteNode
  <2>2. /\ wr' = 14 + Size /\ sent'[13] = 4 /\ sent'[14] = Size
        /\ \A k \in 1..Size : sent'[14 + k] = file.content[k]
        /\ \A k \in 1..12 : sent'[k] = sent[k]
    <3>1. /\ wr' = wr + 2 + Size /\ sent'[wr + 1] = 4 /\ sent'[wr + 2] = Size
          /\ \A k \in 1..Size : sent'[wr + 2 + k] = file.content[k]
          /\ \A k \in 1..wr : sent'[k] = sent[k]
      BY <2>0, <2>1, WriteEffect
    <3> QED BY <3>1, <2>1, <2>0
  <2>3. RootIn(sent)' /\ CmdIn(sent)' /\ NameIn(sent)' /\ ContentIn(sent)'
    <3>1. RootIn(sent) /\ CmdIn(sent) /\ NameIn(sent)
      BY <2>1, <1>0 DEF WrittenRight
    <3>2. RootIn(sent)' /\ CmdIn(sent)' /\ NameIn(sent)'
      BY <2>1, <2>2, <3>1 DEF RootIn, CmdIn, NameIn, Size
    <3> QED BY <2>1, <2>2, <3>2 DEF ContentIn, TLV_FILE_CONTENT, Size
  <2>4. WrittenUpTo' /\ WrittenRight'
    BY <2>0, <2>1, <2>2, <2>3 DEF WrittenUpTo, WrittenRight, Size
  <2> QED BY <2>1, <2>4, EncoderPart DEF Encoding
<1>5. CASE WriteSize
  <2>0. Size \in Nat
    BY FileTypes
  <2>1. /\ Write(5, 1, <<Size>>) /\ Len(<<Size>>) = 1 /\ phase = "size" /\ wr = 14 + Size
        /\ UNCHANGED <<file, receiving, decoding>> /\ phase' = "recv"
        /\ wr + 2 + 1 <= BufWords
    BY <1>0, <1>5 DEF WriteSize, TLV_FILE_SIZE, WrittenUpTo, WriteNode
  <2>2. /\ wr' = 17 + Size /\ sent'[15 + Size] = 5 /\ sent'[16 + Size] = 1
        /\ sent'[17 + Size] = Size
        /\ \A k \in 1..14 + Size : sent'[k] = sent[k]
    <3>1. /\ wr' = wr + 2 + 1 /\ sent'[wr + 1] = 5 /\ sent'[wr + 2] = 1
          /\ \A k \in 1..1 : sent'[wr + 2 + k] = <<Size>>[k]
          /\ \A k \in 1..wr : sent'[k] = sent[k]
      BY <2>1, WriteEffect
    <3>2. sent'[wr + 2 + 1] = Size
      BY <3>1
    <3>3. /\ wr + 1 = 15 + Size /\ wr + 2 = 16 + Size /\ wr + 2 + 1 = 17 + Size
      BY <2>0, <2>1
    <3> QED BY <3>1, <3>2, <3>3, <2>1
  <2>3. RootIn(sent)' /\ CmdIn(sent)' /\ NameIn(sent)' /\ ContentIn(sent)' /\ SizeIn(sent)'
    <3>1. RootIn(sent) /\ CmdIn(sent) /\ NameIn(sent) /\ ContentIn(sent)
      BY <2>0, <2>1, <1>0 DEF WrittenRight
    <3>2. \A k \in 1..14 : sent'[k] = sent[k]
      BY <2>0, <2>2
    <3>3. \A k \in 1..Size : sent'[14 + k] = sent[14 + k]
      BY <2>0, <2>2
    <3>4. Size' = Size
      BY <2>1 DEF Size
    <3>5. RootIn(sent)' /\ CmdIn(sent)' /\ NameIn(sent)'
      BY <2>1, <3>1, <3>2, <3>4 DEF RootIn, CmdIn, NameIn
    <3>6. ContentIn(sent)'
      BY <2>1, <3>1, <3>2, <3>3, <3>4 DEF ContentIn
    <3>7. SizeIn(sent)'
      BY <2>2, <3>4 DEF SizeIn, TLV_FILE_SIZE
    <3> QED BY <3>5, <3>6, <3>7
  <2>4. WrittenUpTo' /\ WrittenRight' /\ wr' > 0
    BY <2>0, <2>1, <2>2, <2>3 DEF WrittenUpTo, WrittenRight, Size, HeadWords
  <2> QED BY <2>1, <2>4, EncoderPart DEF Encoding
<1>6. CASE WriteBehind
  <2>1. UNCHANGED <<file, receiving, decoding>> /\ phase' = "overrun"
        /\ phase \in Encoding
    BY <1>6 DEF WriteBehind, encoding, Encoding
  <2>2. HeadWords + Size > BufWords
    BY <1>0, <1>6, FileTypes, TlvAssumption DEF WriteBehind, WrittenUpTo, HeadWords
  <2>3. WrittenUpTo'
    BY <2>1 DEF WrittenUpTo
  <2>4. WrittenRight'
    BY <1>0, <1>6 DEF WriteBehind, encoding, WrittenRight, RootIn, CmdIn, NameIn, ContentIn, SizeIn, Size
  <2> QED BY <2>1, <2>2, <2>3, <2>4, EncoderPart
<1> QED BY <1>1, <1>2, <1>3, <1>4, <1>5, <1>6 DEF tlvEncodeFile

-----------------------------------------------------------------------------
(* One piece is a copy.                                                    *)

LEMMA RecvSafe == TypeOK /\ IInv /\ Recv => IInv'
<1> SUFFICES ASSUME TypeOK, IInv, Recv PROVE IInv'
  OBVIOUS
<1>1. PICK n \in 1 .. wr - total :
         /\ pieces + 1 = MaxPieces => n = wr - total
         /\ got' = [k \in 1..BufWords |-> IF k <= n THEN sent[total + k] ELSE got[k]]
         /\ total' = total + n
         /\ pieces' = pieces + 1
         /\ phase' = IF total + n = wr THEN "type" ELSE "recv"
  BY DEF Recv
<1>2. UNCHANGED <<file, sent, wr, rd, left, out>> /\ phase = "recv" /\ Size' = Size
  BY DEF Recv, encoding, decoding, Size
<1>3. /\ wr \in 0..BufWords /\ total \in 0..wr /\ pieces \in Nat /\ total < wr
      /\ wr = HeadWords + Size /\ Size \in Nat /\ pieces < MaxPieces /\ MaxPieces \in Nat
      /\ total = 0 <=> pieces = 0
  BY <1>2, FileTypes, TlvAssumption DEF TypeOK, IInv, Arrived, WrittenUpTo
<1>4. WrittenUpTo'
  BY <1>1, <1>2, <1>3 DEF WrittenUpTo
<1>5. WrittenRight'
  BY <1>2 DEF IInv, WrittenRight, RootIn, CmdIn, NameIn, ContentIn, SizeIn
<1>6. Arrived'
  <2>1. total' > 0 /\ pieces' >= 1
    BY <1>1, <1>3
  <2>2. phase' = "recv" => total' < wr' /\ pieces' < MaxPieces
    BY <1>1, <1>2, <1>3
  <2>3. phase' \in {"recv", "type"}
    BY <1>1
  <2> QED BY <2>1, <2>2, <2>3, <1>1, <1>3 DEF Arrived, Encoding
<1>7. GotRight'
  <2> SUFFICES ASSUME pieces' = 1, phase' \in {"type", "nodes"}
               PROVE  RootIn(got)' /\ CmdIn(got)' /\ NameIn(got)' /\ ContentIn(got)' /\ SizeIn(got)'
    BY DEF GotRight
  <2>1. total = 0 /\ n = wr
    BY <1>1, <1>3
  <2>2. ASSUME NEW k \in 1..wr PROVE got'[k] = sent[k]
    <3>1. k \in 1..BufWords /\ k <= n /\ total + k = k
      BY <1>3, <2>1, TlvAssumption
    <3> QED BY <3>1, <1>1
  <2>3. RootIn(sent) /\ CmdIn(sent) /\ NameIn(sent) /\ ContentIn(sent) /\ SizeIn(sent)
    BY <1>3 DEF IInv, WrittenRight, HeadWords
  <2>4. /\ \A k \in 1..14 : got'[k] = sent[k]
        /\ \A k \in 1..Size : got'[14 + k] = sent[14 + k]
        /\ got'[15 + Size] = sent[15 + Size] /\ got'[16 + Size] = sent[16 + Size]
        /\ got'[17 + Size] = sent[17 + Size]
    BY <1>3, <2>2 DEF HeadWords
  <2>5. RootIn(got)' /\ CmdIn(got)' /\ NameIn(got)'
    BY <1>2, <2>3, <2>4 DEF RootIn, CmdIn, NameIn
  <2>6. ContentIn(got)'
    BY <1>2, <2>3, <2>4 DEF ContentIn
  <2>7. SizeIn(got)'
    BY <1>2, <2>3, <2>4 DEF SizeIn
  <2> QED BY <2>5, <2>6, <2>7
<1>8. DecodedUpTo' /\ NoAccident' /\ RoundTrip'
  BY <1>1 DEF DecodedUpTo, NoAccident, RoundTrip
<1> QED BY <1>4, <1>5, <1>6, <1>7, <1>8 DEF IInv

-----------------------------------------------------------------------------
(* The decoder of a message that came in one piece is at a node, and the   *)
(* node is whole.                                                          *)

\* The node that follows, with the words it has.
LEMMA AtNodeOfOnePiece ==
  ASSUME TypeOK, IInv, pieces = 1, phase = "nodes", left > 0
  PROVE  /\ Size \in Nat /\ 17 + Size <= BufWords /\ wr = 17 + Size /\ 15 + Size < Wrap
         /\ \/ /\ rd = 2 /\ left = 15 + Size /\ Type = TLV_FILE_CMD /\ Length = 3
               /\ \A k \in 1..3 : got[rd + 2 + k] = file.cmd[k]
            \/ /\ rd = 7 /\ left = 10 + Size /\ Type = TLV_FILE_NAME /\ Length = 3
               /\ out.cmd = file.cmd
               /\ \A k \in 1..3 : got[rd + 2 + k] = file.name[k]
            \/ /\ rd = 12 /\ left = 5 + Size /\ Type = TLV_FILE_CONTENT /\ Length = Size
               /\ out.cmd = file.cmd /\ out.name = file.name
               /\ \A k \in 1..Size : got[rd + 2 + k] = file.content[k]
            \/ /\ rd = 14 + Size /\ left = 3 /\ Type = TLV_FILE_SIZE /\ Length = 1
               /\ out.cmd = file.cmd /\ out.name = file.name /\ out.content = file.content
               /\ got[rd + 3] = Size
<1>1. /\ Size \in Nat /\ wr = 17 + Size /\ 17 + Size <= BufWords /\ 15 + Size < Wrap
  BY FileTypes, TlvAssumption DEF TypeOK, IInv, WrittenUpTo, HeadWords
<1>2. RootIn(got) /\ CmdIn(got) /\ NameIn(got) /\ ContentIn(got) /\ SizeIn(got)
  BY DEF IInv, GotRight
<1>3. CASE rd = 2 /\ left = 15 + Size
  <2>1. Type = TLV_FILE_CMD /\ Length = 3 /\ \A k \in 1..3 : got[rd + 2 + k] = file.cmd[k]
    BY <1>2, <1>3 DEF CmdIn, Type, Length
  <2> QED BY <1>1, <1>3, <2>1
<1>4. CASE rd = 7 /\ left = 10 + Size /\ out.cmd = file.cmd
  <2>1. Type = TLV_FILE_NAME /\ Length = 3 /\ \A k \in 1..3 : got[rd + 2 + k] = file.name[k]
    BY <1>2, <1>4 DEF NameIn, Type, Length
  <2> QED BY <1>1, <1>4, <2>1
<1>5. CASE rd = 12 /\ left = 5 + Size /\ out.cmd = file.cmd /\ out.name = file.name
  <2>1. /\ Type = TLV_FILE_CONTENT /\ Length = Size
        /\ \A k \in 1..Size : got[rd + 2 + k] = file.content[k]
    BY <1>2, <1>5 DEF ContentIn, Type, Length
  <2> QED BY <1>1, <1>5, <2>1
<1>6. CASE /\ rd = 14 + Size /\ left = 3
           /\ out.cmd = file.cmd /\ out.name = file.name /\ out.content = file.content
  <2>1. rd + 1 = 15 + Size /\ rd + 2 = 16 + Size /\ rd + 3 = 17 + Size
    BY <1>1, <1>6
  <2>2. Type = TLV_FILE_SIZE /\ Length = 1 /\ got[rd + 3] = Size
    BY <1>2, <2>1 DEF SizeIn, Type, Length
  <2> QED BY <1>1, <1>6, <2>2
<1> QED BY <1>3, <1>4, <1>5, <1>6 DEF IInv, DecodedUpTo

\* A step of the decoder leaves the encoder's and recv()'s part alone.
LEMMA DecoderPart ==
  ASSUME TypeOK, IInv, UNCHANGED <<encoding, receiving>>,
         phase \in {"type", "nodes"},
         phase' \in {"nodes", "rejected", "outside", "overrun", "decoded"},
         pieces = 1 => DecodedUpTo' /\ RoundTrip' /\ phase' \in {"nodes", "decoded"}
  PROVE  IInv'
<1>1. /\ UNCHANGED <<file, sent, wr, got, total, pieces>> /\ Size' = Size
  BY DEF encoding, receiving, Size
<1>2. pieces \in Nat /\ pieces >= 1
  BY TlvAssumption DEF TypeOK, IInv, Arrived
<1>3. WrittenUpTo'
  BY <1>1 DEF IInv, WrittenUpTo
<1>4. WrittenRight'
  BY <1>1 DEF IInv, WrittenRight, RootIn, CmdIn, NameIn, ContentIn, SizeIn
<1>5. Arrived'
  BY <1>1, <1>2 DEF Arrived, Encoding
<1>6. GotRight'
  BY <1>1 DEF IInv, GotRight, RootIn, CmdIn, NameIn, ContentIn, SizeIn
<1>7. DecodedUpTo' /\ NoAccident' /\ RoundTrip'
  BY <1>1 DEF DecodedUpTo, NoAccident, RoundTrip
<1> QED BY <1>3, <1>4, <1>5, <1>6, <1>7 DEF IInv

LEMMA DecodeSafe == TypeOK /\ IInv /\ tlvDecodeFile => IInv'
<1> SUFFICES ASSUME TypeOK, IInv, tlvDecodeFile PROVE IInv'
  OBVIOUS
<1>1. CASE ReadRoot
  <2>1. UNCHANGED <<encoding, receiving>> /\ phase = "type" /\ phase' \in {"nodes", "rejected"}
    BY <1>1 DEF ReadRoot
  <2>2. ASSUME pieces = 1 PROVE DecodedUpTo' /\ RoundTrip' /\ phase' = "nodes"
    <3>1. got[1] = TLV_FILE_ROOT /\ got[2] = 15 + Size
      BY <2>1, <2>2 DEF IInv, GotRight, RootIn
    <3>2. phase' = "nodes" /\ rd' = 2 /\ left' = 15 + Size
      BY <1>1, <3>1 DEF ReadRoot
    <3>3. Size' = Size
      BY <2>1 DEF encoding, Size
    <3> QED BY <3>2, <3>3 DEF DecodedUpTo, RoundTrip
  <2> QED BY <2>1, <2>2, DecoderPart
<1>2. CASE ReadField
  <2>1. /\ UNCHANGED <<encoding, receiving>> /\ phase = "nodes" /\ phase' = "nodes" /\ left > 0
        /\ Type \in {TLV_FILE_CMD, TLV_FILE_NAME} /\ Pass(Length)
        /\ out' = IF Type = TLV_FILE_CMD
                  THEN [out EXCEPT !.cmd = Copy(@, Length)]
                  ELSE [out EXCEPT !.name = Copy(@, Length)]
    BY <1>2 DEF ReadField, AtNode
  <2>2. ASSUME pieces = 1 PROVE DecodedUpTo' /\ RoundTrip'
    <3>1. /\ out.cmd \in Field /\ out.name \in Field /\ DOMAIN out = {"cmd", "name", "content", "size"}
          /\ Len(out.cmd) = 3 /\ Len(out.name) = 3
      BY DEF TypeOK, Field
    <3>2. Size \in Nat /\ 15 + Size < Wrap /\ file.cmd \in Field /\ file.name \in Field
      BY <2>1, <2>2, AtNodeOfOnePiece, FileTypes
    <3>3. UNCHANGED <<file, pieces>> /\ Size' = Size
      BY <2>1 DEF encoding, receiving, Size
    <3>4. CASE Type = TLV_FILE_CMD
      <4>1. /\ rd = 2 /\ left = 15 + Size /\ Length = 3
            /\ \A k \in 1..3 : got[rd + 2 + k] = file.cmd[k]
        BY <2>1, <2>2, <3>4, AtNodeOfOnePiece DEF TLV_FILE_CMD, TLV_FILE_NAME, TLV_FILE_CONTENT, TLV_FILE_SIZE
      <4>2. Copy(out.cmd, Length) = file.cmd
        BY <4>1, <3>1, <3>2 DEF Copy, Field
      <4>3. out'.cmd = file.cmd
        BY <2>1, <3>1, <3>4, <4>2 DEF TypeOK
      <4>4. rd' = 7 /\ left' = 10 + Size
        BY <2>1, <4>1, <3>2, TlvAssumption DEF Pass, Minus, Plus, HeadWords
      <4> QED BY <2>1, <3>3, <4>3, <4>4 DEF DecodedUpTo, RoundTrip
    <3>5. CASE Type # TLV_FILE_CMD
      <4>1. /\ rd = 7 /\ left = 10 + Size /\ Length = 3 /\ out.cmd = file.cmd
            /\ \A k \in 1..3 : got[rd + 2 + k] = file.name[k]
        BY <2>1, <2>2, <3>5, AtNodeOfOnePiece DEF TLV_FILE_CMD, TLV_FILE_NAME, TLV_FILE_CONTENT, TLV_FILE_SIZE
      <4>2. Copy(out.name, Length) = file.name
        BY <4>1, <3>1, <3>2 DEF Copy, Field
      <4>3. out'.name = file.name /\ out'.cmd = file.cmd
        BY <2>1, <3>1, <3>5, <4>1, <4>2 DEF TypeOK
      <4>4. rd' = 12 /\ left' = 5 + Size
        BY <2>1, <4>1, <3>2, TlvAssumption DEF Pass, Minus, Plus, HeadWords
      <4> QED BY <2>1, <3>3, <4>3, <4>4 DEF DecodedUpTo, RoundTrip
    <3> QED BY <3>4, <3>5
  <2> QED BY <2>1, <2>2, DecoderPart
<1>3. CASE ReadContent
  <2>1. /\ UNCHANGED <<encoding, receiving>> /\ phase = "nodes" /\ phase' = "nodes" /\ left > 0
        /\ Type = TLV_FILE_CONTENT /\ Pass(Length)
        /\ out' = [out EXCEPT !.content = [k \in 1..Length |-> got[rd + 2 + k]]]
    BY <1>3 DEF ReadContent, AtNode
  <2>2. ASSUME pieces = 1 PROVE DecodedUpTo' /\ RoundTrip'
    <3>1. /\ rd = 12 /\ left = 5 + Size /\ Length = Size /\ out.cmd = file.cmd
          /\ out.name = file.name /\ \A k \in 1..Size : got[rd + 2 + k] = file.content[k]
          /\ Size \in Nat /\ 15 + Size < Wrap
      BY <2>1, <2>2, AtNodeOfOnePiece DEF TLV_FILE_CMD, TLV_FILE_NAME, TLV_FILE_CONTENT, TLV_FILE_SIZE
    <3>2. UNCHANGED <<file, pieces>> /\ Size' = Size
      BY <2>1 DEF encoding, receiving, Size
    <3>3. [k \in 1..Length |-> got[rd + 2 + k]] = file.content
      <4>1. file.content \in Seq(Word) /\ Len(file.content) = Size
        BY FileTypes DEF Size
      <4>2. file.content = [k \in 1..Size |-> file.content[k]]
        BY <4>1
      <4> QED BY <4>2, <3>1
    <3>4. out'.content = file.content /\ out'.cmd = file.cmd /\ out'.name = file.name
      BY <2>1, <3>1, <3>3 DEF TypeOK
    <3>5. rd' = 14 + Size /\ left' = 3
      BY <2>1, <3>1, TlvAssumption DEF Pass, Minus, Plus, HeadWords
    <3> QED BY <2>1, <3>2, <3>4, <3>5 DEF DecodedUpTo, RoundTrip
  <2> QED BY <2>1, <2>2, DecoderPart
<1>4. CASE ReadSize
  <2>1. /\ UNCHANGED <<encoding, receiving>> /\ phase = "nodes" /\ phase' = "nodes" /\ left > 0
        /\ Type = TLV_FILE_SIZE /\ Pass(1)
        /\ out' = [out EXCEPT !.size = got[rd + 3]]
    BY <1>4 DEF ReadSize, AtNode
  <2>2. ASSUME pieces = 1 PROVE DecodedUpTo' /\ RoundTrip'
    <3>1. /\ rd = 14 + Size /\ left = 3 /\ Length = 1 /\ out.cmd = file.cmd
          /\ out.name = file.name /\ out.content = file.content /\ got[rd + 3] = Size
          /\ Size \in Nat
      BY <2>1, <2>2, AtNodeOfOnePiece DEF TLV_FILE_CMD, TLV_FILE_NAME, TLV_FILE_CONTENT, TLV_FILE_SIZE
    <3>2. UNCHANGED <<file, pieces>> /\ Size' = Size
      BY <2>1 DEF encoding, receiving, Size
    <3>3. /\ out'.size = Size /\ out'.content = file.content
          /\ out'.cmd = file.cmd /\ out'.name = file.name
      BY <2>1, <3>1 DEF TypeOK
    <3>4. rd' = 17 + Size /\ left' = 0
      BY <2>1, <3>1, TlvAssumption DEF Pass, Minus, Plus, HeadWords
    <3> QED BY <2>1, <3>2, <3>3, <3>4 DEF DecodedUpTo, RoundTrip, Same
  <2> QED BY <2>1, <2>2, DecoderPart
<1>5. CASE ReadUnknown
  <2>1. UNCHANGED <<encoding, receiving>> /\ phase = "nodes" /\ phase' = "nodes" /\ left > 0
        /\ Type \notin Known
    BY <1>5 DEF ReadUnknown, AtNode
  <2>2. pieces # 1
    BY <2>1, AtNodeOfOnePiece DEF Known, TLV_FILE_CMD, TLV_FILE_NAME, TLV_FILE_CONTENT, TLV_FILE_SIZE
  <2> QED BY <2>1, <2>2, DecoderPart
<1>6. CASE RunOff
  <2>1. UNCHANGED <<encoding, receiving>> /\ phase = "nodes" /\ left > 0
        /\ (Missing \/ TooLong) /\ phase' \in {"outside", "overrun"}
    BY <1>6 DEF RunOff
  <2>2. pieces # 1
    <3> SUFFICES ASSUME pieces = 1 PROVE FALSE
      OBVIOUS
    <3>0. /\ Size \in Nat /\ 17 + Size <= BufWords /\ wr = 17 + Size
          /\ \/ rd = 2 /\ Type = 2 /\ Length = 3
             \/ rd = 7 /\ Type = 3 /\ Length = 3
             \/ rd = 12 /\ Type = 4 /\ Length = Size
             \/ rd = 14 + Size /\ Type = 5 /\ Length = 1
      BY <2>1, AtNodeOfOnePiece DEF TLV_FILE_CMD, TLV_FILE_NAME, TLV_FILE_CONTENT, TLV_FILE_SIZE
    <3>a. BufWords \in Nat /\ Known = 2..5
      BY TlvAssumption DEF Known, TLV_FILE_CMD, TLV_FILE_SIZE
    <3>b. Takes = IF Type = 5 THEN 1 ELSE IF Type \in 2..5 THEN Length ELSE 0
      BY <3>a DEF Takes, TLV_FILE_SIZE
    <3>c. TooLong <=> \/ Type \in {2, 3} /\ Length > 3
                      \/ Type = 4 /\ Length > wr
      BY DEF TooLong, TLV_FILE_CMD, TLV_FILE_NAME, TLV_FILE_CONTENT
    <3>d. Takes = Length
      <4>1. Type \in 2..5 /\ (Type = 5 => Length = 1)
        BY <3>0
      <4> QED BY <4>1, <3>b
    <3>e. rd + 2 <= BufWords /\ rd + (2 + Length) <= BufWords
      BY <3>0, <3>a
    <3>1. InBuffer(2) /\ InBuffer(2 + Takes) /\ ~TooLong
      <4>1. CASE Type \in {2, 3} /\ Length = 3
        BY <4>1, <3>c, <3>d, <3>e DEF InBuffer
      <4>2. CASE Type = 4 /\ ~(Length > wr)
        BY <4>2, <3>c, <3>d, <3>e DEF InBuffer
      <4>3. CASE Type = 5
        BY <4>3, <3>c, <3>d, <3>e DEF InBuffer
      <4> QED BY <4>1, <4>2, <4>3, <3>0
    <3> QED BY <2>1, <3>1 DEF Missing
  <2> QED BY <2>1, <2>2, DecoderPart
<1>7. CASE Finish
  <2>1. UNCHANGED <<encoding, receiving, decoding>> /\ phase = "nodes" /\ left = 0 /\ phase' = "decoded"
    BY <1>7 DEF Finish
  <2>2. ASSUME pieces = 1 PROVE DecodedUpTo' /\ RoundTrip'
    <3>1. Same
      BY <2>1, <2>2, FileTypes DEF IInv, DecodedUpTo
    <3>2. Same'
      BY <2>1, <3>1 DEF Same, encoding, decoding, Size
    <3> QED BY <2>1, <3>2 DEF DecodedUpTo, RoundTrip
  <2> QED BY <2>1, <2>2, DecoderPart
<1> QED BY <1>1, <1>2, <1>3, <1>4, <1>5, <1>6, <1>7 DEF tlvDecodeFile

-----------------------------------------------------------------------------
(* The theorems.                                                           *)

LEMMA InitSafe == Init => IInv
BY TlvAssumption DEF Init, IInv, WrittenUpTo, WrittenRight, Arrived, GotRight, DecodedUpTo, NoAccident,
   RoundTrip, Encoding, Size

LEMMA StepSafe == TypeOK /\ IInv /\ [Next]_vars => TypeOK' /\ IInv'
<1> SUFFICES ASSUME TypeOK, IInv, [Next]_vars PROVE TypeOK' /\ IInv'
  OBVIOUS
<1>0. Arrived
  BY DEF IInv
<1>1. CASE tlvEncodeFile
  BY <1>0, <1>1, EncodeTypes, EncodeSafe
<1>2. CASE Recv
  BY <1>0, <1>2, RecvTypes, RecvSafe
<1>3. CASE tlvDecodeFile
  BY <1>3, DecodeTypes, DecodeSafe
<1>4. CASE UNCHANGED vars
  <2>1. TypeOK'
    BY <1>4 DEF vars, TypeOK
  <2>2. Size' = Size /\ UNCHANGED <<phase, file, sent, wr, got, total, pieces, rd, left, out>>
    BY <1>4 DEF vars, Size
  <2>3. IInv'
    BY <2>2 DEF IInv, WrittenUpTo, WrittenRight, RootIn, CmdIn, NameIn, ContentIn, SizeIn,
       Arrived, GotRight, DecodedUpTo, NoAccident, RoundTrip, Same
  <2> QED BY <2>1, <2>3
<1> QED BY <1>1, <1>2, <1>3, <1>4 DEF Next

LEMMA AlwaysSafe == Spec => [](TypeOK /\ IInv)
<1>1. Init => TypeOK /\ IInv
  BY InitTypes, InitSafe
<1> QED BY <1>1, StepSafe, PTL DEF Spec

\* The lengths of an unsigned int and the two cursors stay in range, whatever
\* arrives in however many pieces (tlvEncodeFile, tlvDecodeFile).
THEOREM TransferTypes == Spec => []TypeOK
BY AlwaysSafe, PTL

\* For every content, command and name: a message that came in one piece is
\* taken apart into the four fields that were put together.
THEOREM RoundTripHolds == Spec => []RoundTrip
<1>1. IInv => RoundTrip
  BY DEF IInv
<1> QED BY <1>1, AlwaysSafe, PTL

\* A message that fits the buffer and came in one piece needs none of the
\* checks whose results the codec ignores.
THEOREM FitsIsSafeHolds == Spec => []FitsIsSafe
<1>1. TypeOK /\ IInv => FitsIsSafe
  <2> SUFFICES ASSUME TypeOK, IInv, HeadWords + Size <= BufWords, pieces <= 1
               PROVE  phase \notin {"overrun", "outside", "rejected"}
    BY DEF FitsIsSafe
  <2>1. pieces = 0 \/ pieces = 1
    BY TlvAssumption DEF TypeOK
  <2>2. CASE pieces = 1
    BY <2>2 DEF IInv, NoAccident
  <2>3. CASE pieces = 0
    BY <2>3, FileTypes, TlvAssumption DEF IInv, Arrived, HeadWords
  <2> QED BY <2>1, <2>2, <2>3
<1> QED BY <1>1, AlwaysSafe, PTL
=============================================================================
