-------------------------- MODULE RdmaStreamProofs ---------------------------
(***************************************************************************)
(* Proofs about RdmaStream, for every chunk length and every image size.   *)
(*                                                                         *)
(* The properties speak of the end, or of one chunk.  The inductive        *)
(* invariant IInv says for every pair of places of the two ends how many   *)
(* bytes lie on each side and what is in the registered buffer.  Its parts *)
(* are about the writer, about the places the two can be in together, the  *)
(* reader's count, and the two buffers.                                    *)
(***************************************************************************)
EXTENDS RdmaStream, SequenceTheorems, TLAPS

(* The writer is connected.                                                *)
AtChunk == wpc \in {"ask", "write", "rewrite", "disconnect"}

(* The bytes of the chunks after which the writer has disconnected.        *)
Delivered == IF wpc = "done" THEN position ELSE Sent

WriterInv ==
  /\ \E k \in Nat : Sent = k * BUFFER_SIZE
  /\ wpc = "done" <=> to_send <= 0
  /\ AtChunk => link = "open"
  /\ wpc \in {"write", "rewrite", "disconnect"} => length = ChunkLength

Together ==
  /\ wpc = "ask" => rpc = "answer"
  /\ rpc = "answer" => wpc \in {"ask", "write", "crashed"}
  /\ wpc = "write" => rpc \in {"answer", "copy", "leave"}
  /\ wpc \in {"rewrite", "disconnect"} => rpc \in {"copy", "leave"}

ReaderInv ==
  /\ rpc \in {"down", "listen"} => received = Delivered
  /\ rpc = "answer" => received = Sent
  /\ rpc = "copy" =>
       IF AtChunk THEN received = Sent ELSE received + length = Delivered
  /\ rpc = "leave" =>
       received = IF AtChunk THEN Sent + ChunkLength ELSE Delivered
  /\ rpc = "done" =>
       wpc = "done" /\ received = position /\ received % BUFFER_SIZE # 0

BufferInv ==
  /\ rpc \in {"copy", "leave"} /\ AtChunk => Len(server_buffer) = length
  /\ rpc = "copy" /\ wpc # "write" =>
       server_buffer = SubSeq(Image, received + 1, received + length)
  /\ ~overtaken => buffer = SubSeq(Image, 1, received)

IInv == TypeOK /\ WriterInv /\ Together /\ ReaderInv /\ BufferInv

-----------------------------------------------------------------------------
(* The length of a chunk: what is left, but at most BUFFER_SIZE.           *)
LEMMA ChunkLengthIs ==
  ASSUME to_send \in Int
  PROVE  ChunkLength = IF to_send <= BUFFER_SIZE THEN to_send ELSE BUFFER_SIZE
<1> DEFINE S == {to_send, BUFFER_SIZE}
           m == IF to_send <= BUFFER_SIZE THEN to_send ELSE BUFFER_SIZE
<1>1. m \in S /\ \A y \in S : m <= y
  BY SizeAssumption
<1>2. \A x \in S : (\A y \in S : x <= y) => x = m
  BY SizeAssumption
<1>3. Min(S) = CHOOSE x \in S : \A y \in S : x <= y
  BY DEF Min
<1> QED
  BY <1>1, <1>2, <1>3, Zenon DEF ChunkLength

(* A part of the image.                                                    *)
LEMMA PartOfImage ==
  ASSUME position \in 1..MaxSize,
         NEW i \in Nat, NEW n \in Nat, i + n <= position
  PROVE  /\ SubSeq(Image, i + 1, i + n) \in Seq(Byte)
         /\ Len(SubSeq(Image, i + 1, i + n)) = n
         /\ \A m \in 1..n : SubSeq(Image, i + 1, i + n)[m] = i + m
<1>1. \A m \in i + 1..i + n : Image[m] \in Byte /\ Image[m] = m
  BY SizeAssumption DEF Image, Byte
<1> HIDE DEF Image, Byte
<1>2. /\ SubSeq(Image, i + 1, i + n) \in Seq(Byte)
      /\ Len(SubSeq(Image, i + 1, i + n)) =
           IF i + 1 <= i + n THEN (i + n) - (i + 1) + 1 ELSE 0
      /\ \A m \in 1..(i + n) - (i + 1) + 1 :
           SubSeq(Image, i + 1, i + n)[m] = Image[(i + 1) + m - 1]
  <2>1. i + 1 \in Int /\ i + n \in Int
    OBVIOUS
  <2> QED
    BY <1>1, <2>1, SubSeqProperties
<1> QED
  BY <1>1, <1>2

(* Two parts of the image that follow each other.                          *)
LEMMA PartsMeet ==
  ASSUME position \in 1..MaxSize,
         NEW i \in Nat, NEW n \in Nat, i + n <= position
  PROVE  SubSeq(Image, 1, i) \o SubSeq(Image, i + 1, i + n)
           = SubSeq(Image, 1, i + n)
<1>1. Image \in Seq(Byte) /\ Len(Image) = position
  BY SizeAssumption DEF Image, Byte
<1>2. 1 \in 1..position + 1 /\ i \in 1 - 1..position /\ i + n \in i..position
  OBVIOUS
<1> HIDE DEF Image, Byte
<1> QED
  BY <1>1, <1>2, ConcatAdjacentSubSeq

(* A multiple of the length of a chunk leaves no rest.                     *)
LEMMA NoRest ==
  ASSUME NEW k \in Nat
  PROVE  (k * BUFFER_SIZE) % BUFFER_SIZE = 0
BY SizeAssumption

(* The next chunk ends at the next multiple.                               *)
LEMMA NextMultiple ==
  ASSUME NEW k \in Nat
  PROVE  k * BUFFER_SIZE + BUFFER_SIZE = (k + 1) * BUFFER_SIZE
BY SizeAssumption

-----------------------------------------------------------------------------
(* What the parts of the invariant say of the writer's numbers.            *)
LEMMA Numbers ==
  ASSUME TypeOK, WriterInv
  PROVE  /\ BUFFER_SIZE \in Nat \ {0} /\ MaxSize \in Nat \ {0}
         /\ position \in Nat /\ to_send \in Int /\ Sent \in Nat
         /\ Sent + to_send = position
         /\ ChunkLength = IF to_send <= BUFFER_SIZE THEN to_send ELSE BUFFER_SIZE
         /\ wpc # "done" => ChunkLength \in 1..BUFFER_SIZE
                            /\ Sent + ChunkLength <= position
<1>1. /\ BUFFER_SIZE \in Nat \ {0} /\ MaxSize \in Nat \ {0}
      /\ position \in Nat /\ to_send \in Int
  BY SizeAssumption DEF TypeOK
<1>2. ChunkLength = IF to_send <= BUFFER_SIZE THEN to_send ELSE BUFFER_SIZE
  BY <1>1, ChunkLengthIs
<1>3. Sent \in Nat /\ Sent + to_send = position
  <2>1. PICK k \in Nat : Sent = k * BUFFER_SIZE
    BY DEF WriterInv
  <2>2. k * BUFFER_SIZE \in Nat
    BY <1>1
  <2> QED
    BY <1>1, <2>1, <2>2 DEF Sent
<1>4. wpc # "done" => to_send > 0
  BY <1>1 DEF WriterInv
<1> QED
  BY <1>1, <1>2, <1>3, <1>4

LEMMA InitHolds == Init => IInv
<1> SUFFICES ASSUME Init PROVE IInv
  OBVIOUS
<1>1. position \in Nat \ {0} /\ to_send = position /\ Sent = 0
  BY SizeAssumption DEF Init, Sent
<1>2. TypeOK
  <2>1. <<>> \in Seq(Byte)
    BY EmptySeq
  <2>2. to_send \in (1 - BUFFER_SIZE)..MaxSize /\ 0 \in 0..BUFFER_SIZE /\ 0 \in Nat
    BY <1>1, SizeAssumption DEF Init
  <2> QED
    BY <2>1, <2>2, Zenon DEF Init, TypeOK
<1>3. WriterInv
  <2>1. Sent = 0 * BUFFER_SIZE /\ 0 \in Nat
    BY <1>1, SizeAssumption
  <2> QED
    BY <1>1, <2>1 DEF Init, WriterInv, AtChunk
<1>4. Together /\ ReaderInv
  BY <1>1 DEF Init, Together, ReaderInv, Delivered
<1>5. BufferInv
  BY <1>1, SubSeqEmpty DEF Init, BufferInv
<1> QED
  BY <1>2, <1>3, <1>4, <1>5 DEF IInv

(* start_rdma_server's connection is accepted.                             *)
LEMMA ConnectKeeps == IInv /\ Connect => IInv'
<1> SUFFICES ASSUME IInv, Connect PROVE IInv'
  OBVIOUS
<1>1. /\ TypeOK /\ WriterInv /\ ReaderInv /\ BufferInv
      /\ wpc = "connect" /\ rpc = "listen" /\ wpc' = "ask" /\ rpc' = "answer"
      /\ link' = "open" /\ length' = 0
      /\ UNCHANGED <<debug, position, to_send, server_buffer, received, buffer, overtaken>>
  BY DEF IInv, Connect, image
<1>2. Sent' = Sent /\ Image' = Image
  BY <1>1 DEF Sent, Image
<1>3. TypeOK'
  BY <1>1, Numbers DEF TypeOK
<1>4. WriterInv'
  BY <1>1, <1>2 DEF WriterInv, AtChunk
<1>5. Together' /\ ReaderInv'
  BY <1>1, <1>2 DEF Together, ReaderInv, Delivered
<1>6. BufferInv'
  BY <1>1, <1>2 DEF BufferInv
<1> QED
  BY <1>3, <1>4, <1>5, <1>6 DEF IInv

LEMMA ConnectFailsKeeps == IInv /\ ConnectFails => IInv'
<1> SUFFICES ASSUME IInv, ConnectFails PROVE IInv'
  OBVIOUS
<1>1. /\ TypeOK /\ WriterInv /\ Together /\ ReaderInv /\ BufferInv
      /\ wpc = "connect" /\ wpc' \in {"hung", "crashed"}
      /\ UNCHANGED <<debug, position, to_send, link, length, server_buffer, rpc,
                     received, buffer, overtaken>>
  BY DEF IInv, ConnectFails, reader, image
<1>2. Sent' = Sent /\ Image' = Image /\ Delivered' = Delivered /\ ~AtChunk /\ ~AtChunk'
  BY <1>1 DEF Sent, Image, Delivered, AtChunk
<1>3. TypeOK'
  BY <1>1 DEF TypeOK
<1>4. WriterInv'
  BY <1>1, <1>2 DEF WriterInv
<1>5. Together' /\ ReaderInv'
  BY <1>1, <1>2 DEF Together, ReaderInv
<1>6. BufferInv'
  BY <1>1, <1>2 DEF BufferInv
<1> QED
  BY <1>3, <1>4, <1>5, <1>6 DEF IInv

(* The writer ends where it logs bytes that the image does not have.       *)
LEMMA ReadPastTheEndKeeps == IInv /\ ReadPastTheEnd => IInv'
<1> SUFFICES ASSUME IInv, ReadPastTheEnd PROVE IInv'
  OBVIOUS
<1>1. /\ TypeOK /\ WriterInv /\ Together /\ ReaderInv /\ BufferInv
      /\ wpc = "ask" /\ rpc = "answer" /\ wpc' = "crashed"
      /\ UNCHANGED <<debug, position, to_send, link, length, server_buffer, rpc,
                     received, buffer, overtaken>>
  BY DEF IInv, ReadPastTheEnd, reader, Together, image
<1>2. Sent' = Sent /\ Image' = Image /\ ~AtChunk'
  BY <1>1 DEF Sent, Image, AtChunk
<1>3. TypeOK'
  BY <1>1 DEF TypeOK
<1>4. WriterInv'
  BY <1>1, <1>2 DEF WriterInv
<1>5. Together' /\ ReaderInv'
  BY <1>1, <1>2 DEF Together, ReaderInv
<1>6. BufferInv'
  BY <1>1, <1>2 DEF BufferInv
<1> QED
  BY <1>3, <1>4, <1>5, <1>6 DEF IInv

(* client_xchange_metadata_with_server.                                    *)
LEMMA AskKeeps == IInv /\ Ask => IInv'
<1> SUFFICES ASSUME IInv, Ask PROVE IInv'
  OBVIOUS
<1>1. /\ TypeOK /\ WriterInv /\ Together /\ ReaderInv /\ BufferInv
      /\ wpc = "ask" /\ rpc = "answer" /\ wpc' = "write" /\ length' = ChunkLength
      /\ UNCHANGED <<debug, position, to_send, link, server_buffer, rpc,
                     received, buffer, overtaken>>
  BY DEF IInv, Ask, reader, Together, image
<1>2. /\ Sent' = Sent /\ Image' = Image /\ ChunkLength' = ChunkLength
      /\ AtChunk /\ AtChunk'
  BY <1>1 DEF Sent, Image, ChunkLength, AtChunk
<1>3. TypeOK'
  BY <1>1, Numbers DEF TypeOK
<1>4. WriterInv'
  BY <1>1, <1>2 DEF WriterInv
<1>5. Together' /\ ReaderInv'
  BY <1>1, <1>2 DEF Together, ReaderInv
<1>6. BufferInv'
  BY <1>1, <1>2 DEF BufferInv
<1> QED
  BY <1>3, <1>4, <1>5, <1>6 DEF IInv

(* client_remote_memory_ops: the first write, and the same again.          *)
LEMMA WritesKeep == IInv /\ (Write \/ Rewrite) => IInv'
<1> SUFFICES ASSUME IInv, Write \/ Rewrite PROVE IInv'
  OBVIOUS
<1>1. /\ TypeOK /\ WriterInv /\ Together /\ ReaderInv /\ BufferInv
      /\ wpc \in {"write", "rewrite"} /\ rpc \in {"copy", "leave"}
      /\ wpc' \in {"rewrite", "disconnect"}
      /\ server_buffer' = Chunk /\ length = ChunkLength
      /\ UNCHANGED <<debug, position, to_send, link, length, rpc,
                     received, buffer, overtaken>>
  BY DEF IInv, Write, Rewrite, reader, Together, WriterInv, image
<1>2. /\ Sent' = Sent /\ Image' = Image /\ ChunkLength' = ChunkLength
      /\ AtChunk /\ AtChunk'
  BY <1>1 DEF Sent, Image, ChunkLength, AtChunk
<1>3. Chunk \in Seq(Byte) /\ Len(Chunk) = length
  <2>1. /\ Sent \in Nat /\ ChunkLength \in Nat /\ Sent + ChunkLength <= position
        /\ position \in 1..MaxSize
    BY <1>1, Numbers DEF TypeOK
  <2> QED
    BY <1>1, <2>1, PartOfImage DEF Chunk
<1>4. TypeOK'
  BY <1>1, <1>3 DEF TypeOK, Byte
<1>5. WriterInv'
  BY <1>1, <1>2 DEF WriterInv
<1>6. Together' /\ ReaderInv'
  BY <1>1, <1>2 DEF Together, ReaderInv
<1>7. BufferInv'
  BY <1>1, <1>2, <1>3 DEF BufferInv, Chunk, ReaderInv
<1> QED
  BY <1>4, <1>5, <1>6, <1>7 DEF IInv

(* client_disconnect_and_clean.  What the reader has not copied yet stays  *)
(* in the buffer; the numbers of the two ends are now those of the chunk's *)
(* end.                                                                    *)
LEMMA DisconnectKeeps == IInv /\ Disconnect => IInv'
<1> SUFFICES ASSUME IInv, Disconnect PROVE IInv'
  OBVIOUS
<1>1. /\ TypeOK /\ WriterInv /\ Together /\ ReaderInv /\ BufferInv
      /\ wpc = "disconnect" /\ rpc \in {"copy", "leave"}
      /\ to_send' = to_send - BUFFER_SIZE
      /\ wpc' = IF to_send - BUFFER_SIZE > 0 THEN "connect" ELSE "done"
      /\ link' = "closed" /\ length = ChunkLength
      /\ UNCHANGED <<debug, position, length, server_buffer, rpc,
                     received, buffer, overtaken>>
  BY DEF IInv, Disconnect, SomethingLeft, reader, Together, WriterInv, image
<1>2. /\ BUFFER_SIZE \in Nat \ {0} /\ position \in Nat /\ to_send \in Int
      /\ Sent \in Nat /\ Sent + to_send = position
      /\ ChunkLength = IF to_send <= BUFFER_SIZE THEN to_send ELSE BUFFER_SIZE
      /\ to_send > 0 /\ to_send <= MaxSize /\ MaxSize \in Nat
  <2>1. wpc # "done" => to_send > 0
    BY <1>1, Numbers DEF WriterInv
  <2> QED
    BY <1>1, <2>1, Numbers DEF TypeOK
<1>3. /\ Sent' = Sent + BUFFER_SIZE /\ Image' = Image
      /\ Delivered' = Sent + ChunkLength /\ AtChunk /\ ~AtChunk'
  BY <1>1, <1>2 DEF Sent, Image, Delivered, AtChunk
<1>4. TypeOK'
  BY <1>1, <1>2 DEF TypeOK, Byte
<1>5. WriterInv'
  <2>1. \E k \in Nat : Sent' = k * BUFFER_SIZE
    <3>1. PICK k \in Nat : Sent = k * BUFFER_SIZE
      BY <1>1 DEF WriterInv
    <3>2. Sent' = (k + 1) * BUFFER_SIZE /\ k + 1 \in Nat
      BY <1>3, <3>1, NextMultiple
    <3> QED
      BY <3>2
  <2>2. wpc' = "done" <=> to_send' <= 0
    BY <1>1, <1>2
  <2> QED
    BY <1>1, <1>3, <2>1, <2>2 DEF WriterInv
<1>6. Together' /\ ReaderInv'
  BY <1>1, <1>3 DEF Together, ReaderInv
<1>7. BufferInv'
  BY <1>1, <1>3 DEF BufferInv
<1> QED
  BY <1>4, <1>5, <1>6, <1>7 DEF IInv

LEMMA ListenKeeps == IInv /\ Listen => IInv'
<1> SUFFICES ASSUME IInv, Listen PROVE IInv'
  OBVIOUS
<1>1. /\ TypeOK /\ WriterInv /\ Together /\ ReaderInv /\ BufferInv
      /\ rpc = "down" /\ rpc' = "listen" /\ link' = "none"
      /\ UNCHANGED <<debug, position, to_send, wpc, length, server_buffer,
                     received, buffer, overtaken>>
  BY DEF IInv, Listen, writer, image
<1>2. Sent' = Sent /\ Image' = Image /\ Delivered' = Delivered /\ ~AtChunk /\ ~AtChunk'
  BY <1>1 DEF Sent, Image, Delivered, AtChunk, Together
<1>3. TypeOK'
  BY <1>1 DEF TypeOK
<1>4. WriterInv'
  BY <1>1, <1>2 DEF WriterInv, ChunkLength
<1>5. Together' /\ ReaderInv'
  BY <1>1, <1>2 DEF Together, ReaderInv
<1>6. BufferInv'
  BY <1>1, <1>2 DEF BufferInv
<1> QED
  BY <1>3, <1>4, <1>5, <1>6 DEF IInv

(* send_server_metadata_to_client.                                         *)
LEMMA AnswerKeeps == IInv /\ Answer => IInv'
<1> SUFFICES ASSUME IInv, Answer PROVE IInv'
  OBVIOUS
<1>1. /\ TypeOK /\ WriterInv /\ Together /\ ReaderInv /\ BufferInv
      /\ rpc = "answer" /\ wpc = "write" /\ rpc' = "copy"
      /\ server_buffer' = Zeroed(length) /\ length = ChunkLength
      /\ UNCHANGED <<debug, position, to_send, wpc, link, length,
                     received, buffer, overtaken>>
  BY DEF IInv, Answer, writer, WriterInv, image
<1>2. /\ Sent' = Sent /\ Image' = Image /\ ChunkLength' = ChunkLength
      /\ AtChunk /\ AtChunk'
  BY <1>1 DEF Sent, Image, ChunkLength, AtChunk
<1>3. Zeroed(length) \in Seq(Byte) /\ Len(Zeroed(length)) = length
  BY <1>1, SizeAssumption DEF Zeroed, Byte, TypeOK
<1>4. TypeOK'
  BY <1>1, <1>3 DEF TypeOK, Byte
<1>5. WriterInv'
  BY <1>1, <1>2 DEF WriterInv
<1>6. Together' /\ ReaderInv'
  BY <1>1, <1>2 DEF Together, ReaderInv
<1>7. BufferInv'
  BY <1>1, <1>2, <1>3 DEF BufferInv
<1> QED
  BY <1>4, <1>5, <1>6, <1>7 DEF IInv

(* The reader adds what it finds in its buffer.  If the write has landed   *)
(* that is the next part of the image.                                     *)
LEMMA CopyKeeps == IInv /\ Copy => IInv'
<1> SUFFICES ASSUME IInv, Copy PROVE IInv'
  OBVIOUS
<1>1. /\ TypeOK /\ WriterInv /\ Together /\ ReaderInv /\ BufferInv
      /\ rpc = "copy" /\ rpc' = "leave"
      /\ received' = received + length /\ buffer' = buffer \o server_buffer
      /\ overtaken' = (overtaken \/ wpc = "write")
      /\ UNCHANGED <<debug, position, to_send, wpc, link, length, server_buffer>>
  BY DEF IInv, Copy, writer, image
<1>2. /\ Sent' = Sent /\ Image' = Image /\ ChunkLength' = ChunkLength
      /\ Delivered' = Delivered /\ AtChunk' = AtChunk
  BY <1>1 DEF Sent, Image, ChunkLength, Delivered, AtChunk
<1>3. AtChunk => length = ChunkLength /\ wpc # "ask"
  BY <1>1 DEF WriterInv, Together, AtChunk
<1>4. TypeOK'
  BY <1>1 DEF TypeOK, Byte
<1>5. WriterInv'
  BY <1>1, <1>2 DEF WriterInv
<1>6. Together' /\ ReaderInv'
  BY <1>1, <1>2, <1>3 DEF Together, ReaderInv, AtChunk
<1>7. BufferInv'
  <2>1. ~overtaken' => buffer' = SubSeq(Image, 1, received')
    <3> SUFFICES ASSUME ~overtaken, wpc # "write"
                 PROVE  buffer \o server_buffer = SubSeq(Image, 1, received + length)
      BY <1>1
    <3>1. /\ buffer = SubSeq(Image, 1, received)
          /\ server_buffer = SubSeq(Image, received + 1, received + length)
      BY <1>1 DEF BufferInv
    <3>2. /\ received \in Nat /\ length \in Nat /\ received + length <= position
          /\ position \in 1..MaxSize
      <4>1. Sent + ChunkLength <= position \/ wpc = "done"
        BY <1>1, Numbers
      <4>2. Delivered <= position
        BY <1>1, Numbers DEF Delivered, WriterInv
      <4>3. received + length = IF AtChunk THEN Sent + ChunkLength ELSE Delivered
        BY <1>1, <1>3 DEF ReaderInv
      <4>4. wpc = "done" => ~AtChunk
        BY DEF AtChunk
      <4>5. received + length <= position
        BY <4>1, <4>2, <4>3, <4>4
      <4> QED
        BY <1>1, <4>5 DEF TypeOK
    <3> QED
      BY <3>1, <3>2, PartsMeet
  <2>2. AtChunk' => Len(server_buffer') = length'
    BY <1>1, <1>2 DEF BufferInv
  <2> QED
    BY <1>1, <1>2, <2>1, <2>2 DEF BufferInv
<1> QED
  BY <1>4, <1>5, <1>6, <1>7 DEF IInv

(* disconnect_and_cleanup: the writer has disconnected before, and the     *)
(* chunk that leaves a rest was its last.                                  *)
LEMMA LeaveKeeps == IInv /\ Leave => IInv'
<1> SUFFICES ASSUME IInv, Leave PROVE IInv'
  OBVIOUS
<1>1. /\ TypeOK /\ WriterInv /\ Together /\ ReaderInv /\ BufferInv
      /\ rpc = "leave" /\ link = "closed" /\ server_buffer' = <<>>
      /\ rpc' = IF received % BUFFER_SIZE = 0 THEN "down" ELSE "done"
      /\ UNCHANGED <<debug, position, to_send, wpc, link, length,
                     received, buffer, overtaken>>
  BY DEF IInv, Leave, Disconnected, MoreToCome, writer, image
<1>2. /\ Sent' = Sent /\ Image' = Image /\ Delivered' = Delivered
      /\ ~AtChunk /\ ~AtChunk'
  BY <1>1 DEF Sent, Image, Delivered, AtChunk, WriterInv
<1>3. received = Delivered
  BY <1>1, <1>2 DEF ReaderInv
<1>4. TypeOK'
  BY <1>1 DEF TypeOK
<1>5. WriterInv'
  BY <1>1, <1>2 DEF WriterInv, ChunkLength
<1>6. received % BUFFER_SIZE # 0 => wpc = "done" /\ received = position
  <2>1. PICK k \in Nat : Sent = k * BUFFER_SIZE
    BY <1>1 DEF WriterInv
  <2>2. Sent % BUFFER_SIZE = 0
    BY <2>1, NoRest
  <2> QED
    BY <1>3, <2>2 DEF Delivered
<1>7. Together'
  BY <1>1, <1>2 DEF Together, AtChunk
<1>8. ReaderInv'
  BY <1>1, <1>2, <1>3, <1>6 DEF ReaderInv
<1>9. BufferInv'
  BY <1>1, <1>2 DEF BufferInv
<1> QED
  BY <1>4, <1>5, <1>7, <1>8, <1>9 DEF IInv

(* IInv is inductive.                                                      *)
LEMMA StepKeeps == IInv /\ [Next]_vars => IInv'
<1> SUFFICES ASSUME IInv, [Next]_vars PROVE IInv'
  OBVIOUS
<1>1. CASE WriterStep
  BY <1>1, ConnectKeeps, ConnectFailsKeeps, ReadPastTheEndKeeps, AskKeeps,
     WritesKeep, DisconnectKeeps
  DEF WriterStep
<1>2. CASE ReaderStep
  BY <1>2, ListenKeeps, AnswerKeeps, CopyKeeps, LeaveKeeps DEF ReaderStep
<1>3. CASE UNCHANGED vars
  <2>1. /\ UNCHANGED <<debug, position, to_send, wpc, link, length>>
        /\ UNCHANGED <<server_buffer, rpc, received, buffer, overtaken>>
    BY <1>3 DEF vars, writer, reader, image
  <2>2. Sent' = Sent /\ ChunkLength' = ChunkLength /\ Image' = Image
    BY <2>1 DEF Sent, ChunkLength, Image
  <2>3. (AtChunk' <=> AtChunk) /\ Delivered' = Delivered
    BY <2>1, <2>2 DEF AtChunk, Delivered
  <2>4. TypeOK'
    BY <2>1 DEF IInv, TypeOK
  <2>5. WriterInv' /\ Together'
    BY <2>1, <2>2, <2>3 DEF IInv, WriterInv, Together
  <2>6. ReaderInv'
    BY <2>1, <2>2, <2>3 DEF IInv, ReaderInv
  <2>7. BufferInv'
    BY <2>1, <2>2, <2>3 DEF IInv, BufferInv
  <2> QED
    BY <2>4, <2>5, <2>6, <2>7 DEF IInv
<1> QED
  BY <1>1, <1>2, <1>3 DEF Next

LEMMA AlwaysIInv == Spec => []IInv
BY InitHolds, StepKeeps, PTL DEF Spec

-----------------------------------------------------------------------------
(* The variables keep their types; what is left to send never goes below   *)
(* zero by a whole chunk, and no announced length exceeds the buffer.      *)
THEOREM TypeCorrect == Spec => []TypeOK
<1>1. IInv => TypeOK
  BY DEF IInv
<1> QED
  BY <1>1, AlwaysIInv, PTL

(* What is received is the image, unless a copy overtook its write         *)
(* (RDMAReadStream, RDMAWriteStream).                                      *)
THEOREM ReceivedIntact == Spec => []Intact
<1>1. IInv => Intact
  <2> SUFFICES ASSUME IInv, ~overtaken
               PROVE  /\ buffer = SubSeq(Image, 1, received)
                      /\ rpc = "done" => buffer = Image
    BY DEF Intact
  <2>1. buffer = SubSeq(Image, 1, received)
    BY DEF IInv, BufferInv
  <2>2. Image \in Seq(Byte) /\ Len(Image) = position
    BY SizeAssumption DEF Image, Byte, IInv, TypeOK
  <2>3. SubSeq(Image, 1, position) = Image
    BY <2>2, SubSeqFull
  <2>4. rpc = "done" => received = position
    BY DEF IInv, ReaderInv
  <2> QED
    BY <2>1, <2>3, <2>4
<1> QED
  BY <1>1, AlwaysIInv, PTL

(* The reader stops only when the writer has nothing left.                 *)
THEOREM ReaderEndsAtTheEnd == Spec => []EndsAtTheEnd
<1>1. IInv => EndsAtTheEnd
  BY DEF IInv, ReaderInv, EndsAtTheEnd
<1> QED
  BY <1>1, AlwaysIInv, PTL

(* Every one-sided write finds the buffer it was given                     *)
(* (client_remote_memory_ops, disconnect_and_cleanup).                     *)
THEOREM WritesFindTheirBuffer == Spec => []BufferRegistered
<1>1. IInv => BufferRegistered
  BY DEF IInv, BufferInv, WriterInv, Together, AtChunk, BufferRegistered
<1> QED
  BY <1>1, AlwaysIInv, PTL

(* The reader of an image that is a whole number of chunks never stops.    *)
THEOREM FullLastChunkIsNotNoticed == Spec => []MultipleIsNotNoticed
<1>1. IInv => MultipleIsNotNoticed
  BY DEF IInv, ReaderInv, MultipleIsNotNoticed
<1> QED
  BY <1>1, AlwaysIInv, PTL
=============================================================================
