----------------------------- MODULE RdmaStream -----------------------------
(***************************************************************************)
(* A snapshot on its way from RDMAWriteStream to RDMAReadStream.           *)
(*                                                                         *)
(* The writer cuts the serialized image into chunks of BUFFER_SIZE bytes.  *)
(* Each chunk has a connection of its own: the writer says how long it is, *)
(* the reader answers with the address of a zeroed buffer of that length,  *)
(* the writer puts the chunk there with one-sided writes and disconnects.  *)
(* Nothing tells the reader that a write has landed: it sleeps 1 us after  *)
(* its answer and copies what it finds.  Nothing tells the writer that the *)
(* reader listens again: it sleeps 200 ms and connects.  The reader takes  *)
(* the first chunk after which the total is not a multiple of BUFFER_SIZE  *)
(* for the last one.                                                       *)
(*                                                                         *)
(* No duration is modelled: either sleep may be too short.  overtaken is a *)
(* history variable: a copy was made before the write had landed.          *)
(*                                                                         *)
(* A build of type Debug, the default one, logs some bytes of the image    *)
(* before it asks for a buffer, and reads past the end of the image to get *)
(* them: in front of the first chunk those at BUFFER_SIZE, whether the     *)
(* image is longer or not.  That is undefined; here it may end the writer. *)
(***************************************************************************)
EXTENDS Integers, Sequences, FiniteSetsExt

CONSTANTS
  BUFFER_SIZE,  \* the length of a chunk (1 GiB in the code)
  Logged,       \* how many bytes of a chunk are logged (4 in the code)
  MaxSize       \* bound on the size of an image

ASSUME SizeAssumption   == BUFFER_SIZE \in Nat \ {0} /\ MaxSize \in Nat \ {0}
ASSUME LoggedAssumption == Logged \in 0..BUFFER_SIZE

VARIABLES
  debug,          \* SPDLOG_DEBUG is compiled in
  position,       \* the writer's: the size of the image
  to_send,        \* the writer's: what is left of it
  wpc,            \* where the writer is
  link,           \* the connection of the current chunk
  length,         \* client_metadata_attr.length
  server_buffer,  \* what server_buffer_mr registers; empty when freed
  rpc,            \* where the reader is
  received,       \* the reader's: the bytes announced so far
  buffer,         \* the reader's: the bytes copied so far
  overtaken       \* history

image  == <<debug, position>>
writer == <<image, to_send, wpc>>
reader == <<rpc, received, buffer, overtaken>>
vars   == <<writer, link, length, server_buffer, reader>>

(* Byte i of an image is the number i; a zeroed byte is 0.                 *)
Byte  == 0..MaxSize
Image == [i \in 1..position |-> i]
Zeroed(n) == [i \in 1..n |-> 0]

TypeOK ==
  /\ debug \in BOOLEAN
  /\ position \in 1..MaxSize
  /\ to_send \in (1 - BUFFER_SIZE)..MaxSize
  /\ wpc \in {"connect", "ask", "write", "rewrite", "disconnect", "done",
              "hung", "crashed"}
  /\ link \in {"none", "open", "closed"}
  /\ length \in 0..BUFFER_SIZE
  /\ server_buffer \in Seq(Byte)
  /\ rpc \in {"down", "listen", "answer", "copy", "leave", "done"}
  /\ received \in Nat
  /\ buffer \in Seq(Byte)
  /\ overtaken \in BOOLEAN

Init ==
  /\ debug \in BOOLEAN
  /\ position \in 1..MaxSize
  /\ to_send = position
  /\ wpc = "connect"
  /\ link = "none"
  /\ length = 0
  /\ server_buffer = <<>>
  /\ rpc = "down"
  /\ received = 0
  /\ buffer = <<>>
  /\ overtaken = FALSE

-----------------------------------------------------------------------------
(***************************************************************************)
(* The writer.                                                             *)
(***************************************************************************)

(* How much of the image comes before the current chunk.                   *)
Sent == position - to_send

(* ~RDMAWriteStream logs bytes that the image does not have.               *)
PastTheEnd ==
  debug /\ IF Sent = 0 THEN position < BUFFER_SIZE + Logged
                      ELSE to_send < Logged

(* start_rdma_server waits for the request that Connect brings.            *)
Connect ==
  /\ wpc = "connect" /\ rpc = "listen"
  /\ wpc' = "ask"
  /\ rpc' = "answer"
  /\ link' = "open"
  /\ length' = 0
  /\ UNCHANGED <<image, to_send, server_buffer, received, buffer,
                 overtaken>>

(* Nobody listens.  The error is logged and the writer goes on as if it    *)
(* were connected: every transfer fails, and client_disconnect_and_clean   *)
(* waits for the end of a connection that never was, if it gets as far.    *)
ConnectFails ==
  /\ wpc = "connect" /\ rpc # "listen"
  /\ wpc' \in IF PastTheEnd THEN {"hung", "crashed"} ELSE {"hung"}
  /\ UNCHANGED <<image, to_send, link, length, server_buffer, reader>>

(* Wrong: the image is not cut.                                            *)
WholeImage == to_send

ChunkLength == Min({to_send, BUFFER_SIZE})

(* To read them may do no harm, or be the end of the writer; the reader    *)
(* then goes on waiting for the length of the chunk.                       *)
ReadPastTheEnd ==
  /\ wpc = "ask"
  /\ PastTheEnd
  /\ wpc' = "crashed"
  /\ UNCHANGED <<image, to_send, link, length, server_buffer, reader>>

(* client_xchange_metadata_with_server.                                    *)
Ask ==
  /\ wpc = "ask"
  /\ wpc' = "write"
  /\ length' = ChunkLength
  /\ UNCHANGED <<image, to_send, link, server_buffer, reader>>

(* Wrong: every chunk is taken from the beginning of the image.            *)
FromBeginning == SubSeq(Image, 1, ChunkLength)

Chunk == SubSeq(Image, Sent + 1, Sent + ChunkLength)

(* client_remote_memory_ops posts the same write twice.                    *)
Write ==
  /\ wpc = "write" /\ rpc \notin {"listen", "answer"}
  /\ server_buffer' = Chunk
  /\ wpc' = "rewrite"
  /\ UNCHANGED <<image, to_send, link, length, reader>>

Rewrite ==
  /\ wpc = "rewrite"
  /\ server_buffer' = Chunk
  /\ wpc' = "disconnect"
  /\ UNCHANGED <<image, to_send, link, length, reader>>

(* Wrong: a short last chunk is forgotten.                                 *)
WholeChunkLeft == to_send >= 2 * BUFFER_SIZE

SomethingLeft == to_send - BUFFER_SIZE > 0

(* client_disconnect_and_clean, and after a pause the next connection.     *)
Disconnect ==
  /\ wpc = "disconnect"
  /\ link' = "closed"
  /\ to_send' = to_send - BUFFER_SIZE
  /\ wpc' = IF SomethingLeft THEN "connect" ELSE "done"
  /\ UNCHANGED <<image, length, server_buffer, reader>>

-----------------------------------------------------------------------------
(***************************************************************************)
(* The reader.                                                             *)
(***************************************************************************)
Listen ==
  /\ rpc = "down"
  /\ rpc' = "listen"
  /\ link' = "none"
  /\ UNCHANGED <<writer, length, server_buffer, received, buffer, overtaken>>

(* send_server_metadata_to_client.                                         *)
Answer ==
  /\ rpc = "answer" /\ wpc = "write"
  /\ server_buffer' = Zeroed(length)
  /\ rpc' = "copy"
  /\ UNCHANGED <<writer, link, length, received, buffer, overtaken>>

Copy ==
  /\ rpc = "copy"
  /\ received' = received + length
  /\ buffer' = buffer \o server_buffer
  /\ overtaken' = (overtaken \/ wpc = "write")
  /\ rpc' = "leave"
  /\ UNCHANGED <<writer, link, length, server_buffer>>

(* Wrong: the buffer is freed without waiting for the writer.              *)
Hangup == TRUE

(* The event that disconnect_and_cleanup waits for.                        *)
Disconnected == link = "closed"

(* Wrong: the second chunk is the last.                                    *)
FirstOnly == received = BUFFER_SIZE

MoreToCome == received % BUFFER_SIZE = 0

(* disconnect_and_cleanup.                                                 *)
Leave ==
  /\ rpc = "leave"
  /\ Disconnected
  /\ server_buffer' = <<>>
  /\ rpc' = IF MoreToCome THEN "down" ELSE "done"
  /\ UNCHANGED <<writer, link, length, received, buffer, overtaken>>

-----------------------------------------------------------------------------
WriterStep ==
  \/ Connect \/ ConnectFails \/ ReadPastTheEnd \/ Ask
  \/ Write \/ Rewrite \/ Disconnect
ReaderStep == Listen \/ Answer \/ Copy \/ Leave

Next == WriterStep \/ ReaderStep

Spec == Init /\ [][Next]_vars

(***************************************************************************)
(* Fairness.  Both ends are sequential code that waits only for the other: *)
(* each takes its next step when it can.                                   *)
(***************************************************************************)
Fairness == WF_vars(WriterStep) /\ WF_vars(ReaderStep)

FairSpec == Spec /\ Fairness

-----------------------------------------------------------------------------
(***************************************************************************)
(* Properties.                                                             *)
(***************************************************************************)

(* However the two ends interleave, what is received is the image, unless  *)
(* a copy overtook its write: nothing is lost, doubled or misplaced at a   *)
(* chunk boundary, although every write is posted twice.                   *)
Intact == ~overtaken =>
  /\ buffer = SubSeq(Image, 1, received)
  /\ rpc = "done" => buffer = Image

(* The reader stops only when the writer has nothing left, even if a copy  *)
(* was overtaken: a short chunk is the last one.                           *)
EndsAtTheEnd == rpc = "done" => received = position /\ wpc = "done"

(* A one-sided write finds the registered buffer it was given: the reader  *)
(* frees it only after the writer has disconnected.                        *)
BufferRegistered ==
  \/ wpc \in {"rewrite", "disconnect"}
  \/ wpc = "write" /\ rpc \in {"copy", "leave"}
  => Len(server_buffer) = ChunkLength

(* An image that a Debug build logs without reading past its end: it has   *)
(* the bytes behind the first chunk, and its last chunk has them as well.  *)
LogsWithin ==
  position >= BUFFER_SIZE + Logged /\ position % BUFFER_SIZE >= Logged

(* A writer that has been let in never waits in vain: the transfer of an   *)
(* image whose size is not a multiple of BUFFER_SIZE ends on both sides    *)
(* unless a connection was refused.  Of a writer that reads past the image *)
(* nothing is claimed: a Debug build does so with every image that is not  *)
(* longer than BUFFER_SIZE.                                                *)
ReaderEnds ==
  (position % BUFFER_SIZE # 0 /\ (debug => LogsWithin))
    ~> rpc = "done" \/ wpc = "hung"

(* The loop test of the reader cannot tell a full last chunk from a full   *)
(* chunk before the last: the writer's end is the reader's end exactly     *)
(* when the size of the image is not a multiple of BUFFER_SIZE.            *)
MultipleIsNotNoticed == position % BUFFER_SIZE = 0 => rpc # "done"
=============================================================================
