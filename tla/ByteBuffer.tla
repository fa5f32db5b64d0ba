----------------------------- MODULE ByteBuffer -----------------------------
(***************************************************************************)
(* ByteBuffer of client.ts and the loops of ClientIo that read packets and  *)
(* the identification from it.  The buffer is a ring that is stored twice,  *)
(* so that its content is always one contiguous range; chunks that do not   *)
(* fit wait in a queue.  Bytes are numbered in the order of the stream.     *)
(* What the code does to drop chunks from the front of the queue (#queuedStart, *)
(* #discardConsumedChunks) is Tail here.                                    *)
(***************************************************************************)
EXTENDS Naturals, Sequences, SequencesExt

CONSTANTS
  InitialCapacity,   \* Math.min(1024, #maximumLength)
  MaximumLength,     \* Math.max(255, maximumPacketLength + 36)
  MaximumQueued,     \* twice the maximum length
  PacketSizes,       \* bytes that the reader needs before it can consume them
  ChunkSizes,        \* bytes in a chunk of the transport
  StreamLength       \* bytes that the peer sends

(* What the constructor gives (client.ts:1162-1167), and that sizes are numbers. *)
ASSUME BufferAssumption ==
  /\ InitialCapacity \in Nat \ {0} /\ MaximumLength \in Nat /\ InitialCapacity <= MaximumLength
  /\ MaximumQueued \in Nat /\ StreamLength \in Nat
  /\ PacketSizes \subseteq Nat /\ ChunkSizes \subseteq Nat

VARIABLES
  buffer,     \* the ByteBuffer
  need,       \* bytes of the packet, or preamble and identification, being read
  consumed,   \* bytes handed to the reader
  arrived,    \* bytes that the transport has delivered
  refused     \* why reading ended: no reason, a full buffer or the chunk that was too long

bufferVars == <<buffer, need, consumed, arrived, refused>>

Capacity(b) == Len(b.data) \div 2
Full(b) == b.length = Capacity(b)
Contents(b) == SubSeq(b.data, b.start + 1, b.start + b.length)

(* Uint8Array.set, at a position and in the other half of the ring *)
Stored(data, position, bytes) ==
  LET capacity == Len(data) \div 2
      Within(i) == i > position /\ i <= position + Len(bytes)
  IN  [i \in DOMAIN data |->
         IF Within(i) THEN bytes[i - position]
         ELSE IF i > capacity /\ Within(i - capacity) THEN bytes[i - capacity - position]
         ELSE data[i]]

(* A pass of the loop of #fill copies up to the end of the chunk, of the ring or of the room. *)
Pass(b) ==
  LET chunk == Head(b.queue)
      position == (b.start + b.length) % Capacity(b)
      count == Min({Capacity(b) - b.length, Capacity(b) - position, Len(chunk)})
      rest == SubSeq(chunk, count + 1, Len(chunk))
  IN  [b EXCEPT !.data = Stored(@, position, SubSeq(chunk, 1, count)),
                !.length = @ + count,
                !.queue = IF rest = <<>> THEN Tail(@) ELSE <<rest>> \o Tail(@),
                !.queued = @ - count]

Filled(b) == b.queue = <<>> \/ Full(b)

(* #fill: a pass moves a byte at least, so there are at most as many as bytes queued. *)
Fill(b) ==
  LET After[n \in 0..b.queued] ==
        IF n = 0 THEN b
        ELSE LET before == After[n - 1] IN IF Filled(before) THEN before ELSE Pass(before)
  IN  After[b.queued]

Growable(b) == Capacity(b) # MaximumLength

(* Mutant: the start of the content is not reset. *)
GrowKeepsStart(b) ==
  LET capacity == Min({MaximumLength, 2 * Capacity(b)})
      empty == [i \in 1..(2 * capacity) |-> 0]
  IN  [b EXCEPT !.data = Stored(empty, 0, Contents(b))]

Grow(b) ==
  LET capacity == Min({MaximumLength, 2 * Capacity(b)})
      empty == [i \in 1..(2 * capacity) |-> 0]
  IN  [b EXCEPT !.data = Stored(empty, 0, Contents(b)), !.start = 0]

Consume(b, n) ==
  Fill([b EXCEPT !.start = IF b.length = n THEN 0 ELSE (@ + n) % Capacity(b), !.length = @ - n])

(* append: an empty chunk is not queued. *)
Enqueue(b, chunk) ==
  IF chunk = <<>> THEN b
  ELSE Fill([b EXCEPT !.queue = Append(@, chunk), !.queued = @ + Len(chunk)])

BufferInit ==
  /\ buffer = [data |-> [i \in 1..(2 * InitialCapacity) |-> 0], start |-> 0, length |-> 0,
               queue |-> <<>>, queued |-> 0]
  /\ need \in PacketSizes
  /\ consumed = 0 /\ arrived = 0 /\ refused = 0

(* readPayload, readPeerIdentification: what is complete is consumed. *)
TakePacket ==
  /\ refused = 0
  /\ Len(Contents(buffer)) >= need
  /\ buffer' = Consume(buffer, need)
  /\ consumed' = consumed + need
  /\ need' \in PacketSizes
  /\ UNCHANGED <<arrived, refused>>

Starved == refused = 0 /\ buffer.length < need

(* readMore, when drain finds queued chunks *)
Drain ==
  /\ Starved /\ buffer.queue # <<>>
  /\ Full(buffer) => Growable(buffer)
  /\ buffer' = Fill(IF Full(buffer) THEN Grow(buffer) ELSE buffer)
  /\ UNCHANGED <<need, consumed, arrived, refused>>

(* #grow throws in drain or in prepareForAppend. *)
Overflow ==
  /\ Starved /\ Full(buffer) /\ ~Growable(buffer)
  /\ refused' = buffer.length
  /\ UNCHANGED <<buffer, need, consumed, arrived>>

(* readMore: prepareForAppend, then the next chunk, then append *)
ReadChunk ==
  /\ Starved /\ buffer.queue = <<>>
  /\ Full(buffer) => Growable(buffer)
  /\ \E n \in ChunkSizes :
       /\ arrived + n <= StreamLength
       /\ arrived' = arrived + n
       /\ LET b == IF Full(buffer) THEN Grow(buffer) ELSE buffer
          IN  IF n > MaximumQueued - buffer.queued
              THEN refused' = n /\ buffer' = b
              ELSE refused' = 0 /\ buffer' = Enqueue(b, [i \in 1..n |-> arrived + i])
  /\ UNCHANGED <<need, consumed>>

BufferNext == TakePacket \/ Drain \/ Overflow \/ ReadChunk

BufferSpec == BufferInit /\ [][BufferNext]_bufferVars

(* No byte of the stream is lost, repeated or moved by the ring, its growth  *)
(* and the queue; no byte waits in the queue while there is room for it; and *)
(* reading fails only over a packet longer than the buffer may grow or over a *)
(* chunk longer than the queue may hold.                                    *)
StreamKept ==
  /\ Contents(buffer) \o FlattenSeq(buffer.queue)
       = [i \in 1..(buffer.length + buffer.queued) |-> consumed + i]
  /\ refused = 0 => consumed + buffer.length + buffer.queued = arrived
  /\ buffer.queue # <<>> => Full(buffer)
  /\ refused # 0 => need > MaximumLength \/ refused > MaximumQueued
=============================================================================
