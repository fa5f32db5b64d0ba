------------------------------- MODULE Cipher -------------------------------
(***************************************************************************)
(* One direction of the protected transport: SSHAesCtrHmacSha256 of         *)
(* cipher.ts at the writer and at the reader.  Encryption is symbolic: a    *)
(* packet carries the counter of its first block and the sequence number of *)
(* its MAC, and the reader decrypts and authenticates it exactly when its   *)
(* own counter and sequence number are those.                               *)
(***************************************************************************)
EXTENDS Integers, Sequences, PacketLayout, Sums

CONSTANTS
  ByteValues,      \* values of one byte of the counter
  CounterBytes,    \* bytes of the counter
  SequenceNumbers,      \* sequence numbers
  InitialCounter,  \* the counter derived by the key exchange
  Block,           \* AES_BLOCK_SIZE, in bytes
  PacketLimit,   \* #maximumPacketLength
  Payloads,        \* lengths of the payloads
  MaxPackets       \* packets under way at once

VARIABLES
  writer,   \* #counter and #sequence of the writing cipher
  reader,   \* #counter and #sequence of the reading cipher
  underway,     \* packets written and not consumed
  received,  \* encrypted blocks of the first of them in the receive buffer, its MAC counted as one
  outcome   \* "open", or what ended the direction

cipherVars == <<writer, reader, underway, received, outcome>>

Counter == [1..CounterBytes -> 0..(ByteValues - 1)]

(* The number of all counters. *)
Counters ==
  LET Power[i \in 0..CounterBytes] == IF i = 0 THEN 1 ELSE Power[i - 1] * ByteValues
  IN  Power[CounterBytes]

(* A counter as a number, its first byte the most significant one. *)
ValueOf(counter) ==
  LET Upto[i \in 0..CounterBytes] == IF i = 0 THEN 0 ELSE Upto[i - 1] * ByteValues + counter[i]
  IN  Upto[CounterBytes]

(* Mutant: only the last byte is counted, without a carry. *)
IncrementedLast(counter) ==
  [counter EXCEPT ![CounterBytes] = (@ + 1) % ByteValues]

(* One pass of #advance: bytes are counted up from the last one until one does not wrap. *)
Incremented(counter) ==
  [i \in 1..CounterBytes |->
     IF \A j \in (i + 1)..CounterBytes : counter[j] = ByteValues - 1
     THEN (counter[i] + 1) % ByteValues ELSE counter[i]]

Advance(counter, blocks) ==
  LET After[n \in 0..blocks] == IF n = 0 THEN counter ELSE Incremented(After[n - 1])
  IN  After[blocks]

Blocks(packet) == (packet.length + 4) \div Block

(* The blocks of the packets under way are never more than all counters. *)
ASSUME CipherAssumption ==
  /\ Block \in BlockSizes /\ PacketLimit \in Nat /\ Payloads \subseteq Nat
  /\ SequenceNumbers \in Nat \ {0}
  /\ ByteValues \in Nat \ {0} /\ CounterBytes \in Nat /\ InitialCounter \in Counter
  /\ MaxPackets \in Nat
  /\ MaxPackets * ((PacketLimit + 4) \div Block) <= Counters

Stepped(end, blocks) ==
  [counter |-> Advance(end.counter, blocks), sequence |-> (end.sequence + 1) % SequenceNumbers]

CipherInit ==
  /\ writer = [counter |-> InitialCounter, sequence |-> 0]
  /\ reader = writer
  /\ underway = <<>> /\ received = 0 /\ outcome = "open"

(* encrypt: formatPacket throws before the counter and the sequence number move. *)
Encrypt ==
  /\ outcome = "open"
  /\ Len(underway) < MaxPackets
  /\ \E payload \in Payloads :
       LET packet == PacketOf(payload, Block)
       IN  IF LayoutAccepted(packet, Block, PacketLimit)
           THEN /\ underway' = Append(underway, [packet |-> packet, payload |-> payload, at |-> writer])
                /\ writer' = Stepped(writer, Blocks(packet))
                /\ UNCHANGED outcome
           ELSE outcome' = "tooLong" /\ UNCHANGED <<underway, writer>>
  /\ UNCHANGED <<reader, received>>

BlockArrives ==
  /\ outcome = "open" /\ underway # <<>>
  /\ received < Blocks(Head(underway).packet) + 1
  /\ received' = received + 1
  /\ UNCHANGED <<writer, reader, underway, outcome>>

(* read decrypts the first block for the length as often as it is called, and *)
(* the whole packet once it is there.  A wrong counter or sequence number     *)
(* shows as a length, a layout or a MAC that is refused.                      *)
Deciphers(end, sealed) == end = sealed.at

Read ==
  /\ outcome = "open" /\ underway # <<>> /\ received > 0
  /\ LET sealed == Head(underway)
     IN  IF ~Deciphers(reader, sealed) \/ ~LayoutAccepted(sealed.packet, Block, PacketLimit)
         THEN outcome' = "refused" /\ UNCHANGED <<reader, underway, received>>
         ELSE IF received < Blocks(sealed.packet) + 1
         THEN UNCHANGED <<reader, underway, received, outcome>>
         ELSE /\ reader' = Stepped(reader, Blocks(sealed.packet))
              /\ underway' = Tail(underway) /\ received' = 0
              /\ UNCHANGED outcome
  /\ UNCHANGED writer

CipherNext == Encrypt \/ BlockArrives \/ Read

CipherSpec == CipherInit /\ [][CipherNext]_cipherVars

(* No packet is refused, and its payload comes out as long as it went in. *)
NoneRefused ==
  /\ outcome # "refused"
  /\ \A n \in 1..Len(underway) : PayloadLength(underway[n].packet) = underway[n].payload

(* The sequence numbers differ by the packets under way, modulo all of them. *)
SequencesInStep == writer.sequence = (reader.sequence + Len(underway)) % SequenceNumbers

(* The blocks of the first n packets under way. *)
Under(n) == SumOf([i \in 1..n |-> Blocks(underway[i].packet)])

(* The counters that the blocks of the packet n are encrypted with. *)
Used(n) ==
  {(ValueOf(underway[n].at.counter) + b) % Counters : b \in 0..(Blocks(underway[n].packet) - 1)}

CountersInStep ==
  ValueOf(writer.counter) = (ValueOf(reader.counter) + Under(Len(underway))) % Counters

CountersUsedOnce == \A m, n \in 1..Len(underway) : m # n => Used(m) \cap Used(n) = {}

(* The two ciphers of a direction never part: besides, the counters differ by *)
(* exactly the blocks under way, modulo all counters, and no two blocks under *)
(* way are encrypted with the same counter.                                  *)
CiphersInStep == NoneRefused /\ SequencesInStep /\ CountersInStep /\ CountersUsedOnce
=============================================================================
