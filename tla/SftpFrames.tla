----------------------------- MODULE SftpFrames -----------------------------
(***************************************************************************)
(* SFTPClient.#receive of sftp.ts: the channel delivers the packets of the  *)
(* server in chunks that know nothing of their bounds, and the client puts  *)
(* them together again, the length of a packet first.  A length unit of the *)
(* header is its last one; the units of a packet are numbered by packet.    *)
(***************************************************************************)
EXTENDS Integers, Sequences, SequencesExt, FiniteSets, Sums

CONSTANTS
  HeaderLength,         \* the four bytes of the length
  MaximumPacketLength,  \* #maximumPacketLength
  PacketLengths,        \* lengths that the server announces
  MaxFrames            \* packets in a stream

ASSUME FramesAssumption ==
  /\ HeaderLength \in Nat \ {0} /\ MaximumPacketLength \in Nat
  /\ PacketLengths \subseteq Nat /\ MaxFrames \in Nat

VARIABLES
  lengths,    \* announced length of each packet that the server sends
  sent,       \* units of the stream delivered so far
  receiver    \* #header, #frame, the size of #frame, the frames dispatched and whether it threw

frameVars == <<lengths, sent, receiver>>

FrameOf(k) ==
  [i \in 1..HeaderLength |-> IF i = HeaderLength THEN lengths[k] ELSE 0] \o
  [i \in 1..lengths[k] |-> 100 * k + i]

(* Units of the stream up to the end of the k-th packet *)
EndOf(k) == SumOf([j \in 1..k |-> HeaderLength + lengths[j]])

(* The packets one after the other: unit i is one of the packet that it falls into. *)
Stream ==
  [i \in 1..EndOf(Len(lengths)) |->
     LET k == CHOOSE k \in DOMAIN lengths : EndOf(k - 1) < i /\ i <= EndOf(k)
     IN  FrameOf(k)[i - EndOf(k - 1)]]

(* readSftpPacket throws for these lengths. *)
Refused(length) == length < 1 \/ length > MaximumPacketLength

(* Mutant: the header is not cleared for the next packet. *)
FrameBegunStale(r, header) ==
  LET length == header[HeaderLength]
  IN  IF Refused(length) THEN [r EXCEPT !.header = header, !.failed = TRUE]
      ELSE [r EXCEPT !.frame = header, !.size = HeaderLength + length]

FrameBegun(r, header) ==
  LET length == header[HeaderLength]
  IN  IF Refused(length) THEN [r EXCEPT !.header = header, !.failed = TRUE]
      ELSE [r EXCEPT !.header = <<>>, !.frame = header, !.size = HeaderLength + length]

FrameEnded(r) ==
  IF Len(r.frame) < r.size THEN r
  ELSE [r EXCEPT !.dispatched = Append(@, r.frame), !.frame = <<>>, !.size = 0]

(* A pass of the loop of #receive copies up to the end of the chunk, of the  *)
(* header or of the frame.                                                  *)
Copied(r, offset, chunk) ==
  LET part == IF r.size = 0 THEN r.header ELSE r.frame
      missing == (IF r.size = 0 THEN HeaderLength ELSE r.size) - Len(part)
      count == IF missing < Len(chunk) - offset THEN missing ELSE Len(chunk) - offset
  IN  [part |-> part \o SubSeq(chunk, offset + 1, offset + count), offset |-> offset + count]

Extended(r, part) ==
  IF r.size # 0 THEN FrameEnded([r EXCEPT !.frame = part])
  ELSE IF Len(part) < HeaderLength THEN [r EXCEPT !.header = part]
  ELSE FrameBegun(r, part)

PassOver(m, chunk) ==
  LET copied == Copied(m.receiver, m.offset, chunk)
  IN  IF m.receiver.failed \/ m.offset = Len(chunk) THEN m
      ELSE [receiver |-> Extended(m.receiver, copied.part), offset |-> copied.offset]

(* A pass takes a unit at least, so there are at most as many as units of the chunk. *)
Received(r, chunk) ==
  LET After[n \in 0..Len(chunk)] ==
        IF n = 0 THEN [receiver |-> r, offset |-> 0] ELSE PassOver(After[n - 1], chunk)
  IN  After[Len(chunk)].receiver

FramesInit ==
  /\ lengths \in BoundedSeq(PacketLengths, MaxFrames)
  /\ sent = 0
  /\ receiver = [header |-> <<>>, frame |-> <<>>, size |-> 0, dispatched |-> <<>>, failed |-> FALSE]

(* The read loop ends, and the client with it, once #receive has thrown. *)
Receive ==
  /\ ~receiver.failed
  /\ \E n \in 1..(Len(Stream) - sent) :
       /\ sent' = sent + n
       /\ receiver' = Received(receiver, SubSeq(Stream, sent + 1, sent + n))
  /\ UNCHANGED lengths

FramesSpec == FramesInit /\ [][Receive]_frameVars

(* However the stream is cut, exactly the packets that have arrived whole   *)
(* are dispatched, in order and unchanged, up to the first refused length.  *)
FramesKept ==
  LET good == {k \in DOMAIN lengths : \A j \in 1..k : ~Refused(lengths[j])}
      whole == {k \in good : EndOf(k) <= sent}
      bad == {k \in DOMAIN lengths : Refused(lengths[k]) /\ k - 1 \in good \cup {0}}
  IN  /\ receiver.dispatched = [k \in 1..Cardinality(whole) |-> FrameOf(k)]
      /\ receiver.failed <=> \E k \in bad : EndOf(k - 1) + HeaderLength <= sent
=============================================================================
