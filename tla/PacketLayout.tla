---------------------------- MODULE PacketLayout ----------------------------
(***************************************************************************)
(* The layout of SSH binary packets in packet.ts: a length of four bytes,   *)
(* the padding length, the payload and the padding.                         *)
(***************************************************************************)
EXTENDS Naturals

Overhead == 5   \* the packet length and the padding length

(* The blocks for which one byte holds the padding length. *)
BlockSizes == 8..252

requiredPaddingLength(payload, block) ==
  LET padding == block - ((payload + Overhead) % block)
  IN  IF padding < 4 THEN padding + block ELSE padding

(* formatPacket, before assertPacketLayout *)
PacketOf(payload, block) ==
  LET padding == requiredPaddingLength(payload, block)
  IN  [length |-> 1 + payload + padding, padding |-> padding]

(* assertPacketLayout, of a packet that is written and of one that is read *)
LayoutAccepted(packet, block, maximum) ==
  /\ packet.length <= maximum
  /\ packet.length >= 5
  /\ (packet.length + 4) % block = 0
  /\ packet.padding >= 4 /\ packet.padding < packet.length

(* readPacket: the bytes between the padding length and the padding *)
PayloadLength(packet) == (4 + packet.length - packet.padding) - Overhead
=============================================================================
