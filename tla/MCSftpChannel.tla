--------------------------- MODULE MCSftpChannel ----------------------------
(***************************************************************************)
(* Small instances of SftpChannel, and the properties that need sums.      *)
(***************************************************************************)
EXTENDS SftpChannel, Sums

\* The bytes that the messages of some types carry or grant.
Bytes(messages, types) ==
  SumOf([i \in DOMAIN messages |-> IF messages[i].type \in types THEN messages[i].n ELSE 0])

\* Bytes under way to the client, and of the client that the server has not got.
InFlight(types) == Bytes(inbox, types)
Queued(type) == Bytes(Unsent, {type})

\* The window the channel counts for the server is what the server may still
\* send, or has sent, or is about to be granted; with the bytes the SFTPClient
\* has not read it never exceeds the stream's queue (client.ts:1040-1052).
ReceiveCredit ==
  terminal = "no" /\ inMap =>
    /\ ch.receiveWindow = srv.window + InFlight({"data"}) + Queued("ADJUST")
    /\ ch.receiveWindow + readable.queued <= Window

\* The window the channel may send into is what the server has granted, less
\* what it has got, is about to get, or has not told the client yet.
SendCredit ==
  terminal = "no" =>
    ch.remoteWindow + Queued("DATA") + srv.received + InFlight({"confirm", "adjust"}) = srv.granted
=============================================================================
