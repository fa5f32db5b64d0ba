---------------------------- MODULE MCChannelMux ----------------------------
(***************************************************************************)
(* Small instances of ChannelMux, and the property that needs a sum.       *)
(***************************************************************************)
EXTENDS ChannelMux, Sums

AllTypes == ServerType
\* What concerns a channel: no global requests, to which the read loop replies.
ChannelTypes == ServerType \ {"global"}
\* Two concurrent commands that open and run: no refusals, no other requests.
RunTypes == {"confirm", "success", "data", "exitStatus", "eof", "close"}

\* The data bytes of channel c in some messages, and those under way to the client.
Carried(messages, c) ==
  SumOf([i \in DOMAIN messages |-> IF messages[i].ch = c THEN messages[i].n ELSE 0])
InFlight(c) == Carried(inbox, c)

\* Whenever the read loop takes a packet, the window it counts for a channel
\* is the window the server has left and the data under way: no byte is
\* credited twice or never (client.ts:927-944).
WindowAgreement ==
  reader.at = "read" =>
    \A c \in channels : HasGot(c, "OPEN") /\ ~chan[c].closing =>
      chan[c].window = srv[c].window + InFlight(c)
=============================================================================
