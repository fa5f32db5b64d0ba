-------------------------- MODULE ChannelMux_proofs --------------------------
(***************************************************************************)
(* Safety of ChannelMux for every number of channels, every limit and      *)
(* every server, compliant or not; then what the wire shows of one channel, *)
(* and how each step changes it: the packets that the client has queued    *)
(* and the server has got, the messages that the server has sent and the   *)
(* client not yet read, and the object of the channel.  MuxWire_proofs     *)
(* puts the channels, the write tail and the read loop together.           *)
(***************************************************************************)
EXTENDS MCChannelMux, Sums_proofs

\* The channel objects `chs`, with the map `open`, the reason `term` and the
\* next id `next`: a pending command is in the map of a live client, a
\* command keeps to its output limit, an id that is not allocated yet names an
\* object nobody has touched, a cancelled command is settled, and #fatal has
\* cleared the map.
ChannelsOK(chs, open, term, next) ==
  /\ chs \in [Channel -> ChannelState]
  /\ open \subseteq Channel
  /\ term \in {"no"} \cup Reason
  /\ next \in 0 .. MaxLocalChannel + 1
  /\ \A c \in Channel : chs[c].result = "pending" => c \in open /\ term = "no"
  /\ \A c \in Channel : chs[c].output <= MaxOutput
  /\ \A c \in Channel : c >= next =>
       c \notin open /\ chs[c].begin = "none" /\ chs[c].result = "none"
  /\ \A c \in Channel : chs[c].cancelled => chs[c].result # "pending"
  /\ term # "no" => open = {}

\* The rest of the type invariant.
QueuesOK ==
  /\ tail \in Seq(Packet)
  /\ flushed \in BOOLEAN
  /\ reader \in ReaderState
  /\ srv \in [Channel -> ServerState]
  /\ inbox \in Seq(Message)

\* The read loop waits for the very packet it has queued, and the bytes of an
\* #append that waits for its ADJUST are not counted yet but fit.
AdjustFits ==
  reader.at = "adjust" =>
    /\ \A i \in DOMAIN tail : tail[i].by = "reader" =>
         tail[i].ch = reader.ch /\ tail[i].n = reader.n
    /\ chan[reader.ch].output + reader.n <= MaxOutput

IInv ==
  /\ ChannelsOK(chan, channels, terminal, nextLocalChannel)
  /\ QueuesOK
  /\ SuspendedInTail
  /\ AdjustFits

-----------------------------------------------------------------------------
(* Lemmas on the operators of the module.                                  *)

LEMMA InitialWindowNat == InitialWindow \in Nat
  BY MuxAssumption DEF InitialWindow

LEMMA NewChannelType == NewChannel \in ChannelState
  BY InitialWindowNat DEF NewChannel, ChannelState, Promise, Begin

\* What each of the channel helpers keeps and sets.
LEMMA ChannelOps ==
  ASSUME NEW ch \in ChannelState
  PROVE  /\ Rejected(ch) \in ChannelState
         /\ Rejected(ch).result # "pending"
         /\ Rejected(ch).begin = ch.begin
         /\ Rejected(ch).cancelled = ch.cancelled
         /\ Rejected(ch).output = ch.output
         /\ Terminated(ch) \in ChannelState
         /\ Terminated(ch).result # "pending"
         /\ Terminated(ch).begin = ch.begin
         /\ Terminated(ch).cancelled = ch.cancelled
         /\ Terminated(ch).output = ch.output
         /\ Closing(ch) \in ChannelState
         /\ Closing(ch).result = ch.result
         /\ Closing(ch).begin = ch.begin
         /\ Closing(ch).cancelled = ch.cancelled
         /\ Closing(ch).output = ch.output
         /\ ch.result # "none" => Rejected(ch).result # "none" /\ Terminated(ch).result # "none"
         /\ ch.result = "none" => Rejected(ch).result = "none" /\ Terminated(ch).result = "none"
  BY ZenonT(60) DEF ChannelState, Rejected, Terminated, Closing, Settle, Promise

-----------------------------------------------------------------------------
(* The write tail.  Suspended(t, w, r) says that exactly the #begin of the *)
(* channels in w, and the read loop if r, have a packet in t.              *)

Suspended(t, w, r) ==
  /\ \A c \in Channel : c \in w <=> \E i \in DOMAIN t : t[i].by = "begin" /\ t[i].ch = c
  /\ r <=> \E i \in DOMAIN t : t[i].by = "reader"
  /\ \A i, j \in DOMAIN t : i # j =>
       \/ t[i].by # t[j].by
       \/ t[i].by = "cancel"
       \/ t[i].by = "begin" /\ t[i].ch # t[j].ch

Writers == {c \in Channel : chan[c].begin \in Writing}

LEMMA SuspendedDef ==
  SuspendedInTail <=> Suspended(tail, Writers, reader.at \in ReaderWriting)
  BY DEF SuspendedInTail, Suspended, Writers

LEMMA SuspendedDefNext ==
  SuspendedInTail' <=> Suspended(tail', Writers', (reader.at \in ReaderWriting)')
  BY DEF SuspendedInTail, Suspended, Writers

LEMMA AppendDomain ==
  ASSUME NEW t \in Seq(Packet), NEW p \in Packet
  PROVE  /\ Append(t, p) \in Seq(Packet)
         /\ DOMAIN Append(t, p) = DOMAIN t \cup {Len(t) + 1}
         /\ Len(t) + 1 \notin DOMAIN t
         /\ \A i \in DOMAIN t : Append(t, p)[i] = t[i]
         /\ Append(t, p)[Len(t) + 1] = p
  OBVIOUS

LEMMA SuspendedAppend ==
  ASSUME NEW t \in Seq(Packet), NEW p \in Packet,
         NEW w, NEW r \in BOOLEAN, Suspended(t, w, r)
  PROVE  /\ p.by = "begin" /\ p.ch \notin w => Suspended(Append(t, p), w \cup {p.ch}, r)
         /\ p.by = "reader" /\ ~r => Suspended(Append(t, p), w, TRUE)
         /\ p.by = "cancel" => Suspended(Append(t, p), w, r)
<1> DEFINE n == Len(t) + 1
<1>1. /\ DOMAIN Append(t, p) = DOMAIN t \cup {n}
      /\ n \notin DOMAIN t
      /\ \A i \in DOMAIN t : Append(t, p)[i] = t[i]
      /\ Append(t, p)[n] = p
  BY AppendDomain
<1> HIDE DEF n
<1>2. p.ch \in Channel /\ p.by \in Owner
  BY DEF Packet
<1> QED BY <1>1, <1>2 DEF Suspended

LEMMA SuspendedTail ==
  ASSUME NEW t \in Seq(Packet), t # <<>>,
         NEW w, NEW r \in BOOLEAN, Suspended(t, w, r)
  PROVE  /\ Head(t) \in Packet /\ Tail(t) \in Seq(Packet)
         /\ Head(t).by = "begin" =>
              Head(t).ch \in w /\ Suspended(Tail(t), w \ {Head(t).ch}, r)
         /\ Head(t).by = "reader" => r /\ Suspended(Tail(t), w, FALSE)
         /\ Head(t).by = "cancel" => Suspended(Tail(t), w, r)
<1>1. /\ 1 \in DOMAIN t /\ Head(t) = t[1]
      /\ Head(t) \in Packet /\ Tail(t) \in Seq(Packet)
      /\ \A i \in DOMAIN Tail(t) : i + 1 \in DOMAIN t /\ Tail(t)[i] = t[i + 1] /\ i + 1 # 1
      /\ \A i, j \in DOMAIN Tail(t) : i # j => i + 1 # j + 1
      /\ \A i \in DOMAIN t : i # 1 => i - 1 \in DOMAIN Tail(t) /\ Tail(t)[i - 1] = t[i]
  OBVIOUS
<1>2. Head(t).ch \in Channel
  BY <1>1 DEF Packet
<1>3. ASSUME NEW c \in Channel
      PROVE  (\E i \in DOMAIN Tail(t) : Tail(t)[i].by = "begin" /\ Tail(t)[i].ch = c)
               <=> \E i \in DOMAIN t : i # 1 /\ t[i].by = "begin" /\ t[i].ch = c
  BY <1>1
<1>4. (\E i \in DOMAIN Tail(t) : Tail(t)[i].by = "reader")
        <=> \E i \in DOMAIN t : i # 1 /\ t[i].by = "reader"
  BY <1>1
<1>5. \A i, j \in DOMAIN Tail(t) : i # j =>
        \/ Tail(t)[i].by # Tail(t)[j].by
        \/ Tail(t)[i].by = "cancel"
        \/ Tail(t)[i].by = "begin" /\ Tail(t)[i].ch # Tail(t)[j].ch
  BY <1>1 DEF Suspended
<1>6. CASE Head(t).by = "begin"
  <2>1. \A i \in DOMAIN t : i # 1 => ~(t[i].by = "begin" /\ t[i].ch = Head(t).ch)
    BY <1>1, <1>6 DEF Suspended
  <2> QED BY <1>1, <1>2, <1>3, <1>4, <1>5, <1>6, <2>1 DEF Suspended
<1>7. CASE Head(t).by = "reader"
  <2>1. \A i \in DOMAIN t : i # 1 => t[i].by # "reader"
    BY <1>1, <1>7 DEF Suspended
  <2> QED BY <1>1, <1>3, <1>4, <1>5, <1>7, <2>1 DEF Suspended
<1>8. CASE Head(t).by = "cancel"
  BY <1>1, <1>3, <1>4, <1>5, <1>8 DEF Suspended
<1> QED BY <1>1, <1>6, <1>7, <1>8 DEF Packet, Owner

-----------------------------------------------------------------------------
(* Changes of the channel objects.                                         *)

\* A step that makes x of the object of channel c, and `open`, `term` and
\* `next` of the mux, without breaking what ChannelsOK says of c.
Becomes(c, x, open, term, next) ==
  /\ ChannelsOK(chan, open, term, next)
  /\ c \in Channel /\ x \in ChannelState
  /\ chan' = [chan EXCEPT ![c] = x]
  /\ x.result = "pending" => c \in open /\ term = "no"
  /\ x.output <= MaxOutput
  /\ x.cancelled => x.result # "pending"
  /\ c >= next => x.begin = "none" /\ x.result = "none"

\* What follows of the others, and of the #begin that wait for a write.
OnlyChanged(c, x) ==
  /\ chan'[c] = x
  /\ \A d \in Channel : d # c => chan'[d] = chan[d]
  /\ x.begin \in Writing => Writers' = Writers \cup {c}
  /\ x.begin \notin Writing => Writers' = Writers \ {c}
  /\ x.begin = chan[c].begin => Writers' = Writers

LEMMA OneChannel ==
  ASSUME NEW c, NEW x, NEW open, NEW term, NEW next, Becomes(c, x, open, term, next)
  PROVE  ChannelsOK(chan', open, term, next) /\ OnlyChanged(c, x)
<1>1. /\ chan' \in [Channel -> ChannelState] /\ chan'[c] = x
      /\ \A d \in Channel : d # c => chan'[d] = chan[d]
      /\ c \in Channel
  BY DEF Becomes, ChannelsOK
<1>2. ChannelsOK(chan', open, term, next)
  BY <1>1 DEF Becomes, ChannelsOK
<1> QED BY <1>1, <1>2 DEF Writers, OnlyChanged

LEMMA FatalChannels ==
  ASSUME NEW chs, NEW open, NEW reason \in Reason,
         ChannelsOK(chs, open, terminal, nextLocalChannel),
         Fatal(chs, open, reason)
  PROVE  /\ ChannelsOK(chan', channels', terminal', nextLocalChannel')
         /\ \A c \in Channel : chan'[c].begin = chs[c].begin /\ chan'[c].output = chs[c].output
         /\ terminal' # "no" /\ channels' = {}
<1>0. "no" \notin Reason
  BY DEF Reason
<1>1. \A c \in Channel : chs[c] \in ChannelState
  BY DEF ChannelsOK
<1>2. CASE terminal = "no"
  <2>1. /\ terminal' = reason /\ channels' = {} /\ nextLocalChannel' = nextLocalChannel
        /\ chan' = [c \in Channel |-> IF c \in open THEN Terminated(chs[c]) ELSE chs[c]]
    BY <1>2 DEF Fatal
  <2>2. \A c \in Channel : /\ chan'[c] \in ChannelState
                           /\ chan'[c].begin = chs[c].begin
                           /\ chan'[c].output = chs[c].output
                           /\ chan'[c].cancelled = chs[c].cancelled
                           /\ chan'[c].result # "pending"
                           /\ chs[c].result = "none" => chan'[c].result = "none"
    BY <2>1, <1>1, ChannelOps DEF ChannelsOK
  <2>3. chan' \in [Channel -> ChannelState]
    BY <2>1, <2>2
  <2> QED BY <2>1, <2>2, <2>3, <1>0 DEF ChannelsOK
<1>3. CASE terminal # "no"
  <2>1. /\ terminal' = terminal /\ channels' = open /\ nextLocalChannel' = nextLocalChannel
        /\ chan' = [c \in Channel |-> chs[c]]
    BY <1>3 DEF Fatal
  <2>2. chan' = chs
    BY <2>1 DEF ChannelsOK
  <2> QED BY <2>1, <2>2, <1>3 DEF ChannelsOK
<1> QED BY <1>2, <1>3

-----------------------------------------------------------------------------
(* Writes, and what the read loop knows of the message it handles.         *)

LEMMA WriteKeeps ==
  ASSUME tail \in Seq(Packet), Suspended(tail, Writers, reader.at \in ReaderWriting),
         NEW type \in ClientType, NEW c \in Channel, NEW n \in Nat, NEW by \in Owner,
         Write(type, c, n, by)
  PROVE  /\ tail' \in Seq(Packet)
         /\ by = "begin" /\ c \notin Writers =>
              Suspended(tail', Writers \cup {c}, reader.at \in ReaderWriting)
         /\ by = "reader" /\ reader.at \notin ReaderWriting =>
              /\ Suspended(tail', Writers, TRUE)
              /\ \A i \in DOMAIN tail' : tail'[i].by = "reader" =>
                   tail'[i].ch = c /\ tail'[i].n = n
         /\ by = "cancel" => Suspended(tail', Writers, reader.at \in ReaderWriting)
         /\ by # "reader" =>
              \A i \in DOMAIN tail' : tail'[i].by = "reader" =>
                \E j \in DOMAIN tail : tail[j] = tail'[i]
<1> DEFINE p == [type |-> type, ch |-> c, n |-> n, by |-> by]
           r == reader.at \in ReaderWriting
<1>1. p \in Packet /\ p.by = by /\ p.ch = c /\ p.n = n
  BY DEF Packet
<1>2. tail' = Append(tail, p)
  BY DEF Write
<1>3. r \in BOOLEAN
  OBVIOUS
<1> HIDE DEF p, r
<1>4. /\ tail' \in Seq(Packet)
      /\ DOMAIN tail' = DOMAIN tail \cup {Len(tail) + 1}
      /\ \A i \in DOMAIN tail : tail'[i] = tail[i]
      /\ tail'[Len(tail) + 1] = p
  BY <1>1, <1>2, AppendDomain
<1>5. Suspended(tail, Writers, r)
  BY DEF r
<1>6. /\ p.by = "begin" /\ p.ch \notin Writers => Suspended(tail', Writers \cup {p.ch}, r)
      /\ p.by = "reader" /\ ~r => Suspended(tail', Writers, TRUE)
      /\ p.by = "cancel" => Suspended(tail', Writers, r)
  BY <1>1, <1>2, <1>3, <1>5, SuspendedAppend
<1>7. ~r => \A i \in DOMAIN tail : tail[i].by # "reader"
  BY <1>5 DEF Suspended
<1> QED BY <1>1, <1>4, <1>6, <1>7 DEF r

LEMMA ReaderWrites ==
  ASSUME tail \in Seq(Packet), Suspended(tail, Writers, FALSE),
         reader.at \notin ReaderWriting,
         NEW type \in ClientType, NEW c \in Channel, NEW n \in Nat,
         Write(type, c, n, "reader")
  PROVE  /\ tail' \in Seq(Packet) /\ Suspended(tail', Writers, TRUE)
         /\ \A i \in DOMAIN tail' : tail'[i].by = "reader" =>
              tail'[i].ch = c /\ tail'[i].n = n
<1>1. Suspended(tail, Writers, reader.at \in ReaderWriting)
  BY DEF Suspended
<1>2. "reader" \in Owner
  BY DEF Owner
<1>3. tail' \in Seq(Packet)
  BY <1>1, <1>2, WriteKeeps
<1>4. \A i \in DOMAIN tail' : tail'[i].by = "reader" => tail'[i].ch = c /\ tail'[i].n = n
  BY <1>1, <1>2, WriteKeeps, ZenonT(60)
<1>5. Suspended(tail', Writers, TRUE)
  BY <1>1, <1>2, WriteKeeps
<1> QED BY <1>3, <1>4, <1>5

LEMMA RouteErrorType == RouteError \in Reason \cup {"no"}
  BY DEF RouteError, Reason

LEMMA ReceiveFacts ==
  ASSUME IInv, NEW types, Receive(types)
  PROVE  /\ msg \in Message /\ msg.ch \in Channel /\ msg.n \in Nat
         /\ msg.type \in types
         /\ target \in ChannelState
         /\ reader \in ReaderState /\ reader.at = "read"
         /\ inbox' \in Seq(Message) /\ flushed' \in BOOLEAN
         /\ srv' \in [Channel -> ServerState]
         /\ Suspended(tail, Writers, FALSE)
<1>1. inbox \in Seq(Message) /\ inbox # <<>>
  BY DEF IInv, QueuesOK, Receive
<1>2. msg \in Message /\ Tail(inbox) \in Seq(Message)
  BY <1>1 DEF msg
<1>3. msg.ch \in Channel /\ msg.n \in Nat
  BY <1>2 DEF Message
<1>4. target \in ChannelState
  BY <1>3 DEF target, IInv, ChannelsOK
<1>5. Suspended(tail, Writers, FALSE)
  <2>1. Suspended(tail, Writers, reader.at \in ReaderWriting)
    BY SuspendedDef DEF IInv
  <2>2. reader.at \notin ReaderWriting
    BY DEF Receive, ReaderWriting
  <2> QED BY <2>1, <2>2 DEF Suspended
<1> QED BY <1>2, <1>3, <1>4, <1>5 DEF IInv, QueuesOK, Receive

\* A message that is handled on a channel finds it in the map of a live client.
LEMMA HandleFacts ==
  ASSUME IInv, NEW types, Handle(types), "global" \notin types
  PROVE  /\ msg.ch \in channels /\ terminal = "no" /\ msg.ch < nextLocalChannel
         /\ msg.type = "openFailure" => ~target.remote
<1>1. /\ msg.type \in types /\ msg.ch \in Channel /\ RouteError = "no"
  BY ReceiveFacts DEF Handle
<1>2. msg.ch \in channels
  BY <1>1 DEF RouteError
<1>3. terminal = "no"
  BY <1>2 DEF IInv, ChannelsOK
<1>4. msg.ch < nextLocalChannel
  BY <1>1, <1>2, MuxAssumption DEF IInv, ChannelsOK, Channel
<1>5. msg.type = "openFailure" => ~target.remote
  BY <1>1, <1>2 DEF RouteError
<1> QED BY <1>2, <1>3, <1>4, <1>5

-----------------------------------------------------------------------------
(* Each action keeps the invariant.                                        *)

LEMMA IInvFacts ==
  ASSUME IInv
  PROVE  /\ ChannelsOK(chan, channels, terminal, nextLocalChannel)
         /\ \A c \in Channel : chan[c] \in ChannelState
         /\ tail \in Seq(Packet) /\ reader \in ReaderState
         /\ Suspended(tail, Writers, reader.at \in ReaderWriting)
         /\ \A c \in Channel : chan[c].begin \in Writing <=> c \in Writers
  BY SuspendedDef DEF IInv, ChannelsOK, QueuesOK, Writers

\* What is left to show of a step, in terms of the lemmas above.
LEMMA IInvNext ==
  ASSUME ChannelsOK(chan', channels', terminal', nextLocalChannel'),
         QueuesOK',
         Suspended(tail', Writers', reader'.at \in ReaderWriting),
         AdjustFits'
  PROVE  IInv'
  BY SuspendedDefNext DEF IInv

\* A step that leaves the read loop alone and queues nothing for it.
LEMMA ReaderAlone ==
  ASSUME IInv, UNCHANGED reader,
         \A i \in DOMAIN tail' : tail'[i].by = "reader" =>
           \E j \in DOMAIN tail : tail[j] = tail'[i],
         \A c \in Channel : chan'[c].output = chan[c].output
  PROVE  AdjustFits'
<1>1. reader.ch \in Channel
  BY DEF IInv, QueuesOK, ReaderState
<1> QED BY <1>1 DEF IInv, AdjustFits

LEMMA RunKeeps == IInv /\ Run => IInv'
<1> SUFFICES ASSUME IInv, Run PROVE IInv'
  OBVIOUS
<1> DEFINE c == nextLocalChannel
           x == [NewChannel EXCEPT !.begin = "opening", !.opened = "pending",
                                   !.result = "pending"]
<1>1. /\ c \in Channel /\ terminal = "no" /\ UNCHANGED <<terminal, flushed, reader, srv, inbox>>
      /\ nextLocalChannel' = c + 1 /\ channels' = channels \cup {c}
      /\ chan' = [chan EXCEPT ![c] = x]
      /\ Write("OPEN", c, InitialWindow, "begin")
  BY DEF Run, srvVars
<1>2. /\ x \in ChannelState /\ x.begin = "opening" /\ x.result = "pending"
      /\ x.output = 0 /\ x.cancelled = FALSE
  BY NewChannelType, InitialWindowNat DEF NewChannel, ChannelState, Promise, Begin
<1>3. c + 1 \in 0 .. MaxLocalChannel + 1 /\ c \in Nat
  BY <1>1, MuxAssumption DEF Channel
<1> HIDE DEF x
<1>4. ChannelsOK(chan, channels', terminal, c + 1)
  BY <1>1, <1>3, IInvFacts DEF ChannelsOK, Channel
<1>5. /\ ChannelsOK(chan', channels', terminal, c + 1)
      /\ chan'[c] = x
      /\ \A d \in Channel : d # c => chan'[d] = chan[d]
      /\ Writers' = Writers \cup {c}
  <2>1. Becomes(c, x, channels', terminal, c + 1) /\ x.begin \in Writing
    BY <1>1, <1>2, <1>3, <1>4, MuxAssumption DEF Writing, Becomes
  <2> QED BY <2>1, OneChannel DEF OnlyChanged
<1>6. c \notin Writers /\ chan[c].output <= MaxOutput /\ chan[c].output \in Nat
  BY <1>1, <1>3, IInvFacts DEF ChannelsOK, Writing, ChannelState
<1>7. /\ tail' \in Seq(Packet)
      /\ Suspended(tail', Writers \cup {c}, reader.at \in ReaderWriting)
      /\ \A i \in DOMAIN tail' : tail'[i].by = "reader" =>
           \E j \in DOMAIN tail : tail[j] = tail'[i]
  BY <1>1, <1>6, WriteKeeps, IInvFacts, InitialWindowNat DEF ClientType, Owner
<1>8. AdjustFits'
  <2>1. \A d \in Channel : d # c => chan'[d].output = chan[d].output
    BY <1>5
  <2>2. chan'[c].output = 0
    BY <1>2, <1>5
  <2>3. reader.ch \in Channel /\ reader.n \in Nat
    BY IInvFacts DEF ReaderState
  <2> QED BY <1>1, <1>6, <1>7, <2>1, <2>2, <2>3, MuxAssumption DEF IInv, AdjustFits
<1>9. QueuesOK'
  BY <1>1, <1>7 DEF IInv, QueuesOK
<1> QED BY <1>1, <1>5, <1>7, <1>8, <1>9, IInvNext

LEMMA CancelKeeps == ASSUME NEW c \in Channel PROVE IInv /\ Cancel(c) => IInv'
<1> SUFFICES ASSUME IInv, Cancel(c) PROVE IInv'
  OBVIOUS
<1> DEFINE x == [Closing(Rejected(chan[c])) EXCEPT !.cancelled = TRUE]
<1>1. /\ chan[c].result = "pending" /\ chan' = [chan EXCEPT ![c] = x]
      /\ WriteCloseIfDue(c, "cancel")
      /\ UNCHANGED <<nextLocalChannel, channels, terminal, flushed, reader, srv, inbox>>
  BY DEF Cancel, muxVars, srvVars
<1>2. /\ x \in ChannelState /\ x.begin = chan[c].begin /\ x.result # "pending"
      /\ x.output = chan[c].output
      /\ chan[c].result = "none" => x.result = "none"
  <2>1. Closing(Rejected(chan[c])) \in ChannelState
    BY IInvFacts, ChannelOps
  <2>2. /\ x \in ChannelState
        /\ x.begin = Closing(Rejected(chan[c])).begin
        /\ x.result = Closing(Rejected(chan[c])).result
        /\ x.output = Closing(Rejected(chan[c])).output
    BY <2>1 DEF ChannelState
  <2> HIDE DEF x
  <2> QED BY <2>2, IInvFacts, ChannelOps
<1> HIDE DEF x
<1>3. /\ ChannelsOK(chan', channels, terminal, nextLocalChannel)
      /\ Writers' = Writers
      /\ \A d \in Channel : chan'[d].output = chan[d].output
  <2>1. Becomes(c, x, channels, terminal, nextLocalChannel)
    BY <1>1, <1>2, IInvFacts DEF ChannelsOK, Becomes
  <2> QED BY <1>2, <2>1, OneChannel DEF OnlyChanged
<1>4. /\ tail' \in Seq(Packet)
      /\ Suspended(tail', Writers, reader.at \in ReaderWriting)
      /\ \A i \in DOMAIN tail' : tail'[i].by = "reader" =>
           \E j \in DOMAIN tail : tail[j] = tail'[i]
  <2>1. CASE MustSendClose(chan[c])
    BY <1>1, <2>1, WriteKeeps, IInvFacts DEF WriteCloseIfDue, ClientType, Owner
  <2>2. CASE ~MustSendClose(chan[c])
    BY <1>1, <2>2, IInvFacts DEF WriteCloseIfDue
  <2> QED BY <2>1, <2>2
<1>5. AdjustFits'
  BY <1>1, <1>3, <1>4, ReaderAlone
<1>6. QueuesOK'
  BY <1>1, <1>4 DEF IInv, QueuesOK
<1> QED BY <1>1, <1>3, <1>4, <1>5, <1>6, IInvNext

LEMMA CloseKeeps == IInv /\ Close => IInv'
<1> SUFFICES ASSUME IInv, Close PROVE IInv'
  OBVIOUS
<1>1. /\ Fatal(chan, channels, "closed") /\ "closed" \in Reason
      /\ UNCHANGED <<tail, flushed, reader, srv, inbox>>
  BY DEF Close, srvVars, Reason
<1>2. /\ ChannelsOK(chan', channels', terminal', nextLocalChannel')
      /\ \A c \in Channel : chan'[c].begin = chan[c].begin /\ chan'[c].output = chan[c].output
  BY <1>1, IInvFacts, FatalChannels
<1>3. Writers' = Writers
  BY <1>2 DEF Writers
<1>4. AdjustFits' /\ QueuesOK'
  BY <1>1, <1>2, ReaderAlone DEF IInv, QueuesOK
<1> QED BY <1>1, <1>2, <1>3, <1>4, IInvFacts, IInvNext

\* The continuation of a #begin that is not waiting for a write.
LEMMA CatchBeginKeeps ==
  ASSUME IInv, NEW c \in Channel, NEW ch \in ChannelState,
         c \notin Writers, c < nextLocalChannel, ch.output = chan[c].output,
         ch.result = chan[c].result, ch.cancelled = chan[c].cancelled,
         CatchBegin(c, ch), UNCHANGED <<muxVars, flushed, reader, srvVars>>
  PROVE  IInv'
<1>0. UNCHANGED <<nextLocalChannel, channels, terminal, flushed, reader, srv, inbox>>
  BY DEF muxVars, srvVars
<1>1. /\ Closing(Rejected(ch)) \in ChannelState
      /\ Closing(Rejected(ch)).output = chan[c].output
      /\ Closing(Rejected(ch)).result # "pending"
      /\ Closing(Rejected(ch)).cancelled = chan[c].cancelled
  <2>1. Rejected(ch) \in ChannelState
    BY ChannelOps
  <2> QED BY <2>1, ChannelOps
<1>2. /\ chan[c].output <= MaxOutput
      /\ chan[c].cancelled => chan[c].result # "pending"
      /\ chan[c].result = "pending" => c \in channels /\ terminal = "no"
      /\ ~(c >= nextLocalChannel)
  BY IInvFacts, MuxAssumption DEF ChannelsOK, Channel
<1>3. PICK x \in ChannelState :
        /\ chan' = [chan EXCEPT ![c] = x] /\ x.output = chan[c].output
        /\ x.cancelled => x.result # "pending"
        /\ x.result = "pending" => c \in channels /\ terminal = "no"
        /\ \/ x.begin = "closing" /\ Write("CLOSE", c, 0, "begin")
           \/ x.begin = "done" /\ UNCHANGED tail
  <2>1. CASE ~ch.cancelled /\ MustSendClose(ch) /\ terminal = "no"
    <3> DEFINE x == [Closing(Rejected(ch)) EXCEPT !.begin = "closing"]
    <3>1. x \in ChannelState /\ x.output = chan[c].output /\ x.result # "pending"
          /\ x.begin = "closing"
      BY <1>1 DEF ChannelState, Begin
    <3>2. chan' = [chan EXCEPT ![c] = x] /\ Write("CLOSE", c, 0, "begin")
      BY <2>1 DEF CatchBegin
    <3> HIDE DEF x
    <3> QED BY <3>1, <3>2
  <2>2. CASE ~(~ch.cancelled /\ MustSendClose(ch) /\ terminal = "no")
    <3> DEFINE y == IF ch.cancelled THEN ch ELSE Closing(Rejected(ch))
               x == [y EXCEPT !.begin = "done"]
    <3>1. y \in ChannelState /\ y.output = chan[c].output
          /\ (y.cancelled => y.result # "pending")
          /\ (y.result = "pending" => c \in channels /\ terminal = "no")
      BY <1>1, <1>2
    <3>2. chan' = [chan EXCEPT ![c] = x] /\ UNCHANGED tail
      BY <2>2 DEF CatchBegin
    <3> HIDE DEF y
    <3>3. /\ x \in ChannelState /\ x.output = y.output /\ x.begin = "done"
          /\ x.cancelled = y.cancelled /\ x.result = y.result
      BY <3>1 DEF ChannelState, Begin
    <3> HIDE DEF x
    <3> QED BY <3>1, <3>2, <3>3
  <2> QED BY <2>1, <2>2
<1>4. /\ ChannelsOK(chan', channels, terminal, nextLocalChannel)
      /\ OnlyChanged(c, x)
  <2>1. Becomes(c, x, channels, terminal, nextLocalChannel)
    BY <1>2, <1>3, IInvFacts DEF Becomes
  <2> QED BY <2>1, OneChannel
<1>5. /\ tail' \in Seq(Packet)
      /\ Suspended(tail', Writers', reader.at \in ReaderWriting)
      /\ \A i \in DOMAIN tail' : tail'[i].by = "reader" =>
           \E j \in DOMAIN tail : tail[j] = tail'[i]
  <2>1. CASE x.begin = "closing" /\ Write("CLOSE", c, 0, "begin")
    <3>1. Writers' = Writers \cup {c}
      BY <1>4, <2>1 DEF OnlyChanged, Writing
    <3> QED BY <2>1, <3>1, WriteKeeps, IInvFacts DEF ClientType, Owner
  <2>2. CASE x.begin = "done" /\ UNCHANGED tail
    <3>1. Writers' = Writers
      BY <1>4, <2>2 DEF OnlyChanged, Writing
    <3> QED BY <2>2, <3>1, IInvFacts
  <2> QED BY <1>3, <2>1, <2>2
<1>6. \A d \in Channel : chan'[d].output = chan[d].output
  BY <1>3, <1>4 DEF OnlyChanged
<1>7. AdjustFits' /\ QueuesOK'
  BY <1>0, <1>5, <1>6, ReaderAlone DEF IInv, QueuesOK
<1> QED BY <1>0, <1>4, <1>5, <1>7, IInvNext

LEMMA ResumeKeeps ==
  ASSUME IInv, NEW c \in Channel, NEW at \in {"awaitOpened", "awaitReply"},
         NEW promise, NEW ch \in ChannelState,
         NEW type \in ClientType, NEW next \in Writing,
         ch.output = chan[c].output, ch.result = chan[c].result,
         ch.cancelled = chan[c].cancelled,
         Resume(c, at, promise, ch, type, next)
  PROVE  IInv'
<1>0. /\ chan[c].begin = at /\ UNCHANGED <<muxVars, flushed, reader, srvVars>>
      /\ UNCHANGED <<nextLocalChannel, channels, terminal, flushed, reader, srv, inbox>>
  BY DEF Resume, muxVars, srvVars
<1>1. c \notin Writers /\ c < nextLocalChannel /\ chan[c] \in ChannelState
  BY <1>0, IInvFacts, MuxAssumption DEF ChannelsOK, Writing, Channel
<1>2. CASE CatchBegin(c, chan[c])
  BY <1>0, <1>1, <1>2, CatchBeginKeeps
<1>3. CASE CatchBegin(c, ch)
  BY <1>0, <1>1, <1>3, CatchBeginKeeps
<1>4. ASSUME NEW x \in ChannelState,
             chan' = [chan EXCEPT ![c] = x], x.output = chan[c].output,
             x.result = chan[c].result, x.cancelled = chan[c].cancelled,
             \/ x.begin = "done" /\ UNCHANGED tail
             \/ x.begin \in Writing /\ Write(type, c, 0, "begin")
      PROVE  IInv'
  <2>1. /\ ChannelsOK(chan', channels, terminal, nextLocalChannel)
        /\ OnlyChanged(c, x)
    <3>1. Becomes(c, x, channels, terminal, nextLocalChannel)
      BY <1>1, <1>4, IInvFacts, MuxAssumption DEF Becomes, ChannelsOK, Channel
    <3> QED BY <3>1, OneChannel
  <2>2. /\ tail' \in Seq(Packet)
        /\ Suspended(tail', Writers', reader.at \in ReaderWriting)
        /\ \A i \in DOMAIN tail' : tail'[i].by = "reader" =>
             \E j \in DOMAIN tail : tail[j] = tail'[i]
    <3>1. CASE x.begin = "done" /\ UNCHANGED tail
      <4>1. Writers' = Writers
        BY <1>1, <2>1, <3>1 DEF OnlyChanged, Writing
      <4> QED BY <3>1, <4>1, IInvFacts
    <3>2. CASE x.begin \in Writing /\ Write(type, c, 0, "begin")
      <4>1. Writers' = Writers \cup {c}
        BY <2>1, <3>2 DEF OnlyChanged
      <4> QED BY <1>1, <3>2, <4>1, WriteKeeps, IInvFacts DEF Owner
    <3> QED BY <1>4, <3>1, <3>2
  <2>3. \A d \in Channel : chan'[d].output = chan[d].output
    BY <1>4, <2>1 DEF OnlyChanged
  <2>4. AdjustFits' /\ QueuesOK'
    BY <1>0, <2>2, <2>3, ReaderAlone DEF IInv, QueuesOK
  <2> QED BY <1>0, <2>1, <2>2, <2>4, IInvNext
<1>5. CASE chan' = [chan EXCEPT ![c].begin = "done"] /\ UNCHANGED tail
  <2> DEFINE x == [chan[c] EXCEPT !.begin = "done"]
  <2>1. /\ x \in ChannelState /\ x.begin = "done" /\ x.output = chan[c].output
        /\ x.result = chan[c].result /\ x.cancelled = chan[c].cancelled
    BY <1>1 DEF ChannelState, Begin
  <2>2. chan' = [chan EXCEPT ![c] = x]
    BY <1>5
  <2> HIDE DEF x
  <2> QED BY <1>5, <2>1, <2>2, <1>4
<1>6. CASE /\ chan' = [chan EXCEPT ![c] = [ch EXCEPT !.begin = next]]
           /\ Write(type, c, 0, "begin")
  <2> DEFINE x == [ch EXCEPT !.begin = next]
  <2>1. /\ x \in ChannelState /\ x.begin = next /\ x.output = chan[c].output
        /\ x.result = chan[c].result /\ x.cancelled = chan[c].cancelled
    BY DEF ChannelState, Begin, Writing
  <2>2. chan' = [chan EXCEPT ![c] = x]
    BY <1>6
  <2> HIDE DEF x
  <2> QED BY <1>6, <2>1, <2>2, <1>4
<1> QED BY <1>2, <1>3, <1>5, <1>6 DEF Resume, BeginWrite

LEMMA BeginsKeep ==
  ASSUME NEW c \in Channel PROVE IInv /\ (ResumeOpened(c) \/ ResumeReplied(c)) => IInv'
<1> SUFFICES ASSUME IInv, ResumeOpened(c) \/ ResumeReplied(c) PROVE IInv'
  OBVIOUS
<1>1. chan[c] \in ChannelState
  BY IInvFacts
<1>2. CASE ResumeOpened(c)
  <2> DEFINE ch == [chan[c] EXCEPT !.reply = "pending"]
  <2>1. /\ ch \in ChannelState /\ ch.output = chan[c].output
        /\ ch.result = chan[c].result /\ ch.cancelled = chan[c].cancelled
    BY <1>1 DEF ChannelState, Promise
  <2>2. Resume(c, "awaitOpened", chan[c].opened, ch, "EXEC", "requesting")
    BY <1>2 DEF ResumeOpened
  <2> HIDE DEF ch
  <2> QED BY <2>1, <2>2, ResumeKeeps DEF ClientType, Writing
<1>3. CASE ResumeReplied(c)
  <2> DEFINE ch == [chan[c] EXCEPT !.sentEof = TRUE]
  <2>1. /\ ch \in ChannelState /\ ch.output = chan[c].output
        /\ ch.result = chan[c].result /\ ch.cancelled = chan[c].cancelled
    BY <1>1 DEF ChannelState
  <2>2. Resume(c, "awaitReply", chan[c].reply, ch, "EOF", "sendingEof")
    BY <1>3 DEF ResumeReplied
  <2> HIDE DEF ch
  <2> QED BY <2>1, <2>2, ResumeKeeps DEF ClientType, Writing
<1> QED BY <1>2, <1>3

LEMMA TransmitKeeps == IInv /\ Transmit => IInv'
<1> SUFFICES ASSUME IInv, Transmit PROVE IInv'
  OBVIOUS
<1> DEFINE p == Head(tail)
<1>1. /\ UNCHANGED <<nextLocalChannel, channels, terminal, chan, tail, reader, inbox>>
      /\ flushed' = TRUE
      /\ srv' = IF p.type = "REQUEST_FAILURE" THEN srv
                ELSE [srv EXCEPT ![p.ch].got = Append(@, p.type), ![p.ch].window = @ + p.n]
      /\ tail # <<>>
  BY DEF Transmit, muxVars
<1>2. p \in Packet
  BY <1>1, IInvFacts
<1>3. p.ch \in Channel /\ p.type \in ClientType /\ p.n \in Nat
  BY <1>2 DEF Packet
<1> HIDE DEF p
<1>4. srv' \in [Channel -> ServerState]
  <2>1. srv \in [Channel -> ServerState] /\ srv[p.ch] \in ServerState
    BY <1>3 DEF IInv, QueuesOK
  <2>2. [srv[p.ch] EXCEPT !.got = Append(@, p.type), !.window = @ + p.n] \in ServerState
    <3>1. /\ srv[p.ch].got \in Seq(ClientType) /\ srv[p.ch].sent \in SUBSET ServerType
          /\ srv[p.ch].window \in Nat /\ srv[p.ch].bytes \in Nat
      BY <2>1 DEF ServerState
    <3>2. Append(srv[p.ch].got, p.type) \in Seq(ClientType) /\ srv[p.ch].window + p.n \in Nat
      BY <1>3, <3>1
    <3> QED BY <2>1, <3>1, <3>2 DEF ServerState
  <2>3. [srv EXCEPT ![p.ch].got = Append(@, p.type), ![p.ch].window = @ + p.n]
          = [srv EXCEPT ![p.ch] = [srv[p.ch] EXCEPT !.got = Append(@, p.type),
                                                    !.window = @ + p.n]]
    BY <1>3, <2>1
  <2> QED BY <1>1, <1>3, <2>1, <2>2, <2>3
<1> QED BY <1>1, <1>4 DEF IInv, QueuesOK, AdjustFits, SuspendedInTail

LEMMA FinishCloseKeeps ==
  ASSUME IInv, NEW c \in Channel, NEW chs,
         ChannelsOK(chs, channels, terminal, nextLocalChannel),
         \A d \in Channel : chs[d].begin = chan[d].begin /\ chs[d].output = chan[d].output,
         FinishClose(c, chs)
  PROVE  /\ ChannelsOK(chan', channels', terminal', nextLocalChannel')
         /\ Writers' = Writers
         /\ \A d \in Channel : chan'[d].output = chan[d].output
         /\ reader' \in ReaderState /\ reader'.at \in {"read", "stopped"}
<1>0. chs \in [Channel -> ChannelState] /\ chs[c] \in ChannelState
      /\ reader \in ReaderState
  BY IInvFacts DEF ChannelsOK
<1>1. CASE chs[c].cancelled \/ Complete(chs[c])
  <2> DEFINE y == [chs[c] EXCEPT !.result =
                     IF chs[c].cancelled THEN @ ELSE Settle(@, "resolved")]
  <2>1. /\ chan' = [chs EXCEPT ![c] = y]
        /\ channels' = channels \ {c}
        /\ reader' = [reader EXCEPT !.at = "read"]
        /\ nextLocalChannel' = nextLocalChannel /\ terminal' = terminal
    BY <1>1 DEF FinishClose, Reading
  <2>2. /\ y \in ChannelState /\ y.result # "pending"
        /\ y.begin = chs[c].begin /\ y.output = chs[c].output /\ y.cancelled = chs[c].cancelled
        /\ chs[c].result = "none" => y.result = "none"
    BY <1>0 DEF ChannelState, Promise, Settle, ChannelsOK
  <2> HIDE DEF y
  <2>3. /\ chan' \in [Channel -> ChannelState] /\ chan'[c] = y
        /\ \A d \in Channel : d # c => chan'[d] = chs[d]
    BY <1>0, <2>1, <2>2
  <2>4. ChannelsOK(chan', channels', terminal', nextLocalChannel')
    BY <2>1, <2>2, <2>3 DEF ChannelsOK
  <2>5. \A d \in Channel : chan'[d].begin = chan[d].begin /\ chan'[d].output = chan[d].output
    BY <2>2, <2>3
  <2>6. reader' \in ReaderState /\ reader'.at = "read"
    BY <1>0, <2>1 DEF ReaderState
  <2> QED BY <2>4, <2>5, <2>6 DEF Writers
<1>2. CASE ~(chs[c].cancelled \/ Complete(chs[c]))
  <2> DEFINE z == [chs EXCEPT ![c] = Rejected(@)]
  <2>1. Fatal(z, channels \ {c}, "incompleteExit") /\ ReaderAt("stopped", c, 0)
    BY <1>2 DEF FinishClose
  <2>2. /\ z \in [Channel -> ChannelState] /\ z[c] = Rejected(chs[c])
        /\ \A d \in Channel : d # c => z[d] = chs[d]
    BY <1>0, ChannelOps
  <2> HIDE DEF z
  <2>3. ChannelsOK(z, channels \ {c}, terminal, nextLocalChannel)
    BY <1>0, <2>2, ChannelOps DEF ChannelsOK
  <2>4. /\ ChannelsOK(chan', channels', terminal', nextLocalChannel')
        /\ \A d \in Channel : chan'[d].begin = z[d].begin /\ chan'[d].output = z[d].output
    BY <2>1, <2>3, FatalChannels DEF Reason
  <2>5. \A d \in Channel : chan'[d].begin = chan[d].begin /\ chan'[d].output = chan[d].output
    BY <1>0, <2>2, <2>4, ChannelOps
  <2>6. reader' \in ReaderState /\ reader'.at = "stopped"
    BY <2>1 DEF ReaderAt, ReaderState
  <2> QED BY <2>4, <2>5, <2>6 DEF Writers
<1> QED BY <1>1, <1>2

LEMMA WriteDoneKeeps == IInv /\ WriteDone => IInv'
<1> SUFFICES ASSUME IInv, WriteDone PROVE IInv'
  OBVIOUS
<1> DEFINE p == Head(tail)
           r == reader.at \in ReaderWriting
<1>1. /\ tail # <<>> /\ tail' = Tail(tail) /\ flushed' = FALSE /\ UNCHANGED <<srv, inbox>>
      /\ r \in BOOLEAN
  BY DEF WriteDone, srvVars
<1>2. /\ p \in Packet /\ tail' \in Seq(Packet)
      /\ p.by = "begin" => p.ch \in Writers /\ Suspended(tail', Writers \ {p.ch}, r)
      /\ p.by = "reader" => r /\ Suspended(tail', Writers, FALSE)
      /\ p.by = "cancel" => Suspended(tail', Writers, r)
  BY <1>1, IInvFacts, SuspendedTail
<1>3. /\ 1 \in DOMAIN tail /\ p = tail[1]
      /\ \A i \in DOMAIN tail' : i + 1 \in DOMAIN tail /\ tail'[i] = tail[i + 1]
  BY <1>1, IInvFacts
<1>4. p.ch \in Channel /\ p.n \in Nat /\ reader \in ReaderState
  BY <1>2, IInvFacts DEF Packet
<1>5. \A i \in DOMAIN tail' : tail'[i].by = "reader" =>
        \E j \in DOMAIN tail : tail[j] = tail'[i]
  BY <1>3
<1>6. ChannelsOK(chan, channels, terminal, nextLocalChannel)
  BY IInvFacts
<1>7. QueuesOK' <=> reader' \in ReaderState
  BY <1>1, <1>2 DEF IInv, QueuesOK
<1>8. CASE /\ p.by = "begin"
           /\ chan' = [chan EXCEPT ![p.ch].begin = NextWait[@]]
           /\ UNCHANGED <<muxVars, reader>>
  <2> DEFINE x == [chan[p.ch] EXCEPT !.begin = NextWait[@]]
  <2>1. chan[p.ch].begin \in Writing /\ chan[p.ch] \in ChannelState
    BY <1>2, <1>4, <1>8, IInvFacts
  <2>2. /\ x \in ChannelState /\ x.begin \notin Writing
        /\ x.result = chan[p.ch].result /\ x.output = chan[p.ch].output
        /\ x.cancelled = chan[p.ch].cancelled
    <3>1. NextWait[chan[p.ch].begin] \in Begin \ Writing
      BY <2>1 DEF NextWait, Begin, Writing
    <3> QED BY <2>1, <3>1 DEF ChannelState
  <2>3. chan' = [chan EXCEPT ![p.ch] = x]
    BY <1>8
  <2> HIDE DEF x, p
  <2>4. ChannelsOK(chan', channels, terminal, nextLocalChannel) /\ OnlyChanged(p.ch, x)
    <3>1. Becomes(p.ch, x, channels, terminal, nextLocalChannel)
      BY <1>4, <1>6, <2>1, <2>2, <2>3 DEF Becomes, ChannelsOK, Writing
    <3> QED BY <3>1, OneChannel
  <2>5. /\ Writers' = Writers \ {p.ch}
        /\ \A d \in Channel : chan'[d].output = chan[d].output
    BY <2>2, <2>4 DEF OnlyChanged
  <2>6. AdjustFits'
    BY <1>5, <1>8, <2>5, ReaderAlone
  <2> QED BY <1>2, <1>4, <1>7, <1>8, <2>4, <2>5, <2>6, IInvNext DEF muxVars
<1>9. CASE p.by = "cancel" /\ UNCHANGED <<muxVars, chan, reader>>
  <2>1. AdjustFits'
    BY <1>5, <1>9, ReaderAlone
  <2>2. Writers' = Writers
    BY <1>9 DEF Writers
  <2> QED BY <1>2, <1>4, <1>6, <1>7, <1>9, <2>1, <2>2, IInvNext DEF muxVars
<1>10. CASE p.by = "reader" /\ reader.at = "write" /\ Reading /\ UNCHANGED <<muxVars, chan>>
  <2>1. reader' \in ReaderState /\ reader'.at = "read"
    BY <1>4, <1>10 DEF Reading, ReaderState
  <2>2. Writers' = Writers /\ AdjustFits'
    BY <1>10, <2>1 DEF Writers, AdjustFits
  <2>3. Suspended(tail', Writers', reader'.at \in ReaderWriting)
    BY <1>2, <1>10, <2>1, <2>2 DEF ReaderWriting, Suspended
  <2> QED BY <1>6, <1>7, <1>10, <2>1, <2>2, <2>3, IInvNext DEF muxVars
<1>11. CASE /\ p.by = "reader" /\ reader.at = "adjust"
            /\ chan' = [chan EXCEPT ![p.ch].window = @ + p.n, ![p.ch].output = @ + p.n]
            /\ Reading
            /\ UNCHANGED muxVars
  <2> DEFINE x == [chan[p.ch] EXCEPT !.window = @ + p.n, !.output = @ + p.n]
  <2>0. p.ch = reader.ch /\ p.n = reader.n /\ chan[reader.ch].output + reader.n <= MaxOutput
    BY <1>3, <1>11 DEF IInv, AdjustFits
  <2>1. /\ x \in ChannelState /\ x.begin = chan[p.ch].begin
        /\ x.result = chan[p.ch].result /\ x.cancelled = chan[p.ch].cancelled
        /\ x.output = chan[p.ch].output + p.n
    <3> HIDE DEF p
    <3>1. chan[p.ch] \in ChannelState /\ p.n \in Nat
      BY <1>4, IInvFacts
    <3>2. chan[p.ch].window + p.n \in Nat /\ chan[p.ch].output + p.n \in Nat
      BY <3>1 DEF ChannelState
    <3> QED BY <3>1, <3>2 DEF ChannelState
  <2>2. chan' = [chan EXCEPT ![p.ch] = x]
    BY <1>4, <1>11, <1>6 DEF ChannelsOK
  <2>3. reader' \in ReaderState /\ reader'.at = "read"
    BY <1>4, <1>11 DEF Reading, ReaderState
  <2> HIDE DEF x, p
  <2>4. ChannelsOK(chan', channels, terminal, nextLocalChannel) /\ OnlyChanged(p.ch, x)
    <3>1. Becomes(p.ch, x, channels, terminal, nextLocalChannel)
      BY <1>4, <1>6, <2>0, <2>1, <2>2 DEF Becomes, ChannelsOK
    <3> QED BY <3>1, OneChannel
  <2>5. Writers' = Writers /\ AdjustFits'
    BY <2>1, <2>3, <2>4 DEF OnlyChanged, AdjustFits
  <2>6. Suspended(tail', Writers', reader'.at \in ReaderWriting)
    BY <1>2, <1>11, <2>3, <2>5 DEF ReaderWriting, Suspended
  <2> QED BY <1>7, <1>11, <2>3, <2>4, <2>5, <2>6, IInvNext DEF muxVars
<1>12. CASE p.by = "reader" /\ reader.at = "close" /\ FinishClose(p.ch, chan)
  <2> HIDE DEF p
  <2>1. /\ ChannelsOK(chan', channels', terminal', nextLocalChannel')
        /\ Writers' = Writers
        /\ reader' \in ReaderState /\ reader'.at \in {"read", "stopped"}
    BY <1>4, <1>6, <1>12, FinishCloseKeeps
  <2>2. Suspended(tail', Writers', reader'.at \in ReaderWriting) /\ AdjustFits'
    BY <1>2, <1>12, <2>1 DEF ReaderWriting, Suspended, AdjustFits
  <2> QED BY <1>7, <2>1, <2>2, IInvNext
<1> QED BY <1>8, <1>9, <1>10, <1>11, <1>12 DEF WriteDone

LEMMA WriteFailKeeps == IInv /\ WriteFail => IInv'
<1> SUFFICES ASSUME IInv, WriteFail PROVE IInv'
  OBVIOUS
<1> DEFINE failed == {p.ch : p \in {tail[i] : i \in {j \in DOMAIN tail : tail[j].by = "begin"}}}
           gaveUp(c) == \/ c \in failed /\ ~chan[c].cancelled
                        \/ reader.at = "adjust" /\ reader.ch = c
           thrown == [c \in Channel |->
                        [(IF gaveUp(c) THEN Closing(Rejected(chan[c])) ELSE chan[c])
                           EXCEPT !.begin = IF c \in failed THEN "done" ELSE @]]
<1>1. /\ Fatal(thrown, channels, "transport") /\ "transport" \in Reason
      /\ tail' = <<>> /\ flushed' = FALSE /\ UNCHANGED <<srv, inbox>>
      /\ reader' = IF \E i \in DOMAIN tail : tail[i].by = "reader"
                     THEN [reader EXCEPT !.at = "stopped"] ELSE reader
  BY DEF WriteFail, srvVars, Reason
<1>2. \A c \in Channel : c \in failed <=> c \in Writers
  BY IInvFacts DEF Suspended
<1>3. \A c \in Channel : chan[c] \in ChannelState
  BY IInvFacts
<1>4. \A c \in Channel :
        /\ thrown[c] \in ChannelState /\ thrown[c].output = chan[c].output
        /\ chan[c].result # "pending" => thrown[c].result # "pending"
        /\ chan[c].result = "none" => thrown[c].result = "none"
        /\ thrown[c].cancelled = chan[c].cancelled
        /\ thrown[c].begin = IF c \in Writers THEN "done" ELSE chan[c].begin
  <2> TAKE c \in Channel
  <2> DEFINE x == IF gaveUp(c) THEN Closing(Rejected(chan[c])) ELSE chan[c]
  <2>1. /\ x \in ChannelState /\ x.output = chan[c].output
        /\ chan[c].result # "pending" => x.result # "pending"
        /\ chan[c].result = "none" => x.result = "none"
        /\ x.cancelled = chan[c].cancelled /\ x.begin = chan[c].begin
    <3>1. /\ Rejected(chan[c]) \in ChannelState
          /\ Rejected(chan[c]).result # "pending"
          /\ chan[c].result = "none" => Rejected(chan[c]).result = "none"
          /\ Rejected(chan[c]).output = chan[c].output
          /\ Rejected(chan[c]).cancelled = chan[c].cancelled
          /\ Rejected(chan[c]).begin = chan[c].begin
      BY <1>3, ChannelOps
    <3> DEFINE y == Rejected(chan[c])
    <3>2. /\ Closing(y) \in ChannelState /\ Closing(y).result = y.result
          /\ Closing(y).output = y.output /\ Closing(y).cancelled = y.cancelled
          /\ Closing(y).begin = y.begin
      BY <3>1, ChannelOps
    <3> HIDE DEF gaveUp
    <3> QED BY <1>3, <3>1, <3>2
  <2>2. thrown[c] = [x EXCEPT !.begin = IF c \in failed THEN "done" ELSE @]
    OBVIOUS
  <2> HIDE DEF thrown, failed, x
  <2> QED BY <1>2, <2>1, <2>2 DEF ChannelState, Begin
<1>5. thrown \in [Channel -> ChannelState]
  BY <1>4
<1> HIDE DEF thrown, failed
<1>6. ChannelsOK(thrown, channels, terminal, nextLocalChannel)
  <2>1. \A c \in Channel : c >= nextLocalChannel => c \notin Writers
    BY IInvFacts DEF ChannelsOK, Writing
  <2> QED BY <1>4, <1>5, <2>1, IInvFacts DEF ChannelsOK
<1>7. /\ ChannelsOK(chan', channels', terminal', nextLocalChannel')
      /\ \A c \in Channel : chan'[c].begin = thrown[c].begin /\ chan'[c].output = thrown[c].output
  BY <1>1, <1>6, FatalChannels
<1>8. Writers' = {}
  BY <1>4, <1>7, <1>3 DEF Writers, Writing
<1>9. reader' \in ReaderState /\ reader'.at \notin ReaderWriting
  <2>1. reader \in ReaderState
    BY IInvFacts
  <2> QED BY <1>1, <2>1, IInvFacts DEF ReaderState, ReaderWriting, Suspended
<1>10. Suspended(tail', Writers', reader'.at \in ReaderWriting)
  BY <1>1, <1>8, <1>9 DEF Suspended
<1>11. AdjustFits'
  BY <1>9 DEF AdjustFits, ReaderWriting
<1>12. QueuesOK'
  <2>1. <<>> \in Seq(Packet)
    OBVIOUS
  <2> QED BY <1>1, <1>9, <2>1 DEF IInv, QueuesOK
<1> QED BY <1>7, <1>10, <1>11, <1>12, IInvNext

\* A step of the read loop that ends it with #fatal.
LEMMA StopKeeps ==
  ASSUME IInv, NEW reason \in Reason, Fatal(chan, channels, reason),
         reader.at = "read", reader' \in ReaderState, reader'.at = "stopped",
         UNCHANGED tail, flushed' \in BOOLEAN,
         srv' \in [Channel -> ServerState], inbox' \in Seq(Message)
  PROVE  IInv'
<1>1. /\ ChannelsOK(chan', channels', terminal', nextLocalChannel')
      /\ \A c \in Channel : chan'[c].begin = chan[c].begin
  BY IInvFacts, FatalChannels
<1>2. Writers' = Writers
  BY <1>1 DEF Writers
<1>3. Suspended(tail', Writers', reader'.at \in ReaderWriting)
  BY <1>2, IInvFacts DEF Suspended, ReaderWriting
<1>4. AdjustFits'
  BY DEF AdjustFits
<1>5. QueuesOK'
  BY IInvFacts DEF QueuesOK
<1> QED BY <1>1, <1>3, <1>4, <1>5, IInvNext

LEMMA ReadFailKeeps == IInv /\ ReadFail => IInv'
<1> SUFFICES ASSUME IInv, ReadFail PROVE IInv'
  OBVIOUS
<1>1. /\ Fatal(chan, channels, "transport") /\ reader.at = "read" /\ "transport" \in Reason
      /\ reader' = [reader EXCEPT !.at = "stopped"]
      /\ UNCHANGED <<tail, flushed, srv, inbox>>
  BY DEF ReadFail, srvVars, Reason
<1>2. reader' \in ReaderState /\ reader'.at = "stopped"
  BY <1>1, IInvFacts DEF ReaderState
<1> QED BY <1>1, <1>2, StopKeeps DEF IInv, QueuesOK

LEMMA RecvErrorKeeps == IInv /\ RecvError => IInv'
<1> SUFFICES ASSUME IInv, RecvError PROVE IInv'
  OBVIOUS
<1>1. /\ Fatal(chan, channels, RouteError) /\ RouteError \in Reason
      /\ Receive(ServerType) /\ UNCHANGED tail
      /\ reader' = [at |-> "stopped", ch |-> msg.ch, n |-> 0]
  BY RouteErrorType DEF RecvError, ReaderAt
<1>2. /\ msg.ch \in Channel /\ reader.at = "read"
      /\ inbox' \in Seq(Message) /\ flushed' \in BOOLEAN /\ srv' \in [Channel -> ServerState]
  BY <1>1, ReceiveFacts
<1>3. reader' \in ReaderState /\ reader'.at = "stopped"
  BY <1>1, <1>2 DEF ReaderState
<1> QED BY <1>1, <1>2, <1>3, StopKeeps

\* A handler that makes x of the channel object and returns, or queues one
\* packet of `n` bytes of credit (or none) and waits for it.
HandlerLeaves(x, type, n, at) ==
  /\ chan' = [chan EXCEPT ![msg.ch] = x]
  /\ x.begin = target.begin /\ x.cancelled = target.cancelled
  /\ x.result = "pending" => target.result = "pending"
  /\ target.result = "none" => x.result = "none"
  /\ x.output <= MaxOutput
  /\ \/ UNCHANGED <<tail, reader>>
     \/ /\ Write(type, msg.ch, n, "reader") /\ ReaderAt(at, msg.ch, n)
        /\ at = "adjust" => x.output + n <= MaxOutput

LEMMA HandlerKeeps ==
  ASSUME IInv, NEW types, Receive(types), UNCHANGED muxVars,
         NEW x \in ChannelState, NEW type \in ClientType, NEW n \in Nat,
         NEW at \in ReaderWriting, HandlerLeaves(x, type, n, at)
  PROVE  IInv'
<1>1. /\ msg.ch \in Channel /\ reader \in ReaderState /\ reader.at = "read"
      /\ inbox' \in Seq(Message) /\ flushed' \in BOOLEAN /\ srv' \in [Channel -> ServerState]
      /\ Suspended(tail, Writers, FALSE)
      /\ target = chan[msg.ch]
      /\ UNCHANGED <<nextLocalChannel, channels, terminal>>
  BY ReceiveFacts DEF target, muxVars
<1>2. /\ ChannelsOK(chan', channels, terminal, nextLocalChannel)
      /\ OnlyChanged(msg.ch, x)
  <2>1. Becomes(msg.ch, x, channels, terminal, nextLocalChannel)
    BY <1>1, IInvFacts DEF HandlerLeaves, Becomes, ChannelsOK
  <2> QED BY <2>1, OneChannel
<1>3. Writers' = Writers /\ chan'[msg.ch] = x
  BY <1>1, <1>2 DEF HandlerLeaves, OnlyChanged
<1>4. CASE UNCHANGED <<tail, reader>>
  <2>1. AdjustFits' /\ QueuesOK' /\ Suspended(tail', Writers', reader'.at \in ReaderWriting)
    BY <1>1, <1>3, <1>4, IInvFacts DEF AdjustFits, IInv, QueuesOK
  <2> QED BY <1>1, <1>2, <2>1, IInvNext
<1>5. CASE /\ Write(type, msg.ch, n, "reader") /\ ReaderAt(at, msg.ch, n)
           /\ at = "adjust" => x.output + n <= MaxOutput
  <2>1. /\ tail' \in Seq(Packet) /\ Suspended(tail', Writers, TRUE)
        /\ \A i \in DOMAIN tail' : tail'[i].by = "reader" =>
             tail'[i].ch = msg.ch /\ tail'[i].n = n
    <3>1. reader.at \notin ReaderWriting
      BY <1>1 DEF ReaderWriting
    <3> QED BY <1>1, <1>5, <3>1, ReaderWrites, IInvFacts
  <2>2. /\ reader' \in ReaderState /\ reader'.at = at /\ reader'.ch = msg.ch /\ reader'.n = n
    BY <1>1, <1>5 DEF ReaderAt, ReaderState, ReaderWriting
  <2>3. AdjustFits' /\ QueuesOK' /\ Suspended(tail', Writers', reader'.at \in ReaderWriting)
    BY <1>1, <1>3, <1>5, <2>1, <2>2 DEF AdjustFits, QueuesOK, Suspended
  <2> QED BY <1>1, <1>2, <2>3, IInvNext
<1> QED BY <1>4, <1>5 DEF HandlerLeaves

-----------------------------------------------------------------------------
(* The handlers of the read loop.                                          *)

LEMMA RecvConfirmationKeeps == IInv /\ RecvConfirmation => IInv'
<1> SUFFICES ASSUME IInv, RecvConfirmation PROVE IInv'
  OBVIOUS
<1> DEFINE x == [target EXCEPT !.remote = TRUE, !.opened = Settle(@, "resolved"),
                                !.sentClose = @ \/ target.closing]
<1>1. /\ Receive({"confirm"}) /\ UNCHANGED muxVars /\ msg.ch \in Channel
      /\ target \in ChannelState /\ target = chan[msg.ch] /\ target.output <= MaxOutput
  BY ReceiveFacts, IInvFacts DEF RecvConfirmation, Handle, target, ChannelsOK
<1>2. /\ x \in ChannelState /\ x.begin = target.begin /\ x.cancelled = target.cancelled
      /\ x.result = target.result /\ x.output = target.output
  <2>1. (target.sentClose \/ target.closing) \in BOOLEAN
        /\ Settle(target.opened, "resolved") \in Promise
    BY <1>1 DEF ChannelState, Promise, Settle
  <2> QED BY <1>1, <2>1 DEF ChannelState
<1>3. chan' = [chan EXCEPT ![msg.ch] = x]
  BY <1>1 DEF RecvConfirmation
<1> HIDE DEF x
<1>4. HandlerLeaves(x, "CLOSE", 0, "write")
  BY <1>1, <1>2, <1>3 DEF RecvConfirmation, HandlerLeaves
<1> QED BY <1>1, <1>2, <1>4, HandlerKeeps DEF ClientType, ReaderWriting

LEMMA RecvEofKeeps == IInv /\ RecvEof => IInv'
<1> SUFFICES ASSUME IInv, RecvEof PROVE IInv'
  OBVIOUS
<1> DEFINE x == [target EXCEPT !.receivedEof = TRUE]
<1>1. /\ Receive({"eof"}) /\ UNCHANGED muxVars /\ msg.ch \in Channel
      /\ target \in ChannelState /\ target = chan[msg.ch] /\ target.output <= MaxOutput
  BY ReceiveFacts, IInvFacts DEF RecvEof, Handle, target, ChannelsOK
<1>2. /\ x \in ChannelState /\ x.begin = target.begin /\ x.cancelled = target.cancelled
      /\ x.result = target.result /\ x.output = target.output
  BY <1>1 DEF ChannelState, Promise, Settle
<1>3. chan' = [chan EXCEPT ![msg.ch] = x]
  BY <1>1 DEF RecvEof
<1> HIDE DEF x
<1>4. HandlerLeaves(x, "CLOSE", 0, "write")
  BY <1>1, <1>2, <1>3 DEF RecvEof, HandlerLeaves
<1> QED BY <1>1, <1>2, <1>4, HandlerKeeps DEF ClientType, ReaderWriting

LEMMA RecvExitStatusKeeps == IInv /\ RecvExitStatus => IInv'
<1> SUFFICES ASSUME IInv, RecvExitStatus PROVE IInv'
  OBVIOUS
<1> DEFINE x == [target EXCEPT !.exited = TRUE]
<1>1. /\ Receive({"exitStatus"}) /\ UNCHANGED muxVars /\ msg.ch \in Channel
      /\ target \in ChannelState /\ target = chan[msg.ch] /\ target.output <= MaxOutput
  BY ReceiveFacts, IInvFacts DEF RecvExitStatus, Handle, target, ChannelsOK
<1>2. /\ x \in ChannelState /\ x.begin = target.begin /\ x.cancelled = target.cancelled
      /\ x.result = target.result /\ x.output = target.output
  BY <1>1 DEF ChannelState, Promise, Settle
<1>3. chan' = [chan EXCEPT ![msg.ch] = x]
  BY <1>1 DEF RecvExitStatus
<1> HIDE DEF x
<1>4. HandlerLeaves(x, "CLOSE", 0, "write")
  BY <1>1, <1>2, <1>3 DEF RecvExitStatus, HandlerLeaves
<1> QED BY <1>1, <1>2, <1>4, HandlerKeeps DEF ClientType, ReaderWriting

LEMMA RecvReplyKeeps == IInv /\ RecvReply => IInv'
<1> SUFFICES ASSUME IInv, RecvReply PROVE IInv'
  OBVIOUS
<1> DEFINE x == [target EXCEPT !.reply =
                  IF msg.type = "success" THEN "resolved" ELSE "rejected"]
<1>1. /\ Receive({"success", "failure"}) /\ UNCHANGED muxVars /\ msg.ch \in Channel
      /\ target \in ChannelState /\ target = chan[msg.ch] /\ target.output <= MaxOutput
  BY ReceiveFacts, IInvFacts DEF RecvReply, Handle, target, ChannelsOK
<1>2. /\ x \in ChannelState /\ x.begin = target.begin /\ x.cancelled = target.cancelled
      /\ x.result = target.result /\ x.output = target.output
  BY <1>1 DEF ChannelState, Promise, Settle
<1>3. chan' = [chan EXCEPT ![msg.ch] = x]
  BY <1>1 DEF RecvReply
<1> HIDE DEF x
<1>4. HandlerLeaves(x, "CLOSE", 0, "write")
  BY <1>1, <1>2, <1>3 DEF RecvReply, HandlerLeaves
<1> QED BY <1>1, <1>2, <1>4, HandlerKeeps DEF ClientType, ReaderWriting

LEMMA RecvGlobalKeeps == IInv /\ RecvGlobal => IInv'
<1> SUFFICES ASSUME IInv, RecvGlobal PROVE IInv'
  OBVIOUS
<1>1. /\ Receive({"global"}) /\ UNCHANGED muxVars /\ msg.ch \in Channel
      /\ target \in ChannelState /\ target = chan[msg.ch] /\ target.output <= MaxOutput
  BY ReceiveFacts, IInvFacts DEF RecvGlobal, Handle, target, ChannelsOK
<1>2. chan' = [chan EXCEPT ![msg.ch] = target]
  BY <1>1, IInvFacts DEF RecvGlobal, ChannelsOK
<1>3. HandlerLeaves(target, "REQUEST_FAILURE", 0, "write")
  BY <1>1, <1>2 DEF RecvGlobal, HandlerLeaves
<1> QED BY <1>1, <1>3, HandlerKeeps DEF ClientType, ReaderWriting

LEMMA RecvOverLimitKeeps == IInv /\ RecvOverLimit => IInv'
<1> SUFFICES ASSUME IInv, RecvOverLimit PROVE IInv'
  OBVIOUS
<1> DEFINE x == Closing(Rejected(target))
<1>1. /\ Receive({"data", "badExtended"}) /\ UNCHANGED muxVars /\ msg.ch \in Channel
      /\ target \in ChannelState /\ target = chan[msg.ch] /\ target.output <= MaxOutput
  BY ReceiveFacts, IInvFacts DEF RecvOverLimit, Handle, target, ChannelsOK
<1>2. /\ x \in ChannelState /\ x.begin = target.begin /\ x.cancelled = target.cancelled
      /\ x.result # "pending" /\ x.output = target.output
      /\ target.result = "none" => x.result = "none"
  <2>1. Rejected(target) \in ChannelState
    BY <1>1, ChannelOps
  <2> QED BY <1>1, <2>1, ChannelOps
<1>3. chan' = [chan EXCEPT ![msg.ch] = x]
  BY <1>1 DEF RecvOverLimit
<1> HIDE DEF x
<1>4. HandlerLeaves(x, "CLOSE", 0, "write")
  BY <1>1, <1>2, <1>3 DEF RecvOverLimit, WriteCloseIfDue, HandlerLeaves
<1> QED BY <1>1, <1>2, <1>4, HandlerKeeps DEF ClientType, ReaderWriting

LEMMA RecvDataKeeps == IInv /\ RecvData => IInv'
<1> SUFFICES ASSUME IInv, RecvData PROVE IInv'
  OBVIOUS
<1>1. /\ Receive({"data"}) /\ UNCHANGED muxVars /\ msg.ch \in Channel /\ msg.n \in Nat
      /\ target \in ChannelState /\ target = chan[msg.ch]
      /\ target.window - msg.n \in Nat /\ target.output + msg.n \in Nat
      /\ target.output + msg.n <= MaxOutput /\ target.output <= MaxOutput
  <2>1. /\ Receive({"data"}) /\ UNCHANGED muxVars /\ msg.ch \in Channel /\ msg.n \in Nat
        /\ target \in ChannelState /\ target = chan[msg.ch] /\ target.output <= MaxOutput
    BY ReceiveFacts, IInvFacts DEF RecvData, Handle, target, ChannelsOK
  <2>2. target.window \in Nat /\ target.output \in Nat
    BY <2>1 DEF ChannelState
  <2>3. ~(msg.n > target.window) /\ ~(msg.n + target.output > MaxOutput)
    BY DEF RecvData, OverLimit
  <2> QED BY <2>1, <2>2, <2>3, MuxAssumption
<1>2. CASE msg.n > 0 /\ target.remote
  <2> DEFINE x == [target EXCEPT !.window = @ - msg.n]
  <2>1. /\ x \in ChannelState /\ x.begin = target.begin /\ x.cancelled = target.cancelled
        /\ x.result = target.result /\ x.output = target.output
    BY <1>1 DEF ChannelState
  <2>2. chan' = [chan EXCEPT ![msg.ch] = x]
    BY <1>1, <1>2 DEF RecvData
  <2> HIDE DEF x
  <2>3. HandlerLeaves(x, "ADJUST", msg.n, "adjust")
    BY <1>1, <1>2, <2>1, <2>2 DEF RecvData, HandlerLeaves
  <2> QED BY <1>1, <2>1, <2>3, HandlerKeeps DEF ClientType, ReaderWriting
<1>3. CASE ~(msg.n > 0 /\ target.remote)
  <2> DEFINE x == [target EXCEPT !.window = @ - msg.n, !.output = @ + msg.n]
  <2>1. /\ x \in ChannelState /\ x.begin = target.begin /\ x.cancelled = target.cancelled
        /\ x.result = target.result /\ x.output = target.output + msg.n
    BY <1>1 DEF ChannelState
  <2>2. chan' = [chan EXCEPT ![msg.ch] = x]
    BY <1>1, <1>3 DEF RecvData
  <2> HIDE DEF x
  <2>3. HandlerLeaves(x, "ADJUST", 0, "write")
    BY <1>1, <1>3, <2>1, <2>2 DEF RecvData, HandlerLeaves
  <2> QED BY <1>1, <2>1, <2>3, HandlerKeeps DEF ClientType, ReaderWriting
<1> QED BY <1>2, <1>3

LEMMA RecvOpenFailureKeeps == IInv /\ RecvOpenFailure => IInv'
<1> SUFFICES ASSUME IInv, RecvOpenFailure PROVE IInv'
  OBVIOUS
<1> DEFINE x == [Rejected(target) EXCEPT !.opened = Settle(@, "rejected")]
<1>1. /\ Receive({"openFailure"}) /\ msg.ch \in Channel
      /\ UNCHANGED <<nextLocalChannel, terminal, tail, reader>>
      /\ channels' = channels \ {msg.ch}
      /\ target \in ChannelState /\ target = chan[msg.ch] /\ target.output <= MaxOutput
      /\ reader.at = "read"
  BY ReceiveFacts, IInvFacts DEF RecvOpenFailure, Handle, target, ChannelsOK
<1>2. /\ x \in ChannelState /\ x.begin = target.begin /\ x.output = target.output
      /\ x.result # "pending"
      /\ target.result = "none" => x.result = "none"
  <2>1. /\ Rejected(target) \in ChannelState
        /\ Rejected(target).result # "pending"
        /\ Rejected(target).begin = target.begin
        /\ Rejected(target).output = target.output
        /\ target.result = "none" => Rejected(target).result = "none"
    BY <1>1, ChannelOps
  <2>2. Settle(Rejected(target).opened, "rejected") \in Promise
    BY <2>1 DEF ChannelState, Settle, Promise
  <2> HIDE DEF Promise
  <2> QED BY <2>1, <2>2 DEF ChannelState
<1> HIDE DEF x
<1>3. chan' = [chan EXCEPT ![msg.ch] = x]
  BY DEF RecvOpenFailure, x
<1>4. ChannelsOK(chan', channels, terminal, nextLocalChannel) /\ OnlyChanged(msg.ch, x)
  <2>1. Becomes(msg.ch, x, channels, terminal, nextLocalChannel)
    BY <1>1, <1>2, <1>3, IInvFacts DEF Becomes, ChannelsOK
  <2> QED BY <2>1, OneChannel
<1>5. ChannelsOK(chan', channels', terminal', nextLocalChannel')
  BY <1>1, <1>2, <1>4 DEF ChannelsOK, OnlyChanged
<1>6. Writers' = Writers
  BY <1>1, <1>2, <1>4 DEF OnlyChanged
<1>7. AdjustFits' /\ QueuesOK'
  BY <1>1, ReceiveFacts DEF AdjustFits, IInv, QueuesOK
<1> QED BY <1>1, <1>5, <1>6, <1>7, IInvFacts, IInvNext

LEMMA RecvCloseKeeps == IInv /\ RecvClose => IInv'
<1> SUFFICES ASSUME IInv, RecvClose PROVE IInv'
  OBVIOUS
<1> DEFINE x == [target EXCEPT !.receivedClose = TRUE, !.sentClose = @ \/ target.remote]
           chs == [chan EXCEPT ![msg.ch] = x]
<1>1. /\ Receive({"close"}) /\ msg.ch \in Channel /\ reader.at = "read"
      /\ target \in ChannelState /\ target = chan[msg.ch] /\ target.output <= MaxOutput
      /\ Suspended(tail, Writers, FALSE)
      /\ inbox' \in Seq(Message) /\ flushed' \in BOOLEAN /\ srv' \in [Channel -> ServerState]
  BY ReceiveFacts, IInvFacts DEF RecvClose, Handle, target, ChannelsOK
<1>2. /\ x \in ChannelState /\ x.begin = target.begin /\ x.cancelled = target.cancelled
      /\ x.result = target.result /\ x.output = target.output
  BY <1>1 DEF ChannelState
<1>3. chs = [chan EXCEPT ![msg.ch].receivedClose = TRUE,
                         ![msg.ch].sentClose = @ \/ target.remote]
  BY <1>1
<1>4. CASE MustSendClose(target)
  <2>1. /\ chan' = chs /\ UNCHANGED muxVars
        /\ Write("CLOSE", msg.ch, 0, "reader") /\ ReaderAt("close", msg.ch, 0)
    BY <1>3, <1>4 DEF RecvClose
  <2>2. chan' = [chan EXCEPT ![msg.ch] = x]
    BY <2>1
  <2> HIDE DEF x, chs
  <2>3. HandlerLeaves(x, "CLOSE", 0, "close")
    BY <1>1, <1>2, <2>1, <2>2 DEF HandlerLeaves
  <2> QED BY <1>1, <1>2, <2>1, <2>3, HandlerKeeps DEF ClientType, ReaderWriting
<1>5. CASE ~MustSendClose(target)
  <2>1. FinishClose(msg.ch, chs) /\ UNCHANGED tail
    BY <1>3, <1>5 DEF RecvClose
  <2> HIDE DEF x
  <2>2. ChannelsOK(chs, channels, terminal, nextLocalChannel)
        /\ \A d \in Channel : chs[d].begin = chan[d].begin /\ chs[d].output = chan[d].output
    <3>1. /\ chs \in [Channel -> ChannelState] /\ chs[msg.ch] = x
          /\ \A d \in Channel : d # msg.ch => chs[d] = chan[d]
      BY <1>1, <1>2, IInvFacts DEF ChannelsOK
    <3> HIDE DEF chs
    <3> QED BY <1>1, <1>2, <3>1, IInvFacts, ZenonT(60) DEF ChannelsOK
  <2> HIDE DEF chs
  <2>3. /\ ChannelsOK(chan', channels', terminal', nextLocalChannel')
        /\ Writers' = Writers
        /\ reader' \in ReaderState /\ reader'.at \in {"read", "stopped"}
    BY <1>1, <2>1, <2>2, FinishCloseKeeps
  <2>4. Suspended(tail', Writers', reader'.at \in ReaderWriting) /\ AdjustFits'
    BY <1>1, <2>1, <2>3 DEF ReaderWriting, Suspended, AdjustFits
  <2>5. QueuesOK'
    BY <1>1, <2>1, <2>3, IInvFacts DEF QueuesOK
  <2> QED BY <2>3, <2>4, <2>5, IInvNext
<1> QED BY <1>4, <1>5

LEMMA SendKeeps ==
  ASSUME NEW type \in ServerType, NEW c \in Channel, NEW n \in Nat
  PROVE  IInv /\ Send(type, c, n) => IInv'
<1> SUFFICES ASSUME IInv, Send(type, c, n) PROVE IInv'
  OBVIOUS
<1>1. /\ inbox' = Append(inbox, [type |-> type, ch |-> c, n |-> n])
      /\ srv' = [srv EXCEPT ![c].sent = IF Compliant /\ type # "global" THEN @ \cup {type} ELSE @,
                            ![c].window = IF n <= @ THEN @ - n ELSE 0,
                            ![c].bytes = IF Compliant THEN @ + n ELSE @]
      /\ UNCHANGED <<nextLocalChannel, channels, terminal, chan, tail, flushed, reader>>
  BY DEF Send, muxVars
<1>2. inbox' \in Seq(Message)
  <2>1. [type |-> type, ch |-> c, n |-> n] \in Message
    BY DEF Message
  <2> QED BY <1>1, <2>1 DEF IInv, QueuesOK
<1>3. srv' \in [Channel -> ServerState]
  <2>1. srv \in [Channel -> ServerState] /\ srv[c] \in ServerState
    BY DEF IInv, QueuesOK
  <2>2. /\ (IF Compliant /\ type # "global" THEN srv[c].sent \cup {type} ELSE srv[c].sent)
             \in SUBSET ServerType
        /\ (IF n <= srv[c].window THEN srv[c].window - n ELSE 0) \in Nat
        /\ (IF Compliant THEN srv[c].bytes + n ELSE srv[c].bytes) \in Nat
    BY <2>1 DEF ServerState
  <2> QED BY <1>1, <2>1, <2>2 DEF ServerState
<1> QED BY <1>1, <1>2, <1>3 DEF IInv, QueuesOK, AdjustFits, SuspendedInTail

LEMMA InitIInv == Init => IInv
<1> SUFFICES ASSUME Init PROVE IInv
  OBVIOUS
<1> USE DEF Init
<1>1. 0 \in Channel /\ MaxLocalChannel \in Nat
  BY MuxAssumption DEF Channel
<1>2. chan \in [Channel -> ChannelState] /\ \A c \in Channel : chan[c] = NewChannel
  BY NewChannelType
<1>3. \A c \in Channel : /\ chan[c].begin = "none" /\ chan[c].result = "none"
                         /\ ~chan[c].cancelled /\ chan[c].output = 0
  BY <1>2 DEF NewChannel
<1>4. ChannelsOK(chan, channels, terminal, nextLocalChannel)
  BY <1>1, <1>2, <1>3, MuxAssumption DEF ChannelsOK
<1>5. srv \in [Channel -> ServerState]
  BY DEF ServerState
<1>6. QueuesOK
  BY <1>1, <1>5 DEF QueuesOK, ReaderState
<1>7. SuspendedInTail
  BY <1>3 DEF SuspendedInTail, Writing, ReaderWriting
<1>8. AdjustFits
  BY DEF AdjustFits
<1> QED BY <1>4, <1>6, <1>7, <1>8 DEF IInv

LEMMA NextKeeps == IInv /\ [Next]_vars => IInv'
<1> SUFFICES ASSUME IInv, [Next]_vars PROVE IInv'
  OBVIOUS
<1>1. CASE User
  BY <1>1, RunKeeps, CloseKeeps, CancelKeeps DEF User
<1>2. CASE Begins
  BY <1>2, BeginsKeep DEF Begins
<1>3. CASE Transmit
  BY <1>3, TransmitKeeps
<1>4. CASE WriteDone
  BY <1>4, WriteDoneKeeps
<1>5. CASE WriteFail
  BY <1>5, WriteFailKeeps
<1>6. CASE ReadLoop
  BY <1>6, RecvErrorKeeps, RecvConfirmationKeeps, RecvOpenFailureKeeps, RecvDataKeeps,
     RecvOverLimitKeeps, RecvEofKeeps, RecvExitStatusKeeps, RecvReplyKeeps,
     RecvCloseKeeps, RecvGlobalKeeps DEF ReadLoop
<1>7. CASE ReadFail
  BY <1>7, ReadFailKeeps
<1>8. CASE Server
  <2> PICK c \in Channel : SendData(c) \/ SendOther(c)
    BY <1>8 DEF Server
  <2>1. CASE SendData(c)
    <3> PICK n \in DataSize : Send("data", c, n)
      BY <2>1 DEF SendData
    <3> QED BY MuxAssumption, SendKeeps DEF ServerType
  <2>2. CASE SendOther(c)
    <3> PICK type \in ServerSends : Send(type, c, 0)
      BY <2>2 DEF SendOther
    <3> QED BY MuxAssumption, SendKeeps
  <2> QED BY <2>1, <2>2
<1>9. CASE UNCHANGED vars
  <2>1. UNCHANGED <<nextLocalChannel, channels, terminal, chan, tail, flushed, reader, srv, inbox>>
    BY <1>9 DEF vars, muxVars, srvVars
  <2> QED BY <2>1 DEF IInv, QueuesOK, AdjustFits, SuspendedInTail
<1> QED BY <1>1, <1>2, <1>3, <1>4, <1>5, <1>6, <1>7, <1>8, <1>9 DEF Next

-----------------------------------------------------------------------------
(* The theorems.                                                           *)

\* The inductive invariant holds in every reachable state.
THEOREM Inductive == Spec => []IInv
  BY InitIInv, NextKeeps, PTL DEF Spec

\* The types of the module: no handler leaves a byte count or a window below
\* zero or a promise in an unknown state, whatever the server sends.
THEOREM TypeCorrect == Spec => []TypeOK
<1>1. IInv => TypeOK
  BY DEF IInv, ChannelsOK, QueuesOK, TypeOK
<1> QED BY <1>1, Inductive, PTL

\* No release, failure or close of the client loses a pending command.
THEOREM CommandsRemembered == Spec => []NoCommandForgotten
<1>1. IInv => NoCommandForgotten
  BY DEF IInv, ChannelsOK, NoCommandForgotten
<1> QED BY <1>1, Inductive, PTL

\* Every coroutine that waits for a write has exactly one packet in the tail.
THEOREM CoroutinesInTail == Spec => []SuspendedInTail
<1>1. IInv => SuspendedInTail
  BY DEF IInv
<1> QED BY <1>1, Inductive, PTL

\* The output of a command never exceeds maximumOutputBytes.
THEOREM OutputWithinLimit == Spec => []OutputBounded
<1>1. IInv => OutputBounded
  BY DEF IInv, ChannelsOK, OutputBounded
<1> QED BY <1>1, Inductive, PTL

-----------------------------------------------------------------------------
(* What the wire shows.  The second invariant is about one channel at a    *)
(* time: x is its object, m says that it is in the map, l that the client  *)
(* is live, r and n are what the read loop waits for on the channel, w are *)
(* the packets of the channel in the tail, of which the first is flushed   *)
(* when f says so, v is what the server has got and sent on the channel,   *)
(* and q are its messages that are not yet read.                           *)

\* Requests and replies that are not about a channel only name one.
For(p, d) == p.ch = d /\ p.type \notin {"REQUEST_FAILURE", "global"}

Got(v, type) == \E i \in DOMAIN v.got : v.got[i] = type
Rest(f, w) == IF f THEN Tail(w) ELSE w
Has(w, type) == \E i \in DOMAIN w : w[i].type = type

Typed(x, m, l, r, n, f, w, v, q) ==
  /\ x \in ChannelState /\ m \in BOOLEAN /\ l \in BOOLEAN /\ f \in BOOLEAN
  /\ r \in {"no", "adjust", "close"} /\ n \in Nat
  /\ w \in Seq(Packet) /\ v \in ServerState /\ q \in Seq(Message)
  /\ f => w # <<>>
  /\ \A i \in DOMAIN w : w[i].type # "REQUEST_FAILURE"
  /\ \A i \in DOMAIN q : q[i].type # "global"
  /\ m => l /\ x.begin # "none"
  /\ r # "no" => x.begin # "none"
  /\ x.result = "pending" => m

\* Where #begin is tells which of its requests the server may have got.
TypeAt == [opening |-> "OPEN", requesting |-> "EXEC", sendingEof |-> "EOF", closing |-> "CLOSE"]
Begun(x, w, v) ==
  /\ x.begin = "none" => x = NewChannel /\ w = <<>> /\ v.got = <<>>
  /\ \A i \in DOMAIN w :
       /\ w[i].by = "begin" => x.begin \in Writing /\ w[i].type = TypeAt[x.begin]
       /\ w[i].type \in {"OPEN", "EXEC", "EOF"} => w[i].by = "begin"
  /\ x.opened = "resolved" => x.remote
  /\ x.begin # "none" => x.opened # "none"
  /\ x.begin \in {"requesting", "awaitReply", "sendingEof", "closing"} => x.remote
  /\ x.begin \in {"requesting", "awaitReply", "sendingEof"} => x.reply # "none"
  /\ x.begin \in {"none", "opening", "awaitOpened"} => x.reply = "none"
  /\ x.begin = "opening" => ~x.remote \/ Got(v, "OPEN")
  /\ Got(v, "EXEC") => x.reply # "none"
  /\ x.begin \in {"none", "opening", "awaitOpened", "requesting", "awaitReply", "closing"} => ~Got(v, "EOF")
  /\ x.begin = "sendingEof" \/ x.reply = "resolved" => "success" \in v.sent

\* A packet that waits is not one that the server has, and CLOSE leaves no
\* credit behind it.
Queued(x, r, n, f, w, v) ==
  LET u == Rest(f, w) IN
  /\ f => Got(v, Head(w).type)
  /\ \A j \in DOMAIN u :
       /\ u[j].type # "ADJUST" =>
            /\ ~Got(v, u[j].type)
            /\ \A i \in DOMAIN u : u[i].type = u[j].type => i = j
       /\ u[j].type = "ADJUST" =>
            ~Got(v, "CLOSE") /\ \A i \in DOMAIN u : u[i].type = "CLOSE" => ~(i < j)
       /\ u[j].type \in {"EOF", "ADJUST"} => Got(v, "EXEC")
  /\ \A j \in DOMAIN w :
       /\ w[j].type # "OPEN" => x.remote
       /\ w[j].type = "CLOSE" => x.sentClose
       /\ w[j].type = "OPEN" => w[j].n = InitialWindow
       /\ w[j].type \notin {"OPEN", "ADJUST"} => w[j].n = 0
       /\ w[j].type = "ADJUST" =>
            /\ w[j].by = "reader" /\ r = "adjust" /\ w[j].n = n
            /\ \A i \in DOMAIN w : w[i].type = "ADJUST" => i = j

\* WireOrder, of one channel.
InOrder(x, v) ==
  /\ \A i, j \in DOMAIN v.got : v.got[i] = v.got[j] /\ v.got[i] # "ADJUST" => i = j
  /\ \A i \in DOMAIN v.got :
       /\ v.got[1] = "OPEN"
       /\ v.got[i] # "OPEN" => x.remote
       /\ v.got[i] \in {"EOF", "ADJUST"} => \E j \in 1 .. i : v.got[j] = "EXEC"
       /\ \A j \in 1 .. i - 1 : v.got[j] = "CLOSE" => v.got[i] \in {"EXEC", "EOF"}
  /\ Got(v, "CLOSE") => x.sentClose
  /\ ~Got(v, "REQUEST_FAILURE")

\* The flags of a channel, and what it left behind when it left the map.
Closed(w, v) == Got(v, "CLOSE") \/ Has(w, "CLOSE")
Flagged(x, m, l, r, w, v) ==
  /\ x.remote => "confirm" \in v.sent
  /\ x.sentClose => x.remote /\ (x.closing \/ x.receivedClose)
  /\ x.receivedClose => "close" \in v.sent
  /\ x.receivedEof => "eof" \in v.sent
  /\ x.exited => "exitStatus" \in v.sent
  /\ l /\ x.sentClose => Closed(w, v)
  /\ m /\ x.receivedClose => r = "close"
  /\ r = "close" => x.receivedClose /\ x.sentClose
  /\ x.result = "pending" => ~x.closing /\ ~x.cancelled /\ (x.sentClose => r = "close")
  /\ l /\ x.begin # "none" /\ ~m =>
       "openFailure" \in v.sent \/ ("close" \in v.sent /\ Closed(w, v))

\* What a compliant server has sent.
Sent(v) ==
  /\ v.sent \cap {"confirm", "openFailure"} # {} => Got(v, "OPEN")
  /\ ~({"confirm", "openFailure"} \subseteq v.sent)
  /\ v.sent \cap {"success", "failure"} # {} => Got(v, "EXEC")
  /\ ~({"success", "failure"} \subseteq v.sent)
  /\ ~({"exitStatus", "otherRequest"} \subseteq v.sent)
  /\ v.sent \cap {"data", "eof", "exitStatus", "otherRequest"} # {} => "success" \in v.sent
  /\ v.sent \cap {"adjust", "close"} # {} => "confirm" \in v.sent
  /\ v.sent \cap {"global", "unsupported", "badExtended"} = {}

\* In which order it is still to be read.
Confirmed(x, q, i) == x.remote \/ \E j \in DOMAIN q : j < i /\ q[j].type = "confirm"
Ordered(x, m, v, q) ==
  \A i \in DOMAIN q :
    /\ q[i].type \in v.sent
    /\ q[i].type # "data" =>
         q[i].n = 0 /\ \A j \in DOMAIN q : q[j].type = q[i].type => i = j
    /\ q[i].type \in {"close", "openFailure"} => i = Len(q)
    /\ q[i].type = "eof" => ~x.receivedEof /\ \A j \in DOMAIN q : i < j => q[j].type # "data"
    /\ q[i].type = "data" => ~x.receivedEof
    /\ m /\ q[i].type = "confirm" => ~x.remote
    /\ m /\ q[i].type = "exitStatus" => ~x.exited
    /\ m /\ q[i].type \in {"success", "failure"} => x.reply = "pending"
    /\ m /\ q[i].type \notin {"confirm", "openFailure"} => Confirmed(x, q, i)
Answered(x, m, l, v, q) ==
  /\ Sent(v) /\ Ordered(x, m, v, q)
  /\ l /\ ~m => q = <<>>
  /\ l /\ x.receivedClose => q = <<>>
  /\ m /\ "confirm" \in v.sent => Confirmed(x, q, Len(q) + 1)
  /\ m /\ x.reply \in {"resolved", "rejected"} => v.sent \cap {"success", "failure"} # {}

\* The bytes: those of an ADJUST that the server has and #append not yet, and
\* those that the server has sent.
Total(q) == SumOf([i \in DOMAIN q |-> q[i].n])
Held(r, n, f, w) == IF r = "adjust" /\ f /\ Head(w).type = "ADJUST" THEN n ELSE 0
Kept(r, n) == IF r = "adjust" THEN n ELSE 0
Counted(x, m, r, n, f, w, v, q) ==
  /\ ~Got(v, "OPEN") => v.window = 0 /\ v.bytes = 0 /\ x.window = InitialWindow
  /\ m /\ ~x.closing /\ Got(v, "OPEN") => x.window + Held(r, n, f, w) = v.window + Total(q)
  /\ x.result = "pending" => x.output + Kept(r, n) + Total(q) = v.bytes
  /\ x.result = "resolved" =>
       /\ ~m /\ r # "adjust" /\ x.output = v.bytes
       /\ {"exitStatus", "eof", "close"} \subseteq v.sent /\ Got(v, "CLOSE")

OnWire(x, m, l, r, n, f, w, v, q) ==
  /\ Typed(x, m, l, r, n, f, w, v, q) /\ Begun(x, w, v) /\ Queued(x, r, n, f, w, v)
  /\ InOrder(x, v) /\ Flagged(x, m, l, r, w, v) /\ Answered(x, m, l, v, q)
  /\ Counted(x, m, r, n, f, w, v, q)

-----------------------------------------------------------------------------
(* What a channel has in a queue, when the queue grows or shrinks.         *)

\* w is what is in s for channel d, in the order of s.
Order(h, s, d, w) ==
  /\ h \in [DOMAIN w -> DOMAIN s]
  /\ \A i, j \in DOMAIN w : i < j => h[i] < h[j]
  /\ \A i \in DOMAIN w : w[i] = s[h[i]]
  /\ \A i \in DOMAIN w : For(s[h[i]], d)
  /\ \A k \in DOMAIN s : For(s[k], d) => \E i \in DOMAIN w : h[i] = k
Picks(s, d, w) == \E h : Order(h, s, d, w)

LEMMA AppendParts ==
  ASSUME NEW M, NEW s \in Seq(M), NEW p \in M
  PROVE  /\ Append(s, p) \in Seq(M) /\ Append(s, p) # <<>>
         /\ DOMAIN s = 1 .. Len(s) /\ Len(s) \in Nat
         /\ DOMAIN Append(s, p) = 1 .. Len(s) + 1
         /\ \A i \in 1 .. Len(s) : Append(s, p)[i] = s[i]
         /\ Append(s, p)[Len(s) + 1] = p
  OBVIOUS

LEMMA TailParts ==
  ASSUME NEW M, NEW s \in Seq(M), s # <<>>
  PROVE  /\ Tail(s) \in Seq(M) /\ Len(s) \in Nat \ {0}
         /\ Head(s) = s[1] /\ s[1] \in M
         /\ DOMAIN s = 1 .. Len(s) /\ DOMAIN Tail(s) = 1 .. Len(s) - 1
         /\ \A i \in 1 .. Len(s) - 1 : Tail(s)[i] = s[i + 1]
  OBVIOUS

LEMMA PickOwn ==
  ASSUME NEW M, NEW s \in Seq(M), NEW p \in M, NEW d, NEW w \in Seq(M),
         Picks(s, d, w), For(p, d)
  PROVE  Picks(Append(s, p), d, Append(w, p))
<1>1. PICK h : Order(h, s, d, w)
  BY DEF Picks
<1> DEFINE t == Append(s, p)
           u == Append(w, p)
           g == [i \in DOMAIN u |-> IF i = Len(w) + 1 THEN Len(s) + 1 ELSE h[i]]
<1>2. /\ DOMAIN s = 1 .. Len(s) /\ Len(s) \in Nat /\ DOMAIN t = 1 .. Len(s) + 1
      /\ \A i \in 1 .. Len(s) : t[i] = s[i]
      /\ t[Len(s) + 1] = p
  BY AppendParts
<1>3. /\ DOMAIN w = 1 .. Len(w) /\ Len(w) \in Nat /\ DOMAIN u = 1 .. Len(w) + 1
      /\ \A i \in 1 .. Len(w) : u[i] = w[i]
      /\ u[Len(w) + 1] = p
  BY AppendParts
<1> HIDE DEF t, u
<1>4. /\ \A i \in 1 .. Len(w) : g[i] = h[i] /\ h[i] \in 1 .. Len(s)
      /\ g[Len(w) + 1] = Len(s) + 1 /\ DOMAIN g = DOMAIN u
  <2>1. \A i \in 1 .. Len(w) : h[i] \in 1 .. Len(s)
    BY <1>1, <1>2, <1>3 DEF Order
  <2>2. /\ Len(w) + 1 \in DOMAIN u
        /\ \A i \in 1 .. Len(w) : i \in DOMAIN u /\ i # Len(w) + 1
    BY <1>3
  <2> QED
    BY <2>1, <2>2
<1>5. g \in [DOMAIN u -> DOMAIN t]
  <2>1. \A i \in DOMAIN u : i = Len(w) + 1 \/ i \in 1 .. Len(w)
    BY <1>3
  <2>2. ASSUME NEW i \in 1 .. Len(w) PROVE g[i] \in 1 .. Len(s) + 1
    <3>1. g[i] \in 1 .. Len(s)
      BY <1>4
    <3> HIDE DEF g
    <3> QED
      BY <1>2, <3>1
  <2>3. Len(s) + 1 \in 1 .. Len(s) + 1
    BY <1>2
  <2>4. \A i \in DOMAIN u : g[i] \in DOMAIN t
    BY <1>2, <1>4, <2>1, <2>2, <2>3
  <2> QED
    BY <2>4
<1> HIDE DEF g
<1>6. ASSUME NEW i \in DOMAIN u, NEW j \in DOMAIN u, i < j PROVE g[i] < g[j]
  <2>1. i \in 1 .. Len(w)
    BY <1>3, <1>6
  <2>2. CASE j = Len(w) + 1
    BY <1>2, <1>4, <2>1, <2>2
  <2>3. CASE j \in 1 .. Len(w)
    <3>1. h[i] < h[j]
      BY <1>1, <1>3, <1>6, <2>1, <2>3 DEF Order
    <3> QED
      BY <1>4, <2>1, <2>3, <3>1
  <2> QED
    BY <1>3, <2>2, <2>3
<1>7. ASSUME NEW i \in DOMAIN u PROVE u[i] = t[g[i]] /\ For(t[g[i]], d)
  <2>1. CASE i = Len(w) + 1
    BY <1>2, <1>3, <1>4, <2>1
  <2>2. CASE i \in 1 .. Len(w)
    BY <1>1, <1>2, <1>3, <1>4, <2>2 DEF Order
  <2> QED
    BY <1>3, <2>1, <2>2
<1>8. ASSUME NEW k \in DOMAIN t, For(t[k], d) PROVE \E i \in DOMAIN u : g[i] = k
  <2>1. CASE k = Len(s) + 1
    BY <1>3, <1>4, <2>1
  <2>2. CASE k \in 1 .. Len(s)
    <3>1. PICK i \in 1 .. Len(w) : h[i] = k
      BY <1>1, <1>2, <1>3, <1>8, <2>2 DEF Order
    <3> QED
      BY <1>3, <1>4, <3>1
  <2> QED
    BY <1>2, <2>1, <2>2
<1> QED
  BY <1>5, <1>6, <1>7, <1>8 DEF Picks, Order, t, u

LEMMA PickOther ==
  ASSUME NEW M, NEW s \in Seq(M), NEW p \in M, NEW d, NEW w,
         Picks(s, d, w), ~For(p, d)
  PROVE  Picks(Append(s, p), d, w)
<1>1. PICK h : Order(h, s, d, w)
  BY DEF Picks
<1> DEFINE t == Append(s, p)
<1>2. /\ DOMAIN s = 1 .. Len(s) /\ Len(s) \in Nat /\ DOMAIN t = 1 .. Len(s) + 1
      /\ \A i \in 1 .. Len(s) : t[i] = s[i]
      /\ t[Len(s) + 1] = p
  BY AppendParts
<1> HIDE DEF t
<1>3. h \in [DOMAIN w -> DOMAIN t]
  BY <1>1, <1>2 DEF Order
<1>4. ASSUME NEW k \in DOMAIN t, For(t[k], d) PROVE \E i \in DOMAIN w : h[i] = k
  <2>1. k \in DOMAIN s /\ t[k] = s[k]
    BY <1>2, <1>4
  <2> QED
    BY <1>1, <1>4, <2>1 DEF Order
<1>5. ASSUME NEW i \in DOMAIN w PROVE w[i] = t[h[i]] /\ For(t[h[i]], d)
  <2>1. h[i] \in 1 .. Len(s)
    BY <1>1, <1>2 DEF Order
  <2> QED
    BY <1>1, <1>2, <2>1 DEF Order
<1>6. \A i, j \in DOMAIN w : i < j => h[i] < h[j]
  BY <1>1 DEF Order
<1>7. Order(h, t, d, w)
  BY <1>3, <1>4, <1>5, <1>6 DEF Order
<1> QED
  BY <1>7 DEF Picks, t

LEMMA DropOther ==
  ASSUME NEW M, NEW s \in Seq(M), s # <<>>, NEW d, NEW w,
         Picks(s, d, w), ~For(Head(s), d)
  PROVE  Picks(Tail(s), d, w)
<1>1. PICK h : Order(h, s, d, w)
  BY DEF Picks
<1> DEFINE t == Tail(s)
           g == [i \in DOMAIN w |-> h[i] - 1]
<1>2. /\ Len(s) \in Nat \ {0} /\ Head(s) = s[1]
      /\ DOMAIN s = 1 .. Len(s) /\ DOMAIN t = 1 .. Len(s) - 1
      /\ \A i \in 1 .. Len(s) - 1 : t[i] = s[i + 1]
  BY TailParts
<1> HIDE DEF t
<1>3. \A i \in DOMAIN w : h[i] \in 2 .. Len(s)
  BY <1>1, <1>2 DEF Order
<1>4. g \in [DOMAIN w -> DOMAIN t] /\ \A i \in DOMAIN w : g[i] = h[i] - 1
  BY <1>2, <1>3
<1> HIDE DEF g
<1>5. \A i \in DOMAIN w : t[g[i]] = s[h[i]]
  BY <1>2, <1>3, <1>4
<1>6. \A i, j \in DOMAIN w : i < j => g[i] < g[j]
  BY <1>1, <1>3, <1>4 DEF Order
<1>7. ASSUME NEW k \in DOMAIN t, For(t[k], d) PROVE \E i \in DOMAIN w : g[i] = k
  <2>1. k + 1 \in DOMAIN s /\ t[k] = s[k + 1] /\ k \in Nat
    BY <1>2
  <2>2. PICK i \in DOMAIN w : h[i] = k + 1
    BY <1>1, <1>7, <2>1 DEF Order
  <2> QED
    BY <1>4, <2>1, <2>2
<1>8. \A i \in DOMAIN w : For(t[g[i]], d)
  BY <1>1, <1>5 DEF Order
<1>9. \A i \in DOMAIN w : w[i] = t[g[i]]
  BY <1>1, <1>5 DEF Order
<1>10. Order(g, t, d, w)
  BY <1>4, <1>6, <1>7, <1>8, <1>9 DEF Order
<1> QED
  BY <1>10 DEF Picks, t

LEMMA DropOwn ==
  ASSUME NEW M, NEW s \in Seq(M), s # <<>>, NEW d, NEW w \in Seq(M),
         Picks(s, d, w), For(Head(s), d)
  PROVE  w # <<>> /\ Head(w) = Head(s) /\ Picks(Tail(s), d, Tail(w))
<1>1. PICK h : Order(h, s, d, w)
  BY DEF Picks
<1>2. /\ Len(s) \in Nat \ {0} /\ Head(s) = s[1]
      /\ DOMAIN s = 1 .. Len(s) /\ DOMAIN Tail(s) = 1 .. Len(s) - 1
      /\ \A i \in 1 .. Len(s) - 1 : Tail(s)[i] = s[i + 1]
  BY TailParts
<1>3. PICK first \in DOMAIN w : h[first] = 1
  BY <1>1, <1>2 DEF Order
<1>4. w # <<>>
  BY <1>3
<1>5. /\ Len(w) \in Nat \ {0} /\ Head(w) = w[1]
      /\ DOMAIN w = 1 .. Len(w) /\ DOMAIN Tail(w) = 1 .. Len(w) - 1
      /\ \A i \in 1 .. Len(w) - 1 : Tail(w)[i] = w[i + 1]
  BY <1>4, TailParts
<1>6. h[1] = 1 /\ \A i \in 2 .. Len(w) : h[i] \in 2 .. Len(s)
  <2>1. 1 \in DOMAIN w /\ h[1] \in 1 .. Len(s) /\ first \in Nat /\ (first = 1 \/ 1 < first)
    BY <1>1, <1>2, <1>3, <1>5 DEF Order
  <2>2. 1 < first => h[1] < h[first]
    BY <1>1, <2>1 DEF Order
  <2>3. h[1] = 1
    BY <1>2, <1>3, <2>1, <2>2
  <2>4. ASSUME NEW i \in 2 .. Len(w) PROVE h[i] \in 2 .. Len(s)
    <3>1. i \in DOMAIN w /\ 1 < i /\ h[i] \in 1 .. Len(s)
      BY <1>1, <1>2, <1>5 DEF Order
    <3>2. h[1] < h[i]
      BY <1>1, <2>1, <3>1 DEF Order
    <3> QED
      BY <1>2, <2>3, <3>1, <3>2
  <2> QED
    BY <2>3, <2>4
<1>7. Head(w) = Head(s)
  BY <1>1, <1>2, <1>5, <1>6 DEF Order
<1> DEFINE t == Tail(s)
           u == Tail(w)
           g == [i \in DOMAIN u |-> h[i + 1] - 1]
<1> HIDE DEF t, u
<1>8. /\ DOMAIN t = 1 .. Len(s) - 1 /\ DOMAIN u = 1 .. Len(w) - 1
      /\ \A i \in DOMAIN t : t[i] = s[i + 1] /\ i + 1 \in DOMAIN s
      /\ \A i \in DOMAIN u : u[i] = w[i + 1] /\ i + 1 \in DOMAIN w /\ i + 1 \in 2 .. Len(w)
  BY <1>2, <1>5 DEF t, u
<1>9. g \in [DOMAIN u -> DOMAIN t] /\ \A i \in DOMAIN u : g[i] = h[i + 1] - 1 /\ h[i + 1] \in 2 .. Len(s)
  BY <1>2, <1>6, <1>8, SMTT(60)
<1> HIDE DEF g
<1>10. ASSUME NEW i \in DOMAIN u, NEW j \in DOMAIN u, i < j PROVE g[i] < g[j]
  <2>1. i + 1 < j + 1 /\ i + 1 \in DOMAIN w /\ j + 1 \in DOMAIN w
    BY <1>8, <1>10
  <2>2. h[i + 1] < h[j + 1]
    BY <1>1, <2>1 DEF Order
  <2> QED
    BY <1>9, <2>2
<1>11. ASSUME NEW i \in DOMAIN u PROVE u[i] = t[g[i]] /\ For(t[g[i]], d)
  <2>1. u[i] = w[i + 1] /\ i + 1 \in DOMAIN w /\ g[i] \in DOMAIN t /\ g[i] + 1 = h[i + 1]
    BY <1>8, <1>9
  <2>2. w[i + 1] = s[h[i + 1]] /\ For(s[h[i + 1]], d)
    BY <1>1, <2>1 DEF Order
  <2>3. t[g[i]] = s[g[i] + 1]
    BY <1>8, <2>1
  <2> QED
    BY <2>1, <2>2, <2>3
<1>12. ASSUME NEW k \in DOMAIN t, For(t[k], d) PROVE \E i \in DOMAIN u : g[i] = k
  <2>1. k + 1 \in DOMAIN s /\ t[k] = s[k + 1] /\ k \in Nat /\ k + 1 # 1
    BY <1>2, <1>8
  <2>2. PICK i \in DOMAIN w : h[i] = k + 1
    BY <1>1, <1>12, <2>1 DEF Order
  <2>3. i - 1 \in DOMAIN u /\ (i - 1) + 1 = i
    BY <1>5, <1>6, <1>8, <2>1, <2>2
  <2>4. g[i - 1] = h[i] - 1
    BY <1>9, <2>3
  <2> QED
    BY <2>1, <2>2, <2>3, <2>4
<1>13. Order(g, t, d, u)
  BY <1>9, <1>10, <1>11, <1>12 DEF Order
<1> QED
  BY <1>4, <1>7, <1>13 DEF Picks, t, u

LEMMA PicksEmpty ==
  ASSUME NEW d
  PROVE  Picks(<<>>, d, <<>>)
<1>1. Order(<<>>, <<>>, d, <<>>)
  BY DEF Order
<1> QED
  BY <1>1 DEF Picks

-----------------------------------------------------------------------------
(* Sums of what the messages carry.                                        *)

Mapped(f, s) == [i \in DOMAIN s |-> f[s[i]]]

LEMMA MappedSum ==
  ASSUME NEW M, NEW f \in [M -> Nat], NEW s \in Seq(M)
  PROVE  Mapped(f, s) \in Seq(Nat) /\ SumOf(Mapped(f, s)) \in Nat
<1>1. Mapped(f, s) \in Seq(Nat)
  BY DEF Mapped
<1> QED
  BY <1>1, SumNat

LEMMA MappedAppend ==
  ASSUME NEW M, NEW f \in [M -> Nat], NEW s \in Seq(M), NEW p \in M
  PROVE  SumOf(Mapped(f, Append(s, p))) = SumOf(Mapped(f, s)) + f[p]
<1> DEFINE t == Append(s, p)
           a == Mapped(f, t)
           b == Mapped(f, s)
<1>1. /\ t \in Seq(M) /\ DOMAIN s = 1 .. Len(s) /\ Len(s) \in Nat /\ DOMAIN t = 1 .. Len(s) + 1
      /\ \A i \in 1 .. Len(s) : t[i] = s[i]
      /\ t[Len(s) + 1] = p
  BY AppendParts
<1> HIDE DEF t
<1>2. b \in Seq(Nat) /\ a \in Seq(Nat)
  BY <1>1, MappedSum
<1>3. DOMAIN b = 1 .. Len(s) /\ \A i \in 1 .. Len(s) : b[i] = f[s[i]]
  BY <1>1 DEF Mapped
<1>4. DOMAIN a = 1 .. Len(s) + 1 /\ \A i \in 1 .. Len(s) + 1 : a[i] = f[t[i]]
  BY <1>1 DEF Mapped
<1>5. Len(b) = Len(s) /\ Len(a) = Len(s) + 1
  BY <1>1, <1>2, <1>3, <1>4
<1> HIDE DEF a, b
<1>6. f[p] \in Nat
  OBVIOUS
<1>7. /\ Append(b, f[p]) \in Seq(Nat) /\ Len(Append(b, f[p])) = Len(s) + 1
      /\ \A i \in 1 .. Len(s) : Append(b, f[p])[i] = b[i]
      /\ Append(b, f[p])[Len(s) + 1] = f[p]
  BY <1>2, <1>5, <1>6
<1>8. \A i \in 1 .. Len(s) + 1 : a[i] = Append(b, f[p])[i]
  <2> TAKE i \in 1 .. Len(s) + 1
  <2>1. CASE i = Len(s) + 1
    BY <1>1, <1>4, <1>7, <2>1
  <2>2. CASE i \in 1 .. Len(s)
    <3>1. a[i] = f[t[i]] /\ t[i] = s[i]
      BY <1>1, <1>4, <2>2
    <3> QED
      BY <1>3, <1>7, <2>2, <3>1
  <2>3. i = Len(s) + 1 \/ i \in 1 .. Len(s)
    <3>1. Len(s) \in Nat
      BY <1>1
    <3> QED
      BY <3>1
  <2> QED
    BY <2>1, <2>2, <2>3
<1>9. a = Append(b, f[p])
  BY <1>1, <1>2, <1>5, <1>7, <1>8
<1>10. SumOf(a) = SumOf(b) + f[p]
  BY <1>2, <1>6, <1>9, SumAppend
<1> QED
  BY <1>10 DEF a, b, t

LEMMA MappedTail ==
  ASSUME NEW M, NEW f \in [M -> Nat], NEW s \in Seq(M), s # <<>>
  PROVE  /\ f[Head(s)] \in Nat /\ SumOf(Mapped(f, Tail(s))) \in Nat
         /\ SumOf(Mapped(f, s)) = f[Head(s)] + SumOf(Mapped(f, Tail(s)))
<1> DEFINE t == Tail(s)
           a == Mapped(f, t)
           b == Mapped(f, s)
<1>1. /\ t \in Seq(M) /\ Len(s) \in Nat \ {0} /\ Head(s) = s[1] /\ s[1] \in M
      /\ DOMAIN s = 1 .. Len(s) /\ DOMAIN t = 1 .. Len(s) - 1
      /\ \A i \in 1 .. Len(s) - 1 : t[i] = s[i + 1]
  BY TailParts
<1> HIDE DEF t
<1>2. b \in Seq(Nat) /\ a \in Seq(Nat)
  BY <1>1, MappedSum
<1>3. DOMAIN b = 1 .. Len(s) /\ \A i \in 1 .. Len(s) : b[i] = f[s[i]]
  BY <1>1 DEF Mapped
<1>4. DOMAIN a = 1 .. Len(s) - 1 /\ \A i \in 1 .. Len(s) - 1 : a[i] = f[t[i]]
  BY <1>1 DEF Mapped
<1>5. Len(b) = Len(s) /\ Len(a) = Len(s) - 1
  <2>1. Len(s) - 1 \in Nat /\ Len(s) \in Nat /\ Len(a) \in Nat /\ DOMAIN a = 1 .. Len(a)
        /\ Len(b) \in Nat /\ DOMAIN b = 1 .. Len(b)
    BY <1>1, <1>2
  <2>2. \A k, l \in Nat : 1 .. k = 1 .. l => k = l
    <3> SUFFICES ASSUME NEW k \in Nat, NEW l \in Nat, 1 .. k = 1 .. l PROVE k = l
      OBVIOUS
    <3>1. k # 0 => k \in 1 .. l
      BY k \in 1 .. k \/ k = 0
    <3>2. l # 0 => l \in 1 .. k
      BY l \in 1 .. l \/ l = 0
    <3>3. k = 0 /\ l # 0 => l \in 1 .. 0
      BY <3>2
    <3>4. l = 0 /\ k # 0 => k \in 1 .. 0
      BY <3>1
    <3> QED
      BY <3>1, <3>2, <3>3, <3>4
  <2>3. 1 .. Len(a) = 1 .. Len(s) - 1 /\ 1 .. Len(b) = 1 .. Len(s)
    BY <1>3, <1>4, <2>1
  <2> HIDE DEF a, b
  <2> QED
    BY <2>1, <2>2, <2>3
<1> HIDE DEF a, b
<1>6. b # <<>> /\ Head(b) = b[1] /\ b[1] = f[Head(s)]
  BY <1>1, <1>2, <1>3, <1>5
<1>7. Tail(b) \in Seq(Nat) /\ Len(Tail(b)) = Len(s) - 1 /\ \A i \in 1 .. Len(s) - 1 : Tail(b)[i] = b[i + 1]
  BY <1>1, <1>2, <1>5, <1>6
<1>8. \A i \in 1 .. Len(s) - 1 : a[i] = Tail(b)[i]
  <2> TAKE i \in 1 .. Len(s) - 1
  <2>1. i + 1 \in 1 .. Len(s)
    BY <1>1
  <2>2. a[i] = f[s[i + 1]] /\ Tail(b)[i] = f[s[i + 1]]
    BY <1>1, <1>3, <1>4, <1>7, <2>1
  <2> QED
    BY <2>2
<1>9. a = Tail(b)
  <2>1. \A i \in 1 .. Len(a) : a[i] = Tail(b)[i]
    BY <1>5, <1>8
  <2>2. Len(a) = Len(Tail(b))
    BY <1>5, <1>7
  <2> HIDE DEF a, b
  <2>3. \A c \in Seq(Nat) : Len(a) = Len(c) /\ (\A i \in 1 .. Len(a) : a[i] = c[i]) => a = c
    BY <1>2
  <2> QED
    BY <1>7, <2>1, <2>2, <2>3
<1>10. SumOf(b) = Head(b) + SumOf(a)
  BY <1>2, <1>6, <1>9, SumTail
<1>11. SumOf(a) \in Nat /\ f[Head(s)] \in Nat
  BY <1>1, <1>2, SumNat
<1> QED
  BY <1>6, <1>10, <1>11 DEF a, b, t

Bytes == [p \in Message |-> p.n]
BytesFor(d) == [p \in Message |-> IF p.ch = d THEN p.n ELSE 0]

LEMMA SumsMapped ==
  ASSUME NEW q \in Seq(Message), NEW d
  PROVE  /\ Bytes \in [Message -> Nat] /\ BytesFor(d) \in [Message -> Nat]
         /\ Total(q) = SumOf(Mapped(Bytes, q)) /\ Carried(q, d) = SumOf(Mapped(BytesFor(d), q))
         /\ Total(q) \in Nat /\ Carried(q, d) \in Nat
<1>1. Bytes \in [Message -> Nat] /\ BytesFor(d) \in [Message -> Nat]
  BY DEF Bytes, BytesFor, Message
<1>2. \A i \in DOMAIN q : q[i] \in Message
  OBVIOUS
<1>3. Mapped(Bytes, q) = [i \in DOMAIN q |-> q[i].n]
  BY <1>2 DEF Mapped, Bytes
<1>4. Mapped(BytesFor(d), q) = [i \in DOMAIN q |-> IF q[i].ch = d THEN q[i].n ELSE 0]
  BY <1>2 DEF Mapped, BytesFor
<1> QED
  BY <1>1, <1>3, <1>4, MappedSum DEF Total, Carried

LEMMA TotalAppend ==
  ASSUME NEW q \in Seq(Message), NEW p \in Message
  PROVE  Total(Append(q, p)) = Total(q) + p.n /\ Total(q) \in Nat
<1>1. Append(q, p) \in Seq(Message)
  OBVIOUS
<1>2. Bytes[p] = p.n
  BY DEF Bytes
<1>3. SumOf(Mapped(Bytes, Append(q, p))) = SumOf(Mapped(Bytes, q)) + Bytes[p]
  BY SumsMapped, MappedAppend
<1> QED
  BY <1>1, <1>2, <1>3, SumsMapped

LEMMA TotalTail ==
  ASSUME NEW q \in Seq(Message), q # <<>>
  PROVE  Total(q) = Head(q).n + Total(Tail(q)) /\ Total(Tail(q)) \in Nat /\ Head(q).n \in Nat
<1>1. Tail(q) \in Seq(Message) /\ Head(q) \in Message
  OBVIOUS
<1>2. Bytes[Head(q)] = Head(q).n
  BY <1>1 DEF Bytes
<1>3. /\ Bytes[Head(q)] \in Nat /\ SumOf(Mapped(Bytes, Tail(q))) \in Nat
      /\ SumOf(Mapped(Bytes, q)) = Bytes[Head(q)] + SumOf(Mapped(Bytes, Tail(q)))
  BY SumsMapped, MappedTail
<1> QED
  BY <1>1, <1>2, <1>3, SumsMapped

LEMMA TotalEmpty == Total(<<>>) = 0
<1>1. [i \in DOMAIN <<>> |-> <<>>[i].n] = <<>>
  OBVIOUS
<1> QED
  BY <1>1, SumEmpty DEF Total

LEMMA CarriedAppend ==
  ASSUME NEW s \in Seq(Message), NEW p \in Message, NEW d
  PROVE  /\ Carried(Append(s, p), d) = Carried(s, d) + (IF p.ch = d THEN p.n ELSE 0)
         /\ Carried(s, d) \in Nat
<1>1. Append(s, p) \in Seq(Message)
  OBVIOUS
<1>2. BytesFor(d)[p] = IF p.ch = d THEN p.n ELSE 0
  BY DEF BytesFor
<1>3. SumOf(Mapped(BytesFor(d), Append(s, p))) = SumOf(Mapped(BytesFor(d), s)) + BytesFor(d)[p]
  BY SumsMapped, MappedAppend
<1> QED
  BY <1>1, <1>2, <1>3, SumsMapped

LEMMA CarriedTail ==
  ASSUME NEW s \in Seq(Message), s # <<>>, NEW d
  PROVE  /\ Carried(s, d) = (IF Head(s).ch = d THEN Head(s).n ELSE 0) + Carried(Tail(s), d)
         /\ Carried(Tail(s), d) \in Nat /\ Head(s).n \in Nat
<1>1. Tail(s) \in Seq(Message) /\ Head(s) \in Message
  OBVIOUS
<1>4. Head(s).n \in Nat
  BY <1>1 DEF Message
<1>2. BytesFor(d)[Head(s)] = IF Head(s).ch = d THEN Head(s).n ELSE 0
  BY <1>1 DEF BytesFor
<1>3. /\ SumOf(Mapped(BytesFor(d), Tail(s))) \in Nat
      /\ SumOf(Mapped(BytesFor(d), s)) = BytesFor(d)[Head(s)] + SumOf(Mapped(BytesFor(d), Tail(s)))
  BY SumsMapped, MappedTail
<1> QED
  BY <1>1, <1>2, <1>3, <1>4, SumsMapped

-----------------------------------------------------------------------------
(* The packets of one channel, when one is queued and when one is written. *)

\* t is s with p behind it, at index k.
Extends(s, p, t, k) ==
  /\ DOMAIN s \subseteq Nat /\ k \in Nat \ DOMAIN s /\ DOMAIN t = DOMAIN s \cup {k}
  /\ t[k] = p /\ \A i \in DOMAIN s : i < k /\ t[i] = s[i]

LEMMA Extended ==
  ASSUME NEW M, NEW s \in Seq(M), NEW p \in M
  PROVE  /\ Append(s, p) \in Seq(M) /\ Append(s, p) # <<>>
         /\ Extends(s, p, Append(s, p), Len(s) + 1)
  BY AppendParts DEF Extends

LEMMA RestExtended ==
  ASSUME NEW w \in Seq(Packet), NEW p \in Packet, NEW f \in BOOLEAN, f => w # <<>>
  PROVE  /\ \E k : Extends(Rest(f, w), p, Rest(f, Append(w, p)), k)
         /\ f => Head(Append(w, p)) = Head(w)
<1>1. CASE ~f
  BY <1>1, Extended DEF Rest
<1>2. CASE f
  <2>1. Tail(w) \in Seq(Packet) /\ Tail(Append(w, p)) = Append(Tail(w), p) /\ Head(Append(w, p)) = Head(w)
    BY <1>2
  <2> QED
    BY <1>2, <2>1, Extended DEF Rest
<1> QED
  BY <1>1, <1>2

\* What is left behind a flushed head.
LEMMA RestParts ==
  ASSUME NEW w \in Seq(Packet), w # <<>>
  PROVE  /\ DOMAIN w \subseteq Nat /\ 1 \in DOMAIN w /\ Head(w) = w[1] /\ Head(w) \in Packet
         /\ Tail(w) \in Seq(Packet)
         /\ \A j \in DOMAIN Tail(w) : j \in Nat \ {0} /\ j + 1 \in DOMAIN w /\ Tail(w)[j] = w[j + 1]
<1>1. /\ Tail(w) \in Seq(Packet) /\ Len(w) \in Nat \ {0} /\ Head(w) = w[1] /\ w[1] \in Packet
      /\ DOMAIN w = 1 .. Len(w) /\ DOMAIN Tail(w) = 1 .. Len(w) - 1
      /\ \A i \in 1 .. Len(w) - 1 : Tail(w)[i] = w[i + 1]
  BY TailParts
<1> QED
  BY <1>1

\* Every packet that waits is a packet of the channel.
LEMMA RestIn ==
  ASSUME NEW w \in Seq(Packet), NEW f \in BOOLEAN, f => w # <<>>
  PROVE  /\ DOMAIN Rest(f, w) \subseteq Nat
         /\ \A j \in DOMAIN Rest(f, w) : \E i \in DOMAIN w : w[i] = Rest(f, w)[j]
<1>1. CASE ~f
  BY <1>1 DEF Rest
<1>2. CASE f
  BY <1>2, RestParts DEF Rest
<1> QED
  BY <1>1, <1>2

\* A packet that is neither with the server nor under way may be queued.
Fresh(y, w, v, p) ==
  /\ p.type # "ADJUST" /\ ~Got(v, p.type) /\ ~Has(w, p.type)
  /\ p.type = "EOF" => Got(v, "EXEC")
  /\ p.type # "OPEN" => y.remote
  /\ p.type = "CLOSE" => y.sentClose
  /\ p.n = IF p.type = "OPEN" THEN InitialWindow ELSE 0

LEMMA QueuedPut ==
  ASSUME NEW x, NEW y, NEW r, NEW n, NEW f \in BOOLEAN, NEW w \in Seq(Packet), f => w # <<>>, NEW v,
         NEW p \in Packet, Queued(x, r, n, f, w, v), Fresh(y, w, v, p),
         x.remote => y.remote, x.sentClose => y.sentClose
  PROVE  Queued(y, r, n, f, Append(w, p), v)
<1> DEFINE t == Append(w, p)
           u == Rest(f, w)
           z == Rest(f, t)
           l == Len(w) + 1
<1>1. Extends(w, p, t, l) /\ t # <<>>
  BY Extended
<1>2. PICK k : Extends(u, p, z, k)
  BY RestExtended
<1>3. f => Head(t) = Head(w)
  BY RestExtended
<1>4. DOMAIN u \subseteq Nat /\ \A j \in DOMAIN u : \E i \in DOMAIN w : w[i] = u[j]
  BY RestIn
<1>5. \A j \in DOMAIN u : u[j].type # p.type
  BY <1>4 DEF Fresh, Has
<1> HIDE DEF t, u, z, l
<1>6. f => Got(v, Head(t).type)
  BY <1>3 DEF Queued
<1>7. ASSUME NEW j \in DOMAIN z
      PROVE  /\ z[j].type # "ADJUST" =>
                  /\ ~Got(v, z[j].type)
                  /\ \A i \in DOMAIN z : z[i].type = z[j].type => i = j
             /\ z[j].type = "ADJUST" =>
                  ~Got(v, "CLOSE") /\ \A i \in DOMAIN z : z[i].type = "CLOSE" => ~(i < j)
             /\ z[j].type \in {"EOF", "ADJUST"} => Got(v, "EXEC")
  BY <1>2, <1>4, <1>5, <1>7 DEF Queued, Fresh, Extends, u
<1>8. ASSUME NEW j \in DOMAIN t
      PROVE  /\ t[j].type # "OPEN" => y.remote
             /\ t[j].type = "CLOSE" => y.sentClose
             /\ t[j].type = "OPEN" => t[j].n = InitialWindow
             /\ t[j].type \notin {"OPEN", "ADJUST"} => t[j].n = 0
             /\ t[j].type = "ADJUST" =>
                  /\ t[j].by = "reader" /\ r = "adjust" /\ t[j].n = n
                  /\ \A i \in DOMAIN t : t[i].type = "ADJUST" => i = j
  BY <1>1, <1>8 DEF Queued, Fresh, Extends
<1> QED
  BY <1>6, <1>7, <1>8 DEF Queued, z, t

\* The ADJUST of #append, when the read loop had none under way.
LEMMA QueuedAdjust ==
  ASSUME NEW x, NEW y, NEW n \in Nat, NEW m, NEW f \in BOOLEAN, NEW w \in Seq(Packet), f => w # <<>>, NEW v,
         NEW p \in Packet, Queued(x, "no", n, f, w, v), p.type = "ADJUST", p.by = "reader", p.n = m,
         ~Got(v, "CLOSE"), Got(v, "EXEC"), ~Has(w, "CLOSE"), y.remote, y.sentClose = x.sentClose
  PROVE  Queued(y, "adjust", m, f, Append(w, p), v)
<1> DEFINE t == Append(w, p)
           u == Rest(f, w)
           z == Rest(f, t)
           l == Len(w) + 1
<1>1. Extends(w, p, t, l) /\ t # <<>>
  BY Extended
<1>2. PICK k : Extends(u, p, z, k)
  BY RestExtended
<1>3. f => Head(t) = Head(w)
  BY RestExtended
<1>4. DOMAIN u \subseteq Nat /\ \A j \in DOMAIN u : \E i \in DOMAIN w : w[i] = u[j]
  BY RestIn
<1>5. \A j \in DOMAIN w : w[j].type # "ADJUST" /\ w[j].type # "CLOSE"
  BY DEF Queued, Has
<1>9. \A j \in DOMAIN u : u[j].type # "ADJUST" /\ u[j].type # "CLOSE"
  BY <1>4, <1>5
<1> HIDE DEF t, u, z, l
<1>6. f => Got(v, Head(t).type)
  BY <1>3 DEF Queued
<1>7. ASSUME NEW j \in DOMAIN z
      PROVE  /\ z[j].type # "ADJUST" =>
                  /\ ~Got(v, z[j].type)
                  /\ \A i \in DOMAIN z : z[i].type = z[j].type => i = j
             /\ z[j].type = "ADJUST" =>
                  ~Got(v, "CLOSE") /\ \A i \in DOMAIN z : z[i].type = "CLOSE" => ~(i < j)
             /\ z[j].type \in {"EOF", "ADJUST"} => Got(v, "EXEC")
  BY <1>2, <1>4, <1>7, <1>9 DEF Queued, Extends, u
<1>8. ASSUME NEW j \in DOMAIN t
      PROVE  /\ t[j].type # "OPEN" => y.remote
             /\ t[j].type = "CLOSE" => y.sentClose
             /\ t[j].type = "OPEN" => t[j].n = InitialWindow
             /\ t[j].type \notin {"OPEN", "ADJUST"} => t[j].n = 0
             /\ t[j].type = "ADJUST" =>
                  /\ t[j].by = "reader" /\ "adjust" = "adjust" /\ t[j].n = m
                  /\ \A i \in DOMAIN t : t[i].type = "ADJUST" => i = j
  BY <1>1, <1>5, <1>8 DEF Queued, Extends
<1> QED
  BY <1>6, <1>7, <1>8 DEF Queued, z, t

\* A channel that leaves its packets alone keeps them in order.
LEMMA QueuedKept ==
  ASSUME NEW x, NEW y, NEW r, NEW n, NEW f, NEW w, NEW v, Queued(x, r, n, f, w, v),
         x.remote => y.remote, x.sentClose => y.sentClose
  PROVE  Queued(y, r, n, f, w, v)
  BY DEF Queued

\* What a longer queue keeps.
LEMMA LongerQueue ==
  ASSUME NEW w \in Seq(Packet), NEW p \in Packet
  PROVE  /\ \A type : Has(w, type) => Has(Append(w, p), type)
         /\ Has(Append(w, p), p.type)
         /\ \A v : Closed(w, v) => Closed(Append(w, p), v)
<1>1. Extends(w, p, Append(w, p), Len(w) + 1)
  BY Extended
<1>2. /\ \A type : Has(w, type) => Has(Append(w, p), type)
      /\ Has(Append(w, p), p.type)
  BY <1>1 DEF Has, Extends
<1> QED
  BY <1>2 DEF Closed

LEMMA HeldAppend ==
  ASSUME NEW r, NEW n, NEW f \in BOOLEAN, NEW w \in Seq(Packet), f => w # <<>>, NEW p \in Packet
  PROVE  Held(r, n, f, Append(w, p)) = Held(r, n, f, w)
  BY RestExtended DEF Held

-----------------------------------------------------------------------------
(* One channel: run() registers it and queues OPEN.                        *)

Opening == [NewChannel EXCEPT !.begin = "opening", !.opened = "pending", !.result = "pending"]
OpenPacket(c) == [type |-> "OPEN", ch |-> c, n |-> InitialWindow, by |-> "begin"]

\* Nothing has been sent on a channel whose OPEN the server has not got.
LEMMA NothingSent ==
  ASSUME NEW v \in ServerState, Sent(v), ~Got(v, "OPEN"), NEW x, InOrder(x, v),
         NEW q \in Seq(Message), \A i \in DOMAIN q : q[i].type \in v.sent
  PROVE  v.sent = {} /\ q = <<>> /\ v.got = <<>>
<1>1. v.sent \subseteq ServerType /\ v.got \in Seq(ClientType)
  BY DEF ServerState
<1>2. v.got = <<>>
  <2>1. SUFFICES ASSUME v.got # <<>> PROVE FALSE
    OBVIOUS
  <2>2. 1 \in DOMAIN v.got
    BY <1>1, <2>1
  <2> QED
    BY <2>2 DEF InOrder, Got
<1>3. ~Got(v, "EXEC")
  BY <1>2 DEF Got
<1>4. v.sent = {}
  BY <1>1, <1>3 DEF Sent, ServerType
<1>5. q = <<>>
  <2>1. SUFFICES ASSUME q # <<>> PROVE FALSE
    OBVIOUS
  <2>2. 1 \in DOMAIN q
    BY <2>1
  <2> QED
    BY <1>4, <2>2
<1> QED
  BY <1>2, <1>4, <1>5

LEMMA RunWire ==
  ASSUME NEW c \in Channel, NEW x, NEW m, NEW r, NEW n, NEW f, NEW w, NEW v, NEW q,
         OnWire(x, m, TRUE, r, n, f, w, v, q), x.begin = "none"
  PROVE  OnWire(Opening, TRUE, TRUE, r, n, f, Append(w, OpenPacket(c)), v, q)
<1> DEFINE p == OpenPacket(c)
           t == Append(w, p)
           y == Opening
<1>1. /\ x = NewChannel /\ w = <<>> /\ v.got = <<>> /\ r = "no" /\ f = FALSE
      /\ n \in Nat /\ v \in ServerState /\ q \in Seq(Message) /\ w \in Seq(Packet)
      /\ \A i \in DOMAIN q : q[i].type # "global"
  BY DEF OnWire, Typed, Begun
<1>2. ~Got(v, "OPEN") /\ \A type : ~Got(v, type)
  BY <1>1 DEF Got
<1>3. v.sent = {} /\ q = <<>>
  <2>1. /\ Sent(v) /\ InOrder(x, v)
        /\ \A i \in DOMAIN q : q[i].type \in v.sent
    BY DEF OnWire, Answered, Ordered
  <2> QED
    BY <1>1, <1>2, <2>1, NothingSent
<1>4. p \in Packet /\ p.type = "OPEN" /\ p.by = "begin" /\ p.n = InitialWindow
  BY InitialWindowNat DEF OpenPacket, Packet, ClientType, Owner
<1>5. /\ y \in ChannelState /\ y.begin = "opening" /\ y.opened = "pending" /\ y.result = "pending"
      /\ y.reply = "none" /\ ~y.remote /\ ~y.receivedEof /\ ~y.closing /\ ~y.sentClose
      /\ ~y.receivedClose /\ ~y.cancelled /\ ~y.exited /\ y.output = 0 /\ y.window = InitialWindow
  BY InitialWindowNat DEF Opening, NewChannel, ChannelState, Promise, Begin
<1>6. /\ t \in Seq(Packet) /\ t # <<>> /\ Extends(w, p, t, Len(w) + 1)
  BY <1>1, <1>4, Extended
<1>7. DOMAIN t = {1} /\ t[1] = p
  BY <1>1, <1>6 DEF Extends
<1> HIDE DEF p, t, y
<1>8. Typed(y, TRUE, TRUE, r, n, f, t, v, q)
  <2>1. \A i \in DOMAIN t : t[i].type # "REQUEST_FAILURE"
    BY <1>4, <1>7
  <2>2. t \in Seq(Packet) /\ t # <<>>
    BY <1>6
  <2> QED
    BY <1>1, <1>5, <2>1, <2>2 DEF Typed
<1>9. Begun(y, t, v)
  BY <1>2, <1>4, <1>5, <1>7 DEF Begun, Writing, TypeAt
<1>10. Queued(y, r, n, f, t, v)
  <2>1. Fresh(y, w, v, p)
    BY <1>1, <1>2, <1>4 DEF Fresh, Has
  <2>2. Queued(x, r, n, f, w, v) /\ ~x.remote /\ ~x.sentClose
    BY <1>1 DEF OnWire, NewChannel
  <2> QED
    BY <1>1, <1>4, <1>5, <2>1, <2>2, QueuedPut DEF t
<1>11. InOrder(y, v)
  BY <1>1, <1>2 DEF InOrder, Got
<1>12. Flagged(y, TRUE, TRUE, r, t, v)
  BY <1>1, <1>5 DEF Flagged
<1>13. Answered(y, TRUE, TRUE, v, q)
  BY <1>1, <1>2, <1>3, <1>5 DEF Answered, Sent, Ordered
<1>14. Counted(y, TRUE, r, n, f, t, v, q)
  <2>1. v.window = 0 /\ v.bytes = 0
    BY <1>2 DEF OnWire, Counted
  <2>2. Total(q) = 0
    BY <1>3, TotalEmpty
  <2> QED
    BY <1>1, <1>2, <1>5, <2>1, <2>2 DEF Counted, Kept
<1> QED
  BY <1>8, <1>9, <1>10, <1>11, <1>12, <1>13, <1>14 DEF OnWire, y, t, p

-----------------------------------------------------------------------------
(* One channel: its first packet reaches the server.                       *)

LEMMA GotAppend ==
  ASSUME NEW v, NEW y, NEW type, NEW k, Extends(v.got, type, y.got, k)
  PROVE  \A t : Got(y, t) <=> (Got(v, t) \/ t = type)
  BY DEF Got, Extends

Transmits(v, y, p) == y = [v EXCEPT !.got = Append(@, p.type), !.window = @ + p.n]

LEMMA TransmitWire ==
  ASSUME NEW x, NEW m, NEW l, NEW r, NEW n, NEW w, NEW v, NEW q,
         OnWire(x, m, l, r, n, FALSE, w, v, q), w # <<>>, NEW y, Transmits(v, y, Head(w))
  PROVE  OnWire(x, m, l, r, n, TRUE, w, y, q)
<1> DEFINE p == Head(w)
           u == Tail(w)
<1>1. /\ x \in ChannelState /\ m \in BOOLEAN /\ l \in BOOLEAN /\ n \in Nat
      /\ w \in Seq(Packet) /\ v \in ServerState /\ q \in Seq(Message)
  BY DEF OnWire, Typed
<1>2. /\ DOMAIN w \subseteq Nat /\ 1 \in DOMAIN w /\ p = w[1] /\ p \in Packet
      /\ u \in Seq(Packet)
      /\ \A j \in DOMAIN u : j \in Nat \ {0} /\ j + 1 \in DOMAIN w /\ u[j] = w[j + 1]
  BY <1>1, RestParts
<1>3. p.type \in ClientType /\ p.n \in Nat
  BY <1>2 DEF Packet
<1> DEFINE g == Append(v.got, p.type)
           a == v.window + p.n
<1>4a. /\ v.got \in Seq(ClientType) /\ v.window \in Nat
       /\ v = [got |-> v.got, sent |-> v.sent, window |-> v.window, bytes |-> v.bytes]
       /\ v.sent \in SUBSET ServerType /\ v.bytes \in Nat
  BY <1>1 DEF ServerState
<1>4b. g \in Seq(ClientType) /\ a \in Nat /\ y = [v EXCEPT !.got = g, !.window = a]
  BY <1>3, <1>4a DEF Transmits
<1>4c. Extends(v.got, p.type, g, Len(v.got) + 1)
  BY <1>3, <1>4a, Extended
<1>4d. Len(v.got) \in Nat /\ DOMAIN v.got = 1 .. Len(v.got)
  BY <1>4a
<1>4e. a = v.window + p.n
  OBVIOUS
<1> HIDE DEF p, u, g, a
<1>4f. y = [got |-> g, sent |-> v.sent, window |-> a, bytes |-> v.bytes]
  BY <1>4a, <1>4b
<1>4g. /\ y \in ServerState /\ y.got = g /\ y.window = a /\ y.sent = v.sent /\ y.bytes = v.bytes
  BY <1>4a, <1>4b, <1>4f DEF ServerState
<1>4. /\ y \in ServerState /\ y.sent = v.sent /\ y.bytes = v.bytes
  BY <1>4g
<1>5. \A t : Got(y, t) <=> (Got(v, t) \/ t = p.type)
  <2> DEFINE k == Len(v.got) + 1
  <2>1. Extends(v.got, p.type, y.got, k)
    BY <1>4c, <1>4g
  <2> HIDE DEF k
  <2> QED
    BY <2>1, GotAppend
<1>6. p.type # "ADJUST" => ~Got(v, p.type) /\ \A j \in DOMAIN u : u[j].type # p.type
  <2>1. ASSUME p.type # "ADJUST", NEW j \in DOMAIN u, u[j].type = p.type PROVE FALSE
    BY <1>2, <2>1 DEF OnWire, Queued, Rest
  <2>2. p.type # "ADJUST" => ~Got(v, p.type)
    BY <1>2 DEF OnWire, Queued, Rest
  <2> QED
    BY <2>1, <2>2
<1>7. /\ p.type # "OPEN" => x.remote
      /\ p.type = "CLOSE" => x.sentClose
      /\ p.type = "OPEN" => p.n = InitialWindow
      /\ p.type \notin {"OPEN", "ADJUST"} => p.n = 0
      /\ p.type = "ADJUST" => r = "adjust" /\ p.n = n /\ ~Got(v, "CLOSE")
      /\ p.type \in {"EOF", "ADJUST"} => Got(v, "EXEC")
      /\ p.type # "REQUEST_FAILURE"
  BY <1>2 DEF OnWire, Queued, Rest, Typed
<1>8. p.type \in {"OPEN", "EXEC", "EOF"} => x.begin \in Writing /\ p.type = TypeAt[x.begin]
  BY <1>2 DEF OnWire, Begun
<1>9. p.type # "OPEN" => Got(v, "OPEN")
  BY <1>7 DEF OnWire, Flagged, Answered, Sent
<1>10. Typed(x, m, l, r, n, TRUE, w, y, q)
  BY <1>4 DEF OnWire, Typed
<1>11. Begun(x, w, y)
  <2>1. x.begin # "none"
    BY DEF OnWire, Begun
  <2>2. p.type = "EXEC" => x.reply # "none"
    BY <1>8 DEF OnWire, Begun, Writing, TypeAt
  <2>3. p.type = "EOF" => x.begin = "sendingEof"
    BY <1>8 DEF Writing, TypeAt
  <2> QED
    BY <1>4, <1>5, <2>1, <2>2, <2>3 DEF OnWire, Begun
<1>12. Queued(x, r, n, TRUE, w, y)
  <2>1. Got(y, p.type)
    BY <1>5
  <2>2. ASSUME NEW j \in DOMAIN u
        PROVE  /\ u[j].type # "ADJUST" =>
                    /\ ~Got(y, u[j].type)
                    /\ \A i \in DOMAIN u : u[i].type = u[j].type => i = j
               /\ u[j].type = "ADJUST" =>
                    ~Got(y, "CLOSE") /\ \A i \in DOMAIN u : u[i].type = "CLOSE" => ~(i < j)
               /\ u[j].type \in {"EOF", "ADJUST"} => Got(y, "EXEC")
    <3>1. Queued(x, r, n, FALSE, w, v)
      BY DEF OnWire
    <3>2. \A i \in DOMAIN u : i + 1 \in DOMAIN w /\ u[i] = w[i + 1] /\ i \in Nat \ {0}
      BY <1>2
    <3>3. u[j].type # "ADJUST" => ~Got(y, u[j].type)
      BY <1>5, <1>6, <3>1, <3>2 DEF Queued, Rest
    <3>4. u[j].type # "ADJUST" => \A i \in DOMAIN u : u[i].type = u[j].type => i = j
      <4>1. ASSUME u[j].type # "ADJUST", NEW i \in DOMAIN u, u[i].type = u[j].type PROVE i = j
        <5>1. i + 1 = j + 1
          BY <3>1, <3>2, <4>1 DEF Queued, Rest
        <5> QED
          BY <3>2, <5>1
      <4> QED
        BY <4>1
    <3>5. u[j].type = "ADJUST" => ~Got(y, "CLOSE")
      <4>1. ASSUME u[j].type = "ADJUST", p.type = "CLOSE" PROVE FALSE
        <5>1. j + 1 \in DOMAIN w /\ w[j + 1].type = "ADJUST" /\ w[1].type = "CLOSE" /\ 1 < j + 1
          BY <1>2, <3>2, <4>1
        <5> QED
          BY <1>2, <3>1, <5>1 DEF Queued, Rest
      <4>2. u[j].type = "ADJUST" => ~Got(v, "CLOSE")
        BY <3>1, <3>2 DEF Queued, Rest
      <4> QED
        BY <1>5, <4>1, <4>2
    <3>6. u[j].type = "ADJUST" => \A i \in DOMAIN u : u[i].type = "CLOSE" => ~(i < j)
      <4>1. ASSUME u[j].type = "ADJUST", NEW i \in DOMAIN u, u[i].type = "CLOSE", i < j PROVE FALSE
        <5>1. i + 1 < j + 1
          BY <3>2, <4>1
        <5> QED
          BY <3>1, <3>2, <4>1, <5>1 DEF Queued, Rest
      <4> QED
        BY <4>1
    <3>7. u[j].type \in {"EOF", "ADJUST"} => Got(y, "EXEC")
      BY <1>5, <3>1, <3>2 DEF Queued, Rest
    <3> QED
      BY <3>3, <3>4, <3>5, <3>6, <3>7
  <2> QED
    BY <2>1, <2>2 DEF OnWire, Queued, Rest, p, u
<1>13. InOrder(x, y)
  <2> DEFINE k == Len(v.got) + 1
  <2>1. Extends(v.got, p.type, y.got, k)
    BY <1>4c, <1>4g
  <2>2. DOMAIN v.got = 1 .. Len(v.got) /\ Len(v.got) \in Nat
    BY <1>4d
  <2>3. InOrder(x, v)
    BY DEF OnWire
  <2>4. \A i, j \in DOMAIN y.got : y.got[i] = y.got[j] /\ y.got[i] # "ADJUST" => i = j
    BY <1>6, <2>1, <2>3 DEF InOrder, Extends, Got
  <2>5. y.got[1] = "OPEN"
    <3>1. CASE v.got = <<>>
      <4>1. ~Got(v, "OPEN") /\ k = 1
        BY <3>1 DEF Got
      <4> QED
        BY <1>9, <2>1, <4>1 DEF Extends
    <3>2. CASE v.got # <<>>
      <4>1. 1 \in DOMAIN v.got
        BY <1>4a, <1>4d, <3>2
      <4> QED
        BY <2>1, <2>3, <4>1 DEF InOrder, Extends
    <3> QED
      BY <3>1, <3>2
  <2>6. \A i \in DOMAIN y.got : y.got[i] # "OPEN" => x.remote
    BY <1>7, <2>1, <2>3 DEF InOrder, Extends
  <2>7. ASSUME NEW i \in DOMAIN y.got, y.got[i] \in {"EOF", "ADJUST"}
        PROVE  \E j \in 1 .. i : y.got[j] = "EXEC"
    <3>1. CASE i \in DOMAIN v.got
      <4>1. PICK j \in 1 .. i : v.got[j] = "EXEC"
        BY <2>1, <2>3, <2>7, <3>1 DEF InOrder, Extends
      <4>2. j \in DOMAIN v.got
        BY <2>2, <3>1
      <4> QED
        BY <2>1, <4>1, <4>2 DEF Extends
    <3>2. CASE i = k
      <4>1. PICK j \in DOMAIN v.got : v.got[j] = "EXEC"
        BY <1>7, <2>1, <2>7, <3>2 DEF Got, Extends
      <4>2. j \in 1 .. i /\ y.got[j] = "EXEC"
        BY <2>1, <2>2, <3>2, <4>1 DEF Extends
      <4> QED
        BY <4>2
    <3> QED
      BY <2>1, <3>1, <3>2 DEF Extends
  <2>8. ASSUME NEW i \in DOMAIN y.got, NEW j \in 1 .. i - 1, y.got[j] = "CLOSE"
        PROVE  y.got[i] \in {"EXEC", "EOF"}
    <3>1. j \in DOMAIN v.got /\ v.got[j] = "CLOSE"
      <4>1. i \in 1 .. k
        BY <2>1, <2>2 DEF Extends
      <4>2. j \in 1 .. Len(v.got)
        BY <2>2, <4>1
      <4> QED
        BY <2>1, <2>2, <2>8, <4>2 DEF Extends
    <3>2. CASE i \in DOMAIN v.got
      BY <2>1, <2>3, <3>1, <3>2 DEF InOrder, Extends
    <3>3. CASE i = k
      <4>1. Got(v, "CLOSE") /\ Got(v, "OPEN")
        <5>1. 1 \in DOMAIN v.got
          BY <2>2, <3>1
        <5> QED
          BY <2>3, <3>1, <5>1 DEF InOrder, Got
      <4>2. p.type \notin {"CLOSE", "OPEN", "ADJUST", "REQUEST_FAILURE"}
        BY <1>6, <1>7, <4>1
      <4>3. y.got[i] = p.type
        BY <2>1, <3>3 DEF Extends
      <4> QED
        BY <1>3, <4>2, <4>3 DEF ClientType
    <3> QED
      BY <2>1, <3>2, <3>3 DEF Extends
  <2>9. Got(y, "CLOSE") => x.sentClose
    BY <1>5, <1>7, <2>3 DEF InOrder
  <2>10. ~Got(y, "REQUEST_FAILURE")
    BY <1>5, <1>7, <2>3 DEF InOrder
  <2> QED
    BY <2>4, <2>5, <2>6, <2>7, <2>8, <2>9, <2>10 DEF InOrder
<1>14. Flagged(x, m, l, r, w, y)
  BY <1>4, <1>5 DEF OnWire, Flagged, Closed
<1>15. Answered(x, m, l, y, q)
  BY <1>4, <1>5 DEF OnWire, Answered, Sent, Ordered
<1>16. Counted(x, m, r, n, TRUE, w, y, q)
  <2>1. Counted(x, m, r, n, FALSE, w, v, q)
    BY DEF OnWire
  <2>2. Got(y, "OPEN")
    BY <1>5, <1>9
  <2>3. Total(q) \in Nat /\ x.window \in Nat
    BY <1>1, SumsMapped DEF ChannelState
  <2> DEFINE h == Held(r, n, TRUE, w)
  <2>a. h = IF p.type = "ADJUST" THEN n ELSE 0
    <3>1. CASE p.type = "ADJUST"
      BY <1>7, <3>1 DEF Held, p
    <3>2. CASE p.type # "ADJUST"
      BY <3>2 DEF Held, p
    <3> QED
      BY <3>1, <3>2
  <2> HIDE DEF h
  <2>4. ASSUME m, ~x.closing PROVE x.window + h = y.window + Total(q)
    <3>1. CASE p.type = "OPEN"
      <4>1. ~Got(v, "OPEN")
        BY <1>6, <3>1
      <4>2. q = <<>>
        <5>1. /\ Sent(v) /\ InOrder(x, v)
              /\ \A i \in DOMAIN q : q[i].type \in v.sent
          BY DEF OnWire, Answered, Ordered
        <5> QED
          BY <1>1, <4>1, <5>1, NothingSent
      <4>3. Total(q) = 0 /\ x.window = InitialWindow /\ v.window = 0
        BY <2>1, <4>1, <4>2, TotalEmpty DEF Counted
      <4>4. h = 0
        BY <2>a, <3>1
      <4> QED
        <5>1. a = 0 + InitialWindow
          BY <1>4e, <1>7, <3>1, <4>3
        <5> QED
          BY <1>4g, <4>3, <4>4, <5>1, InitialWindowNat
    <3>2. CASE p.type # "OPEN"
      <4>1. x.window + 0 = v.window + Total(q)
        BY <1>9, <2>1, <2>4, <3>2 DEF Counted, Held
      <4>2. h = p.n
        BY <1>7, <2>a, <3>2
      <4> QED
        <5>1. a = v.window + p.n /\ v.window \in Nat /\ p.n \in Nat
          BY <1>3, <1>4a, <1>4e
        <5>2. y.window = a
          BY <1>4g
        <5> QED
          BY <2>3, <4>1, <4>2, <5>1, <5>2
    <3> QED
      BY <3>1, <3>2
  <2>5. x.result = "resolved" => Got(y, "CLOSE")
    BY <1>5, <2>1 DEF Counted
  <2>6. x.result = "pending" => x.output + Kept(r, n) + Total(q) = y.bytes
    BY <1>4, <2>1 DEF Counted
  <2>7. x.result = "resolved" =>
          /\ ~m /\ r # "adjust" /\ x.output = y.bytes
          /\ {"exitStatus", "eof", "close"} \subseteq y.sent
    BY <1>4, <2>1 DEF Counted
  <2> QED
    BY <2>2, <2>4, <2>5, <2>6, <2>7 DEF Counted, h
<1> QED
  BY <1>10, <1>11, <1>12, <1>13, <1>14, <1>15, <1>16 DEF OnWire

-----------------------------------------------------------------------------
(* One channel: its first packet is written, and the owner resumes.        *)

\* The packets behind the head, each of which comes from the queue.
LEMMA TailIn ==
  ASSUME NEW w \in Seq(Packet), w # <<>>
  PROVE  /\ Tail(w) \in Seq(Packet) /\ Head(w) = w[1] /\ 1 \in DOMAIN w
         /\ \A j \in DOMAIN Tail(w) : \E i \in DOMAIN w : i # 1 /\ Tail(w)[j] = w[i]
         /\ \A type : Has(w, type) => Head(w).type = type \/ Has(Tail(w), type)
<1>1. /\ DOMAIN w \subseteq Nat /\ 1 \in DOMAIN w /\ Head(w) = w[1] /\ Tail(w) \in Seq(Packet)
      /\ \A j \in DOMAIN Tail(w) : j \in Nat \ {0} /\ j + 1 \in DOMAIN w /\ Tail(w)[j] = w[j + 1]
  BY RestParts
<1>2. \A j \in DOMAIN Tail(w) : \E i \in DOMAIN w : i # 1 /\ Tail(w)[j] = w[i]
  <2>1. TAKE j \in DOMAIN Tail(w)
  <2>2. j + 1 # 1 /\ j + 1 \in DOMAIN w /\ Tail(w)[j] = w[j + 1]
    BY <1>1
  <2> QED
    BY <2>2
<1>3. ASSUME NEW type, Has(w, type) PROVE Head(w).type = type \/ Has(Tail(w), type)
  <2>1. PICK i \in DOMAIN w : w[i].type = type
    BY <1>3 DEF Has
  <2>2. CASE i = 1
    BY <1>1, <2>1, <2>2
  <2>3. CASE i # 1
    <3>1. i - 1 \in DOMAIN Tail(w) /\ Tail(w)[i - 1] = w[i]
      <4>1. Len(w) \in Nat /\ DOMAIN w = 1 .. Len(w) /\ DOMAIN Tail(w) = 1 .. Len(w) - 1
            /\ \A k \in 1 .. Len(w) - 1 : Tail(w)[k] = w[k + 1]
        BY TailParts
      <4>2. i \in Nat /\ i - 1 \in 1 .. Len(w) - 1 /\ (i - 1) + 1 = i
        BY <2>1, <2>3, <4>1
      <4> QED
        BY <4>1, <4>2
    <3> QED
      BY <2>1, <3>1 DEF Has
  <2> QED
    BY <2>2, <2>3
<1> QED
  BY <1>1, <1>2, <1>3

\* A head that is no credit leaves the queue.
LEMMA PopWire ==
  ASSUME NEW x, NEW m, NEW l, NEW r, NEW n, NEW w, NEW v, NEW q,
         OnWire(x, m, l, r, n, TRUE, w, v, q), Head(w).type # "ADJUST"
  PROVE  OnWire(x, m, l, r, n, FALSE, Tail(w), v, q) /\ Got(v, Head(w).type)
<1> DEFINE t == Tail(w)
           p == Head(w)
<1>1. w \in Seq(Packet) /\ w # <<>> /\ Typed(x, m, l, r, n, TRUE, w, v, q)
  BY DEF OnWire, Typed
<1>2. /\ t \in Seq(Packet) /\ p = w[1] /\ 1 \in DOMAIN w
      /\ \A j \in DOMAIN t : \E i \in DOMAIN w : i # 1 /\ t[j] = w[i]
      /\ \A type : Has(w, type) => p.type = type \/ Has(t, type)
  BY <1>1, TailIn
<1>3. /\ Begun(x, w, v) /\ Queued(x, r, n, TRUE, w, v) /\ InOrder(x, v)
      /\ Flagged(x, m, l, r, w, v) /\ Answered(x, m, l, v, q) /\ Counted(x, m, r, n, TRUE, w, v, q)
  BY DEF OnWire
<1>4. Rest(TRUE, w) = t /\ Rest(FALSE, t) = t
  BY DEF Rest
<1> HIDE DEF t, p
<1>5. Got(v, p.type)
  BY <1>3 DEF Queued, p
<1>6. Typed(x, m, l, r, n, FALSE, t, v, q)
  BY <1>1, <1>2 DEF Typed
<1>7. Begun(x, t, v)
  <2>1. x.begin # "none"
    BY <1>1, <1>3 DEF Begun
  <2> QED
    BY <1>2, <1>3, <2>1 DEF Begun
<1>8. Queued(x, r, n, FALSE, t, v)
  <2>1. DOMAIN t \subseteq Nat
    BY <1>2
  <2>2. ASSUME NEW j \in DOMAIN t
        PROVE  /\ t[j].type # "OPEN" => x.remote
               /\ t[j].type = "CLOSE" => x.sentClose
               /\ t[j].type = "OPEN" => t[j].n = InitialWindow
               /\ t[j].type \notin {"OPEN", "ADJUST"} => t[j].n = 0
               /\ t[j].type = "ADJUST" => t[j].by = "reader" /\ r = "adjust" /\ t[j].n = n
    BY <1>2, <1>3, <2>2 DEF Queued
  <2>3. \A i, j \in DOMAIN t : t[i].type = "ADJUST" /\ t[j].type = "ADJUST" => i = j
    <3>1. SUFFICES ASSUME NEW i \in DOMAIN t, NEW j \in DOMAIN t,
                          t[i].type = "ADJUST", t[j].type = "ADJUST"
                   PROVE  i = j
      OBVIOUS
    <3>2. /\ \A k \in DOMAIN t : k \in Nat \ {0} /\ k + 1 \in DOMAIN w /\ t[k] = w[k + 1]
      BY <1>1, RestParts DEF t
    <3>3. i + 1 = j + 1
      BY <1>3, <3>1, <3>2 DEF Queued
    <3> QED
      BY <3>2, <3>3
  <2>4. /\ \A j \in DOMAIN t :
            /\ t[j].type # "ADJUST" =>
                 /\ ~Got(v, t[j].type)
                 /\ \A i \in DOMAIN t : t[i].type = t[j].type => i = j
            /\ t[j].type = "ADJUST" =>
                 ~Got(v, "CLOSE") /\ \A i \in DOMAIN t : t[i].type = "CLOSE" => ~(i < j)
            /\ t[j].type \in {"EOF", "ADJUST"} => Got(v, "EXEC")
    BY <1>3, <1>4 DEF Queued
  <2> QED
    BY <2>2, <2>3, <2>4 DEF Queued, Rest
<1>9. Flagged(x, m, l, r, t, v)
  <2>1. Closed(w, v) => Closed(t, v)
    BY <1>2, <1>5 DEF Closed
  <2> QED
    BY <1>3, <2>1 DEF Flagged
<1>10. Counted(x, m, r, n, FALSE, t, v, q)
  <2>1. Held(r, n, TRUE, w) = 0 /\ Held(r, n, FALSE, t) = 0
    BY DEF Held
  <2> QED
    BY <1>3, <2>1 DEF Counted
<1> QED
  BY <1>3, <1>5, <1>6, <1>7, <1>8, <1>9, <1>10 DEF OnWire, t, p

\* #append has its credit: the window and the output grow.
Credits(x, y, n) == y = [x EXCEPT !.window = @ + n, !.output = @ + n]

LEMMA CreditWire ==
  ASSUME NEW x, NEW m, NEW l, NEW n, NEW w, NEW v, NEW q,
         OnWire(x, m, l, "adjust", n, TRUE, w, v, q), Head(w).type = "ADJUST",
         NEW y, Credits(x, y, n)
  PROVE  OnWire(y, m, l, "no", 0, FALSE, Tail(w), v, q)
<1> y = [x EXCEPT !.window = @ + n, !.output = @ + n]
  BY DEF Credits
<1> DEFINE t == Tail(w)
           p == Head(w)
<1>1. w \in Seq(Packet) /\ w # <<>> /\ Typed(x, m, l, "adjust", n, TRUE, w, v, q)
  BY DEF OnWire, Typed
<1>2. /\ t \in Seq(Packet) /\ p = w[1] /\ 1 \in DOMAIN w
      /\ \A j \in DOMAIN t : \E i \in DOMAIN w : i # 1 /\ t[j] = w[i]
      /\ \A type : Has(w, type) => p.type = type \/ Has(t, type)
  BY <1>1, TailIn
<1>3. /\ Begun(x, w, v) /\ Queued(x, "adjust", n, TRUE, w, v) /\ InOrder(x, v)
      /\ Flagged(x, m, l, "adjust", w, v) /\ Answered(x, m, l, v, q)
      /\ Counted(x, m, "adjust", n, TRUE, w, v, q)
  BY DEF OnWire
<1>4. Rest(TRUE, w) = t /\ Rest(FALSE, t) = t
  BY DEF Rest
<1> HIDE DEF t, p
<1>5. /\ x \in ChannelState /\ n \in Nat /\ x.window \in Nat /\ x.output \in Nat
      /\ q \in Seq(Message) /\ v \in ServerState
  BY <1>1 DEF Typed, ChannelState
<1> DEFINE a == x.window + n
           b == x.output + n
<1>5a. a \in Nat /\ b \in Nat /\ y = [x EXCEPT !.window = a, !.output = b]
  BY <1>5
<1>5b. a = x.window + n /\ b = x.output + n
  OBVIOUS
<1> HIDE DEF a, b
<1>6. /\ y \in ChannelState /\ y.window = a /\ y.output = b
      /\ y.begin = x.begin /\ y.opened = x.opened /\ y.reply = x.reply /\ y.result = x.result
      /\ y.remote = x.remote /\ y.receivedEof = x.receivedEof /\ y.closing = x.closing
      /\ y.sentClose = x.sentClose /\ y.receivedClose = x.receivedClose
      /\ y.cancelled = x.cancelled /\ y.exited = x.exited
  BY <1>5, <1>5a DEF ChannelState
<1>7. x.begin # "none"
  BY <1>1, <1>3 DEF Begun
<1>8. \A j \in DOMAIN t : t[j].type # "ADJUST"
  BY <1>2, <1>3 DEF Queued, p
<1>9. Typed(y, m, l, "no", 0, FALSE, t, v, q)
  BY <1>1, <1>2, <1>6 DEF Typed
<1>10. Begun(y, t, v)
  BY <1>2, <1>3, <1>6, <1>7 DEF Begun
<1>11. Queued(y, "no", 0, FALSE, t, v)
  <2>1. ASSUME NEW j \in DOMAIN t
        PROVE  /\ t[j].type # "OPEN" => y.remote
               /\ t[j].type = "CLOSE" => y.sentClose
               /\ t[j].type = "OPEN" => t[j].n = InitialWindow
               /\ t[j].type \notin {"OPEN", "ADJUST"} => t[j].n = 0
    BY <1>2, <1>3, <1>6, <2>1 DEF Queued
  <2>2. \A j \in DOMAIN t :
            /\ t[j].type # "ADJUST" =>
                 /\ ~Got(v, t[j].type)
                 /\ \A i \in DOMAIN t : t[i].type = t[j].type => i = j
            /\ t[j].type \in {"EOF", "ADJUST"} => Got(v, "EXEC")
    BY <1>3, <1>4 DEF Queued
  <2> QED
    BY <1>8, <2>1, <2>2 DEF Queued, Rest
<1>12. InOrder(y, v)
  BY <1>3, <1>6 DEF InOrder
<1>13. Flagged(y, m, l, "no", t, v)
  <2>1. Closed(w, v) => Closed(t, v)
    BY <1>2 DEF Closed, p
  <2>2. ~x.receivedClose \/ ~m
    BY <1>3 DEF Flagged
  <2>3. x.result = "pending" => ~x.sentClose
    BY <1>3 DEF Flagged
  <2> QED
    BY <1>3, <1>6, <2>1, <2>2, <2>3 DEF Flagged
<1>14. Answered(y, m, l, v, q)
  BY <1>3, <1>6 DEF Answered, Ordered, Confirmed
<1>15. Counted(y, m, "no", 0, FALSE, t, v, q)
  <2>1. Total(q) \in Nat /\ v.window \in Nat /\ v.bytes \in Nat
    BY <1>5, SumsMapped DEF ServerState
  <2>2. /\ Held("adjust", n, TRUE, w) = n /\ Held("no", 0, FALSE, t) = 0
        /\ Kept("adjust", n) = n /\ Kept("no", 0) = 0
    BY DEF Held, Kept
  <2>3. Got(v, "OPEN")
    <3>1. x.remote
      BY <1>2, <1>3 DEF Queued, p
    <3> QED
      BY <1>3, <3>1 DEF Flagged, Answered, Sent
  <2>4. m /\ ~y.closing => y.window + 0 = v.window + Total(q)
    <3>1. m /\ ~x.closing => x.window + n = v.window + Total(q)
      BY <1>3, <2>2, <2>3 DEF Counted
    <3> QED
      BY <1>5, <1>5b, <1>6, <2>1, <3>1
  <2>5. y.result = "pending" => y.output + 0 + Total(q) = v.bytes
    <3>1. x.result = "pending" => x.output + n + Total(q) = v.bytes
      BY <1>3, <2>2 DEF Counted
    <3> QED
      BY <1>5, <1>5b, <1>6, <2>1, <3>1
  <2>6. y.result # "resolved"
    BY <1>3, <1>6 DEF Counted
  <2> QED
    BY <2>2, <2>3, <2>4, <2>5, <2>6 DEF Counted
<1> QED
  BY <1>9, <1>10, <1>11, <1>12, <1>13, <1>14, <1>15 DEF OnWire, t, p

-----------------------------------------------------------------------------
(* One channel: its command ends, and CLOSE is queued when it is due.      *)

\* Closing(Rejected(x)), wherever #begin is then.
Ended(x, y) ==
  /\ y \in ChannelState /\ x.begin # "none" /\ y.begin # "none"
  /\ y.opened = x.opened /\ y.remote = x.remote /\ y.receivedEof = x.receivedEof
  /\ y.receivedClose = x.receivedClose /\ y.exited = x.exited
  /\ y.output = x.output /\ y.window = x.window
  /\ y.closing /\ y.sentClose = (x.sentClose \/ x.remote)
  /\ y.result = Settle(x.result, "rejected")

LEMMA BegunClosing ==
  ASSUME NEW x, NEW y, NEW w \in Seq(Packet), NEW t, NEW v, NEW p \in Packet, Begun(x, w, v),
         Ended(x, y), y.begin = x.begin, y.reply = x.reply,
         t = w \/ (t = Append(w, p) /\ p.by # "begin" /\ p.type = "CLOSE")
  PROVE  Begun(y, t, v)
<1>1. Extends(w, p, Append(w, p), Len(w) + 1)
  BY Extended
<1>2. \A i \in DOMAIN t : (\E j \in DOMAIN w : t[i] = w[j]) \/ (t[i].by # "begin" /\ t[i].type = "CLOSE")
  BY <1>1 DEF Extends
<1> QED
  BY <1>2 DEF Begun, Ended

LEMMA ClosingWire ==
  ASSUME NEW x, NEW y, NEW m, NEW l, NEW r, NEW n, NEW f, NEW w, NEW v, NEW q,
         OnWire(x, m, l, r, n, f, w, v, q), Ended(x, y), y.reply = x.reply \/ ~m,
         NEW p \in Packet, p.type = "CLOSE", p.n = 0, NEW t,
         l /\ MustSendClose(x) => t = Append(w, p),
         ~(l /\ MustSendClose(x)) => t = w,
         Begun(y, t, v)
  PROVE  OnWire(y, m, l, r, n, f, t, v, q)
<1>1. Typed(x, m, l, r, n, f, w, v, q) /\ w \in Seq(Packet) /\ f \in BOOLEAN /\ (f => w # <<>>)
  BY DEF OnWire, Typed
<1>2. /\ Begun(x, w, v) /\ Queued(x, r, n, f, w, v) /\ InOrder(x, v)
      /\ Flagged(x, m, l, r, w, v) /\ Answered(x, m, l, v, q) /\ Counted(x, m, r, n, f, w, v, q)
  BY DEF OnWire
<1>3. y.result # "pending" /\ (y.result = "resolved" => x.result = "resolved")
  BY DEF Ended, Settle
<1>4. x.remote => y.sentClose
  BY DEF Ended
<1>5. CASE l /\ MustSendClose(x)
  <2>1. t = Append(w, p) /\ x.remote /\ ~x.sentClose
    BY <1>5 DEF MustSendClose
  <2>2. Extends(w, p, t, Len(w) + 1) /\ t \in Seq(Packet) /\ t # <<>>
    BY <1>1, <2>1, Extended
  <2>3. /\ \A i \in DOMAIN t : t[i].type # "REQUEST_FAILURE"
    BY <1>1, <2>2 DEF Extends, Typed
  <2>4. Typed(y, m, l, r, n, f, t, v, q)
    BY <1>1, <1>3, <2>2, <2>3 DEF Typed, Ended
  <2>5. Fresh(y, w, v, p)
    <3>1. ~Got(v, "CLOSE") /\ ~Has(w, "CLOSE")
      BY <1>2, <2>1 DEF InOrder, Queued, Has
    <3> QED
      BY <2>1, <3>1 DEF Fresh, Ended
  <2>6. Queued(y, r, n, f, t, v)
    BY <1>1, <1>2, <2>1, <2>5, QueuedPut DEF Ended
  <2>7. Closed(t, v)
    BY <1>1, <2>1, LongerQueue DEF Closed
  <2>8. Flagged(y, m, l, r, t, v)
    BY <1>2, <1>3, <2>1, <2>7 DEF Flagged, Ended
  <2>9. Held(r, n, f, t) = Held(r, n, f, w)
    BY <1>1, <2>1, HeldAppend
  <2> QED
    BY <1>2, <1>3, <2>4, <2>6, <2>8, <2>9, ZenonT(60) DEF OnWire, Ended, InOrder, Answered, Ordered, Confirmed, Counted
<1>6. CASE ~(l /\ MustSendClose(x))
  <2>1. t = w
    BY <1>6
  <2>2. Typed(y, m, l, r, n, f, w, v, q)
    BY <1>1, <1>3 DEF Typed, Ended
  <2>3. Queued(y, r, n, f, w, v)
    BY <1>2, QueuedKept DEF Ended
  <2>4. Flagged(y, m, l, r, w, v)
    BY <1>2, <1>3, <1>6 DEF Flagged, Ended, MustSendClose
  <2> QED
    BY <1>2, <1>3, <2>1, <2>2, <2>3, <2>4, ZenonT(60) DEF OnWire, Ended, InOrder, Answered, Ordered, Confirmed, Counted
<1> QED
  BY <1>5, <1>6

-----------------------------------------------------------------------------
(* One channel: #begin goes on.                                            *)

\* Only #begin, the reply it waits for and the flag of EOF change.
Same(x, y) ==
  /\ y \in ChannelState /\ x.begin # "none" /\ y.begin # "none"
  /\ y.opened = x.opened /\ y.remote = x.remote /\ y.receivedEof = x.receivedEof
  /\ y.receivedClose = x.receivedClose /\ y.exited = x.exited
  /\ y.output = x.output /\ y.window = x.window
  /\ y.closing = x.closing /\ y.sentClose = x.sentClose
  /\ y.result = x.result /\ y.cancelled = x.cancelled

LEMMA SameWire ==
  ASSUME NEW x, NEW y, NEW m, NEW l, NEW r, NEW n, NEW f, NEW w, NEW v, NEW q,
         OnWire(x, m, l, r, n, f, w, v, q), Same(x, y), y.reply = x.reply \/ ~m, Begun(y, w, v)
  PROVE  OnWire(y, m, l, r, n, f, w, v, q)
<1>1. /\ Typed(x, m, l, r, n, f, w, v, q) /\ Queued(x, r, n, f, w, v) /\ InOrder(x, v)
      /\ Flagged(x, m, l, r, w, v) /\ Answered(x, m, l, v, q) /\ Counted(x, m, r, n, f, w, v, q)
  BY DEF OnWire
<1>2. Typed(y, m, l, r, n, f, w, v, q)
  BY <1>1 DEF Typed, Same
<1>3. Queued(y, r, n, f, w, v)
  BY <1>1, QueuedKept DEF Same
<1>4. Flagged(y, m, l, r, w, v)
  BY <1>1 DEF Flagged, Same
<1> QED
  BY <1>1, <1>2, <1>3, <1>4 DEF OnWire, Same, InOrder, Answered, Ordered, Confirmed, Counted

\* #begin is done where it waited for a promise or its packet was written.
LEMMA BegunDone ==
  ASSUME NEW x, NEW y, NEW w, NEW v, Begun(x, w, v), x.begin # "none", y.begin = "done",
         y.opened = x.opened, y.remote = x.remote,
         y.reply = x.reply \/ (x.reply = "none" /\ y.reply = "pending"),
         \A i \in DOMAIN w : w[i].by # "begin"
  PROVE  Begun(y, w, v)
  BY DEF Begun

LEMMA NoneOfBegin ==
  ASSUME NEW x, NEW w, NEW v, Begun(x, w, v), x.begin \notin Writing
  PROVE  \A i \in DOMAIN w : w[i].by # "begin" /\ w[i].type \notin {"OPEN", "EXEC", "EOF"}
  BY DEF Begun

\* The exec request, and EOF once it is granted.
Requests(x, y, p, c) ==
  /\ p.ch = c /\ p.by = "begin" /\ p.n = 0
  /\ \/ /\ x.begin = "awaitOpened" /\ x.opened \notin {"pending", "rejected"}
        /\ y.begin = "requesting" /\ y.reply = "pending" /\ p.type = "EXEC"
     \/ /\ x.begin = "awaitReply" /\ x.reply \notin {"pending", "rejected"}
        /\ y.begin = "sendingEof" /\ y.reply = x.reply /\ p.type = "EOF"

LEMMA RequestWire ==
  ASSUME NEW c, NEW x, NEW y, NEW m, NEW l, NEW r, NEW n, NEW f, NEW w, NEW v, NEW q,
         OnWire(x, m, l, r, n, f, w, v, q), Same(x, y), NEW p \in Packet, Requests(x, y, p, c)
  PROVE  OnWire(y, m, l, r, n, f, Append(w, p), v, q)
<1> DEFINE t == Append(w, p)
<1>1. /\ Typed(x, m, l, r, n, f, w, v, q) /\ Begun(x, w, v) /\ Queued(x, r, n, f, w, v)
      /\ InOrder(x, v) /\ Flagged(x, m, l, r, w, v) /\ Answered(x, m, l, v, q)
      /\ Counted(x, m, r, n, f, w, v, q)
      /\ w \in Seq(Packet) /\ f \in BOOLEAN /\ (f => w # <<>>) /\ x \in ChannelState
  BY DEF OnWire, Typed
<1>2. Extends(w, p, t, Len(w) + 1) /\ t \in Seq(Packet) /\ t # <<>>
  BY <1>1, Extended
<1>3. Held(r, n, f, t) = Held(r, n, f, w)
  BY <1>1, HeldAppend
<1>4. \A v1 : Closed(w, v1) => Closed(t, v1)
  BY <1>1, LongerQueue
<1> HIDE DEF t
<1>5. \A i \in DOMAIN w : w[i].by # "begin" /\ w[i].type \notin {"OPEN", "EXEC", "EOF"}
  BY <1>1, NoneOfBegin DEF Requests, Writing
<1>6. x.remote
  BY <1>1 DEF Begun, Requests, ChannelState, Promise
<1>7. ~Got(v, p.type) /\ (p.type = "EOF" => Got(v, "EXEC") /\ "success" \in v.sent)
  <2>1. CASE x.begin = "awaitOpened"
    BY <1>1, <2>1 DEF Begun, Requests
  <2>2. CASE x.begin = "awaitReply"
    <3>1. x.reply = "resolved"
      BY <1>1, <2>2 DEF Begun, Requests, ChannelState, Promise
    <3> QED
      BY <1>1, <2>2, <3>1 DEF Begun, Requests, Answered, Sent
  <2> QED
    BY <2>1, <2>2 DEF Requests
<1>8. \A i \in DOMAIN t : t[i].type # "REQUEST_FAILURE"
  BY <1>1, <1>2 DEF Extends, Typed, Requests
<1>9. Typed(y, m, l, r, n, f, t, v, q)
  BY <1>1, <1>2, <1>8 DEF Typed, Same
<1>10. Begun(y, t, v)
  <2>1. \A i \in DOMAIN t :
          /\ t[i].by = "begin" => y.begin \in Writing /\ t[i].type = TypeAt[y.begin]
          /\ t[i].type \in {"OPEN", "EXEC", "EOF"} => t[i].by = "begin"
    BY <1>2, <1>5 DEF Extends, Requests, Writing, TypeAt
  <2>2. y.reply # "none"
    BY <1>1 DEF Begun, Requests
  <2>3. y.begin = "requesting" => ~Got(v, "EOF") /\ y.reply = "pending"
    BY <1>1 DEF Begun, Requests
  <2>4. \/ y.begin = "requesting"
        \/ y.begin = "sendingEof" /\ "success" \in v.sent
    BY <1>7 DEF Requests
  <2> QED
    BY <1>1, <1>6, <2>1, <2>2, <2>3, <2>4 DEF Begun, Same
<1>11. Queued(y, r, n, f, t, v)
  <2>1. Fresh(y, w, v, p)
    BY <1>5, <1>6, <1>7 DEF Fresh, Has, Requests, Same
  <2> QED
    BY <1>1, <2>1, QueuedPut DEF Same, t
<1>12. InOrder(y, v)
  BY <1>1 DEF InOrder, Same
<1>13. Flagged(y, m, l, r, t, v)
  BY <1>1, <1>4 DEF Flagged, Same
<1>14. Answered(y, m, l, v, q)
  <2>1. y.reply = x.reply \/ y.reply = "pending"
    BY DEF Requests
  <2> QED
    BY <1>1, <2>1 DEF Answered, Ordered, Confirmed, Same
<1>15. Counted(y, m, r, n, f, t, v, q)
  BY <1>1, <1>3 DEF Counted, Same
<1> QED
  BY <1>9, <1>10, <1>11, <1>12, <1>13, <1>14, <1>15 DEF OnWire, t

\* The packet of #begin is written: the next promise, or the end.
GoesOn(x, y) == y = [x EXCEPT !.begin = NextWait[@]]

LEMMA WrittenWire ==
  ASSUME NEW x, NEW y, NEW m, NEW l, NEW r, NEW n, NEW w, NEW v, NEW q,
         OnWire(x, m, l, r, n, TRUE, w, v, q), Head(w).by = "begin", GoesOn(x, y)
  PROVE  OnWire(y, m, l, r, n, FALSE, Tail(w), v, q)
<1> y = [x EXCEPT !.begin = NextWait[@]]
  BY DEF GoesOn
<1> DEFINE t == Tail(w)
           b == NextWait[x.begin]
<1>1. /\ w \in Seq(Packet) /\ w # <<>> /\ x \in ChannelState
      /\ Begun(x, w, v) /\ Queued(x, r, n, TRUE, w, v)
  BY DEF OnWire, Typed
<1>2. Head(w) = w[1] /\ 1 \in DOMAIN w
  BY <1>1, TailIn
<1>3. x.begin \in Writing /\ Head(w).type = TypeAt[x.begin]
  BY <1>1, <1>2 DEF Begun
<1>4. Head(w).type # "ADJUST"
  BY <1>3 DEF Writing, TypeAt
<1>5. OnWire(x, m, l, r, n, FALSE, t, v, q) /\ Got(v, TypeAt[x.begin])
  BY <1>3, <1>4, PopWire
<1>6. \A i \in DOMAIN t : t[i].by # "begin"
  <2>1. SUFFICES ASSUME NEW i \in DOMAIN t, t[i].by = "begin" PROVE FALSE
    OBVIOUS
  <2>2. t[i].type = TypeAt[x.begin] /\ t[i].type # "ADJUST"
    BY <1>3, <1>4, <1>5, <2>1 DEF OnWire, Begun
  <2> QED
    BY <1>5, <2>1, <2>2 DEF OnWire, Queued, Rest
<1> HIDE DEF t
<1>7. b \in {"awaitOpened", "awaitReply", "done"} /\ b \in Begin
  BY <1>3 DEF NextWait, Writing, Begin
<1>8. y = [x EXCEPT !.begin = b]
  OBVIOUS
<1>9. x.begin # "none"
  BY <1>3 DEF Writing
<1>10. b = "awaitOpened" <=> x.begin = "opening"
  BY <1>3 DEF NextWait, Writing
<1>10a. b = "awaitReply" <=> x.begin = "requesting"
  BY <1>3 DEF NextWait, Writing
<1> HIDE DEF b
<1>11. y.begin = b /\ y.reply = x.reply /\ Same(x, y)
  BY <1>1, <1>7, <1>8, <1>9 DEF Same, ChannelState
<1>12. Begun(y, t, v)
  BY <1>5, <1>6, <1>7, <1>9, <1>10, <1>10a, <1>11 DEF OnWire, Begun, Same
<1> QED
  BY <1>5, <1>11, <1>12, SameWire DEF t

-----------------------------------------------------------------------------
(* One channel: the connection fails.                                      *)

\* #fatal, and what the owners of a failed write do when it throws.
Ends(x, y) ==
  /\ y \in ChannelState /\ y.remote = x.remote /\ y.receivedEof = x.receivedEof
  /\ y.receivedClose = x.receivedClose /\ y.exited = x.exited
  /\ y.output = x.output /\ y.window = x.window
  /\ y.opened = x.opened \/ (x.opened = "pending" /\ y.opened = "rejected")
  /\ y.reply = x.reply \/ (x.reply = "pending" /\ y.reply = "rejected")
  /\ y.result = Settle(x.result, "rejected")
  /\ y.begin = x.begin \/ (x.begin # "none" /\ y.begin = "done")
  /\ x.sentClose => y.sentClose
  /\ y.sentClose => y.remote /\ (y.closing \/ y.receivedClose)
  /\ x.begin = "none" => y = x

LEMMA EndsBegun ==
  ASSUME NEW x, NEW y, NEW w, NEW v, Begun(x, w, v), Ends(x, y),
         y.begin = x.begin \/ \A i \in DOMAIN w : w[i].by # "begin"
  PROVE  Begun(y, w, v)
<1>1. CASE x.begin = "none"
  BY <1>1 DEF Ends
<1>2. CASE x.begin # "none" /\ y.begin = x.begin
  BY <1>2 DEF Begun, Ends
<1>3. CASE x.begin # "none" /\ y.begin = "done" /\ \A i \in DOMAIN w : w[i].by # "begin"
  BY <1>3 DEF Begun, Ends
<1> QED
  BY <1>1, <1>2, <1>3 DEF Ends

\* Everything but the queues, once the client is not live.
LEMMA EndsRest ==
  ASSUME NEW x, NEW y, NEW m, NEW l, NEW r, NEW n, NEW f, NEW w, NEW v, NEW q,
         OnWire(x, m, l, r, n, f, w, v, q), Ends(x, y),
         NEW m2, NEW l2, ~m2, ~l2, NEW r2, r2 = r \/ r2 = "no", NEW n2, NEW f2, NEW w2
  PROVE  /\ InOrder(y, v) /\ Flagged(y, m2, l2, r2, w2, v) /\ Answered(y, m2, l2, v, q)
         /\ Counted(y, m2, r2, n2, f2, w2, v, q)
<1>1. y.result # "pending" /\ (y.result = "resolved" => x.result = "resolved")
  BY DEF Ends, Settle
<1>2. /\ InOrder(x, v) /\ Flagged(x, m, l, r, w, v) /\ Answered(x, m, l, v, q)
      /\ Counted(x, m, r, n, f, w, v, q)
  BY DEF OnWire
<1>3. r2 = "close" => r = "close"
  OBVIOUS
<1>4. r2 = "adjust" => r = "adjust"
  OBVIOUS
<1>5. InOrder(y, v)
  BY <1>2 DEF InOrder, Ends
<1>6. Flagged(y, m2, l2, r2, w2, v)
  BY <1>1, <1>2, <1>3 DEF Flagged, Ends
<1>7. Answered(y, m2, l2, v, q)
  BY <1>2 DEF Answered, Ordered, Ends
<1>8. Counted(y, m2, r2, n2, f2, w2, v, q)
  BY <1>1, <1>2, <1>4 DEF Counted, Ends
<1> QED
  BY <1>5, <1>6, <1>7, <1>8

\* #fatal leaves the queue alone.
LEMMA DeadWire ==
  ASSUME NEW x, NEW y, NEW m, NEW l, NEW r, NEW n, NEW f, NEW w, NEW v, NEW q,
         OnWire(x, m, l, r, n, f, w, v, q), Ends(x, y), y.begin = x.begin,
         NEW m2 \in BOOLEAN, NEW l2 \in BOOLEAN, ~m2, ~l2
  PROVE  OnWire(y, m2, l2, r, n, f, w, v, q)
<1>1. Typed(x, m, l, r, n, f, w, v, q) /\ Begun(x, w, v) /\ Queued(x, r, n, f, w, v)
  BY DEF OnWire
<1>2. y.result # "pending"
  BY DEF Ends, Settle
<1>3. Typed(y, m2, l2, r, n, f, w, v, q)
  BY <1>1, <1>2 DEF Typed, Ends
<1>4. Begun(y, w, v)
  BY <1>1, EndsBegun
<1>5. Queued(y, r, n, f, w, v)
  BY <1>1, QueuedKept DEF Ends
<1>6. /\ InOrder(y, v) /\ Flagged(y, m2, l2, r, w, v) /\ Answered(y, m2, l2, v, q)
      /\ Counted(y, m2, r, n, f, w, v, q)
  BY EndsRest
<1> QED
  BY <1>3, <1>4, <1>5, <1>6 DEF OnWire

\* So does it when it is closeReceived that calls it, which then returns.
LEMMA StoppedWire ==
  ASSUME NEW x, NEW y, NEW m, NEW l, NEW n, NEW f, NEW w, NEW v, NEW q,
         OnWire(x, m, l, "close", n, f, w, v, q), Ends(x, y), y.begin = x.begin
  PROVE  OnWire(y, FALSE, FALSE, "no", 0, f, w, v, q)
<1>1. Typed(x, m, l, "close", n, f, w, v, q) /\ Begun(x, w, v) /\ Queued(x, "close", n, f, w, v)
  BY DEF OnWire
<1>2. y.result # "pending"
  BY DEF Ends, Settle
<1>3. Typed(y, FALSE, FALSE, "no", 0, f, w, v, q)
  BY <1>1, <1>2 DEF Typed, Ends
<1>4. Begun(y, w, v)
  BY <1>1, EndsBegun
<1>5. Queued(y, "no", 0, f, w, v)
  <2>1. \A j \in DOMAIN w : w[j].type # "ADJUST"
    BY <1>1 DEF Queued
  <2> QED
    BY <1>1, <2>1 DEF Queued, Ends
<1>6. /\ InOrder(y, v) /\ Flagged(y, FALSE, FALSE, "no", w, v) /\ Answered(y, FALSE, FALSE, v, q)
      /\ Counted(y, FALSE, "no", 0, f, w, v, q)
  BY EndsRest
<1> QED
  BY <1>3, <1>4, <1>5, <1>6 DEF OnWire

\* A failed write empties the queue.
LEMMA LostWire ==
  ASSUME NEW x, NEW y, NEW m, NEW l, NEW r, NEW n, NEW f, NEW w, NEW v, NEW q,
         OnWire(x, m, l, r, n, f, w, v, q), Ends(x, y)
  PROVE  OnWire(y, FALSE, FALSE, "no", 0, FALSE, <<>>, v, q)
<1>1. /\ Typed(x, m, l, r, n, f, w, v, q) /\ Begun(x, w, v) /\ Queued(x, r, n, f, w, v)
      /\ w \in Seq(Packet)
  BY DEF OnWire, Typed
<1>2. y.result # "pending"
  BY DEF Ends, Settle
<1>3. <<>> \in Seq(Packet) /\ DOMAIN <<>> = {} /\ Rest(FALSE, <<>>) = <<>>
  BY DEF Rest
<1>4. Typed(y, FALSE, FALSE, "no", 0, FALSE, <<>>, v, q)
  BY <1>1, <1>2, <1>3 DEF Typed, Ends
<1>5. Begun(x, <<>>, v)
  BY <1>1, <1>3 DEF Begun
<1>6. Begun(y, <<>>, v)
  BY <1>3, <1>5, EndsBegun
<1>7. Queued(y, "no", 0, FALSE, <<>>, v)
  BY <1>3 DEF Queued
<1>8. /\ InOrder(y, v) /\ Flagged(y, FALSE, FALSE, "no", <<>>, v) /\ Answered(y, FALSE, FALSE, v, q)
      /\ Counted(y, FALSE, "no", 0, FALSE, <<>>, v, q)
  BY EndsRest
<1> QED
  BY <1>4, <1>6, <1>7, <1>8 DEF OnWire

\* closeReceived ends with a complete or cancelled command.
Finishes(x, y) ==
  /\ x.cancelled \/ Complete(x)
  /\ y = [x EXCEPT !.result = IF x.cancelled THEN @ ELSE Settle(@, "resolved")]

LEMMA FinishWire ==
  ASSUME NEW x, NEW y, NEW m, NEW l, NEW n, NEW f, NEW w, NEW v, NEW q,
         OnWire(x, m, l, "close", n, f, w, v, q), Got(v, "CLOSE") \/ x.result # "pending",
         Finishes(x, y), NEW m2 \in BOOLEAN, ~m2
  PROVE  OnWire(y, m2, l, "no", 0, f, w, v, q)
<1> DEFINE e == IF x.cancelled THEN x.result ELSE Settle(x.result, "resolved")
<1>0. y = [x EXCEPT !.result = e] /\ (x.cancelled \/ Complete(x))
  BY DEF Finishes
<1>1. /\ Typed(x, m, l, "close", n, f, w, v, q) /\ Begun(x, w, v) /\ Queued(x, "close", n, f, w, v)
      /\ InOrder(x, v) /\ Flagged(x, m, l, "close", w, v) /\ Answered(x, m, l, v, q)
      /\ Counted(x, m, "close", n, f, w, v, q)
      /\ x \in ChannelState /\ x.begin # "none" /\ q \in Seq(Message) /\ v \in ServerState
  BY DEF OnWire, Typed
<1>2. e \in Promise /\ e # "pending" /\ (x.result = "pending" => m /\ l /\ ~x.cancelled /\ e = "resolved")
  BY <1>1 DEF Settle, Flagged, Typed, ChannelState, Promise
<1>3. x.result # "pending" => e = x.result
  BY DEF Settle
<1>4. y = [x EXCEPT !.result = e] /\ (x.cancelled \/ Complete(x))
  BY <1>0
<1> HIDE DEF e
<1>5. /\ y \in ChannelState /\ y.begin = x.begin /\ y.opened = x.opened /\ y.reply = x.reply /\ y.result = e
      /\ y.remote = x.remote /\ y.receivedEof = x.receivedEof /\ y.closing = x.closing
      /\ y.sentClose = x.sentClose /\ y.receivedClose = x.receivedClose
      /\ y.cancelled = x.cancelled /\ y.exited = x.exited
      /\ y.output = x.output /\ y.window = x.window
  BY <1>1, <1>2, <1>4 DEF ChannelState
<1>6. x.receivedClose /\ x.sentClose /\ "close" \in v.sent /\ (l => Closed(w, v))
  BY <1>1 DEF Flagged
<1>7. Typed(y, m2, l, "no", 0, f, w, v, q)
  BY <1>1, <1>2, <1>5 DEF Typed
<1>8. Begun(y, w, v)
  BY <1>1, <1>5 DEF Begun
<1>9. Queued(y, "no", 0, f, w, v)
  <2>1. \A j \in DOMAIN w : w[j].type # "ADJUST"
    BY <1>1 DEF Queued
  <2> QED
    BY <1>1, <1>5, <2>1 DEF Queued
<1>10. InOrder(y, v)
  BY <1>1, <1>5 DEF InOrder
<1>11. Flagged(y, m2, l, "no", w, v)
  BY <1>1, <1>2, <1>5, <1>6 DEF Flagged
<1>12. Answered(y, m2, l, v, q)
  <2>1. l => q = <<>>
    BY <1>1, <1>6 DEF Answered
  <2> QED
    BY <1>1, <1>5, <2>1 DEF Answered, Ordered
<1>13. Counted(y, m2, "no", 0, f, w, v, q)
  <2>1. ASSUME x.result = "pending"
        PROVE  x.output = v.bytes /\ {"exitStatus", "eof", "close"} \subseteq v.sent /\ Got(v, "CLOSE")
    <3>1. x.receivedEof /\ x.exited
      BY <1>2, <1>4, <2>1 DEF Complete
    <3>2. q = <<>>
      BY <1>1, <1>2, <1>6, <2>1 DEF Answered
    <3>3. x.output + 0 + 0 = v.bytes
      BY <1>1, <2>1, <3>2, TotalEmpty DEF Counted, Kept
    <3>4. x.output \in Nat
      BY <1>1 DEF ChannelState
    <3> QED
      BY <1>1, <1>6, <2>1, <3>1, <3>3, <3>4 DEF Flagged
  <2>2. ASSUME x.result = "resolved"
        PROVE  x.output = v.bytes /\ {"exitStatus", "eof", "close"} \subseteq v.sent /\ Got(v, "CLOSE")
    BY <1>1, <2>2 DEF Counted
  <2> QED
    BY <1>1, <1>2, <1>3, <1>5, <2>1, <2>2 DEF Counted
<1> QED
  BY <1>7, <1>8, <1>9, <1>10, <1>11, <1>12, <1>13 DEF OnWire

-----------------------------------------------------------------------------
(* One channel: the read loop takes its next message.                      *)

LEMMA TailMessages ==
  ASSUME NEW q \in Seq(Message), q # <<>>
  PROVE  /\ Tail(q) \in Seq(Message) /\ Head(q) \in Message /\ Head(q) = q[1] /\ 1 \in DOMAIN q
         /\ Len(q) \in Nat /\ Len(Tail(q)) \in Nat /\ Len(q) = Len(Tail(q)) + 1
         /\ \A i \in DOMAIN Tail(q) : i \in Nat \ {0} /\ i + 1 \in DOMAIN q /\ Tail(q)[i] = q[i + 1]
         /\ \A i \in DOMAIN q : i # 1 => i \in Nat /\ i - 1 \in DOMAIN Tail(q) /\ Tail(q)[i - 1] = q[i]
<1>1. /\ Tail(q) \in Seq(Message) /\ Len(q) \in Nat \ {0} /\ Head(q) = q[1] /\ q[1] \in Message
      /\ DOMAIN q = 1 .. Len(q) /\ DOMAIN Tail(q) = 1 .. Len(q) - 1
      /\ \A i \in 1 .. Len(q) - 1 : Tail(q)[i] = q[i + 1]
  BY TailParts
<1>2. Len(Tail(q)) = Len(q) - 1
  OBVIOUS
<1>3. \A i \in DOMAIN Tail(q) : i \in Nat \ {0} /\ i + 1 \in DOMAIN q /\ Tail(q)[i] = q[i + 1]
  BY <1>1
<1>4. ASSUME NEW i \in DOMAIN q, i # 1 PROVE i \in Nat /\ i - 1 \in DOMAIN Tail(q) /\ Tail(q)[i - 1] = q[i]
  <2>1. i \in Nat /\ i - 1 \in 1 .. Len(q) - 1 /\ (i - 1) + 1 = i
    BY <1>1, <1>4
  <2> QED
    BY <1>1, <2>1
<1> QED
  BY <1>1, <1>2, <1>3, <1>4

\* What the handler of the message h makes of the channel.
Heeds(x, y, h) ==
  /\ y.receivedEof => x.receivedEof \/ h.type = "eof"
  /\ y.remote <=> (x.remote \/ h.type = "confirm")
  /\ y.exited => x.exited \/ h.type = "exitStatus"
  /\ y.reply = x.reply \/ h.type \in {"success", "failure"}

LEMMA OrderedTail ==
  ASSUME NEW x, NEW y, NEW m, NEW v, NEW q \in Seq(Message), q # <<>>,
         Ordered(x, m, v, q), Sent(v), Heeds(x, y, Head(q))
  PROVE  /\ Ordered(y, m, v, Tail(q))
         /\ Confirmed(x, q, Len(q) + 1) => Confirmed(y, Tail(q), Len(Tail(q)) + 1)
<1> DEFINE t == Tail(q)
           h == Head(q)
           k == Len(q)
           l == Len(t)
<1>1. /\ t \in Seq(Message) /\ h \in Message /\ h = q[1] /\ 1 \in DOMAIN q
      /\ k \in Nat /\ l \in Nat /\ k = l + 1
      /\ \A i \in DOMAIN t : i \in Nat \ {0} /\ i + 1 \in DOMAIN q /\ t[i] = q[i + 1]
      /\ \A i \in DOMAIN q : i # 1 => i \in Nat /\ i - 1 \in DOMAIN t /\ t[i - 1] = q[i]
  BY TailMessages
<1>2. Heeds(x, y, h)
  OBVIOUS
<1>3. ASSUME NEW i \in Nat, Confirmed(x, q, i + 1) PROVE Confirmed(y, t, i)
  <2>1. CASE x.remote
    BY <1>2, <2>1 DEF Heeds, Confirmed
  <2>2. CASE \E j \in DOMAIN q : j < i + 1 /\ q[j].type = "confirm"
    <3>1. PICK j \in DOMAIN q : j < i + 1 /\ q[j].type = "confirm"
      BY <2>2
    <3>2. CASE j = 1
      BY <1>1, <1>2, <3>1, <3>2 DEF Heeds, Confirmed
    <3>3. CASE j # 1
      <4>1. j - 1 \in DOMAIN t /\ t[j - 1] = q[j] /\ j \in Nat
        BY <1>1, <3>3
      <4>2. j - 1 < i
        BY <3>1, <4>1
      <4> QED
        BY <3>1, <4>1, <4>2 DEF Confirmed
    <3> QED
      BY <3>2, <3>3
  <2> QED
    BY <1>3, <2>1, <2>2 DEF Confirmed
<1>4. Confirmed(x, q, k + 1) => Confirmed(y, t, l + 1)
  BY <1>1, <1>3
<1>5. k = Len(q) /\ l = Len(t) /\ h.type \in v.sent
  BY <1>1 DEF Ordered
<1> HIDE DEF t, h, k, l
<1>6. ASSUME NEW i \in DOMAIN t
      PROVE  /\ t[i].type \in v.sent
             /\ t[i].type # "data" =>
                  t[i].n = 0 /\ \A j \in DOMAIN t : t[j].type = t[i].type => i = j
             /\ t[i].type \in {"close", "openFailure"} => i = l
             /\ t[i].type = "eof" => ~y.receivedEof /\ \A j \in DOMAIN t : i < j => t[j].type # "data"
             /\ t[i].type = "data" => ~y.receivedEof
             /\ m /\ t[i].type = "confirm" => ~y.remote
             /\ m /\ t[i].type = "exitStatus" => ~y.exited
             /\ m /\ t[i].type \in {"success", "failure"} => y.reply = "pending"
             /\ m /\ t[i].type \notin {"confirm", "openFailure"} => Confirmed(y, t, i)
  <2> DEFINE d == i + 1
  <2>1. i \in Nat \ {0} /\ d \in DOMAIN q /\ t[i] = q[d] /\ d # 1 /\ 1 < d
    BY <1>1, <1>6
  <2>2. d = i + 1
    OBVIOUS
  <2>3. \A j \in DOMAIN t : j \in Nat \ {0} /\ j + 1 \in DOMAIN q /\ t[j] = q[j + 1]
    BY <1>1
  <2> HIDE DEF d
  <2>4. t[i].type \in v.sent /\ (t[i].type # "data" => t[i].n = 0 /\ t[i].type # h.type)
    BY <1>1, <2>1 DEF Ordered
  <2>5. ASSUME t[i].type # "data", NEW j \in DOMAIN t, t[j].type = t[i].type PROVE i = j
    <3>1. d = j + 1
      BY <2>1, <2>3, <2>5 DEF Ordered
    <3> QED
      BY <2>1, <2>2, <2>3, <3>1
  <2>6. t[i].type \in {"close", "openFailure"} => i = l
    <3>1. t[i].type \in {"close", "openFailure"} => d = k
      BY <1>5, <2>1 DEF Ordered
    <3> QED
      BY <1>1, <2>1, <2>2, <3>1
  <2>7. ASSUME t[i].type = "eof", NEW j \in DOMAIN t, i < j PROVE t[j].type # "data"
    <3>1. d < j + 1
      BY <2>1, <2>2, <2>3, <2>7
    <3> QED
      BY <2>1, <2>3, <2>7, <3>1 DEF Ordered
  <2>8. t[i].type \in {"eof", "data"} => ~x.receivedEof
    BY <2>1 DEF Ordered
  <2>9. t[i].type = "data" => h.type # "eof"
    <3>1. q[1].type = "eof" => \A j \in DOMAIN q : 1 < j => q[j].type # "data"
      BY <1>1 DEF Ordered
    <3> QED
      BY <1>1, <2>1, <3>1
  <2>10. t[i].type \in {"eof", "data"} => ~y.receivedEof
    BY <1>2, <2>4, <2>8, <2>9 DEF Heeds
  <2>11. m /\ t[i].type = "confirm" => ~y.remote
    BY <1>2, <2>1, <2>4 DEF Heeds, Ordered
  <2>12. m /\ t[i].type = "exitStatus" => ~y.exited
    BY <1>2, <2>1, <2>4 DEF Heeds, Ordered
  <2>13. m /\ t[i].type \in {"success", "failure"} => y.reply = "pending"
    BY <1>2, <1>5, <2>1, <2>4 DEF Heeds, Ordered, Sent
  <2>14. m /\ t[i].type \notin {"confirm", "openFailure"} => Confirmed(y, t, i)
    <3>1. m /\ t[i].type \notin {"confirm", "openFailure"} => Confirmed(x, q, d)
      BY <2>1 DEF Ordered
    <3> QED
      BY <1>3, <2>1, <2>2, <3>1
  <2> QED
    BY <2>4, <2>5, <2>6, <2>7, <2>10, <2>11, <2>12, <2>13, <2>14
<1>7. Ordered(y, m, v, t)
  BY <1>5, <1>6 DEF Ordered
<1> QED
  BY <1>4, <1>7 DEF t, k, l

\* Only data carry bytes.
LEMMA SameTotal ==
  ASSUME NEW x, NEW m, NEW v, NEW q \in Seq(Message), q # <<>>, Ordered(x, m, v, q), Head(q).type # "data"
  PROVE  Total(Tail(q)) = Total(q)
<1>1. Head(q) = q[1] /\ 1 \in DOMAIN q
  BY TailMessages
<1>2. Head(q).n = 0
  BY <1>1 DEF Ordered
<1>3. Total(q) = Head(q).n + Total(Tail(q)) /\ Total(Tail(q)) \in Nat
  BY TotalTail
<1> QED
  BY <1>2, <1>3

\* The parts that a message and its handler leave alone.
LEMMA TakenWire ==
  ASSUME NEW x, NEW y, NEW m, NEW l, NEW r, NEW n, NEW f, NEW w, NEW v, NEW q,
         OnWire(x, m, l, r, n, f, w, v, q), q # <<>>, Heeds(x, y, Head(q))
  PROVE  /\ Ordered(y, m, v, Tail(q)) /\ Sent(v)
         /\ m /\ "confirm" \in v.sent => Confirmed(y, Tail(q), Len(Tail(q)) + 1)
         /\ Tail(q) \in Seq(Message) /\ Head(q).type \in v.sent
         /\ \A i \in DOMAIN Tail(q) : Tail(q)[i].type # "global"
<1>1. Typed(x, m, l, r, n, f, w, v, q) /\ Answered(x, m, l, v, q) /\ q \in Seq(Message)
  BY DEF OnWire, Typed
<1>2. Ordered(x, m, v, q) /\ Sent(v) /\ (m /\ "confirm" \in v.sent => Confirmed(x, q, Len(q) + 1))
  BY <1>1 DEF Answered
<1>3. /\ Ordered(y, m, v, Tail(q))
      /\ Confirmed(x, q, Len(q) + 1) => Confirmed(y, Tail(q), Len(Tail(q)) + 1)
  BY <1>1, <1>2, OrderedTail
<1>4. /\ Tail(q) \in Seq(Message) /\ Head(q) = q[1] /\ 1 \in DOMAIN q
      /\ \A i \in DOMAIN Tail(q) : i + 1 \in DOMAIN q /\ Tail(q)[i] = q[i + 1]
  BY <1>1, TailMessages
<1>5. Head(q).type \in v.sent
  BY <1>2, <1>4 DEF Ordered
<1>6. \A i \in DOMAIN Tail(q) : Tail(q)[i].type # "global"
  BY <1>1, <1>4 DEF Typed
<1> QED
  BY <1>2, <1>3, <1>4, <1>5, <1>6

\* A message is last, so none is left behind it.
LEMMA LastMessage ==
  ASSUME NEW x, NEW m, NEW v, NEW q \in Seq(Message), q # <<>>, Ordered(x, m, v, q),
         Head(q).type \in {"close", "openFailure"}
  PROVE  Tail(q) = <<>>
<1>1. Head(q) = q[1] /\ 1 \in DOMAIN q
  BY TailMessages
<1>2. 1 = Len(q)
  BY <1>1 DEF Ordered
<1> QED
  BY <1>2, SMTT(60)

\* EOF, an exit status, and the reply that #begin waits for.
Tells(x, y, h) ==
  \/ h.type = "eof" /\ y = [x EXCEPT !.receivedEof = TRUE]
  \/ h.type = "exitStatus" /\ y = [x EXCEPT !.exited = TRUE]
  \/ h.type = "success" /\ x.reply = "pending" /\ y = [x EXCEPT !.reply = "resolved"]
  \/ h.type = "failure" /\ x.reply = "pending" /\ y = [x EXCEPT !.reply = "rejected"]

LEMMA TellWire ==
  ASSUME NEW x, NEW y, NEW m, NEW l, NEW r, NEW n, NEW f, NEW w, NEW v, NEW q,
         OnWire(x, m, l, r, n, f, w, v, q), m, l, q # <<>>, Tells(x, y, Head(q))
  PROVE  OnWire(y, m, l, r, n, f, w, v, Tail(q))
<1> DEFINE h == Head(q)
           t == Tail(q)
<1>1. /\ Typed(x, m, l, r, n, f, w, v, q) /\ Begun(x, w, v) /\ Queued(x, r, n, f, w, v)
      /\ InOrder(x, v) /\ Flagged(x, m, l, r, w, v) /\ Answered(x, m, l, v, q)
      /\ Counted(x, m, r, n, f, w, v, q)
      /\ x \in ChannelState /\ q \in Seq(Message)
  BY DEF OnWire, Typed
<1>2. /\ y \in ChannelState /\ y.begin = x.begin /\ y.opened = x.opened /\ y.result = x.result
      /\ y.remote = x.remote /\ y.closing = x.closing
      /\ y.sentClose = x.sentClose /\ y.receivedClose = x.receivedClose
      /\ y.cancelled = x.cancelled /\ y.output = x.output /\ y.window = x.window
      /\ h.type \in {"eof", "exitStatus", "success", "failure"}
      /\ y.receivedEof = (x.receivedEof \/ h.type = "eof")
      /\ y.exited = (x.exited \/ h.type = "exitStatus")
      /\ y.reply = IF h.type = "success" THEN "resolved" ELSE IF h.type = "failure" THEN "rejected" ELSE x.reply
      /\ h.type \in {"success", "failure"} => x.reply = "pending"
  BY <1>1 DEF Tells, ChannelState, Promise
<1>3. Heeds(x, y, h)
  BY <1>1, <1>2 DEF Heeds, ChannelState
<1>4. /\ Ordered(y, m, v, t) /\ Sent(v) /\ ("confirm" \in v.sent => Confirmed(y, t, Len(t) + 1))
      /\ t \in Seq(Message) /\ h.type \in v.sent /\ \A i \in DOMAIN t : t[i].type # "global"
  BY <1>2, <1>3, TakenWire
<1>5. Total(t) = Total(q)
  BY <1>1, <1>2, SameTotal DEF Answered
<1>6. ~x.receivedClose
  BY <1>1 DEF Answered
<1> HIDE DEF h, t
<1>7. Typed(y, m, l, r, n, f, w, v, t)
  BY <1>1, <1>2, <1>4 DEF Typed
<1>8. Begun(y, w, v)
  <2>1. x.begin # "none"
    BY <1>1 DEF Typed
  <2>2. y.reply = "none" <=> x.reply = "none"
    BY <1>2
  <2>3. y.reply = "resolved" => "success" \in v.sent
    BY <1>1, <1>2, <1>4 DEF Begun
  <2> QED
    BY <1>1, <1>2, <2>1, <2>2, <2>3 DEF Begun
<1>9. Queued(y, r, n, f, w, v)
  BY <1>1, <1>2, QueuedKept
<1>10. InOrder(y, v)
  BY <1>1, <1>2 DEF InOrder
<1>11. Flagged(y, m, l, r, w, v)
  BY <1>1, <1>2, <1>4 DEF Flagged
<1>12. Answered(y, m, l, v, t)
  <2>1. y.reply \in {"resolved", "rejected"} => v.sent \cap {"success", "failure"} # {}
    BY <1>1, <1>2, <1>4 DEF Answered
  <2> QED
    BY <1>2, <1>4, <1>6, <2>1 DEF Answered
<1>13. Counted(y, m, r, n, f, w, v, t)
  BY <1>1, <1>2, <1>5 DEF Counted
<1> QED
  BY <1>7, <1>8, <1>9, <1>10, <1>11, <1>12, <1>13 DEF OnWire, h, t

\* The open is confirmed; a channel that is closing sends CLOSE at last.
Confirms(x, y) ==
  y = [x EXCEPT !.remote = TRUE, !.opened = Settle(@, "resolved"), !.sentClose = @ \/ x.closing]

LEMMA ConfirmWire ==
  ASSUME NEW x, NEW y, NEW m, NEW l, NEW r, NEW n, NEW f, NEW w, NEW v, NEW q,
         OnWire(x, m, l, r, n, f, w, v, q), m, l, q # <<>>, Head(q).type = "confirm",
         Confirms(x, y), NEW p \in Packet, p.type = "CLOSE", p.n = 0, p.by = "reader", NEW u,
         x.closing /\ ~x.sentClose => u = Append(w, p),
         ~(x.closing /\ ~x.sentClose) => u = w
  PROVE  OnWire(y, m, l, r, n, f, u, v, Tail(q))
<1> DEFINE h == Head(q)
           t == Tail(q)
           o == Settle(x.opened, "resolved")
<1>1. /\ Typed(x, m, l, r, n, f, w, v, q) /\ Begun(x, w, v) /\ Queued(x, r, n, f, w, v)
      /\ InOrder(x, v) /\ Flagged(x, m, l, r, w, v) /\ Answered(x, m, l, v, q)
      /\ Counted(x, m, r, n, f, w, v, q)
      /\ x \in ChannelState /\ q \in Seq(Message)
      /\ w \in Seq(Packet) /\ f \in BOOLEAN /\ (f => w # <<>>)
  BY DEF OnWire, Typed
<1>2. o \in Promise /\ (o = "none" <=> x.opened = "none")
  BY <1>1 DEF Settle, ChannelState, Promise
<1> HIDE DEF o
<1>3. y = [x EXCEPT !.remote = TRUE, !.opened = o, !.sentClose = x.sentClose \/ x.closing]
  BY DEF o, Confirms
<1>4. /\ y \in ChannelState /\ y.begin = x.begin /\ y.opened = o /\ y.result = x.result
      /\ y.remote /\ y.closing = x.closing
      /\ y.sentClose = (x.sentClose \/ x.closing) /\ y.receivedClose = x.receivedClose
      /\ y.cancelled = x.cancelled /\ y.output = x.output /\ y.window = x.window
      /\ y.receivedEof = x.receivedEof /\ y.exited = x.exited /\ y.reply = x.reply
  BY <1>1, <1>2, <1>3 DEF ChannelState
<1>5. Heeds(x, y, h)
  BY <1>1, <1>4 DEF Heeds, ChannelState
<1>6. /\ Ordered(y, m, v, t) /\ Sent(v) /\ ("confirm" \in v.sent => Confirmed(y, t, Len(t) + 1))
      /\ t \in Seq(Message) /\ h.type \in v.sent /\ \A i \in DOMAIN t : t[i].type # "global"
  BY <1>4, <1>5, TakenWire
<1>7. Total(t) = Total(q)
  BY <1>1, SameTotal DEF Answered
<1>8. ~x.receivedClose
  BY <1>1 DEF Answered
<1>9. "confirm" \in v.sent /\ Got(v, "OPEN")
  BY <1>6 DEF Sent
<1>9a. ~x.remote /\ ~x.sentClose
  <2>1. h = q[1] /\ 1 \in DOMAIN q
    BY <1>1, TailMessages
  <2> QED
    BY <1>1, <2>1 DEF Answered, Ordered, Flagged
<1> HIDE DEF h, t
<1>10. x.begin # "none"
  BY <1>1 DEF Typed
<1>11. CASE ~x.closing
  <2>1. u = w /\ ~y.sentClose
    BY <1>4, <1>9a, <1>11
  <2>2. Typed(y, m, l, r, n, f, w, v, t)
    BY <1>1, <1>4, <1>6 DEF Typed
  <2>3. Begun(y, w, v)
    BY <1>1, <1>2, <1>4, <1>9, <1>10 DEF Begun
  <2>4. Queued(y, r, n, f, w, v)
    BY <1>1, <1>4, QueuedKept
  <2>5. InOrder(y, v)
    BY <1>1, <1>4 DEF InOrder
  <2>6. Flagged(y, m, l, r, w, v)
    BY <1>1, <1>4, <1>9, <1>9a, <2>1 DEF Flagged
  <2>7. Answered(y, m, l, v, t)
    BY <1>1, <1>4, <1>6, <1>8 DEF Answered
  <2>8. Counted(y, m, r, n, f, w, v, t)
    BY <1>1, <1>4, <1>7 DEF Counted
  <2> QED
    BY <2>1, <2>2, <2>3, <2>4, <2>5, <2>6, <2>7, <2>8 DEF OnWire, t
<1>12. CASE x.closing
  <2>1. u = Append(w, p) /\ y.sentClose
    BY <1>4, <1>9a, <1>12
  <2>2. Extends(w, p, u, Len(w) + 1) /\ u \in Seq(Packet) /\ u # <<>>
    BY <1>1, <2>1, Extended
  <2>3. \A i \in DOMAIN u : (\E j \in DOMAIN w : u[i] = w[j]) \/ u[i] = p
    BY <2>2 DEF Extends
  <2>4. Typed(y, m, l, r, n, f, u, v, t)
    <3>1. \A i \in DOMAIN u : u[i].type # "REQUEST_FAILURE"
      BY <1>1, <2>3 DEF Typed
    <3> QED
      BY <1>1, <1>4, <1>6, <2>2, <3>1 DEF Typed
  <2>5. Begun(y, u, v)
    BY <1>1, <1>2, <1>4, <1>9, <1>10, <2>3 DEF Begun
  <2>6. Fresh(y, w, v, p)
    <3>1. ~Got(v, "CLOSE") /\ ~Has(w, "CLOSE")
      BY <1>1, <1>9a DEF InOrder, Queued, Has
    <3> QED
      BY <1>4, <2>1, <3>1 DEF Fresh
  <2>7. Queued(y, r, n, f, u, v)
    <3>1. Queued(x, r, n, f, w, v) /\ w \in Seq(Packet) /\ f \in BOOLEAN /\ (f => w # <<>>)
      BY <1>1
    <3>2. y.remote /\ y.sentClose
      BY <1>4, <2>1
    <3>3. Queued(y, r, n, f, Append(w, p), v)
      BY <2>6, <3>1, <3>2, QueuedPut
    <3> QED
      BY <2>1, <3>3
  <2>8. InOrder(y, v)
    BY <1>1, <1>4 DEF InOrder
  <2>9. Closed(u, v)
    BY <1>1, <2>1, LongerQueue DEF Closed
  <2>10. Flagged(y, m, l, r, u, v)
    BY <1>1, <1>4, <1>8, <1>9, <1>12, <2>9 DEF Flagged
  <2>11. Answered(y, m, l, v, t)
    BY <1>1, <1>4, <1>6, <1>8 DEF Answered
  <2>12. Counted(y, m, r, n, f, u, v, t)
    <3>1. Held(r, n, f, u) = Held(r, n, f, w)
      BY <1>1, <2>1, HeldAppend
    <3> QED
      BY <1>1, <1>4, <1>7, <3>1 DEF Counted
  <2> QED
    BY <2>4, <2>5, <2>7, <2>8, <2>10, <2>11, <2>12 DEF OnWire, t
<1> QED
  BY <1>11, <1>12

\* The open is refused.
Refuses(x, y) == y = [Rejected(x) EXCEPT !.opened = Settle(@, "rejected")]

LEMMA RefuseWire ==
  ASSUME NEW x, NEW y, NEW m, NEW l, NEW r, NEW n, NEW f, NEW w, NEW v, NEW q,
         OnWire(x, m, l, r, n, f, w, v, q), m, q # <<>>, Head(q).type = "openFailure", Refuses(x, y)
  PROVE  OnWire(y, FALSE, l, r, n, f, w, v, Tail(q))
<1> y = [Rejected(x) EXCEPT !.opened = Settle(@, "rejected")]
  BY DEF Refuses
<1> DEFINE h == Head(q)
           t == Tail(q)
           o == Settle(x.opened, "rejected")
           e == Settle(x.result, "rejected")
<1>1. /\ Typed(x, m, l, r, n, f, w, v, q) /\ Begun(x, w, v) /\ Queued(x, r, n, f, w, v)
      /\ InOrder(x, v) /\ Flagged(x, m, l, r, w, v) /\ Answered(x, m, l, v, q)
      /\ Counted(x, m, r, n, f, w, v, q)
      /\ x \in ChannelState /\ q \in Seq(Message)
  BY DEF OnWire, Typed
<1>2. /\ o \in Promise /\ (o = "none" <=> x.opened = "none") /\ (o = "resolved" <=> x.opened = "resolved")
      /\ e \in Promise /\ e # "pending" /\ (e = "resolved" <=> x.result = "resolved")
  BY <1>1 DEF Settle, ChannelState, Promise
<1>3. Rejected(x) = [x EXCEPT !.result = e]
  BY DEF Rejected
<1>3a. Rejected(x).opened = x.opened
  BY <1>1, <1>3 DEF ChannelState
<1>3b. y = [x EXCEPT !.result = e, !.opened = o]
  BY <1>3, <1>3a
<1> HIDE DEF o, e
<1>4. /\ y \in ChannelState /\ y.begin = x.begin /\ y.opened = o /\ y.result = e
      /\ y.remote = x.remote /\ y.closing = x.closing
      /\ y.sentClose = x.sentClose /\ y.receivedClose = x.receivedClose
      /\ y.cancelled = x.cancelled /\ y.output = x.output /\ y.window = x.window
      /\ y.receivedEof = x.receivedEof /\ y.exited = x.exited /\ y.reply = x.reply
  BY <1>1, <1>2, <1>3b DEF ChannelState
<1>5. Heeds(x, y, h)
  BY <1>1, <1>4 DEF Heeds, ChannelState
<1>6. /\ Ordered(y, m, v, t) /\ Sent(v)
      /\ t \in Seq(Message) /\ h.type \in v.sent /\ \A i \in DOMAIN t : t[i].type # "global"
  BY <1>4, <1>5, TakenWire, ZenonT(60)
<1>7. t = <<>>
  BY <1>1, LastMessage DEF Answered
<1>8. "openFailure" \in v.sent
  BY <1>6
<1> HIDE DEF h, t
<1>9. x.begin # "none"
  BY <1>1 DEF Typed
<1>10. Typed(y, FALSE, l, r, n, f, w, v, t)
  BY <1>1, <1>2, <1>4, <1>6 DEF Typed
<1>11. Begun(y, w, v)
  BY <1>1, <1>2, <1>4, <1>9 DEF Begun
<1>12. Queued(y, r, n, f, w, v)
  BY <1>1, <1>4, QueuedKept
<1>13. InOrder(y, v)
  BY <1>1, <1>4 DEF InOrder
<1>14. Flagged(y, FALSE, l, r, w, v)
  BY <1>1, <1>2, <1>4, <1>8 DEF Flagged
<1>15. Answered(y, FALSE, l, v, t)
  BY <1>4, <1>6, <1>7 DEF Answered, Ordered
<1>16. Counted(y, FALSE, r, n, f, w, v, t)
  BY <1>1, <1>2, <1>4 DEF Counted
<1> QED
  BY <1>10, <1>11, <1>12, <1>13, <1>14, <1>15, <1>16 DEF OnWire, t

\* The fields that data do not touch.
Holds(x, y) ==
  /\ y \in ChannelState /\ y.begin = x.begin /\ y.opened = x.opened /\ y.result = x.result
  /\ y.remote = x.remote /\ y.closing = x.closing
  /\ y.sentClose = x.sentClose /\ y.receivedClose = x.receivedClose
  /\ y.cancelled = x.cancelled /\ y.receivedEof = x.receivedEof /\ y.exited = x.exited
  /\ y.reply = x.reply

\* Data that need no credit: none, as a message with bytes has a remote channel.
Counted0(x, y, h) ==
  /\ x.window - h.n \in Nat /\ y = [x EXCEPT !.window = @ - h.n, !.output = @ + h.n]

LEMMA DataParts ==
  ASSUME NEW x, NEW m, NEW l, NEW r, NEW n, NEW f, NEW w, NEW v, NEW q,
         OnWire(x, m, l, r, n, f, w, v, q), l, q # <<>>, Head(q).type = "data"
  PROVE  /\ x \in ChannelState /\ Head(q).n \in Nat /\ Total(Tail(q)) \in Nat
         /\ Total(q) = Head(q).n + Total(Tail(q)) /\ v.window \in Nat /\ v.bytes \in Nat
         /\ "success" \in v.sent /\ Got(v, "EXEC") /\ Got(v, "OPEN") /\ x.remote
         /\ ~x.receivedClose /\ x.begin # "none"
<1>1. /\ Typed(x, m, l, r, n, f, w, v, q) /\ Begun(x, w, v) /\ InOrder(x, v) /\ Answered(x, m, l, v, q)
      /\ x \in ChannelState /\ q \in Seq(Message) /\ v \in ServerState
  BY DEF OnWire, Typed
<1>2. Head(q) = q[1] /\ 1 \in DOMAIN q
  BY <1>1, TailMessages
<1>3. "success" \in v.sent
  BY <1>1, <1>2 DEF Answered, Ordered, Sent
<1>4. Got(v, "EXEC")
  BY <1>1, <1>3 DEF Answered, Sent
<1>5. PICK i \in DOMAIN v.got : v.got[i] = "EXEC"
  BY <1>4 DEF Got
<1>6. 1 \in DOMAIN v.got
  <2>1. v.got \in Seq(ClientType)
    BY <1>1 DEF ServerState
  <2> QED
    BY <1>5, <2>1
<1>7. Got(v, "OPEN") /\ x.remote
  BY <1>1, <1>5, <1>6 DEF InOrder, Got
<1>8. ~x.receivedClose
  BY <1>1 DEF Answered
<1>9. x.begin # "none"
  <2>1. x.begin = "none" => v.got = <<>>
    BY <1>1 DEF Begun
  <2> QED
    BY <1>6, <2>1
<1>10. v.window \in Nat /\ v.bytes \in Nat
  BY <1>1 DEF ServerState
<1> QED
  BY <1>1, <1>3, <1>4, <1>7, <1>8, <1>9, <1>10, TotalTail

LEMMA DataWire ==
  ASSUME NEW x, NEW y, NEW m, NEW l, NEW n, NEW f, NEW w, NEW v, NEW q,
         OnWire(x, m, l, "no", n, f, w, v, q), l, q # <<>>, Head(q).type = "data", Counted0(x, y, Head(q))
  PROVE  OnWire(y, m, l, "no", n, f, w, v, Tail(q))
<1> DEFINE h == Head(q)
           t == Tail(q)
           a == x.window - h.n
           b == x.output + h.n
           s == Total(t)
<1>1. /\ Typed(x, m, l, "no", n, f, w, v, q) /\ Begun(x, w, v) /\ Queued(x, "no", n, f, w, v)
      /\ InOrder(x, v) /\ Flagged(x, m, l, "no", w, v) /\ Answered(x, m, l, v, q)
      /\ Counted(x, m, "no", n, f, w, v, q)
      /\ x \in ChannelState /\ q \in Seq(Message)
  BY DEF OnWire, Typed
<1>2. /\ h.n \in Nat /\ s \in Nat /\ Total(q) = h.n + s /\ v.window \in Nat /\ v.bytes \in Nat
      /\ Got(v, "OPEN") /\ ~x.receivedClose /\ x.begin # "none" /\ h.type = "data"
  BY DataParts
<1>3. x.window \in Nat /\ x.output \in Nat
  BY <1>1 DEF ChannelState
<1>4. a \in Nat /\ b \in Nat /\ a + h.n = x.window /\ b = x.output + h.n
  BY <1>2, <1>3 DEF Counted0
<1> HIDE DEF s
<1>5. y = [x EXCEPT !.window = a, !.output = b]
  BY DEF Counted0
<1> HIDE DEF a, b
<1>6. Holds(x, y) /\ y.window = a /\ y.output = b
  BY <1>1, <1>4, <1>5 DEF Holds, ChannelState
<1>7. Heeds(x, y, h)
  BY <1>2, <1>6 DEF Heeds, Holds, ChannelState
<1>8. /\ Ordered(y, m, v, t) /\ Sent(v) /\ (m /\ "confirm" \in v.sent => Confirmed(y, t, Len(t) + 1))
      /\ t \in Seq(Message) /\ \A i \in DOMAIN t : t[i].type # "global"
  BY <1>7, TakenWire
<1> HIDE DEF h, t
<1>9. Typed(y, m, l, "no", n, f, w, v, t)
  BY <1>1, <1>6, <1>8 DEF Typed, Holds
<1>10. Begun(y, w, v)
  BY <1>1, <1>2, <1>6 DEF Begun, Holds
<1>11. Queued(y, "no", n, f, w, v)
  BY <1>1, <1>6, QueuedKept DEF Holds
<1>12. InOrder(y, v)
  BY <1>1, <1>6 DEF InOrder, Holds
<1>13. Flagged(y, m, l, "no", w, v)
  BY <1>1, <1>6 DEF Flagged, Holds
<1>14. Answered(y, m, l, v, t)
  <2>1. l => m
    <3>1. q # <<>>
      OBVIOUS
    <3> QED
      BY <1>1, <3>1 DEF Answered
  <2> QED
    BY <1>1, <1>2, <1>6, <1>8, <2>1 DEF Answered, Holds
<1>15. Counted(y, m, "no", n, f, w, v, t)
  <2>1. Held("no", n, f, w) = 0 /\ Kept("no", n) = 0
    BY DEF Held, Kept
  <2>2. m /\ ~x.closing => x.window + 0 = v.window + (h.n + s)
    BY <1>1, <1>2, <2>1 DEF Counted
  <2>3. x.result = "pending" => x.output + 0 + (h.n + s) = v.bytes
    BY <1>1, <1>2, <2>1 DEF Counted
  <2>4. m /\ ~y.closing => y.window + 0 = v.window + s
    BY <1>2, <1>3, <1>4, <1>6, <2>2, SMTT(60) DEF Holds
  <2>5. y.result = "pending" => y.output + 0 + s = v.bytes
    BY <1>2, <1>3, <1>4, <1>6, <2>3 DEF Holds
  <2>6. y.result # "resolved"
    <3>1. q # <<>> /\ l
      OBVIOUS
    <3> QED
      BY <1>1, <1>6, <3>1 DEF Answered, Counted, Holds
  <2> QED
    BY <1>2, <2>1, <2>4, <2>5, <2>6 DEF Counted, s
<1> QED
  BY <1>9, <1>10, <1>11, <1>12, <1>13, <1>14, <1>15 DEF OnWire, t

\* Data whose bytes are credited with an ADJUST, which the read loop waits for.
Counted1(x, y, h) ==
  /\ x.window - h.n \in Nat /\ y = [x EXCEPT !.window = @ - h.n]

LEMMA CreditedWire ==
  ASSUME NEW x, NEW y, NEW m, NEW l, NEW n, NEW f, NEW w, NEW v, NEW q,
         OnWire(x, m, l, "no", n, f, w, v, q), l, q # <<>>, Head(q).type = "data", Counted1(x, y, Head(q)),
         ~x.closing, NEW p \in Packet, p.type = "ADJUST", p.by = "reader", p.n = Head(q).n
  PROVE  OnWire(y, m, l, "adjust", Head(q).n, f, Append(w, p), v, Tail(q))
<1> DEFINE h == Head(q)
           t == Tail(q)
           u == Append(w, p)
           a == x.window - h.n
           s == Total(t)
<1>1. /\ Typed(x, m, l, "no", n, f, w, v, q) /\ Begun(x, w, v) /\ Queued(x, "no", n, f, w, v)
      /\ InOrder(x, v) /\ Flagged(x, m, l, "no", w, v) /\ Answered(x, m, l, v, q)
      /\ Counted(x, m, "no", n, f, w, v, q)
      /\ x \in ChannelState /\ q \in Seq(Message) /\ w \in Seq(Packet) /\ n \in Nat
      /\ f \in BOOLEAN /\ (f => w # <<>>)
  BY DEF OnWire, Typed
<1>2. /\ h.n \in Nat /\ s \in Nat /\ Total(q) = h.n + s /\ v.window \in Nat /\ v.bytes \in Nat
      /\ Got(v, "OPEN") /\ Got(v, "EXEC") /\ x.remote /\ ~x.receivedClose /\ x.begin # "none" /\ h.type = "data"
  BY DataParts
<1>3. x.window \in Nat /\ x.output \in Nat
  BY <1>1 DEF ChannelState
<1>4. a \in Nat /\ a + h.n = x.window
  BY <1>2, <1>3 DEF Counted1
<1> HIDE DEF s
<1>5. y = [x EXCEPT !.window = a]
  BY DEF Counted1
<1> HIDE DEF a
<1>6. Holds(x, y) /\ y.window = a /\ y.output = x.output
  BY <1>1, <1>4, <1>5 DEF Holds, ChannelState
<1>7. Heeds(x, y, h)
  BY <1>2, <1>6 DEF Heeds, Holds, ChannelState
<1>8. /\ Ordered(y, m, v, t) /\ Sent(v) /\ (m /\ "confirm" \in v.sent => Confirmed(y, t, Len(t) + 1))
      /\ t \in Seq(Message) /\ \A i \in DOMAIN t : t[i].type # "global"
  BY <1>7, TakenWire
<1>8a. Extends(w, p, u, Len(w) + 1) /\ u \in Seq(Packet) /\ u # <<>>
  BY <1>1, Extended
<1>8b. f => Head(u) = Head(w)
  BY <1>1, RestExtended
<1>8c. \A v1 : Closed(w, v1) => Closed(u, v1)
  BY <1>1, LongerQueue
<1>8d. p.n = h.n /\ l /\ ~x.closing /\ q # <<>>
  OBVIOUS
<1> HIDE DEF h, t, u
<1>8e. \A i \in DOMAIN u : (\E j \in DOMAIN w : u[i] = w[j]) \/ u[i] = p
  BY <1>8a DEF Extends
<1>8f. ~x.sentClose
  BY <1>1, <1>2, <1>8d DEF Flagged
<1>9. Typed(y, m, l, "adjust", h.n, f, u, v, t)
  <2>1. \A i \in DOMAIN u : u[i].type # "REQUEST_FAILURE"
    BY <1>1, <1>8e DEF Typed
  <2> QED
    BY <1>1, <1>2, <1>6, <1>8, <1>8a, <2>1 DEF Typed, Holds
<1>10. Begun(y, u, v)
  BY <1>1, <1>2, <1>6, <1>8e DEF Begun, Holds
<1>11. Queued(y, "adjust", h.n, f, u, v)
  <2>1. ~Got(v, "CLOSE") /\ ~Has(w, "CLOSE")
    BY <1>1, <1>8f DEF InOrder, Queued, Has
  <2>2. y.remote /\ y.sentClose = x.sentClose
    BY <1>2, <1>6 DEF Holds
  <2> QED
    BY <1>1, <1>2, <1>8d, <2>1, <2>2, QueuedAdjust DEF u
<1>12. InOrder(y, v)
  BY <1>1, <1>6 DEF InOrder, Holds
<1>13. Flagged(y, m, l, "adjust", u, v)
  BY <1>1, <1>2, <1>6, <1>8c, <1>8f DEF Flagged, Holds
<1>14. Answered(y, m, l, v, t)
  <2>1. m
    BY <1>1, <1>8d DEF Answered
  <2> QED
    BY <1>1, <1>2, <1>6, <1>8, <2>1 DEF Answered, Holds
<1>15. Counted(y, m, "adjust", h.n, f, u, v, t)
  <2>1. Held("no", n, f, w) = 0 /\ Kept("no", n) = 0 /\ Kept("adjust", h.n) = h.n
    BY DEF Held, Kept
  <2>1a. Held("adjust", h.n, f, u) = 0
    <3>1. ~(f /\ Head(w).type = "ADJUST")
      <4>1. f => Head(w) = w[1] /\ 1 \in DOMAIN w
        BY <1>1, TailIn
      <4> QED
        BY <1>1, <4>1 DEF Queued
    <3> QED
      BY <1>8b, <3>1 DEF Held
  <2>2. m /\ ~x.closing => x.window + 0 = v.window + (h.n + s)
    BY <1>1, <1>2, <2>1 DEF Counted
  <2>3. x.result = "pending" => x.output + 0 + (h.n + s) = v.bytes
    BY <1>1, <1>2, <2>1 DEF Counted
  <2>4. m /\ ~y.closing => y.window + 0 = v.window + s
    BY <1>2, <1>3, <1>4, <1>6, <2>2, SMTT(60) DEF Holds
  <2>5. y.result = "pending" => y.output + h.n + s = v.bytes
    BY <1>2, <1>3, <1>4, <1>6, <2>3 DEF Holds
  <2>6. y.result # "resolved"
    BY <1>1, <1>6, <1>8d DEF Answered, Counted, Holds
  <2> QED
    BY <1>2, <2>1, <2>1a, <2>4, <2>5, <2>6 DEF Counted, s
<1> QED
  BY <1>9, <1>10, <1>11, <1>12, <1>13, <1>14, <1>15 DEF OnWire, t, h, u

\* Data over the limit, once the channel has been closed for it.
LEMMA OverWire ==
  ASSUME NEW x, NEW m, NEW l, NEW r, NEW n, NEW f, NEW w, NEW v, NEW q,
         OnWire(x, m, l, r, n, f, w, v, q), l, q # <<>>, Head(q).type = "data",
         x.closing, x.result # "pending"
  PROVE  OnWire(x, m, l, r, n, f, w, v, Tail(q))
<1> DEFINE t == Tail(q)
<1>1. /\ Typed(x, m, l, r, n, f, w, v, q) /\ Begun(x, w, v) /\ Queued(x, r, n, f, w, v)
      /\ InOrder(x, v) /\ Flagged(x, m, l, r, w, v) /\ Answered(x, m, l, v, q)
      /\ Counted(x, m, r, n, f, w, v, q) /\ x \in ChannelState
  BY DEF OnWire, Typed
<1>2. Heeds(x, x, Head(q))
  BY <1>1 DEF Heeds, ChannelState
<1>3. /\ Ordered(x, m, v, t) /\ Sent(v) /\ (m /\ "confirm" \in v.sent => Confirmed(x, t, Len(t) + 1))
      /\ t \in Seq(Message) /\ \A i \in DOMAIN t : t[i].type # "global"
  BY <1>2, TakenWire
<1>4. q # <<>> /\ l
  OBVIOUS
<1> HIDE DEF t
<1>5. m /\ ~x.receivedClose
  BY <1>1, <1>4 DEF Answered
<1>6. Typed(x, m, l, r, n, f, w, v, t)
  BY <1>1, <1>3 DEF Typed
<1>7. Answered(x, m, l, v, t)
  BY <1>1, <1>3, <1>5 DEF Answered
<1>8. Counted(x, m, r, n, f, w, v, t)
  BY <1>1 DEF Counted
<1> QED
  BY <1>1, <1>6, <1>7, <1>8 DEF OnWire, t

\* The server closes the channel; CLOSE answers it when none was sent before.
Closes(x, y) == y = [x EXCEPT !.receivedClose = TRUE, !.sentClose = @ \/ x.remote]

LEMMA CloseWire ==
  ASSUME NEW x, NEW y, NEW m, NEW l, NEW n, NEW f, NEW w, NEW v, NEW q,
         OnWire(x, m, l, "no", n, f, w, v, q), l, q # <<>>, Head(q).type = "close", Closes(x, y),
         NEW p \in Packet, p.type = "CLOSE", p.n = 0, p.by = "reader", NEW u,
         MustSendClose(x) => u = Append(w, p), ~MustSendClose(x) => u = w
  PROVE  /\ OnWire(y, m, l, "close", 0, f, u, v, Tail(q))
         /\ ~MustSendClose(x) => y.result # "pending"
<1> DEFINE h == Head(q)
           t == Tail(q)
<1>1. /\ Typed(x, m, l, "no", n, f, w, v, q) /\ Begun(x, w, v) /\ Queued(x, "no", n, f, w, v)
      /\ InOrder(x, v) /\ Flagged(x, m, l, "no", w, v) /\ Answered(x, m, l, v, q)
      /\ Counted(x, m, "no", n, f, w, v, q)
      /\ x \in ChannelState /\ q \in Seq(Message) /\ w \in Seq(Packet)
      /\ f \in BOOLEAN /\ (f => w # <<>>)
  BY DEF OnWire, Typed
<1>2. h = q[1] /\ 1 \in DOMAIN q
  BY <1>1, TailMessages
<1>3. m
  <2>1. l /\ q # <<>>
    OBVIOUS
  <2> QED
    BY <1>1, <2>1 DEF Answered
<1>4. x.remote
  <2>1. Confirmed(x, q, 1)
    BY <1>1, <1>2, <1>3 DEF Answered, Ordered
  <2>2. DOMAIN q \subseteq Nat \ {0}
    BY <1>1
  <2>3. \A j \in DOMAIN q : ~(j < 1)
    BY <2>2
  <2> QED
    BY <2>1, <2>3 DEF Confirmed
<1>5. y = [x EXCEPT !.receivedClose = TRUE, !.sentClose = TRUE]
  BY <1>4 DEF Closes
<1>6. /\ y \in ChannelState /\ y.begin = x.begin /\ y.opened = x.opened /\ y.result = x.result
      /\ y.remote = x.remote /\ y.closing = x.closing /\ y.sentClose /\ y.receivedClose
      /\ y.cancelled = x.cancelled /\ y.receivedEof = x.receivedEof /\ y.exited = x.exited
      /\ y.reply = x.reply /\ y.output = x.output /\ y.window = x.window
  BY <1>1, <1>5 DEF ChannelState
<1>7. Heeds(x, y, h)
  BY <1>1, <1>6 DEF Heeds, ChannelState
<1>8. /\ Ordered(y, m, v, t) /\ Sent(v)
      /\ t \in Seq(Message) /\ h.type \in v.sent /\ \A i \in DOMAIN t : t[i].type # "global"
  BY <1>7, TakenWire
<1>9. t = <<>>
  BY <1>1, LastMessage DEF Answered
<1>10. Total(t) = Total(q)
  BY <1>1, SameTotal DEF Answered
<1>11. "close" \in v.sent /\ l
  BY <1>8
<1>12. x.begin # "none" /\ ~x.receivedClose
  <2>1. q # <<>>
    OBVIOUS
  <2> QED
    BY <1>1, <1>3, <1>11, <2>1 DEF Typed, Answered
<1> HIDE DEF h, t
<1>13. \A j \in DOMAIN w : w[j].type # "ADJUST"
  BY <1>1 DEF Queued
<1>14. MustSendClose(x) <=> ~x.sentClose
  BY <1>4 DEF MustSendClose
<1>15. /\ \A i \in DOMAIN u : (\E j \in DOMAIN w : u[i] = w[j]) \/ u[i] = p
       /\ u \in Seq(Packet) /\ (f => u # <<>>)
  <2>1. CASE MustSendClose(x)
    <3> DEFINE k == Len(w) + 1
    <3>1. u \in Seq(Packet) /\ u # <<>> /\ Extends(w, p, u, k)
      BY <1>1, <2>1, Extended
    <3> HIDE DEF k
    <3>2. \A i \in DOMAIN u : (\E j \in DOMAIN w : u[i] = w[j]) \/ u[i] = p
      BY <3>1 DEF Extends
    <3> QED
      BY <3>1, <3>2
  <2>2. CASE ~MustSendClose(x)
    BY <1>1, <2>2
  <2> QED
    BY <2>1, <2>2
<1>16. u \in Seq(Packet) /\ (f => u # <<>>)
  BY <1>15
<1>17. Typed(y, m, l, "close", 0, f, u, v, t)
  <2>1. \A i \in DOMAIN u : u[i].type # "REQUEST_FAILURE"
    BY <1>1, <1>15 DEF Typed
  <2> QED
    BY <1>1, <1>6, <1>8, <1>12, <1>16, <2>1 DEF Typed
<1>18. Begun(y, u, v)
  BY <1>1, <1>6, <1>12, <1>15 DEF Begun
<1>19. Queued(y, "no", n, f, u, v)
  <2>1. CASE MustSendClose(x)
    <3>1. ~Got(v, "CLOSE") /\ ~Has(w, "CLOSE")
      BY <1>1, <1>14, <2>1 DEF InOrder, Queued, Has
    <3>2. Fresh(y, w, v, p)
      BY <1>4, <1>6, <3>1 DEF Fresh
    <3>3. Queued(y, "no", n, f, Append(w, p), v)
      BY <1>1, <1>6, <3>2, QueuedPut
    <3> QED
      BY <2>1, <3>3
  <2>2. CASE ~MustSendClose(x)
    BY <1>1, <1>6, <2>2, QueuedKept
  <2> QED
    BY <2>1, <2>2
<1>20. Queued(y, "close", 0, f, u, v)
  <2>1. \A j \in DOMAIN u : u[j].type # "ADJUST"
    BY <1>13, <1>15
  <2> QED
    BY <1>19, <2>1 DEF Queued
<1>21. InOrder(y, v)
  BY <1>1, <1>6 DEF InOrder
<1>22. Closed(u, v)
  <2>1. CASE MustSendClose(x)
    BY <1>1, <2>1, LongerQueue DEF Closed
  <2>2. CASE ~MustSendClose(x)
    BY <1>1, <1>11, <1>14, <2>2 DEF Flagged
  <2> QED
    BY <2>1, <2>2
<1>23. x.result = "pending" => MustSendClose(x)
  BY <1>1, <1>14 DEF Flagged
<1>24. Flagged(y, m, l, "close", u, v)
  BY <1>1, <1>3, <1>4, <1>6, <1>11, <1>22 DEF Flagged
<1>25. Answered(y, m, l, v, t)
  BY <1>1, <1>3, <1>4, <1>6, <1>8, <1>9 DEF Answered, Confirmed
<1>26. Counted(y, m, "close", 0, f, u, v, t)
  <2>1. Held("no", n, f, w) = 0 /\ Held("close", 0, f, u) = 0 /\ Kept("no", n) = 0 /\ Kept("close", 0) = 0
    BY DEF Held, Kept
  <2> QED
    BY <1>1, <1>3, <1>6, <1>10, <2>1 DEF Counted
<1> QED
  BY <1>6, <1>17, <1>18, <1>20, <1>21, <1>23, <1>24, <1>25, <1>26 DEF OnWire, t

-----------------------------------------------------------------------------
(* One channel: a compliant server sends a message.                        *)

\* MaySend, of what the server has got and sent on the channel.
Allowed(v, type, n) ==
  LET running == "success" \in v.sent /\ "close" \notin v.sent IN
  \/ type \in {"confirm", "openFailure"} /\ Got(v, "OPEN") /\ v.sent \cap {"confirm", "openFailure"} = {}
  \/ type \in {"success", "failure"} /\ Got(v, "EXEC") /\ v.sent \cap {"success", "failure", "close"} = {}
  \/ type = "data" /\ running /\ "eof" \notin v.sent /\ n <= v.window
  \/ type \in {"exitStatus", "otherRequest"} /\ running /\ v.sent \cap {"exitStatus", "otherRequest"} = {}
  \/ type = "eof" /\ running /\ "eof" \notin v.sent
  \/ type \in {"adjust", "close"} /\ "confirm" \in v.sent /\ v.sent \cap {type, "close"} = {}

LEMMA MayAllowed ==
  ASSUME NEW type, NEW c \in Channel, NEW n, MaySend(type, c, n), type # "global"
  PROVE  Allowed(srv[c], type, n)
  BY DEF MaySend, Allowed, HasGot, Got

\* A channel on which a compliant server may send is confirmed and open.
InUse(x, m, v, type) ==
  /\ type # "data" => type \notin v.sent
  /\ m /\ ~x.receivedClose /\ Got(v, "OPEN") /\ x.begin # "none"
  /\ v.sent \cap {"close", "openFailure"} = {}
  /\ type \notin {"confirm", "openFailure"} => "confirm" \in v.sent
  /\ type \in {"success", "failure"} => x.reply = "pending"
Live(x, m, l, r, n, f, w, v, q) == OnWire(x, m, l, r, n, f, w, v, q) /\ l

LEMMA AllowedFacts ==
  ASSUME NEW x, NEW m, NEW l, NEW r, NEW n, NEW f, NEW w, NEW v, NEW q,
         Live(x, m, l, r, n, f, w, v, q), NEW type, NEW k, Allowed(v, type, k)
  PROVE  InUse(x, m, v, type)
<1>0. OnWire(x, m, l, r, n, f, w, v, q) /\ l
  BY DEF Live
<1>1. /\ Typed(x, m, l, r, n, f, w, v, q) /\ Begun(x, w, v)
      /\ InOrder(x, v) /\ Flagged(x, m, l, r, w, v) /\ Answered(x, m, l, v, q)
      /\ x \in ChannelState /\ v.got \in Seq(ClientType)
  BY <1>0 DEF OnWire, Typed, ServerState
<1>2. ASSUME Got(v, "EXEC") PROVE Got(v, "OPEN") /\ x.remote /\ "confirm" \in v.sent
  <2>1. PICK i \in DOMAIN v.got : v.got[i] = "EXEC"
    BY <1>2 DEF Got
  <2>2. 1 \in DOMAIN v.got
    BY <1>1, <2>1
  <2> QED
    BY <1>1, <2>1, <2>2 DEF InOrder, Flagged, Got
<1>3. "success" \in v.sent => Got(v, "EXEC")
  BY <1>1 DEF Answered, Sent
<1>4. /\ type \notin {"confirm", "openFailure"} => "confirm" \in v.sent
      /\ Got(v, "OPEN") /\ "close" \notin v.sent
  BY <1>1, <1>2, <1>3 DEF Allowed, Answered, Sent
<1>5. "openFailure" \notin v.sent /\ (type # "data" => type \notin v.sent)
  BY <1>1, <1>4 DEF Allowed, Answered, Sent
<1>6. x.begin # "none"
  <2>1. x.begin = "none" => ~Got(v, "OPEN")
    BY <1>1 DEF Begun, Got
  <2> QED
    BY <1>4, <2>1
<1>7. m
  <2>1. l
    BY <1>0
  <2> QED
    BY <1>1, <1>4, <1>5, <1>6, <2>1 DEF Flagged
<1>8. ~x.receivedClose
  BY <1>1, <1>4 DEF Flagged
<1>9. type \in {"success", "failure"} => x.reply = "pending"
  BY <1>1, <1>7 DEF Allowed, Begun, Answered, ChannelState, Promise
<1> QED
  BY <1>4, <1>5, <1>6, <1>7, <1>8, <1>9 DEF InUse

Sends(v, y, type, n) ==
  /\ y = [v EXCEPT !.sent = @ \cup {type}, !.window = @ - n, !.bytes = @ + n]
  /\ v.window - n \in Nat

LEMMA SendWire ==
  ASSUME NEW x, NEW m, NEW r, NEW n, NEW f, NEW w, NEW v, NEW q, NEW l, l,
         OnWire(x, m, l, r, n, f, w, v, q), NEW p \in Message, Allowed(v, p.type, p.n),
         p.type # "data" => p.n = 0, p.type # "global", NEW y, Sends(v, y, p.type, p.n)
  PROVE  OnWire(x, m, l, r, n, f, w, y, Append(q, p))
<1> DEFINE t == Append(q, p)
           k == Len(q) + 1
           a == v.window - p.n
           b == v.bytes + p.n
           s == v.sent \cup {p.type}
<1>1. /\ Typed(x, m, l, r, n, f, w, v, q) /\ Begun(x, w, v) /\ Queued(x, r, n, f, w, v)
      /\ InOrder(x, v) /\ Flagged(x, m, l, r, w, v) /\ Answered(x, m, l, v, q)
      /\ Counted(x, m, r, n, f, w, v, q)
      /\ x \in ChannelState /\ q \in Seq(Message) /\ v \in ServerState
  BY DEF OnWire, Typed
<1>2. /\ m /\ ~x.receivedClose /\ Got(v, "OPEN") /\ x.begin # "none"
      /\ p.type # "data" => p.type \notin v.sent
      /\ v.sent \cap {"close", "openFailure"} = {}
      /\ p.type \notin {"confirm", "openFailure"} => "confirm" \in v.sent
      /\ p.type \in {"success", "failure"} => x.reply = "pending"
  <2>1. Live(x, m, l, r, n, f, w, v, q) /\ Allowed(v, p.type, p.n)
    BY DEF Live
  <2>2. InUse(x, m, v, p.type)
    BY <2>1, AllowedFacts
  <2> QED
    BY <2>2 DEF InUse
<1>3. p.type \in ServerType /\ p.n \in Nat
  BY DEF Message
<1>4. /\ v.got \in Seq(ClientType) /\ v.sent \in SUBSET ServerType /\ v.window \in Nat /\ v.bytes \in Nat
      /\ v = [got |-> v.got, sent |-> v.sent, window |-> v.window, bytes |-> v.bytes]
  BY <1>1 DEF ServerState
<1>5. a \in Nat /\ b \in Nat /\ a + p.n = v.window /\ b = v.bytes + p.n
  BY <1>3, <1>4 DEF Sends
<1>6. y = [v EXCEPT !.sent = s, !.window = a, !.bytes = b]
  BY DEF Sends
<1>7. s \in SUBSET ServerType
  BY <1>3, <1>4
<1>7a. s = v.sent \cup {p.type}
  OBVIOUS
<1> HIDE DEF a, b, s
<1>8. /\ y \in ServerState /\ y.got = v.got /\ y.sent = s /\ y.window = a /\ y.bytes = b
  BY <1>4, <1>5, <1>6, <1>7 DEF ServerState
<1>9. /\ t \in Seq(Message) /\ t # <<>> /\ Extends(q, p, t, k) /\ k \in Nat
      /\ Len(t) = k
  BY <1>1, Extended
<1>10. Total(t) = Total(q) + p.n /\ Total(q) \in Nat
  BY <1>1, TotalAppend
<1>11. k = Len(q) + 1 /\ DOMAIN q = 1 .. Len(q) /\ Len(q) \in Nat
  BY <1>1
<1>12. /\ p.type # "data" => p.n = 0
       /\ p.type # "global" /\ l /\ Allowed(v, p.type, p.n)
  OBVIOUS
<1> HIDE DEF t, k
<1>13. \A type : Got(y, type) <=> Got(v, type)
  BY <1>8 DEF Got
<1>14. \A w1 : Closed(w1, v) => Closed(w1, y)
  BY <1>13 DEF Closed
<1>15. Typed(x, m, l, r, n, f, w, y, t)
  <2>1. \A i \in DOMAIN t : t[i].type # "global"
    BY <1>1, <1>9, <1>12 DEF Extends, Typed
  <2> QED
    BY <1>1, <1>8, <1>9, <2>1 DEF Typed
<1>16. Begun(x, w, y)
  BY <1>1, <1>2, <1>7a, <1>8, <1>13 DEF Begun
<1>17. Queued(x, r, n, f, w, y)
  BY <1>1, <1>13 DEF Queued
<1>18. InOrder(x, y)
  BY <1>1, <1>8, <1>13 DEF InOrder
<1>19. Flagged(x, m, l, r, w, y)
  BY <1>1, <1>2, <1>7a, <1>8, <1>14 DEF Flagged
<1>20. Sent(y)
  <2>1. Got(v, "EXEC") \/ p.type \notin {"success", "failure"}
    BY <1>12 DEF Allowed
  <2>2. p.type \notin {"global", "unsupported", "badExtended"}
    BY <1>12 DEF Allowed
  <2> QED
    BY <1>1, <1>2, <1>7a, <1>8, <1>12, <1>13, <2>1, <2>2 DEF Answered, Sent, Allowed
<1>21. (Confirmed(x, t, k) /\ Confirmed(x, t, k + 1)) \/ p.type \in {"confirm", "openFailure"}
  <2>1. ASSUME p.type \notin {"confirm", "openFailure"} PROVE Confirmed(x, t, k) /\ Confirmed(x, t, k + 1)
    <3>1. Confirmed(x, q, Len(q) + 1)
      BY <1>1, <1>2, <2>1 DEF Answered
    <3> QED
      BY <1>9, <1>11, <3>1 DEF Confirmed, Extends
  <2> QED
    BY <2>1
<1>22. ASSUME NEW i \in DOMAIN t
       PROVE  /\ t[i].type \in y.sent
              /\ t[i].type # "data" =>
                   t[i].n = 0 /\ \A j \in DOMAIN t : t[j].type = t[i].type => i = j
              /\ t[i].type \in {"close", "openFailure"} => i = k
              /\ t[i].type = "eof" => ~x.receivedEof /\ \A j \in DOMAIN t : i < j => t[j].type # "data"
              /\ t[i].type = "data" => ~x.receivedEof
              /\ m /\ t[i].type = "confirm" => ~x.remote
              /\ m /\ t[i].type = "exitStatus" => ~x.exited
              /\ m /\ t[i].type \in {"success", "failure"} => x.reply = "pending"
              /\ m /\ t[i].type \notin {"confirm", "openFailure"} => Confirmed(x, t, i)
  <2>0. Ordered(x, m, v, q) /\ \A j \in DOMAIN q : q[j].type \in v.sent /\ j < k /\ t[j] = q[j]
    BY <1>1, <1>9 DEF Answered, Ordered, Extends
  <2>0a. t[k] = p /\ DOMAIN t = DOMAIN q \cup {k} /\ k \notin DOMAIN q /\ DOMAIN q \subseteq Nat
    BY <1>9 DEF Extends
  <2>1. CASE i \in DOMAIN q
    <3>1. t[i] = q[i] /\ t[i].type \in v.sent /\ i < k
      BY <2>0, <2>1
    <3>2. t[i].type \in y.sent /\ t[i].type \notin {"close", "openFailure"}
      BY <1>2, <1>7a, <1>8, <3>1
    <3>3. t[i].type # "data" => t[i].n = 0 /\ t[i].type # p.type
      BY <1>2, <2>0, <2>1, <3>1 DEF Ordered
    <3>4. t[i].type # "data" => \A j \in DOMAIN t : t[j].type = t[i].type => i = j
      BY <2>0, <2>0a, <2>1, <3>1, <3>3 DEF Ordered
    <3>5. t[i].type = "eof" => ~x.receivedEof /\ \A j \in DOMAIN q : i < j => t[j].type # "data"
      BY <2>0, <2>1, <3>1 DEF Ordered
    <3>6. t[i].type = "eof" => p.type # "data"
      BY <1>12, <3>1 DEF Allowed
    <3>7. t[i].type = "eof" => \A j \in DOMAIN t : i < j => t[j].type # "data"
      BY <2>0a, <3>5, <3>6
    <3>8. /\ t[i].type = "data" => ~x.receivedEof
          /\ m /\ t[i].type = "confirm" => ~x.remote
          /\ m /\ t[i].type = "exitStatus" => ~x.exited
          /\ m /\ t[i].type \in {"success", "failure"} => x.reply = "pending"
          /\ m /\ t[i].type \notin {"confirm", "openFailure"} => Confirmed(x, q, i)
      BY <2>0, <2>1, <3>1 DEF Ordered
    <3>9. Confirmed(x, q, i) => Confirmed(x, t, i)
      BY <2>0, <2>0a DEF Confirmed
    <3> QED
      BY <3>2, <3>3, <3>4, <3>5, <3>7, <3>8, <3>9
  <2>2. CASE i = k
    <3>1. t[i] = p /\ p.type \in y.sent
      BY <1>7a, <1>8, <2>0a, <2>2
    <3>2. p.type # "data" => \A j \in DOMAIN q : t[j].type # p.type
      BY <1>2, <2>0
    <3>3. \A j \in DOMAIN t : ~(k < j)
      BY <1>9, <2>0, <2>0a
    <3>4. p.type \in {"eof", "data"} => ~x.receivedEof
      BY <1>1, <1>12 DEF Allowed, Flagged
    <3>5. p.type = "confirm" => ~x.remote
      BY <1>1, <1>12 DEF Allowed, Flagged
    <3>6. p.type = "exitStatus" => ~x.exited
      BY <1>1, <1>12 DEF Allowed, Flagged
    <3> QED
      BY <1>2, <1>12, <1>21, <2>0a, <2>2, <3>1, <3>2, <3>3, <3>4, <3>5, <3>6
  <2> QED
    BY <2>0a, <2>1, <2>2
<1>23. Answered(x, m, l, y, t)
  <2>1. Ordered(x, m, y, t)
    BY <1>9, <1>22 DEF Ordered
  <2>2. "confirm" \in y.sent => Confirmed(x, t, k + 1)
    <3>1. CASE p.type = "confirm"
      BY <1>9, <3>1 DEF Confirmed, Extends
    <3>2. CASE p.type = "openFailure"
      BY <1>7a, <1>8, <1>12, <3>2 DEF Allowed
    <3> QED
      BY <1>21, <3>1, <3>2
  <2>3. x.reply \in {"resolved", "rejected"} => y.sent \cap {"success", "failure"} # {}
    BY <1>1, <1>2, <1>7a, <1>8 DEF Answered
  <2> QED
    BY <1>2, <1>9, <1>20, <2>1, <2>2, <2>3 DEF Answered
<1>24. Counted(x, m, r, n, f, w, y, t)
  <2> DEFINE d == Held(r, n, f, w)
             e == Kept(r, n)
             g == Total(q)
  <2>1. x.result # "resolved"
    BY <1>1, <1>2 DEF Counted
  <2>2. m /\ ~x.closing => x.window + d = v.window + g
    BY <1>1, <1>2 DEF Counted
  <2>3. x.result = "pending" => x.output + e + g = v.bytes
    BY <1>1 DEF Counted
  <2>4. x.window \in Nat /\ x.output \in Nat /\ n \in Nat
    BY <1>1 DEF ChannelState, Typed
  <2>5. d \in Nat /\ e \in Nat
    BY <2>4 DEF Held, Kept
  <2>6. Total(t) = g + p.n /\ g \in Nat
    BY <1>10
  <2> HIDE DEF d, e, g
  <2>7. m /\ ~x.closing => x.window + d = a + (g + p.n)
    BY <1>3, <1>4, <1>5, <2>2, <2>4, <2>5, <2>6
  <2>8. x.result = "pending" => x.output + e + (g + p.n) = b
    BY <1>3, <1>4, <1>5, <2>3, <2>4, <2>5, <2>6, SMTT(60)
  <2> QED
    BY <1>2, <1>8, <1>13, <2>1, <2>6, <2>7, <2>8 DEF Counted, d, e
<1> QED
  BY <1>15, <1>16, <1>17, <1>18, <1>19, <1>23, <1>24 DEF OnWire, t
=============================================================================
