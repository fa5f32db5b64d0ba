--------------------------- MODULE MuxWire_proofs ----------------------------
(***************************************************************************)
(* What a compliant server and the client see of each other on the wire,   *)
(* for any number of channels, slots, limits, windows and messages: the    *)
(* order of the client's requests, when a number leaves the map, how many  *)
(* channels the server holds, that every byte is accounted for, and what   *)
(* ends the connection.                                                    *)
(***************************************************************************)
EXTENDS ChannelMux_proofs, FiniteSetTheorems

-----------------------------------------------------------------------------
(* The invariant.                                                          *)

\* What channel d sees of the read loop and of the write tail.
Waits(d) == IF reader.ch = d /\ reader.at \in {"adjust", "close"} THEN reader.at ELSE "no"
Waited(d) == IF Waits(d) = "adjust" THEN reader.n ELSE 0
FlushedFor(d) == flushed /\ For(Head(tail), d)

\* The second invariant, of channel d: its packets and messages, of those in
\* the queues t and i of all channels, go with what is known of the channel.
View(d, t, i, x, m, l, r, n, f, v) ==
  \E w \in Seq(Packet), q \in Seq(Message) :
    /\ Picks(t, d, w) /\ Picks(i, d, q) /\ Carried(i, d) = Total(q)
    /\ OnWire(x, m, l, r, n, f, w, v, q)
Seen(d) ==
  \E m, l, f \in BOOLEAN :
    /\ m <=> d \in channels
    /\ l <=> terminal = "no"
    /\ f <=> FlushedFor(d)
    /\ View(d, tail, inbox, chan[d], m, l, Waits(d), Waited(d), f, srv[d])

\* What the channels share: the read loop waits for the packet it queued, a
\* number is taken once its channel has begun, and the map has its limit.
OwnPacket(p) ==
  /\ p.type = "REQUEST_FAILURE" => p.by = "reader"
  /\ p.by = "reader" =>
       /\ reader.at = "adjust" => p.type = "ADJUST" /\ p.ch = reader.ch /\ p.n = reader.n
       /\ reader.at = "close" => p.type = "CLOSE" /\ p.ch = reader.ch
Shared ==
  /\ flushed => tail # <<>>
  /\ \A d \in Channel : d < nextLocalChannel <=> chan[d].begin # "none"
  /\ \A i \in DOMAIN tail : OwnPacket(tail[i])
  /\ \A i \in DOMAIN inbox : inbox[i].type # "data" => inbox[i].n = 0
  /\ IsFiniteSet(channels) /\ Cardinality(channels) <= MaxChannels

Wired == Shared /\ \A d \in Channel : Seen(d)
-----------------------------------------------------------------------------
(* From what one channel does with its own packets and messages to what it *)
(* sees of the queues of all.                                              *)

LEMMA ViewOtherPut ==
  ASSUME NEW d, NEW t \in Seq(Packet), NEW i, NEW x, NEW m, NEW l, NEW r, NEW n, NEW f, NEW v,
         View(d, t, i, x, m, l, r, n, f, v), NEW p \in Packet, ~For(p, d)
  PROVE  View(d, Append(t, p), i, x, m, l, r, n, f, v)
  BY PickOther DEF View

LEMMA ViewOtherDrop ==
  ASSUME NEW d, NEW t \in Seq(Packet), NEW i, NEW x, NEW m, NEW l, NEW r, NEW n, NEW f, NEW v,
         View(d, t, i, x, m, l, r, n, f, v), t # <<>>, ~For(Head(t), d)
  PROVE  View(d, Tail(t), i, x, m, l, r, n, f, v)
  BY DropOther DEF View

LEMMA ViewOtherRead ==
  ASSUME NEW d, NEW t, NEW i \in Seq(Message), NEW x, NEW m, NEW l, NEW r, NEW n, NEW f, NEW v,
         View(d, t, i, x, m, l, r, n, f, v), i # <<>>, ~For(Head(i), d), Head(i).ch = d => Head(i).n = 0
  PROVE  View(d, t, Tail(i), x, m, l, r, n, f, v)
<1>1. PICK w \in Seq(Packet), q \in Seq(Message) :
        /\ Picks(t, d, w) /\ Picks(i, d, q) /\ Carried(i, d) = Total(q)
        /\ OnWire(x, m, l, r, n, f, w, v, q)
  BY DEF View
<1>2. Picks(Tail(i), d, q)
  BY <1>1, DropOther
<1>3. Carried(Tail(i), d) = Carried(i, d)
  BY CarriedTail
<1> QED
  BY <1>1, <1>2, <1>3 DEF View

LEMMA ViewOtherSend ==
  ASSUME NEW d, NEW t, NEW i \in Seq(Message), NEW x, NEW m, NEW l, NEW r, NEW n, NEW f, NEW v,
         View(d, t, i, x, m, l, r, n, f, v), NEW p \in Message, ~For(p, d), p.ch = d => p.n = 0
  PROVE  View(d, t, Append(i, p), x, m, l, r, n, f, v)
<1>1. PICK w \in Seq(Packet), q \in Seq(Message) :
        /\ Picks(t, d, w) /\ Picks(i, d, q) /\ Carried(i, d) = Total(q)
        /\ OnWire(x, m, l, r, n, f, w, v, q)
  BY DEF View
<1>2. Picks(Append(i, p), d, q)
  BY <1>1, PickOther
<1>3. Carried(Append(i, p), d) = Carried(i, d)
  BY CarriedAppend
<1> QED
  BY <1>1, <1>2, <1>3 DEF View

LEMMA ViewStay ==
  ASSUME NEW d, NEW t, NEW i, NEW x, NEW m, NEW l, NEW r, NEW n, NEW f, NEW v,
         View(d, t, i, x, m, l, r, n, f, v),
         NEW y, NEW m2, NEW l2, NEW r2, NEW n2, NEW f2, NEW v2,
         \A w, q : OnWire(x, m, l, r, n, f, w, v, q) => OnWire(y, m2, l2, r2, n2, f2, w, v2, q)
  PROVE  View(d, t, i, y, m2, l2, r2, n2, f2, v2)
  BY DEF View

LEMMA ViewPut ==
  ASSUME NEW d, NEW t \in Seq(Packet), NEW i, NEW x, NEW m, NEW l, NEW r, NEW n, NEW f, NEW v,
         View(d, t, i, x, m, l, r, n, f, v), NEW p \in Packet, For(p, d),
         NEW y, NEW m2, NEW l2, NEW r2, NEW n2, NEW f2, NEW v2,
         \A w, q : OnWire(x, m, l, r, n, f, w, v, q) => OnWire(y, m2, l2, r2, n2, f2, Append(w, p), v2, q)
  PROVE  View(d, Append(t, p), i, y, m2, l2, r2, n2, f2, v2)
<1>1. PICK w \in Seq(Packet), q \in Seq(Message) :
        /\ Picks(t, d, w) /\ Picks(i, d, q) /\ Carried(i, d) = Total(q)
        /\ OnWire(x, m, l, r, n, f, w, v, q)
  BY DEF View
<1>2. Picks(Append(t, p), d, Append(w, p)) /\ Append(w, p) \in Seq(Packet)
  BY <1>1, PickOwn
<1> QED
  BY <1>1, <1>2 DEF View

\* The first packet of all is one of the channel.
LEMMA ViewFlush ==
  ASSUME NEW d, NEW t \in Seq(Packet), NEW i, NEW x, NEW m, NEW l, NEW r, NEW n, NEW f, NEW v,
         View(d, t, i, x, m, l, r, n, f, v), t # <<>>, For(Head(t), d),
         NEW y, NEW m2, NEW l2, NEW r2, NEW n2, NEW f2, NEW v2,
         \A w, q : OnWire(x, m, l, r, n, f, w, v, q) /\ w # <<>> /\ Head(w) = Head(t)
                     => OnWire(y, m2, l2, r2, n2, f2, w, v2, q)
  PROVE  View(d, t, i, y, m2, l2, r2, n2, f2, v2)
<1>1. PICK w \in Seq(Packet), q \in Seq(Message) :
        /\ Picks(t, d, w) /\ Picks(i, d, q) /\ Carried(i, d) = Total(q)
        /\ OnWire(x, m, l, r, n, f, w, v, q)
  BY DEF View
<1>2. w # <<>> /\ Head(w) = Head(t)
  BY <1>1, DropOwn
<1> QED
  BY <1>1, <1>2 DEF View

LEMMA ViewDrop ==
  ASSUME NEW d, NEW t \in Seq(Packet), NEW i, NEW x, NEW m, NEW l, NEW r, NEW n, NEW f, NEW v,
         View(d, t, i, x, m, l, r, n, f, v), t # <<>>, For(Head(t), d),
         NEW y, NEW m2, NEW l2, NEW r2, NEW n2, NEW f2, NEW v2,
         \A w, q : OnWire(x, m, l, r, n, f, w, v, q) /\ w # <<>> /\ Head(w) = Head(t)
                     => OnWire(y, m2, l2, r2, n2, f2, Tail(w), v2, q)
  PROVE  View(d, Tail(t), i, y, m2, l2, r2, n2, f2, v2)
<1>1. PICK w \in Seq(Packet), q \in Seq(Message) :
        /\ Picks(t, d, w) /\ Picks(i, d, q) /\ Carried(i, d) = Total(q)
        /\ OnWire(x, m, l, r, n, f, w, v, q)
  BY DEF View
<1>2. w # <<>> /\ Head(w) = Head(t) /\ Picks(Tail(t), d, Tail(w))
  BY <1>1, DropOwn
<1>3. Tail(w) \in Seq(Packet)
  BY <1>2
<1> QED
  BY <1>1, <1>2, <1>3 DEF View

LEMMA ViewLost ==
  ASSUME NEW d, NEW t, NEW i, NEW x, NEW m, NEW l, NEW r, NEW n, NEW f, NEW v,
         View(d, t, i, x, m, l, r, n, f, v),
         NEW y, NEW m2, NEW l2, NEW r2, NEW n2, NEW f2, NEW v2,
         \A w, q : OnWire(x, m, l, r, n, f, w, v, q) => OnWire(y, m2, l2, r2, n2, f2, <<>>, v2, q)
  PROVE  View(d, <<>>, i, y, m2, l2, r2, n2, f2, v2)
<1>1. <<>> \in Seq(Packet) /\ Picks(<<>>, d, <<>>)
  BY PicksEmpty
<1> QED
  BY <1>1 DEF View

\* The first message of all is one to the channel.
LEMMA HeadRead ==
  ASSUME NEW d, NEW i \in Seq(Message), i # <<>>, For(Head(i), d), NEW q \in Seq(Message),
         Picks(i, d, q), Carried(i, d) = Total(q)
  PROVE  /\ q # <<>> /\ Head(q) = Head(i) /\ Picks(Tail(i), d, Tail(q)) /\ Tail(q) \in Seq(Message)
         /\ Carried(Tail(i), d) = Total(Tail(q))
<1>1. q # <<>> /\ Head(q) = Head(i) /\ Picks(Tail(i), d, Tail(q))
  BY DropOwn
<1> DEFINE a == Carried(Tail(i), d)
           b == Total(Tail(q))
           k == Head(i).n
           u == Carried(i, d)
<1>2. u = k + a /\ a \in Nat
  BY CarriedTail DEF For
<1>3. Total(q) = Head(q).n + b /\ b \in Nat /\ Head(q).n \in Nat
  BY <1>1, TotalTail
<1>3a. u = k + b /\ k \in Nat
  BY <1>1, <1>3
<1> HIDE DEF a, b, k, u
<1>4a. a = b
  BY <1>2, <1>3, <1>3a
<1>4. Carried(Tail(i), d) = Total(Tail(q))
  BY <1>4a DEF a, b
<1> QED
  BY <1>1, <1>4

LEMMA ViewRead ==
  ASSUME NEW d, NEW t, NEW i \in Seq(Message), NEW x, NEW m, NEW l, NEW r, NEW n, NEW f, NEW v,
         View(d, t, i, x, m, l, r, n, f, v), i # <<>>, For(Head(i), d),
         NEW y, NEW m2, NEW l2, NEW r2, NEW n2, NEW f2, NEW v2,
         \A w, q : OnWire(x, m, l, r, n, f, w, v, q) /\ q # <<>> /\ Head(q) = Head(i)
                     => OnWire(y, m2, l2, r2, n2, f2, w, v2, Tail(q))
  PROVE  View(d, t, Tail(i), y, m2, l2, r2, n2, f2, v2)
<1>1. PICK w \in Seq(Packet), q \in Seq(Message) :
        /\ Picks(t, d, w) /\ Picks(i, d, q) /\ Carried(i, d) = Total(q)
        /\ OnWire(x, m, l, r, n, f, w, v, q)
  BY DEF View
<1>2. /\ q # <<>> /\ Head(q) = Head(i) /\ Picks(Tail(i), d, Tail(q)) /\ Tail(q) \in Seq(Message)
      /\ Carried(Tail(i), d) = Total(Tail(q))
  BY <1>1, HeadRead
<1> QED
  BY <1>1, <1>2 DEF View

LEMMA ViewReadPut ==
  ASSUME NEW d, NEW t \in Seq(Packet), NEW i \in Seq(Message), NEW x, NEW m, NEW l, NEW r, NEW n, NEW f, NEW v,
         View(d, t, i, x, m, l, r, n, f, v), i # <<>>, For(Head(i), d), NEW p \in Packet, For(p, d),
         NEW y, NEW m2, NEW l2, NEW r2, NEW n2, NEW f2, NEW v2,
         \A w, q : OnWire(x, m, l, r, n, f, w, v, q) /\ q # <<>> /\ Head(q) = Head(i)
                     => OnWire(y, m2, l2, r2, n2, f2, Append(w, p), v2, Tail(q))
  PROVE  View(d, Append(t, p), Tail(i), y, m2, l2, r2, n2, f2, v2)
<1>1. PICK w \in Seq(Packet), q \in Seq(Message) :
        /\ Picks(t, d, w) /\ Picks(i, d, q) /\ Carried(i, d) = Total(q)
        /\ OnWire(x, m, l, r, n, f, w, v, q)
  BY DEF View
<1>2. /\ q # <<>> /\ Head(q) = Head(i) /\ Picks(Tail(i), d, Tail(q)) /\ Tail(q) \in Seq(Message)
      /\ Carried(Tail(i), d) = Total(Tail(q))
  BY <1>1, HeadRead
<1>3. Picks(Append(t, p), d, Append(w, p)) /\ Append(w, p) \in Seq(Packet)
  BY <1>1, PickOwn
<1> QED
  BY <1>1, <1>2, <1>3 DEF View

LEMMA ViewSend ==
  ASSUME NEW d, NEW t, NEW i \in Seq(Message), NEW x, NEW m, NEW l, NEW r, NEW n, NEW f, NEW v,
         View(d, t, i, x, m, l, r, n, f, v), NEW p \in Message, For(p, d),
         NEW y, NEW m2, NEW l2, NEW r2, NEW n2, NEW f2, NEW v2,
         \A w, q : OnWire(x, m, l, r, n, f, w, v, q) => OnWire(y, m2, l2, r2, n2, f2, w, v2, Append(q, p))
  PROVE  View(d, t, Append(i, p), y, m2, l2, r2, n2, f2, v2)
<1>1. PICK w \in Seq(Packet), q \in Seq(Message) :
        /\ Picks(t, d, w) /\ Picks(i, d, q) /\ Carried(i, d) = Total(q)
        /\ OnWire(x, m, l, r, n, f, w, v, q)
  BY DEF View
<1>2. Picks(Append(i, p), d, Append(q, p)) /\ Append(q, p) \in Seq(Message)
  BY <1>1, PickOwn
<1>3. Carried(Append(i, p), d) = Carried(i, d) + p.n /\ Total(Append(q, p)) = Total(q) + p.n
  BY CarriedAppend, TotalAppend DEF For
<1> QED
  BY <1>1, <1>2, <1>3 DEF View

-----------------------------------------------------------------------------
(* What a step changes for the channels it does not concern.               *)

LEMMA SeenNext ==
  ASSUME NEW d, NEW m \in BOOLEAN, NEW l \in BOOLEAN, NEW f \in BOOLEAN,
         m <=> d \in channels', l <=> terminal' = "no", f <=> FlushedFor(d)',
         View(d, tail', inbox', chan'[d], m, l, Waits(d)', Waited(d)', f, srv'[d])
  PROVE  Seen(d)'
  BY DEF Seen

LEMMA Waiting ==
  ASSUME NEW d
  PROVE  /\ reader.at \notin {"adjust", "close"} \/ reader.ch # d => Waits(d) = "no" /\ Waited(d) = 0
         /\ reader.at = "adjust" /\ reader.ch = d => Waits(d) = "adjust" /\ Waited(d) = reader.n
         /\ reader.at = "close" /\ reader.ch = d => Waits(d) = "close" /\ Waited(d) = 0
  BY DEF Waits, Waited

LEMMA WaitingNext ==
  ASSUME NEW d
  PROVE  /\ reader'.at \notin {"adjust", "close"} \/ reader'.ch # d => Waits(d)' = "no" /\ Waited(d)' = 0
         /\ reader'.at = "adjust" /\ reader'.ch = d => Waits(d)' = "adjust" /\ Waited(d)' = reader'.n
         /\ reader'.at = "close" /\ reader'.ch = d => Waits(d)' = "close" /\ Waited(d)' = 0
         /\ reader' = reader => Waits(d)' = Waits(d) /\ Waited(d)' = Waited(d)
  BY DEF Waits, Waited

LEMMA FlushedNext ==
  ASSUME NEW d, Shared, tail \in Seq(Packet)
  PROVE  /\ UNCHANGED <<tail, flushed>> => (FlushedFor(d)' <=> FlushedFor(d))
         /\ \A p \in Packet : tail' = Append(tail, p) /\ flushed' = flushed => (FlushedFor(d)' <=> FlushedFor(d))
         /\ flushed' = FALSE => ~FlushedFor(d)'
<1>1. ASSUME NEW p \in Packet, tail' = Append(tail, p), flushed' = flushed
      PROVE  FlushedFor(d)' <=> FlushedFor(d)
  <2>1. CASE tail = <<>>
    BY <1>1, <2>1 DEF Shared, FlushedFor
  <2>2. CASE tail # <<>>
    <3>1. Head(tail') = Head(tail)
      BY <1>1, <2>2
    <3> QED
      BY <1>1, <3>1 DEF FlushedFor
  <2> QED
    BY <2>1, <2>2
<1>2. UNCHANGED <<tail, flushed>> => (FlushedFor(d)' <=> FlushedFor(d))
  BY DEF FlushedFor
<1>3. flushed' = FALSE => ~FlushedFor(d)'
  BY DEF FlushedFor
<1>4. \A p \in Packet : tail' = Append(tail, p) /\ flushed' = flushed => (FlushedFor(d)' <=> FlushedFor(d))
  BY <1>1
<1> QED
  BY <1>2, <1>3, <1>4

\* A step that does not touch channel d, whatever it does to the queues.
TailOther(d) ==
  \/ tail' = tail
  \/ \E p \in Packet : tail' = Append(tail, p) /\ ~For(p, d)
  \/ tail # <<>> /\ tail' = Tail(tail) /\ ~For(Head(tail), d)
InboxOther(d) ==
  \/ inbox' = inbox
  \/ \E p \in Message : inbox' = Append(inbox, p) /\ ~For(p, d) /\ (p.ch = d => p.n = 0)
  \/ inbox # <<>> /\ inbox' = Tail(inbox) /\ ~For(Head(inbox), d) /\ (Head(inbox).ch = d => Head(inbox).n = 0)
Untouched(d) ==
  /\ chan'[d] = chan[d] /\ srv'[d] = srv[d] /\ (d \in channels' <=> d \in channels)
  /\ terminal' = terminal
  /\ Waits(d)' = Waits(d) /\ Waited(d)' = Waited(d) /\ (FlushedFor(d)' <=> FlushedFor(d))

LEMMA SeenOther ==
  ASSUME NEW d, Seen(d), tail \in Seq(Packet), inbox \in Seq(Message),
         Untouched(d), TailOther(d), InboxOther(d)
  PROVE  Seen(d)'
<1>1. PICK m \in BOOLEAN, l \in BOOLEAN, f \in BOOLEAN :
        /\ m <=> d \in channels
        /\ l <=> terminal = "no"
        /\ f <=> FlushedFor(d)
        /\ View(d, tail, inbox, chan[d], m, l, Waits(d), Waited(d), f, srv[d])
  BY DEF Seen
<1>2. View(d, tail', inbox, chan[d], m, l, Waits(d), Waited(d), f, srv[d])
  <2>1. CASE tail' = tail
    BY <1>1, <2>1
  <2>2. CASE \E p \in Packet : tail' = Append(tail, p) /\ ~For(p, d)
    BY <1>1, <2>2, ViewOtherPut
  <2>3. CASE tail # <<>> /\ tail' = Tail(tail) /\ ~For(Head(tail), d)
    BY <1>1, <2>3, ViewOtherDrop
  <2> QED
    BY <2>1, <2>2, <2>3 DEF TailOther
<1>3. View(d, tail', inbox', chan[d], m, l, Waits(d), Waited(d), f, srv[d])
  <2>1. CASE inbox' = inbox
    BY <1>2, <2>1
  <2>2. CASE \E p \in Message : inbox' = Append(inbox, p) /\ ~For(p, d) /\ (p.ch = d => p.n = 0)
    BY <1>2, <2>2, ViewOtherSend
  <2>3. CASE inbox # <<>> /\ inbox' = Tail(inbox) /\ ~For(Head(inbox), d) /\ (Head(inbox).ch = d => Head(inbox).n = 0)
    BY <1>2, <2>3, ViewOtherRead
  <2> QED
    BY <2>1, <2>2, <2>3 DEF InboxOther
<1>4. View(d, tail', inbox', chan'[d], m, l, Waits(d)', Waited(d)', f, srv'[d])
  BY <1>3 DEF Untouched
<1> QED
  BY <1>1, <1>4, SeenNext DEF Untouched

-----------------------------------------------------------------------------
(* The connection ends.                                                    *)

\* The read loop drops a message once the client is not live.
LEMMA DropWire ==
  ASSUME NEW x, NEW m, NEW l, NEW r, NEW n, NEW f, NEW w, NEW v, NEW q,
         OnWire(x, m, l, r, n, f, w, v, q), ~l, q # <<>>
  PROVE  OnWire(x, m, l, r, n, f, w, v, Tail(q))
<1> DEFINE t == Tail(q)
<1>1. /\ Typed(x, m, l, r, n, f, w, v, q) /\ Begun(x, w, v) /\ Queued(x, r, n, f, w, v)
      /\ InOrder(x, v) /\ Flagged(x, m, l, r, w, v) /\ Answered(x, m, l, v, q)
      /\ Counted(x, m, r, n, f, w, v, q)
      /\ q \in Seq(Message) /\ Ordered(x, m, v, q) /\ Sent(v)
  BY DEF OnWire, Typed, Answered
<1>2. ~l /\ q # <<>>
  OBVIOUS
<1>3. ~m /\ x.result # "pending"
  BY <1>1, <1>2 DEF Typed
<1>4. /\ t \in Seq(Message) /\ Len(q) = Len(t) + 1 /\ Len(t) \in Nat
      /\ \A i \in DOMAIN t : i \in Nat \ {0} /\ i + 1 \in DOMAIN q /\ t[i] = q[i + 1]
  BY <1>1, <1>2, TailMessages
<1> HIDE DEF t
<1>5. Typed(x, m, l, r, n, f, w, v, t)
  <2>1. \A i \in DOMAIN t : t[i].type # "global"
    BY <1>1, <1>4 DEF Typed
  <2> QED
    BY <1>1, <1>4, <2>1 DEF Typed
<1>6. Ordered(x, m, v, t)
  <2>1. ASSUME NEW i \in DOMAIN t
        PROVE  /\ t[i].type \in v.sent
               /\ t[i].type # "data" => t[i].n = 0
               /\ t[i].type \in {"close", "openFailure"} => i = Len(t)
               /\ t[i].type \in {"eof", "data"} => ~x.receivedEof
    <3>1. i + 1 = Len(t) + 1 => i = Len(t)
      BY <1>4
    <3> QED
      BY <1>1, <1>4, <3>1 DEF Ordered
  <2>2. ASSUME NEW i \in DOMAIN t, NEW j \in DOMAIN t, t[i].type # "data", t[j].type = t[i].type PROVE i = j
    <3>1. i + 1 = j + 1
      BY <1>1, <1>4, <2>2 DEF Ordered
    <3> QED
      BY <1>4, <3>1
  <2>3. ASSUME NEW i \in DOMAIN t, NEW j \in DOMAIN t, t[i].type = "eof", i < j PROVE t[j].type # "data"
    <3>1. i + 1 < j + 1
      BY <1>4, <2>3
    <3> QED
      BY <1>1, <1>4, <2>3, <3>1 DEF Ordered
  <2> QED
    BY <1>3, <2>1, <2>2, <2>3 DEF Ordered
<1>7. Answered(x, m, l, v, t)
  BY <1>1, <1>2, <1>3, <1>6 DEF Answered
<1>8. Counted(x, m, r, n, f, w, v, t)
  BY <1>1, <1>3 DEF Counted
<1> QED
  BY <1>1, <1>5, <1>7, <1>8 DEF OnWire, t

\* What a channel shows of itself.
LEMMA SeenFacts ==
  ASSUME NEW d, Seen(d)
  PROVE  /\ chan[d] \in ChannelState /\ srv[d] \in ServerState
         /\ d \in channels => chan[d].begin # "none" /\ terminal = "no"
         /\ Waits(d) # "no" => chan[d].begin # "none"
         /\ chan[d].begin = "none" => chan[d] = NewChannel
         /\ chan[d].sentClose => chan[d].remote /\ (chan[d].closing \/ chan[d].receivedClose)
         /\ chan[d].result = "pending" => d \in channels
<1>1. PICK m \in BOOLEAN, l \in BOOLEAN, f \in BOOLEAN :
        /\ m <=> d \in channels
        /\ l <=> terminal = "no"
        /\ View(d, tail, inbox, chan[d], m, l, Waits(d), Waited(d), f, srv[d])
  BY DEF Seen
<1>2. PICK w, q : OnWire(chan[d], m, l, Waits(d), Waited(d), f, w, srv[d], q)
  BY <1>1 DEF View
<1> QED
  BY <1>1, <1>2 DEF OnWire, Typed, Begun, Flagged

\* x may take the end of the connection, and the owner of a write its failure.
LEMMA EndsRejected ==
  ASSUME NEW x \in ChannelState, x.begin = "none" => x = NewChannel,
         x.sentClose => x.remote /\ (x.closing \/ x.receivedClose)
  PROVE  Ends(x, Rejected(x)) /\ Rejected(x).begin = x.begin
<1>1. Rejected(x) = [x EXCEPT !.result = Settle(x.result, "rejected")]
  BY DEF Rejected
<1> DEFINE a == Settle(x.result, "rejected")
<1>2. a \in Promise /\ a = Settle(x.result, "rejected") /\ (x.result = "none" => a = "none")
  BY DEF Settle, Promise, ChannelState
<1> HIDE DEF a
<1>3. Rejected(x) = [x EXCEPT !.result = a]
  BY <1>1 DEF a
<1>4. x.begin = "none" => x.result = "none" /\ Rejected(x) = x
  BY <1>2, <1>3 DEF NewChannel, ChannelState
<1> QED
  BY <1>2, <1>3, <1>4 DEF Ends, ChannelState

LEMMA EndsTerminated ==
  ASSUME NEW x, NEW z \in ChannelState, Ends(x, Rejected(z)), x.begin # "none"
  PROVE  Ends(x, Terminated(z)) /\ Terminated(z).begin = z.begin
<1> DEFINE a == Settle(z.result, "rejected")
           b == Settle(z.opened, "rejected")
           c == Settle(z.reply, "rejected")
<1>1. /\ Rejected(z) = [z EXCEPT !.result = a]
      /\ Terminated(z) = [z EXCEPT !.opened = b, !.reply = c, !.result = a]
  BY DEF Rejected, Terminated
<1>2. a \in Promise /\ b \in Promise /\ c \in Promise
  BY DEF Settle, Promise, ChannelState
<1>3. /\ b = z.opened \/ (z.opened = "pending" /\ b = "rejected")
      /\ c = z.reply \/ (z.reply = "pending" /\ c = "rejected")
  BY DEF Settle
<1> HIDE DEF a, b, c
<1> DEFINE u == Rejected(z)
           y == Terminated(z)
<1>4. /\ u.begin = z.begin /\ u.opened = z.opened /\ u.reply = z.reply /\ u.result = a
      /\ u.remote = z.remote /\ u.receivedEof = z.receivedEof /\ u.closing = z.closing
      /\ u.sentClose = z.sentClose /\ u.receivedClose = z.receivedClose
      /\ u.exited = z.exited /\ u.output = z.output /\ u.window = z.window
  BY <1>1 DEF ChannelState
<1>5. /\ y \in ChannelState
      /\ y.begin = z.begin /\ y.opened = b /\ y.reply = c /\ y.result = a
      /\ y.remote = z.remote /\ y.receivedEof = z.receivedEof /\ y.closing = z.closing
      /\ y.sentClose = z.sentClose /\ y.receivedClose = z.receivedClose
      /\ y.exited = z.exited /\ y.output = z.output /\ y.window = z.window
  BY <1>1, <1>2 DEF ChannelState
<1>6. Ends(x, u)
  OBVIOUS
<1> HIDE DEF u, y
<1>7. Ends(x, y) /\ y.begin = z.begin
  BY <1>3, <1>4, <1>5, <1>6 DEF Ends
<1> QED
  BY <1>7 DEF y

\* #fatal on a channel that its failing write may have changed first.
LEMMA FatalEnds ==
  ASSUME NEW chs, NEW open \in SUBSET channels, NEW reason \in Reason, Fatal(chs, open, reason),
         IInv, NEW d \in Channel, chs[d] \in ChannelState, NEW x, d \in open => x.begin # "none",
         Ends(x, Rejected(chs[d])), chs[d].result = "pending" => d \in open
  PROVE  /\ Ends(x, chan'[d]) /\ chan'[d].begin = chs[d].begin
         /\ terminal' # "no" /\ channels' = {}
<1>1. terminal # "no" => channels = {}
  BY DEF IInv, ChannelsOK
<1>2. terminal' # "no" /\ channels' = {}
  BY <1>1 DEF Fatal, Reason
<1>3. CASE terminal = "no" /\ d \in open
  <2>1. chan'[d] = Terminated(chs[d])
    BY <1>3 DEF Fatal
  <2>2. x.begin # "none"
    BY <1>3
  <2> QED
    BY <1>2, <2>1, <2>2, EndsTerminated
<1>4. CASE ~(terminal = "no" /\ d \in open)
  <2>1. chan'[d] = chs[d]
    BY <1>4 DEF Fatal
  <2>2. chs[d].result # "pending"
    BY <1>1, <1>4
  <2>3. Rejected(chs[d]) = chs[d]
    <3>1. Rejected(chs[d]) = [chs[d] EXCEPT !.result = chs[d].result]
      BY <2>2 DEF Rejected, Settle
    <3> QED
      BY <3>1 DEF ChannelState
  <2> QED
    BY <1>2, <2>1, <2>3
<1> QED
  BY <1>3, <1>4

\* #fatal of a step that changes the object of no channel before.
LEMMA FatalAll ==
  ASSUME IInv, NEW reason \in Reason, Fatal(chan, channels, reason), NEW d \in Channel, Seen(d)
  PROVE  /\ Ends(chan[d], chan'[d]) /\ chan'[d].begin = chan[d].begin
         /\ terminal' # "no" /\ channels' = {}
<1>1. Ends(chan[d], Rejected(chan[d])) /\ chan[d] \in ChannelState
  BY SeenFacts, EndsRejected
<1>2. /\ chan[d].result = "pending" => d \in channels
      /\ d \in channels => chan[d].begin # "none"
  BY SeenFacts
<1> QED
  BY <1>1, <1>2, FatalEnds

LEMMA SeenDead ==
  ASSUME NEW d, Seen(d), Ends(chan[d], chan'[d]), chan'[d].begin = chan[d].begin,
         terminal' # "no", channels' = {}, UNCHANGED <<tail, flushed, srv>>,
         Waits(d)' = Waits(d), Waited(d)' = Waited(d), inbox \in Seq(Message), Shared,
         inbox' = inbox \/ (inbox # <<>> /\ inbox' = Tail(inbox))
  PROVE  Seen(d)'
<1>1. PICK m \in BOOLEAN, l \in BOOLEAN, f \in BOOLEAN :
        /\ f <=> FlushedFor(d)
        /\ View(d, tail, inbox, chan[d], m, l, Waits(d), Waited(d), f, srv[d])
  BY DEF Seen
<1> DEFINE x == chan[d]
           y == chan'[d]
           r == Waits(d)
           n == Waited(d)
           v == srv[d]
<1>2. PICK m2 \in BOOLEAN, l2 \in BOOLEAN : ~m2 /\ ~l2
  OBVIOUS
<1>3. \A w, q : OnWire(x, m, l, r, n, f, w, v, q) => OnWire(y, m2, l2, r, n, f, w, v, q)
  BY <1>2, DeadWire
<1>4. View(d, tail, inbox, y, m2, l2, r, n, f, v)
  BY <1>1, <1>3, ViewStay
<1>5. View(d, tail, inbox', y, m2, l2, r, n, f, v)
  <2>1. CASE inbox' = inbox
    BY <1>4, <2>1
  <2>2. CASE inbox # <<>> /\ inbox' = Tail(inbox) /\ For(Head(inbox), d)
    <3>1. \A w, q : OnWire(y, m2, l2, r, n, f, w, v, q) /\ q # <<>> /\ Head(q) = Head(inbox)
                      => OnWire(y, m2, l2, r, n, f, w, v, Tail(q))
      BY <1>2, DropWire
    <3> QED
      BY <1>4, <2>2, <3>1, ViewRead
  <2>3. CASE inbox # <<>> /\ inbox' = Tail(inbox) /\ ~For(Head(inbox), d)
    <3>1. Head(inbox).ch = d => Head(inbox).n = 0
      <4>1. Head(inbox) = inbox[1] /\ 1 \in DOMAIN inbox
        BY <2>3
      <4> QED
        BY <2>3, <4>1 DEF Shared, For
    <3> QED
      BY <1>4, <2>3, <3>1, ViewOtherRead
  <2> QED
    BY <2>1, <2>2, <2>3
<1>6. FlushedFor(d)' <=> FlushedFor(d)
  BY DEF FlushedFor
<1>7. (m2 <=> d \in channels') /\ (l2 <=> terminal' = "no") /\ (f <=> FlushedFor(d)')
  BY <1>1, <1>2, <1>6
<1>8. View(d, tail', inbox', chan'[d], m2, l2, Waits(d)', Waited(d)', f, srv'[d])
  BY <1>5
<1> HIDE DEF x, y, r, n, v
<1> QED
  BY <1>7, <1>8, SeenNext

LEMMA CloseSeen ==
  ASSUME IInv, Wired, Close, NEW d \in Channel
  PROVE  Seen(d)'
<1>1. Fatal(chan, channels, "closed") /\ "closed" \in Reason /\ UNCHANGED <<tail, flushed, reader, srv, inbox>>
  BY DEF Close, srvVars, Reason
<1>2. Seen(d) /\ Shared /\ inbox \in Seq(Message)
  BY DEF Wired, IInv, QueuesOK
<1>3. /\ Ends(chan[d], chan'[d]) /\ chan'[d].begin = chan[d].begin
      /\ terminal' # "no" /\ channels' = {}
  BY <1>1, <1>2, FatalAll
<1>4. Waits(d)' = Waits(d) /\ Waited(d)' = Waited(d)
  BY <1>1, WaitingNext
<1> QED
  BY <1>1, <1>2, <1>3, <1>4, SeenDead

\* The read loop ends.
LEMMA StopSeen ==
  ASSUME IInv, Wired, NEW reason \in Reason, Fatal(chan, channels, reason),
         reader.at = "read", reader'.at = "stopped", UNCHANGED <<tail, flushed, srv>>,
         inbox' = inbox \/ (inbox # <<>> /\ inbox' = Tail(inbox)), NEW d \in Channel
  PROVE  Seen(d)'
<1>2. Seen(d) /\ Shared /\ inbox \in Seq(Message)
  BY DEF Wired, IInv, QueuesOK
<1>3. /\ Ends(chan[d], chan'[d]) /\ chan'[d].begin = chan[d].begin
      /\ terminal' # "no" /\ channels' = {}
  BY <1>2, FatalAll
<1>4. Waits(d)' = Waits(d) /\ Waited(d)' = Waited(d)
  BY Waiting, WaitingNext
<1> QED
  BY <1>2, <1>3, <1>4, SeenDead

LEMMA ReadFailSeen ==
  ASSUME IInv, Wired, ReadFail, NEW d \in Channel
  PROVE  Seen(d)'
<1>1. /\ Fatal(chan, channels, "transport") /\ "transport" \in Reason /\ reader.at = "read"
      /\ reader' = [reader EXCEPT !.at = "stopped"] /\ UNCHANGED <<tail, flushed, srv, inbox>>
  BY DEF ReadFail, srvVars, Reason
<1>2. reader'.at = "stopped"
  BY <1>1 DEF IInv, QueuesOK, ReaderState
<1> QED
  BY <1>1, <1>2, StopSeen

LEMMA RecvErrorSeen ==
  ASSUME IInv, Wired, RecvError, NEW d \in Channel
  PROVE  Seen(d)'
<1>1. /\ Fatal(chan, channels, RouteError) /\ RouteError \in Reason /\ reader.at = "read"
      /\ reader'.at = "stopped" /\ UNCHANGED <<tail, flushed, srv>>
      /\ inbox # <<>> /\ inbox' = Tail(inbox)
  BY RouteErrorType DEF RecvError, Receive, ReaderAt
<1> QED
  BY <1>1, StopSeen

-----------------------------------------------------------------------------
(* The calls of the user, and #begin.                                      *)

LEMMA Written ==
  ASSUME NEW type \in ClientType, NEW c \in Channel, NEW n \in Nat, NEW by \in Owner, Write(type, c, n, by)
  PROVE  \E p \in Packet : /\ tail' = Append(tail, p)
                           /\ p.type = type /\ p.ch = c /\ p.n = n /\ p.by = by
  BY DEF Write, Packet

\* A step that touches one channel leaves what the others see alone.
LEMMA OthersSeen ==
  ASSUME IInv, Wired, NEW c, NEW d \in Channel, d # c,
         chan'[d] = chan[d], srv'[d] = srv[d], d \in channels' <=> d \in channels,
         terminal' = terminal, Waits(d)' = Waits(d), Waited(d)' = Waited(d), flushed' = flushed,
         tail' = tail \/ \E p \in Packet : tail' = Append(tail, p) /\ p.ch = c,
         inbox' = inbox \/ (inbox # <<>> /\ inbox' = Tail(inbox) /\ Head(inbox).ch = c)
  PROVE  Seen(d)'
<1>1. Seen(d) /\ Shared /\ tail \in Seq(Packet) /\ inbox \in Seq(Message)
  BY DEF Wired, IInv, QueuesOK
<1>2. FlushedFor(d)' <=> FlushedFor(d)
  BY <1>1, FlushedNext
<1>3. TailOther(d) /\ InboxOther(d)
  BY DEF TailOther, InboxOther, For
<1>4. Untouched(d)
  BY <1>2 DEF Untouched
<1> QED
  BY <1>1, <1>3, <1>4, SeenOther

LEMMA RunSeen ==
  ASSUME IInv, Wired, Run, NEW d \in Channel
  PROVE  Seen(d)'
<1> DEFINE c == nextLocalChannel
<1>1. /\ terminal = "no" /\ c \in Channel /\ channels' = channels \cup {c}
      /\ chan' = [chan EXCEPT ![c] = Opening] /\ tail' = Append(tail, OpenPacket(c))
      /\ UNCHANGED <<terminal, flushed, reader, srv, inbox>>
  BY DEF Run, Write, Opening, OpenPacket, srvVars
<1>2. Seen(d) /\ Shared /\ chan \in [Channel -> ChannelState] /\ tail \in Seq(Packet)
  BY DEF Wired, IInv, QueuesOK, ChannelsOK
<1>3. OpenPacket(c) \in Packet /\ OpenPacket(c).ch = c /\ For(OpenPacket(c), c)
  BY <1>1, InitialWindowNat DEF OpenPacket, Packet, ClientType, Owner, For
<1>4. Waits(d)' = Waits(d) /\ Waited(d)' = Waited(d)
  BY <1>1, WaitingNext
<1>5. CASE d # c
  <2>1. chan'[d] = chan[d] /\ (d \in channels' <=> d \in channels)
    BY <1>1, <1>2, <1>5
  <2> QED
    BY <1>1, <1>3, <1>4, <1>5, <2>1, OthersSeen
<1>6. CASE d = c
  <2>1. PICK m \in BOOLEAN, l \in BOOLEAN, f \in BOOLEAN :
          /\ l <=> terminal = "no"
          /\ f <=> FlushedFor(d)
          /\ View(d, tail, inbox, chan[d], m, l, Waits(d), Waited(d), f, srv[d])
    BY <1>2 DEF Seen
  <2>2. l = TRUE
    BY <1>1, <2>1
  <2>3. chan[d].begin = "none"
    BY <1>1, <1>6 DEF Shared, Wired, IInv, ChannelsOK, Channel
  <2> DEFINE x == chan[d]
             p == OpenPacket(c)
             r == Waits(d)
             n == Waited(d)
             v == srv[d]
  <2>4. \A w, q : OnWire(x, m, TRUE, r, n, f, w, v, q) => OnWire(Opening, TRUE, TRUE, r, n, f, Append(w, p), v, q)
    BY <1>1, <2>3, RunWire
  <2>5. View(d, tail, inbox, x, m, TRUE, r, n, f, v)
    BY <2>1, <2>2
  <2>5a. p \in Packet /\ For(p, d)
    BY <1>3, <1>6
  <2> HIDE DEF x, p, r, n, v, c
  <2>6. View(d, Append(tail, p), inbox, Opening, TRUE, TRUE, r, n, f, v)
    BY <1>2, <2>4, <2>5, <2>5a, ViewPut
  <2>7. chan'[d] = Opening /\ srv'[d] = srv[d] /\ d \in channels' /\ terminal' = "no"
    BY <1>1, <1>2, <1>6
  <2>8. FlushedFor(d)' <=> FlushedFor(d)
    BY <1>1, <1>2, <1>3, FlushedNext
  <2>9. View(d, tail', inbox', chan'[d], TRUE, TRUE, Waits(d)', Waited(d)', f, srv'[d])
    BY <1>1, <1>4, <2>6, <2>7 DEF r, n, v, p
  <2> QED
    BY <2>1, <2>7, <2>8, <2>9, SeenNext
<1> QED
  BY <1>5, <1>6

\* The command ends: its channel is closing, and CLOSE is queued when it is due.
Halted(z, y, b) ==
  /\ b \in Begin \ {"none"}
  /\ \/ y = [Closing(Rejected(z)) EXCEPT !.cancelled = TRUE] /\ b = z.begin
     \/ y = [Closing(Rejected(z)) EXCEPT !.begin = b]
     \/ y = Closing(Rejected(z)) /\ b = z.begin

LEMMA EndedClosing ==
  ASSUME NEW x, NEW z, Same(x, z), NEW b, NEW y, Halted(z, y, b)
  PROVE  Ended(x, y) /\ y.begin = b /\ y.reply = z.reply
<1> DEFINE k == Settle(z.result, "rejected")
           s == z.sentClose \/ z.remote
<1>1. k \in Promise /\ s \in BOOLEAN /\ k = Settle(x.result, "rejected") /\ z \in ChannelState
  BY DEF Settle, Promise, ChannelState, Same
<1>2. Rejected(z) = [z EXCEPT !.result = k]
  BY DEF Rejected
<1> HIDE DEF k
<1> DEFINE u == Rejected(z)
<1>3. /\ u \in ChannelState /\ u.begin = z.begin /\ u.opened = z.opened /\ u.reply = z.reply
      /\ u.result = k /\ u.remote = z.remote /\ u.receivedEof = z.receivedEof
      /\ u.sentClose = z.sentClose /\ u.receivedClose = z.receivedClose
      /\ u.exited = z.exited /\ u.output = z.output /\ u.window = z.window
  BY <1>1, <1>2 DEF ChannelState
<1> HIDE DEF u
<1> DEFINE c == Closing(u)
<1>4. c = [u EXCEPT !.closing = TRUE, !.sentClose = s]
  BY <1>3 DEF Closing
<1> HIDE DEF s
<1>5. /\ c \in ChannelState /\ c.begin = u.begin /\ c.opened = u.opened /\ c.reply = u.reply
      /\ c.result = u.result /\ c.remote = u.remote /\ c.receivedEof = u.receivedEof
      /\ c.sentClose = s /\ c.receivedClose = u.receivedClose /\ c.closing
      /\ c.exited = u.exited /\ c.output = u.output /\ c.window = u.window
  BY <1>1, <1>3, <1>4 DEF ChannelState
<1>6. /\ b \in Begin \ {"none"}
      /\ \/ y = [c EXCEPT !.cancelled = TRUE] /\ b = z.begin
         \/ y = [c EXCEPT !.begin = b]
         \/ y = c /\ b = z.begin
  BY DEF u, Halted
<1> HIDE DEF c
<1>7. /\ y \in ChannelState /\ y.begin = b /\ y.opened = c.opened /\ y.reply = c.reply
      /\ y.result = c.result /\ y.remote = c.remote /\ y.receivedEof = c.receivedEof
      /\ y.sentClose = c.sentClose /\ y.receivedClose = c.receivedClose /\ y.closing
      /\ y.exited = c.exited /\ y.output = c.output /\ y.window = c.window
  <2>1. CASE y = [c EXCEPT !.cancelled = TRUE] /\ b = z.begin
    BY <1>3, <1>5, <2>1 DEF ChannelState
  <2>2. CASE y = [c EXCEPT !.begin = b]
    BY <1>3, <1>5, <1>6, <2>2 DEF ChannelState
  <2>3. CASE y = c /\ b = z.begin
    BY <1>3, <1>5, <2>3
  <2> QED
    BY <1>6, <2>1, <2>2, <2>3
<1>8. s = (x.sentClose \/ x.remote)
  BY DEF s, Same
<1>9. b # "none"
  BY <1>6
<1> QED
  BY <1>1, <1>3, <1>5, <1>7, <1>8, <1>9 DEF Ended, Same

LEMMA SameSelf ==
  ASSUME NEW x \in ChannelState, x.begin # "none"
  PROVE  Same(x, x)
  BY DEF Same

LEMMA AnyClose == \E p \in Packet : p.type = "CLOSE" /\ p.n = 0 /\ p.by = "reader"
<1>1. [type |-> "CLOSE", ch |-> 0, n |-> 0, by |-> "reader"] \in Packet
  BY MuxAssumption DEF Packet, ClientType, Owner, Channel
<1> QED
  BY <1>1

\* ClosingWire where #begin goes on.
LEMMA EndWire ==
  ASSUME NEW x, NEW y, NEW m, NEW l, NEW r, NEW n, NEW f, NEW w, NEW v, NEW q,
         OnWire(x, m, l, r, n, f, w, v, q), Ended(x, y), y.begin = x.begin, y.reply = x.reply,
         ~(l /\ MustSendClose(x))
  PROVE  OnWire(y, m, l, r, n, f, w, v, q)
<1>1. Begun(x, w, v) /\ w \in Seq(Packet)
  BY DEF OnWire, Typed
<1>2. PICK p \in Packet : p.type = "CLOSE" /\ p.n = 0
  BY AnyClose
<1>3. Begun(y, w, v)
  BY <1>1, <1>2, BegunClosing
<1> QED
  BY <1>2, <1>3, ClosingWire

LEMMA EndCloseWire ==
  ASSUME NEW x, NEW y, NEW m, NEW l, NEW r, NEW n, NEW f, NEW w, NEW v, NEW q,
         OnWire(x, m, l, r, n, f, w, v, q), Ended(x, y), y.begin = x.begin, y.reply = x.reply,
         l /\ MustSendClose(x), NEW p \in Packet, p.type = "CLOSE", p.n = 0, p.by # "begin"
  PROVE  OnWire(y, m, l, r, n, f, Append(w, p), v, q)
<1> DEFINE t == Append(w, p)
<1>1. Begun(x, w, v) /\ w \in Seq(Packet)
  BY DEF OnWire, Typed
<1>2. t = Append(w, p)
  OBVIOUS
<1> HIDE DEF t
<1>3. Begun(y, t, v)
  BY <1>1, <1>2, BegunClosing
<1>4. OnWire(y, m, l, r, n, f, t, v, q)
  BY <1>2, <1>3, ClosingWire
<1> QED
  BY <1>4 DEF t

LEMMA CancelSeen ==
  ASSUME IInv, Wired, NEW c \in Channel, Cancel(c), NEW d \in Channel
  PROVE  Seen(d)'
<1> DEFINE x == chan[c]
           y == [Closing(Rejected(x)) EXCEPT !.cancelled = TRUE]
<1>1. /\ x.result = "pending" /\ chan' = [chan EXCEPT ![c] = y]
      /\ WriteCloseIfDue(c, "cancel")
      /\ UNCHANGED <<channels, terminal, flushed, reader, srv, inbox>>
  BY DEF Cancel, muxVars, srvVars
<1>2. Seen(d) /\ Shared /\ chan \in [Channel -> ChannelState] /\ tail \in Seq(Packet) /\ Seen(c)
  BY DEF Wired, IInv, QueuesOK, ChannelsOK
<1>3. Waits(d)' = Waits(d) /\ Waited(d)' = Waited(d)
  BY <1>1, WaitingNext
<1>4. \/ MustSendClose(x) /\ \E p \in Packet : /\ tail' = Append(tail, p) /\ p.ch = c
                                               /\ p.type = "CLOSE" /\ p.n = 0 /\ p.by = "cancel"
      \/ ~MustSendClose(x) /\ tail' = tail
  BY <1>1, Written DEF WriteCloseIfDue, ClientType, Owner
<1>5. CASE d # c
  <2>1. chan'[d] = chan[d]
    BY <1>1, <1>2, <1>5
  <2> QED
    BY <1>1, <1>3, <1>4, <1>5, <2>1, OthersSeen
<1>6. CASE d = c
  <2>1. PICK m \in BOOLEAN, l \in BOOLEAN, f \in BOOLEAN :
          /\ m <=> d \in channels
          /\ l <=> terminal = "no"
          /\ f <=> FlushedFor(d)
          /\ View(d, tail, inbox, chan[d], m, l, Waits(d), Waited(d), f, srv[d])
    BY <1>2 DEF Seen
  <2>2. l /\ x.begin # "none" /\ x \in ChannelState
    BY <1>1, <1>2, <1>6, <2>1, SeenFacts
  <2> DEFINE r == Waits(d)
             n == Waited(d)
             v == srv[d]
  <2>3. chan'[d] = y
    BY <1>1, <1>2, <1>6
  <2>4. View(d, tail, inbox, x, m, l, r, n, f, v)
    BY <1>6, <2>1
  <2>5. Ended(x, y) /\ y.begin = x.begin /\ y.reply = x.reply
    <3>1. Same(x, x)
      BY <2>2, SameSelf
    <3>2. Halted(x, y, x.begin)
      BY <2>2 DEF Halted, ChannelState
    <3> HIDE DEF x, y
    <3> QED
      BY <3>1, <3>2, EndedClosing
  <2> HIDE DEF x, y, r, n, v
  <2>6. (FlushedFor(d)' <=> FlushedFor(d)) /\ View(d, tail', inbox, y, m, l, r, n, f, v)
    <3>1. CASE MustSendClose(x)
      <4>1. PICK p \in Packet : /\ tail' = Append(tail, p) /\ p.ch = c
                                /\ p.type = "CLOSE" /\ p.n = 0 /\ p.by = "cancel"
        BY <1>4, <3>1
      <4>2. For(p, d)
        BY <1>6, <4>1 DEF For
      <4>3. \A w, q : OnWire(x, m, l, r, n, f, w, v, q) => OnWire(y, m, l, r, n, f, Append(w, p), v, q)
        BY <2>2, <2>5, <3>1, <4>1, EndCloseWire
      <4>4. View(d, Append(tail, p), inbox, y, m, l, r, n, f, v)
        BY <1>2, <2>4, <4>2, <4>3, ViewPut
      <4> QED
        BY <1>1, <1>2, <4>1, <4>4, FlushedNext
    <3>2. CASE ~MustSendClose(x)
      <4>1. \A w, q : OnWire(x, m, l, r, n, f, w, v, q) => OnWire(y, m, l, r, n, f, w, v, q)
        BY <2>5, <3>2, EndWire
      <4>2. View(d, tail, inbox, y, m, l, r, n, f, v)
        BY <2>4, <4>1, ViewStay
      <4> QED
        BY <1>1, <1>2, <1>4, <3>2, <4>2, FlushedNext
    <3> QED
      BY <3>1, <3>2
  <2>7. View(d, tail', inbox', chan'[d], m, l, Waits(d)', Waited(d)', f, srv'[d])
    BY <1>1, <1>3, <2>3, <2>6 DEF r, n, v
  <2> QED
    BY <1>1, <2>1, <2>6, <2>7, SeenNext
<1> QED
  BY <1>5, <1>6

\* The catch block of #begin, where it has nothing to write.
Caught(z) == [(IF z.cancelled THEN z ELSE Closing(Rejected(z))) EXCEPT !.begin = "done"]
Suspends(x) == x.begin \in {"awaitOpened", "awaitReply"}

LEMMA CaughtWire ==
  ASSUME NEW x, NEW z, NEW m, NEW l, NEW r, NEW n, NEW f, NEW w, NEW v, NEW q,
         OnWire(x, m, l, r, n, f, w, v, q), Suspends(x), Same(x, z), z.begin = x.begin,
         z.reply = x.reply \/ (~l /\ x.reply = "none" /\ z.reply = "pending"),
         z.cancelled \/ ~(l /\ MustSendClose(x)), NEW y, y = Caught(z)
  PROVE  OnWire(y, m, l, r, n, f, w, v, q)
<1>1. Begun(x, w, v) /\ w \in Seq(Packet) /\ (~l => ~m)
  BY DEF OnWire, Typed
<1>2. \A i \in DOMAIN w : w[i].by # "begin"
  BY <1>1, NoneOfBegin DEF Suspends, Writing
<1>3. z.reply = x.reply \/ ~m
  BY <1>1
<1>4. PICK p \in Packet : p.type = "CLOSE" /\ p.n = 0
  <2>1. [type |-> "CLOSE", ch |-> 0, n |-> 0, by |-> "cancel"] \in Packet
    BY MuxAssumption DEF Packet, ClientType, Owner, Channel
  <2> QED
    BY <2>1
<1>5. CASE z.cancelled
  <2>1. y = [z EXCEPT !.begin = "done"]
    BY <1>5 DEF Caught
  <2>2. Same(x, y) /\ y.begin = "done" /\ y.reply = z.reply
    BY <2>1 DEF Same, ChannelState, Begin
  <2>3. Begun(y, w, v)
    BY <1>1, <1>2, <2>2, BegunDone DEF Same
  <2> QED
    BY <1>3, <2>2, <2>3, SameWire
<1>6. CASE ~z.cancelled
  <2>1. y = [Closing(Rejected(z)) EXCEPT !.begin = "done"]
    BY <1>6 DEF Caught
  <2>2. Ended(x, y) /\ y.begin = "done" /\ y.reply = z.reply
    <3>1. Halted(z, y, "done")
      BY <2>1 DEF Halted, Begin
    <3> QED
      BY <3>1, EndedClosing
  <2>3. Begun(y, w, v)
    BY <1>1, <1>2, <2>2, BegunDone DEF Ended
  <2>4. ~(l /\ MustSendClose(x))
    BY <1>6
  <2> QED
    BY <1>3, <1>4, <2>2, <2>3, <2>4, ClosingWire
<1> QED
  BY <1>5, <1>6

\* The catch block of #begin, where it writes CLOSE.
LEMMA CatchWire ==
  ASSUME NEW x, NEW y, NEW m, NEW l, NEW r, NEW n, NEW f, NEW w, NEW v, NEW q,
         OnWire(x, m, l, r, n, f, w, v, q), Suspends(x), l /\ MustSendClose(x),
         Ended(x, y), y.begin = "closing", y.reply = x.reply,
         NEW p \in Packet, p.type = "CLOSE", p.n = 0, p.by = "begin"
  PROVE  OnWire(y, m, l, r, n, f, Append(w, p), v, q)
<1> DEFINE t == Append(w, p)
<1>1. Begun(x, w, v) /\ w \in Seq(Packet)
  BY DEF OnWire, Typed
<1>2. \A i \in DOMAIN w : w[i].by # "begin" /\ w[i].type \notin {"OPEN", "EXEC", "EOF"}
  BY <1>1, NoneOfBegin DEF Suspends, Writing
<1>3. t = Append(w, p)
  OBVIOUS
<1>4. Extends(w, p, t, Len(w) + 1)
  BY <1>1, Extended
<1> HIDE DEF t
<1>5. \A i \in DOMAIN t : (t[i].by # "begin" /\ t[i].type \notin {"OPEN", "EXEC", "EOF"}) \/ t[i] = p
  BY <1>2, <1>4 DEF Extends
<1>6. Begun(y, t, v)
  <2>1. x.remote
    BY DEF MustSendClose
  <2>2. x.begin # "none" /\ x.begin \in {"awaitOpened", "awaitReply"}
    BY DEF Suspends
  <2>3. \A i \in DOMAIN t : /\ t[i].by = "begin" => y.begin \in Writing /\ t[i].type = TypeAt[y.begin]
                            /\ t[i].type \in {"OPEN", "EXEC", "EOF"} => t[i].by = "begin"
    BY <1>5 DEF Writing, TypeAt
  <2> QED
    BY <1>1, <2>1, <2>2, <2>3 DEF Begun, Ended
<1>7. OnWire(y, m, l, r, n, f, t, v, q)
  BY <1>3, <1>6, ClosingWire
<1> QED
  BY <1>7 DEF t

\* A step that changes one channel object, and may queue a packet for it.
StaysOnWire(d, y) ==
  \A m, l, f, w, q :
    OnWire(chan[d], m, l, Waits(d), Waited(d), f, w, srv[d], q) /\ (l <=> terminal = "no")
      => OnWire(y, m, l, Waits(d), Waited(d), f, w, srv[d], q)
PutsOnWire(d, y, p) ==
  \A m, l, f, w, q :
    OnWire(chan[d], m, l, Waits(d), Waited(d), f, w, srv[d], q) /\ (l <=> terminal = "no")
      => OnWire(y, m, l, Waits(d), Waited(d), f, Append(w, p), srv[d], q)

LEMMA OwnStay ==
  ASSUME NEW d, Seen(d), Shared, tail \in Seq(Packet), NEW y, chan'[d] = y,
         UNCHANGED <<channels, terminal, flushed, reader, srv, inbox>>, tail' = tail,
         StaysOnWire(d, y)
  PROVE  Seen(d)'
<1>1. PICK m \in BOOLEAN, l \in BOOLEAN, f \in BOOLEAN :
        /\ m <=> d \in channels
        /\ l <=> terminal = "no"
        /\ f <=> FlushedFor(d)
        /\ View(d, tail, inbox, chan[d], m, l, Waits(d), Waited(d), f, srv[d])
  BY DEF Seen
<1> DEFINE x == chan[d]
           r == Waits(d)
           n == Waited(d)
           v == srv[d]
<1>2. \A w, q : OnWire(x, m, l, r, n, f, w, v, q) => OnWire(y, m, l, r, n, f, w, v, q)
  BY <1>1 DEF StaysOnWire
<1>3. View(d, tail, inbox, x, m, l, r, n, f, v)
  BY <1>1
<1>4. Waits(d)' = r /\ Waited(d)' = n /\ srv'[d] = v
  BY WaitingNext
<1>5. FlushedFor(d)' <=> FlushedFor(d)
  BY FlushedNext
<1> HIDE DEF x, r, n, v
<1>6. View(d, tail, inbox, y, m, l, r, n, f, v)
  BY <1>2, <1>3, ViewStay
<1>7. View(d, tail', inbox', chan'[d], m, l, Waits(d)', Waited(d)', f, srv'[d])
  BY <1>4, <1>6
<1> QED
  BY <1>1, <1>5, <1>7, SeenNext

LEMMA OwnPut ==
  ASSUME NEW d, Seen(d), Shared, tail \in Seq(Packet), NEW y, chan'[d] = y,
         UNCHANGED <<channels, terminal, flushed, reader, srv, inbox>>,
         NEW p \in Packet, For(p, d), tail' = Append(tail, p),
         PutsOnWire(d, y, p)
  PROVE  Seen(d)'
<1>1. PICK m \in BOOLEAN, l \in BOOLEAN, f \in BOOLEAN :
        /\ m <=> d \in channels
        /\ l <=> terminal = "no"
        /\ f <=> FlushedFor(d)
        /\ View(d, tail, inbox, chan[d], m, l, Waits(d), Waited(d), f, srv[d])
  BY DEF Seen
<1> DEFINE x == chan[d]
           r == Waits(d)
           n == Waited(d)
           v == srv[d]
<1>2. \A w, q : OnWire(x, m, l, r, n, f, w, v, q) => OnWire(y, m, l, r, n, f, Append(w, p), v, q)
  BY <1>1 DEF PutsOnWire
<1>3. View(d, tail, inbox, x, m, l, r, n, f, v)
  BY <1>1
<1>4. Waits(d)' = r /\ Waited(d)' = n /\ srv'[d] = v
  BY WaitingNext
<1>5. FlushedFor(d)' <=> FlushedFor(d)
  BY FlushedNext
<1> HIDE DEF x, r, n, v
<1>6. View(d, Append(tail, p), inbox, y, m, l, r, n, f, v)
  BY <1>2, <1>3, ViewPut
<1>7. View(d, tail', inbox', chan'[d], m, l, Waits(d)', Waited(d)', f, srv'[d])
  BY <1>4, <1>6
<1> QED
  BY <1>1, <1>5, <1>7, SeenNext

\* What a resumption of #begin makes of its channel, when it writes nothing.
Resumption(c, at, promise, ch, type, next) ==
  \/ /\ at = "awaitOpened" /\ promise = chan[c].opened /\ type = "EXEC" /\ next = "requesting"
     /\ ch = [chan[c] EXCEPT !.reply = "pending"]
  \/ /\ at = "awaitReply" /\ promise = chan[c].reply /\ type = "EOF" /\ next = "sendingEof"
     /\ ch = [chan[c] EXCEPT !.sentEof = TRUE]

LEMMA ResumeSeen ==
  ASSUME IInv, Wired, NEW c \in Channel, NEW at \in {"awaitOpened", "awaitReply"}, NEW promise,
         NEW ch, NEW type, NEW next, Resume(c, at, promise, ch, type, next),
         Resumption(c, at, promise, ch, type, next),
         NEW d \in Channel
  PROVE  Seen(d)'
<1> DEFINE x == chan[c]
<1>1. /\ x.begin = at /\ promise # "pending" /\ Suspends(x)
      /\ UNCHANGED <<channels, terminal, flushed, reader, srv, inbox>>
  BY DEF Resume, Suspends, muxVars, srvVars
<1>2. Seen(d) /\ Seen(c) /\ Shared /\ chan \in [Channel -> ChannelState] /\ tail \in Seq(Packet)
  BY DEF Wired, IInv, QueuesOK, ChannelsOK
<1>3. Waits(d)' = Waits(d) /\ Waited(d)' = Waited(d)
  BY <1>1, WaitingNext
<1>4. x \in ChannelState /\ x.begin # "none" /\ Same(x, x)
  BY <1>1, <1>2, SeenFacts, SameSelf
<1>5. /\ Same(x, ch) /\ ch.begin = x.begin /\ type \in ClientType /\ next \in Begin \ {"none"}
      /\ \/ /\ at = "awaitOpened" /\ promise = x.opened /\ type = "EXEC" /\ next = "requesting"
            /\ ch.reply = "pending"
         \/ /\ at = "awaitReply" /\ promise = x.reply /\ type = "EOF" /\ next = "sendingEof"
            /\ ch.reply = x.reply
  <2>1. CASE at = "awaitOpened"
    <3>1. ch = [x EXCEPT !.reply = "pending"] /\ promise = x.opened /\ type = "EXEC" /\ next = "requesting"
      BY <2>1 DEF Resumption
    <3>2. Same(x, ch) /\ ch.begin = x.begin /\ ch.reply = "pending"
      BY <1>4, <3>1 DEF Same, ChannelState, Promise
    <3> QED
      BY <2>1, <3>1, <3>2 DEF ClientType, Begin
  <2>2. CASE at = "awaitReply"
    <3>1. ch = [x EXCEPT !.sentEof = TRUE] /\ promise = x.reply /\ type = "EOF" /\ next = "sendingEof"
      BY <2>2 DEF Resumption
    <3>2. Same(x, ch) /\ ch.begin = x.begin /\ ch.reply = x.reply
      BY <1>4, <3>1 DEF Same, ChannelState
    <3> QED
      BY <2>2, <3>1, <3>2 DEF ClientType, Begin
  <2> QED
    BY <2>1, <2>2
\* The three outcomes.
<1>6. \/ \E z : /\ chan' = [chan EXCEPT ![c] = Caught(z)] /\ tail' = tail
                /\ z.cancelled \/ ~(terminal = "no" /\ MustSendClose(x))
                /\ z = x \/ (terminal # "no" /\ z = ch)
      \/ /\ terminal = "no" /\ MustSendClose(x)
         /\ chan' = [chan EXCEPT ![c] = [Closing(Rejected(x)) EXCEPT !.begin = "closing"]]
         /\ Write("CLOSE", c, 0, "begin")
      \/ /\ terminal = "no" /\ promise # "rejected"
         /\ chan' = [chan EXCEPT ![c] = [ch EXCEPT !.begin = next]]
         /\ Write(type, c, 0, "begin")
  <2>1. CASE promise = "rejected"
    BY <2>1 DEF Resume, CatchBegin, Caught
  <2>2. CASE promise # "rejected" /\ x.cancelled
    <3>1. chan' = [chan EXCEPT ![c].begin = "done"] /\ tail' = tail
      BY <2>2 DEF Resume
    <3>2. chan' = [chan EXCEPT ![c] = Caught(x)]
      BY <1>2, <2>2, <3>1 DEF Caught
    <3> QED
      BY <2>2, <3>1, <3>2
  <2>3. CASE promise # "rejected" /\ ~x.cancelled
    BY <2>3 DEF Resume, BeginWrite, CatchBegin, Caught
  <2> QED
    BY <2>1, <2>2, <2>3
<1>7. tail' = tail \/ \E p \in Packet : tail' = Append(tail, p) /\ p.ch = c
  BY <1>5, <1>6, Written DEF ClientType, Owner
<1>8. CASE d # c
  <2>1. chan'[d] = chan[d]
    BY <1>2, <1>6, <1>8
  <2> QED
    BY <1>1, <1>3, <1>7, <1>8, <2>1, OthersSeen
<1>9. CASE d = c
  <2> DEFINE r == Waits(c)
             n == Waited(c)
             v == srv[c]
  <2>1. ASSUME NEW z, chan' = [chan EXCEPT ![c] = Caught(z)], tail' = tail,
               z.cancelled \/ ~(terminal = "no" /\ MustSendClose(x)),
               z = x \/ (terminal # "no" /\ z = ch)
        PROVE  Seen(c)'
    <3> DEFINE y == Caught(z)
    <3>1. chan'[c] = y
      BY <1>2, <2>1
    <3>2. Same(x, z) /\ z.begin = x.begin
      BY <1>4, <1>5, <2>1
    <3>3. ASSUME NEW m, NEW l, NEW f, NEW w, NEW q, OnWire(x, m, l, r, n, f, w, v, q), l <=> terminal = "no"
          PROVE  OnWire(y, m, l, r, n, f, w, v, q)
      <4>1. at = "awaitOpened" => x.reply = "none"
        BY <1>1, <3>3 DEF OnWire, Begun
      <4>2. z.reply = x.reply \/ (~l /\ x.reply = "none" /\ z.reply = "pending")
        BY <1>5, <2>1, <3>3, <4>1
      <4>3. z.cancelled \/ ~(l /\ MustSendClose(x))
        BY <2>1, <3>3
      <4> HIDE DEF x, r, n, v
      <4> QED
        BY <1>1, <3>2, <3>3, <4>2, <4>3, CaughtWire
    <3>4. StaysOnWire(c, y)
      BY <3>3 DEF StaysOnWire
    <3> HIDE DEF y
    <3> QED
      BY <1>1, <1>2, <2>1, <3>1, <3>4, OwnStay
  <2>2. ASSUME terminal = "no", MustSendClose(x), Write("CLOSE", c, 0, "begin"),
               chan' = [chan EXCEPT ![c] = [Closing(Rejected(x)) EXCEPT !.begin = "closing"]]
        PROVE  Seen(c)'
    <3> DEFINE y == [Closing(Rejected(x)) EXCEPT !.begin = "closing"]
    <3>1. chan'[c] = y
      BY <1>2, <2>2
    <3>2. Ended(x, y) /\ y.begin = "closing" /\ y.reply = x.reply
      <4>1. Halted(x, y, "closing")
        BY DEF Halted, Begin
      <4> HIDE DEF x, y
      <4> QED
        BY <1>4, <4>1, EndedClosing
    <3>3. PICK p \in Packet : /\ tail' = Append(tail, p) /\ p.type = "CLOSE" /\ p.ch = c
                              /\ p.n = 0 /\ p.by = "begin"
      BY <2>2, Written DEF ClientType, Owner
    <3>4. ASSUME NEW m, NEW l, NEW f, NEW w, NEW q, OnWire(x, m, l, r, n, f, w, v, q), l <=> terminal = "no"
          PROVE  OnWire(y, m, l, r, n, f, Append(w, p), v, q)
      <4>1. l /\ MustSendClose(x)
        BY <2>2, <3>4
      <4> HIDE DEF x, r, n, v, y
      <4> QED
        BY <1>1, <3>2, <3>3, <3>4, <4>1, CatchWire
    <3>5. For(p, c) /\ PutsOnWire(c, y, p)
      BY <3>3, <3>4 DEF For, PutsOnWire
    <3> HIDE DEF y
    <3> QED
      BY <1>1, <1>2, <3>1, <3>3, <3>5, OwnPut
  <2>3. ASSUME terminal = "no", promise # "rejected", Write(type, c, 0, "begin"),
               chan' = [chan EXCEPT ![c] = [ch EXCEPT !.begin = next]]
        PROVE  Seen(c)'
    <3> DEFINE y == [ch EXCEPT !.begin = next]
    <3>1. chan'[c] = y
      BY <1>2, <2>3
    <3>2. PICK p \in Packet : /\ tail' = Append(tail, p) /\ p.type = type /\ p.ch = c
                              /\ p.n = 0 /\ p.by = "begin"
      BY <1>5, <2>3, Written DEF Owner
    <3>3. /\ Same(x, y) /\ y.begin = next /\ y.reply = ch.reply
      <4> HIDE DEF x
      <4> QED
        BY <1>5 DEF Same, ChannelState
    <3>4. Requests(x, y, p, c)
      BY <1>1, <1>5, <2>3, <3>2, <3>3 DEF Requests
    <3>5. ASSUME NEW m, NEW l, NEW f, NEW w, NEW q, OnWire(x, m, l, r, n, f, w, v, q), l <=> terminal = "no"
          PROVE  OnWire(y, m, l, r, n, f, Append(w, p), v, q)
      <4> HIDE DEF x, r, n, v, y
      <4> QED
        BY <3>3, <3>4, <3>5, RequestWire
    <3>6. For(p, c) /\ PutsOnWire(c, y, p)
      BY <1>5, <3>2, <3>5 DEF For, PutsOnWire
    <3> HIDE DEF y
    <3> QED
      BY <1>1, <1>2, <3>1, <3>2, <3>6, OwnPut
  <2> QED
    BY <1>6, <1>9, <2>1, <2>2, <2>3
<1> QED
  BY <1>8, <1>9

LEMMA BeginsSeen ==
  ASSUME IInv, Wired, Begins, NEW d \in Channel
  PROVE  Seen(d)'
<1>1. PICK c \in Channel : ResumeOpened(c) \/ ResumeReplied(c)
  BY DEF Begins
<1>2. \E at \in {"awaitOpened", "awaitReply"} : \E promise, ch, type, next :
        Resume(c, at, promise, ch, type, next) /\ Resumption(c, at, promise, ch, type, next)
  <2>1. CASE ResumeOpened(c)
    <3>1. Resume(c, "awaitOpened", chan[c].opened, [chan[c] EXCEPT !.reply = "pending"], "EXEC", "requesting")
      BY <2>1 DEF ResumeOpened
    <3>2. Resumption(c, "awaitOpened", chan[c].opened, [chan[c] EXCEPT !.reply = "pending"], "EXEC", "requesting")
      BY DEF Resumption
    <3> QED
      BY <3>1, <3>2
  <2>2. CASE ResumeReplied(c)
    <3>1. Resume(c, "awaitReply", chan[c].reply, [chan[c] EXCEPT !.sentEof = TRUE], "EOF", "sendingEof")
      BY <2>2 DEF ResumeReplied
    <3>2. Resumption(c, "awaitReply", chan[c].reply, [chan[c] EXCEPT !.sentEof = TRUE], "EOF", "sendingEof")
      BY DEF Resumption
    <3> QED
      BY <3>1, <3>2
  <2> QED
    BY <1>1, <2>1, <2>2
<1> QED
  BY <1>2, ResumeSeen

-----------------------------------------------------------------------------
(* The write tail.                                                         *)

LEMMA HeadOfTail ==
  ASSUME IInv, Wired, tail # <<>>
  PROVE  /\ tail \in Seq(Packet) /\ Head(tail) \in Packet /\ Head(tail).ch \in Channel
         /\ OwnPacket(Head(tail))
         /\ Head(tail).type # "REQUEST_FAILURE" => For(Head(tail), Head(tail).ch)
         /\ \A d : For(Head(tail), d) => Head(tail).ch = d /\ Head(tail).type # "REQUEST_FAILURE"
<1>1. tail \in Seq(Packet)
  BY DEF IInv, QueuesOK
<1>2. Head(tail) = tail[1] /\ 1 \in DOMAIN tail /\ Head(tail) \in Packet
  BY <1>1, TailParts
<1>3. OwnPacket(Head(tail))
  BY <1>2 DEF Wired, Shared
<1> QED
  BY <1>1, <1>2, <1>3 DEF For, Packet, ClientType

LEMMA TransmitSeen ==
  ASSUME IInv, Wired, Transmit, NEW d \in Channel
  PROVE  Seen(d)'
<1> DEFINE p == Head(tail)
<1>1. /\ tail # <<>> /\ ~flushed /\ flushed' = TRUE
      /\ srv' = IF p.type = "REQUEST_FAILURE" THEN srv
                ELSE [srv EXCEPT ![p.ch].got = Append(@, p.type), ![p.ch].window = @ + p.n]
      /\ UNCHANGED <<channels, terminal, chan, tail, reader, inbox>>
  BY DEF Transmit, muxVars
<1>2. /\ Seen(d) /\ Shared /\ tail \in Seq(Packet) /\ inbox \in Seq(Message)
      /\ srv \in [Channel -> ServerState]
  BY DEF Wired, IInv, QueuesOK
<1>3. /\ p.ch \in Channel /\ (p.type # "REQUEST_FAILURE" => For(p, p.ch))
      /\ For(p, d) => p.ch = d /\ p.type # "REQUEST_FAILURE"
  BY <1>1, HeadOfTail
<1>4. Waits(d)' = Waits(d) /\ Waited(d)' = Waited(d)
  BY <1>1, WaitingNext
<1>5. ~FlushedFor(d) /\ (FlushedFor(d)' <=> For(p, d))
  BY <1>1 DEF FlushedFor
<1>6. CASE ~For(p, d)
  <2>1. srv'[d] = srv[d]
    <3>1. CASE p.type = "REQUEST_FAILURE"
      BY <1>1, <3>1
    <3>2. CASE p.type # "REQUEST_FAILURE"
      BY <1>1, <1>2, <1>3, <1>6, <3>2
    <3> QED
      BY <3>1, <3>2
  <2>2. Untouched(d) /\ TailOther(d) /\ InboxOther(d)
    BY <1>1, <1>4, <1>5, <1>6, <2>1 DEF Untouched, TailOther, InboxOther
  <2> QED
    BY <1>2, <2>2, SeenOther
<1>7. CASE For(p, d)
  <2>1. PICK m \in BOOLEAN, l \in BOOLEAN, f \in BOOLEAN :
          /\ m <=> d \in channels
          /\ l <=> terminal = "no"
          /\ f <=> FlushedFor(d)
          /\ View(d, tail, inbox, chan[d], m, l, Waits(d), Waited(d), f, srv[d])
    BY <1>2 DEF Seen
  <2>2. f = FALSE
    BY <1>5, <2>1
  <2> DEFINE x == chan[d]
             r == Waits(d)
             n == Waited(d)
             v == srv[d]
             y == srv'[d]
  <2>3. View(d, tail, inbox, x, m, l, r, n, FALSE, v)
    BY <2>1, <2>2
  <2>4. Transmits(v, y, p)
    <3>1. srv' = [srv EXCEPT ![d].got = Append(@, p.type), ![d].window = @ + p.n]
      BY <1>1, <1>3, <1>7
    <3> QED
      BY <1>2, <3>1 DEF Transmits
  <2> HIDE DEF x, r, n, v, y, p
  <2>5. \A w, q : OnWire(x, m, l, r, n, FALSE, w, v, q) /\ w # <<>> /\ Head(w) = p
                    => OnWire(x, m, l, r, n, TRUE, w, y, q)
    BY <2>4, TransmitWire
  <2>6. View(d, tail, inbox, x, m, l, r, n, TRUE, y)
    BY <1>1, <1>2, <1>7, <2>3, <2>5, ViewFlush DEF p
  <2>7. View(d, tail', inbox', chan'[d], m, l, Waits(d)', Waited(d)', TRUE, srv'[d])
    BY <1>1, <1>4, <2>6 DEF x, r, n, y
  <2>8. (m <=> d \in channels') /\ (l <=> terminal' = "no") /\ (TRUE <=> FlushedFor(d)')
    BY <1>1, <1>5, <1>7, <2>1
  <2> QED
    BY <2>7, <2>8, SeenNext
<1> QED
  BY <1>6, <1>7

\* The end of closeReceived with an incomplete command.
LEMMA Incomplete ==
  ASSUME IInv, NEW c \in Channel, NEW chs \in [Channel -> ChannelState], FinishClose(c, chs),
         ~(chs[c].cancelled \/ Complete(chs[c]))
  PROVE  /\ chan'[c] = Rejected(chs[c]) /\ terminal' # "no" /\ channels' = {}
         /\ reader'.at = "stopped" /\ nextLocalChannel' = nextLocalChannel
         /\ \A d \in Channel : d # c /\ Seen(d) /\ chs[d] = chan[d] =>
              Ends(chan[d], chan'[d]) /\ chan'[d].begin = chan[d].begin
<1> DEFINE chs2 == [chs EXCEPT ![c] = Rejected(@)]
           open == channels \ {c}
<1>1. Fatal(chs2, open, "incompleteExit") /\ reader'.at = "stopped" /\ "incompleteExit" \in Reason
  BY DEF FinishClose, ReaderAt, Reason
<1>2. chs2[c] = Rejected(chs[c]) /\ \A d \in Channel : d # c => chs2[d] = chs[d]
  OBVIOUS
<1>3. c \notin open /\ open \in SUBSET channels
  OBVIOUS
<1> HIDE DEF chs2, open
<1>4. terminal' # "no" /\ channels' = {} /\ nextLocalChannel' = nextLocalChannel
  <2>1. terminal # "no" => channels = {}
    BY DEF IInv, ChannelsOK
  <2> QED
    BY <1>1, <1>3, <2>1 DEF Fatal, Reason
<1>5. chan'[c] = Rejected(chs[c])
  BY <1>1, <1>2, <1>3 DEF Fatal
<1>6. ASSUME NEW d \in Channel, d # c, Seen(d), chs[d] = chan[d]
      PROVE  Ends(chan[d], chan'[d]) /\ chan'[d].begin = chan[d].begin
  <2>1. Ends(chan[d], Rejected(chan[d])) /\ chan[d] \in ChannelState
    BY <1>6, SeenFacts, EndsRejected
  <2>2. /\ chan[d].result = "pending" => d \in open
        /\ d \in open => chan[d].begin # "none"
    BY <1>6, SeenFacts DEF open
  <2>3. chs2[d] = chan[d]
    BY <1>2, <1>6
  <2> QED
    BY <1>1, <1>3, <2>1, <2>2, <2>3, FatalEnds
<1> QED
  BY <1>1, <1>4, <1>5, <1>6

LEMMA DeadView ==
  ASSUME NEW d, NEW t, NEW i, NEW x, NEW m, NEW l, NEW r, NEW n, NEW f, NEW v,
         View(d, t, i, x, m, l, r, n, f, v), NEW y, Ends(x, y), y.begin = x.begin,
         NEW m2 \in BOOLEAN, NEW l2 \in BOOLEAN, ~m2, ~l2
  PROVE  View(d, t, i, y, m2, l2, r, n, f, v)
<1>1. \A w, q : OnWire(x, m, l, r, n, f, w, v, q) => OnWire(y, m2, l2, r, n, f, w, v, q)
  BY DeadWire
<1> QED
  BY <1>1, ViewStay

LEMMA WrittenOtherSeen ==
  ASSUME IInv, Wired, WriteDone, NEW d \in Channel, ~For(Head(tail), d)
  PROVE  Seen(d)'
<1> DEFINE p == Head(tail)
<1>1. /\ tail # <<>> /\ flushed /\ tail' = Tail(tail) /\ flushed' = FALSE
      /\ UNCHANGED <<srv, inbox>>
  BY DEF WriteDone, srvVars
<1>2. /\ Seen(d) /\ Shared /\ tail \in Seq(Packet) /\ inbox \in Seq(Message)
      /\ reader \in ReaderState /\ chan \in [Channel -> ChannelState]
  BY DEF Wired, IInv, QueuesOK, ChannelsOK
<1>3. /\ p.ch \in Channel /\ (p.type # "REQUEST_FAILURE" => For(p, p.ch)) /\ OwnPacket(p)
  BY <1>1, HeadOfTail
<1>4. ~FlushedFor(d) /\ ~FlushedFor(d)'
  BY <1>1 DEF FlushedFor
<1>5. p.type # "REQUEST_FAILURE" => d # p.ch
  BY <1>3
<1>6. Reading => Waits(d)' = "no" /\ Waited(d)' = 0
  BY <1>2, WaitingNext DEF Reading, ReaderState
<1>7. ASSUME chan'[d] = chan[d], d \in channels' <=> d \in channels, terminal' = terminal,
             Waits(d)' = Waits(d), Waited(d)' = Waited(d)
      PROVE  Seen(d)'
  <2>1. Untouched(d) /\ TailOther(d) /\ InboxOther(d)
    BY <1>1, <1>4, <1>7 DEF Untouched, TailOther, InboxOther
  <2> QED
    BY <1>2, <2>1, SeenOther
<1>8. CASE p.by = "begin" /\ chan' = [chan EXCEPT ![p.ch].begin = NextWait[@]] /\ UNCHANGED <<muxVars, reader>>
  <2>1. d # p.ch
    BY <1>3, <1>5, <1>8 DEF OwnPacket
  <2>2. chan'[d] = chan[d] /\ UNCHANGED <<channels, terminal, reader>>
    BY <1>2, <1>8, <2>1 DEF muxVars
  <2> QED
    BY <1>7, <2>2, WaitingNext
<1>9. CASE p.by = "cancel" /\ UNCHANGED <<muxVars, chan, reader>>
  BY <1>7, <1>9, WaitingNext DEF muxVars
<1>10. CASE p.by = "reader" /\ reader.at = "write" /\ Reading /\ UNCHANGED <<muxVars, chan>>
  BY <1>6, <1>7, <1>10, Waiting DEF muxVars
<1>11. CASE /\ p.by = "reader" /\ reader.at = "adjust"
            /\ chan' = [chan EXCEPT ![p.ch].window = @ + p.n, ![p.ch].output = @ + p.n]
            /\ Reading /\ UNCHANGED muxVars
  <2>1. d # p.ch /\ d # reader.ch
    BY <1>3, <1>5, <1>11 DEF OwnPacket
  <2>2. chan'[d] = chan[d] /\ UNCHANGED <<channels, terminal>>
    BY <1>2, <1>11, <2>1 DEF muxVars
  <2> QED
    BY <1>6, <1>7, <1>11, <2>1, <2>2, Waiting
<1>12. CASE p.by = "reader" /\ reader.at = "close" /\ FinishClose(p.ch, chan)
  <2>1. d # p.ch /\ d # reader.ch
    BY <1>3, <1>5, <1>12 DEF OwnPacket
  <2>2. Waits(d) = "no" /\ Waited(d) = 0
    BY <2>1, Waiting
  <2>3. CASE chan[p.ch].cancelled \/ Complete(chan[p.ch])
    <3>1. /\ chan' = [chan EXCEPT ![p.ch].result = IF chan[p.ch].cancelled THEN @ ELSE Settle(@, "resolved")]
          /\ channels' = channels \ {p.ch} /\ Reading /\ terminal' = terminal
      BY <1>12, <2>3 DEF FinishClose
    <3>2. chan'[d] = chan[d] /\ (d \in channels' <=> d \in channels)
      BY <1>2, <2>1, <3>1
    <3> QED
      BY <1>6, <1>7, <2>2, <3>1, <3>2
  <2>4. CASE ~(chan[p.ch].cancelled \/ Complete(chan[p.ch]))
    <3>1. /\ terminal' # "no" /\ channels' = {} /\ reader'.at = "stopped"
          /\ Ends(chan[d], chan'[d]) /\ chan'[d].begin = chan[d].begin
      BY <1>2, <1>3, <1>12, <2>1, <2>4, Incomplete
    <3>2. Waits(d)' = "no" /\ Waited(d)' = 0
      BY <3>1, WaitingNext
    <3>3. PICK m \in BOOLEAN, l \in BOOLEAN, f \in BOOLEAN :
            /\ f <=> FlushedFor(d)
            /\ View(d, tail, inbox, chan[d], m, l, Waits(d), Waited(d), f, srv[d])
      BY <1>2 DEF Seen
    <3>4. View(d, Tail(tail), inbox, chan[d], m, l, Waits(d), Waited(d), f, srv[d])
      BY <1>1, <1>2, <3>3, ViewOtherDrop
    <3>5. PICK m2 \in BOOLEAN, l2 \in BOOLEAN : ~m2 /\ ~l2
      OBVIOUS
    <3>6. View(d, Tail(tail), inbox, chan'[d], m2, l2, Waits(d), Waited(d), f, srv[d])
      BY <3>1, <3>4, <3>5, DeadView
    <3>7. View(d, tail', inbox', chan'[d], m2, l2, Waits(d)', Waited(d)', f, srv'[d])
      BY <1>1, <2>2, <3>2, <3>6
    <3> QED
      BY <1>4, <3>1, <3>3, <3>5, <3>7, SeenNext
  <2> QED
    BY <2>3, <2>4
<1> QED
  BY <1>8, <1>9, <1>10, <1>11, <1>12 DEF WriteDone

LEMMA HeadAdjust ==
  ASSUME NEW x, NEW m, NEW l, NEW r, NEW n, NEW w, NEW v, NEW q,
         OnWire(x, m, l, r, n, TRUE, w, v, q), Head(w).type = "ADJUST"
  PROVE  Head(w).by = "reader" /\ r = "adjust"
<1>1. w \in Seq(Packet) /\ w # <<>> /\ Queued(x, r, n, TRUE, w, v)
  BY DEF OnWire, Typed
<1>2. Head(w) = w[1] /\ 1 \in DOMAIN w
  BY <1>1, TailIn
<1> QED
  BY <1>1, <1>2 DEF Queued

\* The first packet, p, is written and the server gets it.
PopsTo(x, m, l, r, n, p, v, y, m2, l2, r2, n2) ==
  \A w, q : OnWire(x, m, l, r, n, TRUE, w, v, q) /\ w # <<>> /\ Head(w) = p
               => OnWire(y, m2, l2, r2, n2, FALSE, Tail(w), v, q)

LEMMA PopStay ==
  ASSUME NEW x, NEW m, NEW l, NEW r, NEW n, NEW p, NEW v, p.by # "reader" \/ r # "adjust"
  PROVE  PopsTo(x, m, l, r, n, p, v, x, m, l, r, n)
<1>1. ASSUME NEW w, NEW q, OnWire(x, m, l, r, n, TRUE, w, v, q), w # <<>>, Head(w) = p
      PROVE  OnWire(x, m, l, r, n, FALSE, Tail(w), v, q)
  <2>1. Head(w).type # "ADJUST"
    BY <1>1, HeadAdjust
  <2> QED
    BY <1>1, <2>1, PopWire
<1> QED
  BY <1>1 DEF PopsTo

LEMMA PopGoesOn ==
  ASSUME NEW x, NEW m, NEW l, NEW r, NEW n, NEW p, NEW v, NEW y, p.by = "begin", GoesOn(x, y)
  PROVE  PopsTo(x, m, l, r, n, p, v, y, m, l, r, n)
<1>1. ASSUME NEW w, NEW q, OnWire(x, m, l, r, n, TRUE, w, v, q), w # <<>>, Head(w) = p
      PROVE  OnWire(y, m, l, r, n, FALSE, Tail(w), v, q)
  BY <1>1, WrittenWire
<1> QED
  BY <1>1 DEF PopsTo

LEMMA PopCredit ==
  ASSUME NEW x, NEW m, NEW l, NEW n, NEW p, NEW v, NEW y, p.type = "ADJUST", Credits(x, y, n)
  PROVE  PopsTo(x, m, l, "adjust", n, p, v, y, m, l, "no", 0)
<1>1. ASSUME NEW w, NEW q, OnWire(x, m, l, "adjust", n, TRUE, w, v, q), w # <<>>, Head(w) = p
      PROVE  OnWire(y, m, l, "no", 0, FALSE, Tail(w), v, q)
  BY <1>1, CreditWire
<1> QED
  BY <1>1 DEF PopsTo

LEMMA PopFinish ==
  ASSUME NEW x, NEW m, NEW l, NEW n, NEW p, NEW v, NEW y, p.type = "CLOSE", Finishes(x, y),
         NEW m2 \in BOOLEAN, ~m2
  PROVE  PopsTo(x, m, l, "close", n, p, v, y, m2, l, "no", 0)
<1>1. ASSUME NEW w, NEW q, OnWire(x, m, l, "close", n, TRUE, w, v, q), w # <<>>, Head(w) = p
      PROVE  OnWire(y, m2, l, "no", 0, FALSE, Tail(w), v, q)
  <2> DEFINE t == Tail(w)
  <2>1. OnWire(x, m, l, "close", n, FALSE, t, v, q) /\ Got(v, "CLOSE")
    BY <1>1, PopWire
  <2> HIDE DEF t
  <2>2. OnWire(y, m2, l, "no", 0, FALSE, t, v, q)
    BY <2>1, FinishWire
  <2> QED
    BY <2>2 DEF t
<1> QED
  BY <1>1 DEF PopsTo

LEMMA PopDead ==
  ASSUME NEW x, NEW m, NEW l, NEW n, NEW p, NEW v, NEW y, p.type = "CLOSE",
         Ends(x, y), y.begin = x.begin
  PROVE  PopsTo(x, m, l, "close", n, p, v, y, FALSE, FALSE, "no", 0)
<1>1. ASSUME NEW w, NEW q, OnWire(x, m, l, "close", n, TRUE, w, v, q), w # <<>>, Head(w) = p
      PROVE  OnWire(y, FALSE, FALSE, "no", 0, FALSE, Tail(w), v, q)
  <2> DEFINE t == Tail(w)
  <2>1. OnWire(x, m, l, "close", n, FALSE, t, v, q)
    BY <1>1, PopWire
  <2> HIDE DEF t
  <2>2. OnWire(y, FALSE, FALSE, "no", 0, FALSE, t, v, q)
    BY <2>1, StoppedWire
  <2> QED
    BY <2>2 DEF t
<1> QED
  BY <1>1 DEF PopsTo

LEMMA OwnPop ==
  ASSUME NEW d, Seen(d), NEW p, p = Head(tail), For(p, d), tail \in Seq(Packet), tail # <<>>,
         flushed, tail' = Tail(tail), flushed' = FALSE, UNCHANGED <<srv, inbox>>,
         NEW m \in BOOLEAN, NEW l \in BOOLEAN,
         View(d, tail, inbox, chan[d], m, l, Waits(d), Waited(d), TRUE, srv[d]),
         NEW m2 \in BOOLEAN, NEW l2 \in BOOLEAN, m2 <=> d \in channels', l2 <=> terminal' = "no",
         PopsTo(chan[d], m, l, Waits(d), Waited(d), p, srv[d], chan'[d], m2, l2, Waits(d)', Waited(d)')
  PROVE  Seen(d)'
<1> DEFINE x == chan[d]
           y == chan'[d]
           r == Waits(d)
           n == Waited(d)
           v == srv[d]
           r2 == Waits(d)'
           n2 == Waited(d)'
<1>1. View(d, tail, inbox, x, m, l, r, n, TRUE, v)
  OBVIOUS
<1>2. \A w, q : OnWire(x, m, l, r, n, TRUE, w, v, q) /\ w # <<>> /\ Head(w) = Head(tail)
                  => OnWire(y, m2, l2, r2, n2, FALSE, Tail(w), v, q)
  BY DEF PopsTo
<1>3. For(Head(tail), d)
  OBVIOUS
<1>4. FALSE <=> FlushedFor(d)'
  BY DEF FlushedFor
<1> HIDE DEF x, y, r, n, v, r2, n2
<1>5. View(d, Tail(tail), inbox, y, m2, l2, r2, n2, FALSE, v)
  BY <1>1, <1>2, <1>3, ViewDrop, ZenonT(60)
<1>6. View(d, tail', inbox', chan'[d], m2, l2, Waits(d)', Waited(d)', FALSE, srv'[d])
  BY <1>5 DEF y, v, r2, n2
<1> QED
  BY <1>4, <1>6, SeenNext

LEMMA WrittenOwnSeen ==
  ASSUME IInv, Wired, WriteDone, NEW d \in Channel, For(Head(tail), d)
  PROVE  Seen(d)'
<1> DEFINE p == Head(tail)
           x == chan[d]
           y == chan'[d]
           r == Waits(d)
           n == Waited(d)
           v == srv[d]
<1>1. /\ tail # <<>> /\ flushed /\ tail' = Tail(tail) /\ flushed' = FALSE
      /\ UNCHANGED <<srv, inbox>>
  BY DEF WriteDone, srvVars
<1>2. /\ Seen(d) /\ Shared /\ tail \in Seq(Packet) /\ inbox \in Seq(Message)
      /\ reader \in ReaderState /\ chan \in [Channel -> ChannelState]
  BY DEF Wired, IInv, QueuesOK, ChannelsOK
<1>3. p.ch = d /\ p.type # "REQUEST_FAILURE" /\ OwnPacket(p) /\ p \in Packet
  BY <1>1, HeadOfTail
<1>4. PICK m \in BOOLEAN, l \in BOOLEAN, f \in BOOLEAN :
        /\ m <=> d \in channels
        /\ l <=> terminal = "no"
        /\ f <=> FlushedFor(d)
        /\ View(d, tail, inbox, chan[d], m, l, Waits(d), Waited(d), f, srv[d])
  BY <1>2 DEF Seen
<1>5. Reading => Waits(d)' = "no" /\ Waited(d)' = 0
  BY <1>2, WaitingNext DEF Reading, ReaderState
<1>6. f = TRUE
  BY <1>1, <1>4 DEF FlushedFor
<1>7. View(d, tail, inbox, x, m, l, r, n, TRUE, v)
  BY <1>4, <1>6
<1>8. For(p, d)
  OBVIOUS
<1>9. ASSUME NEW m2 \in BOOLEAN, NEW l2 \in BOOLEAN, m2 <=> d \in channels', l2 <=> terminal' = "no",
             PopsTo(x, m, l, r, n, p, v, y, m2, l2, Waits(d)', Waited(d)')
      PROVE  Seen(d)'
  <2> HIDE DEF p
  <2> QED
    BY <1>1, <1>2, <1>7, <1>8, <1>9, OwnPop DEF p
<1>10. ASSUME UNCHANGED <<channels, terminal>>,
              PopsTo(x, m, l, r, n, p, v, y, m, l, Waits(d)', Waited(d)')
       PROVE  Seen(d)'
  BY <1>4, <1>9, <1>10
<1>11. CASE p.by = "begin" /\ chan' = [chan EXCEPT ![p.ch].begin = NextWait[@]] /\ UNCHANGED <<muxVars, reader>>
  <2>1. GoesOn(x, y) /\ UNCHANGED <<channels, terminal, reader>> /\ p.by = "begin"
    BY <1>2, <1>3, <1>11 DEF GoesOn, muxVars
  <2>2. Waits(d)' = r /\ Waited(d)' = n
    BY <2>1, WaitingNext
  <2> HIDE DEF x, y, r, n, v, p
  <2>3. PopsTo(x, m, l, r, n, p, v, y, m, l, r, n)
    BY <2>1, PopGoesOn
  <2> QED
    BY <1>10, <2>1, <2>2, <2>3
<1>12. ASSUME UNCHANGED <<channels, terminal, chan>>, Waits(d)' = r, Waited(d)' = n,
              p.by # "reader" \/ r # "adjust"
       PROVE  Seen(d)'
  <2>1. y = x
    BY <1>12
  <2> HIDE DEF x, y, r, n, v, p
  <2>2. PopsTo(x, m, l, r, n, p, v, x, m, l, r, n)
    BY <1>12, PopStay
  <2> QED
    BY <1>10, <1>12, <2>1, <2>2
<1>13. CASE p.by = "cancel" /\ UNCHANGED <<muxVars, chan, reader>>
  BY <1>12, <1>13, WaitingNext DEF muxVars
<1>14. CASE p.by = "reader" /\ reader.at = "write" /\ Reading /\ UNCHANGED <<muxVars, chan>>
  <2>1. r = "no" /\ n = 0
    BY <1>14, Waiting
  <2> QED
    BY <1>5, <1>12, <1>14, <2>1 DEF muxVars
<1>15. CASE /\ p.by = "reader" /\ reader.at = "adjust"
            /\ chan' = [chan EXCEPT ![p.ch].window = @ + p.n, ![p.ch].output = @ + p.n]
            /\ Reading /\ UNCHANGED muxVars
  <2>1. /\ r = "adjust" /\ n = p.n /\ p.type = "ADJUST"
    BY <1>3, <1>15, Waiting DEF OwnPacket
  <2>2. Credits(x, y, n) /\ UNCHANGED <<channels, terminal>>
    <3>1. chan' = [chan EXCEPT ![d].window = @ + p.n, ![d].output = @ + p.n]
      BY <1>3, <1>15
    <3>2. chan'[d] = [chan[d] EXCEPT !.window = @ + p.n, !.output = @ + p.n]
      BY <1>2, <3>1
    <3> QED
      BY <1>15, <2>1, <3>2 DEF Credits, muxVars
  <2>3. Waits(d)' = "no" /\ Waited(d)' = 0
    BY <1>5, <1>15
  <2> HIDE DEF x, y, r, n, v, p
  <2>4. PopsTo(x, m, l, "adjust", n, p, v, y, m, l, "no", 0)
    BY <2>1, <2>2, PopCredit
  <2> QED
    BY <1>10, <2>1, <2>2, <2>3, <2>4
<1>16. CASE p.by = "reader" /\ reader.at = "close" /\ FinishClose(p.ch, chan)
  <2>1. r = "close" /\ p.type = "CLOSE"
    BY <1>3, <1>16, Waiting DEF OwnPacket
  <2>2. CASE x.cancelled \/ Complete(x)
    <3>1. /\ chan' = [chan EXCEPT ![d].result = IF x.cancelled THEN @ ELSE Settle(@, "resolved")]
          /\ channels' = channels \ {d} /\ Reading /\ terminal' = terminal
      BY <1>3, <1>16, <2>2 DEF FinishClose
    <3>2. Finishes(x, y)
      BY <1>2, <2>2, <3>1 DEF Finishes
    <3>3. Waits(d)' = "no" /\ Waited(d)' = 0
      BY <1>5, <3>1
    <3>4. PICK m2 \in BOOLEAN : ~m2
      OBVIOUS
    <3>5. (m2 <=> d \in channels') /\ (l <=> terminal' = "no")
      BY <1>4, <3>1, <3>4
    <3> HIDE DEF x, y, r, n, v, p
    <3>6. PopsTo(x, m, l, "close", n, p, v, y, m2, l, "no", 0)
      BY <2>1, <3>2, <3>4, PopFinish
    <3> QED
      BY <1>9, <2>1, <3>3, <3>5, <3>6
  <2>3. CASE ~(x.cancelled \/ Complete(x))
    <3>1. /\ y = Rejected(x) /\ terminal' # "no" /\ channels' = {} /\ reader'.at = "stopped"
      BY <1>2, <1>3, <1>16, <2>3, Incomplete
    <3>2. Waits(d)' = "no" /\ Waited(d)' = 0
      BY <3>1, WaitingNext
    <3>3. Ends(x, y) /\ y.begin = x.begin
      BY <1>2, <3>1, SeenFacts, EndsRejected
    <3>5. (FALSE <=> d \in channels') /\ (FALSE <=> terminal' = "no")
      BY <3>1
    <3> HIDE DEF x, y, r, n, v, p
    <3>6. PopsTo(x, m, l, "close", n, p, v, y, FALSE, FALSE, "no", 0)
      BY <2>1, <3>3, PopDead
    <3> QED
      BY <1>9, <2>1, <3>2, <3>5, <3>6
  <2> QED
    BY <2>2, <2>3
<1> QED
  BY <1>11, <1>13, <1>14, <1>15, <1>16 DEF WriteDone

LEMMA WriteDoneSeen ==
  ASSUME IInv, Wired, WriteDone, NEW d \in Channel
  PROVE  Seen(d)'
  BY WrittenOwnSeen, WrittenOtherSeen

\* What a failed write makes of a channel, before #fatal.
Thrown(x, a, b) == [(IF a THEN Closing(Rejected(x)) ELSE x) EXCEPT !.begin = IF b THEN "done" ELSE @]

LEMMA ThrownEnds ==
  ASSUME NEW x \in ChannelState, x.begin = "none" => x = NewChannel,
         x.sentClose => x.remote /\ (x.closing \/ x.receivedClose),
         NEW a, NEW b, a \/ b => x.begin # "none"
  PROVE  /\ Thrown(x, a, b) \in ChannelState /\ Ends(x, Rejected(Thrown(x, a, b)))
         /\ Thrown(x, a, b).result = "pending" => x.result = "pending"
<1>1. CASE ~a /\ ~b
  <2>1. Thrown(x, a, b) = x
    BY <1>1 DEF Thrown, ChannelState
  <2> QED
    BY <2>1, EndsRejected
<1>2. CASE a
  <2> DEFINE y == Closing(Rejected(x))
             z == Thrown(x, a, b)
             g == IF b THEN "done" ELSE x.begin
  <2>1. Same(x, x) /\ Halted(x, y, x.begin)
    BY <1>2, SameSelf DEF Halted, ChannelState
  <2>2. Ended(x, y) /\ y.begin = x.begin /\ y.reply = x.reply
    <3> HIDE DEF y
    <3> QED
      BY <2>1, EndedClosing
  <2>3. g \in Begin /\ g # "none" /\ (g = x.begin \/ g = "done")
    BY <1>2 DEF ChannelState, Begin
  <2>4. z = [y EXCEPT !.begin = g]
    BY <1>2, <2>2 DEF Thrown
  <2> HIDE DEF y, z, g
  <2>5. /\ z \in ChannelState /\ z.begin = g /\ z.opened = y.opened /\ z.reply = y.reply
        /\ z.result = y.result /\ z.remote = y.remote /\ z.receivedEof = y.receivedEof
        /\ z.closing = y.closing /\ z.sentClose = y.sentClose /\ z.receivedClose = y.receivedClose
        /\ z.exited = y.exited /\ z.output = y.output /\ z.window = y.window
    BY <2>2, <2>3, <2>4 DEF Ended, ChannelState
  <2>6. z.result # "pending"
    BY <2>2, <2>5 DEF Ended, Settle
  <2>7. Rejected(z) = z
    BY <2>5, <2>6 DEF Rejected, Settle, ChannelState
  <2>8. Ends(x, z)
    BY <1>2, <2>2, <2>3, <2>5 DEF Ended, Ends, ChannelState
  <2> QED
    BY <2>5, <2>6, <2>7, <2>8 DEF z
<1>3. CASE ~a /\ b
  <2> DEFINE z == Thrown(x, a, b)
             k == Settle(x.result, "rejected")
             u == Rejected(z)
  <2>1. z = [x EXCEPT !.begin = "done"]
    BY <1>3 DEF Thrown
  <2>2. /\ z \in ChannelState /\ z.begin = "done" /\ z.opened = x.opened /\ z.reply = x.reply
        /\ z.result = x.result /\ z.remote = x.remote /\ z.receivedEof = x.receivedEof
        /\ z.closing = x.closing /\ z.sentClose = x.sentClose /\ z.receivedClose = x.receivedClose
        /\ z.exited = x.exited /\ z.output = x.output /\ z.window = x.window
    BY <2>1 DEF ChannelState, Begin
  <2>3. k \in Promise /\ k = Settle(x.result, "rejected")
    BY DEF Settle, Promise, ChannelState
  <2>4. u = [z EXCEPT !.result = k]
    BY <2>2 DEF Rejected
  <2> HIDE DEF z, k, u
  <2>5. Ends(x, u)
    BY <1>3, <2>2, <2>3, <2>4 DEF Ends, ChannelState
  <2> QED
    BY <2>2, <2>5 DEF z, u
<1> QED
  BY <1>1, <1>2, <1>3

LEMMA WriteFailSeen ==
  ASSUME IInv, Wired, WriteFail, NEW d \in Channel
  PROVE  Seen(d)'
<1> DEFINE failed == {p.ch : p \in {tail[i] : i \in {j \in DOMAIN tail : tail[j].by = "begin"}}}
           gaveUp(c) == \/ c \in failed /\ ~chan[c].cancelled
                        \/ reader.at = "adjust" /\ reader.ch = c
           thrown == [c \in Channel |-> Thrown(chan[c], gaveUp(c), c \in failed)]
<1>1. /\ Fatal(thrown, channels, "transport") /\ "transport" \in Reason
      /\ tail' = <<>> /\ flushed' = FALSE /\ UNCHANGED <<srv, inbox>>
      /\ reader' = IF \E i \in DOMAIN tail : tail[i].by = "reader"
                     THEN [reader EXCEPT !.at = "stopped"] ELSE reader
  BY DEF WriteFail, Thrown, srvVars, Reason
<1>2. /\ Seen(d) /\ reader \in ReaderState /\ SuspendedInTail
  BY DEF Wired, IInv, QueuesOK
<1>3. /\ chan[d] \in ChannelState /\ (chan[d].begin = "none" => chan[d] = NewChannel)
      /\ chan[d].sentClose => chan[d].remote /\ (chan[d].closing \/ chan[d].receivedClose)
      /\ chan[d].result = "pending" => d \in channels
      /\ d \in channels => chan[d].begin # "none"
      /\ Waits(d) # "no" => chan[d].begin # "none"
  BY <1>2, SeenFacts
<1>4. d \in failed => chan[d].begin # "none"
  <2>1. ASSUME d \in failed PROVE chan[d].begin \in Writing
    BY <1>2, <2>1 DEF SuspendedInTail
  <2> QED
    BY <2>1 DEF Writing
<1>5. reader.at = "adjust" /\ reader.ch = d => chan[d].begin # "none"
  BY <1>3, Waiting
<1> DEFINE a == gaveUp(d)
           b == d \in failed
           z == thrown[d]
<1>6. z = Thrown(chan[d], a, b)
  OBVIOUS
<1>7. a \/ b => chan[d].begin # "none"
  BY <1>4, <1>5
<1> HIDE DEF a, b, z, thrown
<1>8. /\ z \in ChannelState /\ Ends(chan[d], Rejected(z))
      /\ z.result = "pending" => chan[d].result = "pending"
  BY <1>3, <1>6, <1>7, ThrownEnds
<1>9. Ends(chan[d], chan'[d]) /\ terminal' # "no" /\ channels' = {}
  BY <1>1, <1>3, <1>8, FatalEnds DEF z
<1>10. Waits(d)' = "no" /\ Waited(d)' = 0
  <2>1. CASE \E i \in DOMAIN tail : tail[i].by = "reader"
    <3>1. reader'.at = "stopped"
      BY <1>1, <1>2, <2>1 DEF ReaderState
    <3> QED
      BY <3>1, WaitingNext
  <2>2. CASE ~\E i \in DOMAIN tail : tail[i].by = "reader"
    <3>1. reader' = reader /\ reader.at \notin {"adjust", "close"}
      BY <1>1, <1>2, <2>2 DEF SuspendedInTail, ReaderWriting
    <3> QED
      BY <3>1, WaitingNext
  <2> QED
    BY <2>1, <2>2
<1>11. PICK m \in BOOLEAN, l \in BOOLEAN, f \in BOOLEAN :
         View(d, tail, inbox, chan[d], m, l, Waits(d), Waited(d), f, srv[d])
  BY <1>2 DEF Seen
<1> DEFINE x == chan[d]
           y == chan'[d]
           r == Waits(d)
           n == Waited(d)
           v == srv[d]
<1>12. \A w, q : OnWire(x, m, l, r, n, f, w, v, q) => OnWire(y, FALSE, FALSE, "no", 0, FALSE, <<>>, v, q)
  <2>1. Ends(x, y)
    BY <1>9
  <2> HIDE DEF x, y, r, n, v
  <2> QED
    BY <2>1, LostWire
<1>13. View(d, <<>>, inbox, y, FALSE, FALSE, "no", 0, FALSE, v)
  BY <1>11, <1>12, ViewLost
<1>14. View(d, tail', inbox', chan'[d], FALSE, FALSE, Waits(d)', Waited(d)', FALSE, srv'[d])
  BY <1>1, <1>10, <1>13
<1>15. FALSE <=> FlushedFor(d)'
  BY <1>1 DEF FlushedFor
<1> QED
  BY <1>9, <1>14, <1>15, SeenNext

-----------------------------------------------------------------------------
(* The handlers of the read loop.                                          *)

\* The channel, in the map of a live client, takes the message h, and queues p.
TakesTo(x, v, h, y, m, l, r, n) ==
  \A f, w, q : OnWire(x, TRUE, TRUE, "no", 0, f, w, v, q) /\ q # <<>> /\ Head(q) = h
                 => OnWire(y, m, l, r, n, f, w, v, Tail(q))
AnswersTo(x, v, h, p, y, m, l, r, n) ==
  \A f, w, q : OnWire(x, TRUE, TRUE, "no", 0, f, w, v, q) /\ q # <<>> /\ Head(q) = h
                 => OnWire(y, m, l, r, n, f, Append(w, p), v, Tail(q))

LEMMA TakeTold ==
  ASSUME NEW x, NEW v, NEW h, NEW y, Tells(x, y, h)
  PROVE  TakesTo(x, v, h, y, TRUE, TRUE, "no", 0)
<1>1. ASSUME NEW f, NEW w, NEW q, OnWire(x, TRUE, TRUE, "no", 0, f, w, v, q), q # <<>>, Head(q) = h
      PROVE  OnWire(y, TRUE, TRUE, "no", 0, f, w, v, Tail(q))
  BY <1>1, TellWire
<1> QED
  BY <1>1 DEF TakesTo

LEMMA TakeRefusal ==
  ASSUME NEW x, NEW v, NEW h, NEW y, Refuses(x, y), h.type = "openFailure"
  PROVE  TakesTo(x, v, h, y, FALSE, TRUE, "no", 0)
<1>1. ASSUME NEW f, NEW w, NEW q, OnWire(x, TRUE, TRUE, "no", 0, f, w, v, q), q # <<>>, Head(q) = h
      PROVE  OnWire(y, FALSE, TRUE, "no", 0, f, w, v, Tail(q))
  BY <1>1, RefuseWire
<1> QED
  BY <1>1 DEF TakesTo

LEMMA TakeConfirmed ==
  ASSUME NEW x, NEW v, NEW h, NEW y, Confirms(x, y), h.type = "confirm", ~(x.closing /\ ~x.sentClose)
  PROVE  TakesTo(x, v, h, y, TRUE, TRUE, "no", 0)
<1>1. PICK p \in Packet : p.type = "CLOSE" /\ p.n = 0 /\ p.by = "reader"
  BY AnyClose
<1>2. ASSUME NEW f, NEW w, NEW q, OnWire(x, TRUE, TRUE, "no", 0, f, w, v, q), q # <<>>, Head(q) = h
      PROVE  OnWire(y, TRUE, TRUE, "no", 0, f, w, v, Tail(q))
  BY <1>1, <1>2, ConfirmWire
<1> QED
  BY <1>2 DEF TakesTo

LEMMA AnswerConfirmed ==
  ASSUME NEW x, NEW v, NEW h, NEW y, Confirms(x, y), h.type = "confirm", x.closing /\ ~x.sentClose,
         NEW p \in Packet, p.type = "CLOSE", p.n = 0, p.by = "reader"
  PROVE  AnswersTo(x, v, h, p, y, TRUE, TRUE, "no", 0)
<1>1. ASSUME NEW f, NEW w, NEW q, OnWire(x, TRUE, TRUE, "no", 0, f, w, v, q), q # <<>>, Head(q) = h
      PROVE  OnWire(y, TRUE, TRUE, "no", 0, f, Append(w, p), v, Tail(q))
  <2> DEFINE u == Append(w, p)
  <2>1. x.closing /\ ~x.sentClose => u = Append(w, p)
    OBVIOUS
  <2> HIDE DEF u
  <2>2. OnWire(y, TRUE, TRUE, "no", 0, f, u, v, Tail(q))
    BY <1>1, <2>1, ConfirmWire
  <2> QED
    BY <2>2 DEF u
<1> QED
  BY <1>1 DEF AnswersTo

LEMMA TakeData ==
  ASSUME NEW x, NEW v, NEW h, NEW y, Counted0(x, y, h), h.type = "data"
  PROVE  TakesTo(x, v, h, y, TRUE, TRUE, "no", 0)
<1>1. ASSUME NEW f, NEW w, NEW q, OnWire(x, TRUE, TRUE, "no", 0, f, w, v, q), q # <<>>, Head(q) = h
      PROVE  OnWire(y, TRUE, TRUE, "no", 0, f, w, v, Tail(q))
  BY <1>1, DataWire
<1> QED
  BY <1>1 DEF TakesTo

LEMMA AnswerData ==
  ASSUME NEW x, NEW v, NEW h, NEW y, Counted1(x, y, h), h.type = "data", ~x.closing,
         NEW p \in Packet, p.type = "ADJUST", p.by = "reader", p.n = h.n
  PROVE  AnswersTo(x, v, h, p, y, TRUE, TRUE, "adjust", h.n)
<1>1. ASSUME NEW f, NEW w, NEW q, OnWire(x, TRUE, TRUE, "no", 0, f, w, v, q), q # <<>>, Head(q) = h
      PROVE  OnWire(y, TRUE, TRUE, "adjust", h.n, f, Append(w, p), v, Tail(q))
  BY <1>1, CreditedWire
<1> QED
  BY <1>1 DEF AnswersTo

LEMMA TakeOver ==
  ASSUME NEW x, NEW v, NEW h, NEW y, h.type = "data", ~MustSendClose(x),
         Ended(x, y), y.begin = x.begin, y.reply = x.reply
  PROVE  TakesTo(x, v, h, y, TRUE, TRUE, "no", 0)
<1>1. y.closing /\ y.result # "pending"
  BY DEF Ended, Settle
<1>2. ASSUME NEW f, NEW w, NEW q, OnWire(x, TRUE, TRUE, "no", 0, f, w, v, q), q # <<>>, Head(q) = h
      PROVE  OnWire(y, TRUE, TRUE, "no", 0, f, w, v, Tail(q))
  <2>1. OnWire(y, TRUE, TRUE, "no", 0, f, w, v, q)
    BY <1>2, EndWire
  <2> QED
    BY <1>1, <1>2, <2>1, OverWire
<1> QED
  BY <1>2 DEF TakesTo

LEMMA AnswerOver ==
  ASSUME NEW x, NEW v, NEW h, NEW y, h.type = "data", MustSendClose(x),
         Ended(x, y), y.begin = x.begin, y.reply = x.reply,
         NEW p \in Packet, p.type = "CLOSE", p.n = 0, p.by = "reader"
  PROVE  AnswersTo(x, v, h, p, y, TRUE, TRUE, "no", 0)
<1>1. y.closing /\ y.result # "pending"
  BY DEF Ended, Settle
<1>2. ASSUME NEW f, NEW w, NEW q, OnWire(x, TRUE, TRUE, "no", 0, f, w, v, q), q # <<>>, Head(q) = h
      PROVE  OnWire(y, TRUE, TRUE, "no", 0, f, Append(w, p), v, Tail(q))
  <2> DEFINE u == Append(w, p)
  <2>1. OnWire(y, TRUE, TRUE, "no", 0, f, u, v, q)
    BY <1>2, EndCloseWire
  <2> HIDE DEF u
  <2>2. OnWire(y, TRUE, TRUE, "no", 0, f, u, v, Tail(q))
    BY <1>1, <1>2, <2>1, OverWire
  <2> QED
    BY <2>2 DEF u
<1> QED
  BY <1>2 DEF AnswersTo

LEMMA AnswerClose ==
  ASSUME NEW x, NEW v, NEW h, NEW y, h.type = "close", MustSendClose(x), Closes(x, y),
         NEW p \in Packet, p.type = "CLOSE", p.n = 0, p.by = "reader"
  PROVE  AnswersTo(x, v, h, p, y, TRUE, TRUE, "close", 0)
<1>1. ASSUME NEW f, NEW w, NEW q, OnWire(x, TRUE, TRUE, "no", 0, f, w, v, q), q # <<>>, Head(q) = h
      PROVE  OnWire(y, TRUE, TRUE, "close", 0, f, Append(w, p), v, Tail(q))
  <2> DEFINE u == Append(w, p)
  <2>1. MustSendClose(x) => u = Append(w, p)
    OBVIOUS
  <2> HIDE DEF u
  <2>2. OnWire(y, TRUE, TRUE, "close", 0, f, u, v, Tail(q))
    BY <1>1, <2>1, CloseWire
  <2> QED
    BY <2>2 DEF u
<1> QED
  BY <1>1 DEF AnswersTo

\* Nothing is due: the channel is released, or the client ends.
Spent(z, f, w, v, q) == OnWire(z, TRUE, TRUE, "close", 0, f, w, v, q) /\ z.result # "pending"

LEMMA TakeClosed ==
  ASSUME NEW x, NEW v, NEW h, NEW z, h.type = "close", ~MustSendClose(x), Closes(x, z),
         NEW f, NEW w, NEW q, OnWire(x, TRUE, TRUE, "no", 0, f, w, v, q), q # <<>>, Head(q) = h
  PROVE  Spent(z, f, w, v, Tail(q))
<1>1. PICK p \in Packet : p.type = "CLOSE" /\ p.n = 0 /\ p.by = "reader"
  BY AnyClose
<1> QED
  <2>1. MustSendClose(x) => w = Append(w, p)
    OBVIOUS
  <2> QED
    BY <1>1, <2>1, CloseWire DEF Spent

LEMMA TakeFinished ==
  ASSUME NEW x, NEW v, NEW h, NEW z, NEW y, h.type = "close", ~MustSendClose(x), Closes(x, z), Finishes(z, y)
  PROVE  TakesTo(x, v, h, y, FALSE, TRUE, "no", 0)
<1>1. ASSUME NEW f, NEW w, NEW q, OnWire(x, TRUE, TRUE, "no", 0, f, w, v, q), q # <<>>, Head(q) = h
      PROVE  OnWire(y, FALSE, TRUE, "no", 0, f, w, v, Tail(q))
  <2> DEFINE t == Tail(q)
  <2>1. Spent(z, f, w, v, t)
    BY <1>1, TakeClosed
  <2> HIDE DEF t
  <2>2. OnWire(y, FALSE, TRUE, "no", 0, f, w, v, t)
    BY <2>1, FinishWire DEF Spent
  <2> QED
    BY <2>2 DEF t
<1> QED
  BY <1>1 DEF TakesTo

LEMMA TakeStopped ==
  ASSUME NEW x, NEW v, NEW h, NEW z, NEW y, h.type = "close", ~MustSendClose(x), Closes(x, z),
         Ends(z, y), y.begin = z.begin
  PROVE  TakesTo(x, v, h, y, FALSE, FALSE, "no", 0)
<1>1. ASSUME NEW f, NEW w, NEW q, OnWire(x, TRUE, TRUE, "no", 0, f, w, v, q), q # <<>>, Head(q) = h
      PROVE  OnWire(y, FALSE, FALSE, "no", 0, f, w, v, Tail(q))
  <2> DEFINE t == Tail(q)
  <2>1. Spent(z, f, w, v, t)
    BY <1>1, TakeClosed
  <2> HIDE DEF t
  <2>2. OnWire(y, FALSE, FALSE, "no", 0, f, w, v, t)
    BY <2>1, StoppedWire DEF Spent
  <2> QED
    BY <2>2 DEF t
<1> QED
  BY <1>1 DEF TakesTo

\* From a handler to what its channel sees.
LEMMA Handled ==
  ASSUME IInv, Wired, NEW types, Handle(types), "global" \notin types
  PROVE  /\ msg.ch \in Channel /\ msg.ch \in channels /\ terminal = "no" /\ Seen(msg.ch) /\ Shared
         /\ tail \in Seq(Packet) /\ inbox \in Seq(Message) /\ inbox # <<>> /\ inbox' = Tail(inbox)
         /\ For(msg, msg.ch) /\ msg \in Message /\ msg.type \in types
         /\ reader.at = "read" /\ target \in ChannelState /\ target = chan[msg.ch]
         /\ chan \in [Channel -> ChannelState]
         /\ RouteError = "no" /\ UNCHANGED <<flushed, srv>>
         /\ \A d : Waits(d) = "no" /\ Waited(d) = 0
<1>1. /\ Receive(types) /\ RouteError = "no" /\ inbox # <<>> /\ inbox' = Tail(inbox)
      /\ UNCHANGED <<flushed, srv>>
  BY DEF Handle, Receive
<1>2. /\ msg \in Message /\ msg.ch \in Channel /\ msg.type \in types
      /\ target \in ChannelState /\ reader.at = "read"
  BY <1>1, ReceiveFacts
<1>3. msg.ch \in channels /\ terminal = "no"
  BY HandleFacts
<1>4. For(msg, msg.ch)
  BY <1>2 DEF For, Message, ServerType
<1>5. \A d : Waits(d) = "no" /\ Waited(d) = 0
  BY <1>2, Waiting
<1> QED
  BY <1>1, <1>2, <1>3, <1>4, <1>5 DEF Wired, IInv, QueuesOK, ChannelsOK, target

LEMMA HandledView ==
  ASSUME IInv, Wired, NEW types, Handle(types), "global" \notin types
  PROVE  \E f \in BOOLEAN :
           /\ f <=> FlushedFor(msg.ch)
           /\ View(msg.ch, tail, inbox, target, TRUE, TRUE, "no", 0, f, srv[msg.ch])
<1>1. /\ Seen(msg.ch) /\ msg.ch \in channels /\ terminal = "no" /\ target = chan[msg.ch]
      /\ Waits(msg.ch) = "no" /\ Waited(msg.ch) = 0
  BY Handled
<1>2. PICK m \in BOOLEAN, l \in BOOLEAN, f \in BOOLEAN :
        /\ m <=> msg.ch \in channels
        /\ l <=> terminal = "no"
        /\ f <=> FlushedFor(msg.ch)
        /\ View(msg.ch, tail, inbox, chan[msg.ch], m, l, Waits(msg.ch), Waited(msg.ch), f, srv[msg.ch])
  BY <1>1 DEF Seen
<1>3. m = TRUE /\ l = TRUE
  BY <1>1, <1>2
<1> QED
  BY <1>1, <1>2, <1>3

LEMMA TakenSeen ==
  ASSUME IInv, Wired, NEW types, Handle(types), "global" \notin types, NEW d, d = msg.ch,
         tail' = tail,
         NEW y, chan'[d] = y, NEW m \in BOOLEAN, NEW l \in BOOLEAN,
         m <=> d \in channels', l <=> terminal' = "no",
         TakesTo(target, srv[d], msg, y, m, l, Waits(d)', Waited(d)')
  PROVE  Seen(d)'
<1> DEFINE h == msg
           x == target
           v == srv[d]
           r == Waits(d)'
           n == Waited(d)'
<1>1. /\ inbox \in Seq(Message) /\ inbox # <<>> /\ inbox' = Tail(inbox) /\ For(h, d) /\ h = Head(inbox)
      /\ flushed' = flushed /\ srv'[d] = v /\ tail \in Seq(Packet) /\ Shared
  BY Handled DEF msg
<1>2. PICK f \in BOOLEAN : (f <=> FlushedFor(d)) /\ View(d, tail, inbox, x, TRUE, TRUE, "no", 0, f, v)
  BY HandledView
<1>3. FlushedFor(d)' <=> FlushedFor(d)
  BY <1>1, FlushedNext
<1>4. \A w, q : OnWire(x, TRUE, TRUE, "no", 0, f, w, v, q) /\ q # <<>> /\ Head(q) = h
                  => OnWire(y, m, l, r, n, f, w, v, Tail(q))
  BY DEF TakesTo
<1> HIDE DEF h, x, v, r, n
<1>5. View(d, tail, Tail(inbox), y, m, l, r, n, f, v)
  BY <1>1, <1>2, <1>4, ViewRead, ZenonT(60)
<1>6. View(d, tail', inbox', chan'[d], m, l, Waits(d)', Waited(d)', f, srv'[d])
  BY <1>1, <1>5 DEF r, n
<1> QED
  BY <1>2, <1>3, <1>6, SeenNext

LEMMA AnsweredSeen ==
  ASSUME IInv, Wired, NEW types, Handle(types), "global" \notin types, NEW d, d = msg.ch,
         NEW p \in Packet, For(p, d), tail' = Append(tail, p),
         NEW y, chan'[d] = y, NEW m \in BOOLEAN, NEW l \in BOOLEAN,
         m <=> d \in channels', l <=> terminal' = "no",
         AnswersTo(target, srv[d], msg, p, y, m, l, Waits(d)', Waited(d)')
  PROVE  Seen(d)'
<1> DEFINE h == msg
           x == target
           v == srv[d]
           r == Waits(d)'
           n == Waited(d)'
<1>1. /\ inbox \in Seq(Message) /\ inbox # <<>> /\ inbox' = Tail(inbox) /\ For(h, d) /\ h = Head(inbox)
      /\ flushed' = flushed /\ srv'[d] = v /\ tail \in Seq(Packet) /\ Shared
  BY Handled DEF msg
<1>2. PICK f \in BOOLEAN : (f <=> FlushedFor(d)) /\ View(d, tail, inbox, x, TRUE, TRUE, "no", 0, f, v)
  BY HandledView
<1>3. FlushedFor(d)' <=> FlushedFor(d)
  BY <1>1, FlushedNext
<1>4. \A w, q : OnWire(x, TRUE, TRUE, "no", 0, f, w, v, q) /\ q # <<>> /\ Head(q) = Head(inbox)
                  => OnWire(y, m, l, r, n, f, Append(w, p), v, Tail(q))
  BY <1>1 DEF AnswersTo
<1> HIDE DEF h, x, v, r, n
<1>5. View(d, Append(tail, p), Tail(inbox), y, m, l, r, n, f, v)
  <2>1. For(Head(inbox), d) /\ For(p, d) /\ p \in Packet
    BY <1>1
  <2>2. View(d, tail, inbox, x, TRUE, TRUE, "no", 0, f, v)
    BY <1>2
  <2> DEFINE m0 == TRUE
             r0 == "no"
             n0 == 0
  <2>3. View(d, tail, inbox, x, m0, m0, r0, n0, f, v)
    BY <2>2
  <2>4. \A w, q : OnWire(x, m0, m0, r0, n0, f, w, v, q) /\ q # <<>> /\ Head(q) = Head(inbox)
                    => OnWire(y, m, l, r, n, f, Append(w, p), v, Tail(q))
    BY <1>4
  <2> HIDE DEF m0, r0, n0
  <2> QED
    BY <1>1, <2>1, <2>3, <2>4, ViewReadPut
<1>6. View(d, tail', inbox', chan'[d], m, l, Waits(d)', Waited(d)', f, srv'[d])
  BY <1>1, <1>5 DEF r, n
<1> QED
  BY <1>2, <1>3, <1>6, SeenNext

\* A handler that makes y of the channel, and returns ...
LEMMA StepTaken ==
  ASSUME IInv, Wired, NEW types, Handle(types), "global" \notin types,
         NEW y, chan' = [chan EXCEPT ![msg.ch] = y], UNCHANGED <<muxVars, tail, reader>>,
         TakesTo(target, srv[msg.ch], msg, y, TRUE, TRUE, "no", 0), NEW d \in Channel
  PROVE  Seen(d)'
<1>1. /\ terminal = "no" /\ msg.ch \in channels /\ inbox # <<>> /\ inbox' = Tail(inbox)
      /\ chan \in [Channel -> ChannelState] /\ UNCHANGED <<flushed, srv, channels, terminal>>
      /\ \A e : Waits(e) = "no" /\ Waited(e) = 0
  BY Handled DEF muxVars
<1>2. Waits(d)' = "no" /\ Waited(d)' = 0
  BY <1>1, WaitingNext
<1>3. CASE d # msg.ch
  <2>1. chan'[d] = chan[d]
    BY <1>1, <1>3
  <2> QED
    BY <1>1, <1>2, <1>3, <2>1, OthersSeen DEF msg
<1>4. CASE d = msg.ch
  <2>1. chan'[d] = y /\ (TRUE <=> d \in channels') /\ (TRUE <=> terminal' = "no")
    BY <1>1, <1>4
  <2>2. TakesTo(target, srv[d], msg, y, TRUE, TRUE, Waits(d)', Waited(d)')
    BY <1>2, <1>4
  <2> QED
    BY <1>4, <2>1, <2>2, TakenSeen
<1> QED
  BY <1>3, <1>4

\* ... or queues a packet, and waits for it.
Awaits(at, n, r, k) ==
  \/ at = "write" /\ r = "no" /\ k = 0
  \/ at = "adjust" /\ r = "adjust" /\ k = n
  \/ at = "close" /\ r = "close" /\ k = 0

LEMMA StepAnswered ==
  ASSUME IInv, Wired, NEW types, Handle(types), "global" \notin types,
         NEW y, chan' = [chan EXCEPT ![msg.ch] = y], UNCHANGED muxVars,
         NEW p \in Packet, tail' = Append(tail, p), For(p, msg.ch),
         NEW at, NEW n, ReaderAt(at, msg.ch, n), NEW r, NEW k, Awaits(at, n, r, k),
         AnswersTo(target, srv[msg.ch], msg, p, y, TRUE, TRUE, r, k), NEW d \in Channel
  PROVE  Seen(d)'
<1>1. /\ terminal = "no" /\ msg.ch \in channels /\ inbox # <<>> /\ inbox' = Tail(inbox)
      /\ chan \in [Channel -> ChannelState] /\ UNCHANGED <<flushed, srv, channels, terminal>>
      /\ \A e : Waits(e) = "no" /\ Waited(e) = 0
  BY Handled DEF muxVars
<1>2. reader'.at = at /\ reader'.ch = msg.ch /\ reader'.n = n
  BY DEF ReaderAt
<1>3. CASE d # msg.ch
  <2>1. chan'[d] = chan[d] /\ p.ch = msg.ch
    BY <1>1, <1>3 DEF For
  <2>2. Waits(d)' = "no" /\ Waited(d)' = 0
    BY <1>2, <1>3, WaitingNext
  <2> QED
    BY <1>1, <1>3, <2>1, <2>2, OthersSeen DEF msg
<1>4. CASE d = msg.ch
  <2>1. chan'[d] = y /\ (TRUE <=> d \in channels') /\ (TRUE <=> terminal' = "no")
    BY <1>1, <1>4
  <2>2. Waits(d)' = r /\ Waited(d)' = k
    BY <1>2, <1>4, WaitingNext DEF Awaits
  <2>3. AnswersTo(target, srv[d], msg, p, y, TRUE, TRUE, Waits(d)', Waited(d)') /\ For(p, d)
    BY <1>4, <2>2
  <2> QED
    BY <1>4, <2>1, <2>3, AnsweredSeen
<1> QED
  BY <1>3, <1>4

LEMMA RecvEofSeen ==
  ASSUME IInv, Wired, RecvEof, NEW d \in Channel
  PROVE  Seen(d)'
<1> DEFINE y == [target EXCEPT !.receivedEof = TRUE]
<1>1. Handle({"eof"}) /\ UNCHANGED <<muxVars, tail, reader>>
  BY DEF RecvEof
<1>2. /\ target = chan[msg.ch] /\ msg.ch \in Channel /\ chan \in [Channel -> ChannelState]
      /\ msg.type = "eof"
  BY <1>1, Handled
<1>3. chan' = [chan EXCEPT ![msg.ch] = y]
  BY <1>2 DEF RecvEof
<1>4. Tells(target, y, msg)
  BY <1>2 DEF Tells
<1> HIDE DEF y
<1>5. TakesTo(target, srv[msg.ch], msg, y, TRUE, TRUE, "no", 0)
  BY <1>4, TakeTold
<1> QED
  BY <1>1, <1>3, <1>5, StepTaken

LEMMA RecvExitStatusSeen ==
  ASSUME IInv, Wired, RecvExitStatus, NEW d \in Channel
  PROVE  Seen(d)'
<1> DEFINE y == [target EXCEPT !.exited = TRUE]
<1>1. Handle({"exitStatus"}) /\ UNCHANGED <<muxVars, tail, reader>>
  BY DEF RecvExitStatus
<1>2. /\ target = chan[msg.ch] /\ msg.ch \in Channel /\ chan \in [Channel -> ChannelState]
      /\ msg.type = "exitStatus"
  BY <1>1, Handled
<1>3. chan' = [chan EXCEPT ![msg.ch] = y]
  BY <1>2 DEF RecvExitStatus
<1>4. Tells(target, y, msg)
  BY <1>2 DEF Tells
<1> HIDE DEF y
<1>5. TakesTo(target, srv[msg.ch], msg, y, TRUE, TRUE, "no", 0)
  BY <1>4, TakeTold
<1> QED
  BY <1>1, <1>3, <1>5, StepTaken

LEMMA RecvReplySeen ==
  ASSUME IInv, Wired, RecvReply, NEW d \in Channel
  PROVE  Seen(d)'
<1> DEFINE y == [target EXCEPT !.reply = IF msg.type = "success" THEN "resolved" ELSE "rejected"]
<1>1. Handle({"success", "failure"}) /\ UNCHANGED <<muxVars, tail, reader>>
  BY DEF RecvReply
<1>2. /\ target = chan[msg.ch] /\ msg.ch \in channels /\ chan \in [Channel -> ChannelState]
      /\ msg.type \in {"success", "failure"} /\ RouteError = "no" /\ msg.ch \in Channel
  BY <1>1, Handled
<1>3. chan' = [chan EXCEPT ![msg.ch] = y]
  BY <1>2 DEF RecvReply
<1>4. target.reply = "pending"
  BY <1>2 DEF RouteError
<1>5. Tells(target, y, msg)
  BY <1>2, <1>4 DEF Tells
<1> HIDE DEF y
<1>6. TakesTo(target, srv[msg.ch], msg, y, TRUE, TRUE, "no", 0)
  BY <1>5, TakeTold
<1> QED
  BY <1>1, <1>3, <1>6, StepTaken

LEMMA WrittenByReader ==
  ASSUME NEW type \in ClientType \ {"REQUEST_FAILURE"}, NEW c \in Channel, NEW n \in Nat,
         Write(type, c, n, "reader")
  PROVE  \E p \in Packet : /\ tail' = Append(tail, p) /\ For(p, c)
                           /\ p.type = type /\ p.n = n /\ p.by = "reader"
  BY Written DEF For, Owner, ClientType

LEMMA RecvConfirmationSeen ==
  ASSUME IInv, Wired, RecvConfirmation, NEW d \in Channel
  PROVE  Seen(d)'
<1> DEFINE y == [target EXCEPT !.remote = TRUE, !.opened = Settle(@, "resolved"),
                               !.sentClose = @ \/ target.closing]
<1>1. Handle({"confirm"}) /\ UNCHANGED muxVars
  BY DEF RecvConfirmation
<1>2. /\ target = chan[msg.ch] /\ msg.ch \in Channel /\ chan \in [Channel -> ChannelState]
      /\ msg.type = "confirm"
  BY <1>1, Handled
<1>3. chan' = [chan EXCEPT ![msg.ch] = y]
  BY <1>2 DEF RecvConfirmation
<1>4. Confirms(target, y)
  BY DEF Confirms
<1> HIDE DEF y
<1>5. CASE target.closing /\ ~target.sentClose
  <2>1. Write("CLOSE", msg.ch, 0, "reader") /\ ReaderAt("write", msg.ch, 0)
    BY <1>5 DEF RecvConfirmation
  <2>2. PICK p \in Packet : /\ tail' = Append(tail, p) /\ For(p, msg.ch)
                            /\ p.type = "CLOSE" /\ p.n = 0 /\ p.by = "reader"
    BY <1>2, <2>1, WrittenByReader DEF ClientType
  <2>3. AnswersTo(target, srv[msg.ch], msg, p, y, TRUE, TRUE, "no", 0)
    BY <1>2, <1>4, <1>5, <2>2, AnswerConfirmed
  <2>4. Awaits("write", 0, "no", 0)
    BY DEF Awaits
  <2> QED
    BY <1>1, <1>3, <2>1, <2>2, <2>3, <2>4, StepAnswered
<1>6. CASE ~(target.closing /\ ~target.sentClose)
  <2>1. UNCHANGED <<tail, reader>>
    BY <1>6 DEF RecvConfirmation
  <2>2. TakesTo(target, srv[msg.ch], msg, y, TRUE, TRUE, "no", 0)
    BY <1>2, <1>4, <1>6, TakeConfirmed
  <2> QED
    BY <1>1, <1>3, <2>1, <2>2, StepTaken
<1> QED
  BY <1>5, <1>6

LEMMA RecvOpenFailureSeen ==
  ASSUME IInv, Wired, RecvOpenFailure, NEW d \in Channel
  PROVE  Seen(d)'
<1> DEFINE y == [Rejected(target) EXCEPT !.opened = Settle(@, "rejected")]
<1>1. /\ Handle({"openFailure"}) /\ chan' = [chan EXCEPT ![msg.ch] = y]
      /\ channels' = channels \ {msg.ch} /\ UNCHANGED <<terminal, tail, reader>>
  BY DEF RecvOpenFailure
<1>2. /\ target = chan[msg.ch] /\ msg.ch \in Channel /\ chan \in [Channel -> ChannelState]
      /\ msg.type = "openFailure" /\ terminal = "no" /\ inbox # <<>> /\ inbox' = Tail(inbox)
      /\ UNCHANGED <<flushed, srv>> /\ \A e : Waits(e) = "no" /\ Waited(e) = 0
  BY <1>1, Handled
<1>3. Refuses(target, y)
  BY DEF Refuses
<1> HIDE DEF y
<1>4. TakesTo(target, srv[msg.ch], msg, y, FALSE, TRUE, "no", 0)
  BY <1>2, <1>3, TakeRefusal
<1>5. Waits(d)' = "no" /\ Waited(d)' = 0
  BY <1>1, <1>2, WaitingNext
<1>6. CASE d # msg.ch
  <2>1. chan'[d] = chan[d] /\ (d \in channels' <=> d \in channels)
    BY <1>1, <1>2, <1>6
  <2> QED
    BY <1>1, <1>2, <1>5, <1>6, <2>1, OthersSeen DEF msg
<1>7. CASE d = msg.ch
  <2>1. chan'[d] = y /\ (FALSE <=> d \in channels') /\ (TRUE <=> terminal' = "no")
    BY <1>1, <1>2, <1>7
  <2>2. TakesTo(target, srv[d], msg, y, FALSE, TRUE, Waits(d)', Waited(d)')
    BY <1>4, <1>5, <1>7
  <2> QED
    BY <1>1, <1>7, <2>1, <2>2, TakenSeen
<1> QED
  BY <1>6, <1>7

LEMMA RecvDataSeen ==
  ASSUME IInv, Wired, RecvData, NEW d \in Channel
  PROVE  Seen(d)'
<1>1. Handle({"data"}) /\ UNCHANGED muxVars /\ ~OverLimit
  BY DEF RecvData
<1>2. /\ target = chan[msg.ch] /\ msg.ch \in channels /\ chan \in [Channel -> ChannelState]
      /\ msg.type = "data" /\ RouteError = "no" /\ msg.ch \in Channel
      /\ msg.n \in Nat /\ target.window \in Nat
  BY <1>1, Handled DEF Message, ChannelState
<1>3. target.window - msg.n \in Nat
  BY <1>1, <1>2 DEF OverLimit
<1>4. ~target.closing
  BY <1>2 DEF RouteError
<1>5. CASE msg.n > 0 /\ target.remote
  <2> DEFINE y == [target EXCEPT !.window = @ - msg.n]
  <2>1. chan' = [chan EXCEPT ![msg.ch] = y]
    BY <1>2, <1>5 DEF RecvData
  <2>2. Counted1(target, y, msg)
    BY <1>3 DEF Counted1
  <2>3. Write("ADJUST", msg.ch, msg.n, "reader") /\ ReaderAt("adjust", msg.ch, msg.n)
    BY <1>5 DEF RecvData
  <2> HIDE DEF y
  <2>4. PICK p \in Packet : /\ tail' = Append(tail, p) /\ For(p, msg.ch)
                            /\ p.type = "ADJUST" /\ p.n = msg.n /\ p.by = "reader"
    BY <1>2, <2>3, WrittenByReader DEF ClientType
  <2>5. AnswersTo(target, srv[msg.ch], msg, p, y, TRUE, TRUE, "adjust", msg.n)
    BY <1>2, <1>4, <2>2, <2>4, AnswerData
  <2>6. Awaits("adjust", msg.n, "adjust", msg.n)
    BY DEF Awaits
  <2> QED
    BY <1>1, <2>1, <2>3, <2>4, <2>5, <2>6, StepAnswered
<1>6. CASE ~(msg.n > 0 /\ target.remote)
  <2> DEFINE y == [target EXCEPT !.window = @ - msg.n, !.output = @ + msg.n]
  <2>1. chan' = [chan EXCEPT ![msg.ch] = y]
    BY <1>2, <1>6 DEF RecvData
  <2>2. Counted0(target, y, msg)
    BY <1>3 DEF Counted0
  <2>3. UNCHANGED <<tail, reader>>
    BY <1>6 DEF RecvData
  <2> HIDE DEF y
  <2>4. TakesTo(target, srv[msg.ch], msg, y, TRUE, TRUE, "no", 0)
    BY <1>2, <2>2, TakeData
  <2> QED
    BY <1>1, <2>1, <2>3, <2>4, StepTaken
<1> QED
  BY <1>5, <1>6

\* What a compliant server sends.
LEMMA HandledSent ==
  ASSUME IInv, Wired, NEW types, Handle(types), "global" \notin types
  PROVE  /\ msg.type \notin {"unsupported", "badExtended"} /\ msg.type \in srv[msg.ch].sent
         /\ target.begin # "none"
<1>1. /\ inbox \in Seq(Message) /\ inbox # <<>> /\ For(msg, msg.ch) /\ msg = Head(inbox)
  BY Handled DEF msg
<1>2. PICK f \in BOOLEAN, w \in Seq(Packet), q \in Seq(Message) :
        /\ Picks(inbox, msg.ch, q) /\ Carried(inbox, msg.ch) = Total(q)
        /\ OnWire(target, TRUE, TRUE, "no", 0, f, w, srv[msg.ch], q)
  BY HandledView DEF View
<1>3. q # <<>> /\ Head(q) = msg
  BY <1>1, <1>2, HeadRead
<1>4. /\ Ordered(target, TRUE, srv[msg.ch], q) /\ Sent(srv[msg.ch]) /\ target.begin # "none"
  BY <1>2 DEF OnWire, Answered, Typed
<1>5. Head(q) = q[1] /\ 1 \in DOMAIN q
  BY <1>3, TailMessages
<1> QED
  BY <1>3, <1>4, <1>5 DEF Ordered, Sent

LEMMA RecvOverLimitSeen ==
  ASSUME IInv, Wired, RecvOverLimit, NEW d \in Channel
  PROVE  Seen(d)'
<1> DEFINE y == Closing(Rejected(target))
<1>1. /\ Handle({"data", "badExtended"}) /\ UNCHANGED muxVars
      /\ chan' = [chan EXCEPT ![msg.ch] = Closing(Rejected(@))] /\ WriteCloseIfDue(msg.ch, "reader")
      /\ IF MustSendClose(target) THEN ReaderAt("write", msg.ch, 0) ELSE UNCHANGED reader
  BY DEF RecvOverLimit
<1>2. /\ target = chan[msg.ch] /\ msg.ch \in Channel /\ chan \in [Channel -> ChannelState]
      /\ msg.type \in {"data", "badExtended"} /\ target \in ChannelState
  BY <1>1, Handled
<1>3. msg.type = "data" /\ target.begin # "none"
  BY <1>1, <1>2, HandledSent
<1>4. chan' = [chan EXCEPT ![msg.ch] = y]
  BY <1>1, <1>2
<1>5. Ended(target, y) /\ y.begin = target.begin /\ y.reply = target.reply
  <2>1. Same(target, target) /\ Halted(target, y, target.begin)
    BY <1>2, <1>3, SameSelf DEF Halted, ChannelState
  <2> HIDE DEF y
  <2> QED
    BY <2>1, EndedClosing
<1> HIDE DEF y
<1>6. CASE MustSendClose(target)
  <2>1. Write("CLOSE", msg.ch, 0, "reader") /\ ReaderAt("write", msg.ch, 0)
    BY <1>1, <1>2, <1>6 DEF WriteCloseIfDue
  <2>2. PICK p \in Packet : /\ tail' = Append(tail, p) /\ For(p, msg.ch)
                            /\ p.type = "CLOSE" /\ p.n = 0 /\ p.by = "reader"
    BY <1>2, <2>1, WrittenByReader DEF ClientType
  <2>3. AnswersTo(target, srv[msg.ch], msg, p, y, TRUE, TRUE, "no", 0)
    BY <1>3, <1>5, <1>6, <2>2, AnswerOver
  <2>4. Awaits("write", 0, "no", 0)
    BY DEF Awaits
  <2> QED
    BY <1>1, <1>4, <2>1, <2>2, <2>3, <2>4, StepAnswered
<1>7. CASE ~MustSendClose(target)
  <2>1. UNCHANGED <<tail, reader>>
    BY <1>1, <1>2, <1>7 DEF WriteCloseIfDue
  <2>2. TakesTo(target, srv[msg.ch], msg, y, TRUE, TRUE, "no", 0)
    BY <1>3, <1>5, <1>7, TakeOver
  <2> QED
    BY <1>1, <1>4, <2>1, <2>2, StepTaken
<1> QED
  BY <1>6, <1>7

LEMMA RecvCloseSeen ==
  ASSUME IInv, Wired, RecvClose, NEW d \in Channel
  PROVE  Seen(d)'
<1> DEFINE c == msg.ch
           z == [target EXCEPT !.receivedClose = TRUE, !.sentClose = @ \/ target.remote]
           chs == [chan EXCEPT ![msg.ch] = z]
<1>1. Handle({"close"})
  BY DEF RecvClose
<1>2. /\ target = chan[c] /\ c \in Channel /\ chan \in [Channel -> ChannelState]
      /\ msg.type = "close" /\ target \in ChannelState /\ Seen(c)
      /\ terminal = "no" /\ inbox # <<>> /\ inbox' = Tail(inbox) /\ inbox \in Seq(Message)
      /\ UNCHANGED <<flushed, srv>> /\ \A e : Waits(e) = "no" /\ Waited(e) = 0
  BY <1>1, Handled
<1>3. chs = [chan EXCEPT ![msg.ch].receivedClose = TRUE,
                         ![msg.ch].sentClose = @ \/ target.remote]
  BY <1>2
<1>4. Closes(target, z)
  BY DEF Closes
<1>5. /\ z \in ChannelState /\ z.begin = target.begin
      /\ z.sentClose => z.remote /\ z.receivedClose
  BY <1>2, SeenFacts DEF ChannelState
<1>6. chs \in [Channel -> ChannelState] /\ chs[c] = z /\ \A e \in Channel : e # c => chs[e] = chan[e]
  BY <1>2, <1>5
<1>7. CASE MustSendClose(target)
  <2>1. /\ chan' = [chan EXCEPT ![msg.ch] = z] /\ UNCHANGED muxVars
        /\ Write("CLOSE", msg.ch, 0, "reader") /\ ReaderAt("close", msg.ch, 0)
    BY <1>3, <1>7 DEF RecvClose
  <2> HIDE DEF z, chs
  <2>2. PICK p \in Packet : /\ tail' = Append(tail, p) /\ For(p, msg.ch)
                            /\ p.type = "CLOSE" /\ p.n = 0 /\ p.by = "reader"
    BY <1>2, <2>1, WrittenByReader DEF ClientType
  <2>3. AnswersTo(target, srv[msg.ch], msg, p, z, TRUE, TRUE, "close", 0)
    BY <1>2, <1>4, <1>7, <2>2, AnswerClose
  <2>4. Awaits("close", 0, "close", 0)
    BY DEF Awaits
  <2> QED
    BY <1>1, <2>1, <2>2, <2>3, <2>4, StepAnswered
<1>8. ASSUME ~MustSendClose(target) PROVE FinishClose(c, chs) /\ tail' = tail
  BY <1>3, <1>8 DEF RecvClose
<1> HIDE DEF z, chs
<1>9. CASE ~MustSendClose(target) /\ (z.cancelled \/ Complete(z))
  <2> DEFINE y == chan'[c]
  <2>1. /\ chan' = [chs EXCEPT ![c].result = IF z.cancelled THEN @ ELSE Settle(@, "resolved")]
        /\ channels' = channels \ {c} /\ Reading /\ terminal' = terminal /\ tail' = tail
    BY <1>6, <1>8, <1>9 DEF FinishClose
  <2>2. Finishes(z, y)
    BY <1>2, <1>6, <1>9, <2>1 DEF Finishes
  <2>3. Waits(d)' = "no" /\ Waited(d)' = 0
    <3>1. reader'.at = "read"
      BY <1>1, <2>1 DEF Reading, Handle, Receive, IInv, QueuesOK, ReaderState
    <3> QED
      BY <3>1, WaitingNext
  <2>4. CASE d # c
    <3>1. chan'[d] = chan[d] /\ (d \in channels' <=> d \in channels)
      BY <1>6, <2>1, <2>4
    <3> QED
      BY <1>2, <2>1, <2>3, <2>4, <3>1, OthersSeen DEF msg
  <2>5. CASE d = c
    <3> HIDE DEF y
    <3>1. TakesTo(target, srv[d], msg, y, FALSE, TRUE, "no", 0)
      BY <1>2, <1>4, <1>9, <2>2, TakeFinished
    <3>2. chan'[d] = y /\ (FALSE <=> d \in channels') /\ (TRUE <=> terminal' = "no")
      BY <1>2, <2>1, <2>5 DEF y
    <3>3. TakesTo(target, srv[d], msg, y, FALSE, TRUE, Waits(d)', Waited(d)')
      BY <2>3, <3>1
    <3> QED
      BY <1>1, <2>1, <2>5, <3>2, <3>3, TakenSeen
  <2> QED
    BY <2>4, <2>5
<1>10. CASE ~MustSendClose(target) /\ ~(z.cancelled \/ Complete(z))
  <2>1. /\ chan'[c] = Rejected(z) /\ terminal' # "no" /\ channels' = {} /\ reader'.at = "stopped"
        /\ \A e \in Channel : e # c /\ Seen(e) /\ chs[e] = chan[e] =>
             Ends(chan[e], chan'[e]) /\ chan'[e].begin = chan[e].begin
        /\ tail' = tail
    BY <1>2, <1>6, <1>8, <1>10, Incomplete
  <2>2. Waits(d)' = "no" /\ Waited(d)' = 0
    BY <2>1, WaitingNext
  <2>3. CASE d # c
    <3>1. Ends(chan[d], chan'[d]) /\ chan'[d].begin = chan[d].begin /\ Seen(d) /\ Shared
      BY <1>6, <2>1, <2>3 DEF Wired
    <3> QED
      BY <1>2, <2>1, <2>2, <3>1, SeenDead
  <2>4. CASE d = c
    <3> DEFINE y == Rejected(z)
    <3>1. Ends(z, y) /\ y.begin = z.begin
      <4>1. z.begin # "none"
        BY <1>1, <1>5, HandledSent
      <4> QED
        BY <1>5, <4>1, EndsRejected
    <3> HIDE DEF y
    <3>2. TakesTo(target, srv[d], msg, y, FALSE, FALSE, "no", 0)
      BY <1>2, <1>4, <1>10, <3>1, TakeStopped
    <3>3. chan'[d] = y /\ (FALSE <=> d \in channels') /\ (FALSE <=> terminal' = "no")
      BY <2>1, <2>4 DEF y
    <3>4. TakesTo(target, srv[d], msg, y, FALSE, FALSE, Waits(d)', Waited(d)')
      BY <2>2, <3>2
    <3> QED
      BY <1>1, <2>1, <2>4, <3>3, <3>4, TakenSeen
  <2> QED
    BY <2>3, <2>4
<1> QED
  BY <1>7, <1>9, <1>10

\* A global request is about no channel.
LEMMA RecvGlobalSeen ==
  ASSUME IInv, Wired, RecvGlobal, NEW d \in Channel
  PROVE  Seen(d)'
<1>1. /\ Receive({"global"}) /\ inbox # <<>> /\ inbox' = Tail(inbox)
      /\ Write("REQUEST_FAILURE", msg.ch, 0, "reader") /\ ReaderAt("write", msg.ch, 0)
      /\ UNCHANGED <<channels, terminal, chan, flushed, srv>>
  BY DEF RecvGlobal, Handle, Receive, muxVars
<1>2. /\ msg.ch \in Channel /\ msg.type = "global" /\ reader.at = "read" /\ Seen(d) /\ Shared
      /\ inbox \in Seq(Message) /\ tail \in Seq(Packet)
  <2>1. msg.ch \in Channel /\ msg.type = "global" /\ reader.at = "read"
    BY <1>1, ReceiveFacts DEF Receive
  <2> QED
    BY <2>1 DEF Wired, IInv, QueuesOK
<1>3. PICK p \in Packet : tail' = Append(tail, p) /\ p.type = "REQUEST_FAILURE"
  BY <1>1, <1>2, Written DEF ClientType, Owner
<1>4. Head(inbox).type = "global" /\ Head(inbox).n = 0
  <2>1. Head(inbox) = inbox[1] /\ 1 \in DOMAIN inbox
    BY <1>1, <1>2, TailMessages
  <2> QED
    BY <1>2, <2>1 DEF msg, Shared
<1>5. TailOther(d) /\ InboxOther(d)
  BY <1>1, <1>3, <1>4 DEF TailOther, InboxOther, For
<1>6. FlushedFor(d)' <=> FlushedFor(d)
  BY <1>1, <1>2, <1>3, FlushedNext
<1>7. Waits(d) = "no" /\ Waited(d) = 0 /\ Waits(d)' = "no" /\ Waited(d)' = 0
  BY <1>1, <1>2, Waiting, WaitingNext DEF ReaderAt
<1>8. Untouched(d)
  BY <1>1, <1>6, <1>7 DEF Untouched
<1> QED
  BY <1>2, <1>5, <1>8, SeenOther

-----------------------------------------------------------------------------
(* The server.                                                             *)

LEMMA SendSeen ==
  ASSUME Compliant, IInv, Wired, NEW type \in ServerType, NEW c \in Channel, NEW k \in Nat,
         type # "data" => k = 0, Send(type, c, k), NEW d \in Channel
  PROVE  Seen(d)'
<1> DEFINE p == [type |-> type, ch |-> c, n |-> k]
<1>1. /\ terminal = "no" /\ MaySend(type, c, k) /\ inbox' = Append(inbox, p)
      /\ UNCHANGED <<channels, terminal, chan, tail, flushed, reader>>
      /\ srv' = [srv EXCEPT ![c].sent = IF Compliant /\ type # "global" THEN @ \cup {type} ELSE @,
                            ![c].window = IF k <= @ THEN @ - k ELSE 0,
                            ![c].bytes = IF Compliant THEN @ + k ELSE @]
  BY DEF Send, muxVars
<1>2. /\ Seen(d) /\ Shared /\ inbox \in Seq(Message) /\ tail \in Seq(Packet)
      /\ srv \in [Channel -> ServerState] /\ srv[c] \in ServerState
  BY DEF Wired, IInv, QueuesOK
<1>3. p \in Message /\ p.type = type /\ p.n = k /\ p.ch = c
  BY DEF Message
<1>4. Waits(d)' = Waits(d) /\ Waited(d)' = Waited(d) /\ (FlushedFor(d)' <=> FlushedFor(d))
  BY <1>1, WaitingNext DEF FlushedFor
<1>5. srv[c].window \in Nat /\ srv[c].bytes \in Nat
  BY <1>2 DEF ServerState
<1>6. CASE d # c \/ type = "global"
  <2>1. srv'[d] = srv[d]
    <3>1. CASE d # c
      BY <1>1, <1>2, <3>1
    <3>2. CASE d = c
      <4>1. type = "global" /\ k = 0
        BY <1>6, <3>2
      <4> DEFINE a == srv[c].window - 0
                 b == srv[c].bytes + 0
      <4>2. a = srv[c].window /\ b = srv[c].bytes /\ 0 <= srv[c].window
        BY <1>5
      <4>3. srv'[c] = [srv[c] EXCEPT !.sent = @, !.window = a, !.bytes = b]
        BY <1>1, <1>2, <4>1, <4>2
      <4> HIDE DEF a, b
      <4>4. srv'[c] = srv[c]
        BY <1>2, <4>2, <4>3 DEF ServerState
      <4> QED
        BY <3>2, <4>4
    <3> QED
      BY <3>1, <3>2
  <2>2. ~For(p, d) /\ (p.ch = d => p.n = 0)
    BY <1>3, <1>6 DEF For
  <2>3. InboxOther(d) /\ TailOther(d)
    BY <1>1, <1>3, <2>2 DEF InboxOther, TailOther
  <2>4. Untouched(d)
    BY <1>1, <1>4, <2>1 DEF Untouched
  <2> QED
    BY <1>2, <2>3, <2>4, SeenOther
<1>7. CASE d = c /\ type # "global"
  <2> DEFINE x == chan[d]
             r == Waits(d)
             n == Waited(d)
             v == srv[d]
             y == srv'[d]
  <2>1. PICK m \in BOOLEAN, l \in BOOLEAN, f \in BOOLEAN :
          /\ m <=> d \in channels
          /\ l <=> terminal = "no"
          /\ f <=> FlushedFor(d)
          /\ View(d, tail, inbox, chan[d], m, l, Waits(d), Waited(d), f, srv[d])
    BY <1>2 DEF Seen
  <2>2. l /\ (m <=> d \in channels') /\ (l <=> terminal' = "no") /\ (f <=> FlushedFor(d)')
    BY <1>1, <1>4, <2>1
  <2>3. Allowed(v, p.type, p.n)
    BY <1>1, <1>3, <1>7, MayAllowed
  <2>4. k <= v.window
    <3>1. CASE type = "data"
      BY <1>3, <2>3, <3>1 DEF Allowed
    <3>2. CASE type # "data"
      BY <1>5, <1>7, <3>2
    <3> QED
      BY <3>1, <3>2
  <2>5. Sends(v, y, p.type, p.n)
    <3>1. v.window - k \in Nat
      BY <1>5, <1>7, <2>4
    <3>2. y = [v EXCEPT !.sent = @ \cup {type}, !.window = @ - k, !.bytes = @ + k]
      BY <1>1, <1>2, <1>7, <2>4
    <3> QED
      BY <1>3, <3>1, <3>2 DEF Sends
  <2>6. For(p, d) /\ (p.type # "data" => p.n = 0) /\ p.type # "global"
    BY <1>3, <1>7 DEF For, ServerType
  <2>7. View(d, tail, inbox, x, m, l, r, n, f, v)
    BY <2>1
  <2> HIDE DEF x, r, n, v, y, p
  <2>8. \A w, q : OnWire(x, m, l, r, n, f, w, v, q) => OnWire(x, m, l, r, n, f, w, y, Append(q, p))
    BY <1>3, <2>2, <2>3, <2>5, <2>6, SendWire
  <2>9. View(d, tail, Append(inbox, p), x, m, l, r, n, f, y)
    BY <1>2, <1>3, <2>6, <2>7, <2>8, ViewSend
  <2>10. View(d, tail', inbox', chan'[d], m, l, Waits(d)', Waited(d)', f, srv'[d])
    BY <1>1, <1>4, <2>9 DEF x, r, n, y
  <2> QED
    BY <2>2, <2>10, SeenNext
<1> QED
  BY <1>6, <1>7

LEMMA StutterSeen ==
  ASSUME IInv, Wired, UNCHANGED vars, NEW d \in Channel
  PROVE  Seen(d)'
<1>1. /\ UNCHANGED <<channels, terminal, chan, tail, flushed, reader, srv, inbox>>
      /\ Seen(d) /\ tail \in Seq(Packet) /\ inbox \in Seq(Message)
  BY DEF vars, muxVars, srvVars, Wired, IInv, QueuesOK
<1>2. Untouched(d) /\ TailOther(d) /\ InboxOther(d)
  BY <1>1, WaitingNext DEF Untouched, TailOther, InboxOther, FlushedFor
<1> QED
  BY <1>1, <1>2, SeenOther

-----------------------------------------------------------------------------
(* What the channels share: the object of a channel that has begun, ...    *)

StaysBegun(d) == chan[d].begin # "none" => chan'[d].begin # "none"

LEMMA FatalStaysBegun ==
  ASSUME NEW chs, NEW open, NEW reason, Fatal(chs, open, reason), NEW d \in Channel, chs[d] \in ChannelState
  PROVE  chan'[d].begin = chs[d].begin
  BY ChannelOps DEF Fatal

LEMMA OneStaysBegun ==
  ASSUME chan \in [Channel -> ChannelState], NEW c, NEW y, chan' = [chan EXCEPT ![c] = y],
         c \in Channel => y.begin # "none", NEW d \in Channel
  PROVE  StaysBegun(d)
  BY DEF StaysBegun

LEMMA CancelStaysBegun ==
  ASSUME IInv, NEW c \in Channel, Cancel(c), NEW d \in Channel
  PROVE  StaysBegun(d)
<1>1. chan \in [Channel -> ChannelState]
  BY DEF IInv, ChannelsOK
<1>2. Closing(Rejected(chan[c])) \in ChannelState /\ Closing(Rejected(chan[c])).begin = chan[c].begin
  BY <1>1, ChannelOps
<1>3. chan' = [chan EXCEPT ![c] = [Closing(Rejected(chan[c])) EXCEPT !.cancelled = TRUE]]
  BY DEF Cancel
<1>4. [Closing(Rejected(chan[c])) EXCEPT !.cancelled = TRUE].begin = chan[c].begin
  BY <1>2 DEF ChannelState
<1> QED
  BY <1>1, <1>3, <1>4 DEF StaysBegun

LEMMA CatchStaysBegun ==
  ASSUME IInv, NEW c \in Channel, NEW ch \in ChannelState, CatchBegin(c, ch), NEW d \in Channel
  PROVE  StaysBegun(d)
<1>1. chan \in [Channel -> ChannelState]
  BY DEF IInv, ChannelsOK
<1>2. Closing(Rejected(ch)) \in ChannelState
  BY ChannelOps
<1> DEFINE z == IF ch.cancelled THEN ch ELSE Closing(Rejected(ch))
<1>3. z \in ChannelState
  BY <1>2
<1>4. chan' = [chan EXCEPT ![c] = [Closing(Rejected(ch)) EXCEPT !.begin = "closing"]]
      \/ chan' = [chan EXCEPT ![c] = [z EXCEPT !.begin = "done"]]
  BY DEF CatchBegin
<1> HIDE DEF z
<1>5. /\ [Closing(Rejected(ch)) EXCEPT !.begin = "closing"].begin = "closing"
      /\ [z EXCEPT !.begin = "done"].begin = "done"
  BY <1>2, <1>3 DEF ChannelState
<1> QED
  BY <1>1, <1>4, <1>5, OneStaysBegun

LEMMA ResumeStaysBegun ==
  ASSUME IInv, NEW c \in Channel, NEW at, NEW promise, NEW ch \in ChannelState, NEW type, NEW next,
         next # "none", Resume(c, at, promise, ch, type, next), NEW d \in Channel
  PROVE  StaysBegun(d)
<1>1. chan \in [Channel -> ChannelState] /\ chan[c] \in ChannelState
  BY DEF IInv, ChannelsOK
<1>2. \/ CatchBegin(c, chan[c]) \/ CatchBegin(c, ch)
      \/ chan' = [chan EXCEPT ![c].begin = "done"]
      \/ chan' = [chan EXCEPT ![c] = [ch EXCEPT !.begin = next]]
  BY DEF Resume, BeginWrite
<1>3. [ch EXCEPT !.begin = next].begin = next /\ [chan[c] EXCEPT !.begin = "done"].begin = "done"
  BY <1>1 DEF ChannelState
<1>4. CASE chan' = [chan EXCEPT ![c].begin = "done"]
  BY <1>1, <1>3, <1>4, OneStaysBegun
<1>5. CASE chan' = [chan EXCEPT ![c] = [ch EXCEPT !.begin = next]]
  BY <1>1, <1>3, <1>5, OneStaysBegun
<1> QED
  BY <1>1, <1>2, <1>4, <1>5, CatchStaysBegun

LEMMA BeginsStaysBegun ==
  ASSUME IInv, Begins, NEW d \in Channel
  PROVE  StaysBegun(d)
<1>1. PICK c \in Channel : ResumeOpened(c) \/ ResumeReplied(c)
  BY DEF Begins
<1>2. chan[c] \in ChannelState
  BY DEF IInv, ChannelsOK
<1>3. /\ [chan[c] EXCEPT !.reply = "pending"] \in ChannelState
      /\ [chan[c] EXCEPT !.sentEof = TRUE] \in ChannelState
  BY <1>2 DEF ChannelState, Promise
<1> QED
  BY <1>1, <1>3, ResumeStaysBegun DEF ResumeOpened, ResumeReplied

LEMMA FinishStaysBegun ==
  ASSUME NEW c \in Channel, NEW chs \in [Channel -> ChannelState], FinishClose(c, chs),
         NEW d \in Channel, chs[d].begin = chan[d].begin
  PROVE  StaysBegun(d)
<1>1. CASE chs[c].cancelled \/ Complete(chs[c])
  <2>1. PICK k : chan' = [chs EXCEPT ![c].result = k]
    BY <1>1 DEF FinishClose
  <2>2. chan'[d].begin = chs[d].begin
    BY <2>1 DEF ChannelState
  <2> QED
    BY <2>2 DEF StaysBegun
<1>2. CASE ~(chs[c].cancelled \/ Complete(chs[c]))
  <2> DEFINE z == [chs EXCEPT ![c] = Rejected(@)]
  <2>1. PICK open : Fatal(z, open, "incompleteExit")
    BY <1>2 DEF FinishClose
  <2>2. z[d] \in ChannelState /\ z[d].begin = chs[d].begin
    BY ChannelOps
  <2> HIDE DEF z
  <2>3. chan'[d].begin = chs[d].begin
    BY <2>1, <2>2, FatalStaysBegun
  <2> QED
    BY <2>3 DEF StaysBegun
<1> QED
  BY <1>1, <1>2

LEMMA WriteDoneStaysBegun ==
  ASSUME IInv, WriteDone, NEW d \in Channel
  PROVE  StaysBegun(d)
<1> DEFINE p == Head(tail)
<1>1. chan \in [Channel -> ChannelState] /\ tail \in Seq(Packet) /\ tail # <<>> /\ SuspendedInTail
  BY DEF IInv, ChannelsOK, QueuesOK, WriteDone
<1>2. p \in Packet /\ p = tail[1] /\ 1 \in DOMAIN tail
  BY <1>1
<1>3. p.ch \in Channel
  BY <1>2 DEF Packet
<1>4. \/ p.by = "begin" /\ chan' = [chan EXCEPT ![p.ch].begin = NextWait[@]]
      \/ chan' = chan
      \/ chan' = [chan EXCEPT ![p.ch].window = @ + p.n, ![p.ch].output = @ + p.n]
      \/ FinishClose(p.ch, chan)
  BY DEF WriteDone
<1> HIDE DEF p
<1>5. CASE p.by = "begin" /\ chan' = [chan EXCEPT ![p.ch].begin = NextWait[@]]
  <2>1. chan[p.ch].begin \in Writing
    BY <1>1, <1>2, <1>3, <1>5 DEF SuspendedInTail
  <2>2. NextWait[chan[p.ch].begin] # "none"
    BY <2>1 DEF Writing, NextWait
  <2> DEFINE k == NextWait[chan[p.ch].begin]
  <2>3. chan' = [chan EXCEPT ![p.ch] = [chan[p.ch] EXCEPT !.begin = k]]
    BY <1>5
  <2> HIDE DEF k
  <2>4. [chan[p.ch] EXCEPT !.begin = k].begin = k
    BY <1>1, <1>3 DEF ChannelState
  <2>5. k # "none"
    BY <2>2 DEF k
  <2> QED
    BY <1>1, <2>3, <2>4, <2>5, OneStaysBegun
<1>6. CASE chan' = [chan EXCEPT ![p.ch].window = @ + p.n, ![p.ch].output = @ + p.n]
  BY <1>1, <1>3, <1>6 DEF StaysBegun, ChannelState
<1>7. CASE FinishClose(p.ch, chan)
  BY <1>1, <1>3, <1>7, FinishStaysBegun
<1> QED
  BY <1>4, <1>5, <1>6, <1>7 DEF StaysBegun

LEMMA WriteFailStaysBegun ==
  ASSUME IInv, WriteFail, NEW d \in Channel
  PROVE  StaysBegun(d)
<1> DEFINE failed == {p.ch : p \in {tail[i] : i \in {j \in DOMAIN tail : tail[j].by = "begin"}}}
           gaveUp(c) == \/ c \in failed /\ ~chan[c].cancelled
                        \/ reader.at = "adjust" /\ reader.ch = c
           thrown == [c \in Channel |-> Thrown(chan[c], gaveUp(c), c \in failed)]
<1>1. Fatal(thrown, channels, "transport")
  BY DEF WriteFail, Thrown
<1> DEFINE x == chan[d]
           y == IF gaveUp(d) THEN Closing(Rejected(x)) ELSE x
<1>2. x \in ChannelState
  BY DEF IInv, ChannelsOK
<1>3. y \in ChannelState /\ y.begin = x.begin
  BY <1>2, ChannelOps
<1>4. \/ thrown[d] = [y EXCEPT !.begin = "done"]
      \/ thrown[d] = [y EXCEPT !.begin = @]
  BY DEF Thrown
<1> HIDE DEF x, y, thrown
<1>5. thrown[d] \in ChannelState /\ (thrown[d].begin = "done" \/ thrown[d].begin = x.begin)
  BY <1>3, <1>4 DEF ChannelState, Begin
<1>6. chan'[d].begin = thrown[d].begin
  BY <1>1, <1>5, FatalStaysBegun
<1> QED
  BY <1>5, <1>6 DEF StaysBegun, x

LEMMA ReadStaysBegun ==
  ASSUME IInv, ReadLoop, NEW d \in Channel
  PROVE  StaysBegun(d)
<1>1. chan \in [Channel -> ChannelState]
  BY DEF IInv, ChannelsOK
<1> DEFINE c == msg.ch
           x == target
<1>2. /\ c \in Channel /\ x = chan[c] /\ x \in ChannelState
      /\ Rejected(x) \in ChannelState /\ Rejected(x).begin = x.begin
      /\ Closing(Rejected(x)) \in ChannelState /\ Closing(Rejected(x)).begin = x.begin
  <2>1. \E types : Receive(types)
    BY DEF ReadLoop, RecvError, RecvConfirmation, RecvOpenFailure, RecvData, RecvOverLimit,
           RecvEof, RecvExitStatus, RecvReply, RecvClose, RecvGlobal, Handle
  <2>2. c \in Channel /\ x = chan[c] /\ x \in ChannelState
    BY <2>1, ReceiveFacts DEF target
  <2> QED
    BY <2>2, ChannelOps
<1>3. CASE RecvError
  BY <1>1, <1>3, FatalStaysBegun DEF RecvError, StaysBegun
<1> DEFINE closes == [chan EXCEPT ![c].receivedClose = TRUE, ![c].sentClose = @ \/ x.remote]
<1>4. CASE RecvClose
  <2>1. closes \in [Channel -> ChannelState] /\ closes[d].begin = chan[d].begin
    BY <1>1, <1>2 DEF ChannelState
  <2>2. chan' = closes \/ FinishClose(c, closes)
    BY <1>4 DEF RecvClose
  <2> HIDE DEF closes
  <2>3. CASE chan' = closes
    BY <2>1, <2>3 DEF StaysBegun
  <2> QED
    BY <1>2, <2>1, <2>2, <2>3, FinishStaysBegun
<1>5. CASE RecvOpenFailure
  <2> DEFINE y == [Rejected(x) EXCEPT !.opened = Settle(@, "rejected")]
  <2>1. chan' = [chan EXCEPT ![c] = y]
    BY <1>5 DEF RecvOpenFailure
  <2>2. y.begin = chan[c].begin
    BY <1>2 DEF ChannelState
  <2> HIDE DEF y
  <2> QED
    BY <1>1, <1>2, <2>1, <2>2 DEF StaysBegun
<1>6. CASE RecvOverLimit
  <2>1. chan' = [chan EXCEPT ![c] = Closing(Rejected(x))]
    BY <1>2, <1>6 DEF RecvOverLimit
  <2> QED
    BY <1>1, <1>2, <2>1 DEF StaysBegun
<1>7. CASE RecvConfirmation
  <2> DEFINE y == [x EXCEPT !.remote = TRUE, !.opened = Settle(@, "resolved"), !.sentClose = @ \/ x.closing]
  <2>1. chan' = [chan EXCEPT ![c] = y]
    BY <1>2, <1>7 DEF RecvConfirmation
  <2>2. y.begin = chan[c].begin
    BY <1>2 DEF ChannelState
  <2> HIDE DEF y
  <2> QED
    BY <1>1, <1>2, <2>1, <2>2 DEF StaysBegun
<1>8. CASE RecvData
  <2> DEFINE y == [x EXCEPT !.window = @ - msg.n]
             z == [x EXCEPT !.window = @ - msg.n, !.output = @ + msg.n]
  <2>1. chan' = [chan EXCEPT ![c] = y] \/ chan' = [chan EXCEPT ![c] = z]
    BY <1>2, <1>8 DEF RecvData
  <2>2. y.begin = chan[c].begin /\ z.begin = chan[c].begin
    BY <1>2 DEF ChannelState
  <2> HIDE DEF y, z
  <2> QED
    BY <1>1, <1>2, <2>1, <2>2 DEF StaysBegun
<1>9. CASE RecvEof \/ RecvExitStatus \/ RecvReply
  <2> DEFINE k == IF msg.type = "success" THEN "resolved" ELSE "rejected"
  <2>1. \/ chan' = [chan EXCEPT ![c].receivedEof = TRUE]
        \/ chan' = [chan EXCEPT ![c].exited = TRUE]
        \/ chan' = [chan EXCEPT ![c].reply = k]
    BY <1>9 DEF RecvEof, RecvExitStatus, RecvReply
  <2> HIDE DEF k, c
  <2>2. chan'[d].begin = chan[d].begin
    BY <1>1, <2>1 DEF ChannelState
  <2> QED
    BY <2>2 DEF StaysBegun
<1>10. CASE RecvGlobal
  BY <1>10 DEF RecvGlobal, StaysBegun
<1> QED
  BY <1>3, <1>4, <1>5, <1>6, <1>7, <1>8, <1>9, <1>10 DEF ReadLoop

LEMMA NextStaysBegun ==
  ASSUME IInv, Next, NEW d \in Channel
  PROVE  StaysBegun(d)
<1>1. CASE Run
  <2>1. chan' = [chan EXCEPT ![nextLocalChannel] = Opening] /\ Opening.begin = "opening"
    BY <1>1 DEF Run, Opening, NewChannel
  <2>2. chan \in [Channel -> ChannelState]
    BY DEF IInv, ChannelsOK
  <2> QED
    BY <2>1, <2>2, OneStaysBegun
<1>2. CASE Close \/ ReadFail
  <2>1. \E reason : Fatal(chan, channels, reason)
    BY <1>2 DEF Close, ReadFail
  <2>2. chan[d] \in ChannelState
    BY DEF IInv, ChannelsOK
  <2> QED
    BY <2>1, <2>2, FatalStaysBegun DEF StaysBegun
<1>3. CASE Transmit \/ Server
  BY <1>3 DEF Transmit, Server, SendData, SendOther, Send, StaysBegun
<1> QED
  BY <1>1, <1>2, <1>3, CancelStaysBegun, BeginsStaysBegun, WriteDoneStaysBegun, WriteFailStaysBegun, ReadStaysBegun
     DEF Next, User

\* ... the map and the queue of messages, ...
LEMMA MapNext ==
  ASSUME Next
  PROVE  Run \/ (nextLocalChannel' = nextLocalChannel /\ channels' \subseteq channels)
<1> DEFINE shrinks == nextLocalChannel' = nextLocalChannel /\ channels' \subseteq channels
<1>1. ASSUME NEW chs, NEW open, open \subseteq channels, NEW reason, Fatal(chs, open, reason)
      PROVE  shrinks
  BY <1>1 DEF Fatal
<1>2. ASSUME NEW c, NEW chs, FinishClose(c, chs)
      PROVE  shrinks
  BY <1>1, <1>2 DEF FinishClose
<1>3. CASE Close \/ ReadFail \/ RecvError
  <2>1. \E reason : Fatal(chan, channels, reason)
    BY <1>3 DEF Close, ReadFail, RecvError
  <2> QED
    BY <1>1, <2>1
<1>4. CASE WriteFail
  <2>1. \E chs : Fatal(chs, channels, "transport")
    BY <1>4 DEF WriteFail
  <2> QED
    BY <1>1, <2>1
<1>5. CASE WriteDone
  <2>1. UNCHANGED muxVars \/ \E c, chs : FinishClose(c, chs)
    BY <1>5 DEF WriteDone
  <2> QED
    BY <1>2, <2>1 DEF muxVars
<1>6. CASE RecvClose
  <2>1. UNCHANGED muxVars \/ \E c, chs : FinishClose(c, chs)
    BY <1>6 DEF RecvClose
  <2> QED
    BY <1>2, <2>1 DEF muxVars
<1>7. CASE RecvOpenFailure
  BY <1>7 DEF RecvOpenFailure
<1>8. CASE \/ Begins \/ \E c \in Channel : Cancel(c)
           \/ Transmit \/ Server \/ RecvConfirmation \/ RecvData \/ RecvOverLimit
           \/ RecvEof \/ RecvExitStatus \/ RecvReply \/ RecvGlobal
  <2>1. UNCHANGED muxVars
    BY <1>8 DEF Begins, ResumeOpened, ResumeReplied, Resume, Cancel, Transmit, Server, SendData, SendOther,
       Send, RecvConfirmation, RecvData, RecvOverLimit, RecvEof, RecvExitStatus, RecvReply, RecvGlobal
  <2> QED
    BY <2>1 DEF muxVars
<1> QED
  BY <1>3, <1>4, <1>5, <1>6, <1>7, <1>8 DEF Next, User, ReadLoop

LEMMA InboxNext ==
  ASSUME Next
  PROVE  \/ inbox' = inbox
         \/ inbox # <<>> /\ inbox' = Tail(inbox)
         \/ \E type \in ServerType, c \in Channel, n \in Nat :
              (type # "data" => n = 0) /\ Send(type, c, n)
<1>1. CASE User \/ Begins \/ Transmit \/ WriteDone \/ WriteFail \/ ReadFail
  BY <1>1 DEF User, Run, Close, Cancel, Begins, ResumeOpened, ResumeReplied, Resume, Transmit, WriteDone,
     WriteFail, ReadFail, srvVars
<1>2. CASE ReadLoop
  <2>1. \E types : Receive(types)
    BY <1>2 DEF ReadLoop, RecvError, RecvConfirmation, RecvOpenFailure, RecvData, RecvOverLimit,
       RecvEof, RecvExitStatus, RecvReply, RecvClose, RecvGlobal, Handle
  <2> QED
    BY <2>1 DEF Receive
<1>3. CASE Server
  <2>1. PICK c \in Channel : SendData(c) \/ SendOther(c)
    BY <1>3 DEF Server
  <2>2. CASE SendData(c)
    BY <2>2, MuxAssumption DEF SendData, ServerType
  <2>3. CASE SendOther(c)
    BY <2>3, MuxAssumption DEF SendOther
  <2> QED
    BY <2>1, <2>2, <2>3
<1> QED
  BY <1>1, <1>2, <1>3 DEF Next

LEMMA MapShared ==
  ASSUME IInv, Wired, Next
  PROVE  IsFiniteSet(channels') /\ Cardinality(channels') <= MaxChannels
<1>1. IsFiniteSet(channels) /\ Cardinality(channels) <= MaxChannels
  BY DEF Wired, Shared
<1>2. CASE Run
  <2>1. Cardinality(channels) < MaxChannels /\ channels' = channels \cup {nextLocalChannel}
    BY <1>2 DEF Run, HasSlot
  <2>2. Cardinality(channels) \in Nat /\ MaxChannels \in Nat
    BY <1>1, FS_CardinalityType, MuxAssumption
  <2>3. IsFiniteSet(channels') /\ (\/ Cardinality(channels') = Cardinality(channels)
                                   \/ Cardinality(channels') = Cardinality(channels) + 1)
    BY <1>1, <2>1, FS_AddElement
  <2> QED
    BY <2>1, <2>2, <2>3
<1>3. CASE channels' \subseteq channels
  <2>1. IsFiniteSet(channels') /\ Cardinality(channels') <= Cardinality(channels)
    BY <1>1, <1>3, FS_Subset
  <2>2. Cardinality(channels) \in Nat /\ Cardinality(channels') \in Nat /\ MaxChannels \in Nat
    BY <1>1, <2>1, FS_CardinalityType, MuxAssumption
  <2> QED
    BY <1>1, <2>1, <2>2
<1> QED
  BY <1>2, <1>3, MapNext

LEMMA InboxShared ==
  ASSUME IInv, Wired, Next
  PROVE  \A i \in DOMAIN inbox' : inbox'[i].type # "data" => inbox'[i].n = 0
<1>1. /\ inbox \in Seq(Message)
      /\ \A i \in DOMAIN inbox : inbox[i].type # "data" => inbox[i].n = 0
  BY DEF Wired, Shared, IInv, QueuesOK
<1>2. CASE inbox' = inbox
  BY <1>1, <1>2
<1>3. CASE inbox # <<>> /\ inbox' = Tail(inbox)
  <2>1. \A i \in DOMAIN Tail(inbox) : i + 1 \in DOMAIN inbox /\ Tail(inbox)[i] = inbox[i + 1]
    BY <1>1, <1>3, TailMessages
  <2> QED
    BY <1>1, <1>3, <2>1
<1>4. ASSUME NEW type \in ServerType, NEW c \in Channel, NEW n \in Nat,
             type # "data" => n = 0, Send(type, c, n)
      PROVE  \A i \in DOMAIN inbox' : inbox'[i].type # "data" => inbox'[i].n = 0
  <2> DEFINE p == [type |-> type, ch |-> c, n |-> n]
  <2>1. inbox' = Append(inbox, p) /\ (p.type # "data" => p.n = 0)
    BY <1>4 DEF Send
  <2> HIDE DEF p
  <2>2. \A i \in DOMAIN Append(inbox, p) : Append(inbox, p)[i] = p \/ (i \in DOMAIN inbox /\ Append(inbox, p)[i] = inbox[i])
    BY <1>1
  <2> QED
    BY <1>1, <2>1, <2>2
<1> QED
  BY <1>2, <1>3, <1>4, InboxNext

\* ... and the write tail.
OwnNext(p) ==
  /\ p.type = "REQUEST_FAILURE" => p.by = "reader"
  /\ p.by = "reader" =>
       /\ reader'.at = "adjust" => p.type = "ADJUST" /\ p.ch = reader'.ch /\ p.n = reader'.n
       /\ reader'.at = "close" => p.type = "CLOSE" /\ p.ch = reader'.ch
Idle == \A i \in DOMAIN tail : tail[i].by # "reader"
Queues ==
  /\ tail' = tail \/ \E p \in Packet : tail' = Append(tail, p) /\ OwnNext(p)
  /\ reader' = reader \/ Idle
  /\ flushed' = flushed

LEMMA OwnKept ==
  ASSUME NEW p, OwnPacket(p), reader' = reader \/ p.by # "reader"
  PROVE  OwnNext(p)
  BY DEF OwnPacket, OwnNext

LEMMA WroteOther ==
  ASSUME NEW type \in ClientType \ {"REQUEST_FAILURE"}, NEW c \in Channel, NEW n \in Nat,
         NEW by \in {"begin", "cancel"}, Write(type, c, n, by)
  PROVE  \E p \in Packet : tail' = Append(tail, p) /\ OwnNext(p)
<1>1. PICK p \in Packet : tail' = Append(tail, p) /\ p.type = type /\ p.by = by
  BY Written DEF Owner
<1> QED
  BY <1>1 DEF OwnNext

LEMMA WroteReader ==
  ASSUME NEW type \in ClientType, NEW c \in Channel, NEW n \in Nat, Write(type, c, n, "reader"),
         NEW at, ReaderAt(at, c, n), at = "adjust" => type = "ADJUST", at = "close" => type = "CLOSE"
  PROVE  \E p \in Packet : tail' = Append(tail, p) /\ OwnNext(p)
<1>1. PICK p \in Packet : tail' = Append(tail, p) /\ p.type = type /\ p.ch = c /\ p.n = n /\ p.by = "reader"
  BY Written DEF Owner
<1>2. reader'.at = at /\ reader'.ch = c /\ reader'.n = n
  BY DEF ReaderAt
<1> QED
  BY <1>1, <1>2 DEF OwnNext

LEMMA CatchQueues ==
  ASSUME NEW c \in Channel, NEW ch, CatchBegin(c, ch)
  PROVE  tail' = tail \/ \E p \in Packet : tail' = Append(tail, p) /\ OwnNext(p)
<1>1. tail' = tail \/ Write("CLOSE", c, 0, "begin")
  BY DEF CatchBegin
<1> QED
  BY <1>1, WroteOther DEF ClientType

LEMMA ResumeQueues ==
  ASSUME NEW c \in Channel, NEW at, NEW promise, NEW ch, NEW type \in {"EXEC", "EOF"}, NEW next,
         Resume(c, at, promise, ch, type, next)
  PROVE  Queues
<1>1. \/ tail' = tail \/ Write(type, c, 0, "begin")
      \/ CatchBegin(c, chan[c]) \/ CatchBegin(c, ch)
  BY DEF Resume, BeginWrite
<1>2. reader' = reader /\ flushed' = flushed
  BY DEF Resume
<1>3. CASE Write(type, c, 0, "begin")
  BY <1>2, <1>3, WroteOther DEF ClientType, Queues
<1> QED
  BY <1>1, <1>2, <1>3, CatchQueues DEF Queues

LEMMA CallQueues ==
  ASSUME User \/ Begins
  PROVE  Queues
<1>1. CASE Run
  <2>1. /\ Write("OPEN", nextLocalChannel, InitialWindow, "begin") /\ nextLocalChannel \in Channel
        /\ UNCHANGED <<flushed, reader>>
    BY <1>1 DEF Run
  <2> QED
    BY <2>1, WroteOther, InitialWindowNat DEF ClientType, Queues
<1>2. CASE Close
  BY <1>2 DEF Close, Queues
<1>3. ASSUME NEW c \in Channel, Cancel(c) PROVE Queues
  <2>1. /\ tail' = tail \/ Write("CLOSE", c, 0, "cancel")
        /\ UNCHANGED <<flushed, reader>>
    BY <1>3 DEF Cancel, WriteCloseIfDue
  <2> QED
    BY <2>1, WroteOther DEF ClientType, Queues
<1>4. CASE Begins
  BY <1>4, ResumeQueues DEF Begins, ResumeOpened, ResumeReplied
<1> QED
  BY <1>1, <1>2, <1>3, <1>4 DEF User

LEMMA ReadQueues ==
  ASSUME IInv, ReadLoop
  PROVE  Queues
<1>1. PICK types : Receive(types)
  BY DEF ReadLoop, RecvError, RecvConfirmation, RecvOpenFailure, RecvData, RecvOverLimit,
     RecvEof, RecvExitStatus, RecvReply, RecvClose, RecvGlobal, Handle
<1>2. msg.ch \in Channel /\ msg.n \in Nat /\ flushed' = flushed /\ Idle /\ target = chan[msg.ch]
  <2>1. Suspended(tail, Writers, FALSE) /\ msg.ch \in Channel /\ msg.n \in Nat
    BY <1>1, ReceiveFacts
  <2> QED
    BY <1>1, <2>1 DEF Receive, Suspended, Idle, target
<1> DEFINE c == msg.ch
           n == msg.n
<1> HIDE DEF c, n
<1>3. \/ tail' = tail
      \/ Write("CLOSE", c, 0, "reader") /\ (ReaderAt("write", c, 0) \/ ReaderAt("close", c, 0))
      \/ Write("ADJUST", c, n, "reader") /\ ReaderAt("adjust", c, n)
      \/ Write("REQUEST_FAILURE", c, 0, "reader") /\ ReaderAt("write", c, 0)
  <2>1. CASE \/ RecvError \/ RecvOpenFailure \/ RecvEof \/ RecvExitStatus \/ RecvReply
    BY <2>1 DEF RecvError, RecvOpenFailure, RecvEof, RecvExitStatus, RecvReply
  <2>2. CASE RecvConfirmation
    BY <2>2 DEF RecvConfirmation, c
  <2>3. CASE RecvData
    BY <2>3 DEF RecvData, c, n
  <2>4. CASE RecvOverLimit
    BY <1>2, <2>4 DEF RecvOverLimit, WriteCloseIfDue, c
  <2>5. CASE RecvClose
    BY <2>5 DEF RecvClose, c
  <2>6. CASE RecvGlobal
    BY <2>6 DEF RecvGlobal, c
  <2> QED
    BY <2>1, <2>2, <2>3, <2>4, <2>5, <2>6 DEF ReadLoop
<1>4. c \in Channel /\ n \in Nat
  BY <1>2 DEF c, n
<1>5. tail' = tail \/ \E p \in Packet : tail' = Append(tail, p) /\ OwnNext(p)
  <2>1. CASE Write("CLOSE", c, 0, "reader") /\ (ReaderAt("write", c, 0) \/ ReaderAt("close", c, 0))
    BY <1>4, <2>1, WroteReader DEF ClientType
  <2>2. CASE Write("ADJUST", c, n, "reader") /\ ReaderAt("adjust", c, n)
    BY <1>4, <2>2, WroteReader DEF ClientType
  <2>3. CASE Write("REQUEST_FAILURE", c, 0, "reader") /\ ReaderAt("write", c, 0)
    BY <1>4, <2>3, WroteReader DEF ClientType
  <2> QED
    BY <1>3, <2>1, <2>2, <2>3
<1> QED
  BY <1>2, <1>5 DEF Queues

LEMMA OtherQueues ==
  ASSUME IInv, ReadFail \/ Server
  PROVE  Queues
<1>1. CASE ReadFail
  <2>1. reader.at = "read" /\ tail' = tail /\ flushed' = flushed /\ SuspendedInTail
    BY <1>1 DEF ReadFail, IInv
  <2>2. Idle
    BY <2>1 DEF SuspendedInTail, ReaderWriting, Idle
  <2> QED
    BY <2>1, <2>2 DEF Queues
<1>2. CASE Server
  BY <1>2 DEF Server, SendData, SendOther, Send, Queues
<1> QED
  BY <1>1, <1>2

LEMMA TailShared ==
  ASSUME IInv, Wired, Next
  PROVE  /\ flushed' => tail' # <<>>
         /\ \A i \in DOMAIN tail' : OwnNext(tail'[i])
<1>1. /\ tail \in Seq(Packet) /\ (flushed => tail # <<>>)
      /\ \A i \in DOMAIN tail : OwnPacket(tail[i])
      /\ Suspended(tail, Writers, reader.at \in ReaderWriting)
  BY IInvFacts DEF Wired, Shared
<1>2. CASE Queues
  <2>1. \A i \in DOMAIN tail : OwnNext(tail[i])
    BY <1>1, <1>2, OwnKept DEF Queues, Idle
  <2>2. ASSUME NEW p \in Packet, OwnNext(p), tail' = Append(tail, p)
        PROVE  tail' # <<>> /\ \A i \in DOMAIN tail' : OwnNext(tail'[i])
    <3>1. /\ DOMAIN tail' = DOMAIN tail \cup {Len(tail) + 1} /\ tail' # <<>>
          /\ \A i \in DOMAIN tail : tail'[i] = tail[i]
          /\ tail'[Len(tail) + 1] = p
      BY <1>1, <2>2
    <3> QED
      BY <2>1, <2>2, <3>1
  <2> QED
    BY <1>1, <1>2, <2>1, <2>2 DEF Queues
<1>3. CASE Transmit
  <2>1. tail # <<>> /\ tail' = tail /\ reader' = reader
    BY <1>3 DEF Transmit
  <2> QED
    BY <1>1, <2>1, OwnKept
<1>4. CASE WriteDone
  <2>1. /\ tail # <<>> /\ tail' = Tail(tail) /\ flushed' = FALSE
        /\ Head(tail).by = "reader" \/ reader' = reader
    BY <1>4 DEF WriteDone
  <2>2. /\ Head(tail).by = "reader" => Suspended(Tail(tail), Writers, FALSE)
        /\ \A i \in DOMAIN Tail(tail) : i + 1 \in DOMAIN tail /\ Tail(tail)[i] = tail[i + 1]
    <3>1. (reader.at \in ReaderWriting) \in BOOLEAN
      OBVIOUS
    <3>2. \A i \in DOMAIN Tail(tail) : i + 1 \in DOMAIN tail /\ Tail(tail)[i] = tail[i + 1]
      BY <1>1, <2>1
    <3> QED
      BY <1>1, <2>1, <3>1, <3>2, SuspendedTail
  <2>3. Head(tail).by = "reader" => \A i \in DOMAIN Tail(tail) : Tail(tail)[i].by # "reader"
    BY <2>2 DEF Suspended
  <2> QED
    BY <1>1, <2>1, <2>2, <2>3, OwnKept
<1>5. CASE WriteFail
  BY <1>5 DEF WriteFail
<1> QED
  BY <1>2, <1>3, <1>4, <1>5, CallQueues, ReadQueues, OtherQueues DEF Next

-----------------------------------------------------------------------------
(* Every step keeps it.                                                    *)

LEMMA SharedKept ==
  ASSUME IInv, IInv', Wired, Next
  PROVE  Shared'
<1>1. ASSUME NEW d \in Channel
      PROVE  d < nextLocalChannel' <=> chan'[d].begin # "none"
  <2>1. d >= nextLocalChannel' => chan'[d].begin = "none"
    BY DEF IInv, ChannelsOK
  <2>2. nextLocalChannel' \in Nat /\ d \in Nat /\ nextLocalChannel \in Nat
    BY MuxAssumption DEF IInv, ChannelsOK, Channel
  <2>3. d < nextLocalChannel => chan[d].begin # "none"
    BY DEF Wired, Shared
  <2>4. CASE d < nextLocalChannel
    BY <2>1, <2>2, <2>3, <2>4, NextStaysBegun DEF StaysBegun
  <2>5. CASE ~(d < nextLocalChannel)
    <3>1. CASE Run
      <4>1. /\ nextLocalChannel \in Channel /\ nextLocalChannel' = nextLocalChannel + 1
            /\ chan' = [chan EXCEPT ![nextLocalChannel] = Opening] /\ Opening.begin = "opening"
        BY <3>1 DEF Run, Opening, NewChannel
      <4>2. chan'[nextLocalChannel].begin = "opening"
        BY <4>1 DEF IInv, ChannelsOK
      <4>3. d = nextLocalChannel \/ d >= nextLocalChannel'
        BY <2>2, <2>5, <4>1
      <4> QED
        BY <2>1, <2>2, <4>1, <4>2, <4>3
    <3>2. CASE nextLocalChannel' = nextLocalChannel
      BY <2>1, <2>2, <2>5, <3>2
    <3> QED
      BY <3>1, <3>2, MapNext
  <2> QED
    BY <2>4, <2>5
<1>2. /\ flushed' => tail' # <<>>
      /\ \A i \in DOMAIN tail' : OwnNext(tail'[i])
  BY TailShared
<1>3. \A i \in DOMAIN inbox' : inbox'[i].type # "data" => inbox'[i].n = 0
  BY InboxShared
<1>4. IsFiniteSet(channels') /\ Cardinality(channels') <= MaxChannels
  BY MapShared
<1>5. (\A i \in DOMAIN tail : OwnPacket(tail[i]))'
  BY <1>2 DEF OwnPacket, OwnNext
<1> QED
  BY <1>1, <1>2, <1>3, <1>4, <1>5 DEF Shared

LEMMA NextSeen ==
  ASSUME Compliant, IInv, Wired, Next, NEW d \in Channel
  PROVE  Seen(d)'
<1>1. CASE User \/ Begins
  BY <1>1, RunSeen, CloseSeen, CancelSeen, BeginsSeen DEF User
<1>2. CASE Transmit \/ WriteDone \/ WriteFail \/ ReadFail
  BY <1>2, TransmitSeen, WriteDoneSeen, WriteFailSeen, ReadFailSeen
<1>3. CASE ReadLoop
  BY <1>3, RecvErrorSeen, RecvConfirmationSeen, RecvOpenFailureSeen, RecvDataSeen, RecvOverLimitSeen,
     RecvEofSeen, RecvExitStatusSeen, RecvReplySeen, RecvCloseSeen, RecvGlobalSeen DEF ReadLoop
<1>4. CASE Server
  <2>1. PICK c \in Channel : SendData(c) \/ SendOther(c)
    BY <1>4 DEF Server
  <2>2. CASE SendData(c)
    <3>1. PICK n \in DataSize : Send("data", c, n)
      BY <2>2 DEF SendData
    <3>2. "data" \in ServerType /\ n \in Nat
      BY MuxAssumption DEF ServerType
    <3> QED
      BY <3>1, <3>2, SendSeen
  <2>3. CASE SendOther(c)
    <3>1. PICK type \in ServerSends : Send(type, c, 0)
      BY <2>3 DEF SendOther
    <3> QED
      BY <3>1, MuxAssumption, SendSeen
  <2> QED
    BY <2>1, <2>2, <2>3
<1> QED
  BY <1>1, <1>2, <1>3, <1>4 DEF Next

LEMMA WiredKept ==
  ASSUME Compliant, IInv, IInv', Wired, [Next]_vars
  PROVE  Wired'
<1>1. CASE Next
  BY <1>1, SharedKept, NextSeen DEF Wired
<1>2. CASE UNCHANGED vars
  <2>1. UNCHANGED <<nextLocalChannel, channels, terminal, chan, tail, flushed, reader, srv, inbox>>
    BY <1>2 DEF vars, muxVars, srvVars
  <2>2. Shared'
    BY <2>1 DEF Wired, Shared, OwnPacket
  <2> QED
    BY <1>2, <2>2, StutterSeen DEF Wired
<1> QED
  BY <1>1, <1>2

\* The view of a channel that nobody has used.
LEMMA NewWire ==
  OnWire(NewChannel, FALSE, TRUE, "no", 0, FALSE, <<>>,
         [got |-> <<>>, sent |-> {}, window |-> 0, bytes |-> 0], <<>>)
<1> DEFINE x == NewChannel
           v == [got |-> <<>>, sent |-> {}, window |-> 0, bytes |-> 0]
<1>1. /\ x \in ChannelState /\ x.begin = "none" /\ x.opened = "none" /\ x.reply = "none"
      /\ x.result = "none" /\ ~x.remote /\ ~x.receivedEof /\ ~x.sentClose /\ ~x.receivedClose
      /\ ~x.exited /\ x.window = InitialWindow
  BY NewChannelType DEF NewChannel
<1>2. v \in ServerState /\ v.got = <<>> /\ v.sent = {} /\ v.window = 0 /\ v.bytes = 0
  BY DEF ServerState
<1>3. x = NewChannel
  OBVIOUS
<1> HIDE DEF x, v
<1>4. \A type : ~Got(v, type)
  BY <1>2 DEF Got
<1>5. Typed(x, FALSE, TRUE, "no", 0, FALSE, <<>>, v, <<>>)
  BY <1>1, <1>2 DEF Typed
<1>6. Begun(x, <<>>, v) /\ Queued(x, "no", 0, FALSE, <<>>, v)
  <2>1. Begun(x, <<>>, v)
    BY <1>1, <1>2, <1>3, <1>4 DEF Begun
  <2>2. Queued(x, "no", 0, FALSE, <<>>, v)
    BY DEF Queued, Rest
  <2> QED
    BY <2>1, <2>2
<1>7. InOrder(x, v)
  BY <1>2, <1>4 DEF InOrder
<1>8. Flagged(x, FALSE, TRUE, "no", <<>>, v)
  BY <1>1 DEF Flagged
<1>9. Answered(x, FALSE, TRUE, v, <<>>)
  BY <1>1, <1>2 DEF Answered, Sent, Ordered
<1>10. Counted(x, FALSE, "no", 0, FALSE, <<>>, v, <<>>)
  BY <1>1, <1>2 DEF Counted
<1> QED
  BY <1>5, <1>6, <1>7, <1>8, <1>9, <1>10 DEF OnWire, x, v

LEMMA InitWired ==
  ASSUME Init
  PROVE  Wired
<1>1. ASSUME NEW d \in Channel PROVE Seen(d)
  <2> DEFINE v == [got |-> <<>>, sent |-> {}, window |-> 0, bytes |-> 0]
  <2>1. /\ chan[d] = NewChannel /\ srv[d] = v /\ tail = <<>> /\ inbox = <<>> /\ d \notin channels
        /\ terminal = "no" /\ ~flushed
    BY DEF Init
  <2>2. Waits(d) = "no" /\ Waited(d) = 0
    BY DEF Init, Waits, Waited
  <2>3. /\ Picks(<<>>, d, <<>>) /\ <<>> \in Seq(Packet) /\ <<>> \in Seq(Message)
    <3>1. Order(<<>>, <<>>, d, <<>>)
      BY DEF Order
    <3> QED
      BY <3>1 DEF Picks
  <2>4. Carried(<<>>, d) = Total(<<>>)
    <3>1. [i \in DOMAIN <<>> |-> IF <<>>[i].ch = d THEN <<>>[i].n ELSE 0] = [i \in DOMAIN <<>> |-> <<>>[i].n]
      OBVIOUS
    <3> QED
      BY <3>1 DEF Carried, Total
  <2>5. View(d, <<>>, <<>>, NewChannel, FALSE, TRUE, "no", 0, FALSE, v)
    <3> HIDE DEF v
    <3>1. OnWire(NewChannel, FALSE, TRUE, "no", 0, FALSE, <<>>, v, <<>>)
      BY NewWire DEF v
    <3> QED
      BY <2>3, <2>4, <3>1 DEF View
  <2>6. FALSE <=> FlushedFor(d)
    BY <2>1 DEF FlushedFor
  <2>7. View(d, tail, inbox, chan[d], FALSE, TRUE, Waits(d), Waited(d), FALSE, srv[d])
    BY <2>1, <2>2, <2>5
  <2> QED
    BY <2>1, <2>6, <2>7 DEF Seen
<1>2. Shared
  <2>1. ASSUME NEW d \in Channel PROVE ~(d < 0) /\ NewChannel.begin = "none"
    BY MuxAssumption DEF Channel, NewChannel
  <2>2. IsFiniteSet({}) /\ Cardinality({}) <= MaxChannels
    BY FS_EmptySet, MuxAssumption
  <2> QED
    BY <2>1, <2>2 DEF Init, Shared
<1> QED
  BY <1>1, <1>2 DEF Wired

-----------------------------------------------------------------------------
(* The theorems.                                                           *)

\* With a compliant server every channel goes on as the wire shows it.
THEOREM WireInductive ==
  ASSUME Compliant
  PROVE  Spec => []Wired
<1>1. Init => Wired
  BY InitWired
<1>2. IInv /\ IInv' /\ Wired /\ [Next]_vars => Wired'
  BY WiredKept
<1> QED
  BY <1>1, <1>2, Inductive, PTL DEF Spec

\* What Seen shows of a channel, without the booleans it hides.
LEMMA SeenParts ==
  ASSUME Wired, NEW c \in Channel
  PROVE  \E m, l, f \in BOOLEAN, w \in Seq(Packet), q \in Seq(Message) :
           /\ m <=> c \in channels
           /\ l <=> terminal = "no"
           /\ Picks(tail, c, w) /\ Picks(inbox, c, q) /\ Carried(inbox, c) = Total(q)
           /\ OnWire(chan[c], m, l, Waits(c), Waited(c), f, w, srv[c], q)
<1>1. Seen(c)
  BY DEF Wired
<1> QED
  BY <1>1 DEF Seen, View

LEMMA WireOrderInv ==
  ASSUME Wired
  PROVE  WireOrder
<1>1. ASSUME NEW c \in Channel
      PROVE  LET got == srv[c].got IN
               /\ \A type \in ClientType \ {"ADJUST"} : Count(c, type) <= 1
               /\ \A i \in DOMAIN got :
                    /\ i > 1 => got[1] = "OPEN"
                    /\ got[i] # "OPEN" => "confirm" \in srv[c].sent
                    /\ got[i] \in {"EOF", "ADJUST"} => \E j \in 1 .. i : got[j] = "EXEC"
                    /\ \A j \in 1 .. i - 1 : got[j] = "CLOSE" => got[i] \in {"EXEC", "EOF"}
  <2>1. InOrder(chan[c], srv[c]) /\ (chan[c].remote => "confirm" \in srv[c].sent)
    BY SeenParts DEF OnWire, Flagged
  <2> DEFINE got == srv[c].got
  <2>2. ASSUME NEW type \in ClientType \ {"ADJUST"} PROVE Count(c, type) <= 1
    <3> DEFINE S == {i \in DOMAIN got : got[i] = type}
    <3>1. \A i, j \in S : i = j
      BY <2>1 DEF InOrder
    <3>2. S = {} \/ \E i : S = {i}
      BY <3>1
    <3> HIDE DEF S
    <3>3. Cardinality(S) = 0 \/ Cardinality(S) = 1
      BY <3>2, FS_EmptySet, FS_Singleton
    <3> QED
      BY <3>3 DEF Count, S
  <2> QED
    BY <2>1, <2>2 DEF InOrder
<1> QED
  BY <1>1 DEF WireOrder

\* Whatever the client does on a channel, a compliant server gets its requests
\* in the order of RFC 4254, each once, and one CLOSE.
THEOREM RequestsInOrder ==
  ASSUME Compliant
  PROVE  Spec => []WireOrder
<1>1. Wired => WireOrder
  BY WireOrderInv
<1> QED
  BY <1>1, WireInductive, PTL

LEMMA ReleasedInv ==
  ASSUME Wired
  PROVE  ReleasedWhenDead
<1>1. ASSUME terminal = "no", NEW c \in Channel, c < nextLocalChannel, c \notin channels
      PROVE  \/ "openFailure" \in srv[c].sent
             \/ /\ "close" \in srv[c].sent
                /\ HasGot(c, "CLOSE") \/ \E i \in DOMAIN tail : tail[i].type = "CLOSE" /\ tail[i].ch = c
  <2>1. chan[c].begin # "none"
    BY <1>1 DEF Wired, Shared
  <2>2. PICK w : Picks(tail, c, w) /\ (\/ "openFailure" \in srv[c].sent
                                       \/ "close" \in srv[c].sent /\ Closed(w, srv[c]))
    BY <1>1, <2>1, SeenParts DEF OnWire, Flagged
  <2>3. Has(w, "CLOSE") => \E i \in DOMAIN tail : tail[i].type = "CLOSE" /\ tail[i].ch = c
    BY <2>2 DEF Has, Picks, Order, For
  <2> QED
    BY <2>2, <2>3 DEF Closed, Got, HasGot
<1> QED
  BY <1>1 DEF ReleasedWhenDead

\* A number leaves the map of a live client only when the server is done with
\* the channel, and the client has answered.
THEOREM NumbersReleased ==
  ASSUME Compliant
  PROVE  Spec => []ReleasedWhenDead
<1>1. Wired => ReleasedWhenDead
  BY ReleasedInv
<1> QED
  BY <1>1, WireInductive, PTL

LEMMA BoundedInv ==
  ASSUME Wired
  PROVE  ServerChannelsBounded
<1> DEFINE S == {c \in Channel : HasGot(c, "OPEN") /\ srv[c].sent \cap {"openFailure", "close"} = {}}
<1>1. ASSUME terminal = "no", NEW c \in S PROVE c \in channels
  <2>1. srv[c].got # <<>>
    BY DEF HasGot
  <2>2. /\ chan[c].begin # "none"
        /\ c \notin channels => "openFailure" \in srv[c].sent \/ "close" \in srv[c].sent
    BY <1>1, <2>1, SeenParts DEF OnWire, Begun, Flagged
  <2> QED
    BY <2>2
<1>2. IsFiniteSet(channels) /\ Cardinality(channels) <= MaxChannels
  BY DEF Wired, Shared
<1>3. ASSUME terminal = "no" PROVE Cardinality(S) <= MaxChannels
  <2>1. S \subseteq channels
    BY <1>1, <1>3
  <2> HIDE DEF S
  <2>2. IsFiniteSet(S) /\ Cardinality(S) <= Cardinality(channels)
    BY <1>2, <2>1, FS_Subset
  <2>3. Cardinality(S) \in Nat /\ Cardinality(channels) \in Nat /\ MaxChannels \in Nat
    BY <1>2, <2>2, FS_CardinalityType, MuxAssumption
  <2> QED
    BY <1>2, <2>2, <2>3
<1> QED
  BY <1>3 DEF ServerChannelsBounded

\* A server never holds more channels of a live client than it has slots for.
THEOREM ServerHoldsFew ==
  ASSUME Compliant
  PROVE  Spec => []ServerChannelsBounded
<1>1. Wired => ServerChannelsBounded
  BY BoundedInv
<1> QED
  BY <1>1, WireInductive, PTL

LEMMA CompleteInv ==
  ASSUME Wired
  PROVE  ResultComplete
<1>1. ASSUME NEW c \in Channel, chan[c].result = "resolved"
      PROVE  /\ chan[c].output = srv[c].bytes
             /\ {"exitStatus", "eof", "close"} \subseteq srv[c].sent
             /\ HasGot(c, "CLOSE")
  BY <1>1, SeenParts DEF OnWire, Counted, Got, HasGot
<1> QED
  BY <1>1 DEF ResultComplete

\* The result of a command has every byte that the server sent for it.
THEOREM ResultsComplete ==
  ASSUME Compliant
  PROVE  Spec => []ResultComplete
<1>1. Wired => ResultComplete
  BY CompleteInv
<1> QED
  BY <1>1, WireInductive, PTL

LEMMA WindowInv ==
  ASSUME IInv, Wired
  PROVE  WindowAgreement
<1>1. ASSUME reader.at = "read", NEW c \in channels, HasGot(c, "OPEN"), ~chan[c].closing
      PROVE  chan[c].window = srv[c].window + InFlight(c)
  <2>1. c \in Channel
    BY DEF IInv, ChannelsOK
  <2>2. Waits(c) = "no"
    BY <1>1, Waiting
  <2>3. chan[c].window + 0 = srv[c].window + Carried(inbox, c) /\ chan[c].window \in Nat
    BY <1>1, <2>1, <2>2, SeenParts DEF OnWire, Counted, Held, HasGot, Got, Typed, ChannelState
  <2> QED
    BY <2>3 DEF InFlight
<1> QED
  BY <1>1 DEF WindowAgreement

\* No byte of a window is credited twice or never.
THEOREM WindowsAgree ==
  ASSUME Compliant
  PROVE  Spec => []WindowAgreement
<1>1. IInv /\ Wired => WindowAgreement
  BY WindowInv
<1> QED
  BY <1>1, Inductive, WireInductive, PTL

-----------------------------------------------------------------------------
(* What ends a client whose server is compliant.                           *)

\* The message of a channel that the read loop of a live client takes.
LEMMA ErrorView ==
  ASSUME IInv, Wired, terminal = "no", NEW types, Receive(types), msg.type # "global"
  PROVE  \E m, f \in BOOLEAN, w \in Seq(Packet), q \in Seq(Message) :
           /\ m <=> msg.ch \in channels
           /\ q # <<>> /\ Head(q) = msg
           /\ OnWire(target, m, TRUE, "no", 0, f, w, srv[msg.ch], q)
<1>1. /\ msg.ch \in Channel /\ msg \in Message /\ reader.at = "read" /\ inbox # <<>>
      /\ inbox \in Seq(Message) /\ msg = Head(inbox) /\ target = chan[msg.ch]
  BY ReceiveFacts DEF Receive, IInv, QueuesOK, msg, target
<1>2. msg.type # "REQUEST_FAILURE"
  BY <1>1 DEF Message, ServerType
<1> DEFINE c == msg.ch
<1>3. For(Head(inbox), c) /\ Waits(c) = "no" /\ Waited(c) = 0
  BY <1>1, <1>2, Waiting DEF For
<1>4. PICK m, l, f \in BOOLEAN, w \in Seq(Packet), q \in Seq(Message) :
        /\ m <=> c \in channels
        /\ l <=> terminal = "no"
        /\ Picks(inbox, c, q) /\ Carried(inbox, c) = Total(q)
        /\ OnWire(chan[c], m, l, Waits(c), Waited(c), f, w, srv[c], q)
  BY <1>1, SeenParts
<1>5. q # <<>> /\ Head(q) = msg
  <2> HIDE DEF c
  <2> QED
    BY <1>1, <1>3, <1>4, HeadRead
<1>6. l = TRUE
  BY <1>4
<1>7. OnWire(target, m, TRUE, "no", 0, f, w, srv[c], q)
  BY <1>1, <1>3, <1>4, <1>6
<1> QED
  BY <1>4, <1>5, <1>7

\* In its channel the message is in order.
LEMMA HeadInOrder ==
  ASSUME NEW x, NEW m, NEW f, NEW w, NEW v, NEW q, OnWire(x, m, TRUE, "no", 0, f, w, v, q),
         q # <<>>, NEW h, h = Head(q)
  PROVE  /\ m /\ ~x.receivedClose
         /\ h.type \notin {"global", "unsupported", "badExtended"}
         /\ h.type \in {"confirm", "openFailure"} => ~x.remote
         /\ h.type \in {"eof", "data"} => ~x.receivedEof
         /\ h.type \in {"success", "failure"} => x.reply = "pending"
         /\ h.type = "exitStatus" => ~x.exited
<1>1. /\ Typed(x, m, TRUE, "no", 0, f, w, v, q) /\ Sent(v) /\ Ordered(x, m, v, q)
      /\ x.remote => "confirm" \in v.sent
      /\ m /\ ~x.receivedClose
  <2>1. /\ Typed(x, m, TRUE, "no", 0, f, w, v, q) /\ Answered(x, m, TRUE, v, q)
        /\ x.remote => "confirm" \in v.sent
    BY DEF OnWire, Flagged
  <2>2. m \in BOOLEAN /\ x.receivedClose \in BOOLEAN
    BY <2>1 DEF Typed, ChannelState
  <2> QED
    BY <2>1, <2>2 DEF Answered
<1>2. q \in Seq(Message) /\ (\A i \in DOMAIN q : q[i].type # "global")
  BY <1>1 DEF Typed
<1>3. h = q[1] /\ 1 \in DOMAIN q
  BY <1>2, TailMessages
<1> QED
  BY <1>1, <1>2, <1>3 DEF Ordered, Sent

LEMMA ErrorOfCompliant ==
  ASSUME IInv, Wired, terminal = "no", RecvError
  PROVE  /\ RouteError \in {"dataAfterClose", "badRequest", "windowAdjust"}
         /\ RouteError = "dataAfterClose" => target.closing /\ ~target.receivedEof
<1>1. Receive(ServerType) /\ RouteError # "no"
  BY DEF RecvError
<1>2. msg.type # "global"
  BY <1>1 DEF RouteError
<1>3. PICK m, f \in BOOLEAN, w \in Seq(Packet), q \in Seq(Message) :
        /\ m <=> msg.ch \in channels
        /\ q # <<>> /\ Head(q) = msg
        /\ OnWire(target, m, TRUE, "no", 0, f, w, srv[msg.ch], q)
  BY <1>1, <1>2, ErrorView
<1>4. /\ m /\ ~target.receivedClose
      /\ msg.type \notin {"global", "unsupported", "badExtended"}
      /\ msg.type \in {"confirm", "openFailure"} => ~target.remote
      /\ msg.type \in {"eof", "data"} => ~target.receivedEof
      /\ msg.type \in {"success", "failure"} => target.reply = "pending"
      /\ msg.type = "exitStatus" => ~target.exited
  BY <1>3, HeadInOrder
<1> QED
  BY <1>1, <1>3, <1>4 DEF RouteError

LEMMA TeardownOf ==
  ASSUME NEW chs, NEW open, NEW reason \in Reason, Fatal(chs, open, reason), terminal = "no"
  PROVE  terminal' = reason
  BY DEF Fatal

\* The reason of each teardown.
LEMMA Teardowns ==
  ASSUME IInv, Wired, [Next]_vars, NEW reason \in Reason, Teardown(reason)
  PROVE  /\ reason \in {"closed", "transport", "dataAfterClose", "badRequest",
                         "incompleteExit", "windowAdjust"}
         /\ reason = "dataAfterClose" => target.closing /\ ~target.receivedEof
<1>0. terminal = "no" /\ terminal' = reason /\ reason # "no"
  BY DEF Teardown, Reason
<1>1. CASE Close \/ ReadFail \/ WriteFail
  <2>1. \E chs, open : Fatal(chs, open, "closed") \/ Fatal(chs, open, "transport")
    BY <1>1 DEF Close, ReadFail, WriteFail
  <2> QED
    BY <1>0, <2>1, TeardownOf DEF Reason
<1>2. CASE RecvError
  <2>1. Fatal(chan, channels, RouteError) /\ RouteError \in Reason
    BY <1>2, RouteErrorType DEF RecvError
  <2>2. reason = RouteError
    BY <1>0, <2>1, TeardownOf
  <2> QED
    BY <1>0, <1>2, <2>2, ErrorOfCompliant
<1>3. CASE WriteDone \/ RecvClose
  <2>1. UNCHANGED muxVars \/ \E c, chs : FinishClose(c, chs)
    BY <1>3 DEF WriteDone, RecvClose
  <2>2. terminal' = terminal \/ \E chs, open : Fatal(chs, open, "incompleteExit")
    BY <2>1 DEF FinishClose, muxVars
  <2> QED
    BY <1>0, <2>2, TeardownOf DEF Reason
<1>4. CASE \/ Run \/ Begins \/ \E c \in Channel : Cancel(c)
           \/ Transmit \/ Server \/ RecvConfirmation \/ RecvOpenFailure \/ RecvData \/ RecvOverLimit
           \/ RecvEof \/ RecvExitStatus \/ RecvReply \/ RecvGlobal \/ UNCHANGED vars
  <2>1. terminal' = terminal
    BY <1>4 DEF Run, Begins, ResumeOpened, ResumeReplied, Resume, Cancel, Transmit, Server, SendData, SendOther,
       Send, RecvConfirmation, RecvOpenFailure, RecvData, RecvOverLimit, RecvEof, RecvExitStatus, RecvReply,
       RecvGlobal, muxVars, vars
  <2> QED
    BY <1>0, <2>1
<1> QED
  BY <1>1, <1>2, <1>3, <1>4 DEF Next, User, ReadLoop

\* A compliant server ends the connection in no other way than those that
\* CompliantServerUnderstood lists.
THEOREM ServerUnderstood ==
  ASSUME Compliant
  PROVE  Spec => CompliantServerUnderstood
<1> DEFINE A == \A reason \in Reason : Teardown(reason) =>
                  /\ reason \in {"closed", "transport", "dataAfterClose", "badRequest",
                                  "incompleteExit", "windowAdjust"}
                  /\ reason = "dataAfterClose" => chan[msg.ch].closing /\ ~chan[msg.ch].receivedEof
<1>1. IInv /\ Wired /\ [Next]_vars => [A]_vars
  BY Teardowns DEF target
<1> QED
  BY <1>1, Inductive, WireInductive, PTL DEF Spec, CompliantServerUnderstood
=============================================================================
