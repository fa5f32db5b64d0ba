------------------------- MODULE SftpChannel_proofs -------------------------
(***************************************************************************)
(* The proofs about SftpChannel.  A turn of JavaScript applies helpers to  *)
(* the record Now and ends in Become; the parts of the inductive invariant *)
(* are therefore predicates of such a record and of the other variables,   *)
(* each helper has a lemma that it preserves them, and an action composes  *)
(* these lemmas.                                                           *)
(***************************************************************************)
EXTENDS MCSftpChannel, Sums_proofs, SequenceTheorems, TLAPS

Packets == [type : ClientType, n : Nat, by : Owner]
Messages == [type : ServerType, n : Nat]
State == [ch : ChannelState, closer : [Closer -> Stage], tail : Seq(Packets),
          readable : ReadableState, writable : WritableState]

-----------------------------------------------------------------------------
(* Sums over messages.                                                     *)

\* What a message adds to the sum over some types.
Weight(m, types) == IF m.type \in types THEN m.n ELSE 0

\* The bytes of messages are a number.
LEMMA BytesNat ==
  ASSUME NEW M, \A m \in M : m.n \in Nat, NEW w \in Seq(M), NEW types
  PROVE  Bytes(w, types) \in Nat
<1> DEFINE b == [i \in DOMAIN w |-> IF w[i].type \in types THEN w[i].n ELSE 0]
<1>1. b \in Seq(Nat)
  <2>1. \A i \in DOMAIN w : w[i].n \in Nat /\ DOMAIN w = 1 .. Len(w) /\ Len(w) \in Nat
    OBVIOUS
  <2>2. \A i \in DOMAIN w : b[i] \in Nat
    BY <2>1
  <2>3. DOMAIN w = 1 .. Len(w) /\ Len(w) \in Nat
    OBVIOUS
  <2> QED
    BY <2>2, <2>3
<1> QED
  BY <1>1, SumNat DEF Bytes

\* No messages have no bytes.
LEMMA BytesEmpty == \A types : Bytes(<<>>, types) = 0
<1> SUFFICES ASSUME NEW types PROVE Bytes(<<>>, types) = 0
  OBVIOUS
<1>1. [i \in DOMAIN <<>> |-> IF <<>>[i].type \in types THEN <<>>[i].n ELSE 0] = <<>>
  OBVIOUS
<1> QED
  BY <1>1, SumEmpty DEF Bytes

\* A message at the end adds its weight.
LEMMA BytesAppend ==
  ASSUME NEW M, \A m \in M : m.n \in Nat, NEW w \in Seq(M), NEW p \in M, NEW types
  PROVE  Bytes(Append(w, p), types) = Bytes(w, types) + Weight(p, types)
<1> DEFINE t == Append(w, p)
           b == [i \in DOMAIN w |-> IF w[i].type \in types THEN w[i].n ELSE 0]
           a == [i \in DOMAIN t |-> IF t[i].type \in types THEN t[i].n ELSE 0]
           x == IF p.type \in types THEN p.n ELSE 0
<1>1. DOMAIN w = 1 .. Len(w) /\ Len(w) \in Nat /\ Len(t) = Len(w) + 1 /\ DOMAIN t = 1 .. Len(t)
  OBVIOUS
<1>2. x \in Nat /\ \A i \in DOMAIN w : b[i] \in Nat
  OBVIOUS
<1>3. b \in Seq(Nat) /\ Len(b) = Len(w)
  BY <1>1, <1>2
<1>4. /\ \A i \in 1 .. Len(w) : t[i] = w[i] /\ i \in DOMAIN t /\ i \in DOMAIN w
      /\ t[Len(w) + 1] = p /\ Len(w) + 1 \in DOMAIN t
  BY <1>1
<1> HIDE DEF t
<1>5. (\A i \in 1 .. Len(w) : a[i] = b[i]) /\ a[Len(w) + 1] = x /\ DOMAIN a = 1 .. (Len(w) + 1)
  BY <1>1, <1>4
<1> HIDE DEF a, b, x
<1>6. /\ Append(b, x) \in Seq(Nat) /\ DOMAIN Append(b, x) = 1 .. (Len(w) + 1)
      /\ \A i \in 1 .. Len(w) : Append(b, x)[i] = b[i]
      /\ Append(b, x)[Len(w) + 1] = x
  BY <1>1, <1>2, <1>3
<1>7. a \in Seq(Nat) /\ Len(a) = Len(w) + 1
  <2>1. \A i \in DOMAIN a : a[i] \in Nat
    <3> TAKE i \in DOMAIN a
    <3>1. i \in 1 .. Len(w) \/ i = Len(w) + 1
      BY <1>1, <1>5
    <3> QED
      BY <1>1, <1>2, <1>5, <3>1
  <2>2. a = [i \in DOMAIN a |-> a[i]]
    BY DEF a
  <2>3. a \in [1 .. (Len(w) + 1) -> Nat]
    BY <1>5, <2>1, <2>2
  <2> QED
    BY <1>1, <2>3
<1>8. a = Append(b, x)
  <2>1. Len(Append(b, x)) = Len(w) + 1
    BY <1>1, <1>2, <1>3
  <2>2. \A i \in 1 .. Len(a) : a[i] = Append(b, x)[i]
    <3> TAKE i \in 1 .. Len(a)
    <3>1. i \in 1 .. Len(w) \/ i = Len(w) + 1
      BY <1>1, <1>7
    <3> QED
      BY <1>5, <1>6, <3>1
  <2> QED
    BY <1>6, <1>7, <2>1, <2>2, SeqEqual
<1>9. SumOf(Append(b, x)) = SumOf(b) + x
  BY <1>2, <1>3, SumAppend
<1> QED
  BY <1>8, <1>9 DEF Bytes, Weight, a, b, x, t

\* The first message adds its weight.
LEMMA BytesTail ==
  ASSUME NEW M, \A m \in M : m.n \in Nat, NEW w \in Seq(M), w # <<>>, NEW types
  PROVE  Bytes(w, types) = Weight(Head(w), types) + Bytes(Tail(w), types)
<1> DEFINE t == Tail(w)
           b == [i \in DOMAIN w |-> IF w[i].type \in types THEN w[i].n ELSE 0]
           a == [i \in DOMAIN t |-> IF t[i].type \in types THEN t[i].n ELSE 0]
           m == Len(t)
<1>1. /\ m \in Nat /\ Len(w) = m + 1 /\ DOMAIN w = 1 .. (m + 1) /\ DOMAIN t = 1 .. m
      /\ Head(w) = w[1] /\ \A i \in 1 .. m : t[i] = w[i + 1]
  OBVIOUS
<1>2. \A i \in DOMAIN w : b[i] \in Nat
  OBVIOUS
<1> HIDE DEF t, m
<1>3. DOMAIN b = 1 .. (m + 1) /\ b[1] = Weight(Head(w), types)
  BY <1>1 DEF Weight
<1>4. \A i \in 1 .. m : a[i] = b[i + 1]
  BY <1>1
<1>5. DOMAIN a = 1 .. m /\ a = [i \in 1 .. m |-> a[i]]
  BY <1>1
<1>6. DOMAIN b = DOMAIN w
  OBVIOUS
<1> HIDE DEF a, b
<1>7. b \in Seq(Nat) /\ Len(b) = m + 1 /\ b # <<>>
  <2>1. b \in [1 .. (m + 1) -> Nat]
    <3>1. b = [i \in DOMAIN w |-> b[i]]
      BY DEF b
    <3> QED
      BY <1>1, <1>2, <3>1
  <2>2. b \in Seq(Nat) /\ Len(b) = m + 1
    BY <1>1, <2>1
  <2>3. Len(b) # 0
    BY <1>1, <2>2
  <2> QED
    BY <2>2, <2>3
<1>8. /\ Head(b) = b[1] /\ Tail(b) \in Seq(Nat) /\ Len(Tail(b)) = m /\ DOMAIN Tail(b) = 1 .. m
      /\ \A i \in 1 .. m : Tail(b)[i] = b[i + 1]
  BY <1>1, <1>7
<1>9. a = Tail(b)
  <2>1. \A i \in 1 .. m : a[i] \in Nat
    BY <1>1, <1>2, <1>4, <1>6
  <2>2. a \in [1 .. m -> Nat]
    BY <1>5, <2>1
  <2>3. a \in Seq(Nat) /\ Len(a) = m
    BY <1>1, <2>2
  <2> QED
    BY <1>4, <1>8, <2>3, SeqEqual
<1>10. SumOf(b) = Head(b) + SumOf(Tail(b))
  BY <1>7, SumTail
<1> QED
  BY <1>3, <1>8, <1>9, <1>10 DEF Bytes, a, b, t

-----------------------------------------------------------------------------
(* The inductive invariant, of a record s like Now and of the other        *)
(* variables: m for inMap, e for terminal, r for reader, c for client, f   *)
(* for flushed, v for srv and q for inbox.                                 *)

Waiting(s, f) == IF f THEN Tail(s.tail) ELSE s.tail
WaitsFor(w, type) == \E i \in DOMAIN w : w[i].type = type

Typed(s, m, e, r, c, f, v, q) ==
  /\ s \in State /\ m \in BOOLEAN /\ e \in {"no"} \cup Reason
  /\ r \in {"read", "write", "close", "stopped"}
  /\ c \in {"starting", "connecting", "negotiated", "open", "terminated", "connectFailed", "failed"}
  /\ f \in BOOLEAN /\ (f => s.tail # <<>>)
  /\ v \in ServerState /\ q \in Seq(Messages)

\* The channel leaves the map when it is closed, and nothing is read for a
\* channel that left the map of a live client.
Gone(v, w) ==
  \/ "openFailure" \in v.sent
  \/ "close" \in v.sent /\ ("CLOSE" \in v.got \/ WaitsFor(w, "CLOSE"))
Released(s, m, e, r, f, v, q) ==
  /\ e # "no" => ~m
  /\ s.ch.closed <=> ~m
  /\ s.readable.state # "readable" => s.ch.closing \/ s.ch.closed
  /\ ~m /\ e = "no" => Gone(v, Waiting(s, f)) /\ q = <<>>
  /\ s.ch.receivedClose => "close" \in v.sent
  /\ s.ch.receivedClose /\ e = "no" => q = <<>>
  /\ r = "close" => s.ch.receivedClose /\ s.ch.sentClose

\* close() is called when #begin has ended or was cancelled; the client writes
\* after that.  A packet of #begin or #write is the only one of its owner.
Started(s, c) ==
  /\ s.ch.closing => s.ch.begin = "done" \/ s.ch.cancelled
  /\ s.ch.ready = "rejected" => s.ch.begin = "done" \/ s.ch.cancelled \/ s.ch.closed
  /\ s.ch.ready = "resolved" => s.ch.begin = "done"
  /\ c \notin {"starting", "failed"} => s.ch.begin = "done"
  /\ s.writable.at # "idle" => s.ch.begin = "done"
  /\ c = "starting" => s.writable.at = "idle"
  /\ s.ch.cancelled => s.ch.ready # "pending"
  /\ s.ch.opened # "none"
  /\ s.ch.opened = "resolved" => s.ch.remote
  /\ s.ch.opened = "rejected" => s.ch.closed
  /\ s.ch.begin \in {"requesting", "awaitReply"} => s.ch.remote
  /\ ~s.ch.remote =>
       /\ s.ch.ready # "resolved" /\ s.ch.reply = "none"
       /\ c \in {"starting", "failed"} /\ s.writable.at = "idle"
       /\ s.ch.begin = "done" => s.ch.cancelled \/ s.ch.closed
Owned(s) ==
  \A i \in DOMAIN s.tail :
    /\ s.tail[i].by = "begin" => s.ch.begin \in {"opening", "requesting"}
    /\ s.tail[i].by = "writer" => s.writable.at = "write"
    /\ s.tail[i].by \in Closer => s.tail[i].type \in {"EOF", "CLOSE"}
    /\ s.tail[i].by \in {"begin", "writer"} =>
         \A j \in DOMAIN s.tail : s.tail[j].by = s.tail[i].by => i = j

\* EOF and CLOSE are sent once; an EOF is missing only before a CLOSE that
\* answers the server's or the confirmation of an open that was cancelled.
MayClose(s) == s.ch.begin = "done" \/ s.ch.cancelled
MayEof(s, v) == s.ch.sentClose => s.ch.sentEof \/ "close" \in v.sent
Flags(s, c, v) ==
  /\ s.ch.sentEof => s.ch.closing
  /\ s.ch.sentEof \/ s.ch.sentClose => s.ch.remote
  /\ s.ch.sentClose => s.ch.closing \/ "close" \in v.sent
  /\ MayEof(s, v) \/ (c = "failed" /\ s.ch.cancelled /\ s.writable.at = "idle")
  /\ "EOF" \in v.got => s.ch.sentEof
  /\ "CLOSE" \in v.got => s.ch.sentClose
Follows(w, v, j, type) == type \in v.got \/ \E i \in DOMAIN w : i < j /\ w[i].type = type
Last(w, v) ==
  \A j \in DOMAIN w :
    /\ Follows(w, v, j, "EOF") => w[j].type \in {"CLOSE", "DATA"}
    /\ Follows(w, v, j, "CLOSE") => /\ w[j].type # "CLOSE"
                                    /\ "close" \in v.sent \/ w[j].type = "DATA"
Shut(s, e, f, v) ==
  /\ \A i \in DOMAIN s.tail : /\ s.tail[i].type = "EOF" => s.ch.sentEof
                              /\ s.tail[i].type = "CLOSE" => s.ch.sentClose
  /\ e = "no" /\ s.ch.sentClose => "CLOSE" \in v.got \/ WaitsFor(Waiting(s, f), "CLOSE")
  /\ Last(Waiting(s, f), v)

\* The window that the channel counts for the server, and its own.
Windows(s, m, e, f, v, q) ==
  LET ours == v.window + Bytes(q, {"data"}) + Bytes(Waiting(s, f), {"ADJUST"})
      theirs == s.ch.remoteWindow + Bytes(Waiting(s, f), {"DATA"}) + v.received
                + Bytes(q, {"confirm", "adjust"}) IN
  /\ ours <= s.ch.receiveWindow
  /\ m => ours = s.ch.receiveWindow
  /\ s.ch.receiveWindow + s.readable.queued <= Window
  /\ e = "no" => theirs = v.granted
  /\ ~s.ch.remote => s.ch.remoteWindow = 0
  /\ "confirm" \notin v.sent => v.granted = 0

\* What a compliant server has sent, and in which order it is still to be read.
Sent(v) ==
  /\ ~({"confirm", "openFailure"} \subseteq v.sent)
  /\ ~({"success", "failure"} \subseteq v.sent)
  /\ v.sent \cap {"success", "failure"} # {} => "SUBSYSTEM" \in v.got
  /\ v.sent \cap {"data", "eof", "otherRequest"} # {} => "success" \in v.sent
  /\ v.sent \cap {"close", "adjust"} # {} => "confirm" \in v.sent
Requested(s, v) ==
  /\ s.ch.remote => "confirm" \in v.sent
  /\ \A i \in DOMAIN s.tail : s.tail[i].type = "SUBSYSTEM" => s.ch.remote /\ s.ch.reply # "none"
  /\ "SUBSYSTEM" \in v.got => s.ch.remote /\ s.ch.reply # "none"
Confirmed(s, q, i) ==
  s.ch.remote \/ \E j \in DOMAIN q : j < i /\ q[j].type = "confirm"
Ordered(s, m, v, q) ==
  \A i \in DOMAIN q :
    /\ q[i].type \in v.sent
    /\ q[i].type \in {"confirm", "adjust"} => q[i].n \in Grants
    /\ q[i].type \in {"close", "openFailure"} => i = Len(q)
    /\ m /\ q[i].type = "confirm" => ~s.ch.remote
    /\ m /\ q[i].type \notin {"confirm", "openFailure"} => Confirmed(s, q, i)
    /\ q[i].type = "eof" => ~s.ch.receivedEof
    /\ m /\ q[i].type \in {"success", "failure"} => s.ch.reply = "pending"
    /\ q[i].type \notin {"data", "adjust"} =>
         \A j \in DOMAIN q : q[j].type = q[i].type => i = j
Answers(s, m, v, q) ==
  /\ Sent(v) /\ Requested(s, v) /\ Ordered(s, m, v, q)
  /\ m /\ "confirm" \in v.sent => Confirmed(s, q, Len(q) + 1)
  /\ s.ch.receivedEof => "eof" \in v.sent
  /\ m /\ s.ch.reply \in {"resolved", "rejected"} => v.sent \cap {"success", "failure"} # {}

Good(s, m, e, r, c, f, v, q) ==
  /\ Typed(s, m, e, r, c, f, v, q) /\ Released(s, m, e, r, f, v, q)
  /\ Started(s, c) /\ Owned(s) /\ Flags(s, c, v) /\ Shut(s, e, f, v)
  /\ Windows(s, m, e, f, v, q) /\ Answers(s, m, v, q)

IInv == Good(Now, inMap, terminal, reader, client, flushed, srv, inbox)

-----------------------------------------------------------------------------
(* close() up to its first suspension.                                     *)

\* What close() leaves of the channel.
Kept(s, t) ==
  /\ t.ch.begin = s.ch.begin /\ t.ch.opened = s.ch.opened /\ t.ch.reply = s.ch.reply
  /\ t.ch.ready = s.ch.ready /\ t.ch.remote = s.ch.remote /\ t.ch.closed = s.ch.closed
  /\ t.ch.cancelled = s.ch.cancelled /\ t.ch.receivedEof = s.ch.receivedEof
  /\ t.ch.receivedClose = s.ch.receivedClose
  /\ t.ch.receiveWindow = s.ch.receiveWindow /\ t.ch.remoteWindow = s.ch.remoteWindow
\* What it does.
Calls(k, s, t) ==
  /\ Kept(s, t) /\ t.readable = s.readable /\ t.writable = s.writable
  /\ \/ /\ s.ch.closed
        /\ t.ch.closing = s.ch.closing /\ t.ch.sentEof = s.ch.sentEof
        /\ t.ch.sentClose = s.ch.sentClose /\ t.tail = s.tail
     \/ /\ ~s.ch.closed /\ t.ch.closing
        /\ ~s.ch.remote \/ (s.ch.sentEof /\ s.ch.sentClose)
        /\ t.ch.sentEof = s.ch.sentEof /\ t.ch.sentClose = s.ch.sentClose /\ t.tail = s.tail
     \/ /\ ~s.ch.closed /\ t.ch.closing /\ s.ch.remote
        /\ ~s.ch.sentEof /\ t.ch.sentEof /\ t.ch.sentClose = s.ch.sentClose
        /\ t.tail = Append(s.tail, Packet("EOF", 0, k))
     \/ /\ ~s.ch.closed /\ t.ch.closing /\ s.ch.remote
        /\ s.ch.sentEof /\ t.ch.sentEof /\ ~s.ch.sentClose /\ t.ch.sentClose
        /\ t.tail = Append(s.tail, Packet("CLOSE", 0, k))

\* The five outcomes of a call of close().
LEMMA CalledCases ==
  ASSUME NEW s, NEW k
  PROVE  /\ s.ch.closed => Called(k, s) = [s EXCEPT !.closer[k] = "done"]
         /\ ~s.ch.closed /\ ~s.ch.remote =>
              Called(k, s) = [MarkedClosing(s) EXCEPT !.closer[k] = "done"]
         /\ ~s.ch.closed /\ s.ch.remote /\ ~s.ch.sentEof =>
              Called(k, s) = Put([MarkedClosing(s) EXCEPT !.ch.sentEof = TRUE, !.closer[k] = "eof"], "EOF", 0, k)
         /\ ~s.ch.closed /\ s.ch.remote /\ s.ch.sentEof /\ ~s.ch.sentClose =>
              Called(k, s) = Put([MarkedClosing(s) EXCEPT !.ch.sentClose = TRUE, !.closer[k] = "close"], "CLOSE", 0, k)
         /\ ~s.ch.closed /\ s.ch.remote /\ s.ch.sentEof /\ s.ch.sentClose =>
              Called(k, s) = [MarkedClosing(s) EXCEPT !.closer[k] = "remote"]
<1> DEFINE a == [s EXCEPT !.closer[k] = "done"]
           b == [MarkedClosing(s) EXCEPT !.closer[k] = "done"]
           c == Put([MarkedClosing(s) EXCEPT !.ch.sentEof = TRUE, !.closer[k] = "eof"], "EOF", 0, k)
           d == Put([MarkedClosing(s) EXCEPT !.ch.sentClose = TRUE, !.closer[k] = "close"], "CLOSE", 0, k)
           e == [MarkedClosing(s) EXCEPT !.closer[k] = "remote"]
<1>1. Called(k, s) =
        CASE s.ch.closed -> a
          [] ~s.ch.closed /\ ~s.ch.remote -> b
          [] ~s.ch.closed /\ s.ch.remote /\ ~s.ch.sentEof -> c
          [] ~s.ch.closed /\ s.ch.remote /\ s.ch.sentEof /\ ~s.ch.sentClose -> d
          [] OTHER -> e
  BY ZenonT(60), SMTT(60) DEF Called
<1> SUFFICES /\ s.ch.closed => Called(k, s) = a
             /\ ~s.ch.closed /\ ~s.ch.remote => Called(k, s) = b
             /\ ~s.ch.closed /\ s.ch.remote /\ ~s.ch.sentEof => Called(k, s) = c
             /\ ~s.ch.closed /\ s.ch.remote /\ s.ch.sentEof /\ ~s.ch.sentClose => Called(k, s) = d
             /\ ~s.ch.closed /\ s.ch.remote /\ s.ch.sentEof /\ s.ch.sentClose => Called(k, s) = e
  OBVIOUS
<1> HIDE DEF a, b, c, d, e
<1> QED
  BY <1>1

\* Called leaves the rest of the channel alone and sends EOF or CLOSE once.
LEMMA CalledKeeps ==
  ASSUME NEW s \in State, NEW k \in Closer
  PROVE  Called(k, s) \in State /\ Calls(k, s, Called(k, s))
<1> DEFINE t == Called(k, s)
<1> SUFFICES t \in State /\ Calls(k, s, t)
  OBVIOUS
<1>1. /\ s.ch \in ChannelState /\ s.closer \in [Closer -> Stage]
      /\ s.tail \in Seq(Packets) /\ s.readable \in ReadableState /\ s.writable \in WritableState
  BY DEF State
<1>2. \A n : n = "EOF" \/ n = "CLOSE" => Packet(n, 0, k) \in Packets
  BY DEF Packet, Packets, ClientType, Owner
<1>3. \A x \in Stage : [s.closer EXCEPT ![k] = x] \in [Closer -> Stage]
  BY <1>1
<1>4. CASE s.ch.closed
  <2>1. t = [s EXCEPT !.closer = [s.closer EXCEPT ![k] = "done"]]
    BY <1>4, CalledCases DEF MarkedClosing
  <2> QED
    BY <1>1, <1>3, <1>4, <2>1 DEF Calls, Kept, State, Stage
<1>5. CASE ~s.ch.closed /\ ~s.ch.remote
  <2> DEFINE c == [s.ch EXCEPT !.closing = TRUE]
             d == [s.closer EXCEPT ![k] = "done"]
             w == s.tail
  <2>1. t = [s EXCEPT !.ch = c, !.closer = d]
    <3> DEFINE x == [[s EXCEPT !.ch.closing = TRUE] EXCEPT !.closer[k] = "done"]
               y == [s EXCEPT !.ch = c, !.closer = d]
    <3>1. x = y
      OBVIOUS
    <3>2. t = x
      BY <1>5, CalledCases DEF MarkedClosing
    <3> HIDE DEF x, y, t
    <3> QED
      BY <3>1, <3>2 DEF y
  <2>2. /\ c \in ChannelState
        /\ c.closing
        /\ c.sentEof = s.ch.sentEof
        /\ c.sentClose = s.ch.sentClose
    BY <1>1 DEF ChannelState
  <2>3. /\ c.begin = s.ch.begin /\ c.opened = s.ch.opened /\ c.reply = s.ch.reply
        /\ c.ready = s.ch.ready /\ c.remote = s.ch.remote /\ c.closed = s.ch.closed
        /\ c.cancelled = s.ch.cancelled /\ c.receivedEof = s.ch.receivedEof
        /\ c.receivedClose = s.ch.receivedClose
        /\ c.receiveWindow = s.ch.receiveWindow /\ c.remoteWindow = s.ch.remoteWindow
    BY <1>1 DEF ChannelState
  <2>4. d \in [Closer -> Stage] /\ w \in Seq(Packets)
    BY <1>1, <1>2, <1>3 DEF Stage
  <2>5. w = s.tail
    OBVIOUS
  <2> HIDE DEF c, d, w
  <2>6. /\ t.ch = c /\ t.tail = w /\ t.readable = s.readable /\ t.writable = s.writable
        /\ t.closer = d /\ t = [ch |-> t.ch, closer |-> t.closer, tail |-> t.tail, readable |-> t.readable, writable |-> t.writable]
    BY <2>1, <2>5 DEF State, Put
  <2>7. t \in State
    BY <1>1, <2>2, <2>4, <2>6 DEF State
  <2> HIDE DEF t
  <2> QED
    BY <1>5, <2>2, <2>3, <2>5, <2>6, <2>7 DEF Calls, Kept
<1>6. CASE ~s.ch.closed /\ s.ch.remote /\ ~s.ch.sentEof
  <2> DEFINE c == [s.ch EXCEPT !.closing = TRUE, !.sentEof = TRUE]
             d == [s.closer EXCEPT ![k] = "eof"]
             w == Append(s.tail, Packet("EOF", 0, k))
  <2>1. t = Put([s EXCEPT !.ch = c, !.closer = d], "EOF", 0, k)
    <3> DEFINE x == [[s EXCEPT !.ch.closing = TRUE] EXCEPT !.ch.sentEof = TRUE, !.closer[k] = "eof"]
               y == [s EXCEPT !.ch = c, !.closer = d]
    <3>1. x = y
      OBVIOUS
    <3>2. t = Put(x, "EOF", 0, k)
      BY <1>6, CalledCases DEF MarkedClosing
    <3> HIDE DEF x, y, t
    <3> QED
      BY <3>1, <3>2 DEF y
  <2>2. /\ c \in ChannelState
        /\ c.closing
        /\ c.sentEof = TRUE
        /\ c.sentClose = s.ch.sentClose
    BY <1>1 DEF ChannelState
  <2>3. /\ c.begin = s.ch.begin /\ c.opened = s.ch.opened /\ c.reply = s.ch.reply
        /\ c.ready = s.ch.ready /\ c.remote = s.ch.remote /\ c.closed = s.ch.closed
        /\ c.cancelled = s.ch.cancelled /\ c.receivedEof = s.ch.receivedEof
        /\ c.receivedClose = s.ch.receivedClose
        /\ c.receiveWindow = s.ch.receiveWindow /\ c.remoteWindow = s.ch.remoteWindow
    BY <1>1 DEF ChannelState
  <2>4. d \in [Closer -> Stage] /\ w \in Seq(Packets)
    BY <1>1, <1>2, <1>3 DEF Stage
  <2>5. w = Append(s.tail, Packet("EOF", 0, k))
    OBVIOUS
  <2> HIDE DEF c, d, w
  <2>6. /\ t.ch = c /\ t.tail = w /\ t.readable = s.readable /\ t.writable = s.writable
        /\ t.closer = d /\ t = [ch |-> t.ch, closer |-> t.closer, tail |-> t.tail, readable |-> t.readable, writable |-> t.writable]
    BY <2>1, <2>5 DEF State, Put
  <2>7. t \in State
    BY <1>1, <2>2, <2>4, <2>6 DEF State
  <2> HIDE DEF t
  <2> QED
    BY <1>6, <2>2, <2>3, <2>5, <2>6, <2>7 DEF Calls, Kept
<1>7. CASE ~s.ch.closed /\ s.ch.remote /\ s.ch.sentEof /\ ~s.ch.sentClose
  <2> DEFINE c == [s.ch EXCEPT !.closing = TRUE, !.sentClose = TRUE]
             d == [s.closer EXCEPT ![k] = "close"]
             w == Append(s.tail, Packet("CLOSE", 0, k))
  <2>1. t = Put([s EXCEPT !.ch = c, !.closer = d], "CLOSE", 0, k)
    <3> DEFINE x == [[s EXCEPT !.ch.closing = TRUE] EXCEPT !.ch.sentClose = TRUE, !.closer[k] = "close"]
               y == [s EXCEPT !.ch = c, !.closer = d]
    <3>1. x = y
      OBVIOUS
    <3>2. t = Put(x, "CLOSE", 0, k)
      BY <1>7, CalledCases DEF MarkedClosing
    <3> HIDE DEF x, y, t
    <3> QED
      BY <3>1, <3>2 DEF y
  <2>2. /\ c \in ChannelState
        /\ c.closing
        /\ c.sentEof = s.ch.sentEof
        /\ c.sentClose = TRUE
    BY <1>1 DEF ChannelState
  <2>3. /\ c.begin = s.ch.begin /\ c.opened = s.ch.opened /\ c.reply = s.ch.reply
        /\ c.ready = s.ch.ready /\ c.remote = s.ch.remote /\ c.closed = s.ch.closed
        /\ c.cancelled = s.ch.cancelled /\ c.receivedEof = s.ch.receivedEof
        /\ c.receivedClose = s.ch.receivedClose
        /\ c.receiveWindow = s.ch.receiveWindow /\ c.remoteWindow = s.ch.remoteWindow
    BY <1>1 DEF ChannelState
  <2>4. d \in [Closer -> Stage] /\ w \in Seq(Packets)
    BY <1>1, <1>2, <1>3 DEF Stage
  <2>5. w = Append(s.tail, Packet("CLOSE", 0, k))
    OBVIOUS
  <2> HIDE DEF c, d, w
  <2>6. /\ t.ch = c /\ t.tail = w /\ t.readable = s.readable /\ t.writable = s.writable
        /\ t.closer = d /\ t = [ch |-> t.ch, closer |-> t.closer, tail |-> t.tail, readable |-> t.readable, writable |-> t.writable]
    BY <2>1, <2>5 DEF State, Put
  <2>7. t \in State
    BY <1>1, <2>2, <2>4, <2>6 DEF State
  <2> HIDE DEF t
  <2> QED
    BY <1>7, <2>2, <2>3, <2>5, <2>6, <2>7 DEF Calls, Kept
<1>8. CASE ~s.ch.closed /\ s.ch.remote /\ s.ch.sentEof /\ s.ch.sentClose
  <2> DEFINE c == [s.ch EXCEPT !.closing = TRUE]
             d == [s.closer EXCEPT ![k] = "remote"]
             w == s.tail
  <2>1. t = [s EXCEPT !.ch = c, !.closer = d]
    <3> DEFINE x == [[s EXCEPT !.ch.closing = TRUE] EXCEPT !.closer[k] = "remote"]
               y == [s EXCEPT !.ch = c, !.closer = d]
    <3>1. x = y
      OBVIOUS
    <3>2. t = x
      BY <1>8, CalledCases DEF MarkedClosing
    <3> HIDE DEF x, y, t
    <3> QED
      BY <3>1, <3>2 DEF y
  <2>2. /\ c \in ChannelState
        /\ c.closing
        /\ c.sentEof = s.ch.sentEof
        /\ c.sentClose = s.ch.sentClose
    BY <1>1 DEF ChannelState
  <2>3. /\ c.begin = s.ch.begin /\ c.opened = s.ch.opened /\ c.reply = s.ch.reply
        /\ c.ready = s.ch.ready /\ c.remote = s.ch.remote /\ c.closed = s.ch.closed
        /\ c.cancelled = s.ch.cancelled /\ c.receivedEof = s.ch.receivedEof
        /\ c.receivedClose = s.ch.receivedClose
        /\ c.receiveWindow = s.ch.receiveWindow /\ c.remoteWindow = s.ch.remoteWindow
    BY <1>1 DEF ChannelState
  <2>4. d \in [Closer -> Stage] /\ w \in Seq(Packets)
    BY <1>1, <1>2, <1>3 DEF Stage
  <2>5. w = s.tail
    OBVIOUS
  <2> HIDE DEF c, d, w
  <2>6. /\ t.ch = c /\ t.tail = w /\ t.readable = s.readable /\ t.writable = s.writable
        /\ t.closer = d /\ t = [ch |-> t.ch, closer |-> t.closer, tail |-> t.tail, readable |-> t.readable, writable |-> t.writable]
    BY <2>1, <2>5 DEF State, Put
  <2>7. t \in State
    BY <1>1, <2>2, <2>4, <2>6 DEF State
  <2> HIDE DEF t
  <2> QED
    BY <1>8, <2>2, <2>3, <2>5, <2>6, <2>7 DEF Calls, Kept
<1> QED
  BY <1>4, <1>5, <1>6, <1>7, <1>8
-----------------------------------------------------------------------------
(* Sequences that grow or lose their head.                                 *)

\* u is w and p behind it, at index n.
Grows(w, u, p, n) ==
  /\ n = Len(w) + 1 /\ n \in Nat /\ Len(u) = n
  /\ DOMAIN u = DOMAIN w \cup {n} /\ u[n] = p
  /\ \A i \in DOMAIN w : i < n /\ i \in Nat /\ u[i] = w[i]

\* Append does that.
LEMMA GrowsAppend ==
  ASSUME NEW M, NEW w \in Seq(M), NEW p \in M
  PROVE  Append(w, p) \in Seq(M) /\ Append(w, p) # <<>> /\ Grows(w, Append(w, p), p, Len(w) + 1)
<1>1. /\ Append(w, p) \in Seq(M) /\ Len(Append(w, p)) = Len(w) + 1 /\ Len(w) \in Nat
      /\ DOMAIN w = 1 .. Len(w) /\ DOMAIN Append(w, p) = 1 .. (Len(w) + 1)
      /\ \A i \in 1 .. Len(w) : Append(w, p)[i] = w[i]
      /\ Append(w, p)[Len(w) + 1] = p
  OBVIOUS
<1>2. 1 .. (Len(w) + 1) = (1 .. Len(w)) \cup {Len(w) + 1}
  BY <1>1
<1>3. Append(w, p) # <<>>
  BY AppendProperties
<1> QED
  BY <1>1, <1>2, <1>3 DEF Grows

\* What waits is a sequence of packets, and a packet put at the end of the tail
\* waits behind it.
LEMMA WaitingSeq ==
  ASSUME NEW s \in State, NEW f \in BOOLEAN, f => s.tail # <<>>
  PROVE  Waiting(s, f) \in Seq(Packets)
BY DEF Waiting, State

\* A packet at the end of the tail is at the end of what waits.
LEMMA WaitingGrows ==
  ASSUME NEW s \in State, NEW t, NEW f \in BOOLEAN, f => s.tail # <<>>, NEW p \in Packets,
         t.tail = Append(s.tail, p)
  PROVE  Waiting(t, f) = Append(Waiting(s, f), p)
<1>1. s.tail \in Seq(Packets)
  BY DEF State
<1>2. f => Tail(Append(s.tail, p)) = Append(Tail(s.tail), p)
  BY <1>1, HeadTailAppend
<1> QED
  BY <1>2 DEF Waiting

-----------------------------------------------------------------------------
(* A packet at the end of the tail.                                        *)

\* t has a packet p at the end of the tail of s.
Puts(s, t, p, f) ==
  /\ s \in State /\ t \in State /\ p \in Packets /\ f \in BOOLEAN /\ (f => s.tail # <<>>)
  /\ t.tail = Append(s.tail, p)

\* Puts makes the tail, and what of it waits, longer by the packet.
LEMMA PutsGrow ==
  ASSUME NEW s, NEW t, NEW p, NEW f, Puts(s, t, p, f)
  PROVE  /\ t.tail # <<>>
         /\ \E n : Grows(s.tail, t.tail, p, n)
         /\ \E n : Grows(Waiting(s, f), Waiting(t, f), p, n)
<1>1. s.tail \in Seq(Packets) /\ Waiting(s, f) \in Seq(Packets)
  BY WaitingSeq DEF Puts, State
<1>2. Waiting(t, f) = Append(Waiting(s, f), p) /\ t.tail = Append(s.tail, p) /\ p \in Packets
  BY WaitingGrows DEF Puts
<1> QED
  BY <1>1, <1>2, GrowsAppend

\* The owners of packets: a closer, the reader or the pull.
LEMMA OwnedPut ==
  ASSUME NEW s, NEW t, NEW p, NEW f, Puts(s, t, p, f), Owned(s),
         t.ch.begin = s.ch.begin, t.writable.at = s.writable.at,
         p.by \notin {"begin", "writer"},
         p.by \in Closer => p.type \in {"EOF", "CLOSE"}
  PROVE  Owned(t)
<1>1. PICK n : Grows(s.tail, t.tail, p, n)
  BY PutsGrow
<1> SUFFICES ASSUME NEW i \in DOMAIN t.tail
             PROVE  /\ t.tail[i].by = "begin" => t.ch.begin \in {"opening", "requesting"}
                    /\ t.tail[i].by = "writer" => t.writable.at = "write"
                    /\ t.tail[i].by \in Closer => t.tail[i].type \in {"EOF", "CLOSE"}
                    /\ t.tail[i].by \in {"begin", "writer"} =>
                         \A j \in DOMAIN t.tail : t.tail[j].by = t.tail[i].by => i = j
  BY DEF Owned
<1>2. CASE i = n
  BY <1>1, <1>2 DEF Grows
<1>3. CASE i # n
  <2>1. i \in DOMAIN s.tail /\ t.tail[i] = s.tail[i]
    BY <1>1, <1>3 DEF Grows
  <2>2. /\ s.tail[i].by = "begin" => s.ch.begin \in {"opening", "requesting"}
        /\ s.tail[i].by = "writer" => s.writable.at = "write"
        /\ s.tail[i].by \in Closer => s.tail[i].type \in {"EOF", "CLOSE"}
        /\ s.tail[i].by \in {"begin", "writer"} =>
             \A j \in DOMAIN s.tail : s.tail[j].by = s.tail[i].by => i = j
    BY <2>1 DEF Owned
  <2>3. \A j \in DOMAIN t.tail :
          \/ j = n /\ t.tail[j] = p
          \/ j \in DOMAIN s.tail /\ t.tail[j] = s.tail[j]
    BY <1>1 DEF Grows
  <2> QED
    BY <2>1, <2>2, <2>3
<1> QED
  BY <1>2, <1>3

\* What the packet may be so that EOF and CLOSE stay last.
MayPut(s, v, type) ==
  /\ s.ch.sentEof => type \in {"CLOSE", "DATA"}
  /\ s.ch.sentClose => type # "CLOSE" /\ ("close" \in v.sent \/ type = "DATA")
\* How the flags follow it.
FlagsPut(s, t, type) ==
  /\ t.ch.sentEof = (s.ch.sentEof \/ type = "EOF")
  /\ t.ch.sentClose = (s.ch.sentClose \/ type = "CLOSE")

\* A packet that may follow those before it keeps EOF and CLOSE last.
LEMMA ShutPut ==
  ASSUME NEW s, NEW t, NEW p, NEW f, Puts(s, t, p, f), NEW e, NEW v, NEW c,
         Shut(s, e, f, v), Flags(s, c, v),
         MayPut(s, v, p.type), FlagsPut(s, t, p.type)
  PROVE  Shut(t, e, f, v)
<1>1. PICK n : Grows(s.tail, t.tail, p, n)
  BY PutsGrow
<1> DEFINE w == Waiting(s, f)
           u == Waiting(t, f)
<1>2. PICK k : Grows(w, u, p, k)
  BY PutsGrow
<1>3. \A i \in DOMAIN t.tail : /\ t.tail[i].type = "EOF" => t.ch.sentEof
                               /\ t.tail[i].type = "CLOSE" => t.ch.sentClose
  <2> TAKE i \in DOMAIN t.tail
  <2>1. CASE i = n
    BY <1>1, <2>1 DEF Grows, FlagsPut
  <2>2. CASE i # n
    BY <1>1, <2>2 DEF Grows, FlagsPut, Shut
  <2> QED
    BY <2>1, <2>2
<1>4. \A i \in DOMAIN w : \E j \in DOMAIN s.tail : s.tail[j] = w[i]
  <2>1. s.tail \in Seq(Packets) /\ (f => s.tail # <<>>) /\ f \in BOOLEAN
    BY DEF Puts, State
  <2>2. CASE ~f
    BY <2>2 DEF Waiting
  <2>3. CASE f
    <3>1. s.tail # <<>>
      BY <2>1, <2>3
    <3>2. \A i \in DOMAIN Tail(s.tail) : i + 1 \in DOMAIN s.tail /\ Tail(s.tail)[i] = s.tail[i + 1]
      BY <2>1, <3>1
    <3> QED
      BY <2>3, <3>2 DEF Waiting
  <2> QED
    BY <2>1, <2>2, <2>3
<1>5. \A i \in DOMAIN w : /\ w[i].type = "EOF" => s.ch.sentEof
                          /\ w[i].type = "CLOSE" => s.ch.sentClose
  BY <1>4 DEF Shut
<1> HIDE DEF w, u
<1>6. ASSUME NEW j \in DOMAIN w, NEW type, Follows(u, v, j, type)
      PROVE  Follows(w, v, j, type)
  <2>1. CASE type \in v.got
    BY <2>1 DEF Follows
  <2>2. CASE \E i \in DOMAIN u : i < j /\ u[i].type = type
    <3>1. PICK i \in DOMAIN u : i < j /\ u[i].type = type
      BY <2>2
    <3>2. i \in DOMAIN w /\ u[i] = w[i]
      BY <1>2, <3>1 DEF Grows
    <3> QED
      BY <3>1, <3>2 DEF Follows
  <2>3. type \in v.got \/ \E i \in DOMAIN u : i < j /\ u[i].type = type
    BY <1>6 DEF Follows
  <2> QED
    BY <2>1, <2>2, <2>3
<1>7. /\ Follows(u, v, k, "EOF") => s.ch.sentEof
      /\ Follows(u, v, k, "CLOSE") => s.ch.sentClose
  <2>1. \A i \in DOMAIN u : i < k => i \in DOMAIN w /\ u[i] = w[i]
    BY <1>2 DEF Grows
  <2>2. ("EOF" \in v.got => s.ch.sentEof) /\ ("CLOSE" \in v.got => s.ch.sentClose)
    BY DEF Flags
  <2>3. \A type : Follows(u, v, k, type) => type \in v.got \/ \E i \in DOMAIN w : w[i].type = type
    BY <2>1 DEF Follows
  <2>4. ASSUME Follows(u, v, k, "EOF") PROVE s.ch.sentEof
    <3>1. CASE "EOF" \in v.got
      BY <2>2, <3>1
    <3>2. CASE \E i \in DOMAIN w : w[i].type = "EOF"
      BY <1>5, <3>2
    <3> QED
      BY <2>3, <2>4, <3>1, <3>2
  <2>5. ASSUME Follows(u, v, k, "CLOSE") PROVE s.ch.sentClose
    <3>1. CASE "CLOSE" \in v.got
      BY <2>2, <3>1
    <3>2. CASE \E i \in DOMAIN w : w[i].type = "CLOSE"
      BY <1>5, <3>2
    <3> QED
      BY <2>3, <2>5, <3>1, <3>2
  <2> QED
    BY <2>4, <2>5
<1>8. Last(u, v)
  <2> SUFFICES ASSUME NEW j \in DOMAIN u
               PROVE  /\ Follows(u, v, j, "EOF") => u[j].type \in {"CLOSE", "DATA"}
                      /\ Follows(u, v, j, "CLOSE") => /\ u[j].type # "CLOSE"
                                                      /\ "close" \in v.sent \/ u[j].type = "DATA"
    BY DEF Last
  <2>1. CASE j = k
    <3>1. u[j].type = p.type
      BY <1>2, <2>1 DEF Grows
    <3> QED
      BY <1>7, <2>1, <3>1 DEF MayPut
  <2>2. CASE j # k
    <3>1. j \in DOMAIN w /\ u[j] = w[j]
      BY <1>2, <2>2 DEF Grows
    <3>2. Last(w, v)
      BY DEF Shut, w
    <3> QED
      BY <1>6, <3>1, <3>2 DEF Last
  <2> QED
    BY <2>1, <2>2
<1>9. ASSUME e = "no", t.ch.sentClose PROVE "CLOSE" \in v.got \/ WaitsFor(u, "CLOSE")
  <2>1. CASE p.type = "CLOSE"
    BY <1>2, <2>1 DEF Grows, WaitsFor
  <2>2. CASE p.type # "CLOSE"
    <3>1. "CLOSE" \in v.got \/ WaitsFor(w, "CLOSE")
      BY <1>9, <2>2 DEF FlagsPut, Shut, w
    <3> QED
      BY <1>2, <3>1 DEF Grows, WaitsFor
  <2> QED
    BY <2>1, <2>2
<1> QED
  BY <1>3, <1>8, <1>9 DEF Shut, u

\* A CLOSE that waits still waits.
LEMMA GonePut ==
  ASSUME NEW s, NEW t, NEW p, NEW f, Puts(s, t, p, f), NEW v, Gone(v, Waiting(s, f))
  PROVE  Gone(v, Waiting(t, f))
<1>1. PICK k : Grows(Waiting(s, f), Waiting(t, f), p, k)
  BY PutsGrow
<1>2. WaitsFor(Waiting(s, f), "CLOSE") => WaitsFor(Waiting(t, f), "CLOSE")
  BY <1>1 DEF Grows, WaitsFor
<1> QED
  BY <1>2 DEF Gone

\* The channel gives the server what it grants, and takes what it sends from
\* its own window.
WindowPut(s, t, p) ==
  /\ t.ch.remote = s.ch.remote
  /\ s.ch.remote \/ t.ch.remoteWindow = s.ch.remoteWindow
  /\ t.ch.receiveWindow = s.ch.receiveWindow + Weight(p, {"ADJUST"})
  /\ t.ch.remoteWindow + Weight(p, {"DATA"}) = s.ch.remoteWindow
  /\ t.ch.receiveWindow + t.readable.queued <= Window
\* A packet that takes its bytes from a window keeps the two windows.
LEMMA WindowsPut ==
  ASSUME NEW s, NEW t, NEW p, NEW f, Puts(s, t, p, f), NEW m, NEW e, NEW v, NEW q,
         m \in BOOLEAN, v \in ServerState, q \in Seq(Messages),
         Windows(s, m, e, f, v, q), WindowPut(s, t, p)
  PROVE  Windows(t, m, e, f, v, q)
<1> DEFINE w == Waiting(s, f)
           u == Waiting(t, f)
<1>1. w \in Seq(Packets) /\ u = Append(w, p) /\ p \in Packets
  BY WaitingSeq, WaitingGrows DEF Puts
<1>2. \A x \in Packets : x.n \in Nat
  BY DEF Packets
<1>3. \A x \in Messages : x.n \in Nat
  BY DEF Messages
<1> HIDE DEF w, u
<1>4. \A types : Bytes(u, types) = Bytes(w, types) + Weight(p, types)
  BY <1>1, <1>2, BytesAppend
<1>5. \A types : Bytes(w, types) \in Nat
  BY <1>1, <1>2, BytesNat
<1>6. \A types : Bytes(q, types) \in Nat
  BY <1>3, BytesNat
<1>7. \A types : Weight(p, types) \in Nat
  BY <1>1, <1>2 DEF Weight
<1>8. /\ v.window \in Nat /\ v.received \in Nat /\ v.granted \in Nat
      /\ s.ch.receiveWindow \in Nat /\ s.ch.remoteWindow \in Nat
      /\ t.ch.receiveWindow \in Nat /\ t.ch.remoteWindow \in Nat
  BY SftpAssumption DEF ServerState, Puts, State, ChannelState
<1> DEFINE a == Bytes(q, {"data"})
           b == Bytes(q, {"confirm", "adjust"})
           g == Bytes(w, {"ADJUST"})
           d == Bytes(w, {"DATA"})
           h == Weight(p, {"ADJUST"})
           i == Weight(p, {"DATA"})
<1>9. a \in Nat /\ b \in Nat /\ g \in Nat /\ d \in Nat /\ h \in Nat /\ i \in Nat
  BY <1>5, <1>6, <1>7
<1>10. Bytes(u, {"ADJUST"}) = g + h /\ Bytes(u, {"DATA"}) = d + i
  BY <1>4
<1>11. /\ v.window + a + g <= s.ch.receiveWindow
       /\ m => v.window + a + g = s.ch.receiveWindow
       /\ e = "no" => s.ch.remoteWindow + d + v.received + b = v.granted
       /\ ~s.ch.remote => s.ch.remoteWindow = 0
       /\ "confirm" \notin v.sent => v.granted = 0
  BY DEF Windows, w
<1> HIDE DEF a, b, g, d, h, i
<1>12. t.ch.receiveWindow = s.ch.receiveWindow + h /\ t.ch.remoteWindow + i = s.ch.remoteWindow
  BY DEF h, i, WindowPut
<1>13. /\ v.window + a + (g + h) <= t.ch.receiveWindow
       /\ m => v.window + a + (g + h) = t.ch.receiveWindow
       /\ e = "no" => t.ch.remoteWindow + (d + i) + v.received + b = v.granted
  <2>1. \A x, y, z \in Nat : x = y + h /\ z + a + g <= y => z + a + (g + h) <= x
    BY <1>9
  <2>2. \A x, y, z \in Nat : x = y + h /\ z + a + g = y => z + a + (g + h) = x
    BY <1>9
  <2>3. \A x, y, z, k \in Nat : x + i = y /\ y + d + z + b = k => x + (d + i) + z + b = k
    BY <1>9
  <2> QED
    BY <1>8, <1>11, <1>12, <2>1, <2>2, <2>3, SMTT(60)
<1> QED
  BY <1>10, <1>11, <1>13 DEF Windows, WindowPut, u, a, b

\* A request follows the confirmation.
LEMMA RequestedPut ==
  ASSUME NEW s, NEW t, NEW p, NEW f, Puts(s, t, p, f), NEW v, Requested(s, v),
         t.ch.remote = s.ch.remote, s.ch.reply # "none" => t.ch.reply # "none",
         p.type = "SUBSYSTEM" => t.ch.remote /\ t.ch.reply # "none"
  PROVE  Requested(t, v)
<1>1. PICK n : Grows(s.tail, t.tail, p, n)
  BY PutsGrow
<1>2. ASSUME NEW i \in DOMAIN t.tail, t.tail[i].type = "SUBSYSTEM"
      PROVE  t.ch.remote /\ t.ch.reply # "none"
  <2>1. CASE i = n
    BY <1>1, <1>2, <2>1 DEF Grows
  <2>2. CASE i # n
    BY <1>1, <1>2, <2>2 DEF Grows, Requested
  <2> QED
    BY <2>1, <2>2
<1> QED
  BY <1>2 DEF Requested

-----------------------------------------------------------------------------
(* The helpers preserve the invariant.                                     *)

\* When close() may be called.
Closable(s, v) ==
  \/ s.ch.closed
  \/ MayClose(s) /\ MayEof(s, v) /\ (s.ch.remote \/ s.ch.cancelled)

\* Called, when nothing was put: the channel is closing, if it was not closed.
LEMMA CalledSilent ==
  ASSUME NEW k, NEW s, NEW t \in State, NEW m, NEW e, NEW r, NEW c, NEW f, NEW v, NEW q,
         Good(s, m, e, r, c, f, v, q), Closable(s, v), Calls(k, s, t), t.tail = s.tail,
         t.ch.sentEof = s.ch.sentEof, t.ch.sentClose = s.ch.sentClose
  PROVE  Good(t, m, e, r, c, f, v, q)
<1>1. /\ Kept(s, t) /\ t.readable = s.readable /\ t.writable = s.writable
      /\ s.ch.closing => t.ch.closing
      /\ s.ch.closed \/ t.ch.closing
      /\ s.ch.closed => t.ch.closing = s.ch.closing
  BY DEF Calls
<1>2. Waiting(t, f) = Waiting(s, f)
  BY DEF Waiting
<1>3. Typed(t, m, e, r, c, f, v, q)
  BY DEF Good, Typed
<1>4. Released(t, m, e, r, f, v, q)
  BY <1>1, <1>2 DEF Good, Released, Kept
<1>5. Started(t, c) /\ Owned(t)
  BY <1>1 DEF Good, Started, Owned, Kept, Closable, MayClose
<1>6. Flags(t, c, v)
  BY <1>1 DEF Good, Flags, MayEof, Kept
<1>7. Shut(t, e, f, v)
  BY <1>2 DEF Good, Shut
<1>8. Windows(t, m, e, f, v, q)
  BY <1>1, <1>2 DEF Good, Windows, Kept
<1>9. Answers(t, m, v, q)
  BY <1>1 DEF Good, Answers, Requested, Ordered, Confirmed, Kept
<1> QED
  BY <1>3, <1>4, <1>5, <1>6, <1>7, <1>8, <1>9 DEF Good

\* Called, when EOF or CLOSE is put.
LEMMA CalledLoud ==
  ASSUME NEW k \in Closer, NEW s, NEW t \in State, NEW m, NEW e, NEW r, NEW c, NEW f, NEW v, NEW q,
         Good(s, m, e, r, c, f, v, q), Closable(s, v), Calls(k, s, t),
         NEW type \in {"EOF", "CLOSE"}, t.tail = Append(s.tail, Packet(type, 0, k)),
         ~s.ch.closed, t.ch.closing, s.ch.remote, FlagsPut(s, t, type),
         type = "EOF" => ~s.ch.sentEof, type = "CLOSE" => s.ch.sentEof /\ ~s.ch.sentClose
  PROVE  Good(t, m, e, r, c, f, v, q)
<1> DEFINE p == Packet(type, 0, k)
<1>1. Kept(s, t) /\ t.readable = s.readable /\ t.writable = s.writable
  BY DEF Calls
<1>2. p \in Packets /\ p.type = type /\ p.by = k /\ p.n = 0
  BY DEF Packet, Packets, ClientType, Owner
<1> HIDE DEF p
<1>3. Puts(s, t, p, f)
  BY <1>2 DEF Puts, Good, Typed, p
<1>4. s.ch.sentClose => t.ch.sentClose
  BY DEF FlagsPut
<1>5. s.ch.sentEof => t.ch.sentEof
  BY DEF FlagsPut
<1>6. Typed(t, m, e, r, c, f, v, q)
  BY <1>3, PutsGrow DEF Good, Typed
<1>7. Released(t, m, e, r, f, v, q)
  BY <1>1, <1>3, <1>4, GonePut DEF Good, Released, Kept
<1>8. Started(t, c)
  BY <1>1 DEF Good, Started, Kept, Closable, MayClose
<1>9. Owned(t)
  <2>1. p.by \notin {"begin", "writer"} /\ p.type \in {"EOF", "CLOSE"}
    BY <1>2 DEF Closer
  <2> QED
    BY <1>1, <1>3, <2>1, OwnedPut DEF Good, Kept
<1>10. Flags(t, c, v)
  <2>1. MayEof(t, v)
    BY DEF Closable, MayEof, FlagsPut
  <2> QED
    BY <1>1, <1>4, <1>5, <2>1 DEF Good, Flags, Kept
<1>11. Shut(t, e, f, v)
  <2>1. MayPut(s, v, type)
    BY DEF MayPut, Closable, MayEof
  <2> QED
    BY <1>2, <1>3, <2>1, ShutPut DEF Good
<1>12. Windows(t, m, e, f, v, q)
  <2>1. Weight(p, {"ADJUST"}) = 0 /\ Weight(p, {"DATA"}) = 0
    BY <1>2 DEF Weight
  <2>2. s.ch.receiveWindow \in Nat /\ s.ch.remoteWindow \in Nat
    BY SftpAssumption DEF Good, Typed, State, ChannelState
  <2>3. t.ch.receiveWindow + t.readable.queued <= Window
    BY <1>1 DEF Good, Windows, Kept
  <2>4. WindowPut(s, t, p)
    BY <1>1, <2>1, <2>2, <2>3 DEF Kept, WindowPut
  <2>5. m \in BOOLEAN /\ v \in ServerState /\ q \in Seq(Messages) /\ Windows(s, m, e, f, v, q)
    BY DEF Good, Typed
  <2> QED
    BY <1>3, <2>4, <2>5, WindowsPut
<1>13. Answers(t, m, v, q)
  <2>1. Requested(t, v)
    BY <1>1, <1>2, <1>3, RequestedPut DEF Good, Answers, Kept
  <2> QED
    BY <1>1, <2>1 DEF Good, Answers, Ordered, Confirmed, Kept
<1> QED
  BY <1>6, <1>7, <1>8, <1>9, <1>10, <1>11, <1>12, <1>13 DEF Good

\* Called preserves the invariant, and leaves close() callable.
LEMMA CalledGood ==
  ASSUME NEW k \in Closer, NEW s, NEW m, NEW e, NEW r, NEW c, NEW f, NEW v, NEW q,
         Good(s, m, e, r, c, f, v, q), Closable(s, v)
  PROVE  /\ Good(Called(k, s), m, e, r, c, f, v, q) /\ Closable(Called(k, s), v)
         /\ Calls(k, s, Called(k, s))
<1> DEFINE t == Called(k, s)
<1>1. t \in State /\ Calls(k, s, t)
  BY CalledKeeps DEF Good, Typed
<1> HIDE DEF t
<1>2. CASE t.tail = s.tail /\ t.ch.sentEof = s.ch.sentEof /\ t.ch.sentClose = s.ch.sentClose
  <2>1. Good(t, m, e, r, c, f, v, q)
    BY <1>1, <1>2, CalledSilent
  <2>2. Closable(t, v)
    BY <1>1, <1>2 DEF Closable, MayClose, MayEof, Calls, Kept
  <2> QED
    BY <1>1, <2>1, <2>2 DEF t
<1>3. ASSUME NEW type \in {"EOF", "CLOSE"}, t.tail = Append(s.tail, Packet(type, 0, k)),
             ~s.ch.closed, t.ch.closing, s.ch.remote, FlagsPut(s, t, type),
             type = "EOF" => ~s.ch.sentEof, type = "CLOSE" => s.ch.sentEof /\ ~s.ch.sentClose
      PROVE  Good(t, m, e, r, c, f, v, q) /\ Closable(t, v)
  <2>1. Good(t, m, e, r, c, f, v, q)
    BY <1>1, <1>3, CalledLoud
  <2>2. Closable(t, v)
    BY <1>1, <1>3 DEF Closable, MayClose, MayEof, Calls, Kept, FlagsPut
  <2> QED
    BY <2>1, <2>2
<1>4. /\ s.ch.sentEof \in BOOLEAN /\ s.ch.sentClose \in BOOLEAN
      /\ t.ch.sentEof \in BOOLEAN /\ t.ch.sentClose \in BOOLEAN
  BY <1>1 DEF Good, Typed, State, ChannelState
<1>5. CASE /\ ~s.ch.closed /\ t.ch.closing /\ s.ch.remote
           /\ ~s.ch.sentEof /\ t.ch.sentEof /\ t.ch.sentClose = s.ch.sentClose
           /\ t.tail = Append(s.tail, Packet("EOF", 0, k))
  <2>1. FlagsPut(s, t, "EOF")
    BY <1>4, <1>5 DEF FlagsPut
  <2> QED
    BY <1>1, <1>3, <1>5, <2>1 DEF t
<1>6. CASE /\ ~s.ch.closed /\ t.ch.closing /\ s.ch.remote
           /\ s.ch.sentEof /\ t.ch.sentEof /\ ~s.ch.sentClose /\ t.ch.sentClose
           /\ t.tail = Append(s.tail, Packet("CLOSE", 0, k))
  <2>1. FlagsPut(s, t, "CLOSE")
    BY <1>4, <1>6 DEF FlagsPut
  <2> QED
    BY <1>1, <1>3, <1>6, <2>1 DEF t
<1> QED
  BY <1>1, <1>2, <1>5, <1>6 DEF Calls

\* What onTerminal and ManagedChannel.terminal change.
Breaks(s, t) ==
  /\ t \in State /\ t.tail = s.tail /\ t.ch.closed
  /\ t.ch.begin = s.ch.begin /\ t.ch.remote = s.ch.remote
  /\ t.ch.closing = s.ch.closing /\ t.ch.cancelled = s.ch.cancelled
  /\ t.ch.receivedEof = s.ch.receivedEof /\ t.ch.sentEof = s.ch.sentEof
  /\ t.ch.sentClose = s.ch.sentClose /\ t.ch.receivedClose = s.ch.receivedClose
  /\ t.ch.receiveWindow = s.ch.receiveWindow /\ t.ch.remoteWindow = s.ch.remoteWindow
  /\ t.ch.ready \in {s.ch.ready, "rejected"} /\ t.ch.opened \in {s.ch.opened, "rejected"}
  /\ t.ch.reply = "none" <=> s.ch.reply = "none"
  /\ t.readable.queued \in {0, s.readable.queued}
  /\ t.writable.at \in {s.writable.at, IF s.writable.at = "window" THEN "throw" ELSE s.writable.at}

\* Broken with the promises of the open and of the request settled or not.
LEMMA BrokenBreaks ==
  ASSUME NEW s \in State, NEW o \in {s.ch.opened, "rejected"}, NEW a \in Promise,
         a = "none" <=> s.ch.reply = "none"
  PROVE  Breaks(s, Broken([s EXCEPT !.ch.opened = o, !.ch.reply = a]))
<1> DEFINE x == [s EXCEPT !.ch.opened = o, !.ch.reply = a]
           t == Broken(x)
           g == [s.ch EXCEPT !.opened = o, !.reply = a]
           d == [g EXCEPT !.closed = TRUE, !.ready = Settle(@, "rejected"),
                          !.remoteClose = Settle(@, "rejected")]
           b == [s.writable EXCEPT !.at = IF @ = "window" THEN "throw" ELSE @]
           h == [s.readable EXCEPT !.state = IF @ = "readable" THEN "errored" ELSE @,
                                   !.queued = IF s.readable.state = "readable" THEN 0 ELSE @]
<1>1. /\ s.ch \in ChannelState /\ s.closer \in [Closer -> Stage]
      /\ s.tail \in Seq(Packets) /\ s.readable \in ReadableState /\ s.writable \in WritableState
  BY DEF State
<1>2. x = [s EXCEPT !.ch = g]
  OBVIOUS
<1>3. x.ch = g /\ x.tail = s.tail /\ x.closer = s.closer /\ x.readable = s.readable /\ x.writable = s.writable
  BY <1>2 DEF State
<1>4. g \in ChannelState
  BY <1>1 DEF ChannelState, Promise
<1>5. /\ g.opened = o /\ g.reply = a /\ g.begin = s.ch.begin /\ g.remote = s.ch.remote
      /\ g.closing = s.ch.closing /\ g.cancelled = s.ch.cancelled
      /\ g.receivedEof = s.ch.receivedEof /\ g.sentEof = s.ch.sentEof
      /\ g.sentClose = s.ch.sentClose /\ g.receivedClose = s.ch.receivedClose
      /\ g.receiveWindow = s.ch.receiveWindow /\ g.remoteWindow = s.ch.remoteWindow
      /\ g.ready = s.ch.ready
  BY <1>1 DEF ChannelState
<1>6. x \in State
  BY <1>1, <1>2, <1>4 DEF State
<1> HIDE DEF x, g
<1>7. d \in ChannelState /\ d.closed
  BY <1>4 DEF ChannelState, Promise, Settle
<1>8. /\ d.opened = g.opened /\ d.reply = g.reply /\ d.begin = g.begin /\ d.remote = g.remote
      /\ d.closing = g.closing /\ d.cancelled = g.cancelled
      /\ d.receivedEof = g.receivedEof /\ d.sentEof = g.sentEof
      /\ d.sentClose = g.sentClose /\ d.receivedClose = g.receivedClose
      /\ d.receiveWindow = g.receiveWindow /\ d.remoteWindow = g.remoteWindow
      /\ d.ready \in {g.ready, "rejected"}
  BY <1>4 DEF ChannelState, Settle
<1>9. b \in WritableState /\ b.at \in {s.writable.at, IF s.writable.at = "window" THEN "throw" ELSE s.writable.at}
  BY <1>1 DEF WritableState
<1>10. h \in ReadableState /\ h.queued \in {0, s.readable.queued}
  <2>1. 0 \in 0 .. Window
    BY SftpAssumption
  <2> QED
    BY <1>1, <2>1 DEF ReadableState
<1> HIDE DEF d, b, h
<1>11. t = [x EXCEPT !.ch = d, !.writable = b, !.readable = h]
  BY <1>3 DEF Broken, d, b, h
<1> HIDE DEF t
<1>12. /\ t.ch = d /\ t.tail = s.tail /\ t.closer = s.closer /\ t.readable = h /\ t.writable = b
       /\ t \in State
  BY <1>1, <1>3, <1>6, <1>7, <1>9, <1>10, <1>11 DEF State
<1> QED
  BY <1>5, <1>7, <1>8, <1>9, <1>10, <1>12 DEF Breaks, t, x

\* What holds of a broken channel, whatever became of the connection.
Broke(s, t, e, r, c, f, v, q) ==
  /\ Typed(t, FALSE, e, r, c, f, v, q) /\ Started(t, c) /\ Owned(t) /\ Flags(t, c, v)
  /\ Shut(t, e, f, v) /\ Windows(t, FALSE, e, f, v, q) /\ Answers(t, FALSE, v, q)
  /\ Waiting(t, f) = Waiting(s, f)
\* A channel that breaks keeps every part of the invariant but its release.
LEMMA BreaksKeep ==
  ASSUME NEW s, NEW t, NEW m, NEW e, NEW r, NEW c, NEW f, NEW v, NEW q,
         Good(s, m, e, r, c, f, v, q), Breaks(s, t)
  PROVE  Broke(s, t, e, r, c, f, v, q)
<1>1. Waiting(t, f) = Waiting(s, f) /\ t.tail = s.tail
  BY DEF Waiting, Breaks
<1>2. Typed(t, FALSE, e, r, c, f, v, q)
  BY <1>1 DEF Good, Typed, Breaks
<1>3. Started(t, c)
  BY DEF Good, Started, Breaks
<1>4. Owned(t)
  BY <1>1 DEF Good, Owned, Breaks
<1>5. Flags(t, c, v)
  BY DEF Good, Flags, MayEof, Breaks
<1>6. Shut(t, e, f, v)
  BY <1>1 DEF Good, Shut, Breaks
<1>7. Windows(t, FALSE, e, f, v, q)
  <2>1. s.ch.receiveWindow + t.readable.queued <= Window
    <3>1. s.ch.receiveWindow \in Nat /\ s.readable.queued \in Nat /\ Window \in Nat
      BY SftpAssumption DEF Good, Typed, State, ChannelState, ReadableState
    <3>2. s.ch.receiveWindow + s.readable.queued <= Window
      BY DEF Good, Windows
    <3>3. t.readable.queued = 0 \/ t.readable.queued = s.readable.queued
      BY DEF Breaks
    <3> QED
      BY <3>1, <3>2, <3>3
  <2>2. t.ch.receiveWindow = s.ch.receiveWindow /\ t.ch.remoteWindow = s.ch.remoteWindow /\ t.ch.remote = s.ch.remote
    BY DEF Breaks
  <2> QED
    BY <1>1, <2>1, <2>2 DEF Good, Windows
<1>8. Answers(t, FALSE, v, q)
  <2>1. t.ch.remote = s.ch.remote /\ t.ch.receivedEof = s.ch.receivedEof /\ (t.ch.reply # "none" <=> s.ch.reply # "none")
    BY DEF Breaks
  <2>2. Requested(t, v)
    BY <1>1, <2>1 DEF Good, Answers, Requested
  <2>3. Ordered(t, FALSE, v, q)
    BY <2>1 DEF Good, Answers, Ordered
  <2> QED
    BY <2>1, <2>2, <2>3 DEF Good, Answers
<1> QED
  BY <1>1, <1>2, <1>3, <1>4, <1>5, <1>6, <1>7, <1>8 DEF Broke

\* The channel of a connection that has ended, with any reader that is not
\* within closeReceived, or still is.
LEMMA BreaksGood ==
  ASSUME NEW s, NEW t, NEW m, NEW e, NEW r, NEW c, NEW f, NEW v, NEW q,
         Good(s, m, e, r, c, f, v, q), Breaks(s, t),
         NEW d \in Reason, NEW x \in {"read", "write", "close", "stopped"}, x = "close" => r = "close"
  PROVE  Good(t, FALSE, d, x, c, f, v, q)
<1>1. /\ Typed(t, FALSE, e, r, c, f, v, q) /\ Started(t, c) /\ Owned(t) /\ Flags(t, c, v)
      /\ Shut(t, e, f, v) /\ Windows(t, FALSE, e, f, v, q) /\ Answers(t, FALSE, v, q)
      /\ Waiting(t, f) = Waiting(s, f)
  <2>1. Broke(s, t, e, r, c, f, v, q)
    BY BreaksKeep
  <2> QED
    BY <2>1 DEF Broke
<1>2. d # "no"
  BY DEF Reason
<1>3. Typed(t, FALSE, d, x, c, f, v, q)
  BY <1>1 DEF Typed
<1>4. Released(t, FALSE, d, x, f, v, q)
  BY <1>2 DEF Good, Released, Breaks
<1>5. Shut(t, d, f, v)
  BY <1>1, <1>2 DEF Shut
<1>6. Windows(t, FALSE, d, f, v, q)
  BY <1>1, <1>2 DEF Windows
<1> QED
  BY <1>1, <1>3, <1>4, <1>5, <1>6 DEF Good

\* When the connection ends after the channel has left the map, or for another
\* reason, and when the reader stops or leaves closeReceived.
LEMMA DeadGood ==
  ASSUME NEW s, NEW e, NEW r, NEW c, NEW f, NEW v, NEW q,
         Good(s, FALSE, e, r, c, f, v, q),
         NEW d \in Reason, NEW x \in {"read", "write", "close", "stopped"}, x = "close" => r = "close"
  PROVE  Good(s, FALSE, d, x, c, f, v, q)
<1>1. d # "no"
  BY DEF Reason
<1>2. Typed(s, FALSE, d, x, c, f, v, q) /\ Released(s, FALSE, d, x, f, v, q)
  BY <1>1 DEF Good, Typed, Released
<1>3. Shut(s, d, f, v) /\ Windows(s, FALSE, d, f, v, q)
  BY <1>1 DEF Good, Shut, Windows
<1> QED
  BY <1>2, <1>3 DEF Good

\* Two records that the invariant does not tell apart.
Alike(s, t) ==
  /\ t \in State /\ t.ch = s.ch /\ t.tail = s.tail /\ t.writable.at = s.writable.at
  /\ t.readable.state = s.readable.state /\ t.readable.queued = s.readable.queued

\* The invariant holds of both or of neither.
LEMMA AlikeGood ==
  ASSUME NEW s, NEW t, NEW m, NEW e, NEW r, NEW c, NEW f, NEW v, NEW q,
         Good(s, m, e, r, c, f, v, q), Alike(s, t)
  PROVE  Good(t, m, e, r, c, f, v, q)
<1>1. Waiting(t, f) = Waiting(s, f) /\ t.tail = s.tail /\ t.ch = s.ch
  BY DEF Waiting, Alike
<1>2. Typed(t, m, e, r, c, f, v, q)
  BY <1>1 DEF Good, Typed, Alike
<1>3. Released(t, m, e, r, f, v, q)
  BY <1>1 DEF Good, Released, Alike
<1>4. Started(t, c) /\ Owned(t)
  BY <1>1 DEF Good, Started, Owned, Alike
<1>5. Flags(t, c, v)
  BY <1>1 DEF Good, Flags, MayEof, Alike
<1>6. Shut(t, e, f, v)
  BY <1>1 DEF Good, Shut
<1>7. Windows(t, m, e, f, v, q)
  BY <1>1 DEF Good, Windows, Alike
<1>8. Answers(t, m, v, q)
  BY <1>1 DEF Good, Answers, Requested, Ordered, Confirmed
<1> QED
  BY <1>2, <1>3, <1>4, <1>5, <1>6, <1>7, <1>8 DEF Good

\* The credit that is granted is what is neither in the window nor in the queue.
LEMMA ReplenishedGood ==
  ASSUME NEW s, NEW m, NEW e, NEW r, NEW c, NEW f, NEW v, NEW q,
         Good(s, m, e, r, c, f, v, q)
  PROVE  Good(Replenished(s), m, e, r, c, f, v, q)
<1>1. /\ s \in State /\ s.ch \in ChannelState /\ s.closer \in [Closer -> Stage]
      /\ s.tail \in Seq(Packets) /\ s.readable \in ReadableState /\ s.writable \in WritableState
  BY DEF State, Good, Typed
<1>2. CASE s.ch.closed \/ s.ch.closing \/ ~s.ch.remote \/ Credit(s) <= 0
  BY <1>2 DEF Replenished
<1>3. CASE ~(s.ch.closed \/ s.ch.closing \/ ~s.ch.remote \/ Credit(s) <= 0)
  <2> DEFINE p == Packet("ADJUST", Credit(s), "pull")
             d == [s.ch EXCEPT !.receiveWindow = @ + Credit(s)]
             h == [s.readable EXCEPT !.pulling = TRUE]
             t == Replenished(s)
  <2>1. s.ch.receiveWindow \in 0 .. Window /\ s.readable.queued \in 0 .. Window /\ Window \in Nat
    BY <1>1, SftpAssumption DEF ChannelState, ReadableState
  <2>2. Credit(s) \in Nat /\ s.ch.receiveWindow + Credit(s) = Window - s.readable.queued
    BY <1>3, <2>1 DEF Credit
  <2>3. p \in Packets /\ p.type = "ADJUST" /\ p.n = Credit(s) /\ p.by = "pull"
    BY <2>2 DEF Packet, Packets, ClientType, Owner
  <2>4. t = [[s EXCEPT !.ch = d, !.readable = h] EXCEPT !.tail = Append(s.tail, p)]
    BY <1>1, <1>3 DEF Replenished, Put, State
  <2>5. d.receiveWindow = Window - s.readable.queued
    BY <1>1, <2>2 DEF ChannelState
  <2>6. d.receiveWindow \in 0 .. Window
    BY <2>1, <2>5
  <2>7. d = [s.ch EXCEPT !.receiveWindow = d.receiveWindow]
    BY <1>1 DEF ChannelState
  <2>8. /\ d.begin = s.ch.begin /\ d.opened = s.ch.opened /\ d.reply = s.ch.reply
        /\ d.ready = s.ch.ready /\ d.remote = s.ch.remote /\ d.closed = s.ch.closed
        /\ d.closing = s.ch.closing /\ d.sentEof = s.ch.sentEof /\ d.sentClose = s.ch.sentClose
        /\ d.cancelled = s.ch.cancelled /\ d.receivedEof = s.ch.receivedEof
        /\ d.receivedClose = s.ch.receivedClose /\ d.remoteWindow = s.ch.remoteWindow
    BY <1>1 DEF ChannelState
  <2>9. h \in ReadableState /\ h.state = s.readable.state /\ h.queued = s.readable.queued
    BY <1>1 DEF ReadableState
  <2> HIDE DEF d, h, p
  <2>10. d \in ChannelState
    BY <1>1, <2>6, <2>7 DEF ChannelState
  <2>11. /\ t.ch = d /\ t.tail = Append(s.tail, p) /\ t.closer = s.closer /\ t.readable = h
         /\ t.writable = s.writable /\ t \in State
    <3> DEFINE u == Append(s.tail, p)
    <3>1. u \in Seq(Packets)
      BY <1>1, <2>3
    <3> HIDE DEF u
    <3>2. t = [[s EXCEPT !.ch = d, !.readable = h] EXCEPT !.tail = u]
      BY <2>4 DEF u
    <3> HIDE DEF t
    <3>3. /\ t.ch = d /\ t.tail = u /\ t.closer = s.closer /\ t.readable = h
          /\ t.writable = s.writable /\ t \in State
      BY <1>1, <2>9, <2>10, <3>1, <3>2 DEF State
    <3> QED
      BY <3>3 DEF u
  <2> HIDE DEF t
  <2>12. Puts(s, t, p, f)
    BY <1>1, <2>3, <2>11 DEF Puts, Good, Typed
  <2>13. Typed(t, m, e, r, c, f, v, q)
    BY <2>11, <2>12, PutsGrow DEF Good, Typed
  <2>14. Released(t, m, e, r, f, v, q)
    BY <2>8, <2>9, <2>11, <2>12, GonePut DEF Good, Released
  <2>15. Started(t, c)
    BY <2>8, <2>11 DEF Good, Started
  <2>16. Owned(t)
    <3>1. p.by \notin {"begin", "writer"} /\ p.by \notin Closer
      BY <2>3 DEF Closer
    <3> QED
      BY <2>8, <2>11, <2>12, <3>1, OwnedPut DEF Good
  <2>17. Flags(t, c, v)
    BY <2>8, <2>11 DEF Good, Flags, MayEof
  <2>18. Shut(t, e, f, v)
    <3>1. MayPut(s, v, p.type)
      BY <1>3, <2>3 DEF MayPut, Good, Flags
    <3>2. FlagsPut(s, t, p.type)
      BY <2>3, <2>8, <2>11, <1>1 DEF FlagsPut, ChannelState
    <3> QED
      BY <2>12, <3>1, <3>2, ShutPut DEF Good
  <2>19. Windows(t, m, e, f, v, q)
    <3>1. Weight(p, {"ADJUST"}) = Credit(s) /\ Weight(p, {"DATA"}) = 0
      BY <2>3 DEF Weight
    <3>2. s.ch.receiveWindow \in Nat /\ s.ch.remoteWindow \in Nat
      BY <1>1, SftpAssumption DEF ChannelState
    <3>3. t.ch.receiveWindow + t.readable.queued <= Window
      BY <2>1, <2>5, <2>9, <2>11
    <3>4. t.ch.receiveWindow = s.ch.receiveWindow + Credit(s)
      BY <2>2, <2>5, <2>11
    <3>5. t.ch.remoteWindow + 0 = s.ch.remoteWindow
      BY <2>8, <2>11, <3>2
    <3>6. WindowPut(s, t, p)
      BY <2>8, <2>11, <3>1, <3>3, <3>4, <3>5 DEF WindowPut
    <3>7. m \in BOOLEAN /\ v \in ServerState /\ q \in Seq(Messages) /\ Windows(s, m, e, f, v, q)
      BY DEF Good, Typed
    <3> QED
      BY <2>12, <3>6, <3>7, WindowsPut
  <2>20. Answers(t, m, v, q)
    <3>1. Requested(t, v)
      BY <2>3, <2>8, <2>11, <2>12, RequestedPut DEF Good, Answers
    <3> QED
      BY <2>8, <2>11, <3>1 DEF Good, Answers, Ordered, Confirmed
  <2> QED
    BY <2>13, <2>14, <2>15, <2>16, <2>17, <2>18, <2>19, <2>20 DEF Good, t
<1> QED
  BY <1>2, <1>3

\* A pull preserves the invariant.
LEMMA PulledGood ==
  ASSUME NEW s, NEW m, NEW e, NEW r, NEW c, NEW f, NEW v, NEW q,
         Good(s, m, e, r, c, f, v, q)
  PROVE  Good(Pulled(s), m, e, r, c, f, v, q)
<1>1. s \in State /\ s.readable \in ReadableState
  BY DEF State, Good, Typed
<1>2. Good([s EXCEPT !.readable.pullAgain = TRUE], m, e, r, c, f, v, q)
  <2> DEFINE h == [s.readable EXCEPT !.pullAgain = TRUE]
             t == [s EXCEPT !.readable.pullAgain = TRUE]
  <2>1. h \in ReadableState /\ h.state = s.readable.state /\ h.queued = s.readable.queued
    BY <1>1 DEF ReadableState
  <2>2. t = [s EXCEPT !.readable = h]
    OBVIOUS
  <2> HIDE DEF h
  <2>3. Alike(s, t)
    BY <1>1, <2>1, <2>2 DEF State, Alike
  <2> QED
    BY <2>3, AlikeGood
<1>3. Good(Replenished(s), m, e, r, c, f, v, q)
  BY ReplenishedGood
<1> QED
  BY <1>2, <1>3 DEF Pulled

\* So does the end of a pull.
LEMMA PullDoneGood ==
  ASSUME NEW s, NEW m, NEW e, NEW r, NEW c, NEW f, NEW v, NEW q,
         Good(s, m, e, r, c, f, v, q)
  PROVE  Good(PullDone(s), m, e, r, c, f, v, q)
<1> DEFINE h == [s.readable EXCEPT !.pulling = FALSE, !.pullAgain = FALSE]
           t == [s EXCEPT !.readable.pulling = FALSE, !.readable.pullAgain = FALSE]
<1>1. s \in State /\ s.readable \in ReadableState
  BY DEF State, Good, Typed
<1>2. h \in ReadableState /\ h.state = s.readable.state /\ h.queued = s.readable.queued
  BY <1>1 DEF ReadableState
<1>3. t = [s EXCEPT !.readable = h]
  OBVIOUS
<1> HIDE DEF h
<1>4. Alike(s, t)
  BY <1>1, <1>2, <1>3 DEF State, Alike
<1>5. Good(t, m, e, r, c, f, v, q)
  BY <1>4, AlikeGood
<1>6. Good(Pulled(t), m, e, r, c, f, v, q)
  BY <1>5, PulledGood
<1> QED
  BY <1>5, <1>6 DEF PullDone

\* Records that differ in one part.
LEMMA Parts ==
  ASSUME NEW s \in State, NEW d \in ChannelState, NEW h \in ReadableState, NEW b \in WritableState,
         NEW x \in [Closer -> Stage]
  PROVE  /\ [s EXCEPT !.ch = d] \in State /\ [s EXCEPT !.readable = h] \in State
         /\ [s EXCEPT !.writable = b] \in State /\ [s EXCEPT !.closer = x] \in State
BY DEF State

\* What Put changes: the tail only.
LEMMA PutParts ==
  ASSUME NEW s \in State, NEW type \in ClientType, NEW n \in Nat, NEW by \in Owner
  PROVE  LET t == Put(s, type, n, by) IN
         /\ t \in State /\ t.tail = Append(s.tail, Packet(type, n, by))
         /\ t.ch = s.ch /\ t.closer = s.closer /\ t.readable = s.readable /\ t.writable = s.writable
         /\ Packet(type, n, by) \in Packets
<1> DEFINE p == Packet(type, n, by)
           u == Append(s.tail, p)
           t == Put(s, type, n, by)
<1>1. p \in Packets
  BY DEF Packet, Packets
<1> HIDE DEF p
<1>2. u \in Seq(Packets)
  BY <1>1 DEF State
<1>3. t = [s EXCEPT !.tail = u]
  BY DEF Put, p
<1> HIDE DEF u, t
<1>4. /\ t.tail = u /\ t.ch = s.ch /\ t.closer = s.closer /\ t.readable = s.readable
      /\ t.writable = s.writable /\ t \in State
  BY <1>2, <1>3 DEF State
<1> QED
  BY <1>1, <1>4 DEF u, t, p

\* #begin has no packet in the tail; neither has #write.
NoPacketOf(s, owner) == \A i \in DOMAIN s.tail : s.tail[i].by # owner

\* t differs from s in where #begin and #write are, in the promise of start() and
\* in whether it was cancelled.
Turns(s, t) ==
  /\ t \in State /\ t.tail = s.tail
  /\ t.readable.state = s.readable.state /\ t.readable.queued = s.readable.queued
  /\ t.ch.opened = s.ch.opened /\ t.ch.reply = s.ch.reply /\ t.ch.remote = s.ch.remote
  /\ t.ch.closed = s.ch.closed /\ t.ch.closing = s.ch.closing /\ t.ch.sentEof = s.ch.sentEof
  /\ t.ch.sentClose = s.ch.sentClose /\ t.ch.receivedEof = s.ch.receivedEof
  /\ t.ch.receivedClose = s.ch.receivedClose
  /\ t.ch.receiveWindow = s.ch.receiveWindow /\ t.ch.remoteWindow = s.ch.remoteWindow

\* A turn that leaves the windows, the flags and the tail alone is good when the
\* parts about #begin, #write and the owners hold after it.
LEMMA TurnsGood ==
  ASSUME NEW s, NEW t, NEW m, NEW e, NEW r, NEW c, NEW f, NEW v, NEW q,
         Good(s, m, e, r, c, f, v, q), Turns(s, t), Started(t, c), Owned(t), Flags(t, c, v)
  PROVE  Good(t, m, e, r, c, f, v, q)
<1>1. Waiting(t, f) = Waiting(s, f)
  BY DEF Waiting, Turns
<1>2. Typed(t, m, e, r, c, f, v, q)
  BY DEF Good, Typed, Turns
<1>3. Released(t, m, e, r, f, v, q)
  BY <1>1 DEF Good, Released, Turns
<1>4. Shut(t, e, f, v)
  BY <1>1 DEF Good, Shut, Turns
<1>5. Windows(t, m, e, f, v, q)
  BY <1>1 DEF Good, Windows, Turns
<1>6. Answers(t, m, v, q)
  BY DEF Good, Answers, Requested, Ordered, Confirmed, Turns
<1> QED
  BY <1>2, <1>3, <1>4, <1>5, <1>6 DEF Good

\* The end of #begin, where its promise may be rejected.
LEMMA BeginDone ==
  ASSUME NEW s, NEW t, NEW m, NEW e, NEW r, NEW c, NEW f, NEW v, NEW q,
         Good(s, m, e, r, c, f, v, q), NoPacketOf(s, "begin"),
         Turns(s, t), t.ch.begin = "done", t.ch.ready \in {s.ch.ready, "rejected"},
         t.ch.cancelled = s.ch.cancelled, t.writable = s.writable,
         s.ch.remote \/ s.ch.closed \/ s.ch.cancelled
  PROVE  Good(t, m, e, r, c, f, v, q)
<1>1. Started(t, c)
  BY DEF Good, Started, Turns
<1>2. Owned(t)
  BY DEF Good, Owned, NoPacketOf, Turns
<1>3. Flags(t, c, v)
  BY DEF Good, Flags, MayEof, Turns
<1> QED
  BY <1>1, <1>2, <1>3, TurnsGood

\* The catch block of #begin.
LEMMA CatchBeginGood ==
  ASSUME NEW s, NEW m, NEW e, NEW r, NEW c, NEW f, NEW v, NEW q,
         Good(s, m, e, r, c, f, v, q), NoPacketOf(s, "begin"), s.ch.remote \/ s.ch.closed
  PROVE  Good(CatchBegin(s), m, e, r, c, f, v, q)
<1>1. s \in State /\ s.ch \in ChannelState
  BY DEF State, Good, Typed
<1>2. ASSUME NEW y \in {s.ch.ready, "rejected"}, NEW t,
             t = [s EXCEPT !.ch = [s.ch EXCEPT !.begin = "done", !.ready = y]]
      PROVE  /\ Good(t, m, e, r, c, f, v, q)
             /\ t.ch.begin = "done" /\ t.ch.cancelled = s.ch.cancelled
             /\ Turns(s, t)
  <2> DEFINE d == [s.ch EXCEPT !.begin = "done", !.ready = y]
  <2>1. d \in ChannelState
    BY <1>1 DEF ChannelState, Begin, Promise
  <2>2. /\ d.begin = "done" /\ d.ready = y /\ d.opened = s.ch.opened /\ d.reply = s.ch.reply
        /\ d.remote = s.ch.remote /\ d.closed = s.ch.closed
        /\ d.closing = s.ch.closing /\ d.sentEof = s.ch.sentEof /\ d.sentClose = s.ch.sentClose
        /\ d.cancelled = s.ch.cancelled /\ d.receivedEof = s.ch.receivedEof
        /\ d.receivedClose = s.ch.receivedClose /\ d.remoteWindow = s.ch.remoteWindow
        /\ d.receiveWindow = s.ch.receiveWindow
    BY <1>1 DEF ChannelState
  <2> HIDE DEF d
  <2>3. /\ t \in State /\ t.ch = d /\ t.tail = s.tail /\ t.readable = s.readable
        /\ t.writable = s.writable
    BY <1>1, <1>2, <2>1 DEF State, d
  <2>4. Turns(s, t)
    BY <2>2, <2>3 DEF Turns
  <2>5. t.ch.begin = "done" /\ t.ch.ready \in {s.ch.ready, "rejected"} /\ t.ch.cancelled = s.ch.cancelled
    BY <2>2, <2>3
  <2> QED
    BY <2>3, <2>4, <2>5, BeginDone
<1> DEFINE x == [s EXCEPT !.ch.begin = "done"]
           z == [x EXCEPT !.ch.ready = Settle(@, "rejected")]
           d == [s.ch EXCEPT !.begin = "done"]
<1>3. CASE s.ch.cancelled
  <2>1. CatchBegin(s) = x
    BY <1>3 DEF CatchBegin
  <2>2. x = [s EXCEPT !.ch = d]
    OBVIOUS
  <2>3. d = [s.ch EXCEPT !.begin = "done", !.ready = s.ch.ready]
    BY <1>1 DEF ChannelState
  <2>4. Good(x, m, e, r, c, f, v, q)
    BY <1>2, <2>2, <2>3
  <2> QED
    BY <2>1, <2>4
<1>4. CASE ~s.ch.cancelled
  <2>1. CatchBegin(s) = Called("beginFailed", z)
    BY <1>4 DEF CatchBegin
  <2>2. PICK y \in {s.ch.ready, "rejected"} : y = Settle(s.ch.ready, "rejected")
    BY DEF Settle
  <2>3. z = [s EXCEPT !.ch = [s.ch EXCEPT !.begin = "done", !.ready = y]]
    <3>1. x.ch = d /\ d.ready = s.ch.ready
      BY <1>1 DEF State, ChannelState
    <3> QED
      BY <2>2, <3>1
  <2> HIDE DEF z
  <2>4. /\ Good(z, m, e, r, c, f, v, q)
        /\ z.ch.begin = "done" /\ z.ch.cancelled = s.ch.cancelled
        /\ Turns(s, z)
    BY <1>2, <2>3
  <2>5. MayEof(s, v)
    BY <1>4 DEF Good, Flags
  <2>6. Closable(z, v)
    BY <2>4, <2>5 DEF Closable, MayClose, MayEof, Turns
  <2>7. "beginFailed" \in Closer
    BY DEF Closer
  <2> QED
    BY <2>1, <2>4, <2>6, <2>7, CalledGood
<1> QED
  BY <1>3, <1>4

\* The end of a #write: an abort that waited for it goes on.
LEMMA WriteEndedGood ==
  ASSUME NEW s, NEW m, NEW e, NEW r, NEW c, NEW f, NEW v, NEW q, NEW next \in {"writable", "errored"},
         Good(s, m, e, r, c, f, v, q), NoPacketOf(s, "writer"), s.writable.at # "idle"
  PROVE  Good(WriteEnded(s, next), m, e, r, c, f, v, q)
<1>1. s \in State /\ s.writable \in WritableState
  BY DEF State, Good, Typed
<1>2. ASSUME NEW y \in {"writable", "errored"}
      PROVE  LET t == [s EXCEPT !.writable.state = y, !.writable.at = "idle"] IN
             Good(t, m, e, r, c, f, v, q) /\ t.ch = s.ch
  <2> DEFINE b == [s.writable EXCEPT !.state = y, !.at = "idle"]
             t == [s EXCEPT !.writable.state = y, !.writable.at = "idle"]
  <2>1. b \in WritableState /\ b.at = "idle"
    BY <1>1 DEF WritableState
  <2>2. t = [s EXCEPT !.writable = b]
    OBVIOUS
  <2> HIDE DEF b, t
  <2>3. /\ t \in State /\ t.ch = s.ch /\ t.tail = s.tail /\ t.readable = s.readable
        /\ t.writable.at = "idle"
    BY <1>1, <2>1, <2>2 DEF State
  <2>4. Turns(s, t)
    BY <2>3 DEF Turns
  <2>5. Started(t, c)
    BY <2>3 DEF Good, Started
  <2>6. Owned(t)
    BY <2>3 DEF Good, Owned, NoPacketOf
  <2>7. Flags(t, c, v)
    BY <2>3 DEF Good, Flags, MayEof
  <2> QED
    BY <2>3, <2>4, <2>5, <2>6, <2>7, TurnsGood DEF t
<1>3. Closable(s, v)
  BY DEF Good, Started, Flags, Closable, MayClose
<1>4. CASE s.writable.state = "erroring"
  <2> DEFINE t == [s EXCEPT !.writable.state = "errored", !.writable.at = "idle"]
  <2>1. Good(t, m, e, r, c, f, v, q) /\ t.ch = s.ch
    BY <1>2
  <2> HIDE DEF t
  <2>2. Closable(t, v)
    BY <1>3, <2>1 DEF Closable, MayClose, MayEof
  <2>3. "writable" \in Closer
    BY DEF Closer
  <2>4. Good(Called("writable", t), m, e, r, c, f, v, q)
    BY <2>1, <2>2, <2>3, CalledGood
  <2> QED
    BY <1>4, <2>4 DEF WriteEnded, t
<1>5. CASE s.writable.state # "erroring"
  BY <1>2, <1>5 DEF WriteEnded
<1> QED
  BY <1>4, <1>5

\* close() puts no packet of #begin or of #write.
LEMMA CalledPackets ==
  ASSUME NEW k \in Closer, NEW s \in State, NEW t, Calls(k, s, t),
         NEW owner \in {"begin", "writer"}, NoPacketOf(s, owner)
  PROVE  NoPacketOf(t, owner)
<1>1. k # owner
  BY DEF Closer
<1>2. ASSUME NEW type, type \in ClientType, t.tail = Append(s.tail, Packet(type, 0, k))
      PROVE  NoPacketOf(t, owner)
  <2>1. Packet(type, 0, k) \in Packets /\ s.tail \in Seq(Packets)
    BY <1>2 DEF Packet, Packets, Owner, State
  <2>2. PICK n : Grows(s.tail, t.tail, Packet(type, 0, k), n)
    BY <1>2, <2>1, GrowsAppend
  <2>3. Packet(type, 0, k).by = k
    BY DEF Packet
  <2> QED
    BY <1>1, <2>2, <2>3 DEF Grows, NoPacketOf
<1>3. CASE t.tail = s.tail
  BY <1>3 DEF NoPacketOf
<1>4. "EOF" \in ClientType /\ "CLOSE" \in ClientType
  BY DEF ClientType
<1> QED
  BY <1>2, <1>3, <1>4 DEF Calls

\* The catch block of #write.
LEMMA WriteThrownGood ==
  ASSUME NEW s, NEW m, NEW e, NEW r, NEW c, NEW f, NEW v, NEW q,
         Good(s, m, e, r, c, f, v, q), NoPacketOf(s, "writer"), s.writable.at # "idle"
  PROVE  Good(WriteThrown(s), m, e, r, c, f, v, q)
<1> DEFINE t == Called("write", s)
<1>1. "write" \in Closer /\ s \in State
  BY DEF Closer, Good, Typed
<1>2. Closable(s, v)
  BY DEF Good, Started, Flags, Closable, MayClose
<1>3. Good(t, m, e, r, c, f, v, q) /\ Calls("write", s, t)
  BY <1>1, <1>2, CalledGood
<1> HIDE DEF t
<1>4. t.writable.at # "idle"
  BY <1>3 DEF Calls
<1>5. NoPacketOf(t, "writer")
  BY <1>1, <1>3, CalledPackets
<1>6. Good(WriteEnded(t, "errored"), m, e, r, c, f, v, q)
  BY <1>3, <1>4, <1>5, WriteEndedGood
<1> QED
  BY <1>6 DEF WriteThrown, t

\* A CLOSE that is put by close() after its EOF, or by the read loop.
PutsClose(s, t, b) ==
  /\ t \in State /\ t.tail = Append(s.tail, Packet("CLOSE", 0, b))
  /\ t.readable = s.readable /\ t.writable = s.writable /\ Kept(s, t)
  /\ t.ch.closing = s.ch.closing /\ t.ch.sentEof = s.ch.sentEof /\ t.ch.sentClose = TRUE

\* The CLOSE keeps the invariant when none was sent before.
LEMMA PutsCloseGood ==
  ASSUME NEW s, NEW t, NEW m, NEW e, NEW r, NEW c, NEW f, NEW v, NEW q,
         Good(s, m, e, r, c, f, v, q), NEW b \in Closer \cup {"reader"}, PutsClose(s, t, b),
         s.ch.remote, ~s.ch.sentClose, Flags(t, c, v)
  PROVE  Good(t, m, e, r, c, f, v, q)
<1> DEFINE p == Packet("CLOSE", 0, b)
<1>1. p \in Packets /\ p.type = "CLOSE" /\ p.by = b /\ p.n = 0
  BY DEF Packet, Packets, ClientType, Owner
<1> HIDE DEF p
<1>2. s \in State /\ s.ch \in ChannelState /\ t.ch \in ChannelState
  BY DEF Good, Typed, State, PutsClose
<1>3. Puts(s, t, p, f)
  BY <1>1, <1>2 DEF Puts, Good, Typed, PutsClose, p
<1>4. Kept(s, t) /\ t.readable = s.readable /\ t.writable = s.writable /\ t.ch.closing = s.ch.closing
  BY DEF PutsClose
<1>5. Typed(t, m, e, r, c, f, v, q)
  BY <1>3, PutsGrow DEF Good, Typed, PutsClose
<1>6. Released(t, m, e, r, f, v, q)
  BY <1>3, <1>4, GonePut DEF Good, Released, Kept, PutsClose
<1>7. Started(t, c)
  BY <1>4 DEF Good, Started, Kept
<1>8. Owned(t)
  <2>1. p.by \notin {"begin", "writer"} /\ p.type \in {"EOF", "CLOSE"}
    BY <1>1 DEF Closer
  <2> QED
    BY <1>3, <1>4, <2>1, OwnedPut DEF Good, Kept
<1>9. Shut(t, e, f, v)
  <2>1. MayPut(s, v, p.type)
    BY <1>1 DEF MayPut
  <2>2. FlagsPut(s, t, p.type)
    BY <1>1, <1>2 DEF FlagsPut, PutsClose, ChannelState
  <2> QED
    BY <1>3, <2>1, <2>2, ShutPut DEF Good
<1>10. Windows(t, m, e, f, v, q)
  <2>1. Weight(p, {"ADJUST"}) = 0 /\ Weight(p, {"DATA"}) = 0
    BY <1>1 DEF Weight
  <2>2. s.ch.receiveWindow \in Nat /\ s.ch.remoteWindow \in Nat
    BY <1>2, SftpAssumption DEF ChannelState
  <2>3. t.ch.receiveWindow + t.readable.queued <= Window
    BY <1>4 DEF Good, Windows, Kept
  <2>4. WindowPut(s, t, p)
    BY <1>4, <2>1, <2>2, <2>3 DEF Kept, WindowPut
  <2>5. m \in BOOLEAN /\ v \in ServerState /\ q \in Seq(Messages) /\ Windows(s, m, e, f, v, q)
    BY DEF Good, Typed
  <2> QED
    BY <1>3, <2>4, <2>5, WindowsPut
<1>11. Answers(t, m, v, q)
  <2>1. Requested(t, v)
    BY <1>1, <1>3, <1>4, RequestedPut DEF Good, Answers, Kept
  <2> QED
    BY <1>4, <2>1 DEF Good, Answers, Ordered, Confirmed, Kept
<1> QED
  BY <1>5, <1>6, <1>7, <1>8, <1>9, <1>10, <1>11 DEF Good

\* The edit of the two of them.
LEMMA PutCloseParts ==
  ASSUME NEW s \in State, NEW b \in Closer \cup {"reader"}
  PROVE  PutsClose(s, Put([s EXCEPT !.ch.sentClose = TRUE], "CLOSE", 0, b), b)
<1> DEFINE d == [s.ch EXCEPT !.sentClose = TRUE]
           x == [s EXCEPT !.ch.sentClose = TRUE]
           t == Put(x, "CLOSE", 0, b)
<1>1. s.ch \in ChannelState /\ "CLOSE" \in ClientType /\ 0 \in Nat /\ b \in Owner
  BY DEF State, ClientType, Owner
<1>2. d \in ChannelState
  BY <1>1 DEF ChannelState
<1>3. /\ d.begin = s.ch.begin /\ d.opened = s.ch.opened /\ d.reply = s.ch.reply
      /\ d.ready = s.ch.ready /\ d.remote = s.ch.remote /\ d.closed = s.ch.closed
      /\ d.cancelled = s.ch.cancelled /\ d.receivedEof = s.ch.receivedEof
      /\ d.receivedClose = s.ch.receivedClose
      /\ d.receiveWindow = s.ch.receiveWindow /\ d.remoteWindow = s.ch.remoteWindow
      /\ d.closing = s.ch.closing /\ d.sentEof = s.ch.sentEof /\ d.sentClose = TRUE
  BY <1>1 DEF ChannelState
<1>4. x = [s EXCEPT !.ch = d]
  OBVIOUS
<1> HIDE DEF d, x
<1>5. /\ x \in State /\ x.ch = d /\ x.tail = s.tail /\ x.readable = s.readable /\ x.writable = s.writable
  BY <1>2, <1>4 DEF State
<1>6. /\ t \in State /\ t.tail = Append(x.tail, Packet("CLOSE", 0, b))
      /\ t.ch = x.ch /\ t.readable = x.readable /\ t.writable = x.writable
  BY <1>1, <1>5, PutParts
<1> HIDE DEF t
<1>7. PutsClose(s, t, b)
  BY <1>3, <1>5, <1>6 DEF PutsClose, Kept
<1> QED
  BY <1>7 DEF t, x

\* A closer moves on.
LEMMA CloserGood ==
  ASSUME NEW s, NEW k \in Closer, NEW stage \in Stage,
         NEW m, NEW e, NEW r, NEW c, NEW f, NEW v, NEW q, Good(s, m, e, r, c, f, v, q)
  PROVE  LET t == [s EXCEPT !.closer[k] = stage] IN
         Good(t, m, e, r, c, f, v, q) /\ t.ch = s.ch
<1> DEFINE x == [s.closer EXCEPT ![k] = stage]
           t == [s EXCEPT !.closer[k] = stage]
<1>1. s \in State /\ x \in [Closer -> Stage]
  BY DEF Good, Typed, State
<1>2. t = [s EXCEPT !.closer = x]
  OBVIOUS
<1> HIDE DEF x, t
<1>3. Alike(s, t)
  BY <1>1, <1>2 DEF Alike, State
<1>4. Good(t, m, e, r, c, f, v, q)
  BY <1>3, AlikeGood
<1> QED
  BY <1>3, <1>4 DEF Alike, t

\* close() after its EOF or its CLOSE.
LEMMA AdvancedGood ==
  ASSUME NEW s, NEW k \in Closer, NEW r, NEW c, NEW f, NEW v, NEW q,
         Good(s, inMap, terminal, r, c, f, v, q), s.ch.sentEof \/ s.ch.sentClose
  PROVE  Good(Advanced(k, s), inMap, terminal, r, c, f, v, q)
<1>1. s \in State /\ s.ch \in ChannelState
  BY DEF Good, Typed, State
<1>2. CASE s.closer[k] = "close" \/ s.ch.sentClose
  <2>1. "remote" \in Stage
    BY DEF Stage
  <2> QED
    BY <1>2, <2>1, CloserGood DEF Advanced
<1>3. CASE s.closer[k] # "close" /\ ~s.ch.sentClose /\ s.closer[k] = "eof" /\ terminal # "no"
  <2> DEFINE d == [s.ch EXCEPT !.sentClose = TRUE]
             x == [s.closer EXCEPT ![k] = "failed"]
             t == [s EXCEPT !.ch.sentClose = TRUE, !.closer[k] = "failed"]
  <2>1. x \in [Closer -> Stage]
    BY <1>1 DEF State, Stage
  <2>2. t = [s EXCEPT !.ch = d, !.closer = x]
    OBVIOUS
  <2>3. d \in ChannelState
    BY <1>1 DEF ChannelState
  <2>4. /\ d.begin = s.ch.begin /\ d.opened = s.ch.opened /\ d.reply = s.ch.reply
        /\ d.ready = s.ch.ready /\ d.remote = s.ch.remote /\ d.closed = s.ch.closed
        /\ d.cancelled = s.ch.cancelled /\ d.receivedEof = s.ch.receivedEof
        /\ d.receivedClose = s.ch.receivedClose
        /\ d.receiveWindow = s.ch.receiveWindow /\ d.remoteWindow = s.ch.remoteWindow
        /\ d.closing = s.ch.closing /\ d.sentEof = s.ch.sentEof /\ d.sentClose = TRUE
    BY <1>1 DEF ChannelState
  <2> HIDE DEF d, x, t
  <2>5. /\ t \in State /\ t.ch = d /\ t.tail = s.tail /\ t.readable = s.readable /\ t.writable = s.writable
    BY <1>1, <2>1, <2>2, <2>3 DEF State
  <2>6. Good(t, inMap, terminal, r, c, f, v, q)
    <3>1. Waiting(t, f) = Waiting(s, f)
      BY <2>5 DEF Waiting
    <3>2. Typed(t, inMap, terminal, r, c, f, v, q)
      BY <2>5 DEF Good, Typed
    <3>3. Released(t, inMap, terminal, r, f, v, q)
      BY <2>4, <2>5, <3>1 DEF Good, Released
    <3>4. Started(t, c) /\ Owned(t)
      BY <2>4, <2>5 DEF Good, Started, Owned
    <3>5. Flags(t, c, v)
      BY <1>3, <2>4, <2>5 DEF Good, Flags, MayEof
    <3>6. Shut(t, terminal, f, v)
      BY <1>3, <2>4, <2>5, <3>1 DEF Good, Shut
    <3>7. Windows(t, inMap, terminal, f, v, q)
      BY <2>4, <2>5, <3>1 DEF Good, Windows
    <3>8. Answers(t, inMap, v, q)
      BY <2>4, <2>5 DEF Good, Answers, Requested, Ordered, Confirmed
    <3> QED
      BY <3>2, <3>3, <3>4, <3>5, <3>6, <3>7, <3>8 DEF Good
  <2>7. Breaks(t, Broken([t EXCEPT !.ch.opened = t.ch.opened, !.ch.reply = t.ch.reply]))
    <3>1. t.ch.reply \in Promise
      BY <2>5, <2>3 DEF ChannelState
    <3> QED
      BY <2>5, <3>1, BrokenBreaks
  <2>8. [t EXCEPT !.ch.opened = t.ch.opened, !.ch.reply = t.ch.reply] = t
    BY <2>5 DEF State, ChannelState
  <2>9. terminal \in Reason /\ ~inMap /\ inMap \in BOOLEAN /\ r \in {"read", "write", "close", "stopped"}
    BY <1>3 DEF Good, Typed, Released
  <2>10. Good(Broken(t), FALSE, terminal, r, c, f, v, q)
    <3>1. Breaks(t, Broken(t))
      BY <2>7, <2>8
    <3> QED
      BY <2>6, <2>9, <3>1, BreaksGood, ZenonT(60)
  <2>11. Advanced(k, s) = Broken(t)
    BY <1>3 DEF Advanced, t
  <2> QED
    BY <2>9, <2>10, <2>11
<1>4. CASE s.closer[k] # "close" /\ ~s.ch.sentClose /\ ~(s.closer[k] = "eof" /\ terminal # "no")
  <2> DEFINE y == [s EXCEPT !.closer[k] = "close"]
             t == Put([y EXCEPT !.ch.sentClose = TRUE], "CLOSE", 0, k)
  <2>1. "close" \in Stage
    BY DEF Stage
  <2>2. Good(y, inMap, terminal, r, c, f, v, q) /\ y.ch = s.ch
    BY <2>1, CloserGood
  <2>3. [y EXCEPT !.ch.sentClose = TRUE] = [s EXCEPT !.ch.sentClose = TRUE, !.closer[k] = "close"]
    BY <1>1 DEF State
  <2>4. Advanced(k, s) = t
    BY <1>4, <2>3 DEF Advanced
  <2> HIDE DEF y
  <2>5. PutsClose(y, t, k)
    BY <2>2, PutCloseParts DEF Good, Typed
  <2> HIDE DEF t
  <2>6. Flags(t, c, v)
    BY <1>4, <2>2, <2>5 DEF Good, Flags, MayEof, PutsClose, Kept
  <2>7. y.ch.remote /\ ~y.ch.sentClose
    BY <1>4, <2>2 DEF Good, Flags
  <2>8. Good(t, inMap, terminal, r, c, f, v, q)
    BY <2>2, <2>5, <2>6, <2>7, PutsCloseGood
  <2> QED
    BY <2>4, <2>8
<1> QED
  BY <1>2, <1>3, <1>4

-----------------------------------------------------------------------------
(* The ends of a connection and of a channel.                              *)

\* The record that a turn ends in is the next Now.
LEMMA BecomeNow ==
  ASSUME NEW s \in State, Become(s)
  PROVE  Now' = s
<1>1. s = [ch |-> s.ch, closer |-> s.closer, tail |-> s.tail, readable |-> s.readable,
           writable |-> s.writable]
  BY DEF State
<1>2. Now' = [ch |-> s.ch, closer |-> s.closer, tail |-> s.tail, readable |-> s.readable,
              writable |-> s.writable]
  BY DEF Become, Now
<1> QED
  BY <1>1, <1>2

\* onTerminal alone, and ManagedChannel.terminal.
LEMMA BrokenAlone ==
  ASSUME NEW s \in State
  PROVE  Breaks(s, Broken(s))
<1>1. Breaks(s, Broken([s EXCEPT !.ch.opened = s.ch.opened, !.ch.reply = s.ch.reply]))
  <2>1. s.ch.reply \in Promise
    BY DEF State, ChannelState
  <2> QED
    BY <2>1, BrokenBreaks
<1>2. [s EXCEPT !.ch.opened = s.ch.opened, !.ch.reply = s.ch.reply] = s
  BY DEF State, ChannelState
<1> QED
  BY <1>1, <1>2

\* terminal() breaks the channel as onTerminal does.
LEMMA TerminatedBreaks ==
  ASSUME NEW s \in State
  PROVE  Breaks(s, Terminated(s))
<1> DEFINE o == Settle(s.ch.opened, "rejected")
           a == Settle(s.ch.reply, "rejected")
<1>1. s.ch.opened \in Promise /\ s.ch.reply \in Promise
  BY DEF State, ChannelState
<1>2. o \in {s.ch.opened, "rejected"} /\ a \in Promise /\ (a = "none" <=> s.ch.reply = "none")
  BY <1>1 DEF Settle, Promise
<1> HIDE DEF o, a
<1>3. Breaks(s, Broken([s EXCEPT !.ch.opened = o, !.ch.reply = a]))
  BY <1>2, BrokenBreaks
<1>4. Terminated(s) = Broken([s EXCEPT !.ch.opened = o, !.ch.reply = a])
  BY DEF Terminated, o, a
<1> QED
  BY <1>3, <1>4

\* #fatal, of a channel that is in the map or not.
LEMMA FatalGood ==
  ASSUME NEW s, NEW r, NEW c, NEW f, NEW v, NEW q, Good(s, inMap, terminal, r, c, f, v, q),
         NEW d \in Reason, NEW x \in {"read", "write", "close", "stopped"}, x = "close" => r = "close"
  PROVE  Good(AfterFatal(s, inMap), FALSE, IF terminal = "no" THEN d ELSE terminal, x, c, f, v, q)
<1> DEFINE e == IF terminal = "no" THEN d ELSE terminal
<1>1. s \in State /\ inMap \in BOOLEAN /\ e \in Reason /\ (terminal # "no" => ~inMap)
  BY DEF Good, Typed, Released
<1> HIDE DEF e
<1>2. CASE inMap
  <2>1. AfterFatal(s, inMap) = Terminated(s)
    BY <1>1, <1>2 DEF AfterFatal
  <2>2. Breaks(s, Terminated(s))
    BY <1>1, TerminatedBreaks
  <2>3. Good(Terminated(s), FALSE, e, x, c, f, v, q)
    <3>1. e \in Reason
      BY <1>1
    <3> QED
      BY <2>2, <3>1, BreaksGood, ZenonT(60)
  <2> QED
    BY <2>1, <2>3 DEF e
<1>3. CASE ~inMap
  <2>1. AfterFatal(s, inMap) = s
    BY <1>3 DEF AfterFatal
  <2>2. inMap = FALSE
    BY <1>1, <1>3
  <2>3. Good(s, FALSE, terminal, r, c, f, v, q)
    BY <2>2
  <2>4. Good(s, FALSE, e, x, c, f, v, q)
    BY <1>1, <2>3, DeadGood
  <2> QED
    BY <2>1, <2>4 DEF e
<1> QED
  BY <1>1, <1>2, <1>3

\* The end of closeReceived.
LEMMA FinishCloseGood ==
  ASSUME NEW s, NEW r, NEW c, NEW f, NEW v, NEW q, Good(s, inMap, terminal, r, c, f, v, q),
         s.ch.receivedClose, s.ch.sentClose, FinishClose(s)
  PROVE  Good(Now', inMap', terminal', reader', c, f, v, q)
<1>1. s \in State /\ inMap \in BOOLEAN /\ inMap' = FALSE /\ terminal \in {"no"} \cup Reason
  BY DEF Good, Typed, FinishClose
<1>2. CASE s.ch.closing
  <2> DEFINE t == [s EXCEPT !.ch.closed = TRUE,
                            !.ch.remoteClose = Settle(@, "resolved"),
                            !.readable.state = IF @ = "readable" THEN "closed" ELSE @]
             d == [s.ch EXCEPT !.closed = TRUE, !.remoteClose = Settle(@, "resolved")]
             h == [s.readable EXCEPT !.state = IF @ = "readable" THEN "closed" ELSE @]
  <2>1. s.ch \in ChannelState /\ s.readable \in ReadableState
    BY <1>1 DEF State
  <2>2. d \in ChannelState
    BY <2>1 DEF ChannelState, Promise, Settle
  <2>3. /\ d.begin = s.ch.begin /\ d.opened = s.ch.opened /\ d.reply = s.ch.reply
        /\ d.ready = s.ch.ready /\ d.remote = s.ch.remote /\ d.closed = TRUE
        /\ d.cancelled = s.ch.cancelled /\ d.receivedEof = s.ch.receivedEof
        /\ d.receivedClose = s.ch.receivedClose
        /\ d.receiveWindow = s.ch.receiveWindow /\ d.remoteWindow = s.ch.remoteWindow
        /\ d.closing = s.ch.closing /\ d.sentEof = s.ch.sentEof /\ d.sentClose = s.ch.sentClose
    BY <2>1 DEF ChannelState
  <2>4. h \in ReadableState /\ h.queued = s.readable.queued
    BY <2>1 DEF ReadableState
  <2>5. t = [s EXCEPT !.ch = d, !.readable = h]
    OBVIOUS
  <2> HIDE DEF d, h
  <2>6. /\ t \in State /\ t.ch = d /\ t.tail = s.tail /\ t.readable = h /\ t.writable = s.writable
    BY <1>1, <2>2, <2>4, <2>5 DEF State
  <2>7. Become(t) /\ reader' = "read" /\ terminal' = terminal
    BY <1>2 DEF FinishClose
  <2> HIDE DEF t
  <2>8. Breaks(s, t)
    BY <2>3, <2>4, <2>6 DEF Breaks
  <2>9. Broke(s, t, terminal, r, c, f, v, q)
    BY <2>8, BreaksKeep
  <2>10. Typed(t, FALSE, terminal, "read", c, f, v, q)
    BY <2>9 DEF Broke, Typed
  <2>11. Released(t, FALSE, terminal, "read", f, v, q)
    <3>1. terminal = "no" => Gone(v, Waiting(s, f)) /\ q = <<>>
      BY DEF Good, Released, Shut, Gone
    <3> QED
      BY <2>3, <2>6, <2>9, <3>1 DEF Good, Released, Broke
  <2>12. Good(t, FALSE, terminal, "read", c, f, v, q)
    BY <2>9, <2>10, <2>11 DEF Good, Broke
  <2>13. Now' = t
    BY <2>6, <2>7, BecomeNow
  <2> QED
    BY <1>1, <2>7, <2>12, <2>13
<1>3. CASE ~s.ch.closing
  <2> DEFINE e == IF terminal = "no" THEN "endedUnexpectedly" ELSE terminal
  <2>1. Become(Broken(s)) /\ reader' = "stopped" /\ terminal' = e
    BY <1>3 DEF FinishClose
  <2>2. e \in Reason
    BY <1>1 DEF Reason
  <2> HIDE DEF e
  <2>3. Breaks(s, Broken(s))
    BY <1>1, BrokenAlone
  <2>4. Good(Broken(s), FALSE, e, "stopped", c, f, v, q)
    BY <2>2, <2>3, BreaksGood
  <2>5. Now' = Broken(s)
    BY <2>1, <2>3, BecomeNow DEF Breaks
  <2> QED
    BY <1>1, <2>1, <2>4, <2>5
<1> QED
  BY <1>2, <1>3

\* The reader may be anywhere but within closeReceived, or there when it should.
LEMMA ReaderGood ==
  ASSUME NEW s, NEW m, NEW e, NEW r, NEW c, NEW f, NEW v, NEW q, Good(s, m, e, r, c, f, v, q),
         NEW x \in {"read", "write", "close", "stopped"},
         x = "close" => s.ch.receivedClose /\ s.ch.sentClose
  PROVE  Good(s, m, e, x, c, f, v, q)
<1>1. Typed(s, m, e, x, c, f, v, q) /\ Released(s, m, e, x, f, v, q)
  BY DEF Good, Typed, Released
<1> QED
  BY <1>1 DEF Good

\* What the client of a started channel may become.
LEMMA ClientGood ==
  ASSUME NEW s, NEW m, NEW e, NEW r, NEW c, NEW f, NEW v, NEW q, Good(s, m, e, r, c, f, v, q),
         NEW d \in {"connecting", "negotiated", "open", "terminated", "connectFailed", "failed"},
         d # "failed" => s.ch.begin = "done" /\ s.ch.remote /\ MayEof(s, v),
         c # "failed"
  PROVE  Good(s, m, e, r, d, f, v, q)
<1>1. Typed(s, m, e, r, d, f, v, q)
  BY DEF Good, Typed
<1>2. Started(s, d)
  BY DEF Good, Started
<1>3. Flags(s, d, v)
  BY DEF Good, Flags
<1> QED
  BY <1>1, <1>2, <1>3 DEF Good


-----------------------------------------------------------------------------
(* #begin, openSftp and the SFTPClient.                                    *)

\* What the invariant says of the record and the promises, in terms of the
\* variables.
LEMMA OfNow ==
  ASSUME IInv
  PROVE  /\ Now \in State /\ Now.ch = ch /\ Now.closer = closer /\ Now.tail = tail
         /\ Now.readable = readable /\ Now.writable = writable
         /\ ch \in ChannelState /\ closer \in [Closer -> Stage] /\ tail \in Seq(Packets)
         /\ readable \in ReadableState /\ writable \in WritableState
         /\ Good(Now, inMap, terminal, reader, client, flushed, srv, inbox)
<1>1. Now \in State /\ Good(Now, inMap, terminal, reader, client, flushed, srv, inbox)
  BY DEF IInv, Good, Typed
<1>2. /\ Now.ch = ch /\ Now.closer = closer /\ Now.tail = tail
      /\ Now.readable = readable /\ Now.writable = writable
  BY DEF Now
<1> QED
  BY <1>1, <1>2 DEF State

\* A turn that ends in a good record preserves the invariant.
LEMMA TurnKeeps ==
  ASSUME NEW s, Good(s, inMap, terminal, reader, client', flushed, srv, inbox), Become(s),
         UNCHANGED <<muxVars, wireVars>>
  PROVE  IInv'
<1>1. Now' = s
  BY BecomeNow DEF Good, Typed
<1>2. /\ inMap' = inMap /\ terminal' = terminal /\ reader' = reader
      /\ flushed' = flushed /\ srv' = srv /\ inbox' = inbox
  BY DEF muxVars, wireVars
<1> QED
  BY <1>1, <1>2 DEF IInv

\* A packet of #begin or of #write is the only one of its owner.
OwnerMoves(s, t, p) ==
  /\ p.by \in {"begin", "writer"} /\ NoPacketOf(s, p.by)
  /\ p.by = "begin" => t.ch.begin \in {"opening", "requesting"} /\ t.writable.at = s.writable.at
  /\ p.by = "writer" => t.writable.at = "write" /\ t.ch.begin = s.ch.begin
\* Such a packet keeps the owners apart.
LEMMA OwnedPutOwn ==
  ASSUME NEW s, NEW t, NEW p, NEW f, Puts(s, t, p, f), Owned(s), OwnerMoves(s, t, p)
  PROVE  Owned(t)
<1>1. PICK n : Grows(s.tail, t.tail, p, n)
  BY PutsGrow
<1>2. p.by \notin Closer
  BY DEF OwnerMoves, Closer
<1>3. \A i \in DOMAIN s.tail : s.tail[i].by # p.by
  BY DEF OwnerMoves, NoPacketOf
<1> SUFFICES ASSUME NEW i \in DOMAIN t.tail
             PROVE  /\ t.tail[i].by = "begin" => t.ch.begin \in {"opening", "requesting"}
                    /\ t.tail[i].by = "writer" => t.writable.at = "write"
                    /\ t.tail[i].by \in Closer => t.tail[i].type \in {"EOF", "CLOSE"}
                    /\ t.tail[i].by \in {"begin", "writer"} =>
                         \A j \in DOMAIN t.tail : t.tail[j].by = t.tail[i].by => i = j
  BY DEF Owned
<1>4. \A j \in DOMAIN t.tail : \/ j = n /\ t.tail[j] = p
                               \/ j \in DOMAIN s.tail /\ t.tail[j] = s.tail[j]
  BY <1>1 DEF Grows
<1>5. CASE i = n
  <2>1. t.tail[i] = p
    BY <1>1, <1>5 DEF Grows
  <2>2. \A j \in DOMAIN t.tail : t.tail[j].by = p.by => i = j
    BY <1>3, <1>4, <1>5
  <2> QED
    BY <1>2, <2>1, <2>2 DEF OwnerMoves
<1>6. CASE i # n
  <2>1. i \in DOMAIN s.tail /\ t.tail[i] = s.tail[i] /\ s.tail[i].by # p.by
    BY <1>3, <1>4, <1>6
  <2>2. /\ s.tail[i].by = "begin" => s.ch.begin \in {"opening", "requesting"}
        /\ s.tail[i].by = "writer" => s.writable.at = "write"
        /\ s.tail[i].by \in Closer => s.tail[i].type \in {"EOF", "CLOSE"}
        /\ s.tail[i].by \in {"begin", "writer"} =>
             \A j \in DOMAIN s.tail : s.tail[j].by = s.tail[i].by => i = j
    BY <2>1 DEF Owned
  <2>3. ASSUME NEW j \in DOMAIN t.tail, t.tail[j].by = t.tail[i].by, t.tail[i].by \in {"begin", "writer"}
        PROVE  i = j
    BY <1>4, <2>1, <2>2, <2>3
  <2> QED
    BY <2>1, <2>2, <2>3 DEF OwnerMoves
<1> QED
  BY <1>5, <1>6

\* #begin goes on after the confirmation, and requests the subsystem.
LEMMA RequestGood ==
  ASSUME NEW s, NEW m, NEW e, NEW r, NEW c, NEW f, NEW v, NEW q,
         Good(s, m, e, r, c, f, v, q), s.ch.begin = "awaitOpened", s.ch.opened = "resolved",
         ~s.ch.cancelled
  PROVE  Good(Put([s EXCEPT !.ch.reply = "pending", !.ch.begin = "requesting"],
                  "SUBSYSTEM", 0, "begin"), m, e, r, c, f, v, q)
<1> DEFINE d == [s.ch EXCEPT !.reply = "pending", !.begin = "requesting"]
           x == [s EXCEPT !.ch.reply = "pending", !.ch.begin = "requesting"]
           p == Packet("SUBSYSTEM", 0, "begin")
           t == Put(x, "SUBSYSTEM", 0, "begin")
<1>1. s \in State /\ s.ch \in ChannelState
  BY DEF Good, Typed, State
<1>2. d \in ChannelState
  BY <1>1 DEF ChannelState, Begin, Promise
<1>3. /\ d.begin = "requesting" /\ d.reply = "pending" /\ d.opened = s.ch.opened
      /\ d.ready = s.ch.ready /\ d.remote = s.ch.remote /\ d.closed = s.ch.closed
      /\ d.cancelled = s.ch.cancelled /\ d.receivedEof = s.ch.receivedEof
      /\ d.receivedClose = s.ch.receivedClose
      /\ d.receiveWindow = s.ch.receiveWindow /\ d.remoteWindow = s.ch.remoteWindow
      /\ d.closing = s.ch.closing /\ d.sentEof = s.ch.sentEof /\ d.sentClose = s.ch.sentClose
  BY <1>1 DEF ChannelState
<1>4. x = [s EXCEPT !.ch = d]
  OBVIOUS
<1>5. p.type = "SUBSYSTEM" /\ p.n = 0 /\ p.by = "begin"
  BY DEF Packet
<1>6. "SUBSYSTEM" \in ClientType /\ "begin" \in Owner /\ 0 \in Nat
  BY DEF ClientType, Owner
<1> HIDE DEF d, x
<1>7. /\ x \in State /\ x.ch = d /\ x.tail = s.tail /\ x.readable = s.readable /\ x.writable = s.writable
  BY <1>1, <1>2, <1>4 DEF State
<1>8. /\ t \in State /\ t.tail = Append(x.tail, p) /\ t.ch = x.ch /\ t.readable = x.readable
      /\ t.writable = x.writable /\ p \in Packets
  BY <1>6, <1>7, PutParts
<1> HIDE DEF p, t
<1>9. t.ch = d /\ t.readable = s.readable /\ t.writable = s.writable
  BY <1>7, <1>8
<1>10. Puts(s, t, p, f)
  BY <1>1, <1>7, <1>8 DEF Puts, Good, Typed
<1>11. s.ch.remote
  BY DEF Good, Started
<1>12. Typed(t, m, e, r, c, f, v, q)
  BY <1>8, <1>10, PutsGrow DEF Good, Typed
<1>13. Released(t, m, e, r, f, v, q)
  BY <1>3, <1>9, <1>10, GonePut DEF Good, Released
<1>14. Started(t, c)
  BY <1>3, <1>9, <1>11 DEF Good, Started
<1>15. Owned(t)
  <2>1. NoPacketOf(s, "begin")
    BY DEF Good, Owned, NoPacketOf
  <2>2. OwnerMoves(s, t, p)
    BY <1>3, <1>5, <1>9, <2>1 DEF OwnerMoves
  <2> QED
    BY <1>10, <2>2, OwnedPutOwn DEF Good
<1>16. Flags(t, c, v)
  BY <1>3, <1>9 DEF Good, Flags, MayEof
<1>17. Shut(t, e, f, v)
  <2>1. ~s.ch.closing
    BY DEF Good, Started
  <2>2. MayPut(s, v, p.type)
    BY <1>5, <2>1 DEF MayPut, Good, Flags
  <2>3. FlagsPut(s, t, p.type)
    BY <1>1, <1>3, <1>5, <1>9 DEF FlagsPut, ChannelState
  <2> QED
    BY <1>10, <2>2, <2>3, ShutPut DEF Good
<1>18. Windows(t, m, e, f, v, q)
  <2>1. Weight(p, {"ADJUST"}) = 0 /\ Weight(p, {"DATA"}) = 0
    BY <1>5 DEF Weight
  <2>2. s.ch.receiveWindow \in Nat /\ s.ch.remoteWindow \in Nat
    BY <1>1, SftpAssumption DEF ChannelState
  <2>3. t.ch.receiveWindow + t.readable.queued <= Window
    BY <1>3, <1>9 DEF Good, Windows
  <2>4. WindowPut(s, t, p)
    BY <1>3, <1>9, <2>1, <2>2, <2>3 DEF WindowPut
  <2>5. m \in BOOLEAN /\ v \in ServerState /\ q \in Seq(Messages) /\ Windows(s, m, e, f, v, q)
    BY DEF Good, Typed
  <2> QED
    BY <1>10, <2>4, <2>5, WindowsPut
<1>19. Answers(t, m, v, q)
  <2>1. Requested(t, v)
    BY <1>3, <1>9, <1>10, <1>11, RequestedPut DEF Good, Answers
  <2>2. Ordered(t, m, v, q)
    BY <1>3, <1>9 DEF Good, Answers, Ordered, Confirmed
  <2> QED
    BY <1>3, <1>9, <2>1, <2>2 DEF Good, Answers, Confirmed
<1> QED
  BY <1>12, <1>13, <1>14, <1>15, <1>16, <1>17, <1>18, <1>19 DEF Good, t, x

\* #begin after the answer to OPEN.
LEMMA ResumeOpenedKeeps == ASSUME IInv, ResumeOpened PROVE IInv'
<1> DEFINE g(s) == Good(s, inMap, terminal, reader, client, flushed, srv, inbox)
           s == Now
<1>1. /\ s \in State /\ s.ch = ch /\ ch \in ChannelState /\ g(s)
  BY OfNow
<1>2. ch.begin = "awaitOpened" /\ ch.opened # "pending" /\ client' = client /\ UNCHANGED <<muxVars, wireVars>>
  BY DEF ResumeOpened
<1>3. NoPacketOf(s, "begin")
  BY <1>1, <1>2 DEF Good, Owned, NoPacketOf
<1>4. /\ ch.opened \in {"rejected", "resolved"}
      /\ ch.opened = "rejected" => ch.closed
      /\ ch.opened = "resolved" => ch.remote
      /\ terminal # "no" => ch.closed
  BY <1>1, <1>2 DEF Good, Started, Released, ChannelState, Promise
<1>5. ASSUME NEW t, g(t), Become(t) PROVE IInv'
  BY <1>2, <1>5, TurnKeeps
<1> HIDE DEF s
<1>6. CASE Become(CatchBegin(s)) /\ (ch.remote \/ ch.closed)
  <2>1. g(CatchBegin(s))
    BY <1>1, <1>3, <1>6, CatchBeginGood
  <2> QED
    BY <1>5, <1>6, <2>1
<1>7. CASE Become([s EXCEPT !.ch.begin = "done"]) /\ ch.remote
  <2> DEFINE d == [ch EXCEPT !.begin = "done"]
             t == [s EXCEPT !.ch.begin = "done"]
  <2>1. d \in ChannelState
    BY <1>1 DEF ChannelState, Begin
  <2>2. /\ d.begin = "done" /\ d.ready = ch.ready /\ d.opened = ch.opened /\ d.reply = ch.reply
        /\ d.remote = ch.remote /\ d.closed = ch.closed
        /\ d.closing = ch.closing /\ d.sentEof = ch.sentEof /\ d.sentClose = ch.sentClose
        /\ d.cancelled = ch.cancelled /\ d.receivedEof = ch.receivedEof
        /\ d.receivedClose = ch.receivedClose /\ d.remoteWindow = ch.remoteWindow
        /\ d.receiveWindow = ch.receiveWindow
    BY <1>1 DEF ChannelState
  <2>3. t = [s EXCEPT !.ch = d]
    BY <1>1
  <2> HIDE DEF d, t
  <2>4. t \in State /\ t.ch = d /\ t.tail = s.tail /\ t.readable = s.readable /\ t.writable = s.writable
    BY <1>1, <2>1, <2>3 DEF State
  <2>5. Turns(s, t)
    BY <1>1, <2>2, <2>4 DEF Turns
  <2>6. t.ch.begin = "done" /\ t.ch.ready \in {s.ch.ready, "rejected"} /\ t.ch.cancelled = s.ch.cancelled
    BY <1>1, <2>2, <2>4
  <2>7. g(t)
    BY <1>1, <1>3, <1>7, <2>4, <2>5, <2>6, BeginDone
  <2> QED
    BY <1>5, <1>7, <2>7 DEF t
<1>8. CASE /\ Become(Put([s EXCEPT !.ch.reply = "pending", !.ch.begin = "requesting"], "SUBSYSTEM", 0, "begin"))
           /\ ch.opened = "resolved" /\ ~ch.cancelled
  <2>1. g(Put([s EXCEPT !.ch.reply = "pending", !.ch.begin = "requesting"], "SUBSYSTEM", 0, "begin"))
    BY <1>1, <1>2, <1>8, RequestGood
  <2> QED
    BY <1>5, <1>8, <2>1
<1> QED
  BY <1>4, <1>6, <1>7, <1>8 DEF ResumeOpened, s

\* #begin after the answer to the request.
LEMMA ResumeRepliedKeeps == ASSUME IInv, ResumeReplied PROVE IInv'
<1> DEFINE g(s) == Good(s, inMap, terminal, reader, client, flushed, srv, inbox)
           s == Now
<1>1. /\ s \in State /\ s.ch = ch /\ ch \in ChannelState /\ g(s)
  BY OfNow
<1>2. ch.begin = "awaitReply" /\ ch.reply # "pending" /\ client' = client /\ UNCHANGED <<muxVars, wireVars>>
  BY DEF ResumeReplied
<1>3. NoPacketOf(s, "begin") /\ ch.remote
  BY <1>1, <1>2 DEF Good, Owned, NoPacketOf, Started
<1>4. ASSUME NEW t, g(t), Become(t) PROVE IInv'
  BY <1>2, <1>4, TurnKeeps
<1> DEFINE y == IF ch.cancelled THEN ch.ready ELSE Settle(ch.ready, "resolved")
           d == [ch EXCEPT !.begin = "done", !.ready = y]
           t == [s EXCEPT !.ch.begin = "done", !.ch.ready = IF ch.cancelled THEN @ ELSE Settle(@, "resolved")]
<1>5. \/ Become(CatchBegin(s)) \/ Become(t)
  BY DEF ResumeReplied
<1>6. t = [s EXCEPT !.ch = d]
  BY <1>1 DEF ChannelState
<1> HIDE DEF s, t
<1>7. CASE Become(CatchBegin(s))
  <2>1. g(CatchBegin(s))
    BY <1>1, <1>3, CatchBeginGood
  <2> QED
    BY <1>4, <1>7, <2>1
<1>8. CASE Become(t)
  <2>1. y \in Promise /\ y \in {ch.ready, "resolved"} /\ (ch.cancelled => y = ch.ready) /\ (ch.ready # "pending" => y = ch.ready)
    BY <1>1 DEF ChannelState, Promise, Settle
  <2> HIDE DEF y
  <2>2. d \in ChannelState
    BY <1>1, <2>1 DEF ChannelState, Begin
  <2>3. /\ d.begin = "done" /\ d.ready = y /\ d.opened = ch.opened /\ d.reply = ch.reply
        /\ d.remote = ch.remote /\ d.closed = ch.closed
        /\ d.closing = ch.closing /\ d.sentEof = ch.sentEof /\ d.sentClose = ch.sentClose
        /\ d.cancelled = ch.cancelled /\ d.receivedEof = ch.receivedEof
        /\ d.receivedClose = ch.receivedClose /\ d.remoteWindow = ch.remoteWindow
        /\ d.receiveWindow = ch.receiveWindow
    BY <1>1 DEF ChannelState
  <2> HIDE DEF d
  <2>4. t \in State /\ t.ch = d /\ t.tail = s.tail /\ t.readable = s.readable /\ t.writable = s.writable
    BY <1>1, <1>6, <2>2 DEF State
  <2>5. Turns(s, t)
    BY <1>1, <2>3, <2>4 DEF Turns
  <2>6. Started(t, client)
    BY <1>1, <1>3, <2>1, <2>3, <2>4 DEF Good, Started
  <2>7. Owned(t)
    BY <1>1, <1>3, <2>3, <2>4 DEF Good, Owned, NoPacketOf
  <2>8. Flags(t, client, srv)
    BY <1>1, <2>3, <2>4 DEF Good, Flags, MayEof
  <2>9. g(t)
    BY <1>1, <2>5, <2>6, <2>7, <2>8, TurnsGood
  <2> QED
    BY <1>4, <1>8, <2>9
<1> QED
  BY <1>5, <1>7, <1>8

\* A writable stream to which a chunk is written, of a channel that has started.
LEMMA ChunkGood ==
  ASSUME NEW s, NEW m, NEW e, NEW r, NEW c, NEW f, NEW v, NEW q,
         Good(s, m, e, r, c, f, v, q), NEW b \in WritableState, b.at = "check",
         s.writable.at = "idle", c \notin {"starting", "failed"}
  PROVE  Good([s EXCEPT !.writable = b], m, e, r, c, f, v, q)
<1> DEFINE t == [s EXCEPT !.writable = b]
<1>1. s \in State
  BY DEF Good, Typed
<1>2. /\ t \in State /\ t.ch = s.ch /\ t.tail = s.tail /\ t.readable = s.readable /\ t.writable = b
  BY <1>1 DEF State
<1> HIDE DEF t
<1>3. Turns(s, t)
  BY <1>2 DEF Turns
<1>4. Started(t, c)
  BY <1>2 DEF Good, Started
<1>5. Owned(t)
  <2>1. NoPacketOf(s, "writer")
    BY DEF Good, Owned, NoPacketOf
  <2> QED
    BY <1>2, <2>1 DEF Good, Owned, NoPacketOf
<1>6. Flags(t, c, v)
  BY <1>2 DEF Good, Flags, MayEof
<1>7. Good(t, m, e, r, c, f, v, q)
  BY <1>3, <1>4, <1>5, <1>6, TurnsGood
<1> QED
  BY <1>7 DEF t

\* The writable stream to which a chunk is written.
LEMMA WriteOfParts ==
  ASSUME writable \in WritableState, NEW n \in ChunkSize
  PROVE  WriteOf(n) \in WritableState /\ WriteOf(n).at = "check"
<1> DEFINE k == writable.chunks + 1
<1>1. k \in Nat /\ n \in Nat
  BY SftpAssumption DEF WritableState
<1>2. WriteOf(n) = [writable EXCEPT !.at = "check", !.left = n, !.chunks = k]
  BY DEF WriteOf
<1> HIDE DEF k
<1> QED
  BY <1>1, <1>2 DEF WritableState

\* openSftp writes INIT.
LEMMA ConnectKeeps == ASSUME IInv, Connect PROVE IInv'
<1>1. /\ Now \in State /\ Now.ch = ch /\ ch \in ChannelState /\ Now.writable = writable
      /\ writable \in WritableState
      /\ Good(Now, inMap, terminal, reader, client, flushed, srv, inbox)
  BY OfNow
<1>2. client = "starting" /\ ch.ready = "resolved" /\ client' = "connecting"
  BY DEF Connect
<1>3. Good(Now, inMap, terminal, reader, "connecting", flushed, srv, inbox)
  <2>1. ch.begin = "done" /\ ch.remote /\ MayEof(Now, srv)
    BY <1>1, <1>2 DEF Good, Started, Flags
  <2>2. "connecting" \in {"connecting", "negotiated", "open", "terminated", "connectFailed", "failed"} /\ client # "failed"
    BY <1>2
  <2> QED
    BY <1>1, <2>1, <2>2, ClientGood
<1>4. writable' \in WritableState /\ writable'.at = "check"
  <2>1. PICK n \in ChunkSize : writable' = WriteOf(n)
    BY DEF Connect
  <2> QED
    BY <1>1, <2>1, WriteOfParts
<1>5. writable.at = "idle"
  BY <1>1, <1>2 DEF Good, Started
<1>6. Good([Now EXCEPT !.writable = writable'], inMap, terminal, reader, "connecting", flushed, srv, inbox)
  BY <1>1, <1>3, <1>4, <1>5, ChunkGood
<1>7. Become([Now EXCEPT !.writable = writable'])
  BY DEF Connect, Become, Now
<1>8. UNCHANGED <<muxVars, wireVars>>
  BY DEF Connect
<1> QED
  BY <1>2, <1>6, <1>7, <1>8, TurnKeeps

\* SFTPClient.connect goes on after INIT.
LEMMA NegotiatedKeeps == ASSUME IInv, Negotiated PROVE IInv'
<1>1. Now \in State /\ Good(Now, inMap, terminal, reader, client, flushed, srv, inbox)
  BY OfNow
<1>2. /\ client = "negotiated" /\ client' \in {"open", "terminated", "connectFailed"}
      /\ Become(Now) /\ UNCHANGED <<muxVars, wireVars>>
  BY DEF Negotiated, Become, Now
<1>3. Now.ch.begin = "done" /\ Now.ch.remote /\ MayEof(Now, srv)
  BY <1>1, <1>2 DEF Good, Started, Flags
<1>4. Good(Now, inMap, terminal, reader, client', flushed, srv, inbox)
  BY <1>1, <1>2, <1>3, ClientGood
<1> QED
  BY <1>2, <1>4, TurnKeeps

\* The client hands a chunk to the stream.
LEMMA WriteChunkKeeps == ASSUME IInv, WriteChunk PROVE IInv'
<1>1. /\ Now \in State /\ Now.writable = writable /\ writable \in WritableState
      /\ Good(Now, inMap, terminal, reader, client, flushed, srv, inbox)
  BY OfNow
<1>2. client = "open" /\ client' = client /\ writable.at = "idle"
  BY DEF WriteChunk
<1>3. writable' \in WritableState /\ writable'.at = "check"
  <2>1. PICK n \in ChunkSize : writable' = WriteOf(n)
    BY DEF WriteChunk
  <2> QED
    BY <1>1, <2>1, WriteOfParts
<1>4. Good([Now EXCEPT !.writable = writable'], inMap, terminal, reader, client, flushed, srv, inbox)
  BY <1>1, <1>2, <1>3, ChunkGood
<1>5. Become([Now EXCEPT !.writable = writable'])
  BY DEF WriteChunk, Become, Now
<1>6. UNCHANGED <<muxVars, wireVars>>
  BY DEF WriteChunk
<1> QED
  BY <1>2, <1>4, <1>5, <1>6, TurnKeeps

\* The catch of openSftp.
LEMMA OpenFailedKeeps == ASSUME IInv, OpenFailed PROVE IInv'
<1> DEFINE t == Called("open", Now)
<1>1. /\ Now \in State /\ Now.ch = ch /\ ch \in ChannelState
      /\ Good(Now, inMap, terminal, reader, client, flushed, srv, inbox)
  BY OfNow
<1>2. /\ (client = "starting" /\ (ch.ready = "rejected" \/ ch.cancelled)) \/ client = "connectFailed"
      /\ client' = "failed" /\ Become(t) /\ UNCHANGED <<muxVars, wireVars>>
  BY DEF OpenFailed
<1>3. Closable(Now, srv)
  BY <1>1, <1>2 DEF Good, Started, Flags, Closable, MayClose
<1>4. "open" \in Closer
  BY DEF Closer
<1>5. Good(t, inMap, terminal, reader, client, flushed, srv, inbox)
  BY <1>1, <1>3, <1>4, CalledGood
<1> HIDE DEF t
<1>6. Good(t, inMap, terminal, reader, "failed", flushed, srv, inbox)
  BY <1>2, <1>5, ClientGood
<1> QED
  BY <1>2, <1>6, TurnKeeps

\* The abort listener.
LEMMA CancelKeeps == ASSUME IInv, Cancel PROVE IInv'
<1> DEFINE y == Settle(ch.ready, "rejected")
           d == [ch EXCEPT !.cancelled = TRUE, !.ready = y]
           s == Now
           t == [s EXCEPT !.ch.cancelled = TRUE, !.ch.ready = Settle(@, "rejected")]
<1>1. /\ s \in State /\ s.ch = ch /\ ch \in ChannelState
      /\ Good(s, inMap, terminal, reader, client, flushed, srv, inbox)
  BY OfNow
<1>2. /\ ~ch.cancelled /\ client' = client
      /\ Become(Called("cancel", t)) /\ UNCHANGED <<muxVars, wireVars>>
  BY DEF Cancel
<1> HIDE DEF s
<1>3. t = [s EXCEPT !.ch = d]
  BY <1>1 DEF ChannelState
<1>4. y \in Promise /\ y \in {ch.ready, "rejected"} /\ y # "pending" /\ (y = "resolved" => ch.ready = "resolved")
  BY <1>1 DEF ChannelState, Promise, Settle
<1> HIDE DEF y, t
<1>5. d \in ChannelState
  BY <1>1, <1>4 DEF ChannelState
<1>6. /\ d.begin = ch.begin /\ d.ready = y /\ d.opened = ch.opened /\ d.reply = ch.reply
      /\ d.remote = ch.remote /\ d.closed = ch.closed
      /\ d.closing = ch.closing /\ d.sentEof = ch.sentEof /\ d.sentClose = ch.sentClose
      /\ d.cancelled = TRUE /\ d.receivedEof = ch.receivedEof
      /\ d.receivedClose = ch.receivedClose /\ d.remoteWindow = ch.remoteWindow
      /\ d.receiveWindow = ch.receiveWindow
  BY <1>1 DEF ChannelState
<1> HIDE DEF d
<1>7. t \in State /\ t.ch = d /\ t.tail = s.tail /\ t.readable = s.readable /\ t.writable = s.writable
  BY <1>1, <1>3, <1>5 DEF State
<1>8. Turns(s, t)
  BY <1>1, <1>6, <1>7 DEF Turns
<1>9. Started(t, client)
  BY <1>1, <1>4, <1>6, <1>7 DEF Good, Started
<1>10. Owned(t)
  BY <1>1, <1>6, <1>7 DEF Good, Owned
<1>11. MayEof(t, srv)
  BY <1>1, <1>2, <1>6, <1>7 DEF Good, Flags, MayEof
<1>12. Flags(t, client, srv)
  BY <1>1, <1>6, <1>7, <1>11 DEF Good, Flags
<1>13. Good(t, inMap, terminal, reader, client, flushed, srv, inbox)
  BY <1>1, <1>8, <1>9, <1>10, <1>12, TurnsGood
<1>14. Closable(t, srv)
  BY <1>6, <1>7, <1>11 DEF Closable, MayClose
<1>15. "cancel" \in Closer
  BY DEF Closer
<1>16. Good(Called("cancel", t), inMap, terminal, reader, client', flushed, srv, inbox)
  BY <1>2, <1>13, <1>14, <1>15, CalledGood
<1> QED
  BY <1>2, <1>16, TurnKeeps

\* A readable stream with no more bytes, which is closed with the channel.
Drained(s, t) ==
  /\ t \in State /\ t.ch = s.ch /\ t.tail = s.tail /\ t.writable.at = s.writable.at
  /\ t.readable.queued <= s.readable.queued
  /\ t.readable.state = s.readable.state \/ s.ch.closing \/ s.ch.closed
\* Bytes that leave the queue keep the invariant.
LEMMA DrainedGood ==
  ASSUME NEW s, NEW t, NEW m, NEW e, NEW r, NEW c, NEW f, NEW v, NEW q,
         Good(s, m, e, r, c, f, v, q), Drained(s, t)
  PROVE  Good(t, m, e, r, c, f, v, q)
<1>1. Waiting(t, f) = Waiting(s, f) /\ t.tail = s.tail /\ t.ch = s.ch
  BY DEF Waiting, Drained
<1>2. Typed(t, m, e, r, c, f, v, q)
  BY <1>1 DEF Good, Typed, Drained
<1>3. Released(t, m, e, r, f, v, q)
  BY <1>1 DEF Good, Released, Drained
<1>4. Started(t, c) /\ Owned(t)
  BY <1>1 DEF Good, Started, Owned, Drained
<1>5. Flags(t, c, v)
  BY <1>1 DEF Good, Flags, MayEof, Drained
<1>6. Shut(t, e, f, v)
  BY <1>1 DEF Good, Shut
<1>7. Windows(t, m, e, f, v, q)
  <2>1. /\ s.ch.receiveWindow \in Nat /\ s.readable.queued \in Nat /\ t.readable.queued \in Nat
        /\ Window \in Nat
    BY SftpAssumption DEF Good, Typed, State, ChannelState, ReadableState, Drained
  <2>2. s.ch.receiveWindow + s.readable.queued <= Window /\ t.readable.queued <= s.readable.queued
    BY DEF Good, Windows, Drained
  <2>3. s.ch.receiveWindow + t.readable.queued <= Window
    BY <2>1, <2>2
  <2> QED
    BY <1>1, <2>3 DEF Good, Windows
<1>8. Answers(t, m, v, q)
  BY <1>1 DEF Good, Answers, Requested, Ordered, Confirmed
<1> QED
  BY <1>2, <1>3, <1>4, <1>5, <1>6, <1>7, <1>8 DEF Good

\* The client reads from the stream.
LEMMA TakeKeeps == ASSUME IInv, Take PROVE IInv'
<1>1. /\ Now \in State /\ Now.ch = ch /\ ch \in ChannelState /\ Now.readable = readable
      /\ readable \in ReadableState
      /\ Good(Now, inMap, terminal, reader, client, flushed, srv, inbox)
  BY OfNow
<1>2. /\ client \in {"connecting", "negotiated", "open"} /\ client' \in {client, "negotiated"}
      /\ UNCHANGED <<muxVars, wireVars>>
  BY DEF Take, Connecting
<1>3. PICK n \in 1 .. readable.queued : Become(Pulled([Now EXCEPT !.readable.queued = @ - n]))
  BY DEF Take
<1> DEFINE h == [readable EXCEPT !.queued = @ - n]
           s == Now
           t == [s EXCEPT !.readable.queued = @ - n]
<1>4. readable.queued \in 0 .. Window /\ readable.queued - n \in 0 .. Window
      /\ readable.queued - n <= readable.queued
  <2>1. readable.queued \in 0 .. Window /\ Window \in Nat
    BY <1>1, SftpAssumption DEF ReadableState
  <2> QED
    BY <2>1
<1>5. h \in ReadableState /\ h.state = readable.state /\ h.queued <= readable.queued
  <2>1. h.queued = readable.queued - n /\ h.state = readable.state
    BY <1>1 DEF ReadableState
  <2>2. h = [readable EXCEPT !.queued = h.queued]
    BY <1>1 DEF ReadableState
  <2>3. h.queued \in 0 .. Window
    BY <1>4, <2>1
  <2> HIDE DEF h
  <2>4. h \in ReadableState
    BY <1>1, <2>2, <2>3 DEF ReadableState
  <2> QED
    BY <1>4, <2>1, <2>4
<1>6. t = [s EXCEPT !.readable = h]
  BY <1>1
<1> HIDE DEF s, h
<1>7. Drained(s, t)
  BY <1>1, <1>5, <1>6 DEF Drained, State, s
<1> HIDE DEF t
<1>8. Good(t, inMap, terminal, reader, client, flushed, srv, inbox)
  BY <1>1, <1>7, DrainedGood DEF s
<1>9. Good(Pulled(t), inMap, terminal, reader, client, flushed, srv, inbox)
  BY <1>8, PulledGood
<1>10. Good(Pulled(t), inMap, terminal, reader, client', flushed, srv, inbox)
  <2>1. CASE client' = client
    BY <1>9, <2>1
  <2>2. CASE client' = "negotiated"
    <3> DEFINE u == Pulled(t)
    <3> HIDE DEF u
    <3>1. Good(u, inMap, terminal, reader, client, flushed, srv, inbox)
      BY <1>9 DEF u
    <3>2. u.ch.begin = "done" /\ u.ch.remote /\ MayEof(u, srv) /\ client # "failed"
      BY <1>2, <3>1 DEF Good, Started, Flags
    <3>3. Good(u, inMap, terminal, reader, "negotiated", flushed, srv, inbox)
      BY <3>1, <3>2, ClientGood
    <3> QED
      BY <2>2, <3>3 DEF u
  <2> QED
    BY <1>2, <2>1, <2>2
<1>11. Become(Pulled(t))
  BY <1>3 DEF t, s
<1> QED
  BY <1>2, <1>10, <1>11, TurnKeeps

\* The three calls of #terminate.
LEMMA TerminateKeeps == ASSUME IInv, Terminate PROVE IInv'
<1> DEFINE g(x) == Good(x, inMap, terminal, reader, client, flushed, srv, inbox)
           shut(x) == (x.ch.closing \/ x.ch.closed) /\ Closable(x, srv)
           closed == Called("client", Now)
           idle == [closed EXCEPT !.writable.state = "errored"]
           waits == [closed EXCEPT !.writable.state = "erroring", !.closer["writable"] = "aborting"]
           aborted == CASE writable.state = "errored" -> [closed EXCEPT !.closer["writable"] = "done"]
                        [] writable.state = "writable" /\ writable.at = "idle" -> Called("writable", idle)
                        [] OTHER -> waits
           ended == IF readable.state # "readable" THEN [aborted EXCEPT !.closer["readable"] = "done"]
                    ELSE Called("readable", [aborted EXCEPT !.readable.state = "closed",
                                                            !.readable.queued = 0])
<1>1. /\ Now \in State /\ Now.ch = ch /\ ch \in ChannelState /\ Now.writable = writable
      /\ Now.readable = readable /\ g(Now)
  BY OfNow
<1>2. /\ client \in {"connecting", "negotiated", "open"}
      /\ client' \in {"negotiated", "terminated", "connectFailed"}
      /\ UNCHANGED <<muxVars, wireVars>>
  BY DEF Terminate, Connecting
<1>3. Become(ended)
  BY DEF Terminate
<1>4. "client" \in Closer /\ "writable" \in Closer /\ "readable" \in Closer
  BY DEF Closer
<1>5. {"done", "aborting"} \subseteq Stage
  BY DEF Stage
<1>6. Closable(Now, srv) /\ ch.begin = "done" /\ ch.remote
  BY <1>1, <1>2 DEF Good, Started, Flags, Closable, MayClose
<1>7. ASSUME NEW x, NEW k \in Closer, g(x), Closable(x, srv)
      PROVE  /\ g(Called(k, x)) /\ shut(Called(k, x))
             /\ Called(k, x).readable = x.readable
  <2>1. g(Called(k, x)) /\ Closable(Called(k, x), srv) /\ Calls(k, x, Called(k, x))
    BY <1>7, CalledGood
  <2> DEFINE y == Called(k, x)
  <2> HIDE DEF y
  <2>2. Calls(k, x, y)
    BY <2>1 DEF y
  <2>3. (y.ch.closing \/ y.ch.closed) /\ y.readable = x.readable
    BY <2>2 DEF Calls, Kept
  <2> QED
    BY <2>1, <2>3 DEF y
<1>8. ASSUME NEW x, NEW k \in Closer, NEW stage \in Stage, g(x), shut(x)
      PROVE  /\ g([x EXCEPT !.closer[k] = stage]) /\ shut([x EXCEPT !.closer[k] = stage])
             /\ [x EXCEPT !.closer[k] = stage].readable = x.readable
  <2> DEFINE y == [x EXCEPT !.closer[k] = stage]
  <2>1. g(y) /\ y.ch = x.ch
    BY <1>8, CloserGood
  <2>2. y.readable = x.readable
    BY <1>8 DEF Good, Typed, State
  <2> HIDE DEF y
  <2>3. shut(y)
    BY <1>8, <2>1 DEF Closable, MayClose, MayEof
  <2> QED
    BY <2>1, <2>2, <2>3 DEF y
<1>9. g(closed) /\ shut(closed) /\ closed.readable = readable
  BY <1>1, <1>4, <1>6, <1>7
<1> HIDE DEF closed
<1>10. ASSUME NEW y \in {"errored", "erroring"}
       PROVE  LET x == [closed EXCEPT !.writable.state = y] IN
              g(x) /\ shut(x) /\ x.readable = readable /\ x.closer = closed.closer
  <2> DEFINE b == [closed.writable EXCEPT !.state = y]
             x == [closed EXCEPT !.writable.state = y]
  <2>1. closed \in State /\ closed.writable \in WritableState
    BY <1>9 DEF Good, Typed, State
  <2>2. b \in WritableState /\ b.at = closed.writable.at
    BY <2>1 DEF WritableState
  <2>3. x = [closed EXCEPT !.writable = b]
    OBVIOUS
  <2> HIDE DEF b, x
  <2>4. Alike(closed, x) /\ x.ch = closed.ch /\ x.readable = closed.readable /\ x.closer = closed.closer
    BY <2>1, <2>2, <2>3 DEF Alike, State
  <2>5. g(x)
    BY <1>9, <2>4, AlikeGood
  <2>6. shut(x)
    BY <1>9, <2>4 DEF Closable, MayClose, MayEof
  <2> QED
    BY <1>9, <2>4, <2>5, <2>6 DEF x
<1>11. g(idle) /\ shut(idle) /\ idle.readable = readable
  BY <1>10
<1>12. g(waits) /\ shut(waits) /\ waits.readable = readable
  <2> DEFINE x == [closed EXCEPT !.writable.state = "erroring"]
  <2>1. waits = [x EXCEPT !.closer["writable"] = "aborting"]
    BY <1>9 DEF Good, Typed, State
  <2>2. g(x) /\ shut(x) /\ x.readable = readable
    BY <1>10
  <2> HIDE DEF x, waits
  <2> QED
    BY <1>4, <1>5, <1>8, <2>1, <2>2
<1> HIDE DEF idle, waits
<1>13. g(aborted) /\ shut(aborted) /\ aborted.readable = readable
  <2>1. LET x == [closed EXCEPT !.closer["writable"] = "done"] IN
        g(x) /\ shut(x) /\ x.readable = readable
    BY <1>4, <1>5, <1>8, <1>9
  <2>2. LET x == Called("writable", idle) IN g(x) /\ shut(x) /\ x.readable = readable
    BY <1>4, <1>7, <1>11
  <2>3. CASE writable.state = "errored"
    BY <2>1, <2>3
  <2>4. CASE writable.state = "writable" /\ writable.at = "idle"
    BY <2>2, <2>4
  <2>5. CASE writable.state # "errored" /\ ~(writable.state = "writable" /\ writable.at = "idle")
    BY <1>12, <2>5
  <2> QED
    BY <2>3, <2>4, <2>5
<1> HIDE DEF aborted
<1>14. g(ended) /\ shut(ended)
  <2>1. CASE readable.state # "readable"
    BY <1>4, <1>5, <1>8, <1>13, <2>1
  <2>2. CASE readable.state = "readable"
    <3> DEFINE h == [aborted.readable EXCEPT !.state = "closed", !.queued = 0]
               x == [aborted EXCEPT !.readable.state = "closed", !.readable.queued = 0]
    <3>1. aborted \in State /\ aborted.readable \in ReadableState /\ 0 \in 0 .. Window
      BY <1>13, SftpAssumption DEF Good, Typed, State
    <3>2. h \in ReadableState /\ h.queued <= aborted.readable.queued
      <4>1. h \in ReadableState /\ h.queued = 0
        BY <3>1 DEF ReadableState
      <4>2. aborted.readable.queued \in 0 .. Window
        BY <3>1 DEF ReadableState
      <4>3. \A z \in 0 .. Window : 0 <= z
        BY SftpAssumption
      <4> QED
        BY <4>1, <4>2, <4>3
    <3>3. x = [aborted EXCEPT !.readable = h]
      OBVIOUS
    <3> HIDE DEF h, x
    <3>4. Drained(aborted, x) /\ x.ch = aborted.ch
      BY <1>13, <3>1, <3>2, <3>3 DEF Drained, State
    <3>5. g(x)
      BY <1>13, <3>4, DrainedGood
    <3>6. Closable(x, srv)
      BY <1>13, <3>4 DEF Closable, MayClose, MayEof
    <3>7. g(Called("readable", x)) /\ shut(Called("readable", x))
      BY <1>4, <1>7, <3>5, <3>6
    <3> QED
      BY <2>2, <3>7 DEF x
  <2> QED
    BY <2>1, <2>2
<1> HIDE DEF ended
<1>15. Good(ended, inMap, terminal, reader, client', flushed, srv, inbox)
  <2>1. ended.ch.begin = "done" /\ ended.ch.remote /\ MayEof(ended, srv) /\ client # "failed"
    BY <1>2, <1>14 DEF Good, Started, Flags
  <2>2. client' \in {"connecting", "negotiated", "open", "terminated", "connectFailed", "failed"}
    BY <1>2
  <2> QED
    BY <1>14, <2>1, <2>2, ClientGood
<1> QED
  BY <1>2, <1>3, <1>15, TurnKeeps

\* SshClient.close.
LEMMA CloseKeeps == ASSUME IInv, Close PROVE IInv'
<1> DEFINE s == AfterFatal(Now, inMap)
<1>1. Good(Now, inMap, terminal, reader, client, flushed, srv, inbox)
  BY OfNow
<1>2. /\ terminal = "no" /\ Become(s) /\ inMap' = FALSE /\ terminal' = "closed"
      /\ client' = client /\ reader' = reader /\ flushed' = flushed /\ srv' = srv /\ inbox' = inbox
  BY DEF Close, Fatal, wireVars
<1>3. "closed" \in Reason /\ reader \in {"read", "write", "close", "stopped"}
  BY <1>1 DEF Reason, Good, Typed
<1>4. Good(s, FALSE, IF terminal = "no" THEN "closed" ELSE terminal, reader, client, flushed, srv, inbox)
  BY <1>1, <1>3, FatalGood
<1> HIDE DEF s
<1>5. Now' = s
  BY <1>2, <1>4, BecomeNow DEF Good, Typed
<1>6. Good(s, FALSE, "closed", reader, client, flushed, srv, inbox)
  BY <1>2, <1>4
<1> QED
  BY <1>2, <1>5, <1>6 DEF IInv

-----------------------------------------------------------------------------
(* #write.                                                                 *)

\* A chunk, or what the window allows of it, that is put into the tail.
LEMMA DataGood ==
  ASSUME NEW s, NEW m, NEW e, NEW r, NEW c, NEW f, NEW v, NEW q,
         Good(s, m, e, r, c, f, v, q), s.writable.at = "check",
         NEW n \in Nat, n <= s.ch.remoteWindow, n <= s.writable.left
  PROVE  Good(Put([s EXCEPT !.ch.remoteWindow = @ - n, !.writable.left = @ - n,
                            !.writable.at = "write"], "DATA", n, "writer"), m, e, r, c, f, v, q)
<1> DEFINE k == s.ch.remoteWindow - n
           l == s.writable.left - n
           d == [s.ch EXCEPT !.remoteWindow = k]
           b == [s.writable EXCEPT !.left = l, !.at = "write"]
           x == [s EXCEPT !.ch.remoteWindow = @ - n, !.writable.left = @ - n, !.writable.at = "write"]
           p == Packet("DATA", n, "writer")
           t == Put(x, "DATA", n, "writer")
<1>1. s \in State /\ s.ch \in ChannelState /\ s.writable \in WritableState
  BY DEF Good, Typed, State
<1>2. k \in 0 .. MaxWindow /\ k + n = s.ch.remoteWindow /\ l \in Nat
  <2>1. s.ch.remoteWindow \in 0 .. MaxWindow /\ MaxWindow \in Nat /\ s.writable.left \in Nat
    BY <1>1, SftpAssumption DEF ChannelState, WritableState
  <2> QED
    BY <2>1
<1>3. x = [s EXCEPT !.ch = d, !.writable = b]
  BY <1>1 DEF State
<1> HIDE DEF k, l
<1>4. d \in ChannelState /\ d.remoteWindow = k
  BY <1>1, <1>2 DEF ChannelState
<1>5. b \in WritableState /\ b.at = "write"
  BY <1>1, <1>2 DEF WritableState
<1>6. /\ d.begin = s.ch.begin /\ d.reply = s.ch.reply /\ d.opened = s.ch.opened
      /\ d.ready = s.ch.ready /\ d.remote = s.ch.remote /\ d.closed = s.ch.closed
      /\ d.cancelled = s.ch.cancelled /\ d.receivedEof = s.ch.receivedEof
      /\ d.receivedClose = s.ch.receivedClose
      /\ d.receiveWindow = s.ch.receiveWindow
      /\ d.closing = s.ch.closing /\ d.sentEof = s.ch.sentEof /\ d.sentClose = s.ch.sentClose
  BY <1>1 DEF ChannelState
<1>7. p.type = "DATA" /\ p.n = n /\ p.by = "writer"
  BY DEF Packet
<1>8. "DATA" \in ClientType /\ "writer" \in Owner
  BY DEF ClientType, Owner
<1> HIDE DEF d, b, x
<1>9. /\ x \in State /\ x.ch = d /\ x.tail = s.tail /\ x.readable = s.readable /\ x.writable = b
  BY <1>1, <1>3, <1>4, <1>5 DEF State
<1>10. /\ t \in State /\ t.tail = Append(x.tail, p) /\ t.ch = x.ch /\ t.readable = x.readable
       /\ t.writable = x.writable /\ p \in Packets
  BY <1>8, <1>9, PutParts
<1> HIDE DEF p, t
<1>11. t.ch = d /\ t.readable = s.readable /\ t.writable = b
  BY <1>9, <1>10
<1>12. Puts(s, t, p, f)
  BY <1>1, <1>9, <1>10 DEF Puts, Good, Typed
<1>13. s.ch.remote
  BY DEF Good, Started
<1>14. Typed(t, m, e, r, c, f, v, q)
  BY <1>10, <1>12, PutsGrow DEF Good, Typed
<1>15. Released(t, m, e, r, f, v, q)
  BY <1>6, <1>11, <1>12, GonePut DEF Good, Released
<1>16. Started(t, c)
  BY <1>6, <1>11, <1>13 DEF Good, Started
<1>17. Owned(t)
  <2>1. NoPacketOf(s, "writer")
    BY DEF Good, Owned, NoPacketOf
  <2>2. OwnerMoves(s, t, p)
    BY <1>5, <1>6, <1>7, <1>11, <2>1 DEF OwnerMoves
  <2> QED
    BY <1>12, <2>2, OwnedPutOwn DEF Good
<1>18. Flags(t, c, v)
  BY <1>6, <1>11 DEF Good, Flags, MayEof
<1>19. Shut(t, e, f, v)
  <2>1. MayPut(s, v, p.type)
    BY <1>7 DEF MayPut
  <2>2. FlagsPut(s, t, p.type)
    BY <1>1, <1>6, <1>7, <1>11 DEF FlagsPut, ChannelState
  <2> QED
    BY <1>12, <2>1, <2>2, ShutPut DEF Good
<1>20. Windows(t, m, e, f, v, q)
  <2>1. Weight(p, {"ADJUST"}) = 0 /\ Weight(p, {"DATA"}) = n
    BY <1>7 DEF Weight
  <2>2. s.ch.receiveWindow \in Nat
    BY <1>1, SftpAssumption DEF ChannelState
  <2>3. t.ch.receiveWindow + t.readable.queued <= Window
    BY <1>6, <1>11 DEF Good, Windows
  <2>4. WindowPut(s, t, p)
    <3>1. t.ch.remoteWindow + Weight(p, {"DATA"}) = s.ch.remoteWindow
      BY <1>2, <1>4, <1>11, <2>1
    <3>2. t.ch.receiveWindow = s.ch.receiveWindow + Weight(p, {"ADJUST"})
      BY <1>6, <1>11, <2>1, <2>2
    <3>3. t.ch.remote = s.ch.remote
      BY <1>6, <1>11
    <3> QED
      BY <1>13, <2>3, <3>1, <3>2, <3>3 DEF WindowPut
  <2>5. m \in BOOLEAN /\ v \in ServerState /\ q \in Seq(Messages) /\ Windows(s, m, e, f, v, q)
    BY DEF Good, Typed
  <2> QED
    BY <1>12, <2>4, <2>5, WindowsPut
<1>21. Answers(t, m, v, q)
  <2>1. Requested(t, v)
    BY <1>6, <1>7, <1>11, <1>12, <1>13, RequestedPut DEF Good, Answers
  <2>2. Ordered(t, m, v, q)
    BY <1>6, <1>11 DEF Good, Answers, Ordered, Confirmed
  <2> QED
    BY <1>6, <1>11, <2>1, <2>2 DEF Good, Answers, Confirmed
<1> QED
  BY <1>14, <1>15, <1>16, <1>17, <1>18, <1>19, <1>20, <1>21 DEF Good, t, x

\* #write looks at the window, and waits, fails or sends.
LEMMA WriterStepKeeps == ASSUME IInv, WriterStep PROVE IInv'
<1> DEFINE g(x) == Good(x, inMap, terminal, reader, client, flushed, srv, inbox)
           s == Now
           n == WriteLength
           t == [s EXCEPT !.writable.at = "window"]
<1>1. /\ s \in State /\ s.ch = ch /\ ch \in ChannelState /\ s.writable = writable
      /\ writable \in WritableState /\ g(s)
  BY OfNow
<1>2. writable.at = "check" /\ client' = client /\ UNCHANGED <<muxVars, wireVars>>
  BY DEF WriterStep
<1>3. NoPacketOf(s, "writer")
  BY <1>1, <1>2 DEF Good, Owned, NoPacketOf
<1>4. \/ Become(WriteThrown(s)) \/ Become(t)
      \/ Become(Put([s EXCEPT !.ch.remoteWindow = @ - n, !.writable.left = @ - n,
                              !.writable.at = "write"], "DATA", n, "writer"))
  BY DEF WriterStep
<1>5. ASSUME NEW x, g(x), Become(x) PROVE IInv'
  BY <1>2, <1>5, TurnKeeps
<1>6. n \in Nat /\ n <= ch.remoteWindow /\ n <= writable.left
  <2>1. ch.remoteWindow \in Nat /\ writable.left \in Nat /\ MaxPacket \in Nat
    BY <1>1, SftpAssumption DEF ChannelState, WritableState
  <2> QED
    BY <2>1 DEF WriteLength, Min2
<1> HIDE DEF s, n
<1>7. g(WriteThrown(s))
  BY <1>1, <1>2, <1>3, WriteThrownGood
<1>8. g(t)
  <2> DEFINE b == [writable EXCEPT !.at = "window"]
  <2>1. b \in WritableState /\ b.at = "window"
    BY <1>1 DEF WritableState
  <2>2. t = [s EXCEPT !.writable = b]
    BY <1>1
  <2> HIDE DEF b, t
  <2>3. t \in State /\ t.ch = s.ch /\ t.tail = s.tail /\ t.readable = s.readable /\ t.writable = b
    BY <1>1, <2>1, <2>2 DEF State
  <2>4. Turns(s, t)
    BY <2>3 DEF Turns
  <2>5. Started(t, client)
    BY <1>1, <1>2, <2>1, <2>3 DEF Good, Started
  <2>6. Owned(t)
    BY <1>1, <1>3, <2>1, <2>3 DEF Good, Owned, NoPacketOf
  <2>7. Flags(t, client, srv)
    BY <1>1, <1>2, <2>1, <2>3 DEF Good, Flags, MayEof
  <2> QED
    BY <1>1, <2>4, <2>5, <2>6, <2>7, TurnsGood
<1>9. g(Put([s EXCEPT !.ch.remoteWindow = @ - n, !.writable.left = @ - n,
                      !.writable.at = "write"], "DATA", n, "writer"))
  BY <1>1, <1>2, <1>6, DataGood
<1> QED
  BY <1>4, <1>5, <1>7, <1>8, <1>9

\* #write whose wait was rejected.
LEMMA WriterThrowKeeps == ASSUME IInv, WriterThrow PROVE IInv'
<1>1. /\ Now.writable = writable
      /\ Good(Now, inMap, terminal, reader, client, flushed, srv, inbox)
  BY OfNow
<1>2. /\ writable.at = "throw" /\ client' = client /\ UNCHANGED <<muxVars, wireVars>>
      /\ Become(WriteThrown(Now))
  BY DEF WriterThrow
<1>3. NoPacketOf(Now, "writer")
  BY <1>1, <1>2 DEF Good, Owned, NoPacketOf
<1>4. Good(WriteThrown(Now), inMap, terminal, reader, client, flushed, srv, inbox)
  BY <1>1, <1>2, <1>3, WriteThrownGood
<1> QED
  BY <1>2, <1>4, TurnKeeps

-----------------------------------------------------------------------------
(* The write tail.                                                         *)

\* w without its head p is u.
Shrinks(w, u, p) ==
  /\ 1 \in DOMAIN w /\ w[1] = p /\ Len(w) = Len(u) + 1 /\ Len(u) \in Nat
  /\ \A i \in DOMAIN u : i + 1 \in DOMAIN w /\ w[i + 1] = u[i] /\ i + 1 # 1
  /\ \A i \in DOMAIN w : i = 1 \/ \E j \in DOMAIN u : i = j + 1
  /\ \A i, j \in DOMAIN u : (i < j <=> i + 1 < j + 1) /\ (i + 1 = j + 1 => i = j) /\ 1 < j + 1

\* Tail does that.
LEMMA ShrinksTail ==
  ASSUME NEW M, NEW w \in Seq(M), w # <<>>
  PROVE  Tail(w) \in Seq(M) /\ Head(w) \in M /\ Shrinks(w, Tail(w), Head(w))
<1> DEFINE u == Tail(w)
           n == Len(u)
<1>1. /\ u \in Seq(M) /\ n \in Nat /\ Len(w) = n + 1 /\ DOMAIN u = 1 .. n
      /\ DOMAIN w = 1 .. (n + 1) /\ Head(w) = w[1] /\ Head(w) \in M
      /\ \A i \in 1 .. n : u[i] = w[i + 1]
  OBVIOUS
<1> HIDE DEF u, n
<1>2. 1 \in DOMAIN w /\ \A i \in DOMAIN u : i + 1 \in DOMAIN w /\ i + 1 # 1
  BY <1>1
<1>3. \A i \in DOMAIN w : i = 1 \/ \E j \in DOMAIN u : i = j + 1
  <2> TAKE i \in DOMAIN w
  <2>1. i = 1 \/ (i - 1 \in DOMAIN u /\ i = (i - 1) + 1)
    BY <1>1
  <2> QED
    BY <2>1
<1>4. \A i, j \in DOMAIN u : (i < j <=> i + 1 < j + 1) /\ (i + 1 = j + 1 => i = j) /\ 1 < j + 1
  BY <1>1
<1>5. Shrinks(w, u, Head(w))
  BY <1>1, <1>2, <1>3, <1>4 DEF Shrinks, n
<1> QED
  BY <1>1, <1>5 DEF u

\* What the server has when it got the packet p.
Gets(v, t, p) ==
  /\ t \in ServerState
  /\ t.got = v.got \cup {p.type} /\ t.sent = v.sent /\ t.granted = v.granted /\ t.bytes = v.bytes
  /\ t.window = v.window + Weight(p, {"ADJUST"})
  /\ t.received = v.received + Weight(p, {"DATA"})

\* The head of the tail reaches the server.
LEMMA GetsGood ==
  ASSUME NEW s, NEW m, NEW e, NEW r, NEW c, NEW v, NEW q, Good(s, m, e, r, c, FALSE, v, q),
         s.tail # <<>>, NEW t, Gets(v, t, Head(s.tail))
  PROVE  Good(s, m, e, r, c, TRUE, t, q)
<1> DEFINE w == s.tail
           p == Head(s.tail)
           u == Tail(s.tail)
<1>1. w \in Seq(Packets) /\ u \in Seq(Packets) /\ p \in Packets /\ Shrinks(w, u, p)
  BY ShrinksTail DEF Good, Typed, State
<1>2. Waiting(s, FALSE) = w /\ Waiting(s, TRUE) = u
  BY DEF Waiting
<1>3. \A types : Bytes(w, types) = Weight(p, types) + Bytes(u, types)
  <2>1. \A x \in Packets : x.n \in Nat
    BY DEF Packets
  <2>2. w # <<>>
    OBVIOUS
  <2> HIDE DEF w, p, u
  <2> SUFFICES ASSUME NEW types PROVE Bytes(w, types) = Weight(p, types) + Bytes(u, types)
    OBVIOUS
  <2>3. Bytes(w, types) = Weight(Head(w), types) + Bytes(Tail(w), types)
    BY <1>1, <2>1, <2>2, BytesTail
  <2> QED
    BY <2>3 DEF w, p, u
<1>4. (m = TRUE \/ m = FALSE) /\ Gets(v, t, p) /\ v \in ServerState
  BY DEF Good, Typed
<1> HIDE DEF w, p, u
<1>5. Typed(s, m, e, r, c, TRUE, t, q)
  BY <1>4 DEF Good, Typed, Gets
<1>6. WaitsFor(w, "CLOSE") => p.type = "CLOSE" \/ WaitsFor(u, "CLOSE")
  BY <1>1 DEF WaitsFor, Shrinks
<1>7. Released(s, m, e, r, TRUE, t, q)
  <2>1. Gone(v, w) => Gone(t, u)
    BY <1>4, <1>6 DEF Gone, Gets
  <2> QED
    BY <1>2, <1>4, <2>1 DEF Good, Released, Gets
<1>8. (p.type = "EOF" => s.ch.sentEof) /\ (p.type = "CLOSE" => s.ch.sentClose)
  BY <1>1 DEF Good, Shut, Shrinks, w
<1>9. Flags(s, c, t)
  <2>1. "EOF" \in t.got => "EOF" \in v.got \/ p.type = "EOF"
    BY <1>4 DEF Gets
  <2>2. "CLOSE" \in t.got => "CLOSE" \in v.got \/ p.type = "CLOSE"
    BY <1>4 DEF Gets
  <2>3. t.sent = v.sent
    BY <1>4 DEF Gets
  <2> QED
    BY <1>8, <2>1, <2>2, <2>3 DEF Good, Flags, MayEof
<1>10. Shut(s, e, TRUE, t)
  <2>1. e = "no" /\ s.ch.sentClose => "CLOSE" \in t.got \/ WaitsFor(u, "CLOSE")
    BY <1>2, <1>4, <1>6 DEF Good, Shut, Gets
  <2>2. ASSUME NEW j \in DOMAIN u, NEW type, Follows(u, t, j, type)
        PROVE  Follows(w, v, j + 1, type)
    <3>1. CASE type \in v.got
      BY <3>1 DEF Follows
    <3>2. CASE type = p.type
      BY <1>1, <3>2 DEF Follows, Shrinks
    <3>3. CASE \E i \in DOMAIN u : i < j /\ u[i].type = type
      BY <1>1, <3>3 DEF Follows, Shrinks
    <3> QED
      BY <1>4, <2>2, <3>1, <3>2, <3>3 DEF Follows, Gets
  <2>3. Last(w, v)
    BY <1>2 DEF Good, Shut
  <2>4. Last(u, t)
    <3> SUFFICES ASSUME NEW j \in DOMAIN u
                 PROVE  /\ Follows(u, t, j, "EOF") => u[j].type \in {"CLOSE", "DATA"}
                        /\ Follows(u, t, j, "CLOSE") => /\ u[j].type # "CLOSE"
                                                        /\ "close" \in t.sent \/ u[j].type = "DATA"
      BY DEF Last
    <3>1. j + 1 \in DOMAIN w /\ w[j + 1] = u[j] /\ t.sent = v.sent
      BY <1>1, <1>4 DEF Shrinks, Gets
    <3> QED
      BY <2>2, <2>3, <3>1 DEF Last
  <2> QED
    BY <1>2, <2>1, <2>4 DEF Good, Shut
<1>11. Windows(s, m, e, TRUE, t, q)
  <2> DEFINE a == Bytes(q, {"data"})
             b == Bytes(q, {"confirm", "adjust"})
             x == Bytes(u, {"ADJUST"})
             y == Bytes(u, {"DATA"})
             h == Weight(p, {"ADJUST"})
             i == Weight(p, {"DATA"})
  <2>1. a \in Nat /\ b \in Nat
    <3>1. q \in Seq(Messages) /\ \A z \in Messages : z.n \in Nat
      BY DEF Good, Typed, Messages
    <3> QED
      BY <3>1, BytesNat
  <2>2. x \in Nat /\ y \in Nat /\ h \in Nat /\ i \in Nat
    <3>1. u \in Seq(Packets) /\ p \in Packets /\ \A z \in Packets : z.n \in Nat
      BY <1>1 DEF Packets
    <3> QED
      BY <3>1, BytesNat DEF Weight
  <2>3. Bytes(w, {"ADJUST"}) = h + x /\ Bytes(w, {"DATA"}) = i + y
    BY <1>3
  <2>4. /\ t.window = v.window + h /\ t.received = v.received + i /\ t.granted = v.granted
        /\ t.sent = v.sent
    BY <1>4 DEF Gets
  <2>5. /\ v.window \in Nat /\ v.received \in Nat /\ v.granted \in Nat
        /\ s.ch.receiveWindow \in Nat /\ s.ch.remoteWindow \in Nat
    BY <1>4, SftpAssumption DEF ServerState, Good, Typed, State, ChannelState
  <2> HIDE DEF a, b, x, y, h, i
  <2>6. /\ v.window + a + (h + x) <= s.ch.receiveWindow
        /\ m => v.window + a + (h + x) = s.ch.receiveWindow
        /\ e = "no" => s.ch.remoteWindow + (i + y) + v.received + b = v.granted
    BY <1>2, <2>3 DEF Good, Windows, a, b
  <2>7. v.window + h + a + x = v.window + a + (h + x)
    BY <2>1, <2>2, <2>5
  <2>8. s.ch.remoteWindow + y + (v.received + i) + b = s.ch.remoteWindow + (i + y) + v.received + b
    BY <2>1, <2>2, <2>5
  <2>9. /\ t.window + a + x <= s.ch.receiveWindow
        /\ m => t.window + a + x = s.ch.receiveWindow
        /\ e = "no" => s.ch.remoteWindow + y + t.received + b = t.granted
    BY <2>4, <2>6, <2>7, <2>8
  <2>10. /\ s.ch.receiveWindow + s.readable.queued <= Window
         /\ ~s.ch.remote => s.ch.remoteWindow = 0
         /\ "confirm" \notin t.sent => t.granted = 0
    BY <2>4 DEF Good, Windows
  <2> QED
    BY <1>2, <2>9, <2>10 DEF Windows, a, b, x, y
<1>12. Answers(s, m, t, q)
  <2>1. t.sent = v.sent /\ t.got = v.got \cup {p.type}
    BY <1>4 DEF Gets
  <2>2. Sent(t)
    BY <2>1 DEF Good, Answers, Sent
  <2>3. Requested(s, t)
    <3>1. p.type = "SUBSYSTEM" => s.ch.remote /\ s.ch.reply # "none"
      BY <1>1 DEF Good, Answers, Requested, Shrinks, w
    <3> QED
      BY <2>1, <3>1 DEF Good, Answers, Requested
  <2>4. Ordered(s, m, t, q)
    BY <2>1 DEF Good, Answers, Ordered
  <2> QED
    BY <2>1, <2>2, <2>3, <2>4 DEF Good, Answers
<1>13. Started(s, c) /\ Owned(s)
  BY DEF Good
<1> QED
  BY <1>5, <1>7, <1>9, <1>10, <1>11, <1>12, <1>13 DEF Good

\* The server gets the head of the tail.
LEMMA TransmitKeeps == ASSUME IInv, Transmit PROVE IInv'
<1> DEFINE p == Head(tail)
           k == IF p.type = "ADJUST" THEN srv.window + p.n ELSE srv.window
           l == IF p.type = "DATA" THEN srv.received + p.n ELSE srv.received
<1>1. /\ Now.tail = tail /\ tail \in Seq(Packets) /\ Now \in State /\ Now.ch = ch
      /\ ch \in ChannelState
      /\ Good(Now, inMap, terminal, reader, client, flushed, srv, inbox)
  BY OfNow
<1>2. /\ tail # <<>> /\ ~flushed /\ flushed' = TRUE
      /\ srv' = [srv EXCEPT !.got = @ \cup {p.type}, !.window = k, !.received = l]
      /\ Now' = Now /\ inMap' = inMap /\ terminal' = terminal /\ reader' = reader
      /\ client' = client /\ inbox' = inbox
  BY DEF Transmit, muxVars, Now
<1>3. flushed = FALSE /\ srv \in ServerState /\ inbox \in Seq(Messages)
  BY <1>1, <1>2 DEF Good, Typed
<1>4. p \in Packets /\ p.n \in Nat /\ p.type \in ClientType
  <2>1. p \in Packets
    BY <1>1, <1>2
  <2> QED
    BY <2>1 DEF Packets
<1>5. /\ srv.window \in 0 .. Window /\ srv.received \in Nat /\ srv.got \in SUBSET ClientType
      /\ srv.window \in Nat /\ Window \in Nat
  BY <1>3, SftpAssumption DEF ServerState
<1>6. k = srv.window + Weight(p, {"ADJUST"}) /\ l = srv.received + Weight(p, {"DATA"})
  BY <1>5 DEF Weight
<1>7. l \in Nat /\ k \in 0 .. Window
  <2> DEFINE a == Bytes(inbox, {"data"})
             x == Bytes(Tail(tail), {"ADJUST"})
             h == Weight(p, {"ADJUST"})
  <2>1. Waiting(Now, FALSE) = tail
    BY <1>1 DEF Waiting
  <2>2. Bytes(tail, {"ADJUST"}) = h + x
    <3>1. \A z \in Packets : z.n \in Nat
      BY DEF Packets
    <3> QED
      BY <1>1, <1>2, <3>1, BytesTail
  <2>3. a \in Nat /\ x \in Nat /\ h \in Nat
    <3>1. (\A z \in Packets : z.n \in Nat) /\ \A z \in Messages : z.n \in Nat
      BY DEF Packets, Messages
    <3>2. Tail(tail) \in Seq(Packets)
      BY <1>1, <1>2
    <3> QED
      BY <1>3, <1>4, <3>1, <3>2, BytesNat DEF Weight
  <2>4. srv.window + a + Bytes(tail, {"ADJUST"}) <= ch.receiveWindow /\ ch.receiveWindow \in 0 .. Window
    BY <1>1, <1>3, <2>1 DEF Good, Windows, ChannelState
  <2> HIDE DEF a, x, h
  <2>5. srv.window + a + (h + x) <= ch.receiveWindow
    BY <2>2, <2>4
  <2>6. srv.window + h \in 0 .. Window
    BY <1>5, <2>3, <2>4, <2>5
  <2>7. l \in Nat
    BY <1>4, <1>5
  <2> QED
    BY <1>6, <2>6, <2>7 DEF h
<1> HIDE DEF k, l, p
<1>8. Gets(srv, srv', p)
  BY <1>2, <1>3, <1>4, <1>6, <1>7 DEF Gets, ServerState
<1>9. Good(Now, inMap, terminal, reader, client, TRUE, srv', inbox)
  BY <1>1, <1>2, <1>3, <1>8, GetsGood DEF p
<1> QED
  BY <1>2, <1>9 DEF IInv

\* The head of the tail, which the server has got, leaves the tail.
LEMMA DoneGood ==
  ASSUME NEW s, NEW m, NEW e, NEW r, NEW c, NEW v, NEW q, Good(s, m, e, r, c, TRUE, v, q)
  PROVE  LET t == [s EXCEPT !.tail = Tail(@)] IN
         /\ Good(t, m, e, r, c, FALSE, v, q) /\ t.ch = s.ch /\ t.writable = s.writable
         /\ \A owner \in {"begin", "writer"} : Head(s.tail).by = owner => NoPacketOf(t, owner)
<1> DEFINE w == s.tail
           p == Head(s.tail)
           u == Tail(s.tail)
           t == [s EXCEPT !.tail = Tail(@)]
<1>1. s \in State /\ w \in Seq(Packets) /\ w # <<>>
  BY DEF Good, Typed, State
<1>2. u \in Seq(Packets) /\ Shrinks(w, u, p)
  BY <1>1, ShrinksTail
<1>3. /\ t \in State /\ t.tail = u /\ t.ch = s.ch /\ t.readable = s.readable
      /\ t.writable = s.writable
  <2>1. u \in Seq(Packets)
    BY <1>2
  <2>2. t = [s EXCEPT !.tail = u]
    OBVIOUS
  <2> HIDE DEF u, t
  <2> QED
    BY <1>1, <2>1, <2>2 DEF State
<1>4. Waiting(s, TRUE) = u
  BY DEF Waiting
<1> HIDE DEF w, p, u, t
<1>5. Waiting(t, FALSE) = Waiting(s, TRUE)
  BY <1>3, <1>4 DEF Waiting
<1>6. Typed(t, m, e, r, c, FALSE, v, q)
  BY <1>3 DEF Good, Typed
<1>7. Released(t, m, e, r, FALSE, v, q)
  BY <1>3, <1>5 DEF Good, Released
<1>8. Started(t, c)
  BY <1>3 DEF Good, Started
<1>9. \A i \in DOMAIN u : i + 1 \in DOMAIN w /\ w[i + 1] = u[i] /\ i + 1 # 1
  BY <1>2 DEF Shrinks
<1>10. \A i, j \in DOMAIN u : i + 1 = j + 1 => i = j
  BY <1>2 DEF Shrinks
<1>11. /\ \A i \in DOMAIN w :
            /\ w[i].by = "begin" => s.ch.begin \in {"opening", "requesting"}
            /\ w[i].by = "writer" => s.writable.at = "write"
            /\ w[i].by \in Closer => w[i].type \in {"EOF", "CLOSE"}
            /\ w[i].by \in {"begin", "writer"} =>
                 \A j \in DOMAIN w : w[j].by = w[i].by => i = j
  BY DEF Good, Owned, w
<1>12. Owned(t)
  <2> SUFFICES ASSUME NEW i \in DOMAIN u
               PROVE  /\ u[i].by = "begin" => t.ch.begin \in {"opening", "requesting"}
                      /\ u[i].by = "writer" => t.writable.at = "write"
                      /\ u[i].by \in Closer => u[i].type \in {"EOF", "CLOSE"}
                      /\ u[i].by \in {"begin", "writer"} =>
                           \A j \in DOMAIN u : u[j].by = u[i].by => i = j
    BY <1>3 DEF Owned
  <2>1. i + 1 \in DOMAIN w /\ w[i + 1] = u[i]
    BY <1>9
  <2>2. ASSUME NEW j \in DOMAIN u, u[j].by = u[i].by, u[i].by \in {"begin", "writer"}
        PROVE  i = j
    <3>1. j + 1 \in DOMAIN w /\ w[j + 1] = u[j]
      BY <1>9
    <3>2. i + 1 = j + 1
      BY <1>11, <2>1, <2>2, <3>1
    <3> QED
      BY <1>10, <3>2
  <2> QED
    BY <1>3, <1>11, <2>1, <2>2
<1>13. Flags(t, c, v)
  BY <1>3 DEF Good, Flags, MayEof
<1>14. Shut(t, e, FALSE, v)
  <2>1. \A i \in DOMAIN u : /\ u[i].type = "EOF" => s.ch.sentEof
                            /\ u[i].type = "CLOSE" => s.ch.sentClose
    BY <1>9 DEF Good, Shut, w
  <2> QED
    BY <1>3, <1>5, <2>1 DEF Good, Shut
<1>15. Windows(t, m, e, FALSE, v, q)
  BY <1>3, <1>5 DEF Good, Windows
<1>16. Answers(t, m, v, q)
  <2>1. \A i \in DOMAIN u : u[i].type = "SUBSYSTEM" => s.ch.remote /\ s.ch.reply # "none"
    BY <1>9 DEF Good, Answers, Requested, w
  <2>2. Requested(t, v)
    BY <1>3, <2>1 DEF Good, Answers, Requested
  <2> QED
    BY <1>3, <2>2 DEF Good, Answers, Ordered, Confirmed
<1>17. ASSUME NEW owner \in {"begin", "writer"}, p.by = owner PROVE NoPacketOf(t, owner)
  <2>1. 1 \in DOMAIN w /\ w[1] = p
    BY <1>2 DEF Shrinks
  <2>2. \A i \in DOMAIN w : w[i].by = owner => 1 = i
    BY <1>11, <1>17, <2>1
  <2> QED
    BY <1>3, <1>9, <2>2 DEF NoPacketOf
<1>18. Good(t, m, e, r, c, FALSE, v, q)
  BY <1>6, <1>7, <1>8, <1>12, <1>13, <1>14, <1>15, <1>16 DEF Good
<1> QED
  BY <1>3, <1>17, <1>18 DEF t, p

\* #begin goes on after OPEN or the subsystem request.
LEMMA BegunGood ==
  ASSUME NEW s, NEW m, NEW e, NEW r, NEW c, NEW f, NEW v, NEW q, Good(s, m, e, r, c, f, v, q),
         s.ch.begin \in {"opening", "requesting"}, NoPacketOf(s, "begin")
  PROVE  Good([s EXCEPT !.ch.begin = IF @ = "opening" THEN "awaitOpened" ELSE "awaitReply"],
              m, e, r, c, f, v, q)
<1> DEFINE y == IF s.ch.begin = "opening" THEN "awaitOpened" ELSE "awaitReply"
           d == [s.ch EXCEPT !.begin = y]
           t == [s EXCEPT !.ch.begin = IF @ = "opening" THEN "awaitOpened" ELSE "awaitReply"]
<1>1. s \in State /\ s.ch \in ChannelState
  BY DEF Good, Typed, State
<1>2. t = [s EXCEPT !.ch = d]
  OBVIOUS
<1>3. /\ y \in {"awaitOpened", "awaitReply"} /\ (y = "awaitReply" => s.ch.begin = "requesting")
  OBVIOUS
<1> HIDE DEF y
<1>4. d \in ChannelState
  BY <1>1, <1>3 DEF ChannelState, Begin
<1>5. /\ d.begin = y /\ d.ready = s.ch.ready /\ d.opened = s.ch.opened /\ d.reply = s.ch.reply
      /\ d.remote = s.ch.remote /\ d.closed = s.ch.closed
      /\ d.closing = s.ch.closing /\ d.sentEof = s.ch.sentEof /\ d.sentClose = s.ch.sentClose
      /\ d.cancelled = s.ch.cancelled /\ d.receivedEof = s.ch.receivedEof
      /\ d.receivedClose = s.ch.receivedClose /\ d.remoteWindow = s.ch.remoteWindow
      /\ d.receiveWindow = s.ch.receiveWindow
  BY <1>1 DEF ChannelState
<1> HIDE DEF d, t
<1>6. t \in State /\ t.ch = d /\ t.tail = s.tail /\ t.readable = s.readable /\ t.writable = s.writable
  BY <1>1, <1>2, <1>4 DEF State
<1>7. Turns(s, t)
  BY <1>5, <1>6 DEF Turns
<1>8. Started(t, c)
  BY <1>3, <1>5, <1>6 DEF Good, Started
<1>9. Owned(t)
  BY <1>5, <1>6 DEF Good, Owned, NoPacketOf
<1>10. Flags(t, c, v)
  BY <1>5, <1>6 DEF Good, Flags, MayEof
<1>11. Good(t, m, e, r, c, f, v, q)
  BY <1>7, <1>8, <1>9, <1>10, TurnsGood
<1> QED
  BY <1>11 DEF t

\* #write looks at what is left of its chunk.
LEMMA CheckGood ==
  ASSUME NEW s, NEW m, NEW e, NEW r, NEW c, NEW f, NEW v, NEW q, Good(s, m, e, r, c, f, v, q),
         s.writable.at # "idle", NoPacketOf(s, "writer")
  PROVE  Good([s EXCEPT !.writable.at = "check"], m, e, r, c, f, v, q)
<1> DEFINE b == [s.writable EXCEPT !.at = "check"]
           t == [s EXCEPT !.writable.at = "check"]
<1>1. s \in State /\ s.writable \in WritableState
  BY DEF Good, Typed, State
<1>2. b \in WritableState /\ b.at = "check"
  BY <1>1 DEF WritableState
<1>3. t = [s EXCEPT !.writable = b]
  OBVIOUS
<1> HIDE DEF b, t
<1>4. t \in State /\ t.ch = s.ch /\ t.tail = s.tail /\ t.readable = s.readable /\ t.writable = b
  BY <1>1, <1>2, <1>3 DEF State
<1>5. Turns(s, t)
  BY <1>4 DEF Turns
<1>6. Started(t, c)
  BY <1>2, <1>4 DEF Good, Started
<1>7. Owned(t)
  BY <1>2, <1>4 DEF Good, Owned, NoPacketOf
<1>8. Flags(t, c, v)
  BY <1>2, <1>4 DEF Good, Flags, MayEof
<1>9. Good(t, m, e, r, c, f, v, q)
  BY <1>5, <1>6, <1>7, <1>8, TurnsGood
<1> QED
  BY <1>9 DEF t

\* The write of the head ends, and its owner goes on.
LEMMA WriteDoneKeeps == ASSUME IInv, WriteDone PROVE IInv'
<1> DEFINE p == Head(tail)
           done == [Now EXCEPT !.tail = Tail(@)]
           g(x) == Good(x, inMap, terminal, reader, client, FALSE, srv, inbox)
<1>1. /\ Now.tail = tail /\ tail \in Seq(Packets) /\ Now \in State /\ Now.ch = ch
      /\ Now.writable = writable
      /\ Good(Now, inMap, terminal, reader, client, flushed, srv, inbox)
  BY OfNow
<1>2. /\ tail # <<>> /\ flushed /\ flushed' = FALSE
      /\ client' = client /\ srv' = srv /\ inbox' = inbox
  BY DEF WriteDone
<1>3. Good(Now, inMap, terminal, reader, client, TRUE, srv, inbox)
  <2>1. flushed = TRUE
    BY <1>1, <1>2 DEF Good, Typed
  <2> QED
    BY <1>1, <2>1
<1>4. /\ g(done) /\ done.ch = ch /\ done.writable = writable
      /\ p.by = "begin" => NoPacketOf(done, "begin")
      /\ p.by = "writer" => NoPacketOf(done, "writer")
  <2>1. /\ g(done) /\ done.ch = Now.ch /\ done.writable = Now.writable
        /\ \A owner \in {"begin", "writer"} : Head(Now.tail).by = owner => NoPacketOf(done, owner)
    BY <1>3, DoneGood
  <2> QED
    BY <1>1, <2>1
<1>5. /\ p.by = "begin" => ch.begin \in {"opening", "requesting"}
      /\ p.by = "writer" => writable.at = "write"
      /\ p.by \in Closer => ch.sentEof \/ ch.sentClose
  <2>1. 1 \in DOMAIN tail /\ tail[1] = p
    BY <1>1, <1>2
  <2> QED
    BY <1>1, <2>1 DEF Good, Owned, Shut
<1>6. \/ /\ p.by = "begin" /\ UNCHANGED muxVars
         /\ Become([done EXCEPT !.ch.begin = IF @ = "opening" THEN "awaitOpened" ELSE "awaitReply"])
      \/ /\ p.by = "writer" /\ UNCHANGED muxVars
         /\ Become(IF writable.left > 0 THEN [done EXCEPT !.writable.at = "check"]
                   ELSE WriteEnded(done, "writable"))
      \/ /\ p.by = "pull" /\ UNCHANGED muxVars /\ Become(PullDone(done))
      \/ /\ p.by \in Closer /\ UNCHANGED muxVars /\ Become(Advanced(p.by, done))
      \/ /\ reader = "write" /\ Become(done) /\ reader' = "read" /\ UNCHANGED <<inMap, terminal>>
      \/ /\ reader = "close" /\ FinishClose(done)
  BY DEF WriteDone
<1> HIDE DEF p, done
<1>7. ASSUME NEW x, g(x), Become(x), UNCHANGED muxVars PROVE IInv'
  <2>1. Now' = x
    BY <1>7, BecomeNow DEF Good, Typed
  <2> QED
    BY <1>2, <1>7, <2>1 DEF IInv, muxVars
<1>8. CASE /\ p.by = "begin" /\ UNCHANGED muxVars
           /\ Become([done EXCEPT !.ch.begin = IF @ = "opening" THEN "awaitOpened" ELSE "awaitReply"])
  BY <1>4, <1>5, <1>7, <1>8, BegunGood
<1>9. CASE /\ p.by = "writer" /\ UNCHANGED muxVars
           /\ Become(IF writable.left > 0 THEN [done EXCEPT !.writable.at = "check"]
                     ELSE WriteEnded(done, "writable"))
  <2>1. g([done EXCEPT !.writable.at = "check"])
    BY <1>4, <1>5, <1>9, CheckGood
  <2>2. g(WriteEnded(done, "writable"))
    BY <1>4, <1>5, <1>9, WriteEndedGood
  <2> QED
    BY <1>7, <1>9, <2>1, <2>2
<1>10. CASE p.by = "pull" /\ UNCHANGED muxVars /\ Become(PullDone(done))
  BY <1>4, <1>7, <1>10, PullDoneGood
<1>11. CASE p.by \in Closer /\ UNCHANGED muxVars /\ Become(Advanced(p.by, done))
  <2>1. g(Advanced(p.by, done))
    BY <1>4, <1>5, <1>11, AdvancedGood
  <2> QED
    BY <1>7, <1>11, <2>1
<1>12. CASE reader = "write" /\ Become(done) /\ reader' = "read" /\ UNCHANGED <<inMap, terminal>>
  <2>1. Now' = done
    BY <1>4, <1>12, BecomeNow DEF Good, Typed
  <2>2. Good(done, inMap, terminal, "read", client, FALSE, srv, inbox)
    BY <1>4, ReaderGood
  <2> QED
    BY <1>2, <1>12, <2>1, <2>2 DEF IInv
<1>13. CASE reader = "close" /\ FinishClose(done)
  <2>1. done.ch.receivedClose /\ done.ch.sentClose
    BY <1>4, <1>13 DEF Good, Released
  <2>2. Good(Now', inMap', terminal', reader', client, FALSE, srv, inbox)
    BY <1>4, <1>13, <2>1, FinishCloseGood
  <2> QED
    BY <1>2, <2>2 DEF IInv
<1> QED
  BY <1>6, <1>8, <1>9, <1>10, <1>11, <1>12, <1>13

\* The tail is dropped with the connection.
Drops(s, t) ==
  /\ t \in State /\ t.tail = <<>> /\ t.ch = s.ch
  /\ t.readable.state = s.readable.state /\ t.readable.queued = s.readable.queued
  /\ t.writable.at = s.writable.at \/ (s.writable.at # "idle" /\ t.writable.at # "idle")
\* The failure of a write empties the tail of a dead client, and keeps the invariant.
LEMMA DropsGood ==
  ASSUME NEW s, NEW e, NEW r, NEW c, NEW f, NEW v, NEW q,
         Good(s, FALSE, e, r, c, f, v, q), e # "no", NEW t, Drops(s, t)
  PROVE  Good(t, FALSE, e, r, c, FALSE, v, q)
<1>1. Waiting(t, FALSE) = <<>>
  BY DEF Waiting, Drops
<1>2. Typed(t, FALSE, e, r, c, FALSE, v, q)
  BY DEF Good, Typed, Drops
<1>3. Released(t, FALSE, e, r, FALSE, v, q)
  BY DEF Good, Released, Drops
<1>4. Started(t, c)
  BY DEF Good, Started, Drops
<1>5. Owned(t)
  BY DEF Owned, Drops
<1>6. Flags(t, c, v)
  BY DEF Good, Flags, MayEof, Drops
<1>7. Shut(t, e, FALSE, v)
  <2>1. DOMAIN <<>> = {}
    OBVIOUS
  <2>2. Last(<<>>, v)
    BY <2>1 DEF Last
  <2> QED
    BY <1>1, <2>1, <2>2 DEF Shut, Drops
<1>8. Windows(t, FALSE, e, FALSE, v, q)
  <2> DEFINE a == Bytes(q, {"data"})
             x == Bytes(Waiting(s, f), {"ADJUST"})
  <2>1. s \in State /\ f \in BOOLEAN /\ (f => s.tail # <<>>) /\ q \in Seq(Messages) /\ v \in ServerState
    BY DEF Good, Typed
  <2>2. Waiting(s, f) \in Seq(Packets)
    BY <2>1, WaitingSeq
  <2>3. (\A z \in Packets : z.n \in Nat) /\ \A z \in Messages : z.n \in Nat
    BY DEF Packets, Messages
  <2>4. a \in Nat /\ x \in Nat
    BY <2>1, <2>2, <2>3, BytesNat
  <2>5. v.window \in Nat /\ s.ch.receiveWindow \in Nat
    BY <2>1, SftpAssumption DEF State, ChannelState, ServerState
  <2>6. v.window + a + x <= s.ch.receiveWindow
    BY DEF Good, Windows
  <2> HIDE DEF a, x
  <2>7. v.window + a + 0 <= s.ch.receiveWindow
    BY <2>4, <2>5, <2>6
  <2>8. /\ s.ch.receiveWindow + s.readable.queued <= Window
        /\ ~s.ch.remote => s.ch.remoteWindow = 0
        /\ "confirm" \notin v.sent => v.granted = 0
    BY DEF Good, Windows
  <2>9. Bytes(<<>>, {"ADJUST"}) = 0
    BY BytesEmpty
  <2> QED
    BY <1>1, <2>7, <2>8, <2>9 DEF Windows, Drops, a
<1>9. Answers(t, FALSE, v, q)
  <2>1. Requested(t, v)
    BY DEF Good, Answers, Requested, Drops
  <2> QED
    BY <2>1 DEF Good, Answers, Ordered, Drops
<1> QED
  BY <1>2, <1>3, <1>4, <1>5, <1>6, <1>7, <1>8, <1>9 DEF Good

\* The transport refuses the head: the connection ends, and every owner hears of it.
LEMMA WriteFailKeeps == ASSUME IInv, WriteFail PROVE IInv'
<1> DEFINE owners == {tail[i].by : i \in DOMAIN tail}
           fatal == AfterFatal(Now, inMap)
           failed == [fatal EXCEPT
                        !.tail = <<>>,
                        !.closer = [k \in Closer |-> IF k \in owners THEN "failed" ELSE @[k]],
                        !.readable.pulling = @ /\ "pull" \notin owners,
                        !.readable.pullAgain = @ /\ "pull" \notin owners,
                        !.writable.at = IF "writer" \in owners THEN "throw" ELSE @]
           next == IF "begin" \in owners THEN CatchBegin(failed) ELSE failed
           e == IF terminal = "no" THEN "transport" ELSE terminal
           x == IF "reader" \in owners THEN "stopped" ELSE reader
<1>1. /\ Now.tail = tail /\ Now.writable = writable
      /\ Good(Now, inMap, terminal, reader, client, flushed, srv, inbox)
  BY OfNow
<1>2. /\ Become(next) /\ inMap' = (inMap /\ terminal # "no") /\ terminal' = e
      /\ flushed' = FALSE /\ reader' = x /\ client' = client /\ srv' = srv /\ inbox' = inbox
  BY DEF WriteFail
<1>3. inMap' = FALSE
  BY <1>1, <1>2 DEF Good, Released, Typed
<1>4. x \in {"read", "write", "close", "stopped"} /\ (x = "close" => reader = "close")
  BY <1>1 DEF Good, Typed
<1>5. Good(fatal, FALSE, e, x, client, flushed, srv, inbox) /\ e # "no"
  <2>1. "transport" \in Reason
    BY DEF Reason
  <2> HIDE DEF x
  <2>2. Good(fatal, FALSE, e, x, client, flushed, srv, inbox)
    BY <1>1, <1>4, <2>1, FatalGood
  <2> QED
    BY <2>2
<1>6. "writer" \in owners => fatal.writable.at # "idle"
  <2>1. "writer" \in owners => writable.at = "write"
    BY <1>1 DEF Good, Owned
  <2>2. fatal = Now \/ fatal = Terminated(Now)
    BY DEF AfterFatal
  <2>3. Breaks(Now, Terminated(Now))
    BY <1>1, TerminatedBreaks DEF Good, Typed
  <2>4. writable.at = "write" => fatal.writable.at = "write"
    BY <1>1, <2>2, <2>3 DEF Breaks
  <2> QED
    BY <2>1, <2>4
<1>7. \/ "begin" \in owners \/ "begin" \notin owners
  OBVIOUS
<1> DEFINE h == [fatal.readable EXCEPT !.pulling = @ /\ "pull" \notin owners,
                                       !.pullAgain = @ /\ "pull" \notin owners]
           b == [fatal.writable EXCEPT !.at = IF "writer" \in owners THEN "throw" ELSE @]
           y == [k \in Closer |-> IF k \in owners THEN "failed" ELSE fatal.closer[k]]
<1>8. failed = [fatal EXCEPT !.tail = <<>>, !.closer = y, !.readable = h, !.writable = b]
  BY <1>5 DEF Good, Typed, State
<1> HIDE DEF owners, fatal, e, x
<1>9. fatal \in State /\ fatal.readable \in ReadableState /\ fatal.writable \in WritableState
  BY <1>5 DEF Good, Typed, State
<1>10. h \in ReadableState /\ h.state = fatal.readable.state /\ h.queued = fatal.readable.queued
  BY <1>9 DEF ReadableState
<1>11. b \in WritableState /\ (b.at = fatal.writable.at \/ (fatal.writable.at # "idle" /\ b.at # "idle"))
  <2> DEFINE z == IF "writer" \in owners THEN "throw" ELSE fatal.writable.at
  <2>1. b = [fatal.writable EXCEPT !.at = z]
    OBVIOUS
  <2>2. z \in {"idle", "check", "window", "write", "throw"}
    BY <1>9 DEF WritableState
  <2>3. z = fatal.writable.at \/ (fatal.writable.at # "idle" /\ z # "idle")
    BY <1>6
  <2> HIDE DEF z, b
  <2>4. b \in WritableState /\ b.at = z
    BY <1>9, <2>1, <2>2 DEF WritableState
  <2> QED
    BY <2>3, <2>4
<1>12. y \in [Closer -> Stage]
  BY <1>9 DEF State, Stage
<1>13. <<>> \in Seq(Packets)
  OBVIOUS
<1> HIDE DEF h, b, y, failed
<1>14. Drops(fatal, failed)
  BY <1>8, <1>9, <1>10, <1>11, <1>12, <1>13 DEF Drops, State
<1>15. Good(failed, FALSE, e, x, client, FALSE, srv, inbox)
  BY <1>5, <1>14, DropsGood
<1>16. NoPacketOf(failed, "begin") /\ failed.ch.closed
  BY <1>14, <1>15 DEF NoPacketOf, Drops, Good, Released
<1>17. Good(CatchBegin(failed), FALSE, e, x, client, FALSE, srv, inbox)
  BY <1>15, <1>16, CatchBeginGood
<1>18. Good(next, FALSE, e, x, client, FALSE, srv, inbox)
  BY <1>15, <1>17
<1> HIDE DEF next
<1>19. Now' = next
  BY <1>2, <1>18, BecomeNow DEF Good, Typed
<1> QED
  BY <1>2, <1>3, <1>18, <1>19 DEF IInv

-----------------------------------------------------------------------------
(* The read loop.                                                          *)

\* Bytes of messages are numbers, and the head of the inbox adds its weight.
LEMMA InboxBytes ==
  ASSUME NEW q \in Seq(Messages), q # <<>>, NEW types
  PROVE  /\ Bytes(q, types) = Weight(Head(q), types) + Bytes(Tail(q), types)
         /\ Bytes(Tail(q), types) \in Nat /\ Weight(Head(q), types) \in Nat
<1>1. \A z \in Messages : z.n \in Nat
  BY DEF Messages
<1>2. Tail(q) \in Seq(Messages) /\ Head(q) \in Messages
  BY ShrinksTail
<1>3. Weight(Head(q), types) \in Nat
  BY <1>1, <1>2 DEF Weight
<1> QED
  BY <1>1, <1>2, <1>3, BytesNat, BytesTail

\* What is left in the inbox is in order.
LEMMA OrderedTail ==
  ASSUME NEW s, NEW v, NEW q, NEW u, NEW x, Shrinks(q, u, x), NEW m, Ordered(s, m, v, q)
  PROVE  Ordered(s, FALSE, v, u)
<1> SUFFICES ASSUME NEW i \in DOMAIN u
             PROVE  /\ u[i].type \in v.sent
                    /\ u[i].type \in {"confirm", "adjust"} => u[i].n \in Grants
                    /\ u[i].type \in {"close", "openFailure"} => i = Len(u)
                    /\ u[i].type = "eof" => ~s.ch.receivedEof
                    /\ u[i].type \notin {"data", "adjust"} =>
                         \A j \in DOMAIN u : u[j].type = u[i].type => i = j
  BY DEF Ordered
<1>1. i + 1 \in DOMAIN q /\ q[i + 1] = u[i]
  BY DEF Shrinks
<1>2. /\ q[i + 1].type \in v.sent
      /\ q[i + 1].type \in {"confirm", "adjust"} => q[i + 1].n \in Grants
      /\ q[i + 1].type \in {"close", "openFailure"} => i + 1 = Len(q)
      /\ q[i + 1].type = "eof" => ~s.ch.receivedEof
      /\ q[i + 1].type \notin {"data", "adjust"} =>
           \A j \in DOMAIN q : q[j].type = q[i + 1].type => i + 1 = j
  BY <1>1 DEF Ordered
<1>3. i + 1 = Len(q) => i = Len(u)
  <2>1. Len(q) = Len(u) + 1 /\ Len(u) \in Nat /\ (1 < i + 1)
    BY DEF Shrinks
  <2>2. DOMAIN u = 1 .. Len(u) \/ i \in Int
    OBVIOUS
  <2> QED
    BY <2>1, <2>2
<1>4. ASSUME NEW j \in DOMAIN u, u[j].type = u[i].type, u[i].type \notin {"data", "adjust"}
      PROVE  i = j
  <2>1. j + 1 \in DOMAIN q /\ q[j + 1] = u[j]
    BY DEF Shrinks
  <2>2. i + 1 = j + 1
    BY <1>1, <1>2, <1>4, <2>1
  <2> QED
    BY <2>2 DEF Shrinks
<1> QED
  BY <1>1, <1>2, <1>3, <1>4

\* A message is dropped with the connection.
LEMMA PopDead ==
  ASSUME NEW s, NEW e, NEW r, NEW c, NEW f, NEW v, NEW q,
         Good(s, FALSE, e, r, c, f, v, q), e # "no", q # <<>>
  PROVE  Good(s, FALSE, e, r, c, f, v, Tail(q))
<1> DEFINE u == Tail(q)
<1>1. q \in Seq(Messages) /\ v \in ServerState /\ s \in State /\ f \in BOOLEAN /\ (f => s.tail # <<>>)
  BY DEF Good, Typed
<1>2. u \in Seq(Messages) /\ Shrinks(q, u, Head(q))
  BY <1>1, ShrinksTail
<1>3. \A types : /\ Bytes(q, types) = Weight(Head(q), types) + Bytes(u, types)
                 /\ Bytes(u, types) \in Nat /\ Weight(Head(q), types) \in Nat
  BY <1>1, InboxBytes
<1> HIDE DEF u
<1>4. Typed(s, FALSE, e, r, c, f, v, u)
  BY <1>2 DEF Good, Typed
<1>5. Released(s, FALSE, e, r, f, v, u)
  BY DEF Good, Released
<1>6. Windows(s, FALSE, e, f, v, u)
  <2> DEFINE a == Bytes(u, {"data"})
             h == Weight(Head(q), {"data"})
             x == Bytes(Waiting(s, f), {"ADJUST"})
  <2>1. a \in Nat /\ h \in Nat /\ Bytes(q, {"data"}) = h + a
    BY <1>3
  <2>2. x \in Nat
    <3>1. Waiting(s, f) \in Seq(Packets) /\ \A z \in Packets : z.n \in Nat
      BY <1>1, WaitingSeq DEF Packets
    <3> QED
      BY <3>1, BytesNat
  <2>3. v.window \in Nat /\ s.ch.receiveWindow \in Nat
    BY <1>1, SftpAssumption DEF State, ChannelState, ServerState
  <2> HIDE DEF a, h, x
  <2>4. v.window + (h + a) + x <= s.ch.receiveWindow
    BY <2>1 DEF Good, Windows, x
  <2>5. v.window + a + x <= s.ch.receiveWindow
    BY <2>1, <2>2, <2>3, <2>4
  <2> QED
    BY <2>5 DEF Good, Windows, a, x
<1>7. Answers(s, FALSE, v, u)
  BY <1>2, OrderedTail DEF Good, Answers
<1>8. Good(s, FALSE, e, r, c, f, v, u)
  BY <1>4, <1>5, <1>6, <1>7 DEF Good
<1> QED
  BY <1>8 DEF u

\* What the channel makes of a message x that it accepts.
Reads(s, t, x) ==
  /\ t \in State /\ t.tail = s.tail /\ t.readable.state = s.readable.state
  /\ t.ch.begin = s.ch.begin /\ t.ch.ready = s.ch.ready /\ t.ch.closed = s.ch.closed
  /\ t.ch.closing = s.ch.closing /\ t.ch.cancelled = s.ch.cancelled
  /\ t.ch.sentEof = s.ch.sentEof /\ t.ch.sentClose = s.ch.sentClose
  /\ t.writable.at = s.writable.at \/ (s.writable.at = "window" /\ t.writable.at = "check")
  /\ t.ch.remote <=> s.ch.remote \/ x.type = "confirm"
  /\ t.ch.opened = s.ch.opened \/ (x.type = "confirm" /\ t.ch.opened = "resolved")
  /\ t.ch.reply = s.ch.reply \/ (x.type \in {"success", "failure"} /\ t.ch.reply \in {"resolved", "rejected"})
  /\ t.ch.receivedEof <=> s.ch.receivedEof \/ x.type = "eof"
  /\ t.ch.receivedClose <=> s.ch.receivedClose \/ x.type = "close"
  /\ t.ch.remoteWindow = s.ch.remoteWindow + Weight(x, {"confirm", "adjust"})
  /\ t.ch.receiveWindow + Weight(x, {"data"}) = s.ch.receiveWindow
  /\ t.readable.queued = s.readable.queued + Weight(x, {"data"})

\* The bytes of a message that is read move from the inbox into the channel.
LEMMA ReadsWindows ==
  ASSUME NEW s, NEW t, NEW r, NEW c, NEW f, NEW v, NEW q, Good(s, TRUE, "no", r, c, f, v, q),
         q # <<>>, Reads(s, t, Head(q))
  PROVE  Windows(t, TRUE, "no", f, v, Tail(q))
<1> DEFINE u == Tail(q)
           x == Head(q)
<1>1. q \in Seq(Messages) /\ v \in ServerState /\ s \in State /\ f \in BOOLEAN /\ (f => s.tail # <<>>)
  BY DEF Good, Typed
<1>2. Shrinks(q, u, x)
  BY <1>1, ShrinksTail
<1>3. \A types : /\ Bytes(q, types) = Weight(x, types) + Bytes(u, types)
                 /\ Bytes(u, types) \in Nat /\ Weight(x, types) \in Nat
  BY <1>1, InboxBytes
<1> HIDE DEF u, x
<1>4. t \in State /\ Waiting(t, f) = Waiting(s, f)
  BY DEF Waiting, Reads
<1>5. /\ t.ch.remoteWindow = s.ch.remoteWindow + Weight(x, {"confirm", "adjust"})
      /\ t.ch.receiveWindow + Weight(x, {"data"}) = s.ch.receiveWindow
      /\ t.readable.queued = s.readable.queued + Weight(x, {"data"})
  BY DEF Reads, x
<1> DEFINE a == Bytes(u, {"data"})
           b == Bytes(u, {"confirm", "adjust"})
           h == Weight(x, {"data"})
           i == Weight(x, {"confirm", "adjust"})
           y == Bytes(Waiting(s, f), {"ADJUST"})
           z == Bytes(Waiting(s, f), {"DATA"})
<1>6. /\ a \in Nat /\ b \in Nat /\ h \in Nat /\ i \in Nat
      /\ Bytes(q, {"data"}) = h + a /\ Bytes(q, {"confirm", "adjust"}) = i + b
  BY <1>3
<1>7. y \in Nat /\ z \in Nat
  <2>1. Waiting(s, f) \in Seq(Packets) /\ \A w \in Packets : w.n \in Nat
    BY <1>1, WaitingSeq DEF Packets
  <2> QED
    BY <2>1, BytesNat
<1>8. /\ v.window \in Nat /\ v.received \in Nat /\ v.granted \in Nat
      /\ s.ch.receiveWindow \in Nat /\ s.ch.remoteWindow \in Nat /\ s.readable.queued \in Nat
      /\ t.ch.receiveWindow \in Nat /\ t.ch.remoteWindow \in Nat /\ t.readable.queued \in Nat
      /\ Window \in Nat
  BY <1>1, <1>4, SftpAssumption, SMTT(60) DEF State, ChannelState, ServerState, ReadableState
<1> HIDE DEF a, b, h, i, y, z
<1>9. /\ v.window + (h + a) + y = s.ch.receiveWindow
      /\ s.ch.remoteWindow + z + v.received + (i + b) = v.granted
      /\ s.ch.receiveWindow + s.readable.queued <= Window
  BY <1>6 DEF Good, Windows, y, z
<1>10. /\ t.ch.remoteWindow = s.ch.remoteWindow + i /\ t.ch.receiveWindow + h = s.ch.receiveWindow
       /\ t.readable.queued = s.readable.queued + h
  BY <1>5 DEF h, i
<1>11. v.window + a + y = t.ch.receiveWindow
  <2>1. \A k, l, w \in Nat : w + (h + a) + y = k /\ l + h = k => w + a + y = l
    BY <1>6, <1>7
  <2> QED
    BY <1>8, <1>9, <1>10, <2>1
<1>12. t.ch.remoteWindow + z + v.received + b = v.granted
  <2>1. \A k, l, w, n \in Nat : k + z + w + (i + b) = n /\ l = k + i => l + z + w + b = n
    BY <1>6, <1>7
  <2> QED
    BY <1>8, <1>9, <1>10, <2>1
<1>13. t.ch.receiveWindow + t.readable.queued <= Window
  BY <1>6, <1>8, <1>9, <1>10, SMTT(60)
<1>14. ~t.ch.remote => t.ch.remoteWindow = 0
  <2> SUFFICES ASSUME ~t.ch.remote PROVE t.ch.remoteWindow = 0
    OBVIOUS
  <2>1. ~s.ch.remote /\ x.type # "confirm"
    BY DEF Reads, x
  <2>2. 1 \in DOMAIN q /\ q[1] = x
    BY <1>2 DEF Shrinks
  <2>3. x.type # "adjust"
    <3>1. ~Confirmed(s, q, 1)
      <4>1. \A j \in DOMAIN q : ~(j < 1)
        <5>1. DOMAIN q = 1 .. Len(q)
          BY <1>1
        <5> QED
          BY <5>1
      <4> QED
        BY <2>1, <4>1 DEF Confirmed
    <3>2. q[1].type \notin {"confirm", "openFailure"} => Confirmed(s, q, 1)
      BY <2>2 DEF Good, Answers, Ordered
    <3> QED
      BY <2>2, <3>1, <3>2
  <2>4. i = 0 /\ s.ch.remoteWindow = 0
    BY <2>1, <2>3 DEF i, Weight, Good, Windows
  <2> QED
    BY <1>8, <1>10, <2>4
<1>15. "confirm" \notin v.sent => v.granted = 0
  BY DEF Good, Windows
<1>16. v.window + a + y <= t.ch.receiveWindow
  BY <1>8, <1>11
<1> QED
  BY <1>4, <1>11, <1>12, <1>13, <1>14, <1>15, <1>16 DEF Windows, a, b, y, z, u

\* The messages behind it are in order still.
LEMMA ReadsOrdered ==
  ASSUME NEW s, NEW t, NEW r, NEW c, NEW f, NEW v, NEW q, Good(s, TRUE, "no", r, c, f, v, q),
         q # <<>>, Reads(s, t, Head(q)), Head(q).type # "openFailure"
  PROVE  Answers(t, TRUE, v, Tail(q))
<1> DEFINE u == Tail(q)
           x == Head(q)
<1>1. q \in Seq(Messages)
  BY DEF Good, Typed
<1>2. Shrinks(q, u, x) /\ u \in Seq(Messages)
  BY <1>1, ShrinksTail
<1>3. Reads(s, t, x) /\ x.type # "openFailure"
  OBVIOUS
<1> HIDE DEF u, x
<1>4. /\ Ordered(s, TRUE, v, q) /\ Sent(v) /\ Requested(s, v)
      /\ "confirm" \in v.sent => Confirmed(s, q, Len(q) + 1)
      /\ s.ch.receivedEof => "eof" \in v.sent
      /\ s.ch.reply \in {"resolved", "rejected"} => v.sent \cap {"success", "failure"} # {}
  BY DEF Good, Answers
<1>5. 1 \in DOMAIN q /\ q[1] = x /\ x.type \in v.sent
  BY <1>2, <1>4 DEF Shrinks, Ordered
<1>6. Requested(t, v)
  BY <1>3, <1>4, <1>5 DEF Reads, Requested
<1>7. ASSUME NEW i, Confirmed(s, q, i + 1), \A j \in DOMAIN u : j + 1 < i + 1 => j < i
      PROVE  Confirmed(t, u, i)
  <2>1. CASE s.ch.remote \/ x.type = "confirm"
    BY <1>3, <2>1 DEF Reads, Confirmed
  <2>2. CASE ~s.ch.remote /\ x.type # "confirm"
    <3>1. PICK j \in DOMAIN q : j < i + 1 /\ q[j].type = "confirm"
      BY <1>7, <2>2 DEF Confirmed
    <3>2. j # 1
      BY <1>5, <2>2, <3>1
    <3>3. PICK k \in DOMAIN u : j = k + 1
      BY <1>2, <3>2 DEF Shrinks
    <3>4. u[k].type = "confirm" /\ k < i
      BY <1>2, <1>7, <3>1, <3>3 DEF Shrinks
    <3> QED
      BY <3>4 DEF Confirmed
  <2> QED
    BY <2>1, <2>2
<1>8. \A i, j \in DOMAIN u : j + 1 < i + 1 => j < i
  BY <1>2 DEF Shrinks
<1>9. Ordered(s, FALSE, v, u)
  BY <1>2, <1>4, OrderedTail
<1>10. Ordered(t, TRUE, v, u)
  <2> SUFFICES ASSUME NEW i \in DOMAIN u
               PROVE  /\ u[i].type \in v.sent
                      /\ u[i].type \in {"confirm", "adjust"} => u[i].n \in Grants
                      /\ u[i].type \in {"close", "openFailure"} => i = Len(u)
                      /\ u[i].type = "confirm" => ~t.ch.remote
                      /\ u[i].type \notin {"confirm", "openFailure"} => Confirmed(t, u, i)
                      /\ u[i].type = "eof" => ~t.ch.receivedEof
                      /\ u[i].type \in {"success", "failure"} => t.ch.reply = "pending"
                      /\ u[i].type \notin {"data", "adjust"} =>
                           \A j \in DOMAIN u : u[j].type = u[i].type => i = j
    BY DEF Ordered
  <2>1. i + 1 \in DOMAIN q /\ q[i + 1] = u[i] /\ i + 1 # 1
    BY <1>2 DEF Shrinks
  <2>2. /\ u[i].type = "confirm" => ~s.ch.remote
        /\ u[i].type \notin {"confirm", "openFailure"} => Confirmed(s, q, i + 1)
        /\ u[i].type = "eof" => ~s.ch.receivedEof
        /\ u[i].type \in {"success", "failure"} => s.ch.reply = "pending"
    BY <1>4, <2>1 DEF Ordered
  <2>3. x.type = u[i].type => x.type \in {"data", "adjust"}
    BY <1>4, <1>5, <2>1 DEF Ordered
  <2>4. u[i].type \in {"success", "failure"} => x.type \notin {"success", "failure"}
    <3>1. u[i].type \in v.sent /\ x.type \in v.sent
      BY <1>5, <1>9 DEF Ordered
    <3>2. ~({"success", "failure"} \subseteq v.sent)
      BY <1>4 DEF Sent
    <3> QED
      BY <2>3, <3>1, <3>2
  <2>5. u[i].type = "confirm" => ~t.ch.remote
    BY <1>3, <2>2, <2>3 DEF Reads
  <2>6. u[i].type \notin {"confirm", "openFailure"} => Confirmed(t, u, i)
    BY <1>7, <1>8, <2>2
  <2>7. u[i].type = "eof" => ~t.ch.receivedEof
    BY <1>3, <2>2, <2>3 DEF Reads
  <2>8. u[i].type \in {"success", "failure"} => t.ch.reply = "pending"
    BY <1>3, <2>2, <2>4 DEF Reads
  <2> QED
    BY <1>9, <2>5, <2>6, <2>7, <2>8 DEF Ordered
<1>11. "confirm" \in v.sent => Confirmed(t, u, Len(u) + 1)
  <2>1. Len(q) = Len(u) + 1 /\ Len(u) \in Nat /\ DOMAIN u = 1 .. Len(u)
    BY <1>2 DEF Shrinks
  <2>2. "confirm" \in v.sent => Confirmed(s, q, (Len(u) + 1) + 1)
    BY <1>4, <2>1
  <2>3. \A j \in DOMAIN u : j + 1 < (Len(u) + 1) + 1 => j < Len(u) + 1
    BY <2>1
  <2> QED
    BY <1>7, <2>2, <2>3
<1>12. t.ch.receivedEof => "eof" \in v.sent
  BY <1>3, <1>4, <1>5 DEF Reads
<1>13. t.ch.reply \in {"resolved", "rejected"} => v.sent \cap {"success", "failure"} # {}
  BY <1>3, <1>4, <1>5 DEF Reads
<1> QED
  BY <1>4, <1>6, <1>10, <1>11, <1>12, <1>13 DEF Answers, u

\* A message that is read and only recorded keeps the invariant.
LEMMA ReadGood ==
  ASSUME NEW s, NEW t, NEW r, NEW c, NEW f, NEW v, NEW q, Good(s, TRUE, "no", r, c, f, v, q),
         q # <<>>, Reads(s, t, Head(q)), Head(q).type # "openFailure"
  PROVE  Good(t, TRUE, "no", r, c, f, v, Tail(q))
<1> DEFINE u == Tail(q)
           x == Head(q)
<1>1. q \in Seq(Messages)
  BY DEF Good, Typed
<1>2. Shrinks(q, u, x) /\ u \in Seq(Messages)
  BY <1>1, ShrinksTail
<1>3. Reads(s, t, x) /\ Windows(t, TRUE, "no", f, v, u) /\ Answers(t, TRUE, v, u)
  BY ReadsWindows, ReadsOrdered
<1> HIDE DEF u, x
<1>4. Waiting(t, f) = Waiting(s, f)
  BY <1>3 DEF Waiting, Reads
<1>5. 1 \in DOMAIN q /\ q[1] = x
  BY <1>2 DEF Shrinks
<1>6. Typed(t, TRUE, "no", r, c, f, v, u)
  BY <1>2, <1>3 DEF Good, Typed, Reads
<1>7. Released(t, TRUE, "no", r, f, v, u)
  <2>1. x.type \in v.sent /\ (x.type = "close" => 1 = Len(q))
    BY <1>5 DEF Good, Answers, Ordered
  <2>2. x.type = "close" => u = <<>>
    <3>1. x.type = "close" => Len(u) = 0
      BY <1>2, <2>1 DEF Shrinks
    <3> QED
      BY <1>2, <3>1
  <2>3. ~s.ch.receivedClose
    BY DEF Good, Released
  <2>4. r # "close"
    BY <2>3 DEF Good, Released
  <2> QED
    BY <1>3, <1>4, <2>1, <2>2, <2>3, <2>4 DEF Good, Released, Reads
<1>8. Started(t, c)
  <2>1. x.type \in v.sent
    BY <1>5 DEF Good, Answers, Ordered
  <2>2. x.type \in {"success", "failure"} => s.ch.remote
    BY <2>1 DEF Good, Answers, Sent, Requested
  <2> QED
    BY <1>3, <2>2 DEF Good, Started, Reads
<1>9. Owned(t)
  BY <1>3 DEF Good, Owned, Reads
<1>10. Flags(t, c, v)
  BY <1>3 DEF Good, Flags, MayEof, Reads
<1>11. Shut(t, "no", f, v)
  BY <1>3, <1>4 DEF Good, Shut, Reads
<1> QED
  BY <1>3, <1>6, <1>7, <1>8, <1>9, <1>10, <1>11 DEF Good, u

\* A message that the channel accepts, and that the step takes from the inbox.
Accepts(x) ==
  /\ Good(Now, TRUE, "no", "read", client, flushed, srv, inbox)
  /\ inbox # <<>> /\ Head(inbox) = x /\ x \in Messages /\ x.type \in srv.sent
  /\ x.type \in {"confirm", "adjust"} => x.n \in Grants
  /\ x.type = "openFailure" => Tail(inbox) = <<>>
  /\ inMap = TRUE /\ terminal = "no" /\ reader = "read" /\ Quiet
  /\ inbox' = Tail(inbox) /\ client' = client /\ flushed' = flushed /\ srv' = srv
\* The handlers read messages of a live client for a channel in the map.
LEMMA HandleAccepts ==
  ASSUME IInv, NEW types, Handle(types)
  PROVE  Accepts(msg) /\ msg.type \in types /\ RouteError = "no"
<1>1. /\ Good(Now, inMap, terminal, reader, client, flushed, srv, inbox)
  BY OfNow
<1>2. /\ Quiet /\ reader = "read" /\ inbox # <<>> /\ inbox' = Tail(inbox)
      /\ client' = client /\ flushed' = flushed /\ srv' = srv
      /\ msg.type \in types /\ RouteError = "no"
  BY DEF Handle, Receive
<1>3. inMap = TRUE
  <2>1. inMap
    BY <1>2 DEF RouteError
  <2> QED
    BY <1>1, <2>1 DEF Good, Typed
<1>4. terminal = "no"
  BY <1>1, <1>3 DEF Good, Released
<1>5. Good(Now, TRUE, "no", "read", client, flushed, srv, inbox)
  BY <1>1, <1>2, <1>3, <1>4
<1>6. inbox \in Seq(Messages)
  BY <1>1 DEF Good, Typed
<1>7. 1 \in DOMAIN inbox /\ inbox[1] = msg /\ msg \in Messages
  <2>1. inbox \in Seq(Messages) /\ inbox # <<>> /\ msg = Head(inbox)
    BY <1>2, <1>6 DEF msg
  <2> HIDE DEF msg
  <2> QED
    BY <2>1
<1>8. /\ msg.type \in srv.sent /\ (msg.type \in {"confirm", "adjust"} => msg.n \in Grants)
      /\ msg.type = "openFailure" => 1 = Len(inbox)
  BY <1>5, <1>7 DEF Good, Answers, Ordered
<1>9. 1 = Len(inbox) => Tail(inbox) = <<>>
  <2> DEFINE u == Tail(inbox)
  <2>1. u \in Seq(Messages) /\ Shrinks(inbox, u, Head(inbox))
    BY <1>2, <1>6, ShrinksTail
  <2> HIDE DEF u
  <2>2. Len(inbox) = Len(u) + 1 /\ Len(u) \in Nat
    BY <2>1 DEF Shrinks
  <2>3. 1 = Len(inbox) => Len(u) = 0
    BY <2>2
  <2>4. Len(u) = 0 => u = <<>>
    BY <2>1
  <2> QED
    BY <2>3, <2>4 DEF u
<1> QED
  BY <1>2, <1>3, <1>4, <1>5, <1>7, <1>8, <1>9 DEF Accepts, msg

\* A message that is read and leaves the read loop where it is.
LEMMA ReadKeeps ==
  ASSUME NEW x, Accepts(x), NEW s, Good(s, TRUE, "no", "read", client, flushed, srv, Tail(inbox)),
         Become(s), UNCHANGED muxVars
  PROVE  IInv'
<1>1. Now' = s
  BY BecomeNow DEF Good, Typed
<1>2. inMap' = TRUE /\ terminal' = "no" /\ reader' = "read"
  BY DEF Accepts, muxVars
<1> QED
  BY <1>1, <1>2 DEF IInv, Accepts

\* The transport fails while the read loop waits.
LEMMA ReadFailKeeps == ASSUME IInv, ReadFail PROVE IInv'
<1> DEFINE s == AfterFatal(Now, inMap)
           e == IF terminal = "no" THEN "transport" ELSE terminal
<1>1. Good(Now, inMap, terminal, reader, client, flushed, srv, inbox)
  BY OfNow
<1>2. /\ Become(s) /\ inMap' = (inMap /\ terminal # "no") /\ terminal' = e /\ reader' = "stopped"
      /\ client' = client /\ flushed' = flushed /\ srv' = srv /\ inbox' = inbox
  BY DEF ReadFail, Fatal, wireVars
<1>3. inMap' = FALSE
  BY <1>1, <1>2 DEF Good, Released, Typed
<1>4. "transport" \in Reason
  BY DEF Reason
<1>5. Good(s, FALSE, e, "stopped", client, flushed, srv, inbox)
  BY <1>1, <1>4, FatalGood
<1> HIDE DEF s, e
<1>6. Now' = s
  BY <1>2, <1>5, BecomeNow DEF Good, Typed
<1> QED
  BY <1>2, <1>3, <1>5, <1>6 DEF IInv

\* A message that is refused ends the connection.
LEMMA RecvErrorKeeps == ASSUME IInv, RecvError PROVE IInv'
<1> DEFINE s == AfterFatal(Now, inMap)
           e == IF terminal = "no" THEN RouteError ELSE terminal
<1>1. Good(Now, inMap, terminal, reader, client, flushed, srv, inbox)
  BY OfNow
<1>2. /\ Become(s) /\ inMap' = (inMap /\ terminal # "no") /\ terminal' = e /\ reader' = "stopped"
      /\ client' = client /\ flushed' = flushed /\ srv' = srv /\ inbox' = Tail(inbox)
      /\ inbox # <<>> /\ RouteError # "no"
  BY DEF RecvError, Receive, Fatal
<1>3. inMap' = FALSE
  BY <1>1, <1>2 DEF Good, Released, Typed
<1>4. RouteError \in Reason /\ e # "no"
  BY <1>2 DEF RouteError, Reason
<1>5. Good(s, FALSE, e, "stopped", client, flushed, srv, inbox)
  <2> DEFINE d == RouteError
  <2>1. d \in Reason
    BY <1>4
  <2> HIDE DEF d
  <2>2. Good(s, FALSE, IF terminal = "no" THEN d ELSE terminal, "stopped", client, flushed, srv, inbox)
    BY <1>1, <2>1, FatalGood
  <2> QED
    BY <2>2 DEF d
<1> HIDE DEF s, e
<1>6. Now' = s
  BY <1>2, <1>5, BecomeNow DEF Good, Typed
<1>7. Good(s, FALSE, e, "stopped", client, flushed, srv, Tail(inbox))
  BY <1>2, <1>4, <1>5, PopDead
<1> QED
  BY <1>2, <1>3, <1>6, <1>7 DEF IInv

\* The confirmation, answered with CLOSE when the open was cancelled.
LEMMA RecvConfirmationKeeps == ASSUME IInv, RecvConfirmation PROVE IInv'
<1> DEFINE s == Now
           x == msg
           o == Settle(ch.opened, "resolved")
           d == [ch EXCEPT !.remote = TRUE, !.remoteWindow = x.n, !.opened = o]
           t == [s EXCEPT !.ch.remote = TRUE, !.ch.remoteWindow = x.n,
                          !.ch.opened = Settle(@, "resolved")]
           u == Put([t EXCEPT !.ch.sentClose = TRUE], "CLOSE", 0, "reader")
           g(y) == Good(y, TRUE, "no", "read", client, flushed, srv, Tail(inbox))
<1>1. /\ s \in State /\ s.ch = ch /\ ch \in ChannelState /\ s.tail = tail
      /\ s.readable = readable /\ s.writable = writable /\ readable \in ReadableState
  BY OfNow
<1>2. Accepts(x) /\ x.type = "confirm" /\ RouteError = "no"
  BY HandleAccepts DEF RecvConfirmation
<1>3. /\ ~ch.remote /\ ~ch.receivedClose
  BY <1>2 DEF RouteError, Accepts
<1>4. /\ inMap' = inMap /\ terminal' = terminal
      /\ \/ ch.closing /\ Become(u) /\ reader' = "write"
         \/ ~ch.closing /\ Become(t) /\ reader' = reader
  BY DEF RecvConfirmation
<1> HIDE DEF s, x
<1>5. /\ ch.remoteWindow = 0 /\ ~ch.sentEof /\ ~ch.sentClose /\ client \in {"starting", "failed"}
      /\ writable.at = "idle" /\ (ch.closing => ch.cancelled)
  <2>1. Good(s, TRUE, "no", "read", client, flushed, srv, inbox)
    BY <1>2 DEF Accepts, s
  <2>2. /\ ch.remoteWindow = 0 /\ ~ch.sentEof /\ ~ch.sentClose
    BY <1>1, <1>3, <2>1 DEF Good, Windows, Flags
  <2>3. ~ch.closed
    BY <1>1, <2>1 DEF Good, Released
  <2>4. /\ client \in {"starting", "failed"} /\ writable.at = "idle"
        /\ ch.closing => ch.cancelled
    BY <1>1, <1>3, <2>1, <2>3 DEF Good, Started
  <2> QED
    BY <2>2, <2>4
<1>6. x.n \in 0 .. MaxWindow /\ x.n \in Nat /\ x.n = 0 + x.n
  BY <1>2, SftpAssumption DEF Accepts, Messages
<1>7. o \in Promise /\ (o = ch.opened \/ o = "resolved")
  BY <1>1 DEF ChannelState, Promise, Settle
<1>8. t = [s EXCEPT !.ch = d]
  BY <1>1 DEF ChannelState
<1> HIDE DEF o, t, u
<1>9. d \in ChannelState
  BY <1>1, <1>6, <1>7 DEF ChannelState
<1>10. /\ d.begin = ch.begin /\ d.ready = ch.ready /\ d.reply = ch.reply /\ d.opened = o
       /\ d.remote = TRUE /\ d.closed = ch.closed /\ d.remoteWindow = x.n
       /\ d.closing = ch.closing /\ d.sentEof = ch.sentEof /\ d.sentClose = ch.sentClose
       /\ d.cancelled = ch.cancelled /\ d.receivedEof = ch.receivedEof
       /\ d.receivedClose = ch.receivedClose /\ d.receiveWindow = ch.receiveWindow
  BY <1>1 DEF ChannelState
<1> HIDE DEF d
<1>11. t \in State /\ t.ch = d /\ t.tail = s.tail /\ t.readable = s.readable /\ t.writable = s.writable
  BY <1>1, <1>8, <1>9 DEF State
<1>12. Weight(x, {"confirm", "adjust"}) = x.n /\ Weight(x, {"data"}) = 0
  BY <1>2 DEF Weight
<1>13. Reads(s, t, x)
  <2>1. t.ch.remoteWindow = s.ch.remoteWindow + Weight(x, {"confirm", "adjust"})
    BY <1>1, <1>5, <1>6, <1>10, <1>11, <1>12
  <2>2. /\ t.ch.receiveWindow + Weight(x, {"data"}) = s.ch.receiveWindow
        /\ t.readable.queued = s.readable.queued + Weight(x, {"data"})
    <3>1. ch.receiveWindow \in Nat /\ readable.queued \in Nat
      BY <1>1, SftpAssumption DEF ChannelState, ReadableState
    <3> QED
      BY <1>1, <1>10, <1>11, <1>12, <3>1
  <2> QED
    BY <1>1, <1>2, <1>7, <1>10, <1>11, <2>1, <2>2 DEF Reads
<1>14. g(t)
  <2>1. Good(s, TRUE, "no", "read", client, flushed, srv, inbox) /\ inbox # <<>> /\ x = Head(inbox)
    BY <1>2 DEF Accepts, s
  <2>2. Head(inbox).type # "openFailure" /\ Reads(s, t, Head(inbox))
    BY <1>2, <1>13, <2>1
  <2> QED
    BY <2>1, <2>2, ReadGood
<1>15. CASE ~ch.closing /\ Become(t) /\ reader' = reader
  <2>1. UNCHANGED muxVars
    BY <1>4, <1>15 DEF muxVars
  <2> QED
    BY <1>2, <1>14, <1>15, <2>1, ReadKeeps
<1>16. CASE ch.closing /\ Become(u) /\ reader' = "write"
  <2>1. PutsClose(t, u, "reader")
    BY <1>11, PutCloseParts DEF u
  <2>2. client = "failed" /\ ch.cancelled
    <3>1. ch.cancelled => ch.ready # "pending"
      BY <1>1, <1>14, <1>10, <1>11 DEF Good, Started
    <3>2. ~(client = "starting" /\ ch.ready # "pending")
      BY <1>2 DEF Accepts, Quiet, Ready
    <3> QED
      BY <1>5, <1>16, <3>1, <3>2
  <2>3. Flags(u, client, srv)
    <3>1. /\ u.ch.closing /\ u.ch.remote /\ u.ch.sentEof = ch.sentEof /\ u.ch.cancelled
          /\ u.writable.at = "idle" /\ u.ch.sentClose
      BY <1>1, <1>5, <1>10, <1>11, <1>16, <2>1, <2>2 DEF PutsClose, Kept
    <3>2. "EOF" \in srv.got => ch.sentEof
      BY <1>10, <1>11, <1>14 DEF Good, Flags
    <3> QED
      BY <1>5, <2>2, <3>1, <3>2 DEF Flags
  <2>4. t.ch.remote /\ ~t.ch.sentClose
    BY <1>5, <1>10, <1>11
  <2>5. g(u)
    BY <1>14, <2>1, <2>3, <2>4, PutsCloseGood
  <2>6. Good(u, TRUE, "no", "write", client, flushed, srv, Tail(inbox))
    BY <2>5, ReaderGood
  <2>7. Now' = u
    BY <1>16, <2>5, BecomeNow DEF Good, Typed
  <2> QED
    BY <1>2, <1>4, <1>16, <2>6, <2>7 DEF IInv, Accepts
<1> QED
  BY <1>4, <1>15, <1>16

\* The refusal of the open.
LEMMA RecvOpenFailureKeeps == ASSUME IInv, RecvOpenFailure PROVE IInv'
<1> DEFINE s == Now
           x == msg
           o == Settle(ch.opened, "rejected")
           t == Broken([s EXCEPT !.ch.opened = Settle(@, "rejected")])
<1>1. s \in State /\ s.ch = ch /\ ch \in ChannelState
  BY OfNow
<1>2. Accepts(x) /\ x.type = "openFailure"
  BY HandleAccepts DEF RecvOpenFailure
<1>3. Become(t) /\ inMap' = FALSE /\ terminal' = terminal /\ reader' = reader
  BY DEF RecvOpenFailure
<1>4. Good(s, TRUE, "no", "read", client, flushed, srv, inbox) /\ inbox # <<>> /\ x = Head(inbox)
  BY <1>2 DEF Accepts
<1> HIDE DEF s, x
<1>5. Breaks(s, t)
  <2> DEFINE d == [ch EXCEPT !.opened = o]
  <2>1. o \in {s.ch.opened, "rejected"} /\ ch.reply \in Promise
    BY <1>1 DEF Settle, ChannelState
  <2>2. [s EXCEPT !.ch.opened = o, !.ch.reply = ch.reply] = [s EXCEPT !.ch.opened = Settle(@, "rejected")]
    <3>1. d = [d EXCEPT !.reply = ch.reply]
      BY <1>1 DEF ChannelState
    <3>2. [s EXCEPT !.ch.opened = o, !.ch.reply = ch.reply] = [s EXCEPT !.ch = [d EXCEPT !.reply = ch.reply]]
      BY <1>1 DEF State, ChannelState
    <3>3. [s EXCEPT !.ch.opened = Settle(@, "rejected")] = [s EXCEPT !.ch = d]
      BY <1>1
    <3> QED
      BY <3>1, <3>2, <3>3
  <2> HIDE DEF o
  <2>3. Breaks(s, Broken([s EXCEPT !.ch.opened = o, !.ch.reply = ch.reply]))
    BY <1>1, <2>1, BrokenBreaks
  <2> QED
    BY <2>2, <2>3
<1> HIDE DEF t
<1>6. Broke(s, t, "no", "read", client, flushed, srv, inbox)
  BY <1>4, <1>5, BreaksKeep
<1> DEFINE u == Tail(inbox)
<1>7. u = <<>> /\ "openFailure" \in srv.sent /\ u \in Seq(Messages) /\ inbox \in Seq(Messages)
  BY <1>2, <1>4 DEF Accepts, Good, Typed
<1>8. \A types : Bytes(inbox, types) = Weight(x, types) + Bytes(u, types) /\ Bytes(u, types) \in Nat
  BY <1>4, <1>7, InboxBytes
<1>9. /\ Bytes(inbox, {"data"}) = Bytes(u, {"data"})
      /\ Bytes(inbox, {"confirm", "adjust"}) = Bytes(u, {"confirm", "adjust"})
  <2>1. Weight(x, {"data"}) = 0 /\ Weight(x, {"confirm", "adjust"}) = 0
    BY <1>2 DEF Weight
  <2>2. \A n \in Nat : 0 + n = n
    OBVIOUS
  <2> QED
    BY <1>8, <2>1, <2>2
<1> HIDE DEF u
<1>10. Typed(t, FALSE, "no", "read", client, flushed, srv, u)
  BY <1>6, <1>7 DEF Broke, Typed
<1>11. Released(t, FALSE, "no", "read", flushed, srv, u)
  <2>1. s.ch.receivedClose => "close" \in srv.sent
    BY <1>4 DEF Good, Released
  <2> QED
    BY <1>5, <1>7, <2>1 DEF Released, Breaks, Gone
<1>12. Windows(t, FALSE, "no", flushed, srv, u)
  BY <1>6, <1>9 DEF Broke, Windows
<1>13. Answers(t, FALSE, srv, u)
  <2>1. Ordered(t, FALSE, srv, u)
    <3>1. DOMAIN u = {}
      BY <1>7
    <3> QED
      BY <3>1 DEF Ordered
  <2> QED
    BY <1>6, <2>1 DEF Broke, Answers
<1>14. Good(t, FALSE, "no", "read", client, flushed, srv, u)
  BY <1>6, <1>10, <1>11, <1>12, <1>13 DEF Broke, Good
<1>15. Now' = t
  BY <1>3, <1>14, BecomeNow DEF Good, Typed
<1> QED
  BY <1>2, <1>3, <1>14, <1>15 DEF IInv, Accepts, u

\* Messages that change one part of the channel.
LEMMA AcceptedGood ==
  ASSUME NEW x, Accepts(x), x.type # "openFailure", NEW t, Reads(Now, t, x)
  PROVE  Good(t, TRUE, "no", "read", client, flushed, srv, Tail(inbox))
<1>1. /\ Good(Now, TRUE, "no", "read", client, flushed, srv, inbox)
      /\ inbox # <<>> /\ x = Head(inbox)
  BY DEF Accepts
<1>2. Head(inbox).type # "openFailure" /\ Reads(Now, t, Head(inbox))
  BY <1>1
<1> QED
  BY <1>1, <1>2, ReadGood

\* An adjustment, after which a waiting #write looks again.
LEMMA RecvAdjustKeeps == ASSUME IInv, RecvAdjust PROVE IInv'
<1> DEFINE s == Now
           x == msg
           n == ch.remoteWindow + x.n
           d == [ch EXCEPT !.remoteWindow = n]
           b == [writable EXCEPT !.at = IF @ = "window" THEN "check" ELSE @]
           t == [s EXCEPT !.ch.remoteWindow = @ + x.n,
                          !.writable.at = IF @ = "window" THEN "check" ELSE @]
<1>1. /\ s \in State /\ s.ch = ch /\ ch \in ChannelState /\ s.tail = tail
      /\ s.readable = readable /\ s.writable = writable /\ readable \in ReadableState
      /\ writable \in WritableState
  BY OfNow
<1>2. Accepts(x) /\ x.type = "adjust" /\ RouteError = "no"
  BY HandleAccepts DEF RecvAdjust
<1>3. ~(x.n > MaxWindow - ch.remoteWindow)
  BY <1>2 DEF RouteError, Accepts
<1>4. Become(t) /\ UNCHANGED muxVars
  BY DEF RecvAdjust
<1> HIDE DEF s, x
<1>5. n \in 0 .. MaxWindow
  <2>1. x.n \in Nat /\ ch.remoteWindow \in Nat /\ MaxWindow \in Nat
    BY <1>1, <1>2, SftpAssumption DEF Accepts, Messages, ChannelState
  <2> QED
    BY <1>3, <2>1
<1>6. t = [s EXCEPT !.ch = d, !.writable = b]
  BY <1>1
<1>7. b \in WritableState /\ (b.at = writable.at \/ (writable.at = "window" /\ b.at = "check"))
  BY <1>1 DEF WritableState
<1> HIDE DEF t, b
<1>8. /\ d.begin = ch.begin /\ d.ready = ch.ready /\ d.reply = ch.reply /\ d.opened = ch.opened
      /\ d.remote = ch.remote /\ d.closed = ch.closed /\ d.remoteWindow = n
      /\ d.closing = ch.closing /\ d.sentEof = ch.sentEof /\ d.sentClose = ch.sentClose
      /\ d.cancelled = ch.cancelled /\ d.receivedEof = ch.receivedEof
      /\ d.receivedClose = ch.receivedClose /\ d.receiveWindow = ch.receiveWindow
  <2> HIDE DEF n
  <2> QED
    BY <1>1 DEF ChannelState
<1>9. d \in ChannelState
  <2> HIDE DEF n
  <2> QED
    BY <1>1, <1>5 DEF ChannelState
<1> HIDE DEF d
<1>10. t \in State /\ t.ch = d /\ t.tail = s.tail /\ t.readable = s.readable /\ t.writable = b
  BY <1>1, <1>6, <1>7, <1>9 DEF State
<1>11. Weight(x, {"confirm", "adjust"}) = x.n /\ Weight(x, {"data"}) = 0
  BY <1>2 DEF Weight
<1>12. Reads(s, t, x)
  <2>1. t.ch.remoteWindow = s.ch.remoteWindow + Weight(x, {"confirm", "adjust"})
    BY <1>1, <1>8, <1>10, <1>11
  <2>2. /\ t.ch.receiveWindow + Weight(x, {"data"}) = s.ch.receiveWindow
        /\ t.readable.queued = s.readable.queued + Weight(x, {"data"})
    <3>1. ch.receiveWindow \in Nat /\ readable.queued \in Nat
      BY <1>1, SftpAssumption DEF ChannelState, ReadableState
    <3> QED
      BY <1>1, <1>8, <1>10, <1>11, <3>1
  <2>3. (t.ch.remote <=> s.ch.remote) /\ (t.ch.receivedEof <=> s.ch.receivedEof)
    BY <1>1, <1>8, <1>10
  <2> HIDE DEF n
  <2> QED
    BY <1>1, <1>2, <1>7, <1>8, <1>10, <2>1, <2>2, <2>3 DEF Reads
<1>13. Good(t, TRUE, "no", "read", client, flushed, srv, Tail(inbox))
  BY <1>2, <1>12, AcceptedGood DEF s
<1> QED
  BY <1>2, <1>4, <1>13, ReadKeeps

\* Data for the queue of the stream.
LEMMA RecvDataKeeps == ASSUME IInv, RecvData PROVE IInv'
<1> DEFINE s == Now
           x == msg
           n == ch.receiveWindow - x.n
           k == readable.queued + x.n
           d == [ch EXCEPT !.receiveWindow = n]
           h == [readable EXCEPT !.queued = k]
           t == [s EXCEPT !.ch.receiveWindow = @ - x.n, !.readable.queued = @ + x.n]
<1>1. /\ s \in State /\ s.ch = ch /\ ch \in ChannelState /\ s.tail = tail
      /\ s.readable = readable /\ s.writable = writable /\ readable \in ReadableState
  BY OfNow
<1>2. Accepts(x) /\ x.type = "data" /\ RouteError = "no"
  BY HandleAccepts DEF RecvData
<1>3. ~(x.n > ch.receiveWindow) /\ ~(x.n > Window - readable.queued)
  <2>1. x.n \in Nat /\ ch.receiveWindow \in Nat
    BY <1>1, <1>2, SftpAssumption DEF Accepts, Messages, ChannelState
  <2>2. ~(x.n > ch.receiveWindow)
    BY <1>2 DEF RouteError, Accepts
  <2>3. x.n <= ch.receiveWindow
    BY <2>1, <2>2
  <2>4. ~(x.n > Window - readable.queued)
    BY <1>2, <2>3 DEF RouteError, Accepts
  <2> QED
    BY <2>2, <2>4
<1>4. Become(Pulled(t)) /\ UNCHANGED muxVars
  BY DEF RecvData
<1> HIDE DEF s, x
<1>5. n \in 0 .. Window /\ k \in 0 .. Window /\ n + x.n = ch.receiveWindow
  <2>1. x.n \in Nat /\ ch.receiveWindow \in 0 .. Window /\ readable.queued \in 0 .. Window /\ Window \in Nat
    BY <1>1, <1>2, SftpAssumption DEF Accepts, Messages, ChannelState, ReadableState
  <2> QED
    BY <1>3, <2>1
<1>6. t = [s EXCEPT !.ch = d, !.readable = h]
  BY <1>1
<1>7. h \in ReadableState /\ h.state = readable.state /\ h.queued = k
  <2> HIDE DEF k
  <2> QED
    BY <1>1, <1>5 DEF ReadableState
<1>8. /\ d.begin = ch.begin /\ d.ready = ch.ready /\ d.reply = ch.reply /\ d.opened = ch.opened
      /\ d.remote = ch.remote /\ d.closed = ch.closed /\ d.remoteWindow = ch.remoteWindow
      /\ d.closing = ch.closing /\ d.sentEof = ch.sentEof /\ d.sentClose = ch.sentClose
      /\ d.cancelled = ch.cancelled /\ d.receivedEof = ch.receivedEof
      /\ d.receivedClose = ch.receivedClose /\ d.receiveWindow = n
  <2> HIDE DEF n
  <2> QED
    BY <1>1 DEF ChannelState
<1>9. d \in ChannelState
  <2> HIDE DEF n
  <2> QED
    BY <1>1, <1>5 DEF ChannelState
<1> HIDE DEF t, d, h
<1>10. t \in State /\ t.ch = d /\ t.tail = s.tail /\ t.readable = h /\ t.writable = s.writable
  BY <1>1, <1>6, <1>7, <1>9 DEF State
<1>11. Weight(x, {"confirm", "adjust"}) = 0 /\ Weight(x, {"data"}) = x.n
  BY <1>2 DEF Weight
<1>12. Reads(s, t, x)
  <2>1. t.ch.remoteWindow = s.ch.remoteWindow + Weight(x, {"confirm", "adjust"})
    <3>1. ch.remoteWindow \in Nat
      BY <1>1, SftpAssumption DEF ChannelState
    <3> QED
      BY <1>1, <1>8, <1>10, <1>11, <3>1
  <2>2. t.ch.receiveWindow + Weight(x, {"data"}) = s.ch.receiveWindow
    BY <1>1, <1>5, <1>8, <1>10, <1>11
  <2>3. t.readable.queued = s.readable.queued + Weight(x, {"data"})
    BY <1>1, <1>7, <1>10, <1>11
  <2> HIDE DEF n, k
  <2> QED
    BY <1>1, <1>2, <1>7, <1>8, <1>10, <2>1, <2>2, <2>3 DEF Reads
<1>13. Good(t, TRUE, "no", "read", client, flushed, srv, Tail(inbox))
  BY <1>2, <1>12, AcceptedGood DEF s
<1>14. Good(Pulled(t), TRUE, "no", "read", client, flushed, srv, Tail(inbox))
  BY <1>13, PulledGood
<1> QED
  BY <1>2, <1>4, <1>14, ReadKeeps

\* Messages without a length.
LEMMA FlagReads ==
  ASSUME NEW s \in State, NEW x, NEW d \in ChannelState, NEW t, t = [s EXCEPT !.ch = d],
         x.type \notin {"confirm", "adjust", "data"},
         d.begin = s.ch.begin, d.ready = s.ch.ready, d.opened = s.ch.opened,
         d.remote = s.ch.remote, d.closed = s.ch.closed, d.remoteWindow = s.ch.remoteWindow,
         d.closing = s.ch.closing, d.sentEof = s.ch.sentEof, d.sentClose = s.ch.sentClose,
         d.cancelled = s.ch.cancelled, d.receiveWindow = s.ch.receiveWindow,
         d.receivedEof <=> s.ch.receivedEof \/ x.type = "eof",
         d.receivedClose <=> s.ch.receivedClose \/ x.type = "close",
         d.reply = s.ch.reply \/ (x.type \in {"success", "failure"} /\ d.reply \in {"resolved", "rejected"})
  PROVE  Reads(s, t, x) /\ t.ch = d /\ t \in State
<1>1. t \in State /\ t.ch = d /\ t.tail = s.tail /\ t.readable = s.readable /\ t.writable = s.writable
  BY DEF State
<1>2. /\ s.ch.remoteWindow \in Nat /\ s.ch.receiveWindow \in Nat /\ s.readable.queued \in Nat
  BY SftpAssumption DEF State, ChannelState, ReadableState
<1>3. Weight(x, {"confirm", "adjust"}) = 0 /\ Weight(x, {"data"}) = 0
  BY DEF Weight
<1>4. /\ t.ch.remoteWindow = s.ch.remoteWindow + Weight(x, {"confirm", "adjust"})
      /\ t.ch.receiveWindow + Weight(x, {"data"}) = s.ch.receiveWindow
      /\ t.readable.queued = s.readable.queued + Weight(x, {"data"})
  BY <1>1, <1>2, <1>3
<1>5. Reads(s, t, x)
  BY <1>1, <1>4 DEF Reads
<1> QED
  BY <1>1, <1>5

\* The EOF of the server.
LEMMA RecvEofKeeps == ASSUME IInv, RecvEof PROVE IInv'
<1> DEFINE s == Now
           x == msg
           d == [ch EXCEPT !.receivedEof = TRUE]
           t == [s EXCEPT !.ch.receivedEof = TRUE]
<1>1. s \in State /\ s.ch = ch /\ ch \in ChannelState
  BY OfNow
<1>2. Accepts(x) /\ x.type = "eof"
  BY HandleAccepts DEF RecvEof
<1>3. Become(t) /\ UNCHANGED muxVars
  BY DEF RecvEof
<1> HIDE DEF s, x
<1>4. t = [s EXCEPT !.ch = d]
  BY <1>1
<1>5. d \in ChannelState
  BY <1>1 DEF ChannelState
<1>6. /\ d.begin = ch.begin /\ d.ready = ch.ready /\ d.reply = ch.reply /\ d.opened = ch.opened
      /\ d.remote = ch.remote /\ d.closed = ch.closed /\ d.remoteWindow = ch.remoteWindow
      /\ d.closing = ch.closing /\ d.sentEof = ch.sentEof /\ d.sentClose = ch.sentClose
      /\ d.cancelled = ch.cancelled /\ d.receivedEof = TRUE
      /\ d.receivedClose = ch.receivedClose /\ d.receiveWindow = ch.receiveWindow
  BY <1>1 DEF ChannelState
<1> HIDE DEF d, t
<1>7. Reads(s, t, x)
  BY <1>1, <1>2, <1>4, <1>5, <1>6, FlagReads
<1>8. Good(t, TRUE, "no", "read", client, flushed, srv, Tail(inbox))
  BY <1>2, <1>7, AcceptedGood DEF s
<1> QED
  BY <1>2, <1>3, <1>8, ReadKeeps

\* The answer to the request.
LEMMA RecvReplyKeeps == ASSUME IInv, RecvReply PROVE IInv'
<1> DEFINE s == Now
           x == msg
           a == IF x.type = "success" THEN "resolved" ELSE "rejected"
           d == [ch EXCEPT !.reply = a]
           t == [s EXCEPT !.ch.reply = a]
<1>1. s \in State /\ s.ch = ch /\ ch \in ChannelState
  BY OfNow
<1>2. Accepts(x) /\ x.type \in {"success", "failure"}
  BY HandleAccepts DEF RecvReply
<1>3. Become(t) /\ UNCHANGED muxVars
  BY DEF RecvReply
<1> HIDE DEF s, x
<1>4. t = [s EXCEPT !.ch = d]
  BY <1>1
<1>5. a \in {"resolved", "rejected"}
  OBVIOUS
<1> HIDE DEF a
<1>6. d \in ChannelState
  BY <1>1, <1>5 DEF ChannelState, Promise
<1>7. /\ d.begin = ch.begin /\ d.ready = ch.ready /\ d.reply = a /\ d.opened = ch.opened
      /\ d.remote = ch.remote /\ d.closed = ch.closed /\ d.remoteWindow = ch.remoteWindow
      /\ d.closing = ch.closing /\ d.sentEof = ch.sentEof /\ d.sentClose = ch.sentClose
      /\ d.cancelled = ch.cancelled /\ d.receivedEof = ch.receivedEof
      /\ d.receivedClose = ch.receivedClose /\ d.receiveWindow = ch.receiveWindow
  BY <1>1 DEF ChannelState
<1> HIDE DEF d, t
<1>8. Reads(s, t, x)
  BY <1>1, <1>2, <1>4, <1>5, <1>6, <1>7, FlagReads
<1>9. Good(t, TRUE, "no", "read", client, flushed, srv, Tail(inbox))
  BY <1>2, <1>8, AcceptedGood DEF s
<1> QED
  BY <1>2, <1>3, <1>9, ReadKeeps

\* The CLOSE of the server, answered unless the channel sent its own.
LEMMA RecvCloseKeeps == ASSUME IInv, RecvClose PROVE IInv'
<1> DEFINE s == Now
           x == msg
           d == [ch EXCEPT !.receivedClose = TRUE]
           t == [s EXCEPT !.ch.receivedClose = TRUE]
           u == Put([t EXCEPT !.ch.sentClose = TRUE], "CLOSE", 0, "reader")
           g(y) == Good(y, TRUE, "no", "read", client, flushed, srv, Tail(inbox))
<1>1. s \in State /\ s.ch = ch /\ ch \in ChannelState
  BY OfNow
<1>2. Accepts(x) /\ x.type = "close"
  BY HandleAccepts DEF RecvClose
<1>3. \/ /\ ch.remote /\ ~ch.sentClose /\ Become(u) /\ reader' = "close"
         /\ inMap' = inMap /\ terminal' = terminal
      \/ ~(ch.remote /\ ~ch.sentClose) /\ FinishClose(t)
  BY DEF RecvClose
<1>4. ch.remote
  <2>1. 1 \in DOMAIN inbox /\ inbox[1] = Head(inbox) /\ DOMAIN inbox = 1 .. Len(inbox)
    BY <1>2 DEF Accepts, Good, Typed
  <2>2. Confirmed(Now, inbox, 1)
    BY <1>2, <2>1 DEF Accepts, Good, Answers, Ordered
  <2>3. \A j \in DOMAIN inbox : ~(j < 1)
    BY <2>1
  <2> QED
    BY <1>1, <2>2, <2>3 DEF Confirmed
<1> HIDE DEF s, x, u
<1>5. t = [s EXCEPT !.ch = d]
  BY <1>1
<1>6. d \in ChannelState
  BY <1>1 DEF ChannelState
<1>7. /\ d.begin = ch.begin /\ d.ready = ch.ready /\ d.reply = ch.reply /\ d.opened = ch.opened
      /\ d.remote = ch.remote /\ d.closed = ch.closed /\ d.remoteWindow = ch.remoteWindow
      /\ d.closing = ch.closing /\ d.sentEof = ch.sentEof /\ d.sentClose = ch.sentClose
      /\ d.cancelled = ch.cancelled /\ d.receivedEof = ch.receivedEof
      /\ d.receivedClose = TRUE /\ d.receiveWindow = ch.receiveWindow
  BY <1>1 DEF ChannelState
<1> HIDE DEF d, t
<1>8. Reads(s, t, x) /\ t.ch = d /\ t \in State
  BY <1>1, <1>2, <1>5, <1>6, <1>7, FlagReads
<1>9. g(t)
  BY <1>2, <1>8, AcceptedGood DEF s
<1>10. "close" \in srv.sent
  BY <1>2 DEF Accepts
<1>11. CASE /\ ch.remote /\ ~ch.sentClose /\ Become(u) /\ reader' = "close"
            /\ inMap' = inMap /\ terminal' = terminal
  <2>1. PutsClose(t, u, "reader")
    BY <1>8, PutCloseParts DEF u
  <2>2. t.ch.remote /\ ~t.ch.sentClose /\ t.ch.receivedClose
    BY <1>7, <1>8, <1>11
  <2>3. Flags(u, client, srv)
    BY <1>9, <1>10, <2>1, <2>2 DEF Good, Flags, MayEof, PutsClose, Kept
  <2>4. g(u)
    BY <1>9, <2>1, <2>2, <2>3, PutsCloseGood
  <2>5. u.ch.receivedClose /\ u.ch.sentClose
    BY <2>1, <2>2 DEF PutsClose, Kept
  <2>6. Good(u, TRUE, "no", "close", client, flushed, srv, Tail(inbox))
    BY <2>4, <2>5, ReaderGood
  <2>7. Now' = u
    BY <1>11, <2>4, BecomeNow DEF Good, Typed
  <2> QED
    BY <1>2, <1>11, <2>6, <2>7 DEF IInv, Accepts
<1>12. CASE ~(ch.remote /\ ~ch.sentClose) /\ FinishClose(t)
  <2>1. t.ch.receivedClose /\ t.ch.sentClose
    BY <1>4, <1>7, <1>8, <1>12
  <2>2. Good(t, inMap, terminal, "read", client, flushed, srv, Tail(inbox))
    BY <1>2, <1>9 DEF Accepts
  <2>3. Good(Now', inMap', terminal', reader', client, flushed, srv, Tail(inbox))
    BY <1>12, <2>1, <2>2, FinishCloseGood
  <2> QED
    BY <1>2, <2>3 DEF IInv, Accepts
<1> QED
  BY <1>3, <1>11, <1>12

-----------------------------------------------------------------------------
(* The server.                                                             *)

\* A compliant server sends nothing after its CLOSE or its refusal.
LEMMA NothingAfterClose ==
  ASSUME NEW s, NEW v, Sent(v), Requested(s, v), v = srv,
         NEW type \in ServerType, NEW n, MaySend(type, n)
  PROVE  /\ "close" \notin v.sent /\ "openFailure" \notin v.sent
         /\ type \in v.sent => type \in {"data", "adjust"}
         /\ type \notin {"confirm", "openFailure"} => "confirm" \in v.sent
<1>1. CASE type \in {"confirm", "openFailure"}
  BY <1>1 DEF MaySend, Sent
<1>2. CASE type \in {"adjust", "close"}
  BY <1>2 DEF MaySend, Sent
<1>3. CASE type \in {"success", "failure"}
  BY <1>3 DEF MaySend, Sent, Requested
<1>4. CASE type \in {"data", "eof", "otherRequest"}
  BY <1>4 DEF MaySend, Sent, Requested
<1> QED
  BY <1>1, <1>2, <1>3, <1>4 DEF ServerType

\* What Send does to the server.
Sends(v, u, x) ==
  /\ u.got = v.got /\ u.sent = v.sent \cup {x.type} /\ u.received = v.received
  /\ u.window + Weight(x, {"data"}) = v.window
  /\ u.granted = v.granted + Weight(x, {"confirm", "adjust"})
  /\ u \in ServerState

\* The message is a number of bytes, and the server counts it.
LEMMA SendCounts ==
  ASSUME srv \in ServerState, NEW type \in ServerType, NEW n \in Lengths(type), Send(type, n),
         Sent(srv), "confirm" \notin srv.sent => srv.granted = 0
  PROVE  /\ [type |-> type, n |-> n] \in Messages /\ Sends(srv, srv', [type |-> type, n |-> n])
         /\ type \in {"confirm", "adjust"} => n \in Grants
<1> DEFINE x == [type |-> type, n |-> n]
           k == IF type = "data" THEN srv.window - n ELSE srv.window
           l == IF type = "data" THEN srv.bytes + n ELSE srv.bytes
           g == IF type \in {"confirm", "adjust"} THEN srv.granted + n ELSE srv.granted
<1>1. /\ srv.got \in SUBSET ClientType /\ srv.sent \in SUBSET ServerType
      /\ srv.window \in 0 .. Window /\ srv.granted \in 0 .. MaxGranted
      /\ srv.bytes \in 0 .. MaxSent /\ srv.received \in Nat
      /\ Window \in Nat /\ MaxGranted \in Nat /\ MaxSent \in Nat
  BY SftpAssumption DEF ServerState
<1>2. n \in Nat /\ (type \in {"confirm", "adjust"} => n \in Grants)
  BY SftpAssumption DEF Lengths
<1>3. srv' = [srv EXCEPT !.sent = @ \cup {type}, !.window = k, !.bytes = l, !.granted = g]
  BY DEF Send
<1>4. MaySend(type, n)
  BY DEF Send
<1>5. k \in 0 .. Window /\ l \in 0 .. MaxSent
  BY <1>1, <1>2, <1>4 DEF MaySend
<1>6. g \in 0 .. MaxGranted
  <2>1. CASE type = "confirm"
    BY <1>1, <1>2, <1>4, <2>1 DEF MaySend
  <2>2. CASE type = "adjust"
    BY <1>1, <1>2, <1>4, <2>2 DEF MaySend
  <2> QED
    BY <1>1, <2>1, <2>2
<1>7. x \in Messages /\ x.type = type /\ x.n = n
  BY <1>2 DEF Messages
<1>8. k + Weight(x, {"data"}) = srv.window /\ g = srv.granted + Weight(x, {"confirm", "adjust"})
  BY <1>1, <1>2, <1>7 DEF Weight
<1> HIDE DEF k, l, g, x
<1>9. /\ srv'.got = srv.got /\ srv'.sent = srv.sent \cup {type} /\ srv'.received = srv.received
      /\ srv'.window = k /\ srv'.granted = g /\ srv' \in ServerState
  BY <1>1, <1>3, <1>5, <1>6 DEF ServerState
<1> QED
  BY <1>2, <1>7, <1>8, <1>9 DEF Sends, x

\* A message of the server keeps the two windows.
LEMMA SendsWindows ==
  ASSUME NEW s, NEW m, NEW e, NEW r, NEW c, NEW f, NEW v, NEW q, Good(s, m, e, r, c, f, v, q),
         NEW u, NEW x \in Messages, Sends(v, u, x),
         x.type \notin {"confirm", "openFailure"} => "confirm" \in v.sent
  PROVE  Windows(s, m, e, f, u, Append(q, x))
<1> DEFINE a == Bytes(q, {"data"})
           b == Bytes(q, {"confirm", "adjust"})
           k == Weight(x, {"data"})
           l == Weight(x, {"confirm", "adjust"})
           i == Bytes(Waiting(s, f), {"ADJUST"})
           j == Bytes(Waiting(s, f), {"DATA"})
<1>1. (\A z \in Packets : z.n \in Nat) /\ \A z \in Messages : z.n \in Nat
  BY DEF Packets, Messages
<1>2. q \in Seq(Messages) /\ s \in State /\ v \in ServerState /\ Waiting(s, f) \in Seq(Packets)
  <2>1. f => s.tail # <<>>
    BY DEF Good, Typed
  <2>2. s.tail \in Seq(Packets)
    BY DEF Good, Typed, State
  <2> QED
    BY <2>1, <2>2 DEF Good, Typed, Waiting
<1>3. Bytes(Append(q, x), {"data"}) = a + k /\ Bytes(Append(q, x), {"confirm", "adjust"}) = b + l
  BY <1>1, <1>2, BytesAppend
<1>4. a \in Nat /\ b \in Nat /\ k \in Nat /\ l \in Nat /\ i \in Nat /\ j \in Nat
  <2>1. k \in Nat /\ l \in Nat
    BY <1>1 DEF Weight
  <2> QED
    BY <1>1, <1>2, <2>1, BytesNat
<1>5. /\ v.window \in Nat /\ v.granted \in Nat /\ v.received \in Nat /\ u.window \in Nat
      /\ u.granted \in Nat /\ s.ch.receiveWindow \in Nat /\ s.ch.remoteWindow \in Nat
  BY <1>2, SftpAssumption DEF ServerState, State, ChannelState, Sends
<1>6. /\ u.window + k = v.window /\ u.granted = v.granted + l /\ u.received = v.received
  BY DEF Sends
<1>7. /\ v.window + a + i <= s.ch.receiveWindow
      /\ m => v.window + a + i = s.ch.receiveWindow
      /\ e = "no" => s.ch.remoteWindow + j + v.received + b = v.granted
      /\ s.ch.receiveWindow + s.readable.queued <= Window
      /\ ~s.ch.remote => s.ch.remoteWindow = 0
      /\ "confirm" \notin v.sent => v.granted = 0
  BY DEF Good, Windows
<1>8. "confirm" \notin u.sent => u.granted = 0
  <2> SUFFICES ASSUME "confirm" \notin u.sent PROVE u.granted = 0
    OBVIOUS
  <2>1. u.sent = v.sent \cup {x.type}
    BY DEF Sends
  <2>2. "confirm" \notin v.sent /\ x.type = "openFailure"
    BY <2>1
  <2> QED
    BY <1>6, <1>7, <2>2 DEF Weight
<1> HIDE DEF a, b, k, l, i, j
<1>9. u.window + (a + k) + i = v.window + a + i
  BY <1>4, <1>5, <1>6
<1>10. e = "no" => s.ch.remoteWindow + j + u.received + (b + l) = u.granted
  BY <1>4, <1>5, <1>6, <1>7
<1> QED
  BY <1>3, <1>7, <1>8, <1>9, <1>10 DEF Windows, i, j

\* The message is the last one to read, and surprises the channel as little as
\* those before it.
LEMMA SendsAnswers ==
  ASSUME NEW s \in State, Answers(s, TRUE, srv, inbox), inbox \in Seq(Messages), ~s.ch.receivedClose,
         NEW type \in ServerType, NEW n, MaySend(type, n), NEW u,
         [type |-> type, n |-> n] \in Messages,
         Sends(srv, u, [type |-> type, n |-> n]), type \in {"confirm", "adjust"} => n \in Grants
  PROVE  Answers(s, TRUE, u, Append(inbox, [type |-> type, n |-> n]))
<1> DEFINE x == [type |-> type, n |-> n]
           w == Append(inbox, x)
           l == Len(inbox)
<1>1. x \in Messages /\ x.type = type /\ x.n = n
  OBVIOUS
<1>2. /\ l \in Nat /\ DOMAIN inbox = 1 .. l /\ Len(w) = l + 1 /\ DOMAIN w = 1 .. (l + 1)
      /\ w[l + 1] = x /\ \A i \in DOMAIN inbox : w[i] = inbox[i]
  BY <1>1
<1> HIDE DEF x, w, l
<1>3. /\ \A i \in DOMAIN inbox : i \in DOMAIN w /\ w[i] = inbox[i] /\ i < l + 1 /\ i # l + 1 /\ i \in Nat
      /\ l + 1 \in DOMAIN w /\ w[l + 1] = x
      /\ \A i \in DOMAIN w : i \in DOMAIN inbox \/ i = l + 1
  BY <1>2
<1>4. u.got = srv.got /\ u.sent = srv.sent \cup {type}
  BY <1>1 DEF Sends, x
<1>5. Sent(srv) /\ Requested(s, srv) /\ Ordered(s, TRUE, srv, inbox)
  BY DEF Answers
<1>6. /\ "close" \notin srv.sent /\ "openFailure" \notin srv.sent
      /\ type \in srv.sent => type \in {"data", "adjust"}
      /\ type \notin {"confirm", "openFailure"} => "confirm" \in srv.sent
  BY <1>5, NothingAfterClose
<1>7. Sent(u)
  <2>1. type \in {"success", "failure"} => "SUBSYSTEM" \in srv.got /\ srv.sent \cap {"success", "failure"} = {}
    BY DEF MaySend
  <2>2. type \in {"data", "eof", "otherRequest"} => "success" \in srv.sent
    BY DEF MaySend
  <2>3. type \in {"confirm", "openFailure"} => srv.sent \cap {"confirm", "openFailure"} = {}
    BY DEF MaySend
  <2>4. ~({"confirm", "openFailure"} \subseteq u.sent)
    BY <1>4, <1>6, <2>3
  <2>5. ~({"success", "failure"} \subseteq u.sent)
    BY <1>4, <1>5, <2>1 DEF Sent
  <2>6. u.sent \cap {"success", "failure"} # {} => "SUBSYSTEM" \in u.got
    BY <1>4, <1>5, <2>1 DEF Sent
  <2>7. u.sent \cap {"data", "eof", "otherRequest"} # {} => "success" \in u.sent
    BY <1>4, <1>5, <2>2 DEF Sent
  <2>8. u.sent \cap {"close", "adjust"} # {} => "confirm" \in u.sent
    BY <1>4, <1>5, <1>6 DEF Sent
  <2> QED
    BY <2>4, <2>5, <2>6, <2>7, <2>8 DEF Sent
<1>8. Requested(s, u)
  BY <1>4, <1>5 DEF Requested
<1>9. \A k \in Nat : k <= l + 1 => (Confirmed(s, inbox, k) => Confirmed(s, w, k))
  BY <1>3 DEF Confirmed
<1>10. "confirm" \in srv.sent => Confirmed(s, w, l + 1)
  <2>1. "confirm" \in srv.sent => Confirmed(s, inbox, l + 1)
    BY DEF Answers, l
  <2> QED
    BY <1>2, <1>9, <2>1
<1>11. "confirm" \in u.sent => Confirmed(s, w, Len(w) + 1)
  <2>1. CASE "confirm" \in srv.sent
    BY <1>2, <1>3, <1>10, <2>1 DEF Confirmed
  <2>2. CASE type = "confirm"
    BY <1>1, <1>2, <1>3, <2>2 DEF Confirmed
  <2> QED
    BY <1>4, <2>1, <2>2
<1>12. s.ch.receivedEof => "eof" \in u.sent
  BY <1>4 DEF Answers
<1>13. s.ch.reply \in {"resolved", "rejected"} => u.sent \cap {"success", "failure"} # {}
  BY <1>4 DEF Answers
<1>14. \A i \in DOMAIN inbox :
         /\ inbox[i].type \in srv.sent
         /\ inbox[i].type \in {"confirm", "adjust"} => inbox[i].n \in Grants
         /\ inbox[i].type \notin {"close", "openFailure"}
         /\ inbox[i].type = "confirm" => ~s.ch.remote
         /\ inbox[i].type \notin {"confirm", "openFailure"} => Confirmed(s, inbox, i)
         /\ inbox[i].type = "eof" => ~s.ch.receivedEof
         /\ inbox[i].type \in {"success", "failure"} => s.ch.reply = "pending"
         /\ inbox[i].type \notin {"data", "adjust"} =>
              \A j \in DOMAIN inbox : inbox[j].type = inbox[i].type => i = j
  BY <1>5, <1>6 DEF Ordered
<1>15. ASSUME NEW i \in DOMAIN inbox
       PROVE  /\ w[i].type \in u.sent
              /\ w[i].type \in {"confirm", "adjust"} => w[i].n \in Grants
              /\ w[i].type \notin {"close", "openFailure"}
              /\ w[i].type = "confirm" => ~s.ch.remote
              /\ w[i].type \notin {"confirm", "openFailure"} => Confirmed(s, w, i)
              /\ w[i].type = "eof" => ~s.ch.receivedEof
              /\ w[i].type \in {"success", "failure"} => s.ch.reply = "pending"
              /\ w[i].type \notin {"data", "adjust"} =>
                   \A j \in DOMAIN w : w[j].type = w[i].type => i = j
  <2>1. w[i] = inbox[i] /\ i \in Nat /\ i <= l + 1
    BY <1>2, <1>3
  <2>2. Confirmed(s, inbox, i) => Confirmed(s, w, i)
    BY <1>9, <2>1
  <2>3. ASSUME w[i].type \notin {"data", "adjust"}, NEW j \in DOMAIN w, w[j].type = w[i].type
        PROVE  i = j
    <3>1. j # l + 1
      BY <1>1, <1>3, <1>6, <1>14, <2>1, <2>3
    <3>2. j \in DOMAIN inbox /\ w[j] = inbox[j]
      BY <1>3, <3>1
    <3> QED
      BY <1>14, <2>1, <2>3, <3>2
  <2> QED
    BY <1>4, <1>14, <2>1, <2>2, <2>3
<1>16. /\ type \in u.sent
       /\ type \in {"confirm", "adjust"} => n \in Grants
       /\ type = "confirm" => ~s.ch.remote
       /\ type \notin {"confirm", "openFailure"} => Confirmed(s, w, l + 1)
       /\ type = "eof" => ~s.ch.receivedEof
       /\ type \in {"success", "failure"} => s.ch.reply = "pending"
  <2>1. type = "confirm" => ~s.ch.remote
    BY <1>5, <1>6 DEF Requested
  <2>2. type = "eof" => ~s.ch.receivedEof
    BY <1>6 DEF Answers
  <2>3. type \in {"success", "failure"} => s.ch.reply = "pending"
    <3> SUFFICES ASSUME type \in {"success", "failure"} PROVE s.ch.reply = "pending"
      OBVIOUS
    <3>1. "SUBSYSTEM" \in srv.got /\ srv.sent \cap {"success", "failure"} = {}
      BY DEF MaySend
    <3>2. s.ch.reply # "none"
      BY <1>5, <3>1 DEF Requested
    <3>3. s.ch.reply \notin {"resolved", "rejected"}
      BY <3>1 DEF Answers
    <3>4. s.ch.reply \in Promise
      BY DEF State, ChannelState
    <3> QED
      BY <3>2, <3>3, <3>4 DEF Promise
  <2> QED
    BY <1>4, <1>6, <1>10, <2>1, <2>2, <2>3
<1>17. type \notin {"data", "adjust"} => \A j \in DOMAIN w : w[j].type = type => j = l + 1
  <2> SUFFICES ASSUME type \notin {"data", "adjust"}, NEW j \in DOMAIN w, w[j].type = type,
                      j \in DOMAIN inbox
               PROVE  FALSE
    BY <1>3
  <2> QED
    BY <1>3, <1>6, <1>14
<1>18. Ordered(s, TRUE, u, w)
  BY <1>1, <1>2, <1>3, <1>15, <1>16, <1>17 DEF Ordered
<1> QED
  BY <1>7, <1>8, <1>11, <1>12, <1>13, <1>18 DEF Answers, w, x

\* The server sends a message.
LEMMA SendKeeps ==
  ASSUME IInv, NEW type \in ServerType, NEW n \in Lengths(type), Send(type, n)
  PROVE  IInv'
<1> DEFINE s == Now
           x == [type |-> type, n |-> n]
           w == Append(inbox, x)
<1>1. Good(s, inMap, terminal, reader, client, flushed, srv, inbox) /\ s.ch = ch
  BY OfNow
<1>2. /\ terminal = "no" /\ MaySend(type, n) /\ inbox' = w /\ Now' = s /\ inMap' = inMap
      /\ terminal' = terminal /\ reader' = reader /\ client' = client /\ flushed' = flushed
  BY DEF Send, muxVars, Now
<1>3. /\ srv \in ServerState /\ inbox \in Seq(Messages) /\ inMap \in BOOLEAN
      /\ Sent(srv) /\ Requested(s, srv) /\ ("confirm" \notin srv.sent => srv.granted = 0)
  BY <1>1 DEF Good, Typed, Answers, Windows
<1>4. /\ x \in Messages /\ Sends(srv, srv', x) /\ (type \in {"confirm", "adjust"} => n \in Grants)
  BY <1>3, SendCounts
<1>5. /\ "close" \notin srv.sent /\ "openFailure" \notin srv.sent
      /\ type \notin {"confirm", "openFailure"} => "confirm" \in srv.sent
  BY <1>2, <1>3, NothingAfterClose
<1> HIDE DEF s
<1>6. inMap = TRUE /\ ~s.ch.receivedClose
  <2>1. ~inMap => Gone(srv, Waiting(s, flushed))
    BY <1>1, <1>2 DEF Good, Released
  <2> QED
    BY <1>1, <1>3, <1>5, <2>1 DEF Good, Released, Gone
<1>7. /\ srv'.got = srv.got /\ srv.sent \subseteq srv'.sent /\ srv' \in ServerState
      /\ srv'.sent = srv.sent \cup {type}
  BY <1>4 DEF Sends
<1>8. Answers(s, TRUE, srv', w)
  BY <1>1, <1>2, <1>3, <1>4, <1>6, SendsAnswers DEF Good, Typed
<1>9. Windows(s, inMap, terminal, flushed, srv', w)
  <2>1. x.type = type
    OBVIOUS
  <2> HIDE DEF x
  <2> QED
    BY <1>1, <1>4, <1>5, <2>1, SendsWindows
<1>10. Typed(s, inMap, terminal, reader, client, flushed, srv', w)
  <2>1. w \in Seq(Messages)
    BY <1>3, <1>4
  <2> HIDE DEF w
  <2> QED
    BY <1>1, <1>7, <2>1 DEF Good, Typed
<1> HIDE DEF w, x
<1>11. Released(s, inMap, terminal, reader, flushed, srv', w)
  BY <1>1, <1>6 DEF Good, Released
<1>12. Flags(s, client, srv')
  BY <1>1, <1>7 DEF Good, Flags, MayEof
<1>13. Shut(s, terminal, flushed, srv')
  <2>1. Last(Waiting(s, flushed), srv')
    BY <1>1, <1>7 DEF Good, Shut, Last, Follows
  <2> QED
    BY <1>1, <1>7, <2>1 DEF Good, Shut
<1>14. Good(s, inMap, terminal, reader, client, flushed, srv', w)
  BY <1>1, <1>6, <1>8, <1>9, <1>10, <1>11, <1>12, <1>13 DEF Good
<1> QED
  BY <1>2, <1>14 DEF IInv

-----------------------------------------------------------------------------
(* The theorems.                                                           *)

\* The channel starts in a good state, with OPEN in the tail.
LEMMA InitGood == ASSUME Init PROVE IInv
<1> DEFINE s == Now
           p == Packet("OPEN", Window, "begin")
<1>1. /\ s.ch = [begin |-> "opening", opened |-> "pending", reply |-> "none",
                 ready |-> "pending", remoteClose |-> "pending", remote |-> FALSE,
                 closing |-> FALSE, closed |-> FALSE, cancelled |-> FALSE,
                 receivedEof |-> FALSE, sentEof |-> FALSE, sentClose |-> FALSE,
                 receivedClose |-> FALSE, receiveWindow |-> Window, remoteWindow |-> 0]
      /\ s.closer = [k \in Closer |-> "idle"]
      /\ s.readable = [state |-> "readable", queued |-> 0, pulling |-> FALSE, pullAgain |-> FALSE]
      /\ s.writable = [state |-> "writable", at |-> "idle", left |-> 0, chunks |-> 0]
      /\ s.tail = <<p>>
      /\ s = [ch |-> s.ch, closer |-> s.closer, tail |-> s.tail, readable |-> s.readable,
              writable |-> s.writable]
  BY DEF Init, Now
<1>2. /\ inMap = TRUE /\ terminal = "no" /\ reader = "read" /\ client = "starting"
      /\ flushed = FALSE /\ inbox = <<>>
      /\ srv = [got |-> {}, sent |-> {}, window |-> Window, granted |-> 0,
                bytes |-> 0, received |-> 0]
  BY DEF Init
<1>3. Window \in Nat /\ MaxWindow \in Nat /\ MaxGranted \in Nat /\ MaxSent \in Nat
  BY SftpAssumption
<1>4. p \in Packets /\ p.type = "OPEN" /\ p.n = Window /\ p.by = "begin"
  BY <1>3 DEF Packet, Packets, ClientType, Owner
<1> HIDE DEF s, p
<1>5. s.tail \in Seq(Packets) /\ DOMAIN s.tail = {1} /\ s.tail[1] = p /\ s.tail # <<>>
  <2>1. <<p>> \in Seq(Packets) /\ DOMAIN <<p>> = {1} /\ <<p>>[1] = p /\ <<p>> # <<>>
    BY <1>4
  <2> QED
    BY <1>1, <2>1
<1>6. s \in State
  <2>1. s.ch \in ChannelState
    BY <1>1, <1>3 DEF ChannelState, Begin, Promise
  <2>2. s.closer \in [Closer -> Stage]
    BY <1>1 DEF Stage
  <2>3. s.readable \in ReadableState /\ s.writable \in WritableState
    BY <1>1, <1>3 DEF ReadableState, WritableState
  <2> QED
    BY <1>1, <1>5, <2>1, <2>2, <2>3 DEF State
<1>7. srv \in ServerState
  BY <1>2, <1>3 DEF ServerState
<1>8. Waiting(s, FALSE) = s.tail
  BY DEF Waiting
<1>9. Typed(s, TRUE, "no", "read", "starting", FALSE, srv, <<>>)
  BY <1>6, <1>7 DEF Typed
<1>10. Released(s, TRUE, "no", "read", FALSE, srv, <<>>)
  BY <1>1 DEF Released
<1>11. Started(s, "starting")
  BY <1>1 DEF Started
<1>12. Owned(s)
  BY <1>1, <1>4, <1>5 DEF Owned, Closer
<1>13. Flags(s, "starting", srv)
  BY <1>1, <1>2 DEF Flags, MayEof
<1>14. Shut(s, "no", FALSE, srv)
  <2>1. \A type : ~Follows(s.tail, srv, 1, type)
    <3>1. ~(1 < 1)
      OBVIOUS
    <3> QED
      BY <1>2, <1>5, <3>1 DEF Follows
  <2>2. Last(s.tail, srv)
    BY <1>5, <2>1 DEF Last
  <2>3. ~s.ch.sentClose
    BY <1>1
  <2>4. \A i \in DOMAIN s.tail : s.tail[i].type = "OPEN"
    BY <1>4, <1>5
  <2> QED
    BY <1>8, <2>2, <2>3, <2>4 DEF Shut
<1>15. Bytes(s.tail, {"ADJUST"}) = 0 /\ Bytes(s.tail, {"DATA"}) = 0
  <2>1. <<>> \in Seq(Packets) /\ s.tail = Append(<<>>, p) /\ \A z \in Packets : z.n \in Nat
    BY <1>1 DEF Packets
  <2>2. Weight(p, {"ADJUST"}) = 0 /\ Weight(p, {"DATA"}) = 0
    BY <1>4 DEF Weight
  <2>3. \A types : Bytes(s.tail, types) = 0 + Weight(p, types)
    BY <1>4, <2>1, BytesAppend, BytesEmpty, ZenonT(60)
  <2> QED
    BY <2>2, <2>3
<1>16. Windows(s, TRUE, "no", FALSE, srv, <<>>)
  <2>1. /\ srv.window = Window /\ srv.received = 0 /\ srv.granted = 0
        /\ s.ch.receiveWindow = Window /\ s.ch.remoteWindow = 0 /\ s.readable.queued = 0
    BY <1>1, <1>2
  <2>2. Bytes(<<>>, {"data"}) = 0 /\ Bytes(<<>>, {"confirm", "adjust"}) = 0
    BY BytesEmpty
  <2>3. Window + 0 + 0 = Window /\ 0 + 0 + 0 + 0 = 0 /\ Window <= Window /\ Window + 0 <= Window
    BY <1>3
  <2> QED
    BY <1>8, <1>15, <2>1, <2>2, <2>3 DEF Windows
<1>17. Answers(s, TRUE, srv, <<>>)
  BY <1>1, <1>2, <1>4, <1>5 DEF Answers, Sent, Requested, Ordered
<1> QED
  BY <1>2, <1>9, <1>10, <1>11, <1>12, <1>13, <1>14, <1>16, <1>17 DEF IInv, Good, s

\* Every step keeps the invariant.
LEMMA NextKeeps == ASSUME IInv, [Next]_vars PROVE IInv'
<1>1. CASE UNCHANGED vars
  <2>1. /\ Now' = Now /\ inMap' = inMap /\ terminal' = terminal /\ reader' = reader
        /\ client' = client /\ flushed' = flushed /\ srv' = srv /\ inbox' = inbox
    BY <1>1 DEF vars, muxVars, wireVars, Now
  <2> QED
    BY <2>1 DEF IInv
<1>2. CASE Begins
  BY <1>2, ResumeOpenedKeeps, ResumeRepliedKeeps DEF Begins
<1>3. CASE OpenSftp
  BY <1>3, ConnectKeeps, NegotiatedKeeps, OpenFailedKeeps DEF OpenSftp
<1>4. CASE Writer
  BY <1>4, WriterStepKeeps, WriterThrowKeeps DEF Writer
<1>5. CASE Cancel \/ Take \/ WriteChunk \/ Terminate \/ Close
  BY <1>5, CancelKeeps, TakeKeeps, WriteChunkKeeps, TerminateKeeps, CloseKeeps
<1>6. CASE Transmit \/ WriteDone \/ WriteFail \/ ReadFail
  BY <1>6, TransmitKeeps, WriteDoneKeeps, WriteFailKeeps, ReadFailKeeps
<1>7. CASE ReadLoop
  BY <1>7, RecvErrorKeeps, RecvConfirmationKeeps, RecvOpenFailureKeeps, RecvAdjustKeeps,
     RecvDataKeeps, RecvEofKeeps, RecvReplyKeeps, RecvCloseKeeps DEF ReadLoop
<1>8. CASE Server
  BY <1>8, SendKeeps DEF Server
<1> QED
  BY <1>1, <1>2, <1>3, <1>4, <1>5, <1>6, <1>7, <1>8 DEF Next

\* The inductive invariant holds in every reachable state.
THEOREM Inductive == Spec => []IInv
<1>1. Init => IInv
  BY InitGood
<1>2. IInv /\ [Next]_vars => IInv'
  BY NextKeeps
<1> QED
  BY <1>1, <1>2, PTL DEF Spec

\* Every variable of the channel stays in its type: no window leaves its bounds.
THEOREM TypeCorrect == Spec => []TypeOK
<1>1. IInv => TypeOK
  <2> SUFFICES ASSUME IInv PROVE TypeOK
    OBVIOUS
  <2>1. Typed(Now, inMap, terminal, reader, client, flushed, srv, inbox)
    BY DEF IInv, Good
  <2> QED
    BY <2>1, OfNow DEF Typed, TypeOK, Packets, Messages
<1> QED
  BY <1>1, Inductive, PTL

\* EOF and CLOSE leave once and in order, whichever calls of close() meet.
THEOREM ClosesLast == Spec => []CloseLast
<1>1. IInv => CloseLast
  <2> SUFFICES ASSUME IInv PROVE CloseLast
    OBVIOUS
  <2>1. Last(Waiting(Now, flushed), srv) /\ Now.tail = tail
    BY OfNow DEF Good, Shut
  <2>2. Waiting(Now, flushed) = Unsent
    BY <2>1 DEF Waiting, Unsent
  <2> QED
    BY <2>1, <2>2 DEF Last, Follows, CloseLast, After
<1> QED
  BY <1>1, Inductive, PTL

\* A live client drops the channel only when the server is done with it.
THEOREM Releases == Spec => []ReleasedWhenDead
<1>1. IInv => ReleasedWhenDead
  <2> SUFFICES ASSUME IInv, ~inMap, terminal = "no" PROVE Gone(srv, Unsent)
    BY DEF ReleasedWhenDead, Gone, WaitsFor
  <2>1. Gone(srv, Waiting(Now, flushed)) /\ Now.tail = tail
    BY OfNow DEF Good, Released
  <2>2. Waiting(Now, flushed) = Unsent
    BY <2>1 DEF Waiting, Unsent
  <2> QED
    BY <2>1, <2>2
<1> QED
  BY <1>1, Inductive, PTL

\* The two ends agree on the window of the server, and the queue has room for it.
THEOREM ReceiveCredited == Spec => []ReceiveCredit
<1>1. IInv => ReceiveCredit
  <2> SUFFICES ASSUME IInv, terminal = "no", inMap
               PROVE  /\ ch.receiveWindow = srv.window + InFlight({"data"}) + Queued("ADJUST")
                      /\ ch.receiveWindow + readable.queued <= Window
    BY DEF ReceiveCredit
  <2>1. /\ Windows(Now, TRUE, terminal, flushed, srv, inbox)
        /\ Now.tail = tail /\ Now.ch = ch /\ Now.readable = readable
    BY OfNow DEF Good, Typed
  <2>2. Waiting(Now, flushed) = Unsent
    BY <2>1 DEF Waiting, Unsent
  <2> QED
    BY <2>1, <2>2 DEF Windows, InFlight, Queued
<1> QED
  BY <1>1, Inductive, PTL

\* The two ends agree on the window of the client.
THEOREM SendCredited == Spec => []SendCredit
<1>1. IInv => SendCredit
  <2> SUFFICES ASSUME IInv, terminal = "no"
               PROVE  ch.remoteWindow + Queued("DATA") + srv.received
                        + InFlight({"confirm", "adjust"}) = srv.granted
    BY DEF SendCredit
  <2>1. /\ Windows(Now, inMap, "no", flushed, srv, inbox) /\ Now.tail = tail /\ Now.ch = ch
    BY OfNow DEF Good, Typed
  <2>2. Waiting(Now, flushed) = Unsent
    BY <2>1 DEF Waiting, Unsent
  <2> QED
    BY <2>1, <2>2 DEF Windows, InFlight, Queued
<1> QED
  BY <1>1, Inductive, PTL

\* Of the reasons to end the connection only these are left to the messages of
\* a compliant server.
Surprise == {"dataWhileClosing", "badRequest", "endedUnexpectedly"}

\* The next message never exceeds a window nor comes out of turn.
LEMMA RoutesUnderstood ==
  ASSUME IInv, terminal = "no", inbox # <<>>, MaxGranted <= MaxWindow
  PROVE  /\ RouteError \in Surprise \cup {"no"}
         /\ RouteError = "endedUnexpectedly" => ~ch.closing
<1> DEFINE s == Now
           x == msg
           a == Bytes(Tail(inbox), {"data"})
           b == Bytes(Tail(inbox), {"confirm", "adjust"})
           k == Weight(x, {"data"})
           l == Weight(x, {"confirm", "adjust"})
           i == Bytes(Waiting(s, flushed), {"ADJUST"})
           j == Bytes(Waiting(s, flushed), {"DATA"})
<1>1. /\ s \in State /\ s.ch = ch /\ ch \in ChannelState /\ s.readable = readable
      /\ readable \in ReadableState
      /\ Good(s, inMap, terminal, reader, client, flushed, srv, inbox)
  BY OfNow
<1>2. /\ inbox \in Seq(Messages) /\ srv \in ServerState /\ inMap \in BOOLEAN
      /\ s.tail \in Seq(Packets) /\ (flushed => s.tail # <<>>)
  BY <1>1 DEF Good, Typed, State
<1>3. x \in Messages /\ 1 \in DOMAIN inbox /\ inbox[1] = x
  BY <1>2 DEF msg
<1>4. (\A z \in Packets : z.n \in Nat) /\ \A z \in Messages : z.n \in Nat
  BY DEF Packets, Messages
<1>5. Bytes(inbox, {"data"}) = k + a /\ Bytes(inbox, {"confirm", "adjust"}) = l + b
  BY <1>2, <1>4, BytesTail DEF msg
<1>6. /\ a \in Nat /\ b \in Nat /\ k \in Nat /\ l \in Nat /\ i \in Nat /\ j \in Nat
      /\ srv.window \in Nat /\ srv.granted \in Nat /\ srv.received \in Nat
      /\ ch.receiveWindow \in Nat /\ ch.remoteWindow \in Nat /\ readable.queued \in Nat
      /\ MaxWindow \in Nat /\ Window \in Nat /\ MaxGranted \in Nat /\ srv.granted <= MaxGranted
      /\ x.n \in Nat
  <2>1. Tail(inbox) \in Seq(Messages) /\ Waiting(s, flushed) \in Seq(Packets)
    BY <1>2 DEF Waiting
  <2>2. a \in Nat /\ b \in Nat /\ i \in Nat /\ j \in Nat
    BY <1>4, <2>1, BytesNat
  <2>3. k \in Nat /\ l \in Nat /\ x.n \in Nat
    BY <1>3, <1>4 DEF Weight
  <2> QED
    BY <1>1, <1>2, <2>2, <2>3, SftpAssumption DEF ServerState, ChannelState, ReadableState
<1>7. inMap /\ ~ch.receivedClose /\ ~ch.closed /\ (readable.state # "readable" => ch.closing)
  BY <1>1 DEF Good, Released
<1>8. Ordered(s, TRUE, srv, inbox) /\ Requested(s, srv) /\ Sent(srv)
  BY <1>1, <1>2, <1>7 DEF Good, Answers
<1> HIDE DEF x, s
<1>9. /\ x.type \in srv.sent
      /\ x.type = "confirm" => ~ch.remote
      /\ x.type = "eof" => ~ch.receivedEof
      /\ x.type \in {"success", "failure"} => ch.reply = "pending"
  BY <1>1, <1>3, <1>8 DEF Ordered
<1>10. x.type = "openFailure" => ~ch.remote
  BY <1>1, <1>8, <1>9 DEF Requested, Sent
<1>11. /\ srv.window + (k + a) + i = ch.receiveWindow
       /\ ch.receiveWindow + readable.queued <= Window
       /\ ch.remoteWindow + j + srv.received + (l + b) = srv.granted
  BY <1>1, <1>5, <1>7 DEF Good, Windows
<1> HIDE DEF a, b, i, j
<1>12. k <= ch.receiveWindow /\ k <= Window - readable.queued
  <2>1. \A w, k2, a2, i2, r2, u, z \in Nat :
          w + (k2 + a2) + i2 = r2 /\ r2 + u <= z => k2 <= r2 /\ k2 <= z - u
    OBVIOUS
  <2> HIDE DEF k
  <2> QED
    BY <1>6, <1>11, <2>1
<1>13. l <= MaxWindow - ch.remoteWindow
  <2>1. \A w, j2, r2, l2, b2, g, y, z \in Nat :
          w + j2 + r2 + (l2 + b2) = g /\ g <= y /\ y <= z => l2 <= z - w
    OBVIOUS
  <2> HIDE DEF l
  <2> QED
    BY <1>6, <1>11, <2>1
<1>14. x.type = "data" => ~(x.n > ch.receiveWindow) /\ ~(x.n > Window - readable.queued)
  BY <1>6, <1>12 DEF Weight
<1>15. x.type = "adjust" => ~(x.n > MaxWindow - ch.remoteWindow)
  BY <1>6, <1>13 DEF Weight
<1>16. x.type \in ServerType
  BY <1>3 DEF Messages
<1> DEFINE e == RouteError
<1>17. CASE x.type \in {"confirm", "openFailure", "adjust", "close", "success", "failure"}
  <2>1. e = "no"
    BY <1>7, <1>9, <1>10, <1>15, <1>17 DEF RouteError, x
  <2> QED
    BY <2>1
<1>18. CASE x.type = "data"
  <2>1. CASE ch.closing
    BY <1>7, <1>18, <2>1 DEF RouteError, x, Surprise
  <2>2. CASE ~ch.closing
    <3>1. e = "no"
      BY <1>7, <1>14, <1>18, <2>2 DEF RouteError, x
    <3> QED
      BY <3>1
  <2> QED
    BY <2>1, <2>2
<1>19. CASE x.type = "eof"
  <2>1. CASE ch.closing
    <3>1. e = "no"
      BY <1>7, <1>9, <1>19, <2>1 DEF RouteError, x
    <3> QED
      BY <3>1
  <2>2. CASE ~ch.closing
    <3>1. e = "endedUnexpectedly"
      BY <1>7, <1>9, <1>19, <2>2 DEF RouteError, x
    <3> QED
      BY <2>2, <3>1 DEF Surprise
  <2> QED
    BY <2>1, <2>2
<1>20. CASE x.type = "otherRequest"
  <2>1. e = "badRequest"
    BY <1>7, <1>20 DEF RouteError, x
  <2> QED
    BY <2>1 DEF Surprise
<1> QED
  BY <1>16, <1>17, <1>18, <1>19, <1>20 DEF ServerType

\* A step ends the connection for one of the reasons left.
LEMMA StepsUnderstood ==
  ASSUME IInv, Next, MaxGranted <= MaxWindow, NEW reason \in Reason, Teardown(reason)
  PROVE  /\ reason \in {"closed", "transport", "dataWhileClosing", "badRequest", "endedUnexpectedly"}
         /\ reason = "endedUnexpectedly" => ~ch.closing
<1>1. terminal = "no" /\ terminal' = reason /\ reason # "no"
  BY DEF Teardown, Reason
<1>2. CASE UNCHANGED terminal
  BY <1>1, <1>2
<1>3. CASE Begins
  BY <1>2, <1>3 DEF Begins, ResumeOpened, ResumeReplied, muxVars
<1>4. CASE OpenSftp
  BY <1>2, <1>4 DEF OpenSftp, Connect, Negotiated, OpenFailed, muxVars
<1>5. CASE Writer
  BY <1>2, <1>5 DEF Writer, WriterStep, WriterThrow, muxVars
<1>6. CASE Cancel \/ Take \/ WriteChunk \/ Terminate
  BY <1>2, <1>6 DEF Cancel, Take, WriteChunk, Terminate, muxVars
<1>7. CASE Close
  BY <1>1, <1>7 DEF Close, Fatal
<1>8. CASE Transmit
  BY <1>2, <1>8 DEF Transmit, muxVars
<1>9. ASSUME NEW s, FinishClose(s)
      PROVE  UNCHANGED terminal \/ (~s.ch.closing /\ terminal' = "endedUnexpectedly")
  BY <1>1, <1>9 DEF FinishClose
<1>10. CASE WriteDone
  <2> DEFINE done == [Now EXCEPT !.tail = Tail(@)]
  <2>1. UNCHANGED terminal \/ FinishClose(done)
    BY <1>10 DEF WriteDone, muxVars
  <2>2. done.ch = ch
    BY DEF Now
  <2> HIDE DEF done
  <2> QED
    BY <1>1, <1>2, <1>9, <2>1, <2>2
<1>11. CASE WriteFail
  BY <1>1, <1>11 DEF WriteFail
<1>12. CASE ReadFail
  BY <1>1, <1>12 DEF ReadFail, Fatal
<1>13. CASE RecvError
  <2>1. terminal' = RouteError /\ RouteError # "no" /\ inbox # <<>>
    BY <1>1, <1>13 DEF RecvError, Fatal, Receive
  <2> QED
    BY <1>1, <2>1, RoutesUnderstood DEF Surprise
<1>14. CASE RecvClose
  <2> DEFINE s == [Now EXCEPT !.ch.receivedClose = TRUE]
  <2>1. UNCHANGED terminal \/ FinishClose(s)
    BY <1>14 DEF RecvClose
  <2>2. s.ch.closing = ch.closing
    BY OfNow DEF Now, ChannelState
  <2> HIDE DEF s
  <2> QED
    BY <1>1, <1>2, <1>9, <2>1, <2>2
<1>15. CASE RecvConfirmation \/ RecvOpenFailure \/ RecvAdjust \/ RecvData \/ RecvEof \/ RecvReply
  BY <1>2, <1>15 DEF RecvConfirmation, RecvOpenFailure, RecvAdjust, RecvData, RecvEof, RecvReply, muxVars
<1>16. CASE Server
  BY <1>2, <1>16 DEF Server, Send, muxVars
<1> QED
  BY <1>3, <1>4, <1>5, <1>6, <1>7, <1>8, <1>10, <1>11, <1>12, <1>13, <1>14, <1>15, <1>16 DEF Next, ReadLoop

\* A compliant server is understood: whatever the sizes of the windows, and for
\* every order of its messages, it ends the connection only as the property says.
\* Its grants fit the window field, as RFC 4254 asks of it.
THEOREM ServerUnderstood ==
  ASSUME MaxGranted <= MaxWindow
  PROVE  Spec => CompliantServerUnderstood
<1>1. IInv /\ [Next]_vars =>
        [\A reason \in Reason : Teardown(reason) =>
           /\ reason \in {"closed", "transport", "dataWhileClosing", "badRequest", "endedUnexpectedly"}
           /\ reason = "endedUnexpectedly" => ~ch.closing]_vars
  BY StepsUnderstood
<1> QED
  BY <1>1, Inductive, PTL DEF Spec, CompliantServerUnderstood
=============================================================================
