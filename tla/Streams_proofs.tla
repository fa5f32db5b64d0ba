--------------------------- MODULE Streams_proofs ---------------------------
(***************************************************************************)
(* The components that the bytes of a connection pass through.  The receive *)
(* buffer keeps its stream, for every capacity, limit, size of a packet and *)
(* of a chunk: its ring is stored twice, so the content is the range behind *)
(* `start` however it wraps, and the reader reads a chunk only when none is *)
(* queued, so at most one waits.  The SFTP client takes the packets out of  *)
(* its stream, for every length of a packet and every cut.                  *)
(*                                                                         *)
(* What formatPacket pads, assertPacketLayout accepts, on either side, and *)
(* readPacket gives the payload back, for payloads of any length and blocks *)
(* of any size for which the padding length is one byte.  The reading       *)
(* cipher of a direction takes every packet of the writing one, for         *)
(* counters and sequence numbers of any width: a packet under way was       *)
(* sealed where the one before it left the writer, the first one where the  *)
(* reader stands, and the writer stands behind the last one.                *)
(***************************************************************************)
EXTENDS ByteBuffer, SftpFrames, Cipher, Sums_proofs, SequenceTheorems, FiniteSetTheorems

-----------------------------------------------------------------------------
(* ByteBuffer: the receive buffer of the connection.                       *)

\* The bytes of s are the n that follow the first `base` of the stream.
Run(s, n, base) == s \in Seq(Nat) /\ Len(s) = n /\ \A i \in 1 .. n : s[i] = base + i

\* A ring of capacity cap holds `length` bytes from `start` on, behind `base`.
Held(data, cap, start, length, base) ==
  /\ data \in Seq(Nat) /\ Len(data) = cap + cap
  /\ start \in 0 .. cap - 1 /\ length \in 0 .. cap
  /\ \A i \in 1 .. cap : data[i + cap] = data[i]
  /\ \A j \in 1 .. length : data[start + j] = base + j

\* At most one chunk is queued, and it goes on where the ring ends.
Queued(queue, queued, base) ==
  \/ queue = <<>> /\ queued = 0
  \/ \E chunk \in Seq(Nat) : queue = <<chunk>> /\ queued \in Nat \ {0} /\ Run(chunk, queued, base)

Fields == {"data", "start", "length", "queue", "queued"}

\* The buffer b, of capacity cap, when `base` bytes have been consumed.
Ring(b, cap, base) ==
  /\ base \in Nat /\ cap \in 1 .. MaximumLength
  /\ b = [data |-> b.data, start |-> b.start, length |-> b.length,
          queue |-> b.queue, queued |-> b.queued]
  /\ Held(b.data, cap, b.start, b.length, base)
  /\ Queued(b.queue, b.queued, base + b.length)

-----------------------------------------------------------------------------
(* Numbers and sequences.                                                  *)

\* The ring is half of what is stored.
LEMMA Half ==
  ASSUME NEW n \in Nat
  PROVE  (n + n) \div 2 = n
  BY Z3

\* An index goes round at most once.
LEMMA Wraps ==
  ASSUME NEW n \in Nat, n > 0, NEW x \in 0 .. (n + n) - 1
  PROVE  x % n = IF x < n THEN x ELSE x - n
<1>1. CASE x < n
  BY <1>1, Z3
<1>2. CASE ~(x < n)
  <2> DEFINE r == x % n
  <2>1. r \in 0 .. n - 1
    BY Z3
  <2>2. PICK q \in Int : x = n * q + r
    BY Z3
  <2> HIDE DEF r
  <2>3. CASE q >= 2
    BY <2>1, <2>2, <2>3, Z3
  <2>4. CASE q <= 0
    BY <1>2, <2>1, <2>2, <2>4, Z3
  <2>5. CASE q = 1
    BY <1>2, <2>2, <2>5, Z3 DEF r
  <2> QED
    BY <2>2, <2>3, <2>4, <2>5
<1> QED
  BY <1>1, <1>2

\* The least of the three bounds of a pass.
LEMMA LeastOfThree ==
  ASSUME NEW a \in Nat, NEW b \in Nat, NEW c \in Nat, a > 0, b > 0, c > 0
  PROVE  Min({a, b, c}) \in Nat \ {0} /\ Min({a, b, c}) <= a /\ Min({a, b, c}) <= b
         /\ Min({a, b, c}) <= c
<1> DEFINE S == {a, b, c}
<1>1. S \in SUBSET Nat /\ S # {}
  OBVIOUS
<1> HIDE DEF S
<1>2. \E x \in S : \A y \in S : x <= y
  BY <1>1, Least
<1>3. Min(S) \in S /\ \A y \in S : Min(S) <= y
  BY <1>2 DEF Min
<1> QED
  BY <1>3 DEF S

LEMMA LeastOfTwo ==
  ASSUME NEW a \in Nat, NEW b \in Nat
  PROVE  Min({a, b}) = IF a <= b THEN a ELSE b
<1> DEFINE S == {a, b}
<1>1. S \in SUBSET Nat /\ S # {}
  OBVIOUS
<1> HIDE DEF S
<1>2. \E x \in S : \A y \in S : x <= y
  BY <1>1, Least
<1>3. Min(S) \in S /\ \A y \in S : Min(S) <= y
  BY <1>2 DEF Min
<1> QED
  BY <1>3 DEF S

\* A part of a run is a run.
LEMMA RunPart ==
  ASSUME NEW s, NEW n \in Nat, NEW base \in Nat, Run(s, n, base), NEW k \in 0 .. n
  PROVE  Run(SubSeq(s, 1, k), k, base) /\ Run(SubSeq(s, k + 1, n), n - k, base + k)
  BY DEF Run

\* A queue of one chunk is that chunk.
LEMMA FlatOne ==
  ASSUME NEW s
  PROVE  FlattenSeq(<<s>>) = s
<1> DEFINE q == <<s>>
           f == CHOOSE f : f = [i \in 1 .. Len(q) |-> IF i = 1 THEN q[i] ELSE f[i - 1] \o q[i]]
           g == [i \in 1 .. Len(q) |-> s]
<1>1. Len(q) = 1 /\ q[1] = s
  OBVIOUS
<1> HIDE DEF q
<1>2. g = [i \in 1 .. Len(q) |-> IF i = 1 THEN q[i] ELSE g[i - 1] \o q[i]]
  BY <1>1
<1> HIDE DEF g
<1>3. f = [i \in 1 .. Len(q) |-> IF i = 1 THEN q[i] ELSE f[i - 1] \o q[i]]
  BY <1>2
<1>4. f[1] = s
  <2> HIDE DEF f
  <2> QED
    BY <1>1, <1>3
<1>5. FlattenSeq(q) = f[Len(q)]
  BY <1>1 DEF FlattenSeq
<1> QED
  BY <1>1, <1>4, <1>5 DEF q

LEMMA FlatNone == FlattenSeq(<<>>) = <<>>
  BY DEF FlattenSeq

\* What is queued is a run, whether a chunk is queued or not.
LEMMA FlatRun ==
  ASSUME NEW q, NEW m, NEW base \in Nat, Queued(q, m, base)
  PROVE  Run(FlattenSeq(q), m, base)
<1>1. CASE q = <<>> /\ m = 0
  <2>1. FlattenSeq(q) = <<>>
    BY <1>1, FlatNone
  <2>2. Run(<<>>, 0, base)
    BY DEF Run
  <2> QED
    BY <1>1, <2>1, <2>2
<1>2. CASE \E chunk \in Seq(Nat) : q = <<chunk>> /\ m \in Nat \ {0} /\ Run(chunk, m, base)
  BY <1>2, FlatOne
<1> QED
  BY <1>1, <1>2 DEF Queued

\* Two runs of which the second goes on where the first ends are one.
LEMMA RunsJoined ==
  ASSUME NEW s, NEW t, NEW n \in Nat, NEW m \in Nat, NEW base \in Nat,
         Run(s, n, base), Run(t, m, base + n)
  PROVE  Run(s \o t, n + m, base)
<1>1. /\ s \in Seq(Nat) /\ Len(s) = n /\ \A i \in 1 .. n : s[i] = base + i
      /\ t \in Seq(Nat) /\ Len(t) = m /\ \A i \in 1 .. m : t[i] = (base + n) + i
  BY DEF Run
<1>2. /\ s \o t \in Seq(Nat) /\ Len(s \o t) = n + m
      /\ \A i \in 1 .. n + m : (s \o t)[i] = IF i <= n THEN s[i] ELSE t[i - n]
  BY <1>1, ConcatProperties, ZenonT(60)
<1>3. \A i \in 1 .. n + m : (s \o t)[i] = base + i
  <2> TAKE i \in 1 .. n + m
  <2>1. CASE i <= n
    BY <1>1, <1>2, <2>1
  <2>2. CASE ~(i <= n)
    <3>1. i - n \in 1 .. m /\ (base + n) + (i - n) = base + i
      BY <2>2
    <3> QED
      BY <1>1, <1>2, <2>2, <3>1
  <2> QED
    BY <2>1, <2>2
<1> QED
  BY <1>2, <1>3 DEF Run

\* A run is what the property says it is.
LEMMA RunIs ==
  ASSUME NEW s, NEW n \in Nat, NEW base \in Nat, Run(s, n, base)
  PROVE  s = [i \in 1..n |-> base + i]
<1> DEFINE all == [i \in 1..n |-> base + i]
<1>1. all \in [1..n -> Nat]
  OBVIOUS
<1>2. all \in Seq(Nat) /\ Len(all) = n /\ \A i \in 1 .. n : all[i] = base + i
  BY <1>1
<1> HIDE DEF all
<1>3. s = all
  BY <1>2, SeqEqual DEF Run
<1> QED
  BY <1>3 DEF all

-----------------------------------------------------------------------------
(* The ring.                                                               *)

\* The ring t is data with `count` bytes, behind `base`, at a position and in the other half.
Twice(data, t, cap, position, count, base) ==
  /\ t \in Seq(Nat) /\ Len(t) = cap + cap
  /\ \A i \in 1 .. cap : data[i + cap] = data[i] => t[i + cap] = t[i]
  /\ \A i \in 1 .. count : t[position + i] = base + i /\ t[cap + position + i] = base + i
  /\ \A i \in 1 .. cap + cap :
       i <= position \/ (i > position + count /\ i <= cap + position) \/ i > cap + position + count
         => t[i] = data[i]

\* What is stored at a position is there and in the other half, and nothing else
\* moves (client.ts:1219-1221).
LEMMA StoredTwice ==
  ASSUME NEW data \in Seq(Nat), NEW cap \in Nat, cap > 0, Len(data) = cap + cap,
         NEW position \in 0 .. cap, NEW count \in Nat, position + count <= cap,
         NEW base \in Nat, NEW bytes, Run(bytes, count, base),
         NEW t, t = Stored(data, position, bytes)
  PROVE  Twice(data, t, cap, position, count, base)
<1> DEFINE In(i) == i > position /\ i <= position + count
           u == [i \in 1 .. cap + cap |->
                   IF In(i) THEN bytes[i - position]
                   ELSE IF i > cap /\ In(i - cap) THEN bytes[i - cap - position] ELSE data[i]]
<1>1. /\ Len(bytes) = count /\ \A i \in 1 .. count : bytes[i] = base + i /\ bytes[i] \in Nat
  BY DEF Run
<1>2. Len(data) \div 2 = cap
  BY Half
<1>3. t = u
  <2>1. DOMAIN data = 1 .. cap + cap
    OBVIOUS
  <2> QED
    BY <1>1, <1>2, <2>1 DEF Stored
<1>4. \A i \in 1 .. cap + cap : data[i] \in Nat
  OBVIOUS
<1>5. \A i \in 1 .. cap + cap : u[i] \in Nat
  <2> TAKE i \in 1 .. cap + cap
  <2>1. CASE In(i)
    BY <1>1, <2>1
  <2>2. CASE ~In(i) /\ i > cap /\ In(i - cap)
    BY <1>1, <2>2
  <2>3. CASE ~In(i) /\ ~(i > cap /\ In(i - cap))
    BY <1>4, <2>3
  <2> QED
    BY <2>1, <2>2, <2>3
<1>6. u \in Seq(Nat) /\ Len(u) = cap + cap
  <2> HIDE DEF u
  <2>1. u = [i \in 1 .. cap + cap |-> u[i]]
    BY DEF u
  <2>2. u \in [1 .. cap + cap -> Nat] /\ cap + cap \in Nat
    BY <1>5, <2>1
  <2> QED
    BY <2>2
<1>7. ASSUME NEW i \in 1 .. cap, data[i + cap] = data[i]
      PROVE  u[i + cap] = u[i]
  <2>1. i + cap \in 1 .. cap + cap /\ ~In(i + cap) /\ i + cap - cap = i /\ i + cap > cap
    OBVIOUS
  <2>2. u[i + cap] = IF In(i) THEN bytes[i - position] ELSE data[i + cap]
    BY <2>1
  <2>3. u[i] = IF In(i) THEN bytes[i - position] ELSE data[i]
    OBVIOUS
  <2> QED
    BY <1>7, <2>2, <2>3
<1>8. ASSUME NEW i \in 1 .. count
      PROVE  u[position + i] = base + i /\ u[cap + position + i] = base + i
  <2>1. position + i \in 1 .. cap /\ In(position + i) /\ position + i - position = i
    OBVIOUS
  <2>2. u[position + i] = base + i
    BY <1>1, <2>1
  <2>3. /\ cap + position + i \in 1 .. cap + cap /\ ~In(cap + position + i)
        /\ cap + position + i > cap /\ cap + position + i - cap = position + i
        /\ cap + position + i - cap - position = i
    BY <2>1
  <2>4. u[cap + position + i] = base + i
    BY <1>1, <2>1, <2>3
  <2> QED
    BY <2>2, <2>4
<1>9. ASSUME NEW i \in 1 .. cap + cap,
             i <= position \/ (i > position + count /\ i <= cap + position) \/ i > cap + position + count
      PROVE  u[i] = data[i]
  <2>1. ~In(i) /\ ~(i > cap /\ In(i - cap))
    BY <1>9
  <2> QED
    BY <2>1
<1> QED
  <2> HIDE DEF u
  <2> QED
    BY <1>3, <1>6, <1>7, <1>8, <1>9 DEF Twice

\* Bytes stored where the content ends extend it, also when that wraps
\* (client.ts:1213-1224).
LEMMA HeldMore ==
  ASSUME NEW data, NEW cap \in Nat, cap > 0, NEW start, NEW length, NEW base \in Nat,
         Held(data, cap, start, length, base),
         NEW position, position = IF start + length < cap THEN start + length ELSE start + length - cap,
         NEW count \in Nat, count <= cap - length, count <= cap - position,
         NEW bytes, Run(bytes, count, base + length)
  PROVE  Held(Stored(data, position, bytes), cap, start, length + count, base)
<1> DEFINE t == Stored(data, position, bytes)
<1>1. /\ data \in Seq(Nat) /\ Len(data) = cap + cap /\ start \in 0 .. cap - 1 /\ length \in 0 .. cap
      /\ \A i \in 1 .. cap : data[i + cap] = data[i]
      /\ \A j \in 1 .. length : data[start + j] = base + j
  BY DEF Held
<1>2. position \in 0 .. cap /\ position + count <= cap /\ base + length \in Nat
  BY <1>1
<1> DEFINE end == base + length
<1>a. end \in Nat /\ Run(bytes, count, end)
  BY <1>2
<1> HIDE DEF end
<1>b. t = Stored(data, position, bytes)
  OBVIOUS
<1> HIDE DEF t
<1>3. /\ t \in Seq(Nat) /\ Len(t) = cap + cap
      /\ \A i \in 1 .. cap : data[i + cap] = data[i] => t[i + cap] = t[i]
      /\ \A i \in 1 .. count :
           t[position + i] = end + i /\ t[cap + position + i] = end + i
      /\ \A i \in 1 .. cap + cap :
           i <= position \/ (i > position + count /\ i <= cap + position) \/ i > cap + position + count
             => t[i] = data[i]
  <2>1. Twice(data, t, cap, position, count, end)
    BY <1>a, <1>b, <1>1, <1>2, StoredTwice
  <2> QED
    BY <2>1 DEF Twice
<1>4. ASSUME NEW j \in 1 .. length + count
      PROVE  t[start + j] = base + j
  <2>1. CASE j <= length
    <3>1. /\ start + j \in 1 .. cap + cap
          /\ \/ start + j <= position
             \/ start + j > position + count /\ start + j <= cap + position
      BY <1>1, <1>2, <2>1
    <3> QED
      BY <1>1, <1>3, <2>1, <3>1
  <2>2. CASE j > length
    <3> DEFINE i == j - length
    <3>1. i \in 1 .. count /\ end + i = base + j
      BY <1>1, <2>2 DEF end
    <3>2. start + j = position + i \/ start + j = cap + position + i
      BY <1>1
    <3> HIDE DEF i
    <3> QED
      BY <1>3, <3>1, <3>2
  <2> QED
    BY <1>1, <2>1, <2>2
<1>5. length + count \in 0 .. cap
  BY <1>1
<1> QED
  BY <1>1, <1>3, <1>4, <1>5 DEF Held, t

\* Consumed bytes leave the front (client.ts:1183-1189).
LEMMA HeldLess ==
  ASSUME NEW data, NEW cap \in Nat, cap > 0, NEW start, NEW length, NEW base \in Nat,
         Held(data, cap, start, length, base), NEW n \in 0 .. length,
         NEW next, next = IF length = n THEN 0 ELSE IF start + n < cap THEN start + n ELSE start + n - cap
  PROVE  Held(data, cap, next, length - n, base + n)
<1>1. /\ data \in Seq(Nat) /\ Len(data) = cap + cap /\ start \in 0 .. cap - 1 /\ length \in 0 .. cap
      /\ \A i \in 1 .. cap : data[i + cap] = data[i]
      /\ \A j \in 1 .. length : data[start + j] = base + j
  BY DEF Held
<1>2. next \in 0 .. cap - 1 /\ length - n \in 0 .. cap
  BY <1>1
<1>3. ASSUME NEW j \in 1 .. length - n
      PROVE  data[next + j] = (base + n) + j
  <2>1. n + j \in 1 .. length /\ start + (n + j) = start + n + j /\ base + (n + j) = (base + n) + j
    BY <1>1
  <2>2. data[start + n + j] = (base + n) + j
    BY <1>1, <2>1
  <2>3. CASE start + n < cap
    BY <1>1, <2>2, <2>3
  <2>4. CASE ~(start + n < cap)
    <3>1. next + j \in 1 .. cap /\ (next + j) + cap = start + n + j
      BY <1>1, <2>4
    <3> QED
      BY <1>1, <2>2, <3>1
  <2> QED
    BY <2>3, <2>4
<1> QED
  BY <1>1, <1>2, <1>3 DEF Held

-----------------------------------------------------------------------------
(* The operations.                                                         *)

\* What is known of a buffer.
LEMMA RingFacts ==
  ASSUME NEW b, NEW cap, NEW base, Ring(b, cap, base)
  PROVE  /\ base \in Nat /\ cap \in Nat /\ cap > 0 /\ cap <= MaximumLength /\ MaximumLength \in Nat
         /\ b.start \in 0 .. cap - 1 /\ b.length \in 0 .. cap /\ b.queued \in Nat
         /\ Capacity(b) = cap /\ (Full(b) <=> b.length = cap)
         /\ Held(b.data, cap, b.start, b.length, base)
         /\ Queued(b.queue, b.queued, base + b.length)
<1>1. /\ base \in Nat /\ cap \in Nat /\ cap > 0 /\ cap <= MaximumLength /\ MaximumLength \in Nat
      /\ Held(b.data, cap, b.start, b.length, base)
      /\ Queued(b.queue, b.queued, base + b.length)
  BY BufferAssumption DEF Ring
<1>2. b.start \in 0 .. cap - 1 /\ b.length \in 0 .. cap /\ Len(b.data) = cap + cap
  BY <1>1 DEF Held
<1>3. Capacity(b) = cap
  BY <1>1, <1>2, Half DEF Capacity
<1>4. b.queued \in Nat
  BY <1>1 DEF Queued
<1> QED
  BY <1>1, <1>2, <1>3, <1>4 DEF Full

\* A pass of #fill moves bytes from the chunk to the ring (client.ts:1214-1228).
LEMMA PassKept ==
  ASSUME NEW b, NEW cap, NEW base, Ring(b, cap, base), ~Filled(b)
  PROVE  /\ Ring(Pass(b), cap, base)
         /\ Pass(b).length + Pass(b).queued = b.length + b.queued /\ Pass(b).queued < b.queued
<1> DEFINE chunk == Head(b.queue)
           position == (b.start + b.length) % Capacity(b)
           count == Min({Capacity(b) - b.length, Capacity(b) - position, Len(chunk)})
           rest == SubSeq(chunk, count + 1, Len(chunk))
           part == SubSeq(chunk, 1, count)
           end == base + b.length
           t == [data |-> Stored(b.data, position, part), start |-> b.start,
                 length |-> b.length + count, queue |-> IF rest = <<>> THEN <<>> ELSE <<rest>>,
                 queued |-> b.queued - count]
<1>1. /\ base \in Nat /\ cap \in Nat /\ cap > 0 /\ cap <= MaximumLength
      /\ b.start \in 0 .. cap - 1 /\ b.length \in 0 .. cap /\ b.queued \in Nat
      /\ Capacity(b) = cap /\ b.length # cap
      /\ Held(b.data, cap, b.start, b.length, base)
      /\ Queued(b.queue, b.queued, end) /\ end \in Nat
  BY RingFacts DEF Filled
<1>2. b.queue = <<chunk>> /\ b.queued > 0 /\ Run(chunk, b.queued, end) /\ Len(chunk) = b.queued
  BY <1>1, SMTT(60) DEF Queued, Run, Filled
<1>3. /\ position = IF b.start + b.length < cap THEN b.start + b.length ELSE b.start + b.length - cap
      /\ position \in 0 .. cap - 1
  <2>1. b.start + b.length \in 0 .. (cap + cap) - 1
    BY <1>1
  <2> QED
    BY <1>1, <2>1, Wraps, SMTT(60)
<1>4. /\ count \in Nat \ {0} /\ count <= cap - b.length /\ count <= cap - position
      /\ count <= b.queued
  <2> HIDE DEF position, chunk
  <2>1. cap - b.length \in Nat \ {0} /\ cap - position \in Nat \ {0} /\ b.queued \in Nat \ {0}
    <3> DEFINE length == b.length
               queued == b.queued
    <3>1. cap \in Nat /\ length \in 0 .. cap /\ length # cap /\ queued \in Nat /\ queued > 0
      BY <1>1, <1>2
    <3>2. position \in 0 .. cap - 1
      BY <1>3
    <3> HIDE DEF length, queued
    <3>3. cap - length \in Nat \ {0} /\ cap - position \in Nat \ {0} /\ queued \in Nat \ {0}
      BY <3>1, <3>2
    <3> QED
      BY <3>3 DEF length, queued
  <2>2. count = Min({cap - b.length, cap - position, b.queued})
    BY <1>1, <1>2
  <2> HIDE DEF count
  <2> QED
    BY <2>1, <2>2, LeastOfThree
<1> HIDE DEF position, chunk
<1>5. Run(part, count, end) /\ Run(rest, b.queued - count, end + count)
  <2> HIDE DEF count, end
  <2>1. count \in 0 .. b.queued
    BY <1>1, <1>4
  <2> QED
    BY <1>1, <1>2, <2>1, RunPart
<1>6. rest \in Seq(Nat) /\ Len(rest) = b.queued - count
  BY <1>5 DEF Run
<1>7. Pass(b) = t
  <2>1. b.queue # <<>> /\ Tail(b.queue) = <<>> /\ <<rest>> \o <<>> = <<rest>>
    BY <1>2
  <2>2. b = [data |-> b.data, start |-> b.start, length |-> b.length,
             queue |-> b.queue, queued |-> b.queued]
    BY DEF Ring
  <2>3. Pass(b) = [b EXCEPT !.data = Stored(@, position, part), !.length = @ + count,
                            !.queue = IF rest = <<>> THEN Tail(@) ELSE <<rest>> \o Tail(@),
                            !.queued = @ - count]
    BY DEF Pass, position, chunk
  <2> HIDE DEF count, part, rest
  <2> QED
    BY <2>1, <2>2, <2>3
<1> HIDE DEF count, rest
<1>8. Held(Stored(b.data, position, part), cap, b.start, b.length + count, base)
  <2> HIDE DEF part
  <2> QED
    BY <1>1, <1>3, <1>4, <1>5, HeldMore DEF end
<1>9. Queued(IF rest = <<>> THEN <<>> ELSE <<rest>>, b.queued - count, base + (b.length + count))
  <2>1. base + (b.length + count) = end + count
    BY <1>1, <1>4
  <2>2. CASE rest = <<>>
    BY <1>1, <1>4, <1>6, <2>2 DEF Queued
  <2>3. CASE rest # <<>>
    <3>1. b.queued - count \in Nat \ {0}
      BY <1>1, <1>4, <1>6, <2>3
    <3> QED
      BY <1>5, <1>6, <2>1, <2>3, <3>1 DEF Queued
  <2> QED
    BY <2>2, <2>3
<1>10. Ring(t, cap, base)
  <2>1. cap \in 1 .. MaximumLength
    BY DEF Ring
  <2> HIDE DEF part
  <2> QED
    BY <1>1, <1>8, <1>9, <2>1 DEF Ring
<1>11. t.length + t.queued = b.length + b.queued /\ t.queued < b.queued
  <2>1. t.length = b.length + count /\ t.queued = b.queued - count
    OBVIOUS
  <2> HIDE DEF t
  <2> QED
    BY <1>1, <1>4, <2>1
<1> QED
  BY <1>7, <1>10, <1>11

-----------------------------------------------------------------------------
(* The passes of #fill, up to a number of them.                            *)
PassesTo(b, k, f) ==
  f = [n \in 0 .. k |->
         IF n = 0 THEN b
         ELSE IF Filled(f[n - 1]) THEN f[n - 1] ELSE Pass(f[n - 1])]

LEMMA PassesExist ==
  ASSUME NEW b, NEW m \in Nat
  PROVE  \E f : PassesTo(b, m, f)
<1> DEFINE S == {k \in 0 .. m : \E f : PassesTo(b, k, f)}
<1>1. 0 \in S
  <2> DEFINE z == [i \in 0 .. 0 |-> b]
  <2>1. z = [n \in 0 .. 0 |->
               IF n = 0 THEN b ELSE IF Filled(z[n - 1]) THEN z[n - 1] ELSE Pass(z[n - 1])]
    OBVIOUS
  <2> HIDE DEF z
  <2>2. PassesTo(b, 0, z)
    BY <2>1 DEF PassesTo
  <2> QED
    BY <2>2
<1>2. \A k \in 0 .. m : k \in S /\ k < m => k + 1 \in S
  <2> TAKE k \in 0 .. m
  <2> HAVE k \in S /\ k < m
  <2>1. PICK f : PassesTo(b, k, f)
    OBVIOUS
  <2> DEFINE last == IF Filled(f[k]) THEN f[k] ELSE Pass(f[k])
             g == [n \in 0 .. (k + 1) |-> IF n = k + 1 THEN last ELSE f[n]]
             h == [n \in 0 .. (k + 1) |->
                     IF n = 0 THEN b ELSE IF Filled(g[n - 1]) THEN g[n - 1] ELSE Pass(g[n - 1])]
  <2>2. \A n \in 0 .. (k + 1) : g[n] = h[n]
    <3> TAKE n \in 0 .. (k + 1)
    <3>1. CASE n = k + 1
      <4>1. n # 0 /\ n - 1 = k /\ k \in 0 .. (k + 1) /\ k # k + 1
        BY <3>1
      <4>2. g[n - 1] = f[k] /\ g[n] = last
        BY <3>1, <4>1
      <4> HIDE DEF g
      <4> QED
        BY <4>1, <4>2
    <3>2. CASE n # k + 1
      <4>1. n \in 0 .. k
        BY <3>2
      <4>2. f[n] = IF n = 0 THEN b ELSE IF Filled(f[n - 1]) THEN f[n - 1] ELSE Pass(f[n - 1])
        BY <2>1, <4>1 DEF PassesTo
      <4>3. g[n] = f[n]
        BY <3>2
      <4>4. n # 0 => g[n - 1] = f[n - 1]
        <5>1. n # 0 => n - 1 \in 0 .. (k + 1) /\ n - 1 # k + 1
          BY <4>1
        <5> QED
          BY <5>1
      <4> HIDE DEF g
      <4> QED
        BY <4>2, <4>3, <4>4
    <3> QED
      BY <3>1, <3>2
  <2>3. g = h
    <3> HIDE DEF last
    <3> QED
      BY <2>2
  <2>4. PassesTo(b, k + 1, g)
    BY <2>3 DEF PassesTo
  <2> HIDE DEF g
  <2> QED
    BY <2>4
<1>3. S = 0 .. m
  <2> HIDE DEF S
  <2>1. S \in SUBSET (0 .. m)
    BY DEF S
  <2> QED
    BY <1>1, <1>2, <2>1, UpTo
<1> QED
  BY <1>3

\* #fill loses nothing, and leaves a chunk in the queue only if the ring is full
\* (client.ts:1213-1230).
LEMMA FillKept ==
  ASSUME NEW b, NEW cap, NEW base, Ring(b, cap, base), NEW t, t = Fill(b)
  PROVE  Ring(t, cap, base) /\ t.length + t.queued = b.length + b.queued /\ Filled(t)
<1> DEFINE m == b.queued
           f == CHOOSE f : PassesTo(b, m, f)
           Good(n) == /\ Ring(f[n], cap, base) /\ f[n].length + f[n].queued = b.length + b.queued
                      /\ Filled(f[n]) \/ f[n].queued <= m - n
           S == {n \in 0 .. m : Good(n)}
<1>1. m \in Nat /\ b.length \in Nat
  BY RingFacts
<1>2. PassesTo(b, m, f)
  BY <1>1, PassesExist
<1>3. Fill(b) = f[m]
  BY DEF Fill, PassesTo
<1> HIDE DEF f
<1>4. /\ f[0] = b
      /\ \A n \in 0 .. m : n < m => f[n + 1] = IF Filled(f[n]) THEN f[n] ELSE Pass(f[n])
  <2>1. f[0] = b
    BY <1>1, <1>2 DEF PassesTo
  <2>2. ASSUME NEW n \in 0 .. m, n < m
        PROVE  f[n + 1] = IF Filled(f[n]) THEN f[n] ELSE Pass(f[n])
    <3>1. n + 1 \in 0 .. m /\ n + 1 # 0 /\ n + 1 - 1 = n
      BY <1>1, <2>2
    <3> HIDE DEF m
    <3> QED
      BY <1>2, <3>1 DEF PassesTo
  <2> QED
    BY <2>1, <2>2
<1>5. 0 \in S
  BY <1>1, <1>4
<1>6. \A n \in 0 .. m : n \in S /\ n < m => n + 1 \in S
  <2> SUFFICES ASSUME NEW n \in 0 .. m, Good(n), n < m PROVE Good(n + 1)
    BY <1>1
  <2>1. /\ Ring(f[n], cap, base) /\ f[n].length + f[n].queued = b.length + b.queued
        /\ Filled(f[n]) \/ f[n].queued <= m - n
    OBVIOUS
  <2>2. CASE Filled(f[n])
    <3>1. f[n + 1] = f[n]
      BY <1>4, <2>2
    <3> HIDE DEF m
    <3> QED
      BY <2>1, <2>2, <3>1
  <2>3. CASE ~Filled(f[n])
    <3>1. f[n + 1] = Pass(f[n])
      BY <1>4, <2>3
    <3>2. /\ Ring(Pass(f[n]), cap, base)
          /\ Pass(f[n]).length + Pass(f[n]).queued = f[n].length + f[n].queued
          /\ Pass(f[n]).queued < f[n].queued
      BY <2>1, <2>3, PassKept
    <3>3. f[n].queued \in Nat /\ Pass(f[n]).queued \in Nat
      BY <2>1, <3>2, RingFacts
    <3>4. Pass(f[n]).queued <= m - (n + 1)
      <4> HIDE DEF m
      <4> QED
        BY <1>1, <2>1, <2>3, <3>2, <3>3
    <3> QED
      BY <2>1, <3>1, <3>2, <3>4
  <2> QED
    BY <2>2, <2>3
<1>7. S = 0 .. m
  <2> HIDE DEF S
  <2>1. S \in SUBSET (0 .. m)
    BY DEF S
  <2> QED
    BY <1>1, <1>5, <1>6, <2>1, UpTo
<1>8. Good(m)
  <2> HIDE DEF Good
  <2> QED
    BY <1>1, <1>7
<1>9. Filled(f[m])
  <2>1. CASE f[m].queued <= 0
    <3>1. f[m].queued \in Nat /\ Queued(f[m].queue, f[m].queued, base + f[m].length)
      BY <1>8, RingFacts
    <3> QED
      BY <2>1, <3>1 DEF Queued, Filled
  <2> QED
    BY <1>1, <1>8, <2>1
<1> QED
  BY <1>3, <1>8, <1>9

\* consume takes the first bytes of the content (client.ts:1183-1191).
LEMMA ConsumeKept ==
  ASSUME NEW b, NEW cap, NEW base, Ring(b, cap, base), NEW n \in 0 .. b.length,
         NEW t, t = Consume(b, n)
  PROVE  Ring(t, cap, base + n) /\ t.length + t.queued = (b.length - n) + b.queued /\ Filled(t)
<1> DEFINE next == IF b.length = n THEN 0 ELSE (b.start + n) % Capacity(b)
           r == [data |-> b.data, start |-> next, length |-> b.length - n,
                 queue |-> b.queue, queued |-> b.queued]
<1>1. /\ base \in Nat /\ cap \in Nat /\ cap > 0
      /\ b.start \in 0 .. cap - 1 /\ b.length \in 0 .. cap /\ b.queued \in Nat
      /\ Capacity(b) = cap
      /\ Held(b.data, cap, b.start, b.length, base)
      /\ Queued(b.queue, b.queued, base + b.length)
  BY RingFacts
<1>2. next = IF b.length = n THEN 0
             ELSE IF b.start + n < cap THEN b.start + n ELSE b.start + n - cap
  <2>1. CASE b.length = n
    BY <2>1
  <2>2. CASE b.length # n
    <3>1. b.start + n \in 0 .. (cap + cap) - 1
      BY <1>1
    <3> QED
      BY <1>1, <2>2, <3>1, Wraps
  <2> QED
    BY <2>1, <2>2
<1>3. t = Fill(r)
  <2>1. b = [data |-> b.data, start |-> b.start, length |-> b.length,
             queue |-> b.queue, queued |-> b.queued]
    BY DEF Ring
  <2> DEFINE u == [b EXCEPT !.start = IF b.length = n THEN 0 ELSE (@ + n) % Capacity(b),
                            !.length = @ - n]
  <2>2. u = [b EXCEPT !.start = next, !.length = b.length - n]
    OBVIOUS
  <2>3. t = Fill(u)
    BY DEF Consume
  <2> HIDE DEF u, next
  <2>4. u = r
    BY <2>1, <2>2
  <2> QED
    BY <2>3, <2>4
<1> HIDE DEF next
<1>4. Held(b.data, cap, next, b.length - n, base + n)
  BY <1>1, <1>2, HeldLess
<1>5. (base + n) + (b.length - n) = base + b.length /\ base + n \in Nat /\ cap \in 1 .. MaximumLength
  BY <1>1 DEF Ring
<1>6. Ring(r, cap, base + n)
  BY <1>1, <1>4, <1>5 DEF Ring
<1>7. r.length = b.length - n /\ r.queued = b.queued
  OBVIOUS
<1> HIDE DEF r
<1> QED
  BY <1>3, <1>6, <1>7, FillKept

\* append puts a chunk behind the content, when none is queued (client.ts:1173-1181).
LEMMA EnqueueKept ==
  ASSUME NEW b, NEW cap, NEW base, Ring(b, cap, base), b.queue = <<>>,
         NEW n \in Nat, NEW chunk, Run(chunk, n, base + b.length), NEW t, t = Enqueue(b, chunk)
  PROVE  Ring(t, cap, base) /\ t.length + t.queued = b.length + b.queued + n /\ Filled(t)
<1> DEFINE r == [data |-> b.data, start |-> b.start, length |-> b.length,
                 queue |-> <<chunk>>, queued |-> n]
<1>1. /\ base \in Nat /\ b.length \in Nat /\ b.queued = 0 /\ cap \in 1 .. MaximumLength
      /\ Held(b.data, cap, b.start, b.length, base)
  <2>1. /\ base \in Nat /\ b.length \in Nat /\ cap \in 1 .. MaximumLength
        /\ Held(b.data, cap, b.start, b.length, base) /\ Queued(b.queue, b.queued, base + b.length)
    <3>1. /\ base \in Nat /\ b.length \in 0 .. cap /\ cap \in Nat
          /\ Held(b.data, cap, b.start, b.length, base) /\ Queued(b.queue, b.queued, base + b.length)
      BY RingFacts
    <3>2. cap \in 1 .. MaximumLength
      BY DEF Ring
    <3> QED
      BY <3>1, <3>2
  <2> QED
    BY <2>1 DEF Queued
<1>2. chunk \in Seq(Nat) /\ Len(chunk) = n
  BY DEF Run
<1>3. CASE n = 0
  <2>1. chunk = <<>>
    BY <1>2, <1>3
  <2> QED
    BY <1>1, <1>3, <2>1 DEF Enqueue, Filled
<1>4. CASE n # 0
  <2>1. t = Fill(r)
    <3>1. b = [data |-> b.data, start |-> b.start, length |-> b.length,
               queue |-> b.queue, queued |-> b.queued]
      BY DEF Ring
    <3>2. chunk # <<>> /\ Append(b.queue, chunk) = <<chunk>> /\ b.queued + Len(chunk) = n
      BY <1>1, <1>2, <1>4
    <3> DEFINE u == [b EXCEPT !.queue = Append(@, chunk), !.queued = @ + Len(chunk)]
    <3>3. u = [b EXCEPT !.queue = <<chunk>>, !.queued = n]
      BY <3>2
    <3>4. t = Fill(u)
      BY <3>2 DEF Enqueue
    <3> HIDE DEF u
    <3>5. u = r
      BY <3>1, <3>3
    <3> QED
      BY <3>4, <3>5
  <2>2. Queued(<<chunk>>, n, base + b.length)
    BY <1>2, <1>4 DEF Queued
  <2>3. Ring(r, cap, base)
    BY <1>1, <2>2 DEF Ring
  <2>4. r.length = b.length /\ r.queued = n
    OBVIOUS
  <2> HIDE DEF r
  <2>5. Ring(t, cap, base) /\ t.length + t.queued = r.length + r.queued /\ Filled(t)
    BY <2>1, <2>3, FillKept
  <2> QED
    BY <1>1, <2>4, <2>5
<1> QED
  BY <1>3, <1>4

\* The content is the run behind what has been consumed (client.ts:1169-1171).
LEMMA ContentRun ==
  ASSUME NEW b, NEW cap, NEW base, Ring(b, cap, base)
  PROVE  Run(Contents(b), b.length, base)
<1> DEFINE content == Contents(b)
<1>1. /\ base \in Nat /\ cap \in Nat /\ b.start \in 0 .. cap - 1 /\ b.length \in 0 .. cap
      /\ Held(b.data, cap, b.start, b.length, base)
  BY RingFacts
<1>2. /\ b.data \in Seq(Nat) /\ Len(b.data) = cap + cap
      /\ \A j \in 1 .. b.length : b.data[b.start + j] = base + j
  BY <1>1 DEF Held
<1>3. /\ b.start + 1 \in Int /\ b.start + b.length \in Int
      /\ (b.start + b.length) - (b.start + 1) + 1 = b.length
      /\ ~(b.start + 1 <= b.start + b.length) => b.length = 0
  BY <1>1
<1>4. \A i \in b.start + 1 .. b.start + b.length : b.data[i] \in Nat
  <2> TAKE i \in b.start + 1 .. b.start + b.length
  <2>1. i \in 1 .. Len(b.data)
    BY <1>1, <1>2
  <2> QED
    BY <1>2, <2>1
<1>5. /\ content \in Seq(Nat) /\ Len(content) = b.length
      /\ \A j \in 1 .. b.length : content[j] = b.data[(b.start + 1) + j - 1]
  BY <1>3, <1>4, SubSeqProperties DEF Contents
<1> HIDE DEF content
<1>6. ASSUME NEW j \in 1 .. b.length PROVE content[j] = base + j
  <2>1. content[j] = b.data[(b.start + 1) + j - 1] /\ (b.start + 1) + j - 1 = b.start + j
    BY <1>1, <1>5
  <2> QED
    BY <1>2, <2>1
<1> QED
  BY <1>5, <1>6 DEF Run, content

LEMMA ContentLength ==
  ASSUME NEW b, NEW cap, NEW base, Ring(b, cap, base)
  PROVE  Len(Contents(b)) = b.length
  BY ContentRun DEF Run

\* #grow moves the content to the front of a longer ring (client.ts:1242-1252).
LEMMA GrowKept ==
  ASSUME NEW b, NEW cap, NEW base, Ring(b, cap, base), Growable(b),
         NEW t, t = Grow(b)
  PROVE  /\ \E larger : larger > cap /\ Ring(t, larger, base)
         /\ t.length = b.length /\ t.queued = b.queued /\ t.queue = b.queue
<1> DEFINE larger == Min({MaximumLength, 2 * Capacity(b)})
           empty == [i \in 1 .. (2 * larger) |-> 0]
           content == Contents(b)
           u == Stored(empty, 0, content)
           r == [data |-> u, start |-> 0, length |-> b.length, queue |-> b.queue, queued |-> b.queued]
<1>1. /\ base \in Nat /\ cap \in Nat /\ cap > 0 /\ cap <= MaximumLength /\ MaximumLength \in Nat
      /\ b.start \in 0 .. cap - 1 /\ b.length \in 0 .. cap
      /\ Capacity(b) = cap
      /\ Held(b.data, cap, b.start, b.length, base)
      /\ Queued(b.queue, b.queued, base + b.length)
  BY RingFacts
<1>2. larger \in Nat /\ larger > cap /\ larger <= MaximumLength
  <2>1. cap # MaximumLength /\ 2 * cap \in Nat /\ 2 * cap > cap
    BY <1>1 DEF Growable
  <2>2. larger = IF MaximumLength <= 2 * cap THEN MaximumLength ELSE 2 * cap
    <3>1. larger = Min({MaximumLength, 2 * cap})
      BY <1>1
    <3> HIDE DEF larger
    <3> QED
      BY <1>1, <2>1, <3>1, LeastOfTwo
  <2> HIDE DEF larger
  <2> QED
    BY <1>1, <2>1, <2>2
<1>3. Run(content, b.length, base)
  BY ContentRun
<1>4. t = r
  <2>1. b = [data |-> b.data, start |-> b.start, length |-> b.length,
             queue |-> b.queue, queued |-> b.queued]
    BY DEF Ring
  <2>2. t = [b EXCEPT !.data = u, !.start = 0]
    BY DEF Grow
  <2> HIDE DEF u
  <2> QED
    BY <2>1, <2>2
<1> HIDE DEF larger, content
<1>5. Held(u, larger, 0, b.length, base)
  <2>1. empty \in Seq(Nat) /\ Len(empty) = larger + larger
        /\ \A i \in 1 .. larger : empty[i + larger] = empty[i]
    <3>1. 2 * larger \in Nat /\ 2 * larger = larger + larger
      BY <1>2
    <3>2. empty \in [1 .. 2 * larger -> Nat]
      OBVIOUS
    <3>3. \A i \in 1 .. larger : i \in 1 .. 2 * larger /\ i + larger \in 1 .. 2 * larger
      BY <1>2, <3>1
    <3> QED
      BY <3>1, <3>2, <3>3
  <2>2. 0 \in 0 .. larger /\ 0 + b.length <= larger /\ b.length \in Nat /\ larger > 0
    BY <1>1, <1>2
  <2> HIDE DEF empty
  <2>3. Twice(empty, u, larger, 0, b.length, base)
    BY <1>1, <1>2, <1>3, <2>1, <2>2, StoredTwice
  <2> HIDE DEF u
  <2>4. \A j \in 1 .. b.length : u[0 + j] = base + j
    BY <2>3 DEF Twice
  <2>5. \A i \in 1 .. larger : u[i + larger] = u[i]
    BY <2>1, <2>3 DEF Twice
  <2>6. u \in Seq(Nat) /\ Len(u) = larger + larger
    BY <2>3 DEF Twice
  <2>7. 0 \in 0 .. larger - 1 /\ b.length \in 0 .. larger
    BY <1>2, <2>2
  <2> QED
    BY <2>4, <2>5, <2>6, <2>7 DEF Held
<1> HIDE DEF u
<1>6. Ring(r, larger, base)
  <2>1. larger \in 1 .. MaximumLength
    BY <1>1, <1>2
  <2> QED
    BY <1>1, <1>5, <2>1 DEF Ring
<1> QED
  BY <1>2, <1>4, <1>6

\* drain and prepareForAppend grow a full ring (client.ts:1193-1207).
LEMMA Roomier ==
  ASSUME NEW b, NEW cap, NEW base, Ring(b, cap, base),
         Full(b) => Growable(b), NEW t, t = IF Full(b) THEN Grow(b) ELSE b
  PROVE  /\ \E c : Ring(t, c, base)
         /\ t.length = b.length /\ t.queued = b.queued /\ t.queue = b.queue
<1>1. CASE Full(b)
  BY <1>1, GrowKept
<1>2. CASE ~Full(b)
  BY <1>2
<1> QED
  BY <1>1, <1>2

-----------------------------------------------------------------------------
(* The reader.                                                             *)

\* The ring holds what has arrived and is not consumed, no byte waits for room
\* that there is, and reading has ended only over what is too long.
IInv ==
  /\ \E cap : Ring(buffer, cap, consumed)
  /\ Filled(buffer)
  /\ need \in Nat /\ arrived \in Nat /\ refused \in Nat
  /\ refused = 0 => consumed + buffer.length + buffer.queued = arrived
  /\ refused # 0 => need > MaximumLength \/ refused > MaximumQueued

LEMMA StartsEmpty ==
  ASSUME BufferInit
  PROVE  IInv
<1> DEFINE n == InitialCapacity
           zeros == [i \in 1 .. (2 * n) |-> 0]
<1>1. /\ buffer = [data |-> zeros, start |-> 0, length |-> 0, queue |-> <<>>, queued |-> 0]
      /\ consumed = 0 /\ arrived = 0 /\ refused = 0 /\ need \in Nat
  BY BufferAssumption DEF BufferInit
<1>2. n \in Nat /\ n > 0 /\ n \in 1 .. MaximumLength
  BY BufferAssumption
<1>3. /\ zeros \in Seq(Nat) /\ Len(zeros) = n + n
      /\ \A i \in 1 .. n : zeros[i + n] = zeros[i]
  <2>1. 2 * n \in Nat /\ 2 * n = n + n
    BY <1>2
  <2>2. zeros \in [1 .. 2 * n -> Nat]
    OBVIOUS
  <2>3. \A i \in 1 .. n : i \in 1 .. 2 * n /\ i + n \in 1 .. 2 * n
    BY <1>2, <2>1
  <2> QED
    BY <2>1, <2>2, <2>3
<1> HIDE DEF zeros
<1>4. Held(zeros, n, 0, 0, 0)
  BY <1>2, <1>3 DEF Held
<1>5. Ring(buffer, n, 0)
  BY <1>1, <1>2, <1>4 DEF Ring, Queued
<1> QED
  BY <1>1, <1>5 DEF IInv, Filled

LEMMA StreamStep ==
  ASSUME IInv, [BufferNext]_bufferVars
  PROVE  IInv'
<1> PICK cap : Ring(buffer, cap, consumed)
  BY DEF IInv
<1>1. /\ consumed \in Nat /\ cap \in Nat /\ cap > 0 /\ cap <= MaximumLength /\ MaximumLength \in Nat
      /\ buffer.length \in 0 .. cap /\ buffer.queued \in Nat
      /\ Capacity(buffer) = cap /\ (Full(buffer) <=> buffer.length = cap)
      /\ Held(buffer.data, cap, buffer.start, buffer.length, consumed)
      /\ Queued(buffer.queue, buffer.queued, consumed + buffer.length)
  BY RingFacts
<1>2. /\ Filled(buffer) /\ need \in Nat /\ arrived \in Nat /\ refused \in Nat
      /\ refused = 0 => consumed + buffer.length + buffer.queued = arrived
      /\ refused # 0 => need > MaximumLength \/ refused > MaximumQueued
  BY DEF IInv
<1>3. PacketSizes \subseteq Nat /\ ChunkSizes \subseteq Nat /\ MaximumQueued \in Nat
  BY BufferAssumption
<1>4. CASE TakePacket
  <2>1. /\ refused = 0 /\ Len(Contents(buffer)) >= need
        /\ buffer' = Consume(buffer, need) /\ consumed' = consumed + need /\ need' \in PacketSizes
        /\ arrived' = arrived /\ refused' = refused
    BY <1>4 DEF TakePacket
  <2>2. need \in 0 .. buffer.length
    BY <1>1, <1>2, <2>1, ContentLength
  <2>3. /\ Ring(buffer', cap, consumed + need) /\ Filled(buffer')
        /\ buffer'.length + buffer'.queued = (buffer.length - need) + buffer.queued
    BY <2>1, <2>2, ConsumeKept
  <2>4. buffer'.length \in Nat /\ buffer'.queued \in Nat
    BY <2>3, RingFacts
  <2>5. consumed' + buffer'.length + buffer'.queued = arrived'
    <3>1. consumed + buffer.length + buffer.queued = arrived
      BY <1>2, <2>1
    <3>2. consumed' = consumed + need /\ arrived' = arrived
      BY <2>1
    <3> QED
      BY <1>1, <1>2, <2>2, <2>3, <2>4, <3>1, <3>2
  <2> QED
    BY <1>2, <1>3, <2>1, <2>3, <2>5 DEF IInv
<1>5. CASE Drain
  <2> DEFINE b == IF Full(buffer) THEN Grow(buffer) ELSE buffer
  <2>1. /\ refused = 0 /\ (Full(buffer) => Growable(buffer)) /\ buffer' = Fill(b)
        /\ need' = need /\ consumed' = consumed /\ arrived' = arrived /\ refused' = refused
    BY <1>5 DEF Drain, Starved
  <2>2. (\E c : Ring(b, c, consumed)) /\ b.length + b.queued = buffer.length + buffer.queued
    BY <2>1, Roomier
  <2> HIDE DEF b
  <2>3. PICK c : Ring(b, c, consumed)
    BY <2>2
  <2>4. /\ Ring(buffer', c, consumed) /\ Filled(buffer')
        /\ buffer'.length + buffer'.queued = b.length + b.queued
    BY <2>1, <2>3, FillKept
  <2>5. buffer'.length \in Nat /\ buffer'.queued \in Nat
    BY <2>4, RingFacts
  <2>6. consumed' + buffer'.length + buffer'.queued = arrived'
    <3>1. consumed + buffer.length + buffer.queued = arrived
      BY <1>2, <2>1
    <3>2. b.length + b.queued = buffer.length + buffer.queued
      BY <2>2
    <3> QED
      BY <1>1, <1>2, <2>1, <2>4, <2>5, <3>1, <3>2
  <2> QED
    BY <1>2, <2>1, <2>4, <2>6 DEF IInv
<1>6. CASE Overflow
  <2>1. /\ refused = 0 /\ buffer.length < need /\ Full(buffer) /\ ~Growable(buffer)
        /\ refused' = buffer.length /\ UNCHANGED <<buffer, need, consumed, arrived>>
    BY <1>6 DEF Overflow, Starved
  <2>2. buffer.length = MaximumLength /\ buffer.length = cap
    BY <1>1, <2>1 DEF Growable
  <2>3. refused' # 0 /\ refused' \in Nat /\ need' > MaximumLength
    BY <1>1, <1>2, <2>1, <2>2
  <2>4. (\E c : Ring(buffer, c, consumed))' /\ Filled(buffer)'
    BY <1>2, <2>1
  <2> QED
    BY <1>2, <2>1, <2>3, <2>4 DEF IInv
<1>7. CASE ReadChunk
  <2> DEFINE b == IF Full(buffer) THEN Grow(buffer) ELSE buffer
             chunk(n) == [i \in 1 .. n |-> arrived + i]
  <2>1. /\ refused = 0 /\ buffer.queue = <<>> /\ (Full(buffer) => Growable(buffer))
        /\ need' = need /\ consumed' = consumed
    BY <1>7 DEF ReadChunk, Starved
  <2>2. PICK n \in ChunkSizes :
          /\ arrived' = arrived + n
          /\ IF n > MaximumQueued - buffer.queued THEN refused' = n /\ buffer' = b
             ELSE refused' = 0 /\ buffer' = Enqueue(b, chunk(n))
    BY <1>7 DEF ReadChunk
  <2>3. n \in Nat
    BY <1>3
  <2>4. /\ \E c : Ring(b, c, consumed)
        /\ b.length = buffer.length /\ b.queued = buffer.queued /\ b.queue = buffer.queue
    BY <2>1, Roomier
  <2> HIDE DEF b
  <2>5. PICK c : Ring(b, c, consumed)
    BY <2>4
  <2>6. buffer.queued = 0
    BY <1>1, <2>1 DEF Queued
  <2>7. consumed + buffer.length = arrived
    BY <1>1, <1>2, <2>1, <2>6
  <2>8. CASE n > MaximumQueued - buffer.queued
    <3>1. refused' = n /\ buffer' = b /\ n > MaximumQueued /\ n # 0 /\ arrived' \in Nat
      BY <1>2, <1>3, <2>2, <2>3, <2>6, <2>8
    <3>2. Filled(b)
      BY <2>1, <2>4 DEF Filled
    <3> QED
      BY <1>2, <2>1, <2>3, <2>5, <3>1, <3>2 DEF IInv
  <2>9. CASE ~(n > MaximumQueued - buffer.queued)
    <3>1. refused' = 0 /\ buffer' = Enqueue(b, chunk(n)) /\ arrived' \in Nat
      BY <1>2, <2>2, <2>3, <2>9
    <3>2. Run(chunk(n), n, consumed + b.length)
      <4>1. chunk(n) \in [1 .. n -> Nat]
        BY <1>2, <2>3
      <4>2. chunk(n) \in Seq(Nat) /\ Len(chunk(n)) = n
        BY <2>3, <4>1
      <4> QED
        BY <2>4, <2>7, <4>2 DEF Run
    <3> HIDE DEF chunk
    <3>3. b.queue = <<>>
      BY <2>1, <2>4
    <3>4. /\ Ring(buffer', c, consumed) /\ Filled(buffer')
          /\ buffer'.length + buffer'.queued = b.length + b.queued + n
      BY <2>3, <2>5, <3>1, <3>2, <3>3, EnqueueKept
    <3>5. buffer'.length \in Nat /\ buffer'.queued \in Nat
      BY <3>4, RingFacts
    <3>6. consumed' + buffer'.length + buffer'.queued = arrived'
      <4>1. consumed' = consumed /\ arrived' = arrived + n
        BY <2>1, <2>2
      <4>2. buffer'.length + buffer'.queued = buffer.length + n
        BY <1>1, <2>4, <2>6, <3>4
      <4> QED
        BY <1>1, <2>3, <2>7, <3>5, <4>1, <4>2
    <3> QED
      BY <1>2, <2>1, <3>1, <3>4, <3>6 DEF IInv
  <2> QED
    BY <2>8, <2>9
<1>8. CASE UNCHANGED bufferVars
  BY <1>8 DEF bufferVars, IInv
<1> QED
  BY <1>4, <1>5, <1>6, <1>7, <1>8 DEF BufferNext

LEMMA StreamHeld ==
  ASSUME IInv
  PROVE  StreamKept
<1> PICK cap : Ring(buffer, cap, consumed)
  BY DEF IInv
<1>1. /\ consumed \in Nat /\ buffer.length \in Nat /\ buffer.queued \in Nat
      /\ Queued(buffer.queue, buffer.queued, consumed + buffer.length)
  BY RingFacts
<1>2. Run(Contents(buffer), buffer.length, consumed)
  BY ContentRun
<1>3. Run(FlattenSeq(buffer.queue), buffer.queued, consumed + buffer.length)
  <2>1. consumed + buffer.length \in Nat
    BY <1>1
  <2> QED
    BY <1>1, <2>1, FlatRun
<1>4. Contents(buffer) \o FlattenSeq(buffer.queue)
        = [i \in 1..(buffer.length + buffer.queued) |-> consumed + i]
  <2> DEFINE s == Contents(buffer)
             t == FlattenSeq(buffer.queue)
             n == buffer.length
             m == buffer.queued
  <2>1. consumed \in Nat /\ n \in Nat /\ m \in Nat /\ Run(s, n, consumed) /\ Run(t, m, consumed + n)
    BY <1>1, <1>2, <1>3
  <2> HIDE DEF s, t, n, m
  <2>2. Run(s \o t, n + m, consumed) /\ n + m \in Nat
    BY <2>1, RunsJoined
  <2> DEFINE u == s \o t
             k == n + m
  <2>3. u = [i \in 1..k |-> consumed + i]
    <3> HIDE DEF u, k
    <3>1. Run(u, k, consumed) /\ k \in Nat
      BY <2>2 DEF u, k
    <3> QED
      BY <2>1, <3>1, RunIs, SMTT(60)
  <2> QED
    BY <2>3 DEF s, t, n, m
<1> QED
  BY <1>4 DEF StreamKept, IInv, Filled

\* No byte between the transport and the packet reader is lost, repeated or moved,
\* none waits in the queue for room that there is, and reading fails only over what
\* is too long (client.ts:1151-1253 and 483-491).
THEOREM BytesKept ==
  BufferSpec => []StreamKept
<1>1. BufferInit => IInv
  BY StartsEmpty
<1>2. IInv /\ [BufferNext]_bufferVars => IInv'
  BY StreamStep
<1>3. IInv => StreamKept
  BY StreamHeld
<1> QED
  BY <1>1, <1>2, <1>3, PTL DEF BufferSpec

-----------------------------------------------------------------------------
(* SFTP frames: the packets of the stream.                                 *)

Announced == lengths \in Seq(Nat)

LEMMA PacketIs ==
  ASSUME Announced, NEW k \in 1 .. Len(lengths)
  PROVE  /\ FrameOf(k) \in Seq(Nat) /\ Len(FrameOf(k)) = HeaderLength + lengths[k]
         /\ FrameOf(k)[HeaderLength] = lengths[k]
<1> DEFINE l == lengths[k]
           s == [i \in 1 .. HeaderLength |-> IF i = HeaderLength THEN l ELSE 0]
           t == [i \in 1 .. l |-> 100 * k + i]
<1>1. HeaderLength \in Nat \ {0} /\ l \in Nat /\ k \in Nat
  BY FramesAssumption DEF Announced
<1>2. s \in [1 .. HeaderLength -> Nat] /\ t \in [1 .. l -> Nat] /\ s[HeaderLength] = l
  BY <1>1
<1>3. FrameOf(k) = s \o t
  BY DEF FrameOf
<1> HIDE DEF s, t
<1>4. s \in Seq(Nat) /\ Len(s) = HeaderLength /\ t \in Seq(Nat) /\ Len(t) = l
  BY <1>1, <1>2
<1>5. /\ s \o t \in Seq(Nat) /\ Len(s \o t) = HeaderLength + l
      /\ (s \o t)[HeaderLength] = s[HeaderLength]
  <2>0. s \in Seq(Nat) /\ t \in Seq(Nat)
    BY <1>4
  <2>1. /\ s \o t \in Seq(Nat) /\ Len(s \o t) = Len(s) + Len(t)
        /\ \A i \in 1 .. Len(s) + Len(t) : (s \o t)[i] = IF i <= Len(s) THEN s[i] ELSE t[i - Len(s)]
    BY <2>0, ConcatProperties
  <2>2. HeaderLength \in 1 .. HeaderLength + l
    BY <1>1
  <2> QED
    BY <1>4, <2>1, <2>2
<1> QED
  BY <1>2, <1>3, <1>5

LEMMA EndIs ==
  ASSUME Announced
  PROVE  /\ EndOf(0) = 0
         /\ \A k \in 0 .. Len(lengths) : EndOf(k) \in Nat
         /\ \A k \in 1 .. Len(lengths) :
              /\ EndOf(k) = EndOf(k - 1) + (HeaderLength + lengths[k])
              /\ EndOf(k - 1) < EndOf(k)
         /\ \A j, k \in 0 .. Len(lengths) : j <= k => EndOf(j) <= EndOf(k)
<1> DEFINE L == Len(lengths)
           s == [i \in 1 .. L |-> HeaderLength + lengths[i]]
           f == [k \in 0 .. L |-> EndOf(k)]
<1>1. L \in Nat /\ HeaderLength \in Nat \ {0} /\ \A i \in 1 .. L : lengths[i] \in Nat
  BY FramesAssumption DEF Announced
<1>2. s \in [1 .. L -> Nat] /\ \A i \in 1 .. L : s[i] = HeaderLength + lengths[i]
  BY <1>1
<1>3. ASSUME NEW k \in 0 .. L
      PROVE  EndOf(k) = SumOf(First(s, k))
  <2>1. \A i \in 1 .. k : i \in 1 .. L
    BY <1>1
  <2>2. First(s, k) = [i \in 1 .. k |-> HeaderLength + lengths[i]]
    BY <1>2, <2>1 DEF First
  <2> QED
    BY <2>2 DEF EndOf
<1> HIDE DEF s
<1>4. /\ SumOf(First(s, 0)) = 0
      /\ \A k \in 0 .. L : SumOf(First(s, k)) \in Nat
      /\ \A k \in 1 .. L : SumOf(First(s, k)) = SumOf(First(s, k - 1)) + s[k]
  BY <1>1, <1>2, SumFirst
<1>5. 0 \in 0 .. L /\ \A k \in 1 .. L : k \in 0 .. L /\ k - 1 \in 0 .. L
  BY <1>1
<1> HIDE DEF L
<1>6. /\ EndOf(0) = 0
      /\ \A k \in 0 .. L : EndOf(k) \in Nat
      /\ \A k \in 1 .. L : EndOf(k) = EndOf(k - 1) + (HeaderLength + lengths[k])
  BY <1>2, <1>3, <1>4, <1>5
<1>7. ASSUME NEW k \in 1 .. L
      PROVE  EndOf(k - 1) < EndOf(k)
  BY <1>1, <1>5, <1>6
<1>8. f \in [0 .. L -> Nat] /\ \A k \in 0 .. L : f[k] = EndOf(k)
  BY <1>6
<1> HIDE DEF f
<1>9. \A k \in 1 .. L : f[k - 1] <= f[k]
  <2> TAKE k \in 1 .. L
  <2>1. EndOf(k - 1) \in Nat /\ EndOf(k) \in Nat /\ EndOf(k - 1) < EndOf(k)
    BY <1>5, <1>6, <1>7
  <2> QED
    BY <1>5, <1>8, <2>1
<1>10. \A j, k \in 0 .. L : j <= k => f[j] <= f[k]
  BY <1>1, <1>8, <1>9, Upwards
<1> QED
  BY <1>6, <1>7, <1>8, <1>10 DEF L

\* The stream is the packets, one behind the other.
LEMMA StreamIs ==
  ASSUME Announced
  PROVE  /\ Stream \in Seq({Stream[i] : i \in 1 .. EndOf(Len(lengths))})
         /\ Len(Stream) = EndOf(Len(lengths)) /\ Len(Stream) \in Nat
         /\ \A d \in 0 .. Len(lengths) - 1 : \A i \in 1 .. HeaderLength + lengths[d + 1] :
              /\ EndOf(d) + i \in 1 .. EndOf(Len(lengths))
              /\ Stream[EndOf(d) + i] = FrameOf(d + 1)[i]
<1> DEFINE L == Len(lengths)
           E == EndOf(L)
           U == {Stream[i] : i \in 1 .. E}
<1>1. L \in Nat /\ HeaderLength \in Nat \ {0} /\ \A i \in 1 .. L : lengths[i] \in Nat
  BY FramesAssumption DEF Announced
<1>2. /\ \A k \in 0 .. L : EndOf(k) \in Nat
      /\ \A k \in 1 .. L : EndOf(k) = EndOf(k - 1) + (HeaderLength + lengths[k])
      /\ \A j, k \in 0 .. L : j <= k => EndOf(j) <= EndOf(k)
  BY EndIs
<1>3. E \in Nat
  BY <1>1, <1>2
<1>4. Stream \in Seq(U) /\ Len(Stream) = E
  <2>1. Stream = [i \in 1 .. E |-> Stream[i]]
    BY DEF Stream
  <2>2. Stream \in [1 .. E -> U]
    BY <2>1
  <2> HIDE DEF U, E
  <2> QED
    BY <1>3, <2>2
<1>5. ASSUME NEW d \in 0 .. L - 1, NEW i \in 1 .. HeaderLength + lengths[d + 1]
      PROVE  EndOf(d) + i \in 1 .. E /\ Stream[EndOf(d) + i] = FrameOf(d + 1)[i]
  <2> DEFINE x == EndOf(d) + i
             k == CHOOSE k \in DOMAIN lengths : EndOf(k - 1) < x /\ x <= EndOf(k)
  <2>1. d + 1 \in 1 .. L /\ d \in 0 .. L /\ d + 1 \in 0 .. L /\ L \in 0 .. L /\ d + 1 - 1 = d
    BY <1>1
  <2>2. EndOf(d + 1) = EndOf(d) + (HeaderLength + lengths[d + 1])
    BY <1>2, <2>1
  <2>3. EndOf(d) \in Nat /\ EndOf(d + 1) \in Nat /\ EndOf(d + 1) <= E /\ lengths[d + 1] \in Nat
    BY <1>1, <1>2, <2>1
  <2> HIDE DEF E
  <2>4. x \in Nat /\ EndOf(d) < x /\ x <= EndOf(d + 1) /\ x \in 1 .. E
    BY <1>1, <1>3, <2>2, <2>3, SMTT(60)
  <2>5. DOMAIN lengths = 1 .. L
    BY DEF Announced
  <2> HIDE DEF x
  <2>6. k \in 1 .. L /\ EndOf(k - 1) < x /\ x <= EndOf(k)
    <3>1. \E j \in DOMAIN lengths : EndOf(j - 1) < x /\ x <= EndOf(j)
      BY <2>1, <2>4, <2>5
    <3> QED
      BY <2>5, <3>1
  <2>7. Stream[x] = FrameOf(k)[x - EndOf(k - 1)]
    BY <2>4 DEF Stream, E
  <2> HIDE DEF k
  <2>8. k \in 0 .. L /\ k - 1 \in 0 .. L
    BY <1>1, <2>6
  <2>9. k = d + 1
    <3>1. CASE k <= d
      <4>1. EndOf(k) <= EndOf(d) /\ EndOf(k) \in Nat
        BY <1>2, <2>1, <2>8, <3>1
      <4> QED
        BY <2>3, <2>4, <2>6, <4>1
    <3>2. CASE d + 1 <= k - 1
      <4>1. EndOf(d + 1) <= EndOf(k - 1) /\ EndOf(k - 1) \in Nat
        BY <1>2, <2>1, <2>8, <3>2
      <4> QED
        BY <2>3, <2>4, <2>6, <4>1
    <3> QED
      BY <1>1, <2>6, <3>1, <3>2
  <2>10. x - EndOf(k - 1) = i
    BY <2>1, <2>3, <2>9 DEF x
  <2> QED
    BY <2>4, <2>7, <2>9, <2>10 DEF x
<1> QED
  BY <1>3, <1>4, <1>5

-----------------------------------------------------------------------------
(* What the receiver holds when it has taken t units of the stream.        *)

Dispatched(d) == [k \in 1 .. d |-> FrameOf(k)]

\* p is the first n units of the packet behind the first d.
Beginning(p, d, n) ==
  p \in Seq(Nat) /\ Len(p) = n /\ \A i \in 1 .. n : p[i] = FrameOf(d + 1)[i]

Receiver(header, frame, size, d, failed) ==
  [header |-> header, frame |-> frame, size |-> size, dispatched |-> Dispatched(d), failed |-> failed]

InHeader(r, t, d) ==
  \E n \in 0 .. HeaderLength - 1 : \E h :
    /\ Beginning(h, d, n) /\ t = EndOf(d) + n
    /\ n > 0 => d < Len(lengths)
    /\ r = Receiver(h, <<>>, 0, d, FALSE)

Framing(r, t, d, size) ==
  \E n \in HeaderLength .. size - 1 : \E f :
    Beginning(f, d, n) /\ t = EndOf(d) + n /\ r = Receiver(<<>>, f, size, d, FALSE)

InFrame(r, t, d) ==
  /\ d < Len(lengths) /\ ~Refused(lengths[d + 1])
  /\ Framing(r, t, d, HeaderLength + lengths[d + 1])

AtRefused(r, t, d) ==
  /\ d < Len(lengths) /\ Refused(lengths[d + 1])
  /\ t = EndOf(d) + HeaderLength
  /\ \E h : Beginning(h, d, HeaderLength) /\ r = Receiver(h, <<>>, 0, d, TRUE)

Accepted(d) == \A k \in 1 .. d : ~Refused(lengths[k])

Standing(r, t, d) == InHeader(r, t, d) \/ InFrame(r, t, d) \/ AtRefused(r, t, d)

Taken(r, t) == \E d \in 0 .. Len(lengths) : Accepted(d) /\ Standing(r, t, d)

\* chunk is what the stream brings behind its first `from` units.
Delivered(chunk, from) ==
  /\ Len(chunk) \in Nat /\ from \in Nat /\ from + Len(chunk) <= EndOf(Len(lengths))
  /\ \A i \in 1 .. Len(chunk) : chunk[i] = Stream[from + i]

\* The next units of the stream go on with the packet that has begun.
LEMMA GoesOn ==
  ASSUME Announced, NEW d \in 0 .. Len(lengths) - 1,
         NEW n \in Nat, NEW p, Beginning(p, d, n),
         NEW chunk, NEW from, Delivered(chunk, from), NEW offset \in 0 .. Len(chunk),
         from + offset = EndOf(d) + n,
         NEW count \in 0 .. Len(chunk) - offset,
         n + count <= HeaderLength + lengths[d + 1]
  PROVE  Beginning(p \o SubSeq(chunk, offset + 1, offset + count), d, n + count)
<1> DEFINE s == SubSeq(chunk, offset + 1, offset + count)
           q == FrameOf(d + 1)
           L == Len(lengths)
           e == EndOf(d)
           a == offset + 1
           b == offset + count
<1>1. /\ L \in Nat /\ d + 1 \in 1 .. L /\ d \in 0 .. L /\ lengths[d + 1] \in Nat
      /\ HeaderLength \in Nat
  BY FramesAssumption DEF Announced
<1>2. q \in Seq(Nat) /\ Len(q) = HeaderLength + lengths[d + 1] /\ e \in Nat
  BY <1>1, PacketIs, EndIs
<1>3. from \in Nat /\ Len(chunk) \in Nat
  BY DEF Delivered
<1>4. p \in Seq(Nat) /\ Len(p) = n /\ \A i \in 1 .. n : p[i] = q[i]
  BY DEF Beginning
<1>5. ASSUME NEW i \in 1 .. count
      PROVE  chunk[offset + i] = q[n + i] /\ n + i \in 1 .. Len(q)
  <2>1. offset + i \in 1 .. Len(chunk)
    BY <1>3
  <2>2. n + i \in 1 .. HeaderLength + lengths[d + 1]
    BY <1>1, <1>3
  <2>3. from + (offset + i) = e + (n + i)
    <3>1. from + offset = e + n /\ i \in Nat /\ offset \in Nat
      BY <1>3
    <3> HIDE DEF e
    <3> QED
      BY <1>2, <1>3, <3>1
  <2>4. Stream[e + (n + i)] = q[n + i]
    BY <2>2, StreamIs
  <2>5. chunk[offset + i] = Stream[from + (offset + i)]
    BY <2>1 DEF Delivered
  <2> HIDE DEF q, e
  <2> QED
    BY <1>2, <2>2, <2>3, <2>4, <2>5
<1>6. a \in Int /\ b \in Int /\ b - a + 1 = count /\ (a <= b <=> count > 0)
  BY <1>3
<1>7. \A j \in a .. b : chunk[j] \in Nat
  <2> TAKE j \in a .. b
  <2> DEFINE x == n + (j - offset)
  <2>1. j - offset \in 1 .. count /\ offset + (j - offset) = j
    BY <1>3
  <2>2. chunk[offset + (j - offset)] = q[x] /\ x \in 1 .. Len(q)
    BY <1>5, <2>1
  <2>3. q \in Seq(Nat)
    BY <1>2
  <2> HIDE DEF q, x
  <2>4. q[x] \in Nat
    BY <2>2, <2>3, SMTT(60)
  <2> QED
    BY <2>1, <2>2, <2>4
<1>8. s \in Seq(Nat) /\ Len(s) = count /\ \A i \in 1 .. count : s[i] = q[n + i]
  <2>1. /\ s \in Seq(Nat)
        /\ Len(s) = IF a <= b THEN b - a + 1 ELSE 0
        /\ \A i \in 1 .. b - a + 1 : s[i] = chunk[a + i - 1]
    <3> HIDE DEF a, b
    <3> QED
      BY <1>6, <1>7, SubSeqProperties DEF a, b
  <2>2. \A i \in 1 .. count : a + i - 1 = offset + i
    BY <1>3
  <2>3. Len(s) = count
    <3> HIDE DEF s, a, b
    <3> QED
      BY <1>3, <1>6, <2>1
  <2>4. \A i \in 1 .. count : s[i] = chunk[a + i - 1]
    BY <1>6, <2>1
  <2> HIDE DEF s, a, q
  <2> QED
    BY <1>5, <2>1, <2>2, <2>3, <2>4
<1> HIDE DEF s, a, b, q
<1>9. /\ p \o s \in Seq(Nat) /\ Len(p \o s) = n + count
      /\ \A i \in 1 .. n + count : (p \o s)[i] = IF i <= n THEN p[i] ELSE s[i - n]
  <2>1. p \in Seq(Nat) /\ s \in Seq(Nat)
    BY <1>4, <1>8
  <2>2. /\ p \o s \in Seq(Nat) /\ Len(p \o s) = Len(p) + Len(s)
        /\ \A i \in 1 .. Len(p) + Len(s) :
             (p \o s)[i] = IF i <= Len(p) THEN p[i] ELSE s[i - Len(p)]
    BY <2>1, ConcatProperties
  <2> QED
    BY <1>4, <1>8, <2>2
<1>10. ASSUME NEW i \in 1 .. n + count
       PROVE  (p \o s)[i] = q[i]
  <2>1. CASE i <= n
    BY <1>4, <1>9, <2>1
  <2>2. CASE ~(i <= n)
    <3>1. i - n \in 1 .. count /\ n + (i - n) = i
      BY <1>3, <2>2
    <3> QED
      BY <1>8, <1>9, <2>2, <3>1
  <2> QED
    BY <2>1, <2>2
<1> QED
  BY <1>9, <1>10 DEF Beginning, s, q

\* What the assignments of a pass make of a receiver.
LEMMA Assigned ==
  ASSUME NEW h, NEW f, NEW s, NEW p, NEW b,
         NEW r, r = [header |-> h, frame |-> f, size |-> s, dispatched |-> p, failed |-> b],
         NEW q, NEW z, NEW u, NEW v, NEW w,
         u = [r EXCEPT !.header = q],
         v = [r EXCEPT !.header = q, !.failed = TRUE],
         w = [r EXCEPT !.header = <<>>, !.frame = q, !.size = z]
  PROVE  /\ u = [header |-> q, frame |-> f, size |-> s, dispatched |-> p, failed |-> b]
         /\ v = [header |-> q, frame |-> f, size |-> s, dispatched |-> p, failed |-> TRUE]
         /\ w = [header |-> <<>>, frame |-> q, size |-> z, dispatched |-> p, failed |-> b]
<1>1. u = [header |-> q, frame |-> f, size |-> s, dispatched |-> p, failed |-> b]
  OBVIOUS
<1>2. v = [header |-> q, frame |-> f, size |-> s, dispatched |-> p, failed |-> TRUE]
  OBVIOUS
<1>3. w = [header |-> <<>>, frame |-> q, size |-> z, dispatched |-> p, failed |-> b]
  OBVIOUS
<1> QED
  BY <1>1, <1>2, <1>3

LEMMA Emptied ==
  ASSUME NEW h, NEW f, NEW s, NEW p, NEW b,
         NEW r, r = [header |-> h, frame |-> f, size |-> s, dispatched |-> p, failed |-> b],
         NEW u, u = [r EXCEPT !.dispatched = Append(@, r.frame), !.frame = <<>>, !.size = 0]
  PROVE  u = [header |-> h, frame |-> <<>>, size |-> 0, dispatched |-> Append(p, f), failed |-> b]
<1>1. r.frame = f
  OBVIOUS
<1> QED
  BY <1>1

\* What a pass makes of a header, and of a frame.
LEMMA ExtendedHeader ==
  ASSUME NEW h, NEW d, NEW q
  PROVE  Extended(Receiver(h, <<>>, 0, d, FALSE), q)
           = IF Len(q) < HeaderLength THEN Receiver(q, <<>>, 0, d, FALSE)
             ELSE IF Refused(q[HeaderLength]) THEN Receiver(q, <<>>, 0, d, TRUE)
             ELSE Receiver(<<>>, q, HeaderLength + q[HeaderLength], d, FALSE)
<1> DEFINE r == Receiver(h, <<>>, 0, d, FALSE)
           z == HeaderLength + q[HeaderLength]
           u == [r EXCEPT !.header = q]
           v == [r EXCEPT !.header = q, !.failed = TRUE]
           w == [r EXCEPT !.header = <<>>, !.frame = q, !.size = z]
<1>1. r = [header |-> h, frame |-> <<>>, size |-> 0, dispatched |-> Dispatched(d), failed |-> FALSE]
  BY DEF Receiver
<1>2. Extended(r, q) = IF Len(q) < HeaderLength THEN u
                       ELSE IF Refused(q[HeaderLength]) THEN v ELSE w
  BY DEF Extended, Receiver, FrameBegun
<1>3. /\ u = [r EXCEPT !.header = q]
      /\ v = [r EXCEPT !.header = q, !.failed = TRUE]
      /\ w = [r EXCEPT !.header = <<>>, !.frame = q, !.size = z]
  OBVIOUS
<1> HIDE DEF u, v, w, r
<1>4. u = Receiver(q, <<>>, 0, d, FALSE) /\ v = Receiver(q, <<>>, 0, d, TRUE)
  BY <1>1, <1>3, Assigned DEF Receiver
<1>5. w = Receiver(<<>>, q, z, d, FALSE)
  BY <1>1, <1>3, Assigned DEF Receiver
<1> QED
  BY <1>2, <1>4, <1>5 DEF r

LEMMA ExtendedFrame ==
  ASSUME NEW f, NEW d, NEW q, NEW size, size # 0
  PROVE  Extended(Receiver(<<>>, f, size, d, FALSE), q)
           = IF Len(q) < size THEN Receiver(<<>>, q, size, d, FALSE)
             ELSE [header |-> <<>>, frame |-> <<>>, size |-> 0,
                   dispatched |-> Append(Dispatched(d), q), failed |-> FALSE]
<1> DEFINE r == Receiver(<<>>, f, size, d, FALSE)
           x == [r EXCEPT !.frame = q]
           u == [x EXCEPT !.dispatched = Append(@, x.frame), !.frame = <<>>, !.size = 0]
<1>1. r = [header |-> <<>>, frame |-> f, size |-> size, dispatched |-> Dispatched(d), failed |-> FALSE]
  BY DEF Receiver
<1>2. Extended(r, q) = FrameEnded(x)
  BY DEF Extended, Receiver
<1>3. x = [r EXCEPT !.frame = q]
  OBVIOUS
<1>4. FrameEnded(x) = IF Len(x.frame) < x.size THEN x ELSE u
  BY DEF FrameEnded
<1>5. u = [x EXCEPT !.dispatched = Append(@, x.frame), !.frame = <<>>, !.size = 0]
  OBVIOUS
<1> HIDE DEF u, x, r
<1>6. x = [header |-> <<>>, frame |-> q, size |-> size, dispatched |-> Dispatched(d), failed |-> FALSE]
  BY <1>1, <1>3
<1>7. u = [header |-> <<>>, frame |-> <<>>, size |-> 0,
           dispatched |-> Append(Dispatched(d), q), failed |-> FALSE]
  BY <1>5, <1>6, Emptied
<1> QED
  BY <1>2, <1>4, <1>6, <1>7 DEF r, Receiver

\* A whole packet is dispatched behind the others.
LEMMA OneMore ==
  ASSUME Announced, NEW d \in 0 .. Len(lengths) - 1,
         NEW q, Beginning(q, d, HeaderLength + lengths[d + 1])
  PROVE  Append(Dispatched(d), q) = Dispatched(d + 1)
<1>1. Len(lengths) \in Nat /\ d \in Nat /\ d + 1 \in 1 .. Len(lengths)
  BY DEF Announced
<1>2. \A k \in 1 .. d + 1 : FrameOf(k) \in Seq(Nat)
  <2>1. \A k \in 1 .. d + 1 : k \in 1 .. Len(lengths)
    BY <1>1
  <2> QED
    BY <2>1, PacketIs
<1>3. q = FrameOf(d + 1)
  <2> DEFINE w == FrameOf(d + 1)
             m == HeaderLength + lengths[d + 1]
  <2>1. /\ q \in Seq(Nat) /\ Len(q) = m /\ \A i \in 1 .. m : q[i] = w[i]
    BY DEF Beginning
  <2>2. w \in Seq(Nat) /\ Len(w) = m
    BY <1>1, PacketIs
  <2> HIDE DEF w, m
  <2>3. q = w
    BY <2>1, <2>2, SeqEqual
  <2> QED
    BY <2>3 DEF w
<1> DEFINE D == Dispatched(d)
           a == Append(D, q)
<1>4. D \in Seq(Seq(Nat)) /\ Len(D) = d
  <2>1. \A k \in 1 .. d : FrameOf(k) \in Seq(Nat)
    BY <1>1, <1>2
  <2>2. D \in [1 .. d -> Seq(Nat)]
    BY <2>1 DEF Dispatched
  <2> HIDE DEF D
  <2> QED
    BY <1>1, <2>2
<1>5. q \in Seq(Nat)
  BY <1>1, <1>2, <1>3
<1>6. /\ a \in Seq(Seq(Nat)) /\ Len(a) = d + 1 /\ a[d + 1] = q
      /\ \A k \in 1 .. d : a[k] = D[k]
  <2> HIDE DEF D
  <2> QED
    BY <1>1, <1>4, <1>5
<1>7. \A k \in 1 .. d : D[k] = FrameOf(k)
  BY DEF Dispatched
<1> HIDE DEF a, D
<1>8. \A k \in 1 .. d + 1 : a[k] = FrameOf(k)
  <2> TAKE k \in 1 .. d + 1
  <2>1. k \in 1 .. d \/ k = d + 1
    BY <1>1
  <2> QED
    BY <1>3, <1>6, <1>7, <2>1
<1>9. a = [k \in 1 .. d + 1 |-> a[k]]
  BY <1>1, <1>6
<1> QED
  BY <1>8, <1>9 DEF a, D, Dispatched

\* A pass copies what is missing, or what is left of the chunk.
Copies(count, n, size, offset, chunk) ==
  count = IF size - n < Len(chunk) - offset THEN size - n ELSE Len(chunk) - offset

LEMMA CopiesOn ==
  ASSUME Announced, NEW chunk, NEW from, Delivered(chunk, from),
         NEW offset \in 0 .. Len(chunk) - 1,
         NEW d \in 0 .. Len(lengths) - 1, NEW n \in Nat, NEW p, Beginning(p, d, n),
         from + offset = EndOf(d) + n,
         NEW size \in Nat, n < size, size <= HeaderLength + lengths[d + 1],
         NEW count, Copies(count, n, size, offset, chunk)
  PROVE  /\ offset + count \in offset + 1 .. Len(chunk)
         /\ n + count \in n + 1 .. size
         /\ from + (offset + count) = EndOf(d) + (n + count)
         /\ Beginning(p \o SubSeq(chunk, offset + 1, offset + count), d, n + count)
<1> DEFINE c == Len(chunk)
           l == lengths[d + 1]
           e == EndOf(d)
<1>1. c \in Nat /\ from \in Nat /\ HeaderLength \in Nat
  BY FramesAssumption DEF Delivered
<1>2. d + 1 \in 1 .. Len(lengths) /\ d \in 0 .. Len(lengths)
  BY DEF Announced
<1>3. l \in Nat /\ e \in Nat
  BY <1>2, EndIs, SMTT(60) DEF Announced
<1>4. /\ count = IF size - n < c - offset THEN size - n ELSE c - offset
      /\ from + offset = e + n /\ size <= HeaderLength + l /\ offset \in 0 .. c - 1
  BY DEF Copies
<1> HIDE DEF c, l, e
<1>5. /\ count \in 0 .. c - offset /\ count >= 1 /\ n + count <= size
      /\ offset \in 0 .. c
  BY <1>1, <1>4
<1>6. n + count <= HeaderLength + l /\ from + (offset + count) = e + (n + count)
  BY <1>1, <1>3, <1>4, <1>5
<1>7. Beginning(p \o SubSeq(chunk, offset + 1, offset + count), d, n + count)
  BY <1>5, <1>6, GoesOn DEF c, l
<1>8. offset + count \in offset + 1 .. c /\ n + count \in n + 1 .. size
  BY <1>1, <1>4, <1>5
<1> QED
  BY <1>6, <1>7, <1>8 DEF c, e

\* A pass takes at least one unit, and what it leaves is what the receiver holds
\* behind that many more (sftp.ts:516-545).
LEMMA PassTaken ==
  ASSUME Announced, NEW chunk, NEW from, Delivered(chunk, from),
         NEW offset \in 0 .. Len(chunk) - 1,
         NEW r, Taken(r, from + offset), ~r.failed
  PROVE  LET copied == Copied(r, offset, chunk)
         IN  /\ copied.offset \in offset + 1 .. Len(chunk)
             /\ Taken(Extended(r, copied.part), from + copied.offset)
<1> DEFINE L == Len(lengths)
           c == Len(chunk)
<1>1. L \in Nat /\ c \in Nat /\ from \in Nat /\ HeaderLength \in Nat \ {0} /\ from + c <= EndOf(L)
  BY FramesAssumption DEF Announced, Delivered
<1>2. PICK d \in 0 .. L : Accepted(d) /\ Standing(r, from + offset, d)
  BY DEF Taken
<1>3. ~AtRefused(r, from + offset, d)
  BY DEF AtRefused, Receiver
<1>4. EndOf(d) \in Nat /\ EndOf(L) \in Nat
  BY <1>1, EndIs
<1>6. CASE InHeader(r, from + offset, d)
  <2>0. PICK n \in 0 .. HeaderLength - 1 :
          \E h : /\ Beginning(h, d, n) /\ from + offset = EndOf(d) + n
                 /\ n > 0 => d < L
                 /\ r = Receiver(h, <<>>, 0, d, FALSE)
    BY <1>6 DEF InHeader
  <2>1. PICK h :
          /\ Beginning(h, d, n) /\ from + offset = EndOf(d) + n
          /\ n > 0 => d < L
          /\ r = Receiver(h, <<>>, 0, d, FALSE)
    BY <2>0
  <2> DEFINE count == IF HeaderLength - n < c - offset THEN HeaderLength - n ELSE c - offset
             q == h \o SubSeq(chunk, offset + 1, offset + count)
  <2>2. d < L
    <3>1. CASE n = 0
      <4>1. d # L
        BY <1>1, <1>4, <2>1, <3>1
      <4> QED
        BY <1>1, <4>1
    <3> QED
      BY <1>1, <2>1, <3>1
  <2>3. lengths[d + 1] \in Nat /\ d + 1 \in 1 .. L
    <3>1. d + 1 \in 1 .. L
      BY <1>1, <2>2
    <3> QED
      BY <3>1 DEF Announced
  <2>4. Copied(r, offset, chunk) = [part |-> q, offset |-> offset + count]
    <3>1. r.size = 0 /\ r.header = h
      BY <2>1 DEF Receiver
    <3>2. Len(h) = n
      BY <2>1 DEF Beginning
    <3> QED
      BY <3>1, <3>2 DEF Copied
  <2>5. n \in Nat /\ HeaderLength \in Nat /\ n < HeaderLength /\ HeaderLength <= HeaderLength + lengths[d + 1]
    BY <1>1, <2>3
  <2>6. Copies(count, n, HeaderLength, offset, chunk)
    BY DEF Copies
  <2>7. q = h \o SubSeq(chunk, offset + 1, offset + count)
    OBVIOUS
  <2>a. d \in 0 .. L - 1
    BY <1>1, <2>2
  <2> HIDE DEF count, q
  <2>8. /\ offset + count \in offset + 1 .. c /\ count \in Nat
        /\ n + count \in n + 1 .. HeaderLength
        /\ from + (offset + count) = EndOf(d) + (n + count)
        /\ Beginning(q, d, n + count) /\ Len(q) = n + count
    <3>1. /\ offset + count \in offset + 1 .. c /\ n + count \in n + 1 .. HeaderLength
          /\ from + (offset + count) = EndOf(d) + (n + count)
          /\ Beginning(h \o SubSeq(chunk, offset + 1, offset + count), d, n + count)
      BY <2>1, <2>a, <2>5, <2>6, CopiesOn
    <3>2. count \in Nat
      BY <1>1, <2>6 DEF Copies
    <3> QED
      BY <2>7, <3>1, <3>2 DEF Beginning
  <2> DEFINE t == from + (offset + count)
             x == Extended(r, q)
  <2>9. x = IF Len(q) < HeaderLength THEN Receiver(q, <<>>, 0, d, FALSE)
            ELSE IF Refused(q[HeaderLength]) THEN Receiver(q, <<>>, 0, d, TRUE)
            ELSE Receiver(<<>>, q, HeaderLength + q[HeaderLength], d, FALSE)
    BY <2>1, ExtendedHeader
  <2> HIDE DEF x, t
  <2>10. t = EndOf(d) + (n + count)
    BY <2>8 DEF t
  <2>11. CASE n + count < HeaderLength
    <3>1. x = Receiver(q, <<>>, 0, d, FALSE) /\ n + count \in 0 .. HeaderLength - 1
      BY <2>5, <2>8, <2>9, <2>11
    <3>2. InHeader(x, t, d)
      BY <2>2, <2>8, <2>10, <3>1 DEF InHeader
    <3> QED
      BY <1>2, <2>4, <2>8, <3>2 DEF Taken, Standing, t, x
  <2>12. CASE ~(n + count < HeaderLength)
    <3>1. n + count = HeaderLength
      BY <2>5, <2>8, <2>12
    <3>2. Beginning(q, d, HeaderLength) /\ Len(q) = HeaderLength
      BY <2>8, <3>1
    <3>3. q[HeaderLength] = lengths[d + 1]
      <4>1. FrameOf(d + 1)[HeaderLength] = lengths[d + 1]
        BY <2>3, PacketIs
      <4>2. HeaderLength \in 1 .. HeaderLength
        BY <1>1
      <4> QED
        BY <3>2, <4>1, <4>2 DEF Beginning
    <3>4. x = IF Refused(lengths[d + 1]) THEN Receiver(q, <<>>, 0, d, TRUE)
               ELSE Receiver(<<>>, q, HeaderLength + lengths[d + 1], d, FALSE)
      <4>1. ~(Len(q) < HeaderLength)
        BY <1>1, <3>2
      <4>2. x = IF Refused(q[HeaderLength]) THEN Receiver(q, <<>>, 0, d, TRUE)
                ELSE Receiver(<<>>, q, HeaderLength + q[HeaderLength], d, FALSE)
        BY <2>9, <4>1, Zenon
      <4> QED
        BY <3>3, <4>2
    <3>5. CASE Refused(lengths[d + 1])
      <4>1. x = Receiver(q, <<>>, 0, d, TRUE)
        BY <2>9, <3>4, <3>5
      <4>2. AtRefused(x, t, d)
        BY <2>2, <2>10, <3>1, <3>2, <3>5, <4>1 DEF AtRefused
      <4> QED
        BY <1>2, <2>4, <2>8, <4>2 DEF Taken, Standing, t, x
    <3>6. CASE ~Refused(lengths[d + 1])
      <4>1. x = Receiver(<<>>, q, HeaderLength + lengths[d + 1], d, FALSE)
        BY <2>9, <3>4, <3>6
      <4>2. lengths[d + 1] >= 1
        BY <2>3, <3>6 DEF Refused
      <4>3. Framing(x, t, d, HeaderLength + lengths[d + 1])
        <5> DEFINE size == HeaderLength + lengths[d + 1]
        <5>1. HeaderLength \in HeaderLength .. size - 1
          BY <1>1, <2>3, <4>2
        <5>2. x = Receiver(<<>>, q, size, d, FALSE)
          BY <4>1
        <5>3. t = EndOf(d) + HeaderLength
          BY <2>10, <3>1
        <5> HIDE DEF size
        <5>4. Framing(x, t, d, size)
          BY <3>2, <5>1, <5>2, <5>3, Zenon DEF Framing
        <5> QED
          BY <5>4 DEF size
      <4>4. InFrame(x, t, d)
        BY <2>2, <3>6, <4>3 DEF InFrame
      <4> QED
        BY <1>2, <2>4, <2>8, <4>4 DEF Taken, Standing, t, x
    <3> QED
      BY <3>5, <3>6
  <2> QED
    BY <2>11, <2>12
<1>7. CASE InFrame(r, from + offset, d)
  <2> DEFINE size == HeaderLength + lengths[d + 1]
  <2>1. d < L /\ ~Refused(lengths[d + 1])
    BY <1>7 DEF InFrame
  <2>a. Framing(r, from + offset, d, size)
    BY <1>7 DEF InFrame
  <2>b. PICK n \in HeaderLength .. size - 1 :
          \E f : /\ Beginning(f, d, n) /\ from + offset = EndOf(d) + n
                 /\ r = Receiver(<<>>, f, size, d, FALSE)
    <3> HIDE DEF size
    <3> QED
      BY <2>a DEF Framing
  <2>2. PICK f :
          /\ Beginning(f, d, n) /\ from + offset = EndOf(d) + n
          /\ r = Receiver(<<>>, f, size, d, FALSE)
    BY <2>b
  <2> DEFINE count == IF size - n < c - offset THEN size - n ELSE c - offset
             q == f \o SubSeq(chunk, offset + 1, offset + count)
  <2>3. lengths[d + 1] \in Nat /\ d + 1 \in 1 .. L /\ d \in 0 .. L - 1
    <3>1. d + 1 \in 1 .. L /\ d \in 0 .. L - 1
      BY <1>1, <2>1
    <3> QED
      BY <3>1 DEF Announced
  <2>4. size \in Nat \ {0}
    BY <1>1, <2>3, SMTT(60)
  <2>5. Copied(r, offset, chunk) = [part |-> q, offset |-> offset + count]
    <3>1. r.size = size /\ r.frame = f
      BY <2>2 DEF Receiver
    <3>2. Len(f) = n
      BY <2>2 DEF Beginning
    <3> HIDE DEF size
    <3> QED
      BY <2>4, <3>1, <3>2 DEF Copied
  <2>6. n \in Nat /\ n < size /\ size <= HeaderLength + lengths[d + 1]
    BY <1>1, <2>3, SMTT(60)
  <2>7. Copies(count, n, size, offset, chunk)
    BY DEF Copies
  <2>8. q = f \o SubSeq(chunk, offset + 1, offset + count)
    OBVIOUS
  <2> HIDE DEF count, q, size
  <2>9. /\ offset + count \in offset + 1 .. c /\ count \in Nat
        /\ n + count \in n + 1 .. size
        /\ from + (offset + count) = EndOf(d) + (n + count)
        /\ Beginning(q, d, n + count) /\ Len(q) = n + count
    <3>1. /\ offset + count \in offset + 1 .. c /\ n + count \in n + 1 .. size
          /\ from + (offset + count) = EndOf(d) + (n + count)
          /\ Beginning(f \o SubSeq(chunk, offset + 1, offset + count), d, n + count)
      BY <2>2, <2>3, <2>4, <2>6, <2>7, CopiesOn
    <3>2. count \in Nat
      BY <1>1, <2>4, <2>6, <2>7 DEF Copies
    <3> QED
      BY <2>8, <3>1, <3>2 DEF Beginning
  <2> DEFINE t == from + (offset + count)
             x == Extended(r, q)
  <2>10. x = IF Len(q) < size THEN Receiver(<<>>, q, size, d, FALSE)
             ELSE [header |-> <<>>, frame |-> <<>>, size |-> 0,
                   dispatched |-> Append(Dispatched(d), q), failed |-> FALSE]
    BY <2>2, <2>4, ExtendedFrame
  <2> HIDE DEF x, t
  <2>11. t = EndOf(d) + (n + count)
    BY <2>9 DEF t
  <2>12. CASE n + count < size
    <3>1. x = Receiver(<<>>, q, size, d, FALSE) /\ n + count \in HeaderLength .. size - 1
      BY <1>1, <2>2, <2>4, <2>9, <2>10, <2>12
    <3>2. InFrame(x, t, d)
      <4>1. Framing(x, t, d, size)
        BY <2>9, <2>11, <3>1 DEF Framing
      <4> QED
        BY <2>1, <4>1 DEF InFrame, size
    <3> QED
      BY <1>2, <2>5, <2>9, <3>2 DEF Taken, Standing, t, x
  <2>13. CASE ~(n + count < size)
    <3>1. n + count = size
      BY <2>4, <2>6, <2>9, <2>13
    <3>2. Beginning(q, d, size) /\ Len(q) = size
      BY <2>9, <3>1
    <3>3. Append(Dispatched(d), q) = Dispatched(d + 1)
      BY <2>3, <3>2, OneMore DEF size
    <3>4. x = Receiver(<<>>, <<>>, 0, d + 1, FALSE)
      BY <2>4, <2>10, <3>2, <3>3 DEF Receiver
    <3>5. t = EndOf(d + 1) + 0
      <4>1. d + 1 - 1 = d
        BY <1>1
      <4>2. EndOf(d + 1) = EndOf(d) + size /\ EndOf(d + 1) \in Nat
        BY <1>1, <2>3, <4>1, EndIs DEF size
      <4> QED
        BY <2>11, <3>1, <4>2
    <3>6. Beginning(<<>>, d + 1, 0)
      BY DEF Beginning
    <3>7. InHeader(x, t, d + 1)
      <4>1. 0 \in 0 .. HeaderLength - 1 /\ ~(0 > 0)
        BY <1>1
      <4> QED
        BY <3>4, <3>5, <3>6, <4>1 DEF InHeader
    <3>8. Accepted(d + 1) /\ d + 1 \in 0 .. L
      <4>1. \A k \in 1 .. d + 1 : k \in 1 .. d \/ k = d + 1
        BY <1>1
      <4>2. Accepted(d + 1)
        BY <1>2, <2>1, <4>1 DEF Accepted
      <4> QED
        BY <1>1, <2>3, <4>2
    <3> QED
      BY <2>5, <2>9, <3>7, <3>8 DEF Taken, Standing, t, x
  <2> QED
    BY <2>12, <2>13
<1> QED
  BY <1>2, <1>3, <1>6, <1>7 DEF Standing

-----------------------------------------------------------------------------
(* The passes of #receive over a chunk, up to a number of them.            *)

PassesOver(m, chunk, k, f) ==
  f = [n \in 0 .. k |-> IF n = 0 THEN m ELSE PassOver(f[n - 1], chunk)]

LEMMA PassesOverExist ==
  ASSUME NEW m, NEW chunk, NEW c \in Nat
  PROVE  \E f : PassesOver(m, chunk, c, f)
<1> DEFINE S == {k \in 0 .. c : \E f : PassesOver(m, chunk, k, f)}
<1>1. 0 \in S
  <2> DEFINE z == [i \in 0 .. 0 |-> m]
  <2>1. z = [n \in 0 .. 0 |-> IF n = 0 THEN m ELSE PassOver(z[n - 1], chunk)]
    OBVIOUS
  <2> HIDE DEF z
  <2>2. PassesOver(m, chunk, 0, z)
    BY <2>1 DEF PassesOver
  <2> QED
    BY <2>2
<1>2. \A k \in 0 .. c : k \in S /\ k < c => k + 1 \in S
  <2> TAKE k \in 0 .. c
  <2> HAVE k \in S /\ k < c
  <2>1. PICK f : PassesOver(m, chunk, k, f)
    OBVIOUS
  <2> DEFINE last == PassOver(f[k], chunk)
             g == [n \in 0 .. (k + 1) |-> IF n = k + 1 THEN last ELSE f[n]]
             h == [n \in 0 .. (k + 1) |-> IF n = 0 THEN m ELSE PassOver(g[n - 1], chunk)]
  <2>2. \A n \in 0 .. (k + 1) : g[n] = h[n]
    <3> TAKE n \in 0 .. (k + 1)
    <3>1. CASE n = k + 1
      <4>1. n # 0 /\ n - 1 = k /\ k \in 0 .. (k + 1) /\ k # k + 1
        BY <3>1
      <4>2. g[n - 1] = f[k] /\ g[n] = last
        BY <3>1, <4>1
      <4> HIDE DEF g
      <4> QED
        BY <4>1, <4>2
    <3>2. CASE n # k + 1
      <4>1. n \in 0 .. k
        BY <3>2
      <4>2. f[n] = IF n = 0 THEN m ELSE PassOver(f[n - 1], chunk)
        BY <2>1, <4>1 DEF PassesOver
      <4>3. g[n] = f[n]
        BY <3>2
      <4>4. n # 0 => g[n - 1] = f[n - 1]
        <5>1. n # 0 => n - 1 \in 0 .. (k + 1) /\ n - 1 # k + 1
          BY <4>1
        <5> QED
          BY <5>1
      <4> HIDE DEF g
      <4> QED
        BY <4>2, <4>3, <4>4
    <3> QED
      BY <3>1, <3>2
  <2>3. g = h
    <3> HIDE DEF last
    <3> QED
      BY <2>2
  <2>4. PassesOver(m, chunk, k + 1, g)
    BY <2>3 DEF PassesOver
  <2> HIDE DEF g
  <2> QED
    BY <2>4
<1>3. S = 0 .. c
  <2> HIDE DEF S
  <2>1. S \in SUBSET (0 .. c)
    BY DEF S
  <2> QED
    BY <1>1, <1>2, <2>1, UpTo
<1> QED
  BY <1>3

\* The receiver and the place in the chunk in front of a pass.
At(m, chunk, from) ==
  m.offset \in 0 .. Len(chunk) /\ Taken(m.receiver, from + m.offset)

Over(m, chunk) == m.receiver.failed \/ m.offset = Len(chunk)

LEMMA PassOverAt ==
  ASSUME Announced, NEW chunk, NEW from, Delivered(chunk, from),
         NEW m, At(m, chunk, from), NEW u, u = PassOver(m, chunk)
  PROVE  /\ At(u, chunk, from)
         /\ Over(m, chunk) => u = m
         /\ ~Over(m, chunk) => u.offset \in m.offset + 1 .. Len(chunk)
<1>1. CASE Over(m, chunk)
  BY <1>1 DEF Over, PassOver
<1>2. CASE ~Over(m, chunk)
  <2> DEFINE copied == Copied(m.receiver, m.offset, chunk)
             x == Extended(m.receiver, copied.part)
  <2>1. u = [receiver |-> x, offset |-> copied.offset]
    BY <1>2 DEF Over, PassOver
  <2>2. m.offset \in 0 .. Len(chunk) - 1
    BY <1>2 DEF At, Over, Delivered
  <2>3. copied.offset \in m.offset + 1 .. Len(chunk) /\ Taken(x, from + copied.offset)
    BY <1>2, <2>2, PassTaken DEF At, Over
  <2> HIDE DEF copied, x
  <2>4. u.receiver = x /\ u.offset = copied.offset
    BY <2>1
  <2>5. copied.offset \in 0 .. Len(chunk)
    BY <2>2, <2>3 DEF Delivered
  <2> QED
    BY <1>2, <2>3, <2>4, <2>5 DEF At
<1> QED
  BY <1>1, <1>2

\* #receive takes the whole chunk, or the stream up to a refused length.
LEMMA ReceivedTaken ==
  ASSUME Announced, NEW chunk, NEW from, Delivered(chunk, from),
         NEW r, Taken(r, from), NEW u, u = Received(r, chunk)
  PROVE  \E t \in from .. from + Len(chunk) :
           Taken(u, t) /\ (u.failed \/ t = from + Len(chunk))
<1> DEFINE c == Len(chunk)
           m == [receiver |-> r, offset |-> 0]
           f == CHOOSE f : PassesOver(m, chunk, c, f)
           Good(n) == At(f[n], chunk, from) /\ (Over(f[n], chunk) \/ f[n].offset >= n)
           S == {n \in 0 .. c : Good(n)}
<1>1. c \in Nat /\ from \in Nat
  BY DEF Delivered
<1>2. PassesOver(m, chunk, c, f)
  BY <1>1, PassesOverExist
<1>3. u = f[c].receiver
  BY DEF Received, PassesOver
<1>4. m.receiver = r /\ m.offset = 0
  OBVIOUS
<1> HIDE DEF f, m
<1>5. /\ f[0] = m
      /\ \A n \in 0 .. c : n < c => f[n + 1] = PassOver(f[n], chunk)
  <2>1. f[0] = m
    BY <1>1, <1>2 DEF PassesOver
  <2>2. ASSUME NEW n \in 0 .. c, n < c
        PROVE  f[n + 1] = PassOver(f[n], chunk)
    <3>1. n + 1 \in 0 .. c /\ n + 1 # 0 /\ n + 1 - 1 = n
      BY <1>1, <2>2
    <3> HIDE DEF c
    <3> QED
      BY <1>2, <3>1 DEF PassesOver
  <2> QED
    BY <2>1, <2>2
<1> HIDE DEF c
<1>6. 0 \in S
  <2>1. from + 0 = from /\ 0 \in 0 .. c /\ 0 >= 0
    BY <1>1
  <2>2. At(m, chunk, from)
    BY <1>4, <2>1 DEF At, c
  <2> QED
    BY <1>4, <1>5, <2>1, <2>2
<1>7. \A n \in 0 .. c : n \in S /\ n < c => n + 1 \in S
  <2> SUFFICES ASSUME NEW n \in 0 .. c, Good(n), n < c PROVE Good(n + 1)
    BY <1>1
  <2>1. f[n + 1] = PassOver(f[n], chunk)
    BY <1>5
  <2>2. /\ At(f[n + 1], chunk, from)
        /\ Over(f[n], chunk) => f[n + 1] = f[n]
        /\ ~Over(f[n], chunk) => f[n + 1].offset \in f[n].offset + 1 .. c
    BY <2>1, PassOverAt DEF c
  <2>3. f[n].offset \in 0 .. c /\ f[n + 1].offset \in 0 .. c
    BY <2>2 DEF At, c
  <2>4. CASE Over(f[n], chunk)
    BY <2>2, <2>4
  <2>5. CASE ~Over(f[n], chunk)
    <3>1. f[n].offset >= n /\ f[n + 1].offset \in f[n].offset + 1 .. c
      BY <2>2, <2>5
    <3>2. f[n + 1].offset >= n + 1
      BY <1>1, <2>3, <3>1
    <3> QED
      BY <2>2, <3>2
  <2> QED
    BY <2>4, <2>5
<1>8. S = 0 .. c
  <2> HIDE DEF S
  <2>1. S \in SUBSET (0 .. c)
    BY DEF S
  <2> QED
    BY <1>1, <1>6, <1>7, <2>1, UpTo
<1>9. Good(c)
  <2> HIDE DEF Good
  <2> QED
    BY <1>1, <1>8
<1> DEFINE o == f[c].offset
<1>10. o \in 0 .. c /\ Taken(u, from + o) /\ (u.failed \/ o = c)
  <2>1. o \in 0 .. c /\ Taken(u, from + o) /\ (u.failed \/ o = c \/ o >= c)
    BY <1>3, <1>9 DEF At, Over, c
  <2> HIDE DEF o
  <2>2. o >= c => o = c
    BY <1>1, <2>1
  <2> QED
    BY <2>1, <2>2
<1> HIDE DEF o
<1>11. from + o \in from .. from + c
  BY <1>1, <1>10
<1> QED
  BY <1>10, <1>11 DEF c

-----------------------------------------------------------------------------
(* The client and the stream.                                              *)

FramesIInv ==
  /\ Announced /\ sent \in 0 .. EndOf(Len(lengths))
  /\ \E t \in 0 .. sent : Taken(receiver, t) /\ (receiver.failed \/ t = sent)

LEMMA FramesInitial ==
  ASSUME FramesInit
  PROVE  FramesIInv
<1>1. lengths \in Seq(Nat) /\ sent = 0
  <2>1. PICK n \in 0 .. MaxFrames : lengths \in [1 .. n -> PacketLengths]
    BY DEF FramesInit, BoundedSeq, SeqOf
  <2>2. lengths \in [1 .. n -> Nat] /\ n \in Nat
    <3>1. PacketLengths \subseteq Nat /\ MaxFrames \in Nat
      BY FramesAssumption
    <3>2. n \in Nat
      BY <3>1
    <3> QED
      BY <2>1, <3>1, <3>2
  <2>3. lengths \in Seq(Nat)
    BY <2>2
  <2> QED
    BY <2>3 DEF FramesInit
<1>2. Announced /\ Len(lengths) \in Nat
  BY <1>1 DEF Announced
<1>3. EndOf(0) = 0 /\ EndOf(Len(lengths)) \in Nat
  BY <1>2, EndIs
<1>4. Beginning(<<>>, 0, 0)
  BY DEF Beginning
<1>5. Dispatched(0) = <<>>
  BY DEF Dispatched
<1>6. receiver = Receiver(<<>>, <<>>, 0, 0, FALSE)
  BY <1>5 DEF FramesInit, Receiver
<1>7. InHeader(receiver, 0, 0)
  <2>1. 0 \in 0 .. HeaderLength - 1 /\ ~(0 > 0) /\ 0 = EndOf(0) + 0
    BY <1>3, FramesAssumption
  <2> QED
    BY <1>4, <1>6, <2>1 DEF InHeader
<1>8. Taken(receiver, 0)
  <2>1. 0 \in 0 .. Len(lengths) /\ Accepted(0)
    BY <1>2 DEF Accepted
  <2> QED
    BY <1>7, <2>1 DEF Taken, Standing
<1>9. 0 \in 0 .. 0 /\ 0 \in 0 .. EndOf(Len(lengths))
  BY <1>3
<1> QED
  BY <1>1, <1>2, <1>8, <1>9 DEF FramesIInv

\* A chunk is cut out of the stream behind what was sent.
LEMMA CutOut ==
  ASSUME Announced, NEW from \in Nat, NEW n \in 1 .. Len(Stream) - from
  PROVE  LET chunk == SubSeq(Stream, from + 1, from + n)
         IN  Len(chunk) = n /\ Delivered(chunk, from)
<1> DEFINE e == EndOf(Len(lengths))
           U == {Stream[i] : i \in 1 .. e}
           a == from + 1
           b == from + n
           s == SubSeq(Stream, a, b)
           z == Stream
<1>1. Stream \in Seq(U) /\ Len(Stream) = e /\ e \in Nat
  BY StreamIs
<1> HIDE DEF U, e
<1>2. a \in Int /\ b \in Int /\ a <= b /\ b - a + 1 = n /\ a \in 1 .. e /\ b \in 1 .. e /\ b <= e
  BY <1>1
<1>3. \A i \in a .. b : Stream[i] \in U
  <2>1. \A i \in a .. b : i \in 1 .. e
    BY <1>1
  <2>2. \A i \in 1 .. e : Stream[i] \in U
    BY DEF U, e
  <2> QED
    BY <2>1, <2>2
<1>4. /\ Len(s) = IF a <= b THEN b - a + 1 ELSE 0
      /\ \A i \in 1 .. b - a + 1 : s[i] = z[a + i - 1]
  <2>1. a \in Int /\ b \in Int /\ \A i \in a .. b : z[i] \in U
    BY <1>2, <1>3
  <2> HIDE DEF a, b, z
  <2>2. SubSeq(z, a, b) = s
    BY DEF z
  <2> HIDE DEF s
  <2>3. /\ Len(SubSeq(z, a, b)) = IF a <= b THEN b - a + 1 ELSE 0
        /\ \A i \in 1 .. b - a + 1 : SubSeq(z, a, b)[i] = z[a + i - 1]
    BY <2>1, SubSeqProperties
  <2> QED
    BY <2>2, <2>3, SMTT(30)
<1> HIDE DEF s
<1>5. Len(s) = n /\ \A i \in 1 .. n : s[i] = Stream[from + i]
  <2>1. Len(s) = n
    BY <1>2, <1>4
  <2>2. \A i \in 1 .. n : a + i - 1 = from + i
    OBVIOUS
  <2>3. \A i \in 1 .. n : s[i] = z[a + i - 1]
    BY <1>2, <1>4
  <2> HIDE DEF a
  <2> QED
    BY <2>1, <2>2, <2>3
<1>6. from + n <= e
  BY <1>2
<1>7. Delivered(s, from)
  <2>1. n \in Nat
    OBVIOUS
  <2> QED
    BY <1>5, <1>6, <2>1 DEF Delivered, e
<1> QED
  BY <1>5, <1>7 DEF s, a, b

\* The stream does not change, and so neither does what the receiver should hold.
LEMMA StreamStays ==
  ASSUME UNCHANGED lengths
  PROVE  /\ Announced' <=> Announced
         /\ Len(lengths)' = Len(lengths)
         /\ \A k : EndOf(k)' = EndOf(k)
         /\ \A t : Taken(receiver, t)' <=> Taken(receiver', t)
<1>1. (Announced' <=> Announced) /\ lengths' = lengths
  BY DEF Announced
<1>2. \A k : EndOf(k)' = EndOf(k)
  BY <1>1 DEF EndOf
<1>3. \A k : FrameOf(k)' = FrameOf(k)
  BY <1>1 DEF FrameOf
<1>4. \A d : Dispatched(d)' = Dispatched(d)
  BY <1>3 DEF Dispatched
<1>5. \A p, d, n : Beginning(p, d, n)' <=> Beginning(p, d, n)
  BY <1>3 DEF Beginning
<1>6. \A t, d : InHeader(receiver, t, d)' <=> InHeader(receiver', t, d)
  <2> SUFFICES ASSUME NEW t, NEW d
               PROVE  InHeader(receiver, t, d)' <=> InHeader(receiver', t, d)
    OBVIOUS
  <2> QED
    BY <1>1, <1>2, <1>4, <1>5 DEF InHeader, Receiver
<1>7. \A t, d, size : Framing(receiver, t, d, size)' <=> Framing(receiver', t, d, size)
  <2> SUFFICES ASSUME NEW t, NEW d, NEW size
               PROVE  Framing(receiver, t, d, size)' <=> Framing(receiver', t, d, size)
    OBVIOUS
  <2> QED
    BY <1>1, <1>2, <1>4, <1>5 DEF Framing, Receiver
<1>8. \A t, d : InFrame(receiver, t, d)' <=> InFrame(receiver', t, d)
  <2> SUFFICES ASSUME NEW t, NEW d
               PROVE  InFrame(receiver, t, d)' <=> InFrame(receiver', t, d)
    OBVIOUS
  <2> QED
    BY <1>1, <1>2, <1>4, <1>5 DEF InFrame, Framing, Receiver
<1>9. \A t, d : AtRefused(receiver, t, d)' <=> AtRefused(receiver', t, d)
  <2> SUFFICES ASSUME NEW t, NEW d
               PROVE  AtRefused(receiver, t, d)' <=> AtRefused(receiver', t, d)
    OBVIOUS
  <2> QED
    BY <1>1, <1>2, <1>4, <1>5 DEF AtRefused, Receiver
<1>10. \A d : Accepted(d)' <=> Accepted(d)
  BY <1>1 DEF Accepted
<1>11. ASSUME NEW t
       PROVE  Taken(receiver, t)' <=> Taken(receiver', t)
  BY <1>1, <1>6, <1>8, <1>9, <1>10 DEF Taken, Standing
<1> QED
  BY <1>1, <1>2, <1>11

LEMMA FramesStep ==
  ASSUME FramesIInv, [Receive]_frameVars
  PROVE  FramesIInv'
<1>1. CASE UNCHANGED frameVars
  <2>1. UNCHANGED lengths /\ sent' = sent /\ receiver' = receiver
    BY <1>1 DEF frameVars
  <2> QED
    BY <2>1, StreamStays DEF FramesIInv
<1>2. CASE Receive
  <2> DEFINE L == Len(lengths)
             e == EndOf(L)
  <2>1. PICK n \in 1 .. Len(Stream) - sent :
          /\ sent' = sent + n
          /\ receiver' = Received(receiver, SubSeq(Stream, sent + 1, sent + n))
    BY <1>2 DEF Receive
  <2>2. UNCHANGED lengths /\ ~receiver.failed
    BY <1>2 DEF Receive
  <2>3. Announced /\ sent \in 0 .. e /\ Len(Stream) = e /\ e \in Nat
    BY StreamIs DEF FramesIInv
  <2>4. Taken(receiver, sent)
    BY <2>2 DEF FramesIInv
  <2> DEFINE chunk == SubSeq(Stream, sent + 1, sent + n)
  <2>5. Len(chunk) = n /\ Delivered(chunk, sent)
    BY <2>3, CutOut
  <2> HIDE DEF chunk, e
  <2>6. receiver' = Received(receiver, chunk)
    BY <2>1 DEF chunk
  <2>7. PICK t \in sent .. sent + n :
          Taken(receiver', t) /\ (receiver'.failed \/ t = sent + n)
    BY <2>3, <2>4, <2>5, <2>6, ReceivedTaken
  <2>8. t \in 0 .. sent' /\ sent' \in 0 .. e
    BY <2>1, <2>3
  <2>9. Announced' /\ e' = e /\ Taken(receiver, t)'
    BY <2>2, <2>3, <2>7, StreamStays DEF e
  <2> QED
    BY <2>1, <2>7, <2>8, <2>9 DEF FramesIInv, e
<1> QED
  BY <1>1, <1>2

\* The packets that have arrived whole are the first d.
LEMMA Whole ==
  ASSUME FramesIInv, NEW d \in 0 .. Len(lengths), Accepted(d),
         EndOf(d) <= sent,
         \A k \in d + 1 .. Len(lengths) : Accepted(k) => EndOf(k) > sent
  PROVE  LET good == {k \in DOMAIN lengths : \A j \in 1 .. k : ~Refused(lengths[j])}
         IN  Cardinality({k \in good : EndOf(k) <= sent}) = d
<1> DEFINE good == {k \in DOMAIN lengths : \A j \in 1 .. k : ~Refused(lengths[j])}
           w == {k \in good : EndOf(k) <= sent}
           L == Len(lengths)
<1>1. L \in Nat /\ DOMAIN lengths = 1 .. L /\ sent \in Int
  BY EndIs DEF FramesIInv, Announced
<1>2. /\ \A k \in 0 .. L : EndOf(k) \in Nat
      /\ \A j, k \in 0 .. L : j <= k => EndOf(j) <= EndOf(k)
  BY EndIs DEF FramesIInv
<1>3. ASSUME NEW k \in 1 .. d
      PROVE  k \in w
  <2>1. k \in 1 .. L /\ k \in 0 .. L /\ d \in 0 .. L /\ k <= d
    BY <1>1
  <2>2. \A j \in 1 .. k : j \in 1 .. d
    BY <1>1
  <2>3. k \in good
    BY <1>1, <2>1, <2>2 DEF Accepted
  <2>4. EndOf(k) <= EndOf(d) /\ EndOf(k) \in Nat /\ EndOf(d) \in Nat
    BY <1>2, <2>1
  <2>5. EndOf(k) <= sent
    BY <1>1, <2>4
  <2> QED
    BY <2>3, <2>5
<1>4. ASSUME NEW k \in w
      PROVE  k \in 1 .. d
  <2>1. k \in 1 .. L /\ Accepted(k) /\ EndOf(k) <= sent
    BY <1>1 DEF Accepted
  <2>2. EndOf(k) \in Nat
    BY <1>1, <1>2, <2>1
  <2>3. CASE k > d
    <3>1. k \in d + 1 .. L
      BY <1>1, <2>1, <2>3
    <3>2. EndOf(k) > sent
      BY <2>1, <3>1
    <3> QED
      BY <1>1, <2>1, <2>2, <3>2
  <2> QED
    BY <1>1, <2>1, <2>3
<1>5. w = 1 .. d
  <2> HIDE DEF w
  <2> QED
    BY <1>3, <1>4
<1>6. Cardinality(1 .. d) = d
  <2>1. 1 \in Int /\ d \in Int /\ d \in Nat
    BY <1>1
  <2>2. Cardinality(1 .. d) = IF 1 > d THEN 0 ELSE d - 1 + 1
    BY <2>1, FS_Interval
  <2> QED
    BY <2>1, <2>2
<1> QED
  BY <1>5, <1>6

LEMMA FramesShown ==
  ASSUME FramesIInv
  PROVE  FramesKept
<1> DEFINE good == {k \in DOMAIN lengths : \A j \in 1 .. k : ~Refused(lengths[j])}
           whole == {k \in good : EndOf(k) <= sent}
           bad == {k \in DOMAIN lengths : Refused(lengths[k]) /\ k - 1 \in good \cup {0}}
           L == Len(lengths)
           Shown(d) == Cardinality(whole) = d /\ receiver.dispatched = Dispatched(d)
           Stopped == \E k \in bad : EndOf(k - 1) + HeaderLength <= sent
<1>1. PICK t \in 0 .. sent : Taken(receiver, t) /\ (receiver.failed \/ t = sent)
  BY DEF FramesIInv
<1>2. PICK d \in 0 .. L : Accepted(d) /\ Standing(receiver, t, d)
  BY <1>1 DEF Taken
<1>3. /\ L \in Nat /\ DOMAIN lengths = 1 .. L /\ sent \in Nat /\ HeaderLength \in Nat \ {0}
      /\ \A k \in 1 .. L : lengths[k] \in Nat
  BY EndIs, FramesAssumption, SMTT(60) DEF FramesIInv, Announced
<1>4. /\ \A k \in 0 .. L : EndOf(k) \in Nat
      /\ \A k \in 1 .. L : EndOf(k) = EndOf(k - 1) + (HeaderLength + lengths[k])
      /\ \A j, k \in 0 .. L : j <= k => EndOf(j) <= EndOf(k)
  BY EndIs DEF FramesIInv
<1> HIDE DEF L
\* Nothing behind the packet that has begun.
<1>5. ASSUME NEW b \in 0 .. L, EndOf(b) <= sent, b = L \/ sent < EndOf(b) + HeaderLength
      PROVE  /\ \A k \in b + 1 .. L : EndOf(k) > sent
             /\ \A k \in b + 1 .. L : ~(EndOf(k - 1) + HeaderLength <= sent)
  <2> SUFFICES ASSUME NEW k \in b + 1 .. L
               PROVE  EndOf(k) > sent /\ ~(EndOf(k - 1) + HeaderLength <= sent)
    OBVIOUS
  <2>1. k \in 1 .. L /\ k - 1 \in 0 .. L /\ k \in 0 .. L /\ b <= k - 1 /\ b # L
    BY <1>3
  <2>2. EndOf(b) <= EndOf(k - 1) /\ EndOf(b) \in Nat /\ EndOf(k - 1) \in Nat
    BY <1>4, <2>1
  <2>3. EndOf(k) = EndOf(k - 1) + (HeaderLength + lengths[k]) /\ lengths[k] \in Nat
    BY <1>3, <1>4, <2>1
  <2>4. sent < EndOf(b) + HeaderLength
    BY <1>5, <2>1
  <2>5. sent < EndOf(k - 1) + HeaderLength
    BY <1>3, <2>2, <2>4
  <2> QED
    BY <1>3, <2>2, <2>3, <2>5
<1>6. ASSUME NEW k \in bad
      PROVE  k \in d + 1 .. L /\ Refused(lengths[k])
  <2>1. k \in 1 .. L /\ Refused(lengths[k])
    BY <1>3
  <2>2. ~(k \in 1 .. d)
    BY <1>2, <2>1 DEF Accepted
  <2>3. k \in Int /\ d \in Int
    BY <1>3, <2>1
  <2> QED
    BY <1>3, <2>1, <2>2, <2>3
<1> HIDE DEF good, whole, bad
<1>7. CASE InHeader(receiver, t, d)
  <2>0. PICK n \in 0 .. HeaderLength - 1 :
          \E h : t = EndOf(d) + n /\ receiver = Receiver(h, <<>>, 0, d, FALSE)
    BY <1>7 DEF InHeader
  <2>1. PICK h : t = EndOf(d) + n /\ receiver = Receiver(h, <<>>, 0, d, FALSE)
    BY <2>0
  <2>2. receiver.failed = FALSE /\ receiver.dispatched = Dispatched(d)
    BY <2>1 DEF Receiver
  <2>3. EndOf(d) <= sent /\ sent < EndOf(d) + HeaderLength
    <3>1. sent = EndOf(d) + n /\ EndOf(d) \in Nat
      BY <1>1, <1>4, <2>1, <2>2
    <3> QED
      BY <1>3, <3>1
  <2>4. Cardinality(whole) = d
    BY <1>2, <1>5, <2>3, Whole DEF whole, good, L
  <2>5. ~Stopped
    BY <1>5, <1>6, <2>3
  <2> QED
    BY <2>2, <2>4, <2>5 DEF FramesKept, Dispatched, whole, bad, good
<1>8. CASE InFrame(receiver, t, d)
  <2> DEFINE size == HeaderLength + lengths[d + 1]
  <2>1. d < L /\ ~Refused(lengths[d + 1]) /\ Framing(receiver, t, d, size)
    BY <1>8 DEF InFrame, L
  <2>2. d + 1 \in 0 .. L /\ d + 1 \in 1 .. L /\ d + 1 - 1 = d
    BY <1>3, <2>1
  <2>3. EndOf(d + 1) = EndOf(d) + size /\ EndOf(d) \in Nat /\ size \in Nat
    BY <1>3, <1>4, <2>2
  <2> HIDE DEF size
  <2>0. PICK n \in HeaderLength .. size - 1 :
          \E f : t = EndOf(d) + n /\ receiver = Receiver(<<>>, f, size, d, FALSE)
    BY <2>1 DEF Framing
  <2>4. PICK f : t = EndOf(d) + n /\ receiver = Receiver(<<>>, f, size, d, FALSE)
    BY <2>0
  <2>5. receiver.failed = FALSE /\ receiver.dispatched = Dispatched(d)
    BY <2>4 DEF Receiver
  <2>6. EndOf(d) <= sent /\ sent < EndOf(d + 1)
    <3>1. sent = EndOf(d) + n
      BY <1>1, <2>4, <2>5
    <3> QED
      BY <1>3, <2>3, <3>1
  <2>7. ASSUME NEW k \in d + 1 .. L
        PROVE  EndOf(k) > sent /\ EndOf(k) \in Nat
    <3>1. k \in 0 .. L /\ d + 1 <= k
      BY <1>3
    <3>2. EndOf(d + 1) <= EndOf(k) /\ EndOf(d + 1) \in Nat /\ EndOf(k) \in Nat
      BY <1>4, <2>2, <3>1
    <3> QED
      BY <1>3, <2>6, <3>2
  <2>8. Cardinality(whole) = d
    BY <1>2, <2>6, <2>7, Whole DEF whole, good, L
  <2>9. ~Stopped
    <3> SUFFICES ASSUME NEW k \in bad, EndOf(k - 1) + HeaderLength <= sent PROVE FALSE
      OBVIOUS
    <3>1. k \in d + 1 .. L /\ k # d + 1
      BY <1>6, <2>1
    <3>2. k - 1 \in d + 1 .. L
      BY <1>3, <3>1
    <3>3. EndOf(k - 1) > sent /\ EndOf(k - 1) \in Nat
      BY <2>7, <3>2
    <3> QED
      BY <1>3, <3>3
  <2> QED
    BY <2>5, <2>8, <2>9 DEF FramesKept, Dispatched, whole, bad, good
<1>9. CASE AtRefused(receiver, t, d)
  <2>1. d < L /\ Refused(lengths[d + 1]) /\ t = EndOf(d) + HeaderLength
    BY <1>9 DEF AtRefused, L
  <2>2. receiver.failed = TRUE /\ receiver.dispatched = Dispatched(d)
    BY <1>9 DEF AtRefused, Receiver
  <2>3. EndOf(d) \in Nat /\ EndOf(d) + HeaderLength <= sent
    BY <1>1, <1>3, <1>4, <2>1
  <2>4. EndOf(d) <= sent
    BY <1>3, <2>3
  <2>5. \A k \in d + 1 .. L : ~Accepted(k)
    <3> SUFFICES ASSUME NEW k \in d + 1 .. L PROVE ~Accepted(k)
      OBVIOUS
    <3>1. d + 1 \in 1 .. k
      BY <1>3
    <3> QED
      BY <2>1, <3>1 DEF Accepted
  <2>6. Cardinality(whole) = d
    BY <1>2, <2>4, <2>5, Whole DEF whole, good, L
  <2>7. d + 1 \in 1 .. L /\ d + 1 - 1 = d
    BY <1>3, <2>1
  <2>8. d \in good \cup {0}
    <3>1. d = 0 \/ d \in 1 .. L
      BY <1>3
    <3> QED
      BY <1>2, <1>3, <3>1 DEF good, Accepted
  <2>9. d + 1 \in bad
    BY <1>3, <2>1, <2>7, <2>8 DEF bad
  <2>10. Stopped
    BY <2>3, <2>7, <2>9
  <2> QED
    BY <2>2, <2>6, <2>10 DEF FramesKept, Dispatched, whole, bad, good
<1> QED
  BY <1>2, <1>7, <1>8, <1>9 DEF Standing

\* However the stream is cut into chunks, the client dispatches exactly the packets
\* that have arrived whole, in order and unchanged, up to the first refused length,
\* for every length of the header, every maximum and every number of packets
\* (SFTPClient.#receive, sftp.ts:516-545).
THEOREM PacketsKept == FramesSpec => []FramesKept
<1>1. FramesInit => FramesIInv
  BY FramesInitial
<1>2. FramesIInv /\ [Receive]_frameVars => FramesIInv'
  BY FramesStep
<1>3. FramesIInv => FramesKept
  BY FramesShown
<1> QED
  BY <1>1, <1>2, <1>3, PTL DEF FramesSpec

-----------------------------------------------------------------------------
(* PacketLayout: the padding of a packet.                                  *)

\* A multiple of a number leaves no remainder.
LEMMA Multiple ==
  ASSUME NEW b \in Nat, b > 0, NEW k \in Nat
  PROVE  (b * k) % b = 0
<1>1. (b * k) % b \in 0 .. b - 1
  BY Z3
<1>2. PICK q \in Int : b * k = b * q + ((b * k) % b)
  BY Z3
<1>3. b * (k - q) = (b * k) % b
  BY <1>2, <1>1, Z3
<1>4. CASE k - q >= 1
  BY <1>1, <1>3, <1>4, Z3
<1>5. CASE k - q = 0
  BY <1>1, <1>3, <1>5, Z3
<1>6. CASE k - q <= -1
  BY <1>1, <1>3, <1>6, Z3
<1> QED
  BY <1>4, <1>5, <1>6, Z3

\* What is missing to the next multiple, and a whole block more, align a number.
LEMMA Completed ==
  ASSUME NEW n \in Nat, NEW b \in Nat, b > 0
  PROVE  LET missing == b - (n % b)
         IN  /\ missing \in 1 .. b
             /\ (n + missing) % b = 0
             /\ (n + missing + b) % b = 0
<1>1. n % b \in 0 .. b - 1
  BY Z3
<1>2. PICK q \in Nat : n = b * q + (n % b)
  BY Z3
<1>3. n + (b - (n % b)) = b * (q + 1)
  BY <1>1, <1>2, Z3
<1>4. n + (b - (n % b)) + b = b * (q + 2)
  BY <1>3, Z3
<1>5. (b * (q + 1)) % b = 0 /\ (b * (q + 2)) % b = 0
  BY Multiple
<1> QED
  BY <1>1, <1>3, <1>4, <1>5

\* The padding of a packet is 4 .. block + 3 bytes, which one byte holds, and ends
\* the packet on a block (packet.ts:73-78).
LEMMA Padded ==
  ASSUME NEW payload \in Nat, NEW block \in BlockSizes
  PROVE  /\ requiredPaddingLength(payload, block) \in 4 .. block + 3
         /\ requiredPaddingLength(payload, block) \in 0 .. 255
         /\ (payload + Overhead + requiredPaddingLength(payload, block)) % block = 0
<1> DEFINE n == payload + Overhead
           missing == block - (n % block)
<1>1. n \in Nat /\ block \in Nat /\ block > 0 /\ block >= 8 /\ block <= 252
  BY DEF Overhead, BlockSizes
<1>2. missing \in 1 .. block /\ (n + missing) % block = 0 /\ (n + missing + block) % block = 0
  BY <1>1, Completed
<1>3. requiredPaddingLength(payload, block) = IF missing < 4 THEN missing + block ELSE missing
  BY DEF requiredPaddingLength
<1> HIDE DEF n, missing
<1>4. CASE missing < 4
  <2>1. requiredPaddingLength(payload, block) = missing + block
    BY <1>3, <1>4
  <2>2. n + (missing + block) = n + missing + block
    BY <1>1, <1>2
  <2> QED
    BY <1>1, <1>2, <1>4, <2>1, <2>2 DEF n
<1>5. CASE ~(missing < 4)
  BY <1>1, <1>2, <1>3, <1>5 DEF n
<1> QED
  BY <1>4, <1>5

\* Every packet that formatPacket lays out passes assertPacketLayout, when it is
\* written and when it is read, unless it is longer than the limit, and readPacket
\* cuts the payload out as long as it went in (packet.ts:25-60 and 80-94).
THEOREM LayoutKept ==
  ASSUME NEW payload \in Nat, NEW block \in BlockSizes, NEW maximum \in Nat
  PROVE  LET packet == PacketOf(payload, block)
         IN  /\ LayoutAccepted(packet, block, maximum) <=> packet.length <= maximum
             /\ PayloadLength(packet) = payload
             /\ packet.padding \in 4 .. 255
<1> DEFINE padding == requiredPaddingLength(payload, block)
           packet == PacketOf(payload, block)
<1>1. /\ padding \in 4 .. block + 3 /\ padding \in 0 .. 255
      /\ (payload + Overhead + padding) % block = 0
  BY Padded
<1>2. packet.length = 1 + payload + padding /\ packet.padding = padding
  BY DEF PacketOf
<1> HIDE DEF padding, packet
<1>3. block \in Nat
  BY DEF BlockSizes
<1>4. packet.length + 4 = payload + Overhead + padding
  BY <1>1, <1>2, <1>3 DEF Overhead
<1>5. /\ packet.length >= 5 /\ packet.padding >= 4 /\ packet.padding < packet.length
      /\ (4 + packet.length - packet.padding) - Overhead = payload
  BY <1>1, <1>2, <1>3 DEF Overhead
<1>6. (packet.length + 4) % block = 0
  BY <1>1, <1>4
<1>7. LayoutAccepted(packet, block, maximum) <=> packet.length <= maximum
  BY <1>5, <1>6 DEF LayoutAccepted
<1>8. PayloadLength(packet) = payload
  BY <1>5 DEF PayloadLength
<1> QED
  BY <1>1, <1>2, <1>3, <1>7, <1>8 DEF packet

-----------------------------------------------------------------------------
(* The two ends of a direction.                                            *)

\* Where the cipher stands behind the first n packets under way.
Behind(n) ==
  IF n = 0 THEN reader ELSE Stepped(underway[n].at, Blocks(underway[n].packet))

LaidOut(sealed) ==
  /\ LayoutAccepted(sealed.packet, Block, PacketLimit)
  /\ PayloadLength(sealed.packet) = sealed.payload

Chained ==
  /\ \A n \in 1 .. Len(underway) : LaidOut(underway[n]) /\ underway[n].at = Behind(n - 1)
  /\ writer = Behind(Len(underway))

Packets == \E S : underway \in Seq(S)

CiphersInv == Packets /\ Chained /\ outcome # "refused"

\* A sequence with one more element at its end.
LEMMA Longer ==
  ASSUME NEW S, NEW s \in Seq(S), NEW e
  PROVE  /\ Append(s, e) \in Seq(S \cup {e})
         /\ Len(Append(s, e)) = Len(s) + 1
         /\ \A n \in 1 .. Len(s) : Append(s, e)[n] = s[n]
         /\ Append(s, e)[Len(s) + 1] = e
<1>1. s \in Seq(S \cup {e})
  OBVIOUS
<1> QED
  BY <1>1

\* A sequence without its head.
LEMMA Shorter ==
  ASSUME NEW S, NEW s \in Seq(S), s # <<>>
  PROVE  /\ Tail(s) \in Seq(S) /\ Head(s) = s[1]
         /\ Len(s) \in Nat \ {0} /\ Len(Tail(s)) = Len(s) - 1
         /\ \A n \in 1 .. Len(s) - 1 : Tail(s)[n] = s[n + 1]
  OBVIOUS

LEMMA EmptyPackets == <<>> \in Seq({}) /\ Len(<<>>) = 0
  OBVIOUS

\* A packet that is written is laid out as the reader expects it (cipher.ts:82-92).
LEMMA EncryptedLaidOut ==
  ASSUME NEW payload \in Payloads,
         LayoutAccepted(PacketOf(payload, Block), Block, PacketLimit)
  PROVE  LaidOut([packet |-> PacketOf(payload, Block), payload |-> payload, at |-> writer])
  BY LayoutKept, CipherAssumption DEF LaidOut

LEMMA ChainKept ==
  ASSUME CiphersInv, [CipherNext]_cipherVars
  PROVE  CiphersInv'
<1> PICK S : underway \in Seq(S)
  BY DEF CiphersInv, Packets
<1>a. /\ \A n \in 1 .. Len(underway) : LaidOut(underway[n]) /\ underway[n].at = Behind(n - 1)
      /\ writer = Behind(Len(underway))
      /\ outcome # "refused"
  BY DEF CiphersInv, Chained
<1>1. CASE Encrypt
  <2> PICK payload \in Payloads :
         LET packet == PacketOf(payload, Block)
         IN  IF LayoutAccepted(packet, Block, PacketLimit)
             THEN /\ underway' = Append(underway, [packet |-> packet, payload |-> payload, at |-> writer])
                  /\ writer' = Stepped(writer, Blocks(packet))
                  /\ UNCHANGED outcome
             ELSE outcome' = "tooLong" /\ UNCHANGED <<underway, writer>>
    BY <1>1 DEF Encrypt
  <2> DEFINE sealed == [packet |-> PacketOf(payload, Block), payload |-> payload, at |-> writer]
  <2>1. CASE LayoutAccepted(PacketOf(payload, Block), Block, PacketLimit)
    <3>1. LaidOut(sealed)
      BY <2>1, EncryptedLaidOut
    <3>2. /\ underway' = Append(underway, sealed) /\ writer' = Stepped(sealed.at, Blocks(sealed.packet))
          /\ reader' = reader /\ outcome' = outcome
          /\ sealed.at = writer
      BY <1>1, <2>1 DEF Encrypt
    <3> HIDE DEF sealed
    <3>3. /\ underway' \in Seq(S \cup {sealed}) /\ Len(underway') = Len(underway) + 1
          /\ \A n \in 1 .. Len(underway) : underway'[n] = underway[n]
          /\ underway'[Len(underway) + 1] = sealed
      BY <3>2, Longer
    <3>4. Len(underway) \in Nat
      OBVIOUS
    <3>5. ASSUME NEW n \in 0 .. Len(underway)
          PROVE  Behind(n)' = Behind(n)
      <4>1. n # 0 => underway'[n] = underway[n]
        BY <3>3, <3>4
      <4> QED
        BY <3>2, <4>1 DEF Behind
    <3>6. writer' = Behind(Len(underway))'
      BY <3>2, <3>3, <3>4 DEF Behind
    <3>7. ASSUME NEW n \in 1 .. Len(underway')
          PROVE  LaidOut(underway'[n]) /\ underway'[n].at = Behind(n - 1)'
      <4>1. CASE n \in 1 .. Len(underway)
        BY <1>a, <3>3, <3>4, <3>5, <4>1
      <4>2. CASE n = Len(underway) + 1
        BY <1>a, <3>1, <3>2, <3>3, <3>4, <3>5, <4>2
      <4> QED
        BY <3>3, <3>4, <4>1, <4>2
    <3>8. Packets'
      BY <3>3 DEF Packets
    <3> QED
      BY <1>a, <3>2, <3>3, <3>6, <3>7, <3>8 DEF CiphersInv, Chained
  <2>2. CASE ~LayoutAccepted(PacketOf(payload, Block), Block, PacketLimit)
    <3>1. UNCHANGED <<underway, writer, reader>> /\ outcome' = "tooLong"
      BY <1>1, <2>2 DEF Encrypt
    <3> QED
      BY <1>a, <3>1 DEF Behind, CiphersInv, Chained, Packets
  <2> QED
    BY <2>1, <2>2
<1>2. CASE BlockArrives
  BY <1>a, <1>2 DEF BlockArrives, Behind, CiphersInv, Chained, Packets
<1>3. CASE Read
  <2> DEFINE sealed == Head(underway)
  <2>1. underway # <<>> /\ Head(underway) = underway[1] /\ Len(underway) \in Nat \ {0}
    BY <1>3, Shorter DEF Read
  <2>2. LaidOut(sealed) /\ sealed.at = reader
    BY <1>a, <2>1 DEF Behind
  <2>3. CASE received < Blocks(sealed.packet) + 1
    BY <1>a, <1>3, <2>2, <2>3 DEF Read, Deciphers, LaidOut, Behind, CiphersInv, Chained, Packets
  <2>4. CASE ~(received < Blocks(sealed.packet) + 1)
    <3>1. /\ reader' = Stepped(reader, Blocks(sealed.packet)) /\ underway' = Tail(underway)
          /\ UNCHANGED <<outcome, writer>>
      BY <1>3, <2>2, <2>4 DEF Read, Deciphers, LaidOut
    <3>2. /\ underway' \in Seq(S) /\ Len(underway') = Len(underway) - 1
          /\ \A n \in 1 .. Len(underway) - 1 : underway'[n] = underway[n + 1]
      BY <2>1, <3>1, Shorter
    <3>3. \A n \in 0 .. Len(underway) - 1 : Behind(n)' = Behind(n + 1)
      BY <2>1, <2>2, <3>1, <3>2 DEF Behind
    <3>4. ASSUME NEW n \in 1 .. Len(underway')
          PROVE  LaidOut(underway'[n]) /\ underway'[n].at = Behind(n - 1)'
      <4>1. n + 1 \in 1 .. Len(underway) /\ n - 1 \in 0 .. Len(underway) - 1
        BY <2>1, <3>2
      <4> QED
        BY <1>a, <3>2, <3>3, <4>1
    <3>5. writer' = Behind(Len(underway))'
      BY <1>a, <2>1, <2>2, <3>1, <3>2 DEF Behind
    <3>6. Packets'
      BY <3>2 DEF Packets
    <3> QED
      BY <1>a, <3>1, <3>2, <3>4, <3>5, <3>6 DEF CiphersInv, Chained
  <2> QED
    BY <2>3, <2>4
<1>4. CASE UNCHANGED cipherVars
  BY <1>a, <1>4 DEF cipherVars, Behind, CiphersInv, Chained, Packets
<1> QED
  BY <1>1, <1>2, <1>3, <1>4 DEF CipherNext

\* Whatever is written, and however its bytes arrive, the reader refuses no packet
\* and every payload comes out as long as it went in (cipher.ts:82-123).
THEOREM NothingRefused ==
  CipherSpec => []NoneRefused
<1>1. CipherInit => CiphersInv
  BY EmptyPackets DEF CipherInit, CiphersInv, Packets, Chained, Behind
<1>2. CiphersInv /\ [CipherNext]_cipherVars => CiphersInv'
  BY ChainKept
<1>3. CiphersInv => NoneRefused
  BY DEF CiphersInv, Chained, LaidOut, NoneRefused
<1> QED
  BY <1>1, <1>2, <1>3, PTL DEF CipherSpec

-----------------------------------------------------------------------------
LEMMA Divided ==
  ASSUME NEW n \in Nat, NEW m \in Nat, m > 0
  PROVE  n % m \in 0 .. m - 1 /\ \E q \in Nat : n = m * q + (n % m)
<1>1. n % m \in 0 .. m - 1
  BY Z3
<1>2. PICK q \in Int : n = m * q + (n % m)
  BY Z3
<1>3. q >= 0
  BY <1>1, <1>2, Z3
<1> QED
  BY <1>1, <1>2, <1>3

\* Remainders of sums: what is added may be reduced first.
LEMMA Reduced ==
  ASSUME NEW a \in Nat, NEW b \in Nat, NEW m \in Nat, m > 0
  PROVE  /\ a % m \in 0 .. m - 1
         /\ ((a % m) + b) % m = (a + b) % m
<1> DEFINE c == (a % m) + b
           d == (a + b) % m
<1>1. /\ a % m \in 0 .. m - 1
      /\ \E q \in Nat : a = m * q + (a % m)
  BY Divided
<1>2. c \in Nat /\ a + b \in Nat
  BY <1>1
<1>3. PICK q \in Nat : a = m * q + (a % m)
  BY <1>1
<1>5. a + b = m * q + c
  BY <1>1, <1>3
<1> HIDE DEF c
<1>4. PICK p \in Nat : c = m * p + (c % m)
  BY <1>2, Divided
<1>b. PICK w \in Nat : a + b = m * w + d
  BY <1>2, Divided
<1>c. c % m \in 0 .. m - 1 /\ d \in 0 .. m - 1
  BY <1>2, Divided
<1> HIDE DEF d
<1>6. m * (w - q - p) = (c % m) - d
  BY <1>c, <1>4, <1>b, <1>5, Z3
<1>7. CASE w - q - p >= 1
  BY <1>c, <1>6, <1>7, Z3
<1>8. CASE w - q - p <= -1
  BY <1>c, <1>6, <1>8, Z3
<1>9. CASE w - q - p = 0
  BY <1>c, <1>6, <1>9, Z3 DEF c, d
<1> QED
  BY <1>1, <1>7, <1>8, <1>9, Z3 DEF c, d

Numbered == Packets /\ reader.sequence \in Nat /\ SequencesInStep

LEMMA NumbersKept ==
  ASSUME Numbered, [CipherNext]_cipherVars
  PROVE  Numbered'
<1> PICK S : underway \in Seq(S)
  BY DEF Numbered, Packets
<1> DEFINE all == SequenceNumbers
<1>b. reader.sequence \in Nat /\ Len(underway) \in Nat
  BY DEF Numbered
<1>a. /\ all \in Nat /\ all > 0 /\ reader.sequence \in Nat /\ Len(underway) \in Nat
      /\ writer.sequence = (reader.sequence + Len(underway)) % all
  BY CipherAssumption DEF Numbered, SequencesInStep
<1>1. CASE Encrypt
  <2>1. CASE UNCHANGED underway
    BY <1>a, <1>1, <2>1 DEF Encrypt, Numbered, SequencesInStep, Packets
  <2>2. CASE underway' # underway
    <3>1. PICK sealed :
            /\ underway' = Append(underway, sealed)
            /\ writer'.sequence = (writer.sequence + 1) % all
            /\ reader' = reader
      BY <1>1, <2>2 DEF Encrypt, Stepped
    <3>2. underway' \in Seq(S \cup {sealed}) /\ Len(underway') = Len(underway) + 1
      BY <3>1, Longer
    <3>3. writer'.sequence = (reader.sequence + Len(underway) + 1) % all
      <4>1. reader.sequence + Len(underway) \in Nat /\ 1 \in Nat
        BY <1>a, SMTT(60)
      <4>2. (((reader.sequence + Len(underway)) % all) + 1) % all
              = ((reader.sequence + Len(underway)) + 1) % all
        BY <1>a, <4>1, Reduced
      <4> QED
        BY <1>a, <3>1, <4>2
    <3>4. reader.sequence + Len(underway) + 1 = reader'.sequence + Len(underway')
      <4>1. reader'.sequence = reader.sequence
        BY <3>1
      <4> QED
        BY <1>b, <3>2, <4>1
    <3>5. Packets'
      BY <3>2 DEF Packets
    <3> QED
      BY <1>a, <3>1, <3>3, <3>4, <3>5 DEF Numbered, SequencesInStep
  <2> QED
    BY <2>1, <2>2
<1>2. CASE BlockArrives
  BY <1>a, <1>2 DEF BlockArrives, Numbered, SequencesInStep, Packets
<1>3. CASE Read
  <2>1. CASE UNCHANGED <<reader, underway>>
    BY <1>a, <1>3, <2>1 DEF Read, Numbered, SequencesInStep, Packets
  <2>2. CASE ~UNCHANGED <<reader, underway>>
    <3>1. /\ underway # <<>> /\ underway' = Tail(underway) /\ writer' = writer
          /\ reader'.sequence = (reader.sequence + 1) % all
      BY <1>3, <2>2 DEF Read, Stepped
    <3>2. underway' \in Seq(S) /\ Len(underway') = Len(underway) - 1 /\ Len(underway) \in Nat \ {0}
      BY <3>1, Shorter
    <3>3. Len(underway) - 1 \in Nat /\ reader.sequence + 1 \in Nat
      BY <1>a, <3>2
    <3>4. /\ (reader.sequence + 1) % all \in 0 .. all - 1
          /\ (((reader.sequence + 1) % all) + (Len(underway) - 1)) % all
               = ((reader.sequence + 1) + (Len(underway) - 1)) % all
      BY <1>a, <3>3, Reduced
    <3>5. (reader.sequence + 1) + (Len(underway) - 1) = reader.sequence + Len(underway)
      BY <1>a
    <3>6. writer'.sequence = (reader'.sequence + Len(underway')) % all
      BY <1>a, <3>1, <3>2, <3>4, <3>5
    <3>7. Packets'
      BY <3>2 DEF Packets
    <3> QED
      BY <1>a, <3>1, <3>4, <3>6, <3>7 DEF Numbered, SequencesInStep
  <2> QED
    BY <2>1, <2>2
<1>4. CASE UNCHANGED cipherVars
  BY <1>a, <1>4 DEF cipherVars, Numbered, SequencesInStep, Packets
<1> QED
  BY <1>1, <1>2, <1>3, <1>4 DEF CipherNext

\* The two sequence numbers of a direction never part, also where they wrap, for
\* any number of them (cipher.ts:82-123 and 152-154).
THEOREM SequencesAgree ==
  CipherSpec => []SequencesInStep
<1>1. CipherInit => Numbered
  <2> SUFFICES ASSUME CipherInit PROVE Numbered
    OBVIOUS
  <2>1. underway = <<>> /\ Len(underway) = 0 /\ reader.sequence = 0 /\ writer.sequence = 0
    BY EmptyPackets DEF CipherInit
  <2>2. 0 % SequenceNumbers = 0
    BY CipherAssumption, Z3
  <2> QED
    BY <2>1, <2>2, EmptyPackets DEF Numbered, SequencesInStep, Packets
<1>2. Numbered /\ [CipherNext]_cipherVars => Numbered'
  BY NumbersKept
<1>3. Numbered => SequencesInStep
  BY DEF Numbered
<1> QED
  BY <1>1, <1>2, <1>3, PTL DEF CipherSpec
-----------------------------------------------------------------------------
(* Counters.                                                               *)

\* The number that the first bytes of a counter make, for each number of bytes.
Numbers(c, U) ==
  /\ U \in [0 .. CounterBytes -> Nat] /\ U[0] = 0
  /\ \A i \in 1 .. CounterBytes : U[i] = U[i - 1] * ByteValues + c[i]

LEMMA ValueIs ==
  ASSUME NEW c \in Counter
  PROVE  \E U : Numbers(c, U) /\ ValueOf(c) = U[CounterBytes]
<1> DEFINE N == CounterBytes
           Upto(f) == f = [i \in 0 .. N |-> IF i = 0 THEN 0 ELSE f[i - 1] * ByteValues + c[i]]
           step == [p \in (1 .. N) \X Nat |-> p[2] * ByteValues + c[p[1]]]
           U == CHOOSE f : Upto(f)
<1>1. N \in Nat /\ ByteValues \in Nat /\ 0 \in Nat
  BY CipherAssumption
<1>2. \A i \in 1 .. N : c[i] \in Nat
  BY <1>1 DEF Counter
<1>3. \A u, v \in Nat : u * ByteValues + v \in Nat
  BY <1>1, Z3
<1>4. StepFunction(step, N, Nat)
  BY <1>2, <1>3 DEF StepFunction
<1>5. PICK f : Values(step, N, Nat, 0, f)
  <2> HIDE DEF step, N
  <2> QED
    BY <1>1, <1>4, Recursion
<1>a. f[0] = 0 /\ f \in [0 .. N -> Nat]
  BY <1>5 DEF Values
<1>6. \A i \in 1 .. N : i - 1 \in 0 .. N /\ f[i - 1] \in Nat
  BY <1>1, <1>a
<1>7. \A i \in 1 .. N : f[i] = f[i - 1] * ByteValues + c[i]
  BY <1>5, <1>6 DEF Values
<1>8. Upto(f)
  <2> DEFINE h == [i \in 0 .. N |-> IF i = 0 THEN 0 ELSE f[i - 1] * ByteValues + c[i]]
  <2>1. \A i \in 0 .. N : f[i] = h[i]
    BY <1>1, <1>a, <1>7
  <2>2. f = h
    <3>1. f = [i \in 0 .. N |-> f[i]]
      BY <1>a
    <3> QED
      BY <2>1, <3>1
  <2> QED
    BY <2>2
<1>9. Upto(U)
  BY <1>8
<1>10. ValueOf(c) = U[N]
  BY DEF ValueOf
<1> HIDE DEF U
<1>11. U[0] = 0 /\ \A i \in 1 .. N : U[i] = U[i - 1] * ByteValues + c[i]
  BY <1>1, <1>9
<1>12. DOMAIN U = 0 .. N /\ U = [i \in 0 .. N |-> U[i]]
  BY <1>9
<1> DEFINE K == {k \in 0 .. N : U[k] \in Nat}
<1>13. K = 0 .. N
  <2>1. 0 \in K
    BY <1>1, <1>11
  <2>2. ASSUME NEW k \in 0 .. N, k \in K, k < N
        PROVE  k + 1 \in K
    <3>1. k + 1 \in 1 .. N /\ k + 1 - 1 = k
      BY <1>1, <2>2
    <3>2. U[k + 1] = U[k] * ByteValues + c[k + 1]
      BY <1>11, <3>1
    <3> QED
      BY <1>1, <1>2, <1>3, <2>2, <3>1, <3>2
  <2> HIDE DEF K
  <2>3. K \in SUBSET (0 .. N)
    BY DEF K
  <2> QED
    BY <1>1, <2>1, <2>2, <2>3, UpTo
<1>14. U \in [0 .. N -> Nat]
  BY <1>12, <1>13
<1> QED
  BY <1>10, <1>11, <1>14 DEF Numbers

\* The number of values that the first bytes of a counter can have.
Powers(P) ==
  /\ P \in [0 .. CounterBytes -> Nat \ {0}] /\ P[0] = 1
  /\ \A i \in 1 .. CounterBytes : P[i] = P[i - 1] * ByteValues

LEMMA CountersIs ==
  \E P : Powers(P) /\ Counters = P[CounterBytes]
<1> DEFINE N == CounterBytes
           M == Nat \ {0}
           Power(f) == f = [i \in 0 .. N |-> IF i = 0 THEN 1 ELSE f[i - 1] * ByteValues]
           step == [p \in (1 .. N) \X M |-> p[2] * ByteValues]
           P == CHOOSE f : Power(f)
<1>1. N \in Nat /\ ByteValues \in Nat \ {0} /\ 1 \in M
  BY CipherAssumption
<1>3. \A u \in M : u * ByteValues \in M
  BY <1>1, Z3
<1>4. StepFunction(step, N, M)
  BY <1>3 DEF StepFunction
<1>5. PICK f : Values(step, N, M, 1, f)
  <2> HIDE DEF step, N, M
  <2> QED
    BY <1>1, <1>4, Recursion
<1>a. f[0] = 1 /\ f \in [0 .. N -> M]
  BY <1>5 DEF Values
<1>6. \A i \in 1 .. N : i - 1 \in 0 .. N /\ f[i - 1] \in M
  BY <1>1, <1>a
<1>7. \A i \in 1 .. N : f[i] = f[i - 1] * ByteValues
  BY <1>5, <1>6 DEF Values
<1>8. Power(f)
  <2> DEFINE h == [i \in 0 .. N |-> IF i = 0 THEN 1 ELSE f[i - 1] * ByteValues]
  <2>1. \A i \in 0 .. N : f[i] = h[i]
    BY <1>1, <1>a, <1>7
  <2>2. f = h
    <3>1. f = [i \in 0 .. N |-> f[i]]
      BY <1>a
    <3> QED
      BY <2>1, <3>1
  <2> QED
    BY <2>2
<1>9. Power(P)
  BY <1>8
<1>10. Counters = P[N]
  BY DEF Counters
<1> HIDE DEF P
<1>11. P[0] = 1 /\ \A i \in 1 .. N : P[i] = P[i - 1] * ByteValues
  BY <1>1, <1>9
<1>12. DOMAIN P = 0 .. N /\ P = [i \in 0 .. N |-> P[i]]
  BY <1>9
<1> DEFINE K == {k \in 0 .. N : P[k] \in M}
<1>13. K = 0 .. N
  <2>1. 0 \in K
    BY <1>1, <1>11
  <2>2. ASSUME NEW k \in 0 .. N, k \in K, k < N
        PROVE  k + 1 \in K
    <3>1. k + 1 \in 1 .. N /\ k + 1 - 1 = k
      BY <1>1, <2>2
    <3>2. P[k + 1] = P[k] * ByteValues
      BY <1>11, <3>1
    <3> QED
      BY <1>1, <1>3, <2>2, <3>1, <3>2
  <2> HIDE DEF K
  <2>3. K \in SUBSET (0 .. N)
    BY DEF K
  <2> QED
    BY <1>1, <2>1, <2>2, <2>3, UpTo
<1>14. P \in [0 .. N -> M]
  BY <1>12, <1>13
<1> QED
  BY <1>10, <1>11, <1>14 DEF Powers

\* A counter is less than the number of counters, byte by byte.
LEMMA Digits ==
  ASSUME NEW c \in Counter, NEW U, Numbers(c, U), NEW P, Powers(P)
  PROVE  \A i \in 0 .. CounterBytes : U[i] \in 0 .. P[i] - 1
<1> DEFINE N == CounterBytes
           K == {k \in 0 .. N : U[k] \in 0 .. P[k] - 1}
<1>1. N \in Nat /\ ByteValues \in Nat \ {0}
  BY CipherAssumption
<1>2. /\ \A i \in 0 .. N : U[i] \in Nat /\ P[i] \in Nat \ {0}
      /\ U[0] = 0 /\ P[0] = 1
      /\ \A i \in 1 .. N : U[i] = U[i - 1] * ByteValues + c[i] /\ P[i] = P[i - 1] * ByteValues
  BY <1>1 DEF Numbers, Powers
<1>3. \A i \in 1 .. N : c[i] \in 0 .. ByteValues - 1
  BY DEF Counter
<1>4. 0 \in K
  BY <1>1, <1>2
<1>5. ASSUME NEW k \in 0 .. N, k \in K, k < N
      PROVE  k + 1 \in K
  <2>1. k + 1 \in 1 .. N /\ k + 1 \in 0 .. N /\ k + 1 - 1 = k
    BY <1>1, <1>5
  <2>2. /\ U[k + 1] = U[k] * ByteValues + c[k + 1] /\ P[k + 1] = P[k] * ByteValues
        /\ c[k + 1] \in 0 .. ByteValues - 1
    BY <1>2, <1>3, <2>1
  <2>3. U[k] \in Nat /\ P[k] \in Nat /\ U[k] + 1 <= P[k]
    BY <1>2, <1>5
  <2> DEFINE u == U[k]
             p == P[k]
             d == c[k + 1]
  <2>4. u * ByteValues + d \in 0 .. p * ByteValues - 1
    <3>1. u \in Nat /\ p \in Nat /\ u + 1 <= p /\ d \in 0 .. ByteValues - 1
      BY <2>2, <2>3
    <3> HIDE DEF u, p, d
    <3>2. (u + 1) * ByteValues <= p * ByteValues /\ u * ByteValues \in Nat
      BY <1>1, <3>1, Z3
    <3> QED
      BY <1>1, <3>1, <3>2, Z3
  <2> QED
    BY <2>1, <2>2, <2>4
<1>6. K = 0 .. N
  <2> HIDE DEF K
  <2>1. K \in SUBSET (0 .. N)
    BY DEF K
  <2> QED
    BY <1>1, <1>4, <1>5, <2>1, UpTo
<1> QED
  BY <1>6

\* A byte after which all are full is reached by the carry.
Carried(c, i) == \A j \in (i + 1) .. CounterBytes : c[j] = ByteValues - 1

LEMMA IncrementedIs ==
  ASSUME NEW c \in Counter
  PROVE  /\ Incremented(c) \in Counter
         /\ \A i \in 1 .. CounterBytes :
              Incremented(c)[i] = IF Carried(c, i)
                                  THEN IF c[i] = ByteValues - 1 THEN 0 ELSE c[i] + 1
                                  ELSE c[i]
<1>1. CounterBytes \in Nat /\ ByteValues \in Nat \ {0}
  BY CipherAssumption
<1>2. ASSUME NEW d \in 0 .. ByteValues - 1
      PROVE  (d + 1) % ByteValues = IF d = ByteValues - 1 THEN 0 ELSE d + 1
  <2>1. ByteValues % ByteValues = 0
    BY <1>1, Z3
  <2>2. d # ByteValues - 1 => (d + 1) % ByteValues = d + 1
    BY <1>1, Z3
  <2> QED
    BY <1>1, <2>1, <2>2
<1>3. \A i \in 1 .. CounterBytes : c[i] \in 0 .. ByteValues - 1
  BY DEF Counter
<1>4. ASSUME NEW i \in 1 .. CounterBytes
      PROVE  Incremented(c)[i] = IF Carried(c, i)
                                 THEN IF c[i] = ByteValues - 1 THEN 0 ELSE c[i] + 1
                                 ELSE c[i]
  <2>1. Incremented(c)[i] = IF Carried(c, i) THEN (c[i] + 1) % ByteValues ELSE c[i]
    BY DEF Incremented, Carried
  <2> QED
    BY <1>2, <1>3, <2>1
<1>5. \A i \in 1 .. CounterBytes : Incremented(c)[i] \in 0 .. ByteValues - 1
  BY <1>1, <1>3, <1>4
<1>6. Incremented(c) = [i \in 1 .. CounterBytes |-> Incremented(c)[i]]
  BY DEF Incremented
<1> QED
  BY <1>4, <1>5, <1>6 DEF Counter

\* One number more, or zero after the last of them.
Following(u, p) == IF u + 1 = p THEN 0 ELSE u + 1

LEMMA IncrementedValue ==
  ASSUME NEW c \in Counter
  PROVE  ValueOf(Incremented(c)) = Following(ValueOf(c), Counters)
<1> DEFINE N == CounterBytes
           d == Incremented(c)
<1>1. N \in Nat /\ ByteValues \in Nat \ {0}
  BY CipherAssumption
<1>2. d \in Counter
  BY IncrementedIs
<1>3. \A i \in 1 .. N : d[i] = IF Carried(c, i)
                               THEN IF c[i] = ByteValues - 1 THEN 0 ELSE c[i] + 1
                               ELSE c[i]
  BY IncrementedIs
<1> HIDE DEF d
<1>4. PICK U : Numbers(c, U) /\ ValueOf(c) = U[N]
  BY ValueIs
<1>5. PICK V : Numbers(d, V) /\ ValueOf(d) = V[N]
  BY <1>2, ValueIs
<1>6. PICK P : Powers(P) /\ Counters = P[N]
  BY CountersIs
<1>7. \A i \in 0 .. N : U[i] \in 0 .. P[i] - 1
  BY <1>4, <1>6, Digits
<1> DEFINE K == {k \in 0 .. N : V[k] = IF Carried(c, k) THEN Following(U[k], P[k]) ELSE U[k]}
<1>8. 0 \in K
  <2>1. U[0] = 0 /\ V[0] = 0 /\ P[0] = 1
    BY <1>4, <1>5, <1>6 DEF Numbers, Powers
  <2> QED
    BY <1>1, <2>1 DEF Following
<1>9. ASSUME NEW k \in 0 .. N, k \in K, k < N
      PROVE  k + 1 \in K
  <2>1. k + 1 \in 1 .. N /\ k + 1 \in 0 .. N /\ k + 1 - 1 = k
    BY <1>1, <1>9
  <2> DEFINE u == U[k]
             p == P[k]
             v == V[k]
             e == c[k + 1]
             b == ByteValues
  <2>2. U[k + 1] = u * b + e /\ V[k + 1] = v * b + d[k + 1] /\ P[k + 1] = p * b
    BY <1>4, <1>5, <1>6, <2>1 DEF Numbers, Powers
  <2>3. /\ u \in Nat /\ p \in Nat \ {0} /\ u + 1 <= p
        /\ e \in 0 .. b - 1 /\ b \in Nat \ {0}
    <3>1. U[k] \in Nat /\ P[k] \in Nat \ {0}
      BY <1>4, <1>6 DEF Numbers, Powers
    <3>2. U[k] \in 0 .. P[k] - 1
      BY <1>7
    <3>3. c[k + 1] \in 0 .. ByteValues - 1
      BY <2>1 DEF Counter
    <3> QED
      BY <1>1, <3>1, <3>2, <3>3
  <2>4. Carried(c, k) <=> Carried(c, k + 1) /\ e = b - 1
    BY <1>1, <2>1 DEF Carried
  <2>5. v = IF Carried(c, k) THEN Following(u, p) ELSE u
    BY <1>9
  <2>6. d[k + 1] = IF Carried(c, k + 1) THEN IF e = b - 1 THEN 0 ELSE e + 1 ELSE e
    BY <1>3, <2>1
  <2> HIDE DEF u, p, v, e, b
  <2>7. CASE ~Carried(c, k + 1)
    BY <2>1, <2>2, <2>4, <2>5, <2>6, <2>7
  <2>8. CASE Carried(c, k + 1) /\ e # b - 1
    <3>1. v = u /\ d[k + 1] = e + 1
      BY <2>4, <2>5, <2>6, <2>8
    <3>2. u * b \in Nat /\ p * b \in Nat /\ (u + 1) * b = u * b + b
      BY <2>3, Z3
    <3>3. (u + 1) * b <= p * b
      BY <2>3, Z3
    <3>4. u * b + (e + 1) = (u * b + e) + 1 /\ (u * b + e) + 1 # p * b
      BY <2>3, <2>8, <3>2, <3>3
    <3>5. V[k + 1] = Following(U[k + 1], P[k + 1])
      BY <2>2, <3>1, <3>4 DEF Following
    <3> QED
      BY <2>1, <2>8, <3>5
  <2>9. CASE Carried(c, k + 1) /\ e = b - 1
    <3>1. v = Following(u, p) /\ d[k + 1] = 0
      BY <2>4, <2>5, <2>6, <2>9
    <3>2. u * b \in Nat /\ p * b \in Nat /\ (u + 1) * b = u * b + b
      BY <2>3, Z3
    <3>3. (u * b + e) + 1 = (u + 1) * b
      BY <2>3, <2>9, <3>2
    <3>4. (u + 1) * b = p * b <=> u + 1 = p
      BY <2>3, Z3
    <3>5. v * b + 0 = IF u + 1 = p THEN 0 ELSE (u + 1) * b
      BY <2>3, <3>1, <3>2 DEF Following
    <3>6. V[k + 1] = Following(U[k + 1], P[k + 1])
      BY <2>2, <3>1, <3>3, <3>4, <3>5 DEF Following
    <3> QED
      BY <2>1, <2>9, <3>6
  <2> QED
    BY <2>7, <2>8, <2>9
<1>10. K = 0 .. N
  <2> HIDE DEF K
  <2>1. K \in SUBSET (0 .. N)
    BY DEF K
  <2> QED
    BY <1>1, <1>8, <1>9, <2>1, UpTo
<1>11. N \in K /\ Carried(c, N)
  BY <1>1, <1>10 DEF Carried
<1>12. V[N] = Following(U[N], P[N])
  BY <1>11
<1> QED
  BY <1>4, <1>5, <1>6, <1>12 DEF d

\* The value of a counter is less than the number of counters.
LEMMA ValueBelow ==
  ASSUME NEW c \in Counter
  PROVE  /\ ValueOf(c) \in Nat /\ Counters \in Nat \ {0}
         /\ ValueOf(c) \in 0 .. Counters - 1
<1>1. PICK U : Numbers(c, U) /\ ValueOf(c) = U[CounterBytes]
  BY ValueIs
<1>2. PICK P : Powers(P) /\ Counters = P[CounterBytes]
  BY CountersIs
<1>3. \A i \in 0 .. CounterBytes : U[i] \in 0 .. P[i] - 1
  BY <1>1, <1>2, Digits
<1>4. CounterBytes \in 0 .. CounterBytes
  BY CipherAssumption
<1> QED
  BY <1>1, <1>2, <1>3, <1>4 DEF Powers

\* Counting modulo m: one more, and n more.
LEMMA FollowingIs ==
  ASSUME NEW m \in Nat \ {0}, NEW u \in 0 .. m - 1
  PROVE  Following(u, m) = (u + 1) % m
<1>1. CASE u + 1 = m
  <2>1. m % m = 0
    BY Z3
  <2> QED
    BY <1>1, <2>1 DEF Following
<1>2. CASE u + 1 # m
  <2>1. u + 1 \in 0 .. m - 1
    BY <1>2
  <2>2. (u + 1) % m = u + 1
    BY <2>1, Z3
  <2> QED
    BY <1>2, <2>2 DEF Following
<1> QED
  BY <1>1, <1>2

LEMMA Unwrapped ==
  ASSUME NEW m \in Nat \ {0}, NEW u \in 0 .. m - 1
  PROVE  u % m = u
  BY Z3

\* A counter is advanced by as many numbers as there are blocks (cipher.ts:142-150).
LEMMA Advanced ==
  ASSUME NEW c \in Counter, NEW blocks \in Nat
  PROVE  /\ Advance(c, blocks) \in Counter
         /\ ValueOf(Advance(c, blocks)) = (ValueOf(c) + blocks) % Counters
<1> DEFINE step == [p \in (1 .. blocks) \X Counter |-> Incremented(p[2])]
           After(f) == f = [n \in 0 .. blocks |-> IF n = 0 THEN c ELSE Incremented(f[n - 1])]
           A == CHOOSE f : After(f)
<1>1. \A d \in Counter : Incremented(d) \in Counter
  BY IncrementedIs
<1>2. StepFunction(step, blocks, Counter)
  BY <1>1 DEF StepFunction
<1>3. PICK f : Values(step, blocks, Counter, c, f)
  <2> HIDE DEF step
  <2> QED
    BY <1>2, Recursion
<1>4. f \in [0 .. blocks -> Counter] /\ f[0] = c
  BY <1>3 DEF Values
<1>5. \A n \in 1 .. blocks : f[n] = Incremented(f[n - 1])
  <2> TAKE n \in 1 .. blocks
  <2>1. n - 1 \in 0 .. blocks
    OBVIOUS
  <2>2. f[n - 1] \in Counter /\ f[n] = step[<<n, f[n - 1]>>]
    BY <1>3, <2>1 DEF Values
  <2> QED
    BY <2>2
<1>6. After(f)
  <2> DEFINE h == [n \in 0 .. blocks |-> IF n = 0 THEN c ELSE Incremented(f[n - 1])]
  <2>1. \A n \in 0 .. blocks : f[n] = h[n]
    BY <1>4, <1>5
  <2>2. f = [n \in 0 .. blocks |-> f[n]]
    BY <1>4
  <2>3. f = h
    BY <2>1, <2>2
  <2> QED
    BY <2>3
<1>7. After(A)
  BY <1>6
<1>8. Advance(c, blocks) = A[blocks]
  BY DEF Advance
<1> HIDE DEF A
<1>9. A[0] = c /\ \A n \in 1 .. blocks : A[n] = Incremented(A[n - 1])
  BY <1>7
<1> DEFINE v == ValueOf(c)
           all == Counters
           K == {k \in 0 .. blocks : A[k] \in Counter /\ ValueOf(A[k]) = (v + k) % all}
<1>10. v \in Nat /\ all \in Nat \ {0} /\ v \in 0 .. all - 1
  BY ValueBelow
<1>11. 0 \in K
  BY <1>9, <1>10, Unwrapped
<1>12. ASSUME NEW k \in 0 .. blocks, k \in K, k < blocks
       PROVE  k + 1 \in K
  <2>1. k + 1 \in 1 .. blocks /\ k + 1 \in 0 .. blocks /\ k + 1 - 1 = k /\ k \in Nat
    BY <1>12
  <2>2. A[k] \in Counter /\ ValueOf(A[k]) = (v + k) % all
    BY <1>12
  <2>3. A[k + 1] = Incremented(A[k])
    BY <1>9, <2>1
  <2>4. A[k + 1] \in Counter
    BY <1>1, <2>2, <2>3
  <2>5. ValueOf(A[k + 1]) = Following(ValueOf(A[k]), all)
    BY <2>2, <2>3, IncrementedValue
  <2>6. ValueOf(A[k]) \in 0 .. all - 1
    BY <2>2, ValueBelow
  <2>7. ValueOf(A[k + 1]) = (ValueOf(A[k]) + 1) % all
    BY <1>10, <2>5, <2>6, FollowingIs
  <2>8. v + k \in Nat /\ 1 \in Nat /\ (v + k) + 1 = v + (k + 1)
    BY <1>10, <2>1
  <2>9. (((v + k) % all) + 1) % all = ((v + k) + 1) % all
    <3> DEFINE w == v + k
    <3>1. w \in Nat /\ 1 \in Nat /\ all \in Nat /\ all > 0
      BY <1>10, <2>8
    <3> HIDE DEF v, all, w
    <3>2. ((w % all) + 1) % all = (w + 1) % all
      BY <3>1, Reduced
    <3> QED
      BY <3>2 DEF w
  <2> QED
    BY <2>1, <2>2, <2>4, <2>7, <2>8, <2>9
<1>13. K = 0 .. blocks
  <2> HIDE DEF K
  <2>1. K \in SUBSET (0 .. blocks)
    BY DEF K
  <2> QED
    BY <1>11, <1>12, <2>1, UpTo
<1>14. blocks \in K
  BY <1>13
<1> QED
  BY <1>8, <1>14

\* The blocks of a packet of an accepted length.
LEMMA BlocksOf ==
  ASSUME NEW packet, packet.length \in 0 .. PacketLimit
  PROVE  /\ Blocks(packet) \in Nat
         /\ Blocks(packet) <= (PacketLimit + 4) \div Block
         /\ (PacketLimit + 4) \div Block \in Nat
<1> DEFINE l == packet.length + 4
           m == PacketLimit + 4
<1>1. /\ Block \in Nat \ {0} /\ l \in Nat /\ m \in Nat /\ l <= m
      /\ Blocks(packet) = l \div Block
  BY CipherAssumption DEF BlockSizes, Blocks
<1> HIDE DEF l
<1>2. l \div Block \in Nat /\ m \div Block \in Nat
  BY <1>1, Z3
<1>3. l \div Block <= m \div Block
  BY <1>1, Z3
<1> QED
  BY <1>1, <1>2, <1>3

-----------------------------------------------------------------------------
(* The counters of the two ends.                                           *)

Counted ==
  /\ CiphersInv
  /\ reader.counter \in Counter
  /\ Len(underway) <= MaxPackets
  /\ \A n \in 1 .. Len(underway) : underway[n].packet.length \in 0 .. PacketLimit

LEMMA CountedKept ==
  ASSUME Counted, [CipherNext]_cipherVars
  PROVE  Counted'
<1> PICK S : underway \in Seq(S)
  BY DEF Counted, CiphersInv, Packets
<1>a. /\ reader.counter \in Counter /\ Len(underway) <= MaxPackets /\ Len(underway) \in Nat
      /\ MaxPackets \in Nat
      /\ \A n \in 1 .. Len(underway) : underway[n].packet.length \in 0 .. PacketLimit
  BY CipherAssumption DEF Counted
<1>b. CiphersInv'
  BY ChainKept DEF Counted
<1>1. CASE Encrypt
  <2>1. CASE UNCHANGED underway
    BY <1>a, <1>b, <1>1, <2>1 DEF Encrypt, Counted
  <2>2. CASE underway' # underway
    <3>1. PICK payload \in Payloads :
            /\ LayoutAccepted(PacketOf(payload, Block), Block, PacketLimit)
            /\ underway' = Append(underway, [packet |-> PacketOf(payload, Block), payload |-> payload, at |-> writer])
      BY <1>1, <2>2 DEF Encrypt
    <3> DEFINE sealed == [packet |-> PacketOf(payload, Block), payload |-> payload, at |-> writer]
    <3>2. sealed.packet.length \in 0 .. PacketLimit
      <4>1. payload \in Nat /\ Block \in BlockSizes /\ PacketLimit \in Nat
        BY CipherAssumption
      <4>2. requiredPaddingLength(payload, Block) \in 0 .. 255
        BY <4>1, Padded
      <4> DEFINE l == sealed.packet.length
                 r == requiredPaddingLength(payload, Block)
      <4>3. l = 1 + payload + r /\ l <= PacketLimit
        BY <3>1 DEF PacketOf, LayoutAccepted
      <4> HIDE DEF sealed, l, r
      <4>4. r \in 0 .. 255
        BY <4>2 DEF r
      <4>5. l \in 0 .. PacketLimit
        BY <4>1, <4>3, <4>4
      <4> QED
        BY <4>5 DEF l
    <3>3. underway' = Append(underway, sealed) /\ reader' = reader /\ Len(underway) < MaxPackets
      BY <1>1, <3>1 DEF Encrypt
    <3> HIDE DEF sealed
    <3>4. /\ Len(underway') = Len(underway) + 1
          /\ \A n \in 1 .. Len(underway) : underway'[n] = underway[n]
          /\ underway'[Len(underway) + 1] = sealed
      BY <3>3, Longer
    <3>5. \A n \in 1 .. Len(underway') : n \in 1 .. Len(underway) \/ n = Len(underway) + 1
      BY <1>a, <3>4
    <3>6. \A n \in 1 .. Len(underway') : underway'[n].packet.length \in 0 .. PacketLimit
      BY <1>a, <3>2, <3>4, <3>5
    <3>7. Len(underway') <= MaxPackets
      BY <1>a, <3>3, <3>4
    <3> QED
      BY <1>a, <1>b, <3>3, <3>6, <3>7 DEF Counted
  <2> QED
    BY <2>1, <2>2
<1>2. CASE BlockArrives
  BY <1>a, <1>b, <1>2 DEF BlockArrives, Counted
<1>3. CASE Read
  <2>1. CASE UNCHANGED <<reader, underway>>
    BY <1>a, <1>b, <1>3, <2>1 DEF Read, Counted
  <2>2. CASE ~UNCHANGED <<reader, underway>>
    <3>1. /\ underway # <<>> /\ underway' = Tail(underway)
          /\ reader'.counter = Advance(reader.counter, Blocks(Head(underway).packet))
      BY <1>3, <2>2 DEF Read, Stepped
    <3>2. /\ Head(underway) = underway[1] /\ Len(underway) \in Nat \ {0} /\ Len(underway') = Len(underway) - 1
          /\ \A n \in 1 .. Len(underway) - 1 : underway'[n] = underway[n + 1]
      BY <3>1, Shorter
    <3>3. Head(underway).packet.length \in 0 .. PacketLimit
      BY <1>a, <3>2
    <3>4. Blocks(Head(underway).packet) \in Nat
      BY <3>3, BlocksOf
    <3>5. reader'.counter \in Counter
      BY <1>a, <3>1, <3>4, Advanced
    <3>6. \A n \in 1 .. Len(underway') : n \in 1 .. Len(underway) - 1 /\ n + 1 \in 1 .. Len(underway)
      BY <1>a, <3>2
    <3>7. \A n \in 1 .. Len(underway') : underway'[n].packet.length \in 0 .. PacketLimit
      BY <1>a, <3>2, <3>6
    <3>8. Len(underway') <= MaxPackets
      BY <1>a, <3>2
    <3> QED
      BY <1>b, <3>5, <3>7, <3>8 DEF Counted
  <2> QED
    BY <2>1, <2>2
<1>4. CASE UNCHANGED cipherVars
  BY <1>a, <1>b, <1>4 DEF cipherVars, Counted
<1> QED
  BY <1>1, <1>2, <1>3, <1>4 DEF CipherNext

\* The blocks of the first packets under way, packet by packet.
LEMMA UnderStep ==
  ASSUME Counted
  PROVE  /\ Under(0) = 0
         /\ \A n \in 0 .. Len(underway) : Under(n) \in Nat
         /\ \A n \in 1 .. Len(underway) : Under(n) = Under(n - 1) + Blocks(underway[n].packet)
<1> DEFINE L == Len(underway)
           s == [i \in 1 .. L |-> Blocks(underway[i].packet)]
<1>0. PICK S : underway \in Seq(S)
  BY DEF Counted, CiphersInv, Packets
<1>1. L \in Nat
  BY <1>0
<1>2. s \in [1 .. L -> Nat]
  BY BlocksOf DEF Counted
<1>3. \A n \in 1 .. L : s[n] = Blocks(underway[n].packet)
  OBVIOUS
<1>4. ASSUME NEW n \in 0 .. L
      PROVE  Under(n) = SumOf(First(s, n))
  <2>1. \A i \in 1 .. n : i \in 1 .. L
    BY <1>1
  <2>2. First(s, n) = [i \in 1 .. n |-> Blocks(underway[i].packet)]
    BY <1>3, <2>1 DEF First
  <2> QED
    BY <2>2 DEF Under
<1> HIDE DEF s
<1>5. /\ SumOf(First(s, 0)) = 0
      /\ \A n \in 0 .. L : SumOf(First(s, n)) \in Nat
      /\ \A n \in 1 .. L : SumOf(First(s, n)) = SumOf(First(s, n - 1)) + s[n]
  BY <1>1, <1>2, SumFirst
<1>6. 0 \in 0 .. L /\ \A n \in 1 .. L : n \in 0 .. L /\ n - 1 \in 0 .. L
  BY <1>1
<1> HIDE DEF L
<1> QED
  BY <1>3, <1>4, <1>5, <1>6 DEF L

\* The blocks under way are never more than all counters, and those of the first
\* packets are no more than those of more packets.
LEMMA UnderBound ==
  ASSUME Counted
  PROVE  /\ \A n \in 0 .. Len(underway) : Under(n) \in 0 .. Counters
         /\ \A m, n \in 0 .. Len(underway) : m <= n => Under(m) <= Under(n)
<1> DEFINE each == (PacketLimit + 4) \div Block
           L == Len(underway)
           f == [n \in 0 .. L |-> Under(n)]
           K == {k \in 0 .. L : Under(k) <= k * each}
<1>0. PICK S : underway \in Seq(S)
  BY DEF Counted, CiphersInv, Packets
<1>1. L \in Nat /\ MaxPackets \in Nat /\ L <= MaxPackets
  BY <1>0, CipherAssumption DEF Counted
<1>2. each \in Nat /\ MaxPackets * each <= Counters /\ Counters \in Nat
  <2>1. PacketLimit + 4 \in Nat /\ Block \in Nat \ {0}
    BY CipherAssumption DEF BlockSizes
  <2>2. InitialCounter \in Counter
    BY CipherAssumption
  <2>3. Counters \in Nat
    BY <2>2, ValueBelow
  <2>4. each \in Nat
    BY <2>1, Z3
  <2> QED
    BY <2>3, <2>4, CipherAssumption
<1>3. /\ Under(0) = 0
      /\ \A n \in 0 .. L : Under(n) \in Nat
      /\ \A n \in 1 .. L : Under(n) = Under(n - 1) + Blocks(underway[n].packet)
  BY UnderStep
<1>4. \A n \in 1 .. L : Blocks(underway[n].packet) \in 0 .. each
  <2> TAKE n \in 1 .. L
  <2>1. underway[n].packet.length \in 0 .. PacketLimit
    BY DEF Counted
  <2>2. Blocks(underway[n].packet) \in Nat /\ Blocks(underway[n].packet) <= each
    BY <2>1, BlocksOf
  <2> HIDE DEF each
  <2> QED
    BY <1>2, <2>2
<1> HIDE DEF each, L
<1>5. 0 \in K
  BY <1>1, <1>2, <1>3
<1>6. ASSUME NEW k \in 0 .. L, k \in K, k < L
      PROVE  k + 1 \in K
  <2>1. k + 1 \in 1 .. L /\ k + 1 \in 0 .. L /\ k + 1 - 1 = k /\ k \in Nat
    BY <1>1, <1>6
  <2> DEFINE x == Blocks(underway[k + 1].packet)
             u == Under(k)
  <2>2. u \in Nat /\ Under(k + 1) = u + x /\ x \in 0 .. each /\ u <= k * each
    BY <1>3, <1>4, <1>6, <2>1
  <2> HIDE DEF x, u
  <2>3. (k + 1) * each = k * each + each /\ k * each \in Nat
    BY <1>2, <2>1, Z3
  <2>4. Under(k + 1) <= (k + 1) * each
    BY <1>2, <2>2, <2>3
  <2> QED
    BY <2>1, <2>4
<1>7. K = 0 .. L
  <2> HIDE DEF K
  <2>1. K \in SUBSET (0 .. L)
    BY DEF K
  <2> QED
    BY <1>1, <1>5, <1>6, <2>1, UpTo
<1>8. ASSUME NEW n \in 0 .. L
      PROVE  Under(n) \in 0 .. Counters
  <2>1. n \in Nat /\ n <= MaxPackets /\ Under(n) \in Nat /\ Under(n) <= n * each
    BY <1>1, <1>3, <1>7
  <2>2. n * each <= MaxPackets * each /\ n * each \in Nat /\ MaxPackets * each \in Nat
    BY <1>1, <1>2, <2>1, Z3
  <2> DEFINE u == Under(n)
  <2> HIDE DEF u
  <2>3. u \in Nat /\ u <= n * each
    BY <2>1 DEF u
  <2>4. u \in 0 .. Counters
    BY <1>2, <2>2, <2>3
  <2> QED
    BY <2>4 DEF u
<1>9. f \in [0 .. L -> Nat] /\ \A n \in 0 .. L : f[n] = Under(n)
  BY <1>3
<1>10. \A n \in 1 .. L : f[n - 1] <= f[n]
  <2> TAKE n \in 1 .. L
  <2> DEFINE x == Blocks(underway[n].packet)
             u == Under(n - 1)
  <2>1. n - 1 \in 0 .. L /\ n \in 0 .. L
    BY <1>1
  <2>2. f[n - 1] = u /\ f[n] = Under(n)
    BY <1>9, <2>1
  <2>3. u \in Nat /\ x \in Nat /\ Under(n) = u + x
    BY <1>2, <1>3, <1>4, <2>1
  <2> HIDE DEF f, u, x
  <2> QED
    BY <2>2, <2>3
<1> HIDE DEF f
<1>11. \A m, n \in 0 .. L : m <= n => f[m] <= f[n]
  BY <1>1, <1>9, <1>10, Upwards
<1> QED
  BY <1>8, <1>9, <1>11 DEF L

\* The cipher stands, behind the packets under way, at the counter of the reader
\* and their blocks.
LEMMA Positions ==
  ASSUME Counted
  PROVE  \A n \in 0 .. Len(underway) :
           /\ Behind(n).counter \in Counter
           /\ ValueOf(Behind(n).counter) = (ValueOf(reader.counter) + Under(n)) % Counters
<1> DEFINE L == Len(underway)
           v == ValueOf(reader.counter)
           all == Counters
           Position(n) == /\ Behind(n).counter \in Counter
                          /\ ValueOf(Behind(n).counter) = (v + Under(n)) % all
           K == {k \in 0 .. L : Position(k)}
<1>0. PICK S : underway \in Seq(S)
  BY DEF Counted, CiphersInv, Packets
<1>1. L \in Nat /\ reader.counter \in Counter
  BY <1>0 DEF Counted
<1>2. v \in Nat /\ all \in Nat \ {0} /\ v \in 0 .. all - 1
  BY <1>1, ValueBelow
<1>3. /\ Under(0) = 0
      /\ \A n \in 0 .. L : Under(n) \in Nat
      /\ \A n \in 1 .. L : Under(n) = Under(n - 1) + Blocks(underway[n].packet)
  BY UnderStep
<1>4. 0 \in K
  <2>1. Behind(0) = reader /\ v + 0 = v /\ v % all = v
    BY <1>2, Unwrapped DEF Behind
  <2> QED
    BY <1>1, <1>3, <2>1
<1>5. ASSUME NEW k \in 0 .. L, k \in K, k < L
      PROVE  k + 1 \in K
  <2>1. k + 1 \in 1 .. L /\ k + 1 \in 0 .. L /\ k + 1 - 1 = k /\ k \in Nat /\ k + 1 # 0
    BY <1>1, <1>5
  <2> DEFINE c == Behind(k).counter
             x == Blocks(underway[k + 1].packet)
             u == Under(k)
  <2>2. c \in Counter /\ ValueOf(c) = (v + u) % all
    BY <1>5
  <2>3. u \in Nat /\ Under(k + 1) = u + x
    BY <1>3, <2>1
  <2>4. x \in Nat
    BY <2>1, BlocksOf DEF Counted
  <2>5. Behind(k + 1).counter = Advance(c, x)
    <3>1. underway[k + 1].at = Behind(k)
      BY <2>1 DEF Counted, CiphersInv, Chained
    <3> QED
      BY <2>1, <3>1 DEF Behind, Stepped
  <2>6. /\ Advance(c, x) \in Counter
        /\ ValueOf(Advance(c, x)) = (ValueOf(c) + x) % all
    <3> HIDE DEF c, x
    <3> QED
      BY <2>2, <2>4, Advanced
  <2>7. ValueOf(Behind(k + 1).counter) = (v + Under(k + 1)) % all
    <3> DEFINE w == v + u
               y == ValueOf(c)
    <3>1. w \in Nat /\ all \in Nat /\ all > 0 /\ w + x = v + (u + x)
      BY <1>2, <2>3, <2>4
    <3>2. y = w % all /\ ValueOf(Behind(k + 1).counter) = (y + x) % all
      BY <2>2, <2>5, <2>6
    <3>3. Under(k + 1) = u + x
      BY <2>3
    <3> HIDE DEF v, all, w, x, u, y
    <3>4. ((w % all) + x) % all = (w + x) % all
      BY <3>1, <2>4, Reduced
    <3> QED
      BY <3>1, <3>2, <3>3, <3>4
  <2>8. Behind(k + 1).counter \in Counter
    BY <2>5, <2>6
  <2> QED
    BY <2>1, <2>7, <2>8
<1>6. K = 0 .. L
  <2> HIDE DEF K
  <2>1. K \in SUBSET (0 .. L)
    BY DEF K
  <2> QED
    BY <1>1, <1>4, <1>5, <2>1, UpTo
<1> QED
  BY <1>6

\* Numbers that differ by less than the modulus have different remainders.
LEMMA Apart ==
  ASSUME NEW v \in Nat, NEW all \in Nat \ {0}, NEW x \in Nat, NEW y \in Nat, x < y, y < all
  PROVE  (v + x) % all # (v + y) % all
<1> DEFINE a == v + x
           b == v + y
           r == a % all
<1>1. a \in Nat /\ b \in Nat /\ all > 0 /\ b - a > 0 /\ b - a < all
  OBVIOUS
<1> HIDE DEF a, b
<1>2. PICK p \in Nat : a = all * p + (a % all)
  BY <1>1, Divided
<1>3. PICK q \in Nat : b = all * q + (b % all)
  BY <1>1, Divided
<1>4. SUFFICES ASSUME a % all = b % all PROVE FALSE
  BY DEF a, b
<1>5. all * (q - p) = b - a
  BY <1>1, <1>2, <1>3, <1>4, Z3
<1>6. CASE q - p >= 1
  BY <1>1, <1>5, <1>6, Z3
<1>7. CASE q - p <= 0
  BY <1>1, <1>5, <1>7, Z3
<1> QED
  BY <1>6, <1>7

LEMMA UsedOnce ==
  ASSUME Counted,
         NEW m \in 1 .. Len(underway), NEW n \in 1 .. Len(underway), m < n
  PROVE  Used(m) \cap Used(n) = {}
<1> SUFFICES ASSUME NEW z \in Used(m), z \in Used(n)
             PROVE  FALSE
  OBVIOUS
<1> DEFINE L == Len(underway)
           v == ValueOf(reader.counter)
           all == Counters
           From(k) == ValueOf(underway[k].at.counter)
<1>0. PICK S : underway \in Seq(S)
  BY DEF Counted, CiphersInv, Packets
<1>1. L \in Nat /\ reader.counter \in Counter /\ m \in Nat /\ n \in Nat /\ m <= n - 1
  BY <1>0 DEF Counted
<1>2. v \in Nat /\ all \in Nat \ {0}
  BY <1>1, ValueBelow
<1>3. ASSUME NEW k \in 1 .. L
      PROVE  /\ From(k) = (v + Under(k - 1)) % all /\ Under(k - 1) \in Nat
             /\ Blocks(underway[k].packet) \in Nat
             /\ Under(k) = Under(k - 1) + Blocks(underway[k].packet)
  <2>1. k - 1 \in 0 .. L
    BY <1>1
  <2>2. underway[k].at = Behind(k - 1)
    BY DEF Counted, CiphersInv, Chained
  <2>3. ValueOf(Behind(k - 1).counter) = (v + Under(k - 1)) % all
    BY <2>1, Positions
  <2>4. Blocks(underway[k].packet) \in Nat
    BY BlocksOf DEF Counted
  <2> QED
    BY <2>1, <2>2, <2>3, <2>4, UnderStep
<1>4. ASSUME NEW k \in 1 .. L, z \in Used(k)
      PROVE  \E d \in Nat : Under(k - 1) <= d /\ d < Under(k) /\ z = (v + d) % all
  <2> DEFINE x == Blocks(underway[k].packet)
             u == Under(k - 1)
  <2>1. PICK b \in 0 .. (x - 1) : z = (From(k) + b) % all
    BY <1>4 DEF Used
  <2>2. x \in Nat /\ u \in Nat /\ From(k) = (v + u) % all /\ Under(k) = u + x
    BY <1>3
  <2>3. b \in Nat /\ b < x
    BY <2>1, <2>2
  <2> DEFINE w == v + u
             a == From(k)
  <2>4. w \in Nat /\ all \in Nat /\ all > 0 /\ w + b = v + (u + b)
    <3>1. v \in Nat /\ u \in Nat /\ all \in Nat \ {0}
      BY <1>2, <2>2
    <3> HIDE DEF v, all, u
    <3> QED
      BY <2>3, <3>1
  <2>5. a = w % all /\ z = (a + b) % all
    BY <2>1, <2>2
  <2> HIDE DEF v, all, w, u, x, a, L
  <2>6. ((w % all) + b) % all = (w + b) % all
    BY <2>3, <2>4, Reduced
  <2>7. z = (v + (u + b)) % all
    BY <2>4, <2>5, <2>6
  <2>8. u + b \in Nat /\ u <= u + b /\ u + b < Under(k)
    BY <2>2, <2>3
  <2> QED
    BY <2>7, <2>8 DEF u
<1>5. PICK x \in Nat : Under(m - 1) <= x /\ x < Under(m) /\ z = (v + x) % all
  BY <1>4
<1>6. PICK y \in Nat : Under(n - 1) <= y /\ y < Under(n) /\ z = (v + y) % all
  BY <1>4
<1>7. /\ Under(m) \in Nat /\ Under(n - 1) \in Nat /\ Under(n) \in Nat
      /\ Under(m) <= Under(n - 1) /\ Under(n) <= all
  <2>1. m \in 0 .. L /\ n - 1 \in 0 .. L /\ n \in 0 .. L
    BY <1>1
  <2>2. /\ Under(m) \in 0 .. all /\ Under(n - 1) \in 0 .. all /\ Under(n) \in 0 .. all
        /\ Under(m) <= Under(n - 1)
    BY <1>1, <2>1, UnderBound
  <2> HIDE DEF all
  <2> QED
    BY <1>2, <2>2
<1>8. x < y /\ y < all
  <2> HIDE DEF all, v
  <2> QED
    BY <1>2, <1>5, <1>6, <1>7
<1> HIDE DEF all, v
<1>9. (v + x) % all # (v + y) % all
  BY <1>2, <1>8, Apart
<1> QED
  BY <1>5, <1>6, <1>9

\* The two ciphers of a direction never part: nothing is refused, the sequence
\* numbers differ by the packets under way, the counters by their blocks, and no
\* two blocks under way are encrypted with the same counter, for counters of any
\* width as long as the blocks under way are not more than all counters
\* (cipher.ts:82-154).
THEOREM CountersAgree ==
  CipherSpec => []CiphersInStep
<1>1. CipherInit => Counted
  <2> SUFFICES ASSUME CipherInit PROVE Counted
    OBVIOUS
  <2>1. CiphersInv
    BY EmptyPackets DEF CipherInit, CiphersInv, Packets, Chained, Behind
  <2>2. reader.counter = InitialCounter /\ Len(underway) = 0
    BY EmptyPackets DEF CipherInit
  <2>3. \A n \in 1 .. Len(underway) : FALSE
    BY <2>2
  <2>4. InitialCounter \in Counter /\ 0 <= MaxPackets
    BY CipherAssumption
  <2> QED
    BY <2>1, <2>2, <2>3, <2>4 DEF Counted
<1>2. Counted /\ [CipherNext]_cipherVars => Counted'
  BY CountedKept
<1>3. Counted => CountersInStep
  <2> SUFFICES ASSUME Counted PROVE CountersInStep
    OBVIOUS
  <2>0. PICK S : underway \in Seq(S)
    BY DEF Counted, CiphersInv, Packets
  <2>1. Len(underway) \in 0 .. Len(underway)
    BY <2>0
  <2>2. writer = Behind(Len(underway))
    BY DEF Counted, CiphersInv, Chained
  <2> QED
    BY <2>1, <2>2, Positions DEF CountersInStep
<1>4. Counted => CountersUsedOnce
  <2> SUFFICES ASSUME Counted, NEW m \in 1 .. Len(underway), NEW n \in 1 .. Len(underway), m # n
               PROVE  Used(m) \cap Used(n) = {}
    BY DEF CountersUsedOnce
  <2>1. CASE m < n
    BY <2>1, UsedOnce
  <2>2. CASE n < m
    BY <2>2, UsedOnce
  <2> QED
    BY <2>1, <2>2
<1>5. CipherSpec => []NoneRefused /\ []SequencesInStep
  BY NothingRefused, SequencesAgree
<1>6. CipherSpec => []Counted
  BY <1>1, <1>2, PTL DEF CipherSpec
<1>7. NoneRefused /\ SequencesInStep /\ Counted => CiphersInStep
  BY <1>3, <1>4 DEF CiphersInStep
<1> QED
  BY <1>5, <1>6, <1>7, PTL
=============================================================================
